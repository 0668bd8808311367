---------------------------- MODULE MCCloudClient ----------------------------
(***************************************************************************)
(* Calls of CloudClient for TLC.                                           *)
(***************************************************************************)
EXTENDS CloudClient

\* Up to three attempts; deadlines that end before, with and after the pause.
SomeCalls ==
  [retries : 0..2, timeout : 1..2, backoff : 0..2, streaming : BOOLEAN]

\* Arguments that may repeat what came before them, or differ.
MCCharacters == {"a", "b"}
MCFragments == {<<"a">>, <<"b">>}

\* A streaming call with one retry.
OneRetry == {[retries |-> 1, timeout |-> 2, backoff |-> 1, streaming |-> TRUE]}
=============================================================================
