----------------------------- MODULE BackendCall -----------------------------
(***************************************************************************)
(* What RequestExecutor relies on of one call to a backend, without saying *)
(* how the backend works: while the call runs it hands chunks to the       *)
(* client, none after one the client refused; it returns once, and not     *)
(* with success when the client refused a chunk.                           *)
(***************************************************************************)
EXTENDS Naturals

VARIABLES
  status,     \* "running", "ok" or "failed"
  delivered,  \* chunks handed to the client
  refused     \* the client refused the last one

vars == <<status, delivered, refused>>

Init == status = "running" /\ delivered = 0 /\ refused = FALSE

Deliver(accepted) ==
  /\ status = "running"
  /\ ~refused
  /\ delivered' = delivered + 1
  /\ refused' = ~accepted
  /\ UNCHANGED status

Return(outcome) ==
  /\ status = "running"
  /\ outcome = "ok" => ~refused
  /\ status' = outcome
  /\ UNCHANGED <<delivered, refused>>

Next ==
  \/ \E accepted \in BOOLEAN : Deliver(accepted)
  \/ \E outcome \in {"ok", "failed"} : Return(outcome)

Spec == Init /\ [][Next]_vars
=============================================================================
