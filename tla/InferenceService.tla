-------------------------- MODULE InferenceService --------------------------
(***************************************************************************)
(* What the edge daemon promises about one chat-completion request, seen   *)
(* from outside and without saying how: the request is submitted with a    *)
(* route override, at most one backend ever speaks to the client, that     *)
(* backend is one the override permits, and the request is settled once,   *)
(* by an answer of the backend that spoke, by an error, or by an exception *)
(* that nothing catches.  RequestExecutor and ChatService implement it.    *)
(***************************************************************************)
CONSTANT Requests

VARIABLES
  stage,   \* how far each request has got
  asked,   \* the route override each request was submitted with
  source   \* the backend the client has heard from, "none" before that

vars == <<stage, asked, source>>

Backends == {"local", "cloud"}
Overrides == Backends \cup {"auto"}
Settled == {"answered", "failed", "aborted"}

Permitted(r) == IF asked[r] = "auto" THEN Backends ELSE {asked[r]}

Init ==
  /\ stage = [r \in Requests |-> "new"]
  /\ asked = [r \in Requests |-> "auto"]
  /\ source = [r \in Requests |-> "none"]

Submit(r, override) ==
  /\ stage[r] = "new"
  /\ stage' = [stage EXCEPT ![r] = "working"]
  /\ asked' = [asked EXCEPT ![r] = override]
  /\ UNCHANGED source

\* The first chunk of a stream; the chunks that follow it change nothing here.
Speak(r, b) ==
  /\ stage[r] = "working"
  /\ source[r] = "none"
  /\ b \in Permitted(r)
  /\ source' = [source EXCEPT ![r] = b]
  /\ UNCHANGED <<stage, asked>>

Answer(r, b) ==
  /\ stage[r] = "working"
  /\ source[r] \in {"none", b}
  /\ b \in Permitted(r)
  /\ stage' = [stage EXCEPT ![r] = "answered"]
  /\ source' = [source EXCEPT ![r] = b]
  /\ UNCHANGED asked

\* An exception that what the backend says first runs into.
BreakOff(r, b) ==
  /\ stage[r] = "working"
  /\ source[r] \in {"none", b}
  /\ b \in Permitted(r)
  /\ stage' = [stage EXCEPT ![r] = "aborted"]
  /\ source' = [source EXCEPT ![r] = b]
  /\ UNCHANGED asked

GiveUp(r, outcome) ==
  /\ stage[r] = "working"
  /\ outcome \in {"failed", "aborted"}
  /\ stage' = [stage EXCEPT ![r] = outcome]
  /\ UNCHANGED <<asked, source>>

Next ==
  \E r \in Requests :
    \/ \E override \in Overrides : Submit(r, override)
    \/ \E b \in Backends : Speak(r, b) \/ Answer(r, b) \/ BreakOff(r, b)
    \/ \E outcome \in Settled : GiveUp(r, outcome)

Spec == Init /\ [][Next]_vars
=============================================================================
