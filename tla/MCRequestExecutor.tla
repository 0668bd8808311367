------------------------- MODULE MCRequestExecutor -------------------------
(***************************************************************************)
(* Instances of RequestExecutor for TLC: the request contents and the      *)
(* deployments that meet every branch of the executor.                     *)
(***************************************************************************)
EXTENDS RequestExecutor

Plain ==
  [override |-> "auto", valid |-> TRUE, needs |-> {}, prompt |-> "local",
   hints |-> {}, stream |-> FALSE]

Stream == [Plain EXCEPT !.stream = TRUE]
CloudStream == [Stream EXCEPT !.prompt = "cloud"]

\* Every content a request may have, up to the hints, which go together here.
AllKinds == {k \in RequestKind : k.hints = {} /\ (k.valid \/ k.needs = {})}
             \cup {[CloudStream EXCEPT !.hints = {"engine", "backend"}],
                   [Plain EXCEPT !.hints = {"backend"}]}

\* A freely routed request of either direction and a forced one.
PairKinds ==
  {Plain, CloudStream, [Stream EXCEPT !.override = "local"]}

\* Buffered requests: what the HTTP server does with an exception that leaves
\* its handler is certain, unlike one that leaves a stream's content provider.
BufferedKinds == {k \in AllKinds : ~k.stream}

AllConfigs == {c \in Config : c.inProcess \/ (c.ready /\ c.caps = Features)}

InProcessWithCloud ==
  [cloud |-> TRUE, ready |-> TRUE, caps |-> {"tools"}, inProcess |-> TRUE]

PairConfigs ==
  {InProcessWithCloud,
   [InProcessWithCloud EXCEPT !.ready = FALSE],
   [InProcessWithCloud EXCEPT !.inProcess = FALSE, !.caps = Features]}
=============================================================================
