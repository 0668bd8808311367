------------------------------ MODULE EdgeDaemon ------------------------------
(***************************************************************************)
(* The daemon's facade (runtime/edge_daemon.cpp): the runtime state and    *)
(* the last error under mutex_, and the calls that meet there: reloads,    *)
(* requests, and the probes of /health and /info.                          *)
(*                                                                         *)
(* mutex_ and the mutex of the engine registry are two locks.  A reload    *)
(* loads under the engine's lock alone and settles under both; a probe     *)
(* waits for the engine while it holds mutex_; a request needs mutex_      *)
(* before and perhaps after the executor, and the engine's lock inside it. *)
(* The engine is the in-process one, whose failed load keeps the old model *)
(* (llama_runtime.cpp).  What else the executor does is RequestExecutor's. *)
(***************************************************************************)
EXTENDS Naturals, Sequences

CONSTANTS
  Reloads,       \* calls of reload_model, each with a model of its own
  Requests,      \* calls of handle_inference and handle_inference_stream
  Probes         \* calls of health and info

Callers == Reloads \cup Requests \cup Probes

ASSUME CallersAssumption ==
  /\ Reloads \cap Requests = {} /\ Reloads \cap Probes = {} /\ Requests \cap Probes = {}
  /\ Callers \cap {"free", "none", "startup"} = {}

VARIABLES
  cloudConfigured, \* cloud_client_->is_configured()
  mutex,           \* who holds mutex_
  engineLock,      \* who holds the engine registry's mutex
  model,           \* the call that loaded the engine's model, or "none"
  state,           \* state_
  lastError,       \* last_error_: the call it comes from, or "none"
  pc,              \* where each call stands
  ok,              \* the result of a call, once it is known
  activeModel,     \* active_model_path in a reload's result
  snapshot,        \* what a probe has read
  foundReady,      \* the probes whose snapshot has local_ready set
  loads            \* history: the models loaded, in order

vars == <<cloudConfigured, mutex, engineLock, model, state, lastError, pc, ok, activeModel,
          snapshot, foundReady, loads>>

EngineReady == model # "none"

\* update_state_locked
StateFor(ready) ==
  IF ready THEN "ready" ELSE IF cloudConfigured THEN "degraded" ELSE "failed"

\* After initialize(), whose result main ignores.
Init ==
  /\ cloudConfigured \in BOOLEAN
  /\ mutex = "free"
  /\ engineLock = "free"
  /\ model \in {"none", "startup"}
  /\ loads = IF EngineReady THEN <<model>> ELSE <<>>
  /\ state = StateFor(EngineReady)
  /\ lastError \in IF EngineReady THEN {"none"} ELSE {"startup"}
  /\ pc = [c \in Callers |-> "idle"]
  /\ ok = [c \in Callers |-> FALSE]
  /\ activeModel = [c \in Reloads |-> "none"]
  /\ snapshot = [c \in Probes |-> [state |-> "failed", model |-> "none", error |-> "none"]]
  /\ foundReady = {}

Goto(c, place) == pc' = [pc EXCEPT ![c] = place]

-----------------------------------------------------------------------------
(* reload_model *)

\* An empty path is refused before anything is touched.
RefuseReload(c) ==
  /\ pc[c] = "idle"
  /\ Goto(c, "done")
  /\ UNCHANGED <<cloudConfigured, mutex, engineLock, model, state, lastError, ok, activeModel,
                 snapshot, foundReady, loads>>

BeginReload(c) ==
  /\ pc[c] = "idle"
  /\ mutex = "free"
  /\ state' = "reloading"
  /\ lastError' = "none"
  /\ Goto(c, "load")
  /\ UNCHANGED <<cloudConfigured, mutex, engineLock, model, ok, activeModel, snapshot,
                 foundReady, loads>>

StartLoad(c) ==
  /\ pc[c] = "load"
  /\ engineLock = "free"
  /\ engineLock' = c
  /\ Goto(c, "loading")
  /\ UNCHANGED <<cloudConfigured, mutex, model, state, lastError, ok, activeModel, snapshot,
                 foundReady, loads>>

\* The new bundle replaces the old one only when it is complete and warm.
EndLoad_DropsModelFirst(c, loaded) ==
  /\ pc[c] = "loading"
  /\ engineLock' = "free"
  /\ ok' = [ok EXCEPT ![c] = loaded]
  /\ model' = IF loaded THEN c ELSE "none"
  /\ loads' = IF loaded THEN Append(loads, c) ELSE loads
  /\ Goto(c, "settle")
  /\ UNCHANGED <<cloudConfigured, mutex, state, lastError, activeModel, snapshot, foundReady>>
EndLoad_KeepsOldModel(c, loaded) ==
  /\ pc[c] = "loading"
  /\ engineLock' = "free"
  /\ ok' = [ok EXCEPT ![c] = loaded]
  /\ model' = IF loaded /\ ~EngineReady THEN c ELSE model
  /\ loads' = IF loaded THEN Append(loads, c) ELSE loads
  /\ Goto(c, "settle")
  /\ UNCHANGED <<cloudConfigured, mutex, state, lastError, activeModel, snapshot, foundReady>>
EndLoad_KeepsLock(c, loaded) ==
  /\ pc[c] = "loading"
  /\ engineLock' = IF loaded THEN "free" ELSE c
  /\ ok' = [ok EXCEPT ![c] = loaded]
  /\ model' = IF loaded THEN c ELSE model
  /\ loads' = IF loaded THEN Append(loads, c) ELSE loads
  /\ Goto(c, "settle")
  /\ UNCHANGED <<cloudConfigured, mutex, state, lastError, activeModel, snapshot, foundReady>>
EndLoad(c, loaded) ==
  /\ pc[c] = "loading"
  /\ engineLock' = "free"
  /\ ok' = [ok EXCEPT ![c] = loaded]
  /\ model' = IF loaded THEN c ELSE model
  /\ loads' = IF loaded THEN Append(loads, c) ELSE loads
  /\ Goto(c, "settle")
  /\ UNCHANGED <<cloudConfigured, mutex, state, lastError, activeModel, snapshot, foundReady>>

Settle(c) ==
  /\ pc[c] = "settle"
  /\ mutex = "free"
  /\ mutex' = c
  /\ lastError' = IF ok[c] THEN "none" ELSE c
  /\ Goto(c, "updateState")
  /\ UNCHANGED <<cloudConfigured, engineLock, model, state, ok, activeModel, snapshot,
                 foundReady, loads>>

\* is_ready() and update_state_locked: the state follows the engine, not the reload.
UpdateState_FromResult(c) ==
  /\ pc[c] = "updateState"
  /\ engineLock = "free"
  /\ state' = StateFor(ok[c])
  /\ Goto(c, "readActive")
  /\ UNCHANGED <<cloudConfigured, mutex, engineLock, model, lastError, ok, activeModel,
                 snapshot, foundReady, loads>>
UpdateState(c) ==
  /\ pc[c] = "updateState"
  /\ engineLock = "free"
  /\ state' = StateFor(EngineReady)
  /\ Goto(c, "readActive")
  /\ UNCHANGED <<cloudConfigured, mutex, engineLock, model, lastError, ok, activeModel,
                 snapshot, foundReady, loads>>

ReadActive_KeepsMutex(c) ==
  /\ pc[c] = "readActive"
  /\ engineLock = "free"
  /\ activeModel' = [activeModel EXCEPT ![c] = model]
  /\ Goto(c, "done")
  /\ UNCHANGED <<cloudConfigured, mutex, engineLock, model, state, lastError, ok, snapshot,
                 foundReady, loads>>
ReadActive(c) ==
  /\ pc[c] = "readActive"
  /\ engineLock = "free"
  /\ activeModel' = [activeModel EXCEPT ![c] = model]
  /\ mutex' = "free"
  /\ Goto(c, "done")
  /\ UNCHANGED <<cloudConfigured, engineLock, model, state, lastError, ok, snapshot, foundReady,
                 loads>>

-----------------------------------------------------------------------------
(* handle_inference and handle_inference_stream *)

\* The request takes its defaults under mutex_.
Enter(c) ==
  /\ pc[c] = "idle"
  /\ mutex = "free"
  /\ Goto(c, "executing")
  /\ UNCHANGED <<cloudConfigured, mutex, engineLock, model, state, lastError, ok, activeModel,
                 snapshot, foundReady, loads>>

\* The executor generates on the engine, or does without it.
UseEngine(c) ==
  /\ pc[c] = "executing"
  /\ engineLock = "free"
  /\ engineLock' = c
  /\ Goto(c, "generating")
  /\ UNCHANGED <<cloudConfigured, mutex, model, state, lastError, ok, activeModel, snapshot,
                 foundReady, loads>>

\* An exception leaves handle_inference before the error is recorded; the
\* engine's lock is a guard's and is released all the same.
Answer(c, outcome) ==
  /\ pc[c] \in {"executing", "generating"}
  /\ engineLock' = IF pc[c] = "generating" THEN "free" ELSE engineLock
  /\ ok' = [ok EXCEPT ![c] = outcome = "answered"]
  /\ Goto(c, IF outcome = "failed" THEN "failing" ELSE "done")
  /\ UNCHANGED <<cloudConfigured, mutex, model, state, lastError, activeModel, snapshot,
                 foundReady, loads>>

ReportFailure(c) ==
  /\ pc[c] = "failing"
  /\ mutex = "free"
  /\ lastError' = c
  /\ Goto(c, "done")
  /\ UNCHANGED <<cloudConfigured, mutex, engineLock, model, state, ok, activeModel, snapshot,
                 foundReady, loads>>

-----------------------------------------------------------------------------
(* health and info *)

\* health() asks the engine twice, info() once; both hold mutex_ throughout.
BeginProbe(c) ==
  /\ pc[c] = "idle"
  /\ mutex = "free"
  /\ mutex' = c
  /\ snapshot' = [snapshot EXCEPT ![c].state = state]
  /\ \E question \in {"askReady", "askInfo"} : Goto(c, question)
  /\ UNCHANGED <<cloudConfigured, engineLock, model, state, lastError, ok, activeModel,
                 foundReady, loads>>

AskReady(c) ==
  /\ pc[c] = "askReady"
  /\ engineLock = "free"
  /\ foundReady' = IF EngineReady THEN foundReady \cup {c} ELSE foundReady
  /\ Goto(c, "askModel")
  /\ UNCHANGED <<cloudConfigured, mutex, engineLock, model, state, lastError, ok, activeModel,
                 snapshot, loads>>

AskModel(c) ==
  /\ pc[c] \in {"askModel", "askInfo"}
  /\ engineLock = "free"
  /\ snapshot' = [snapshot EXCEPT ![c] = [state |-> @.state, model |-> model,
                                           error |-> lastError]]
  /\ foundReady' = IF pc[c] = "askInfo" /\ EngineReady THEN foundReady \cup {c} ELSE foundReady
  /\ mutex' = "free"
  /\ Goto(c, "done")
  /\ UNCHANGED <<cloudConfigured, engineLock, model, state, lastError, ok, activeModel, loads>>

-----------------------------------------------------------------------------

Reload(c) ==
  \/ RefuseReload(c)
  \/ BeginReload(c)
  \/ StartLoad(c)
  \/ \E loaded \in BOOLEAN : EndLoad(c, loaded)
  \/ Settle(c)
  \/ UpdateState(c)
  \/ ReadActive(c)

HandleInference(c) ==
  \/ Enter(c)
  \/ UseEngine(c)
  \/ \E outcome \in {"answered", "failed", "threw"} : Answer(c, outcome)
  \/ ReportFailure(c)

Probe(c) == BeginProbe(c) \/ AskReady(c) \/ AskModel(c)

AllDone ==
  /\ \A c \in Callers : pc[c] = "done"
  /\ UNCHANGED vars

Next ==
  \/ \E c \in Reloads : Reload(c)
  \/ \E c \in Requests : HandleInference(c)
  \/ \E c \in Probes : Probe(c)
  \/ AllDone

Spec == Init /\ [][Next]_vars

\* Every thread runs on; loads and generations end, a stream's by the write
\* timeout of the HTTP server at the latest.
FairSpec ==
  /\ Spec
  /\ \A c \in Reloads : WF_vars(Reload(c))
  /\ \A c \in Requests : WF_vars(HandleInference(c))
  /\ \A c \in Probes : WF_vars(Probe(c))

-----------------------------------------------------------------------------
(* Properties *)

Models == {"none", "startup"} \cup Reloads
States == {"ready", "degraded", "failed", "reloading"}

\* A lock is held at the places where the code holds it and nowhere else.
LocksHeld ==
  \A c \in Callers :
    /\ mutex = c <=> pc[c] \in {"updateState", "readActive", "askReady", "askModel", "askInfo"}
    /\ engineLock = c <=> pc[c] \in {"loading", "generating"}

\* Each variable has its type, and the two locks their holders.
TypeOK ==
  /\ cloudConfigured \in BOOLEAN
  /\ mutex \in Callers \cup {"free"}
  /\ engineLock \in Callers \cup {"free"}
  /\ model \in Models
  /\ state \in States
  /\ lastError \in Models \cup Requests
  /\ pc \in [Callers -> {"idle", "load", "loading", "settle", "updateState", "readActive",
                         "executing", "generating", "failing", "askReady", "askModel",
                         "askInfo", "done"}]
  /\ ok \in [Callers -> BOOLEAN]
  /\ activeModel \in [Reloads -> Models]
  /\ snapshot \in [Probes -> [state : States, model : Models, error : Models \cup Requests]]
  /\ foundReady \subseteq Probes
  /\ loads \in Seq(Models)
  /\ LocksHeld

\* When no reload is under way, the state tells whether the engine is ready,
\* however reloads overlapped and whichever of them settled last.
StateFitsEngine ==
  (\A c \in Reloads : pc[c] \in {"idle", "readActive", "done"}) =>
    state = StateFor(EngineReady)

\* A snapshot that says "ready" has found the engine ready, and one that
\* has found it ready names a model, although state and engine are under two
\* locks and the engine is asked twice.
SnapshotIsConsistent ==
  \A c \in Probes :
    pc[c] = "done" =>
      /\ snapshot[c].state = "ready" => c \in foundReady
      /\ c \in foundReady => snapshot[c].model # "none"

\* A reload that reports success names its own model or one loaded after it.
ReloadReportsNoOlderModel ==
  \A c \in Reloads :
    pc[c] = "done" /\ ok[c] =>
      \E i, j \in DOMAIN loads :
        i <= j /\ loads[i] = c /\ loads[j] = activeModel[c]

\* A call that has begun returns: no order of the two locks blocks another.
EveryCallReturns ==
  \A c \in Callers : pc[c] # "idle" ~> pc[c] = "done"

-----------------------------------------------------------------------------
(* The inductive invariant *)

\* The engine runs the model loaded last, and is never unready again.
EngineInv ==
  /\ EngineReady <=> loads # <<>>
  /\ loads # <<>> => model = loads[Len(loads)]
  /\ state = "ready" => EngineReady

\* A reload knows of its success once it has loaded, and not before.
ReloadInv ==
  \A c \in Reloads :
    /\ ok[c] => \E i \in DOMAIN loads : loads[i] = c
    /\ pc[c] \in {"idle", "load", "loading"} => ~ok[c]

\* What a probe has read and has yet to read fits together.
ProbeInv ==
  \A c \in Probes :
    /\ c \in foundReady => EngineReady
    /\ pc[c] \in {"askReady", "askInfo"} /\ snapshot[c].state = "ready" => EngineReady
    /\ pc[c] = "askModel" /\ snapshot[c].state = "ready" => c \in foundReady

IInv ==
  /\ TypeOK
  /\ EngineInv
  /\ StateFitsEngine
  /\ ReloadInv /\ ReloadReportsNoOlderModel
  /\ ProbeInv /\ SnapshotIsConsistent
=============================================================================
