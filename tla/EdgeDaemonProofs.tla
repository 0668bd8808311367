--------------------------- MODULE EdgeDaemonProofs ---------------------------
(***************************************************************************)
(* Theorems about EdgeDaemon, for any number of reloads, requests and      *)
(* probes: the invariant IInv of EdgeDaemon is inductive, and the safety   *)
(* properties follow from it.                                              *)
(***************************************************************************)
EXTENDS EdgeDaemon, TLAPS

LEMMA InitIInv == Init => IInv
<1> SUFFICES ASSUME Init PROVE IInv
  OBVIOUS
<1> USE CallersAssumption DEF Init
<1>1. snapshot \in [Probes -> [state : States, model : Models, error : Models \cup Requests]]
  BY DEF States, Models
<1>2. LocksHeld
  BY DEF LocksHeld, Callers
<1>3. loads \in Seq(Models) /\ model \in Models /\ state \in States
      /\ lastError \in Models \cup Requests
  <2>1. CASE EngineReady
    BY <2>1 DEF Models, States, EngineReady, StateFor
  <2>2. CASE ~EngineReady
    BY <2>2 DEF Models, States, EngineReady, StateFor
  <2> QED
    BY <2>1, <2>2
<1>4. pc \in [Callers -> {"idle"}] /\ ok \in [Callers -> BOOLEAN]
      /\ activeModel \in [Reloads -> Models]
  BY DEF Models
<1>5. TypeOK
  BY <1>1, <1>2, <1>3, <1>4 DEF TypeOK
<1>6. EngineInv /\ StateFitsEngine
  BY DEF EngineInv, StateFitsEngine, EngineReady, StateFor
<1>7. ReloadInv /\ ReloadReportsNoOlderModel /\ ProbeInv /\ SnapshotIsConsistent
  BY DEF ReloadInv, ReloadReportsNoOlderModel, ProbeInv, SnapshotIsConsistent, Callers
<1> QED
  BY <1>5, <1>6, <1>7 DEF IInv

\* Next, one action per disjunct.
LEMMA Step ==
  ASSUME [Next]_vars
  PROVE  \/ \E c \in Reloads : RefuseReload(c)
         \/ \E c \in Reloads : BeginReload(c)
         \/ \E c \in Reloads : StartLoad(c)
         \/ \E c \in Reloads, loaded \in BOOLEAN : EndLoad(c, loaded)
         \/ \E c \in Reloads : Settle(c)
         \/ \E c \in Reloads : UpdateState(c)
         \/ \E c \in Reloads : ReadActive(c)
         \/ \E c \in Requests : Enter(c)
         \/ \E c \in Requests : UseEngine(c)
         \/ \E c \in Requests, outcome \in {"answered", "failed", "threw"} : Answer(c, outcome)
         \/ \E c \in Requests : ReportFailure(c)
         \/ \E c \in Probes : BeginProbe(c)
         \/ \E c \in Probes : AskReady(c)
         \/ \E c \in Probes : AskModel(c)
         \/ UNCHANGED vars
BY Zenon DEF Next, Reload, HandleInference, Probe, AllDone

-----------------------------------------------------------------------------
(* One lemma per part of the invariant *)

LEMMA TypeStep == IInv /\ [Next]_vars => TypeOK'
<1> SUFFICES ASSUME IInv, [Next]_vars PROVE TypeOK'
  OBVIOUS
<1> USE CallersAssumption DEF IInv, TypeOK, LocksHeld, Callers, Models, States, Goto
<1>1. ASSUME NEW c \in Reloads, RefuseReload(c)
      PROVE  TypeOK'
  BY <1>1 DEF RefuseReload, StateFor, EngineReady
<1>2. ASSUME NEW c \in Reloads, BeginReload(c)
      PROVE  TypeOK'
  BY <1>2 DEF BeginReload, StateFor, EngineReady
<1>3. ASSUME NEW c \in Reloads, StartLoad(c)
      PROVE  TypeOK'
  BY <1>3 DEF StartLoad, StateFor, EngineReady
<1>4. ASSUME NEW c \in Reloads, NEW loaded \in BOOLEAN, EndLoad(c, loaded)
      PROVE  TypeOK'
  BY <1>4 DEF EndLoad, StateFor, EngineReady
<1>5. ASSUME NEW c \in Reloads, Settle(c)
      PROVE  TypeOK'
  BY <1>5 DEF Settle, StateFor, EngineReady
<1>6. ASSUME NEW c \in Reloads, UpdateState(c)
      PROVE  TypeOK'
  BY <1>6 DEF UpdateState, StateFor, EngineReady
<1>7. ASSUME NEW c \in Reloads, ReadActive(c)
      PROVE  TypeOK'
  BY <1>7 DEF ReadActive, StateFor, EngineReady
<1>8. ASSUME NEW c \in Requests, Enter(c)
      PROVE  TypeOK'
  BY <1>8 DEF Enter, StateFor, EngineReady
<1>9. ASSUME NEW c \in Requests, UseEngine(c)
      PROVE  TypeOK'
  BY <1>9 DEF UseEngine, StateFor, EngineReady
<1>10. ASSUME NEW c \in Requests, NEW outcome \in {"answered", "failed", "threw"}, Answer(c, outcome)
      PROVE  TypeOK'
  BY <1>10 DEF Answer, StateFor, EngineReady
<1>11. ASSUME NEW c \in Requests, ReportFailure(c)
      PROVE  TypeOK'
  BY <1>11 DEF ReportFailure, StateFor, EngineReady
<1>12. ASSUME NEW c \in Probes, BeginProbe(c)
      PROVE  TypeOK'
  BY <1>12 DEF BeginProbe, StateFor, EngineReady
<1>13. ASSUME NEW c \in Probes, AskReady(c)
      PROVE  TypeOK'
  BY <1>13 DEF AskReady, StateFor, EngineReady
<1>14. ASSUME NEW c \in Probes, AskModel(c)
      PROVE  TypeOK'
  <2>1. snapshot' \in [Probes -> [state : States, model : Models, error : Models \cup Requests]]
    <3>1. model \in Models /\ lastError \in Models \cup Requests
      OBVIOUS
    <3>2. snapshot' = [snapshot EXCEPT ![c] = [state |-> snapshot[c].state, model |-> model,
                                               error |-> lastError]]
      BY <1>14 DEF AskModel
    <3>3. snapshot[c].state \in States
      OBVIOUS
    <3> QED
      BY <3>1, <3>2, <3>3
  <2>2. foundReady' \subseteq Probes
    BY <1>14 DEF AskModel
  <2>3. LocksHeld'
    <3>1. /\ pc[c] \in {"askModel", "askInfo"}
          /\ mutex' = "free" /\ engineLock' = engineLock /\ pc' = [pc EXCEPT ![c] = "done"]
      BY <1>14 DEF AskModel
    <3> QED
      BY <3>1
  <2> QED
    BY <1>14, <2>1, <2>2, <2>3 DEF AskModel
<1>15. CASE UNCHANGED vars
  BY <1>15 DEF vars, StateFor, EngineReady
<1> QED
  BY <1>1, <1>2, <1>3, <1>4, <1>5, <1>6, <1>7, <1>8, <1>9, <1>10, <1>11, <1>12, <1>13, <1>14, <1>15, Step

LEMMA EngineStep == IInv /\ [Next]_vars => EngineInv'
<1> SUFFICES ASSUME IInv, [Next]_vars PROVE EngineInv'
  OBVIOUS
<1> USE CallersAssumption DEF IInv, TypeOK, EngineInv, Callers, Models, Goto
<1>1. ASSUME NEW c \in Reloads, RefuseReload(c)
      PROVE  EngineInv'
  BY <1>1 DEF RefuseReload, StateFor, EngineReady
<1>2. ASSUME NEW c \in Reloads, BeginReload(c)
      PROVE  EngineInv'
  BY <1>2 DEF BeginReload, StateFor, EngineReady
<1>3. ASSUME NEW c \in Reloads, StartLoad(c)
      PROVE  EngineInv'
  BY <1>3 DEF StartLoad, StateFor, EngineReady
<1>4. ASSUME NEW c \in Reloads, NEW loaded \in BOOLEAN, EndLoad(c, loaded)
      PROVE  EngineInv'
  BY <1>4 DEF EndLoad, StateFor, EngineReady
<1>5. ASSUME NEW c \in Reloads, Settle(c)
      PROVE  EngineInv'
  BY <1>5 DEF Settle, StateFor, EngineReady
<1>6. ASSUME NEW c \in Reloads, UpdateState(c)
      PROVE  EngineInv'
  BY <1>6 DEF UpdateState, StateFor, EngineReady
<1>7. ASSUME NEW c \in Reloads, ReadActive(c)
      PROVE  EngineInv'
  BY <1>7 DEF ReadActive, StateFor, EngineReady
<1>8. ASSUME NEW c \in Requests, Enter(c)
      PROVE  EngineInv'
  BY <1>8 DEF Enter, StateFor, EngineReady
<1>9. ASSUME NEW c \in Requests, UseEngine(c)
      PROVE  EngineInv'
  BY <1>9 DEF UseEngine, StateFor, EngineReady
<1>10. ASSUME NEW c \in Requests, NEW outcome \in {"answered", "failed", "threw"}, Answer(c, outcome)
      PROVE  EngineInv'
  BY <1>10 DEF Answer, StateFor, EngineReady
<1>11. ASSUME NEW c \in Requests, ReportFailure(c)
      PROVE  EngineInv'
  BY <1>11 DEF ReportFailure, StateFor, EngineReady
<1>12. ASSUME NEW c \in Probes, BeginProbe(c)
      PROVE  EngineInv'
  BY <1>12 DEF BeginProbe, StateFor, EngineReady
<1>13. ASSUME NEW c \in Probes, AskReady(c)
      PROVE  EngineInv'
  BY <1>13 DEF AskReady, StateFor, EngineReady
<1>14. ASSUME NEW c \in Probes, AskModel(c)
      PROVE  EngineInv'
  BY <1>14 DEF AskModel, StateFor, EngineReady
<1>15. CASE UNCHANGED vars
  BY <1>15 DEF vars, StateFor, EngineReady
<1> QED
  BY <1>1, <1>2, <1>3, <1>4, <1>5, <1>6, <1>7, <1>8, <1>9, <1>10, <1>11, <1>12, <1>13, <1>14, <1>15, Step

LEMMA StateStep == IInv /\ [Next]_vars => StateFitsEngine'
<1> SUFFICES ASSUME IInv, [Next]_vars PROVE StateFitsEngine'
  OBVIOUS
<1> USE CallersAssumption DEF IInv, TypeOK, StateFitsEngine, Callers, Goto
<1>1. ASSUME NEW c \in Reloads, RefuseReload(c)
      PROVE  StateFitsEngine'
  BY <1>1 DEF RefuseReload, StateFor, EngineReady
<1>2. ASSUME NEW c \in Reloads, BeginReload(c)
      PROVE  StateFitsEngine'
  BY <1>2 DEF BeginReload, StateFor, EngineReady
<1>3. ASSUME NEW c \in Reloads, StartLoad(c)
      PROVE  StateFitsEngine'
  BY <1>3 DEF StartLoad, StateFor, EngineReady
<1>4. ASSUME NEW c \in Reloads, NEW loaded \in BOOLEAN, EndLoad(c, loaded)
      PROVE  StateFitsEngine'
  BY <1>4 DEF EndLoad, StateFor, EngineReady
<1>5. ASSUME NEW c \in Reloads, Settle(c)
      PROVE  StateFitsEngine'
  BY <1>5 DEF Settle, StateFor, EngineReady
<1>6. ASSUME NEW c \in Reloads, UpdateState(c)
      PROVE  StateFitsEngine'
  BY <1>6 DEF UpdateState, StateFor, EngineReady
<1>7. ASSUME NEW c \in Reloads, ReadActive(c)
      PROVE  StateFitsEngine'
  BY <1>7 DEF ReadActive, StateFor, EngineReady
<1>8. ASSUME NEW c \in Requests, Enter(c)
      PROVE  StateFitsEngine'
  BY <1>8 DEF Enter, StateFor, EngineReady
<1>9. ASSUME NEW c \in Requests, UseEngine(c)
      PROVE  StateFitsEngine'
  BY <1>9 DEF UseEngine, StateFor, EngineReady
<1>10. ASSUME NEW c \in Requests, NEW outcome \in {"answered", "failed", "threw"}, Answer(c, outcome)
      PROVE  StateFitsEngine'
  BY <1>10 DEF Answer, StateFor, EngineReady
<1>11. ASSUME NEW c \in Requests, ReportFailure(c)
      PROVE  StateFitsEngine'
  BY <1>11 DEF ReportFailure, StateFor, EngineReady
<1>12. ASSUME NEW c \in Probes, BeginProbe(c)
      PROVE  StateFitsEngine'
  BY <1>12 DEF BeginProbe, StateFor, EngineReady
<1>13. ASSUME NEW c \in Probes, AskReady(c)
      PROVE  StateFitsEngine'
  BY <1>13 DEF AskReady, StateFor, EngineReady
<1>14. ASSUME NEW c \in Probes, AskModel(c)
      PROVE  StateFitsEngine'
  BY <1>14 DEF AskModel, StateFor, EngineReady
<1>15. CASE UNCHANGED vars
  BY <1>15 DEF vars, StateFor, EngineReady
<1> QED
  BY <1>1, <1>2, <1>3, <1>4, <1>5, <1>6, <1>7, <1>8, <1>9, <1>10, <1>11, <1>12, <1>13, <1>14, <1>15, Step

LEMMA ReloadStep == IInv /\ [Next]_vars => (ReloadInv /\ ReloadReportsNoOlderModel)'
<1> SUFFICES ASSUME IInv, [Next]_vars PROVE (ReloadInv /\ ReloadReportsNoOlderModel)'
  OBVIOUS
<1> USE CallersAssumption DEF IInv, TypeOK, ReloadInv, ReloadReportsNoOlderModel, EngineInv, Callers, Goto, EngineReady
<1>1. ASSUME NEW c \in Reloads, RefuseReload(c)
      PROVE  (ReloadInv /\ ReloadReportsNoOlderModel)'
  BY <1>1 DEF RefuseReload, Models
<1>2. ASSUME NEW c \in Reloads, BeginReload(c)
      PROVE  (ReloadInv /\ ReloadReportsNoOlderModel)'
  BY <1>2 DEF BeginReload, Models
<1>3. ASSUME NEW c \in Reloads, StartLoad(c)
      PROVE  (ReloadInv /\ ReloadReportsNoOlderModel)'
  BY <1>3 DEF StartLoad, Models
<1>4. ASSUME NEW c \in Reloads, NEW loaded \in BOOLEAN, EndLoad(c, loaded)
      PROVE  (ReloadInv /\ ReloadReportsNoOlderModel)'
  <2>1. ASSUME NEW i \in DOMAIN loads PROVE i \in DOMAIN loads' /\ loads'[i] = loads[i]
    BY <1>4 DEF EndLoad, Models
  <2>2. loaded => Len(loads') \in DOMAIN loads' /\ loads'[Len(loads')] = c
    BY <1>4 DEF EndLoad, Models
  <2>3. ASSUME NEW d \in Reloads PROVE ok'[d] => \E i \in DOMAIN loads' : loads'[i] = d
    <3>1. CASE d = c
      BY <1>4, <2>2, <3>1 DEF EndLoad
    <3>2. CASE d # c
      BY <1>4, <2>1, <3>2 DEF EndLoad
    <3> QED
      BY <3>1, <3>2
  <2>4. ReloadInv'
    BY <1>4, <2>3 DEF EndLoad
  <2>5. ASSUME NEW d \in Reloads, pc'[d] = "done", ok'[d]
        PROVE  \E i, j \in DOMAIN loads' :
                 i <= j /\ loads'[i] = d /\ loads'[j] = activeModel'[d]
    <3>1. d # c /\ pc[d] = "done" /\ ok[d] /\ activeModel'[d] = activeModel[d]
      BY <1>4, <2>5 DEF EndLoad
    <3>2. PICK i \in DOMAIN loads, j \in DOMAIN loads :
            i <= j /\ loads[i] = d /\ loads[j] = activeModel[d]
      BY <3>1
    <3> QED
      BY <2>1, <3>1, <3>2
  <2> QED
    BY <2>4, <2>5
<1>5. ASSUME NEW c \in Reloads, Settle(c)
      PROVE  (ReloadInv /\ ReloadReportsNoOlderModel)'
  BY <1>5 DEF Settle, Models
<1>6. ASSUME NEW c \in Reloads, UpdateState(c)
      PROVE  (ReloadInv /\ ReloadReportsNoOlderModel)'
  BY <1>6 DEF UpdateState, Models
<1>7. ASSUME NEW c \in Reloads, ReadActive(c)
      PROVE  (ReloadInv /\ ReloadReportsNoOlderModel)'
  BY <1>7 DEF ReadActive, Models
<1>8. ASSUME NEW c \in Requests, Enter(c)
      PROVE  (ReloadInv /\ ReloadReportsNoOlderModel)'
  BY <1>8 DEF Enter, Models
<1>9. ASSUME NEW c \in Requests, UseEngine(c)
      PROVE  (ReloadInv /\ ReloadReportsNoOlderModel)'
  BY <1>9 DEF UseEngine, Models
<1>10. ASSUME NEW c \in Requests, NEW outcome \in {"answered", "failed", "threw"}, Answer(c, outcome)
      PROVE  (ReloadInv /\ ReloadReportsNoOlderModel)'
  BY <1>10 DEF Answer, Models
<1>11. ASSUME NEW c \in Requests, ReportFailure(c)
      PROVE  (ReloadInv /\ ReloadReportsNoOlderModel)'
  BY <1>11 DEF ReportFailure, Models
<1>12. ASSUME NEW c \in Probes, BeginProbe(c)
      PROVE  (ReloadInv /\ ReloadReportsNoOlderModel)'
  BY <1>12 DEF BeginProbe, Models
<1>13. ASSUME NEW c \in Probes, AskReady(c)
      PROVE  (ReloadInv /\ ReloadReportsNoOlderModel)'
  BY <1>13 DEF AskReady, Models
<1>14. ASSUME NEW c \in Probes, AskModel(c)
      PROVE  (ReloadInv /\ ReloadReportsNoOlderModel)'
  BY <1>14 DEF AskModel, Models
<1>15. CASE UNCHANGED vars
  BY <1>15 DEF vars, Models
<1> QED
  BY <1>1, <1>2, <1>3, <1>4, <1>5, <1>6, <1>7, <1>8, <1>9, <1>10, <1>11, <1>12, <1>13, <1>14, <1>15, Step

LEMMA ProbeStep == IInv /\ [Next]_vars => (ProbeInv /\ SnapshotIsConsistent)'
<1> SUFFICES ASSUME IInv, [Next]_vars PROVE (ProbeInv /\ SnapshotIsConsistent)'
  OBVIOUS
<1> USE CallersAssumption DEF IInv, TypeOK, ProbeInv, SnapshotIsConsistent, EngineInv, Callers, Goto, EngineReady
<1>1. ASSUME NEW c \in Reloads, RefuseReload(c)
      PROVE  (ProbeInv /\ SnapshotIsConsistent)'
  BY <1>1 DEF RefuseReload, Models
<1>2. ASSUME NEW c \in Reloads, BeginReload(c)
      PROVE  (ProbeInv /\ SnapshotIsConsistent)'
  BY <1>2 DEF BeginReload, Models
<1>3. ASSUME NEW c \in Reloads, StartLoad(c)
      PROVE  (ProbeInv /\ SnapshotIsConsistent)'
  BY <1>3 DEF StartLoad, Models
<1>4. ASSUME NEW c \in Reloads, NEW loaded \in BOOLEAN, EndLoad(c, loaded)
      PROVE  (ProbeInv /\ SnapshotIsConsistent)'
  BY <1>4 DEF EndLoad, Models
<1>5. ASSUME NEW c \in Reloads, Settle(c)
      PROVE  (ProbeInv /\ SnapshotIsConsistent)'
  BY <1>5 DEF Settle, Models
<1>6. ASSUME NEW c \in Reloads, UpdateState(c)
      PROVE  (ProbeInv /\ SnapshotIsConsistent)'
  BY <1>6 DEF UpdateState, Models
<1>7. ASSUME NEW c \in Reloads, ReadActive(c)
      PROVE  (ProbeInv /\ SnapshotIsConsistent)'
  BY <1>7 DEF ReadActive, Models
<1>8. ASSUME NEW c \in Requests, Enter(c)
      PROVE  (ProbeInv /\ SnapshotIsConsistent)'
  BY <1>8 DEF Enter, Models
<1>9. ASSUME NEW c \in Requests, UseEngine(c)
      PROVE  (ProbeInv /\ SnapshotIsConsistent)'
  BY <1>9 DEF UseEngine, Models
<1>10. ASSUME NEW c \in Requests, NEW outcome \in {"answered", "failed", "threw"}, Answer(c, outcome)
      PROVE  (ProbeInv /\ SnapshotIsConsistent)'
  BY <1>10 DEF Answer, Models
<1>11. ASSUME NEW c \in Requests, ReportFailure(c)
      PROVE  (ProbeInv /\ SnapshotIsConsistent)'
  BY <1>11 DEF ReportFailure, Models
<1>12. ASSUME NEW c \in Probes, BeginProbe(c)
      PROVE  (ProbeInv /\ SnapshotIsConsistent)'
  BY <1>12 DEF BeginProbe, Models
<1>13. ASSUME NEW c \in Probes, AskReady(c)
      PROVE  (ProbeInv /\ SnapshotIsConsistent)'
  BY <1>13 DEF AskReady, Models
<1>14. ASSUME NEW c \in Probes, AskModel(c)
      PROVE  (ProbeInv /\ SnapshotIsConsistent)'
  <2> SUFFICES ASSUME NEW d \in Probes
               PROVE  /\ d \in foundReady' => EngineReady'
                      /\ pc'[d] \in {"askReady", "askInfo"} /\ snapshot'[d].state = "ready"
                           => EngineReady'
                      /\ pc'[d] = "askModel" /\ snapshot'[d].state = "ready"
                           => d \in foundReady'
                      /\ pc'[d] = "done"
                           => /\ snapshot'[d].state = "ready" => d \in foundReady'
                              /\ d \in foundReady' => snapshot'[d].model # "none"
    OBVIOUS
  <2>1. CASE d # c
    BY <1>14, <2>1 DEF AskModel
  <2>2. CASE d = c
    <3>1. pc'[c] = "done" /\ model' = model /\ snapshot'[c].state = snapshot[c].state
          /\ snapshot'[c].model = model
      BY <1>14 DEF AskModel
    <3>2. CASE pc[c] = "askInfo"
      BY <1>14, <2>2, <3>1, <3>2 DEF AskModel
    <3>3. CASE pc[c] = "askModel"
      BY <1>14, <2>2, <3>1, <3>3 DEF AskModel
    <3> QED
      BY <1>14, <3>2, <3>3 DEF AskModel
  <2> QED
    BY <2>1, <2>2
<1>15. CASE UNCHANGED vars
  BY <1>15 DEF vars, Models
<1> QED
  BY <1>1, <1>2, <1>3, <1>4, <1>5, <1>6, <1>7, <1>8, <1>9, <1>10, <1>11, <1>12, <1>13, <1>14, <1>15, Step

-----------------------------------------------------------------------------

\* What is known of the daemon's state and its two locks holds at every step,
\* in every interleaving of the calls.
THEOREM DaemonInvariance == Spec => []IInv
<1>1. IInv /\ [Next]_vars => IInv'
  BY TypeStep, EngineStep, StateStep, ReloadStep, ProbeStep DEF IInv
<1> QED
  BY InitIInv, <1>1, PTL DEF Spec

\* The two locks are held where edge_daemon.cpp holds them and nowhere else.
THEOREM DaemonTypeCorrect == Spec => []TypeOK
<1>1. IInv => TypeOK
  BY DEF IInv
<1> QED
  BY <1>1, DaemonInvariance, PTL

\* Once the reloads are over, state_ is what update_state_locked says of the
\* engine, in whatever order they loaded and settled.
THEOREM StateFollowsEngine == Spec => []StateFitsEngine
<1>1. IInv => StateFitsEngine
  BY DEF IInv
<1> QED
  BY <1>1, DaemonInvariance, PTL

\* What health() and info() report of state and engine fits together.
THEOREM SnapshotsFit == Spec => []SnapshotIsConsistent
<1>1. IInv => SnapshotIsConsistent
  BY DEF IInv
<1> QED
  BY <1>1, DaemonInvariance, PTL

\* The active_model_path of a successful reload_model is never an older one.
THEOREM ReloadNamesItsModelOrANewerOne == Spec => []ReloadReportsNoOlderModel
<1>1. IInv => ReloadReportsNoOlderModel
  BY DEF IInv
<1> QED
  BY <1>1, DaemonInvariance, PTL
=============================================================================
