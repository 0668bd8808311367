------------------------ MODULE RequestExecutorProofs ------------------------
(***************************************************************************)
(* Theorems about RequestExecutor for any number of requests, any contents *)
(* and deployments, any number of chunks and reloads.                      *)
(*                                                                         *)
(* The inductive invariant is IInv of RequestExecutor.  A step of one      *)
(* request's thread leaves the parts of IInv that speak of another request *)
(* alone, so each action is proved for the request that moves and the      *)
(* others at once: q is any request, r the one that moves.                 *)
(***************************************************************************)
EXTENDS RequestExecutor, FiniteSetTheorems, TLAPS

-----------------------------------------------------------------------------
(* Types of what the moves write *)

\* The identities and the decision that the executor writes are well typed.
LEMMA IdentityTypes ==
  ASSUME TypeOK, NEW r \in Requests
  PROVE  /\ NoIdentity \in Identity
         /\ LocalIdentity \in Identity
         /\ CloudIdentity \in Identity
         /\ SelectedBackend(r) \in Identity
         /\ CloudErrorIdentity(r) \in Identity
BY DEF TypeOK, NoIdentity, LocalIdentity, CloudIdentity, SelectedBackend,
       CloudErrorIdentity, Identity, Ids, Backends

\* So are the route and the identity a decision names.
LEMMA DecisionTypes ==
  ASSUME NEW kind \in RequestKind
  PROVE  Decision(kind) \in Backends /\ DecidedIdentity(kind) \in Identity
<1>1. Decision(kind) \in Backends
  BY DEF RequestKind, Decision, Backends
<1>2. QED
  BY <1>1 DEF DecidedIdentity, Identity, Ids

\* A move writes a well-typed response, program point and permission.
LEMMA MoveTypes ==
  ASSUME TypeOK, NEW r \in Requests, NEW resp \in Response,
         \/ \E side \in Backends : SwitchTo(r, side, resp)
         \/ \E kind \in ErrorKinds, identity \in Identity : Refuse(r, resp, kind, identity)
  PROVE  /\ response' \in [Requests -> Response]
         /\ pc' \in [Requests -> Pcs]
         /\ allowFallback' \in [Requests -> BOOLEAN]
<1>1. CASE \E side \in Backends : SwitchTo(r, side, resp)
  <2>1. [resp EXCEPT !.fallbackUsed = TRUE] \in Response
    BY DEF Response
  <2>2. QED
    BY <1>1, <2>1 DEF SwitchTo, TypeOK, Pcs, LocalPcs, CloudPcs
<1>2. CASE \E kind \in ErrorKinds, identity \in Identity : Refuse(r, resp, kind, identity)
  <2>1. PICK kind \in ErrorKinds, identity \in Identity : Refuse(r, resp, kind, identity)
    BY <1>2
  <2>2. [resp EXCEPT !.errorKind = kind, !.finalIdentity = identity] \in Response
    BY DEF Response
  <2>3. QED
    BY <2>1, <2>2 DEF Refuse, TypeOK, Pcs
<1>3. QED
  BY <1>1, <1>2

\* So does a success.
LEMMA SuccessTypes ==
  ASSUME TypeOK, NEW r \in Requests, NEW side \in Backends, NEW identity \in Identity,
         Succeed(r, side, identity)
  PROVE  /\ response' \in [Requests -> Response]
         /\ pc' \in [Requests -> Pcs]
         /\ allowFallback' \in [Requests -> BOOLEAN]
<1>1. response[r] \in Response
  BY DEF TypeOK
<1>2. [response[r] EXCEPT !.ok = TRUE, !.finalTarget = side, !.finalIdentity = identity]
        \in Response
  BY <1>1 DEF Response
<1>3. QED
  BY <1>2 DEF Succeed, TypeOK, Pcs

-----------------------------------------------------------------------------
(* Type correctness, action by action *)

LEMMA TypeInit == Init => TypeOK
<1> SUFFICES ASSUME Init PROVE TypeOK
  OBVIOUS
<1>1. NoIdentity \in Identity
  BY DEF NoIdentity, Identity, Ids, Backends
<1>2. BlankResponse \in Response
  BY <1>1 DEF BlankResponse, Response, Backends, ErrorKinds
<1>3. localReady \in BOOLEAN
  BY ConfigsAssumption DEF Init, Config
<1>4. QED
  BY <1>1, <1>2, <1>3, BoundsAssumption DEF Init, TypeOK, Pcs

LEMMA TypeBegin ==
  ASSUME TypeOK, NEW r \in Requests, Begin(r)
  PROVE  TypeOK'
<1> DEFINE kind == request[r]
<1>1. kind \in RequestKind
  BY KindsAssumption DEF TypeOK
<1>2. response[r] \in Response
  BY DEF TypeOK
<1>3. /\ response' \in [Requests -> Response]
      /\ pc' \in [Requests -> Pcs]
      /\ allowFallback' \in [Requests -> BOOLEAN]
  <2>1. CASE ~kind.valid
    BY <1>2, <2>1, IdentityTypes, MoveTypes DEF Begin, ErrorKinds
  <2>2. CASE kind.valid
    <3>1. Decision(kind) \in Backends /\ DecidedIdentity(kind) \in Identity
      BY <1>1, DecisionTypes
    <3>2. [response[r] EXCEPT !.initialTarget = Decision(kind),
                              !.finalTarget = Decision(kind),
                              !.initialIdentity = DecidedIdentity(kind)] \in Response
      BY <1>2, <3>1 DEF Response
    <3>3. response' \in [Requests -> Response]
      BY <2>2, <3>2 DEF Begin, TypeOK, Refuse
    <3>4. /\ pc' \in [Requests -> Pcs]
          /\ allowFallback' \in [Requests -> BOOLEAN]
      BY <2>2 DEF Begin, TypeOK, Pcs, LocalPcs, CloudPcs
    <3>5. QED
      BY <3>3, <3>4
  <2>3. QED
    BY <2>1, <2>2
<1>4. inFlight' \in Nat
  BY DEF Begin, RequestStarted, TypeOK
<1>5. QED
  BY <1>3, <1>4 DEF Begin, TypeOK, engine, stream

LEMMA TypeEnterLocal ==
  ASSUME TypeOK, NEW r \in Requests, EnterLocal(r)
  PROVE  TypeOK'
<1> DEFINE resp == [response[r] EXCEPT
                      !.initialIdentity = IF @.engine = "" THEN LocalIdentity ELSE @]
<1>1. response[r] \in Response
  BY DEF TypeOK
<1>2. resp \in Response
  BY <1>1, IdentityTypes DEF Response
<1>3. \/ /\ response' = [response EXCEPT ![r] = resp]
         /\ pc' = [pc EXCEPT ![r] = "localCheck"]
         /\ UNCHANGED allowFallback
      \/ SwitchTo(r, "cloud", resp)
      \/ Refuse(r, resp, "unsupported_feature", LocalIdentity)
  BY DEF EnterLocal
<1> HIDE DEF resp
<1>4. /\ response' \in [Requests -> Response]
      /\ pc' \in [Requests -> Pcs]
      /\ allowFallback' \in [Requests -> BOOLEAN]
  <2>1. CASE /\ response' = [response EXCEPT ![r] = resp]
             /\ pc' = [pc EXCEPT ![r] = "localCheck"]
             /\ UNCHANGED allowFallback
    BY <1>2, <2>1 DEF TypeOK, Pcs, LocalPcs
  <2>2. CASE SwitchTo(r, "cloud", resp)
    BY <1>2, <2>2, MoveTypes DEF Backends
  <2>3. CASE Refuse(r, resp, "unsupported_feature", LocalIdentity)
    BY <1>2, <2>3, IdentityTypes, MoveTypes DEF ErrorKinds
  <2>4. QED
    BY <1>3, <2>1, <2>2, <2>3
<1>5. localInfo' \in [Requests -> Identity]
  BY IdentityTypes DEF EnterLocal, TypeOK
<1>6. QED
  BY <1>4, <1>5 DEF EnterLocal, TypeOK, engine, stream

LEMMA TypeCheckLocal ==
  ASSUME TypeOK, NEW r \in Requests, CheckLocal(r)
  PROVE  TypeOK'
<1>1. response[r] \in Response /\ localInfo[r] \in Identity
  BY DEF TypeOK
<1>2. /\ response' \in [Requests -> Response]
      /\ pc' \in [Requests -> Pcs]
      /\ allowFallback' \in [Requests -> BOOLEAN]
  <2>1. CASE localReady
    BY <2>1 DEF CheckLocal, TypeOK, Pcs, LocalPcs
  <2>2. CASE SwitchTo(r, "cloud", response[r])
    BY <1>1, <2>2, MoveTypes DEF Backends
  <2>3. CASE Refuse(r, response[r], "local_unavailable", localInfo[r])
    BY <1>1, <2>3, MoveTypes DEF ErrorKinds
  <2>4. QED
    BY <2>1, <2>2, <2>3 DEF CheckLocal
<1>3. QED
  BY <1>2 DEF CheckLocal, TypeOK, engine, stream

LEMMA TypeCallLocal ==
  ASSUME TypeOK, NEW r \in Requests, CallLocal(r)
  PROVE  TypeOK'
BY BoundsAssumption DEF CallLocal, TypeOK, engine, Pcs, LocalPcs, Backends

LEMMA TypeLocalSucceeds ==
  ASSUME TypeOK, NEW r \in Requests, LocalSucceeds(r)
  PROVE  TypeOK'
<1>1. /\ response' \in [Requests -> Response]
      /\ pc' \in [Requests -> Pcs]
      /\ allowFallback' \in [Requests -> BOOLEAN]
  BY IdentityTypes, SuccessTypes DEF LocalSucceeds, Backends
<1>2. QED
  BY <1>1 DEF LocalSucceeds, TypeOK, engine, stream

LEMMA TypeLocalFails ==
  ASSUME TypeOK, NEW r \in Requests, NEW garbled \in BOOLEAN, LocalFails(r, garbled)
  PROVE  TypeOK'
<1> DEFINE resp == [response[r] EXCEPT !.garbled = @ \/ garbled]
<1>1. response[r] \in Response /\ localInfo[r] \in Identity
  BY DEF TypeOK
<1>2. resp \in Response
  BY <1>1 DEF Response
<1>3. /\ response' \in [Requests -> Response]
      /\ pc' \in [Requests -> Pcs]
      /\ allowFallback' \in [Requests -> BOOLEAN]
  <2>1. CASE SwitchTo(r, "cloud", resp)
    BY <1>2, <2>1, MoveTypes DEF Backends
  <2>2. CASE Refuse(r, resp, "local_failure",
                    IF request[r].stream THEN LocalIdentity ELSE localInfo[r])
    BY <1>1, <1>2, <2>2, IdentityTypes, MoveTypes DEF ErrorKinds
  <2>3. QED
    BY <2>1, <2>2 DEF LocalFails
<1>4. QED
  BY <1>3 DEF LocalFails, TypeOK, engine, stream

LEMMA TypeEnterCloud ==
  ASSUME TypeOK, NEW r \in Requests, EnterCloud(r)
  PROVE  TypeOK'
<1> DEFINE resp == [response[r] EXCEPT
                      !.initialIdentity = IF @.backend = "" THEN CloudIdentity ELSE @]
<1>1. response[r] \in Response
  BY DEF TypeOK
<1>2. resp \in Response
  BY <1>1, IdentityTypes DEF Response
<1>3. CloudError(r) \in ErrorKinds
  BY DEF CloudError, ErrorKinds
<1>4. \/ /\ response' = [response EXCEPT ![r] = resp]
         /\ pc' = [pc EXCEPT ![r] = "cloudRun"]
         /\ called' = [called EXCEPT ![r] = @ \cup {"cloud"}]
         /\ chunks' = [chunks EXCEPT ![r] = 0]
         /\ UNCHANGED allowFallback
      \/ /\ response' = [response EXCEPT ![r] = resp]
         /\ pc' = [pc EXCEPT ![r] = "bestEffort"]
         /\ UNCHANGED <<allowFallback, called, chunks>>
      \/ /\ Refuse(r, resp, CloudError(r), CloudIdentity)
         /\ UNCHANGED <<called, chunks>>
  BY DEF EnterCloud
<1> HIDE DEF resp
<1>5. /\ response' \in [Requests -> Response]
      /\ pc' \in [Requests -> Pcs]
      /\ allowFallback' \in [Requests -> BOOLEAN]
  <2>1. CASE Refuse(r, resp, CloudError(r), CloudIdentity)
    BY <1>2, <1>3, <2>1, IdentityTypes, MoveTypes
  <2>2. CASE /\ response' = [response EXCEPT ![r] = resp]
             /\ UNCHANGED allowFallback
             /\ \E next \in CloudPcs : pc' = [pc EXCEPT ![r] = next]
    BY <1>2, <2>2 DEF TypeOK, Pcs
  <2>3. QED
    BY <1>4, <2>1, <2>2 DEF CloudPcs
<1>6. /\ called' \in [Requests -> SUBSET Backends]
      /\ chunks' \in [Requests -> 0..MaxChunks]
  BY <1>4, BoundsAssumption DEF TypeOK, Backends
<1>7. QED
  BY <1>5, <1>6 DEF EnterCloud, TypeOK, engine

LEMMA TypeCloudSucceeds ==
  ASSUME TypeOK, NEW r \in Requests, CloudSucceeds(r)
  PROVE  TypeOK'
<1>1. /\ response' \in [Requests -> Response]
      /\ pc' \in [Requests -> Pcs]
      /\ allowFallback' \in [Requests -> BOOLEAN]
  BY IdentityTypes, SuccessTypes DEF CloudSucceeds, Backends
<1>2. QED
  BY <1>1 DEF CloudSucceeds, TypeOK, engine, stream

LEMMA TypeCloudFails ==
  ASSUME TypeOK, NEW r \in Requests, NEW garbled \in BOOLEAN, CloudFails(r, garbled)
  PROVE  TypeOK'
<1> DEFINE resp == [response[r] EXCEPT !.garbled = @ \/ garbled]
<1>1. response[r] \in Response
  BY DEF TypeOK
<1>2. resp \in Response
  BY <1>1 DEF Response
<1>3. CloudError(r) \in ErrorKinds
  BY DEF CloudError, ErrorKinds
<1>4. \/ /\ response' = [response EXCEPT ![r] = resp]
         /\ pc' = [pc EXCEPT ![r] = "bestEffort"]
         /\ UNCHANGED allowFallback
      \/ Refuse(r, resp, CloudError(r), CloudErrorIdentity(r))
  BY DEF CloudFails
<1> HIDE DEF resp
<1>5. /\ response' \in [Requests -> Response]
      /\ pc' \in [Requests -> Pcs]
      /\ allowFallback' \in [Requests -> BOOLEAN]
  <2>1. CASE Refuse(r, resp, CloudError(r), CloudErrorIdentity(r))
    BY <1>2, <1>3, <2>1, IdentityTypes, MoveTypes
  <2>2. CASE /\ response' = [response EXCEPT ![r] = resp]
             /\ pc' = [pc EXCEPT ![r] = "bestEffort"]
             /\ UNCHANGED allowFallback
    BY <1>2, <2>2 DEF TypeOK, Pcs, CloudPcs
  <2>3. QED
    BY <1>4, <2>1, <2>2
<1>6. QED
  BY <1>5 DEF CloudFails, TypeOK, engine, stream

LEMMA TypeTryLocal ==
  ASSUME TypeOK, NEW r \in Requests, TryLocal(r)
  PROVE  TypeOK'
<1>1. response[r] \in Response
  BY DEF TypeOK
<1>2. CloudError(r) \in ErrorKinds
  BY DEF CloudError, ErrorKinds
<1>3. /\ response' \in [Requests -> Response]
      /\ pc' \in [Requests -> Pcs]
      /\ allowFallback' \in [Requests -> BOOLEAN]
  <2>1. CASE SwitchTo(r, "local", response[r])
    BY <1>1, <2>1, MoveTypes DEF Backends
  <2>2. CASE Refuse(r, response[r], CloudError(r), CloudErrorIdentity(r))
    BY <1>1, <1>2, <2>2, IdentityTypes, MoveTypes
  <2>3. QED
    BY <2>1, <2>2 DEF TryLocal
<1>4. QED
  BY <1>3 DEF TryLocal, TypeOK, engine, stream

LEMMA TypeStream ==
  ASSUME TypeOK, NEW r \in Requests,
         \/ \E side \in Backends : Chunk(r, side)
         \/ ChunkThrows(r)
         \/ Disconnect(r)
  PROVE  TypeOK'
<1>1. CASE \E side \in Backends : Chunk(r, side)
  <2>1. PICK side \in Backends : Chunk(r, side)
    BY <1>1
  <2>2. chunks' \in [Requests -> 0..MaxChunks]
    BY <2>1, BoundsAssumption DEF Chunk, Streaming, TypeOK
  <2>3. /\ streamStarted' \in [Requests -> BOOLEAN]
        /\ refused' \in [Requests -> BOOLEAN]
        /\ speakers' \in [Requests -> SUBSET Backends]
    BY <2>1 DEF Chunk, TypeOK
  <2>4. QED
    BY <2>1, <2>2, <2>3 DEF Chunk, TypeOK, engine
<1>2. CASE ChunkThrows(r)
  BY <1>2 DEF ChunkThrows, TypeOK, engine, Pcs
<1>3. CASE Disconnect(r)
  BY <1>3 DEF Disconnect, TypeOK, engine
<1>4. QED
  BY <1>1, <1>2, <1>3

LEMMA TypeReload ==
  ASSUME TypeOK, ReloadBegin \/ ReloadEnd
  PROVE  TypeOK'
<1>1. CASE ReloadBegin
  BY <1>1, BoundsAssumption DEF ReloadBegin, TypeOK, stream
<1>2. CASE ReloadEnd
  BY <1>2 DEF ReloadEnd, TypeOK, stream
<1>3. QED
  BY <1>1, <1>2

-----------------------------------------------------------------------------
(* The gauge *)

\* The requests the gauge counts.
Unfinished == {r \in Requests : pc[r] \notin {"idle", "done"}}

\* A thread that neither begins nor completes leaves the gauge right.
LEMMA GaugeKept ==
  ASSUME TypeOK, GaugeCountsUnfinished, UNCHANGED inFlight,
         \A r \in Requests : pc'[r] \in {"idle", "done"} <=> pc[r] \in {"idle", "done"}
  PROVE  GaugeCountsUnfinished'
<1>1. Unfinished' = Unfinished
  BY DEF Unfinished
<1>2. QED
  BY <1>1 DEF GaugeCountsUnfinished, Unfinished

LEMMA GaugeBegin ==
  ASSUME TypeOK, GaugeCountsUnfinished, NEW r \in Requests, Begin(r)
  PROVE  GaugeCountsUnfinished'
<1>1. Unfinished' = Unfinished \cup {r} /\ r \notin Unfinished
  BY DEF Begin, Refuse, Unfinished, TypeOK
<1>2. IsFiniteSet(Unfinished)
  BY FS_Subset, RequestsAssumption DEF Unfinished
<1>3. Cardinality(Unfinished \cup {r}) = Cardinality(Unfinished) + 1
  BY <1>1, <1>2, FS_AddElement
<1>4. QED
  BY <1>1, <1>3 DEF Begin, RequestStarted, GaugeCountsUnfinished, Unfinished

LEMMA GaugeReport ==
  ASSUME TypeOK, GaugeCountsUnfinished, NEW r \in Requests, Report(r)
  PROVE  inFlight' \in Nat /\ GaugeCountsUnfinished'
<1>1. r \in Unfinished
  BY DEF Report, Unfinished
<1>2. IsFiniteSet(Unfinished)
  BY FS_Subset, RequestsAssumption DEF Unfinished
<1>3. CASE UNCHANGED inFlight /\ pc' = [pc EXCEPT ![r] = "threw"]
  <2>1. \A q \in Requests : pc'[q] \in {"idle", "done"} <=> pc[q] \in {"idle", "done"}
    BY <1>3 DEF Report, TypeOK
  <2>2. QED
    BY <1>3, <2>1, GaugeKept DEF TypeOK
<1>4. CASE inFlight' = inFlight - 1 /\ pc' = [pc EXCEPT ![r] = "done"]
  <2>1. Unfinished' = Unfinished \ {r}
    BY <1>4 DEF Unfinished, TypeOK
  <2>2. /\ Cardinality(Unfinished \ {r}) = Cardinality(Unfinished) - 1
        /\ Cardinality(Unfinished \ {r}) \in Nat
    BY <1>1, <1>2, FS_RemoveElement, FS_CardinalityType
  <2>3. QED
    BY <1>4, <2>1, <2>2 DEF GaugeCountsUnfinished, Unfinished
<1>5. QED
  BY <1>3, <1>4 DEF Report

LEMMA TypeReport ==
  ASSUME TypeOK, GaugeCountsUnfinished, NEW r \in Requests, Report(r)
  PROVE  TypeOK'
<1>1. pc' \in [Requests -> Pcs]
  BY DEF Report, TypeOK, Pcs
<1>2. QED
  BY <1>1, GaugeReport DEF Report, TypeOK, engine, stream

-----------------------------------------------------------------------------
(* The route, action by action *)

LEMMA RouteBegin ==
  ASSUME TypeOK, RouteInv, NEW r \in Requests, Begin(r)
  PROVE  RouteInv'
<1>1. /\ UNCHANGED <<request, streamStarted, called, speakers>>
      /\ pc[r] = "idle"
      /\ \/ /\ pc' = [pc EXCEPT ![r] = "report"]
            /\ UNCHANGED allowFallback
         \/ /\ Decision(request[r]) = "local"
            /\ pc' = [pc EXCEPT ![r] = "localInfo"]
            /\ allowFallback' = [allowFallback EXCEPT ![r] = request[r].override = "auto"]
         \/ /\ Decision(request[r]) = "cloud"
            /\ pc' = [pc EXCEPT ![r] = "cloudInfo"]
            /\ allowFallback' = [allowFallback EXCEPT ![r] = request[r].override = "auto"]
  <2>1. Decision(request[r]) \in Backends
    BY KindsAssumption, DecisionTypes DEF TypeOK
  <2>2. QED
    BY <2>1 DEF Begin, Refuse, stream, Backends
<1>2. Decision(request[r]) \in Permitted(r)
  BY KindsAssumption, DecisionTypes DEF Decision, Permitted, TypeOK
<1> SUFFICES ASSUME NEW q \in Requests PROVE RouteOK(q)'
  BY DEF RouteInv
<1>3. RouteOK(q)
  BY DEF RouteInv
<1>4. QED
  BY <1>1, <1>2, <1>3 DEF RouteOK, Permitted, Before, LocalPcs, CloudPcs, TypeOK, Backends

LEMMA RouteEnterLocal ==
  ASSUME TypeOK, RouteInv, NEW r \in Requests, EnterLocal(r)
  PROVE  RouteInv'
<1>1. /\ UNCHANGED <<request, streamStarted, called, speakers>>
      /\ pc[r] = "localInfo"
      /\ \/ /\ pc' = [pc EXCEPT ![r] = "localCheck"]
            /\ UNCHANGED allowFallback
         \/ /\ pc' = [pc EXCEPT ![r] = "cloudInfo"]
            /\ allowFallback[r]
            /\ allowFallback' = [allowFallback EXCEPT ![r] = FALSE]
         \/ /\ pc' = [pc EXCEPT ![r] = "report"]
            /\ UNCHANGED allowFallback
  BY DEF EnterLocal, SwitchTo, Refuse, CloudFallbackOpen, stream
<1> SUFFICES ASSUME NEW q \in Requests PROVE RouteOK(q)'
  BY DEF RouteInv
<1>2. RouteOK(q)
  BY DEF RouteInv
<1>3. QED
  BY <1>1, <1>2 DEF RouteOK, Permitted, Before, LocalPcs, CloudPcs, TypeOK, Backends

LEMMA RouteCheckLocal ==
  ASSUME TypeOK, RouteInv, NEW r \in Requests, CheckLocal(r)
  PROVE  RouteInv'
<1>1. /\ UNCHANGED <<request, streamStarted, called, speakers>>
      /\ pc[r] = "localCheck"
      /\ \/ /\ pc' = [pc EXCEPT ![r] = "localCall"]
            /\ UNCHANGED allowFallback
         \/ /\ pc' = [pc EXCEPT ![r] = "cloudInfo"]
            /\ allowFallback[r]
            /\ allowFallback' = [allowFallback EXCEPT ![r] = FALSE]
         \/ /\ pc' = [pc EXCEPT ![r] = "report"]
            /\ UNCHANGED allowFallback
  BY DEF CheckLocal, SwitchTo, Refuse, CloudFallbackOpen, stream
<1> SUFFICES ASSUME NEW q \in Requests PROVE RouteOK(q)'
  BY DEF RouteInv
<1>2. RouteOK(q)
  BY DEF RouteInv
<1>3. QED
  BY <1>1, <1>2 DEF RouteOK, Permitted, Before, LocalPcs, CloudPcs, TypeOK, Backends

LEMMA RouteCallLocal ==
  ASSUME TypeOK, RouteInv, NEW r \in Requests, CallLocal(r)
  PROVE  RouteInv'
<1>1. /\ UNCHANGED <<request, allowFallback, streamStarted, speakers>>
      /\ pc[r] = "localCall"
      /\ pc' = [pc EXCEPT ![r] = "localRun"]
      /\ called' = [called EXCEPT ![r] = @ \cup {"local"}]
  BY DEF CallLocal
<1> SUFFICES ASSUME NEW q \in Requests PROVE RouteOK(q)'
  BY DEF RouteInv
<1>2. RouteOK(q)
  BY DEF RouteInv
<1>3. QED
  BY <1>1, <1>2 DEF RouteOK, Permitted, Before, LocalPcs, CloudPcs, TypeOK, Backends

LEMMA RouteLocalReturns ==
  ASSUME TypeOK, RouteInv, NEW r \in Requests,
         LocalSucceeds(r) \/ \E garbled \in BOOLEAN : LocalFails(r, garbled)
  PROVE  RouteInv'
<1>1. /\ UNCHANGED <<request, streamStarted, called, speakers>>
      /\ pc[r] = "localRun"
      /\ \/ /\ pc' = [pc EXCEPT ![r] = "cloudInfo"]
            /\ allowFallback[r] /\ ~streamStarted[r]
            /\ allowFallback' = [allowFallback EXCEPT ![r] = FALSE]
         \/ /\ pc' = [pc EXCEPT ![r] = "report"]
            /\ UNCHANGED allowFallback
  BY DEF LocalSucceeds, LocalFails, SwitchTo, Refuse, Succeed, CloudFallbackOpen, stream
<1> SUFFICES ASSUME NEW q \in Requests PROVE RouteOK(q)'
  BY DEF RouteInv
<1>2. RouteOK(q)
  BY DEF RouteInv
<1>3. QED
  BY <1>1, <1>2 DEF RouteOK, Permitted, Before, LocalPcs, CloudPcs, TypeOK, Backends

LEMMA RouteEnterCloud ==
  ASSUME TypeOK, RouteInv, NEW r \in Requests, EnterCloud(r)
  PROVE  RouteInv'
<1>1. /\ UNCHANGED <<request, allowFallback, streamStarted, speakers>>
      /\ pc[r] = "cloudInfo"
      /\ \/ /\ pc' = [pc EXCEPT ![r] = "cloudRun"]
            /\ called' = [called EXCEPT ![r] = @ \cup {"cloud"}]
         \/ /\ allowFallback[r]
            /\ pc' = [pc EXCEPT ![r] = "bestEffort"]
            /\ UNCHANGED called
         \/ /\ pc' = [pc EXCEPT ![r] = "report"]
            /\ UNCHANGED called
  BY DEF EnterCloud, Refuse, LocalFallbackOpen
<1> SUFFICES ASSUME NEW q \in Requests PROVE RouteOK(q)'
  BY DEF RouteInv
<1>2. RouteOK(q)
  BY DEF RouteInv
<1>3. QED
  BY <1>1, <1>2 DEF RouteOK, Permitted, Before, LocalPcs, CloudPcs, TypeOK, Backends

LEMMA RouteCloudReturns ==
  ASSUME TypeOK, RouteInv, NEW r \in Requests,
         CloudSucceeds(r) \/ \E garbled \in BOOLEAN : CloudFails(r, garbled)
  PROVE  RouteInv'
<1>1. /\ UNCHANGED <<request, allowFallback, streamStarted, called, speakers>>
      /\ pc[r] = "cloudRun"
      /\ \/ /\ allowFallback[r] /\ ~streamStarted[r]
            /\ pc' = [pc EXCEPT ![r] = "bestEffort"]
         \/ pc' = [pc EXCEPT ![r] = "report"]
  BY DEF CloudSucceeds, CloudFails, Refuse, Succeed, LocalFallbackOpen, stream
<1> SUFFICES ASSUME NEW q \in Requests PROVE RouteOK(q)'
  BY DEF RouteInv
<1>2. RouteOK(q)
  BY DEF RouteInv
<1>3. QED
  BY <1>1, <1>2 DEF RouteOK, Permitted, Before, LocalPcs, CloudPcs, TypeOK, Backends

LEMMA RouteTryLocal ==
  ASSUME TypeOK, RouteInv, NEW r \in Requests, TryLocal(r)
  PROVE  RouteInv'
<1>1. /\ UNCHANGED <<request, streamStarted, called, speakers>>
      /\ pc[r] = "bestEffort"
      /\ \/ /\ pc' = [pc EXCEPT ![r] = "localInfo"]
            /\ allowFallback' = [allowFallback EXCEPT ![r] = FALSE]
         \/ /\ pc' = [pc EXCEPT ![r] = "report"]
            /\ UNCHANGED allowFallback
  BY DEF TryLocal, SwitchTo, Refuse, stream
<1> SUFFICES ASSUME NEW q \in Requests PROVE RouteOK(q)'
  BY DEF RouteInv
<1>2. RouteOK(q)
  BY DEF RouteInv
<1>3. QED
  BY <1>1, <1>2 DEF RouteOK, Permitted, Before, LocalPcs, CloudPcs, TypeOK, Backends

LEMMA RouteChunk ==
  ASSUME TypeOK, RouteInv, NEW r \in Requests, NEW side \in Backends, Chunk(r, side)
  PROVE  RouteInv'
<1>1. /\ UNCHANGED <<request, pc, allowFallback, called>>
      /\ pc[r] = IF side = "local" THEN "localRun" ELSE "cloudRun"
      /\ streamStarted' = [streamStarted EXCEPT ![r] = TRUE]
      /\ speakers' = [speakers EXCEPT ![r] = @ \cup {side}]
  BY DEF Chunk, Streaming
<1> SUFFICES ASSUME NEW q \in Requests PROVE RouteOK(q)'
  BY DEF RouteInv
<1>2. RouteOK(q)
  BY DEF RouteInv
<1>3. QED
  BY <1>1, <1>2 DEF RouteOK, Permitted, Before, LocalPcs, CloudPcs, TypeOK, Backends

LEMMA RouteEnds ==
  ASSUME TypeOK, RouteInv, NEW r \in Requests, ChunkThrows(r) \/ Report(r)
  PROVE  RouteInv'
<1>1. /\ UNCHANGED <<request, allowFallback, called, speakers>>
      /\ streamStarted' \in {streamStarted, [streamStarted EXCEPT ![r] = TRUE]}
      /\ pc' \in {[pc EXCEPT ![r] = "threw"], [pc EXCEPT ![r] = "done"]}
  BY DEF ChunkThrows, Report, stream
<1> SUFFICES ASSUME NEW q \in Requests PROVE RouteOK(q)'
  BY DEF RouteInv
<1>2. RouteOK(q)
  BY DEF RouteInv
<1>3. QED
  BY <1>1, <1>2 DEF RouteOK, Permitted, Before, LocalPcs, CloudPcs, TypeOK, Backends

LEMMA RouteSurroundings ==
  ASSUME RouteInv, UNCHANGED <<request, pc, allowFallback, streamStarted, called, speakers>>
  PROVE  RouteInv'
BY DEF RouteInv, RouteOK, Permitted

-----------------------------------------------------------------------------
(* The engine, action by action *)

LEMMA EngineBegin ==
  ASSUME TypeOK, EngineInv, NEW r \in Requests, Begin(r)
  PROVE  EngineInv'
<1>1. /\ UNCHANGED <<config, request, localReady, engineLock, called>>
      /\ pc[r] = "idle"
      /\ \/ pc' = [pc EXCEPT ![r] = "report"]
         \/ pc' = [pc EXCEPT ![r] = "cloudInfo"]
         \/ /\ request[r].override = "auto" => request[r].needs = {}
            /\ pc' = [pc EXCEPT ![r] = "localInfo"]
  BY DEF Begin, Decision, Refuse, engine
<1> SUFFICES ASSUME NEW q \in Requests PROVE EngineOK(q)'
  BY DEF EngineInv
<1>2. EngineOK(q) /\ q # "free" /\ q # "reload"
  BY RequestsAssumption DEF EngineInv
<1>3. QED
  BY <1>1, <1>2 DEF EngineOK, LocalPcs, TypeOK

LEMMA EngineEnterLocal ==
  ASSUME TypeOK, EngineInv, NEW r \in Requests, EnterLocal(r)
  PROVE  EngineInv'
<1>1. /\ UNCHANGED <<config, request, localReady, engineLock, called>>
      /\ pc[r] = "localInfo"
      /\ \/ pc' = [pc EXCEPT ![r] = "report"]
         \/ pc' = [pc EXCEPT ![r] = "cloudInfo"]
         \/ /\ request[r].needs \subseteq config.caps
            /\ pc' = [pc EXCEPT ![r] = "localCheck"]
  BY DEF EnterLocal, RequiresRemote, LocalSupportsRequest, LocalCapabilities,
     SwitchTo, Refuse, engine
<1> SUFFICES ASSUME NEW q \in Requests PROVE EngineOK(q)'
  BY DEF EngineInv
<1>2. EngineOK(q) /\ q # "free" /\ q # "reload"
  BY RequestsAssumption DEF EngineInv
<1>3. QED
  BY <1>1, <1>2 DEF EngineOK, LocalPcs, TypeOK

LEMMA EngineCheckLocal ==
  ASSUME TypeOK, EngineInv, NEW r \in Requests, CheckLocal(r)
  PROVE  EngineInv'
<1>1. /\ UNCHANGED <<config, request, localReady, engineLock, called>>
      /\ pc[r] = "localCheck"
      /\ \/ pc' = [pc EXCEPT ![r] = "report"]
         \/ pc' = [pc EXCEPT ![r] = "cloudInfo"]
         \/ localReady /\ pc' = [pc EXCEPT ![r] = "localCall"]
  BY DEF CheckLocal, SwitchTo, Refuse, engine
<1> SUFFICES ASSUME NEW q \in Requests PROVE EngineOK(q)'
  BY DEF EngineInv
<1>2. EngineOK(q) /\ q # "free" /\ q # "reload"
  BY RequestsAssumption DEF EngineInv
<1>3. QED
  BY <1>1, <1>2 DEF EngineOK, LocalPcs, TypeOK

LEMMA EngineCallLocal ==
  ASSUME TypeOK, EngineInv, NEW r \in Requests, CallLocal(r)
  PROVE  EngineInv'
<1>1. /\ UNCHANGED <<config, request, localReady>>
      /\ pc[r] = "localCall" /\ engineLock = "free" /\ engineLock' = r
      /\ pc' = [pc EXCEPT ![r] = "localRun"]
      /\ called' = [called EXCEPT ![r] = @ \cup {"local"}]
  BY DEF CallLocal, engine
<1> SUFFICES ASSUME NEW q \in Requests PROVE EngineOK(q)'
  BY DEF EngineInv
<1>2. EngineOK(q) /\ q # "free" /\ q # "reload"
  BY RequestsAssumption DEF EngineInv
<1>3. QED
  BY <1>1, <1>2 DEF EngineOK, LocalPcs, TypeOK

LEMMA EngineLocalReturns ==
  ASSUME TypeOK, EngineInv, NEW r \in Requests, 
         \/ LocalSucceeds(r)
         \/ \E garbled \in BOOLEAN : LocalFails(r, garbled)
         \/ ChunkThrows(r)
  PROVE  EngineInv'
<1>1. /\ UNCHANGED <<config, request, localReady, called>>
      /\ pc[r] = "localRun" /\ engineLock' = "free"
      /\ \E next \in {"report", "cloudInfo", "threw"} : pc' = [pc EXCEPT ![r] = next]
  BY DEF LocalSucceeds, LocalFails, ChunkThrows, Streaming, SwitchTo, Refuse,
     Succeed, engine
<1> SUFFICES ASSUME NEW q \in Requests PROVE EngineOK(q)'
  BY DEF EngineInv
<1>2. EngineOK(q) /\ EngineOK(r) /\ q # "free" /\ q # "reload"
  BY RequestsAssumption DEF EngineInv
<1>3. QED
  BY <1>1, <1>2 DEF EngineOK, LocalPcs, TypeOK

LEMMA EngineEnterCloud ==
  ASSUME TypeOK, EngineInv, NEW r \in Requests, EnterCloud(r)
  PROVE  EngineInv'
<1>1. /\ UNCHANGED <<config, request, localReady, engineLock>>
      /\ pc[r] = "cloudInfo"
      /\ \E next \in {"cloudRun", "bestEffort", "report"} : pc' = [pc EXCEPT ![r] = next]
      /\ called' \in {called, [called EXCEPT ![r] = @ \cup {"cloud"}]}
  BY DEF EnterCloud, Refuse, engine
<1> SUFFICES ASSUME NEW q \in Requests PROVE EngineOK(q)'
  BY DEF EngineInv
<1>2. EngineOK(q) /\ q # "free" /\ q # "reload"
  BY RequestsAssumption DEF EngineInv
<1>3. QED
  BY <1>1, <1>2 DEF EngineOK, LocalPcs, TypeOK

LEMMA EngineCloudReturns ==
  ASSUME TypeOK, EngineInv, NEW r \in Requests, 
         CloudSucceeds(r) \/ \E garbled \in BOOLEAN : CloudFails(r, garbled)
  PROVE  EngineInv'
<1>1. /\ UNCHANGED <<config, request, localReady, engineLock, called>>
      /\ pc[r] = "cloudRun"
      /\ \E next \in {"bestEffort", "report"} : pc' = [pc EXCEPT ![r] = next]
  BY DEF CloudSucceeds, CloudFails, Refuse, Succeed, engine
<1> SUFFICES ASSUME NEW q \in Requests PROVE EngineOK(q)'
  BY DEF EngineInv
<1>2. EngineOK(q) /\ q # "free" /\ q # "reload"
  BY RequestsAssumption DEF EngineInv
<1>3. QED
  BY <1>1, <1>2 DEF EngineOK, LocalPcs, TypeOK

LEMMA EngineTryLocal ==
  ASSUME TypeOK, EngineInv, NEW r \in Requests, TryLocal(r)
  PROVE  EngineInv'
<1>1. /\ UNCHANGED <<config, request, localReady, engineLock, called>>
      /\ pc[r] = "bestEffort"
      /\ \/ pc' = [pc EXCEPT ![r] = "report"]
         \/ request[r].needs = {} /\ pc' = [pc EXCEPT ![r] = "localInfo"]
  BY DEF TryLocal, BestEffort, RequiresRemote, SwitchTo, Refuse, engine
<1> SUFFICES ASSUME NEW q \in Requests PROVE EngineOK(q)'
  BY DEF EngineInv
<1>2. EngineOK(q) /\ q # "free" /\ q # "reload"
  BY RequestsAssumption DEF EngineInv
<1>3. QED
  BY <1>1, <1>2 DEF EngineOK, LocalPcs, TypeOK

LEMMA EngineReport ==
  ASSUME TypeOK, EngineInv, NEW r \in Requests, Report(r)
  PROVE  EngineInv'
<1>1. /\ UNCHANGED <<config, request, localReady, engineLock, called>>
      /\ pc[r] = "report"
      /\ \E next \in Ended : pc' = [pc EXCEPT ![r] = next]
  BY DEF Report, engine, Ended
<1> SUFFICES ASSUME NEW q \in Requests PROVE EngineOK(q)'
  BY DEF EngineInv
<1>2. EngineOK(q) /\ q # "free" /\ q # "reload"
  BY RequestsAssumption DEF EngineInv
<1>3. QED
  BY <1>1, <1>2 DEF EngineOK, LocalPcs, TypeOK, Ended

LEMMA EngineReload ==
  ASSUME TypeOK, EngineInv, ReloadBegin \/ ReloadEnd
  PROVE  EngineInv'
<1>1. /\ UNCHANGED <<config, request, pc, called>>
      /\ localReady => localReady'
      /\ engineLock \in {"free", "reload"} /\ engineLock' \in {"free", "reload"}
  BY DEF ReloadBegin, ReloadEnd, TypeOK
<1> SUFFICES ASSUME NEW q \in Requests PROVE EngineOK(q)'
  BY DEF EngineInv
<1>2. EngineOK(q) /\ q # "free" /\ q # "reload"
  BY RequestsAssumption DEF EngineInv
<1>3. QED
  BY <1>1, <1>2 DEF EngineOK

LEMMA EngineSurroundings ==
  ASSUME EngineInv, UNCHANGED <<config, request, localReady, engineLock, pc, called>>
  PROVE  EngineInv'
BY DEF EngineInv, EngineOK

-----------------------------------------------------------------------------
(* Invariance *)

\* Only Begin and Report change what the gauge counts.
LEMMA GaugeStep ==
  ASSUME TypeOK, GaugeCountsUnfinished, RouteInv, NEW r \in Requests,
         \/ EnterLocal(r) \/ CheckLocal(r) \/ CallLocal(r) \/ EnterCloud(r)
         \/ TryLocal(r) \/ Returns(r) \/ ChunkThrows(r)
  PROVE  GaugeCountsUnfinished'
<1>1. /\ UNCHANGED inFlight
      /\ pc[r] \in LocalPcs \cup CloudPcs
      /\ \E next \in LocalPcs \cup CloudPcs \cup {"report", "threw"} :
           pc' = [pc EXCEPT ![r] = next]
  BY DEF EnterLocal, CheckLocal, CallLocal, EnterCloud, TryLocal, Returns, ChunkThrows,
         Streaming, LocalSucceeds, LocalFails, CloudSucceeds, CloudFails, SwitchTo, Refuse,
         Succeed, LocalPcs, CloudPcs
<1>2. \A q \in Requests : pc'[q] \in {"idle", "done"} <=> pc[q] \in {"idle", "done"}
  BY <1>1 DEF TypeOK, LocalPcs, CloudPcs
<1>3. QED
  BY <1>1, <1>2, GaugeKept

LEMMA IInvInit == Init => IInv
<1> SUFFICES ASSUME Init PROVE IInv
  OBVIOUS
<1>1. TypeOK
  BY TypeInit
<1>2. GaugeCountsUnfinished
  <2>1. {r \in Requests : pc[r] \notin {"idle", "done"}} = {}
    BY DEF Init
  <2>2. QED
    BY <2>1, FS_EmptySet DEF Init, GaugeCountsUnfinished
<1>3. RouteInv
  BY DEF Init, RouteInv, RouteOK, LocalPcs, CloudPcs
<1>4. EngineInv
  BY RequestsAssumption DEF Init, EngineInv, EngineOK, LocalPcs
<1>5. QED
  BY <1>1, <1>2, <1>3, <1>4 DEF IInv

LEMMA IInvThread ==
  ASSUME IInv, NEW r \in Requests, Thread(r)
  PROVE  IInv'
<1> USE DEF IInv
<1>1. CASE Begin(r)
  BY <1>1, TypeBegin, GaugeBegin, RouteBegin, EngineBegin
<1>2. CASE EnterLocal(r)
  BY <1>2, TypeEnterLocal, GaugeStep, RouteEnterLocal, EngineEnterLocal
<1>3. CASE CheckLocal(r)
  BY <1>3, TypeCheckLocal, GaugeStep, RouteCheckLocal, EngineCheckLocal
<1>4. CASE CallLocal(r)
  BY <1>4, TypeCallLocal, GaugeStep, RouteCallLocal, EngineCallLocal
<1>5. CASE EnterCloud(r)
  BY <1>5, TypeEnterCloud, GaugeStep, RouteEnterCloud, EngineEnterCloud
<1>6. CASE TryLocal(r)
  BY <1>6, TypeTryLocal, GaugeStep, RouteTryLocal, EngineTryLocal
<1>7. CASE Returns(r)
  <2>1. GaugeCountsUnfinished'
    BY <1>7, GaugeStep
  <2>2. TypeOK'
    BY <1>7, TypeLocalSucceeds, TypeLocalFails, TypeCloudSucceeds, TypeCloudFails DEF Returns
  <2>3. RouteInv' /\ EngineInv'
    BY <1>7, RouteLocalReturns, RouteCloudReturns, EngineLocalReturns, EngineCloudReturns
       DEF Returns
  <2>4. QED
    BY <2>1, <2>2, <2>3
<1>8. CASE Report(r)
  BY <1>8, TypeReport, GaugeReport, RouteEnds, EngineReport
<1>9. QED
  BY <1>1, <1>2, <1>3, <1>4, <1>5, <1>6, <1>7, <1>8 DEF Thread

LEMMA IInvStep == IInv /\ [Next]_vars => IInv'
<1> SUFFICES ASSUME IInv, [Next]_vars PROVE IInv'
  OBVIOUS
<1>1. ASSUME NEW r \in Requests, Thread(r) PROVE IInv'
  BY <1>1, IInvThread
<1>2. ASSUME NEW r \in Requests, NEW side \in Backends, Chunk(r, side) PROVE IInv'
  <2>1. UNCHANGED <<config, request, localReady, engineLock, pc, called, inFlight>>
    BY <1>2 DEF Chunk, engine
  <2>2. GaugeCountsUnfinished'
    BY <2>1, GaugeKept DEF IInv
  <2>3. QED
    BY <1>2, <2>1, <2>2, TypeStream, RouteChunk, EngineSurroundings DEF IInv
<1>3. ASSUME NEW r \in Requests, ChunkThrows(r) PROVE IInv'
  BY <1>3, TypeStream, GaugeStep, RouteEnds, EngineLocalReturns DEF IInv
<1>4. ASSUME NEW r \in Requests, Disconnect(r) PROVE IInv'
  <2>1. UNCHANGED <<config, request, localReady, engineLock, pc, called, inFlight,
                    allowFallback, streamStarted, speakers>>
    BY <1>4 DEF Disconnect, engine
  <2>2. GaugeCountsUnfinished'
    BY <2>1, GaugeKept DEF IInv
  <2>3. QED
    BY <1>4, <2>1, <2>2, TypeStream, RouteSurroundings, EngineSurroundings DEF IInv
<1>5. ASSUME ReloadBegin \/ ReloadEnd PROVE IInv'
  <2>1. UNCHANGED <<request, pc, allowFallback, streamStarted, called, speakers, inFlight>>
    BY <1>5 DEF ReloadBegin, ReloadEnd, stream
  <2>2. GaugeCountsUnfinished'
    BY <2>1, GaugeKept DEF IInv
  <2>3. QED
    BY <1>5, <2>1, <2>2, TypeReload, RouteSurroundings, EngineReload DEF IInv
<1>6. ASSUME UNCHANGED vars PROVE IInv'
  BY <1>6 DEF vars, IInv, TypeOK, GaugeCountsUnfinished, RouteInv, RouteOK, Permitted,
              EngineInv, EngineOK
<1>7. QED
  BY <1>1, <1>2, <1>3, <1>4, <1>5, <1>6 DEF Next, Idle

\* The strengthening holds in every reachable state.
THEOREM Invariance == Spec => []IInv
<1>1. QED
  BY IInvInit, IInvStep, PTL DEF Spec

\* Type correctness, with a gauge that never goes below zero, whatever the
\* number of requests, of chunks and of reloads.
THEOREM TypeCorrect == Spec => []TypeOK
<1>1. IInv => TypeOK
  BY DEF IInv
<1>2. QED
  BY <1>1, Invariance, PTL

\* A forced route is never left: the other backend is neither called nor heard.
THEOREM ForcedRoute == Spec => []ForcedRouteKept
<1>1. IInv => ForcedRouteKept
  BY DEF IInv, RouteInv, RouteOK, Permitted, ForcedRouteKept
<1>2. QED
  BY <1>1, Invariance, PTL

\* No request is tried twice on one backend.
THEOREM NoSecondTry == Spec => []NoBackendTriedTwice
<1>1. IInv => NoBackendTriedTwice
  BY DEF IInv, RouteInv, RouteOK, NoBackendTriedTwice
<1>2. QED
  BY <1>1, Invariance, PTL

\* The local engine runs only what it declares to support, and a request in
\* need of a remote feature only by force.
THEOREM FeaturesKept == Spec => []FeaturesRespected
<1>1. IInv => FeaturesRespected
  BY DEF IInv, EngineInv, EngineOK, FeaturesRespected
<1>2. QED
  BY <1>1, Invariance, PTL

\* The check of is_ready() is never stale: no reload takes the model away
\* between it and the end of the generation.
THEOREM EngineStaysReady == Spec => []CheckedEngineStaysReady
<1>1. IInv => CheckedEngineStaysReady
  BY DEF IInv, EngineInv, EngineOK, CheckedEngineStaysReady
<1>2. QED
  BY <1>1, Invariance, PTL

\* The gauge counts exactly the requests that have begun and not completed.
THEOREM GaugeExact == Spec => []GaugeCountsUnfinished
<1>1. IInv => GaugeCountsUnfinished
  BY DEF IInv
<1>2. QED
  BY <1>1, Invariance, PTL

\* Once the client's stream has had a chunk, no backend is called any more.
THEOREM StreamKeepsBackend == Spec => StreamKeepsItsBackend
<1> DEFINE Kept == \A r \in Requests : speakers[r] # {} => called'[r] = called[r]
<1>1. IInv /\ [Next]_vars => [Kept]_vars
  <2> SUFFICES ASSUME IInv, Next, NEW q \in Requests, speakers[q] # {}
               PROVE  called'[q] = called[q]
    OBVIOUS
  <2>1. pc[q] \notin Before
    BY DEF IInv, RouteInv, RouteOK
  <2>2. \/ called' = called
        \/ \E r \in Requests :
             /\ pc[r] \in {"localCall", "cloudInfo"}
             /\ \E b \in Backends : called' = [called EXCEPT ![r] = @ \cup {b}]
    BY DEF Next, Thread, Returns, Begin, EnterLocal, CheckLocal, CallLocal, EnterCloud,
           TryLocal, LocalSucceeds, LocalFails, CloudSucceeds, CloudFails, Report, Chunk,
           ChunkThrows, Disconnect, ReloadBegin, ReloadEnd, Idle, vars, Backends
  <2>3. QED
    BY <2>1, <2>2 DEF IInv, TypeOK, Before
<1>2. QED
  BY <1>1, Invariance, PTL DEF Spec, StreamKeepsItsBackend
=============================================================================
