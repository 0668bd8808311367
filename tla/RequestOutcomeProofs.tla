------------------------ MODULE RequestOutcomeProofs ------------------------
(***************************************************************************)
(* What the executor reports of a request, for any number of requests,     *)
(* contents, deployments, chunks and reloads: the fallback flag, the       *)
(* booking of an answer, the kind of an error, what was tried before one,  *)
(* and that RequestExecutor implements InferenceService.                   *)
(*                                                                         *)
(* IInv of RequestExecutorProofs says where a request may go; here it is   *)
(* strengthened by what its response holds on the way.                     *)
(***************************************************************************)
EXTENDS RequestExecutorProofs

-----------------------------------------------------------------------------
(* The strengthening, for one request *)

\* Until it is settled, a response has no outcome.
OpenOK(r) ==
  pc[r] \in LocalPcs \cup CloudPcs \cup {"idle"} =>
    /\ response[r].ok = FALSE
    /\ response[r].errorKind = "none"

\* The flag is set when the request is on the side its route did not name.
FlagOK(r) ==
  /\ localInfo[r].target = "local"
  /\ pc[r] = "idle" =>
       response[r].fallbackUsed = FALSE /\ response[r].initialTarget = "local"
  /\ pc[r] \in LocalPcs \cup CloudPcs /\ allowFallback[r] => response[r].fallbackUsed = FALSE
  /\ pc[r] \in LocalPcs =>
       (response[r].fallbackUsed = FALSE <=> response[r].initialTarget = "local")
  /\ pc[r] \in CloudPcs =>
       (response[r].fallbackUsed = FALSE <=> response[r].initialTarget = "cloud")
  /\ pc[r] \in {"report", "done"} =>
       (response[r].fallbackUsed = FALSE <=>
          response[r].finalIdentity.target = response[r].initialTarget)

\* A running call is the only one that has spoken.
SpeechOK(r) ==
  /\ pc[r] \in {"idle"} \cup Before => speakers[r] = {}
  /\ pc[r] = "localRun" => "local" \in called[r] /\ speakers[r] \subseteq {"local"}
  /\ pc[r] = "cloudRun" => "cloud" \in called[r] /\ speakers[r] \subseteq {"cloud"}
  /\ streamStarted[r] /\ pc[r] # "threw" => speakers[r] # {}
  /\ pc[r] \in {"report", "done"} /\ response[r].ok = TRUE =>
       /\ response[r].finalTarget = response[r].finalIdentity.target
       /\ response[r].finalTarget \in called[r]
       /\ speakers[r] \subseteq {response[r].finalTarget}

\* What an error kind says of the backends.
KindOK(r) ==
  LET kind == response[r].errorKind IN
  pc[r] \in {"report", "done"} =>
    /\ response[r].ok = TRUE <=> kind = "none"
    /\ kind = "local_failure" => "local" \in called[r]
    /\ kind = "cloud_failure" => "cloud" \in called[r]
    /\ kind \in {"local_unavailable", "unsupported_feature"} => "local" \notin called[r]
    /\ kind = "cloud_unavailable" => called[r] = {} /\ ~config.cloud
    /\ kind = "invalid_request" => called[r] = {}

Free(r) == request[r].valid /\ request[r].override = "auto"
CloudTried(r) == config.cloud => "cloud" \in called[r]
LocalTried(r) == config.ready /\ request[r].needs = {} => "local" \in called[r]

\* A request that may not fall back any more has been wherever it could go.
TriedOK(r) ==
  /\ pc[r] \in {"cloudInfo", "bestEffort"} /\ ~config.cloud => called[r] = {}
  /\ pc[r] = "cloudRun" => config.cloud
  /\ pc[r] = "bestEffort" => CloudTried(r)
  /\ Free(r) /\ ~allowFallback[r] /\ pc[r] \in LocalPcs => CloudTried(r)
  /\ Free(r) /\ ~allowFallback[r] /\ pc[r] \in CloudPcs => LocalTried(r)
  /\ Free(r) /\ pc[r] \in {"report", "done"} /\ response[r].ok = FALSE /\ speakers[r] = {} =>
       CloudTried(r) /\ LocalTried(r)

OutcomeOK(r) == OpenOK(r) /\ FlagOK(r) /\ SpeechOK(r) /\ KindOK(r) /\ TriedOK(r)
\* A reload never takes a model away.
ReadyInv == config.ready => localReady
OutcomeInv == ReadyInv /\ \A r \in Requests : OutcomeOK(r)

-----------------------------------------------------------------------------
(* What the moves do to the request that moves, and to the others *)

\* The fields of a response that the strengthening speaks of.
Agrees(a, b) ==
  /\ a.ok = b.ok /\ a.errorKind = b.errorKind
  /\ a.initialTarget = b.initialTarget /\ a.fallbackUsed = b.fallbackUsed

\* Between its moves nothing changes for a request.
Still(q) ==
  /\ pc'[q] = pc[q] /\ response'[q] = response[q] /\ localInfo'[q] = localInfo[q]
  /\ allowFallback'[q] = allowFallback[q] /\ streamStarted'[q] = streamStarted[q]
  /\ called'[q] = called[q] /\ speakers'[q] = speakers[q]

LEMMA StillKeepsOutcome ==
  ASSUME NEW q \in Requests, OutcomeOK(q), Still(q), UNCHANGED <<config, request>>
  PROVE  OutcomeOK(q)'
<1> USE DEF Still
<1>1. OpenOK(q)' /\ FlagOK(q)'
  BY DEF OutcomeOK, OpenOK, FlagOK
<1>2. SpeechOK(q)' /\ KindOK(q)'
  BY DEF OutcomeOK, SpeechOK, KindOK
<1>3. TriedOK(q)'
  BY DEF OutcomeOK, TriedOK, Free, CloudTried, LocalTried
<1> QED
  BY <1>1, <1>2, <1>3 DEF OutcomeOK

LEMMA OneMoves ==
  ASSUME OutcomeInv, NEW r \in Requests,
         UNCHANGED <<config, request>>, localReady => localReady',
         \A q \in Requests \ {r} : Still(q),
         OutcomeOK(r)'
  PROVE  OutcomeInv'
<1>1. ReadyInv'
  BY DEF OutcomeInv, ReadyInv
<1>2. ASSUME NEW q \in Requests PROVE OutcomeOK(q)'
  BY StillKeepsOutcome DEF OutcomeInv
<1> QED
  BY <1>1, <1>2 DEF OutcomeInv

LEMMA SwitchGives ==
  ASSUME TypeOK, NEW r \in Requests, NEW side \in Backends, NEW resp \in Response,
         SwitchTo(r, side, resp)
  PROVE  /\ pc'[r] = (IF side = "local" THEN "localInfo" ELSE "cloudInfo")
         /\ allowFallback'[r] = FALSE
         /\ response'[r].fallbackUsed = TRUE
         /\ response'[r].ok = resp.ok /\ response'[r].errorKind = resp.errorKind
         /\ response'[r].initialTarget = resp.initialTarget
         /\ \A q \in Requests \ {r} :
              /\ pc'[q] = pc[q] /\ response'[q] = response[q]
              /\ allowFallback'[q] = allowFallback[q]
<1>1. /\ response'[r] = [resp EXCEPT !.fallbackUsed = TRUE]
      /\ \A q \in Requests \ {r} : response'[q] = response[q]
  BY DEF SwitchTo, TypeOK
<1>2. response'[r].fallbackUsed = TRUE
  BY <1>1 DEF Response
<1>3. /\ response'[r].ok = resp.ok /\ response'[r].errorKind = resp.errorKind
      /\ response'[r].initialTarget = resp.initialTarget
  BY <1>1 DEF Response
<1>4. /\ pc'[r] = (IF side = "local" THEN "localInfo" ELSE "cloudInfo")
      /\ allowFallback'[r] = FALSE
      /\ \A q \in Requests \ {r} :
           pc'[q] = pc[q] /\ allowFallback'[q] = allowFallback[q]
  BY DEF SwitchTo, TypeOK
<1> QED
  BY <1>1, <1>2, <1>3, <1>4

LEMMA RefuseGives ==
  ASSUME TypeOK, NEW r \in Requests, NEW resp \in Response, NEW kind \in ErrorKinds,
         NEW identity \in Identity, Refuse(r, resp, kind, identity)
  PROVE  /\ pc'[r] = "report"
         /\ allowFallback'[r] = allowFallback[r]
         /\ response'[r].errorKind = kind /\ response'[r].finalIdentity = identity
         /\ response'[r].ok = resp.ok /\ response'[r].fallbackUsed = resp.fallbackUsed
         /\ response'[r].initialTarget = resp.initialTarget
         /\ \A q \in Requests \ {r} :
              /\ pc'[q] = pc[q] /\ response'[q] = response[q]
              /\ allowFallback'[q] = allowFallback[q]
<1>1. /\ response'[r] = [resp EXCEPT !.errorKind = kind, !.finalIdentity = identity]
      /\ \A q \in Requests \ {r} : response'[q] = response[q]
  BY DEF Refuse, TypeOK
<1>2. /\ response'[r].errorKind = kind /\ response'[r].finalIdentity = identity
      /\ response'[r].initialTarget = resp.initialTarget
  BY <1>1 DEF Response
<1>3. response'[r].ok = resp.ok /\ response'[r].fallbackUsed = resp.fallbackUsed
  BY <1>1 DEF Response
<1>4. /\ pc'[r] = "report" /\ allowFallback'[r] = allowFallback[r]
      /\ \A q \in Requests \ {r} :
           pc'[q] = pc[q] /\ allowFallback'[q] = allowFallback[q]
  BY DEF Refuse, TypeOK
<1> QED
  BY <1>1, <1>2, <1>3, <1>4

LEMMA SucceedGives ==
  ASSUME TypeOK, NEW r \in Requests, NEW side \in Backends, NEW identity \in Identity,
         Succeed(r, side, identity)
  PROVE  /\ pc'[r] = "report"
         /\ allowFallback'[r] = allowFallback[r]
         /\ response'[r].ok = TRUE /\ response'[r].finalTarget = side
         /\ response'[r].finalIdentity = identity
         /\ response'[r].errorKind = response[r].errorKind
         /\ response'[r].fallbackUsed = response[r].fallbackUsed
         /\ response'[r].initialTarget = response[r].initialTarget
         /\ \A q \in Requests \ {r} :
              /\ pc'[q] = pc[q] /\ response'[q] = response[q]
              /\ allowFallback'[q] = allowFallback[q]
<1>1. /\ response'[r] = [response[r] EXCEPT !.ok = TRUE, !.finalTarget = side,
                                          !.finalIdentity = identity]
      /\ response[r] \in Response
      /\ \A q \in Requests \ {r} : response'[q] = response[q]
  BY DEF Succeed, TypeOK
<1>2. /\ response'[r].ok = TRUE /\ response'[r].finalTarget = side
      /\ response'[r].finalIdentity = identity
  BY <1>1 DEF Response
<1>3. /\ response'[r].errorKind = response[r].errorKind
      /\ response'[r].initialTarget = response[r].initialTarget
      /\ response'[r].fallbackUsed = response[r].fallbackUsed
  BY <1>1 DEF Response
<1>4. /\ pc'[r] = "report" /\ allowFallback'[r] = allowFallback[r]
      /\ \A q \in Requests \ {r} :
           pc'[q] = pc[q] /\ allowFallback'[q] = allowFallback[q]
  BY DEF Succeed, TypeOK
<1> QED
  BY <1>1, <1>2, <1>3, <1>4

LEMMA OutcomeInit == Init => OutcomeInv
<1> SUFFICES ASSUME Init PROVE OutcomeInv
  OBVIOUS
<1>1. ReadyInv
  BY DEF Init, ReadyInv
<1> SUFFICES ASSUME NEW r \in Requests PROVE OutcomeOK(r)
  BY <1>1 DEF OutcomeInv
<1>2. /\ pc[r] = "idle" /\ response[r] = BlankResponse /\ localInfo[r] = NoIdentity
      /\ speakers[r] = {} /\ called[r] = {} /\ streamStarted[r] = FALSE
  BY DEF Init
<1>3. OpenOK(r)
  BY <1>2 DEF OpenOK, BlankResponse
<1>4. FlagOK(r)
  <2>1. NoIdentity.target = "local"
    BY DEF NoIdentity
  <2>2. BlankResponse.fallbackUsed = FALSE
    BY DEF BlankResponse
  <2>3. BlankResponse.initialTarget = "local"
    BY DEF BlankResponse
  <2> QED
    BY <1>2, <2>1, <2>2, <2>3 DEF FlagOK, LocalPcs, CloudPcs
<1>5. SpeechOK(r) /\ KindOK(r) /\ TriedOK(r)
  BY <1>2 DEF SpeechOK, KindOK, TriedOK, LocalPcs, CloudPcs
<1> QED
  BY <1>3, <1>4, <1>5 DEF OutcomeOK

-----------------------------------------------------------------------------
(* The strengthening, action by action *)

LEMMA OutcomeBegin ==
  ASSUME IInv, OutcomeInv, NEW r \in Requests, Begin(r)
  PROVE  OutcomeInv'
<1> DEFINE target == Decision(request[r])
<1> USE DEF IInv
<1>1. /\ OutcomeOK(r) /\ RouteOK(r) /\ response[r] \in Response /\ TypeOK
      /\ request[r] \in RequestKind /\ pc[r] = "idle"
  BY KindsAssumption DEF OutcomeInv, RouteInv, TypeOK, Begin
<1>2. target \in Backends
  BY <1>1, DecisionTypes
<1>3. /\ UNCHANGED <<config, request, localReady, localInfo, called, speakers, streamStarted>>
  BY DEF Begin, engine, stream
<1>4. CASE ~request[r].valid
  <2>1. Refuse(r, response[r], "invalid_request", NoIdentity)
    BY <1>4 DEF Begin
  <2>2. /\ pc'[r] = "report"
        /\ response'[r].errorKind = "invalid_request"
        /\ response'[r].finalIdentity = NoIdentity
        /\ response'[r].ok = response[r].ok
        /\ response'[r].fallbackUsed = response[r].fallbackUsed
        /\ response'[r].initialTarget = response[r].initialTarget
        /\ \A q \in Requests \ {r} :
              /\ pc'[q] = pc[q] /\ response'[q] = response[q]
              /\ allowFallback'[q] = allowFallback[q]
    BY <1>1, <2>1, RefuseGives, IdentityTypes DEF ErrorKinds
  <2>3. NoIdentity.target = "local"
    BY DEF NoIdentity
  <2>4. OpenOK(r)' /\ FlagOK(r)'
    BY <1>1, <1>3, <2>2, <2>3 DEF OutcomeOK, OpenOK, FlagOK, LocalPcs, CloudPcs
  <2>5. SpeechOK(r)' /\ KindOK(r)'
    BY <1>1, <1>3, <2>2 DEF OutcomeOK, OpenOK, SpeechOK, KindOK, RouteOK, Before
  <2>6. TriedOK(r)'
    BY <1>3, <1>4, <2>2 DEF TriedOK, Free, LocalPcs, CloudPcs
  <2> QED
    BY <1>3, <2>2, <2>4, <2>5, <2>6, OneMoves DEF OutcomeOK, Still
<1>5. CASE request[r].valid
  <2>1. /\ response'[r] = [response[r] EXCEPT
               !.initialTarget = target, !.finalTarget = target,
               !.initialIdentity = DecidedIdentity(request[r])]
        /\ pc'[r] = IF target = "local" THEN "localInfo" ELSE "cloudInfo"
        /\ allowFallback'[r] = (request[r].override = "auto")
        /\ \A q \in Requests \ {r} :
              /\ pc'[q] = pc[q] /\ response'[q] = response[q]
              /\ allowFallback'[q] = allowFallback[q]
    BY <1>5 DEF Begin, TypeOK
  <2>2. /\ response'[r].ok = response[r].ok
        /\ response'[r].errorKind = response[r].errorKind
        /\ response'[r].fallbackUsed = response[r].fallbackUsed
        /\ response'[r].initialTarget = target
    BY <1>1, <2>1 DEF Response
  <2>3. OpenOK(r)' /\ FlagOK(r)'
    BY <1>1, <1>2, <1>3, <2>1, <2>2
       DEF OutcomeOK, OpenOK, FlagOK, LocalPcs, CloudPcs, Backends
  <2>4. SpeechOK(r)' /\ KindOK(r)'
    BY <1>1, <1>3, <2>1 DEF OutcomeOK, SpeechOK, KindOK, RouteOK, Before
  <2>5. TriedOK(r)'
    BY <1>1, <1>3, <2>1 DEF TriedOK, RouteOK, Free
  <2> QED
    BY <1>3, <2>1, <2>3, <2>4, <2>5, OneMoves DEF OutcomeOK, Still
<1> QED
  BY <1>4, <1>5

LEMMA OutcomeEnterLocal ==
  ASSUME IInv, OutcomeInv, NEW r \in Requests, EnterLocal(r)
  PROVE  OutcomeInv'
<1> DEFINE resp == [response[r] EXCEPT
                      !.initialIdentity = IF @.engine = "" THEN LocalIdentity ELSE @]
<1>1. /\ OutcomeOK(r) /\ RouteOK(r) /\ EngineOK(r) /\ response[r] \in Response
      /\ TypeOK /\ pc[r] = "localInfo"
  BY DEF IInv, OutcomeInv, RouteInv, EngineInv, TypeOK, EnterLocal
<1>2. resp \in Response
  BY <1>1, IdentityTypes DEF Response
<1>3. Agrees(resp, response[r])
  BY <1>1 DEF Agrees, Response
<1>4. /\ UNCHANGED <<config, request, localReady, called, speakers, streamStarted>>
      /\ localInfo'[r] = LocalIdentity
      /\ \A q \in Requests \ {r} : localInfo'[q] = localInfo[q]
  BY <1>1 DEF EnterLocal, engine, stream, TypeOK
<1>5. LocalIdentity.target = "local"
  BY DEF LocalIdentity
<1>6. \/ /\ response' = [response EXCEPT ![r] = resp]
         /\ pc' = [pc EXCEPT ![r] = "localCheck"]
         /\ UNCHANGED allowFallback
      \/ RequiresRemote(r) /\ CloudFallbackOpen(r) /\ SwitchTo(r, "cloud", resp)
      \/ RequiresRemote(r) /\ Refuse(r, resp, "unsupported_feature", LocalIdentity)
  BY DEF EnterLocal
<1> HIDE DEF resp
<1>7. CASE /\ response' = [response EXCEPT ![r] = resp]
           /\ pc' = [pc EXCEPT ![r] = "localCheck"]
           /\ UNCHANGED allowFallback
  <2>1. /\ response'[r] = resp /\ pc'[r] = "localCheck"
        /\ \A q \in Requests \ {r} : pc'[q] = pc[q] /\ response'[q] = response[q]
    BY <1>1, <1>7 DEF TypeOK
  <2>2. OpenOK(r)' /\ FlagOK(r)'
    BY <1>1, <1>3, <1>4, <1>5, <1>7, <2>1
       DEF OutcomeOK, OpenOK, FlagOK, Agrees, LocalPcs, CloudPcs
  <2>3. SpeechOK(r)' /\ KindOK(r)' /\ TriedOK(r)'
    BY <1>1, <1>4, <1>7, <2>1
       DEF OutcomeOK, SpeechOK, KindOK, TriedOK, Free, CloudTried, Before, LocalPcs, CloudPcs
  <2> QED
    BY <1>4, <1>7, <2>1, <2>2, <2>3, OneMoves DEF OutcomeOK, Still
<1>8. CASE RequiresRemote(r) /\ CloudFallbackOpen(r) /\ SwitchTo(r, "cloud", resp)
  \* HeuristicRouter never leaves this case open: see EngineOK.
  BY <1>1, <1>8 DEF EngineOK, RouteOK, RequiresRemote, CloudFallbackOpen, LocalPcs
<1>9. CASE RequiresRemote(r) /\ Refuse(r, resp, "unsupported_feature", LocalIdentity)
  <2>1. /\ pc'[r] = "report" /\ allowFallback'[r] = allowFallback[r]
        /\ response'[r].errorKind = "unsupported_feature"
        /\ response'[r].finalIdentity = LocalIdentity
        /\ response'[r].ok = resp.ok /\ response'[r].fallbackUsed = resp.fallbackUsed
        /\ response'[r].initialTarget = resp.initialTarget
        /\ \A q \in Requests \ {r} :
             /\ pc'[q] = pc[q] /\ response'[q] = response[q]
             /\ allowFallback'[q] = allowFallback[q]
    BY <1>1, <1>2, <1>9, RefuseGives, IdentityTypes DEF ErrorKinds
  <2>2. OpenOK(r)' /\ FlagOK(r)'
    BY <1>1, <1>3, <1>4, <1>5, <2>1
       DEF OutcomeOK, OpenOK, FlagOK, Agrees, LocalPcs, CloudPcs
  <2>3. SpeechOK(r)' /\ KindOK(r)'
    BY <1>1, <1>3, <1>4, <2>1
       DEF OutcomeOK, OpenOK, SpeechOK, KindOK, Agrees, RouteOK, Before, LocalPcs
  <2>4. TriedOK(r)'
    BY <1>1, <1>4, <1>9, <2>1
       DEF TriedOK, Free, EngineOK, RequiresRemote, LocalPcs, CloudPcs
  <2> QED
    BY <1>4, <2>1, <2>2, <2>3, <2>4, OneMoves DEF OutcomeOK, Still
<1> QED
  BY <1>6, <1>7, <1>8, <1>9

LEMMA OutcomeCheckLocal ==
  ASSUME IInv, OutcomeInv, NEW r \in Requests, CheckLocal(r)
  PROVE  OutcomeInv'
<1>1. /\ OutcomeOK(r) /\ RouteOK(r) /\ response[r] \in Response /\ localInfo[r] \in Identity
      /\ TypeOK /\ pc[r] = "localCheck" /\ ReadyInv
  BY DEF IInv, OutcomeInv, RouteInv, TypeOK, CheckLocal
<1>2. UNCHANGED <<config, request, localReady, localInfo, called, speakers, streamStarted>>
  BY DEF CheckLocal, engine, stream
<1>3. CASE localReady /\ pc' = [pc EXCEPT ![r] = "localCall"] /\ UNCHANGED <<response, allowFallback>>
  <2>1. pc'[r] = "localCall" /\ \A q \in Requests \ {r} : pc'[q] = pc[q]
    BY <1>1, <1>3 DEF TypeOK
  <2>2. OpenOK(r)' /\ FlagOK(r)'
    BY <1>1, <1>2, <1>3, <2>1 DEF OutcomeOK, OpenOK, FlagOK, LocalPcs, CloudPcs
  <2>3. SpeechOK(r)' /\ KindOK(r)' /\ TriedOK(r)'
    BY <1>1, <1>2, <1>3, <2>1
       DEF OutcomeOK, SpeechOK, KindOK, TriedOK, Free, CloudTried, Before, LocalPcs, CloudPcs
  <2> QED
    BY <1>2, <1>3, <2>1, <2>2, <2>3, OneMoves DEF OutcomeOK, Still
<1>4. CASE ~localReady /\ CloudFallbackOpen(r) /\ SwitchTo(r, "cloud", response[r])
  <2>1. /\ pc'[r] = "cloudInfo" /\ allowFallback'[r] = FALSE
        /\ response'[r].fallbackUsed = TRUE
        /\ response'[r].ok = response[r].ok
        /\ response'[r].errorKind = response[r].errorKind
        /\ response'[r].initialTarget = response[r].initialTarget
        /\ \A q \in Requests \ {r} :
             /\ pc'[q] = pc[q] /\ response'[q] = response[q]
             /\ allowFallback'[q] = allowFallback[q]
    BY <1>1, <1>4, SwitchGives DEF Backends
  <2>2. response[r].initialTarget = "local"
    BY <1>1, <1>4 DEF OutcomeOK, FlagOK, CloudFallbackOpen, LocalPcs
  <2>3. OpenOK(r)' /\ FlagOK(r)'
    BY <1>1, <1>2, <2>1, <2>2 DEF OutcomeOK, OpenOK, FlagOK, LocalPcs, CloudPcs
  <2>4. SpeechOK(r)' /\ KindOK(r)'
    BY <1>1, <1>2, <2>1 DEF OutcomeOK, SpeechOK, KindOK, Before
  <2>5. TriedOK(r)'
    BY <1>1, <1>2, <1>4, <2>1
       DEF TriedOK, Free, LocalTried, ReadyInv, CloudFallbackOpen, LocalPcs
  <2> QED
    BY <1>2, <2>1, <2>3, <2>4, <2>5, OneMoves DEF OutcomeOK, Still
<1>5. CASE /\ ~localReady /\ ~CloudFallbackOpen(r)
           /\ Refuse(r, response[r], "local_unavailable", localInfo[r])
  <2>1. /\ pc'[r] = "report" /\ allowFallback'[r] = allowFallback[r]
        /\ response'[r].errorKind = "local_unavailable"
        /\ response'[r].finalIdentity = localInfo[r]
        /\ response'[r].ok = response[r].ok
        /\ response'[r].fallbackUsed = response[r].fallbackUsed
        /\ response'[r].initialTarget = response[r].initialTarget
        /\ \A q \in Requests \ {r} :
             /\ pc'[q] = pc[q] /\ response'[q] = response[q]
             /\ allowFallback'[q] = allowFallback[q]
    BY <1>1, <1>5, RefuseGives DEF ErrorKinds
  <2>2. OpenOK(r)' /\ FlagOK(r)'
    BY <1>1, <1>2, <2>1 DEF OutcomeOK, OpenOK, FlagOK, LocalPcs, CloudPcs
  <2>3. SpeechOK(r)' /\ KindOK(r)'
    BY <1>1, <1>2, <2>1 DEF OutcomeOK, OpenOK, SpeechOK, KindOK, RouteOK, Before, LocalPcs
  <2>4. TriedOK(r)'
    <3>1. ~allowFallback[r] \/ ~config.cloud
      BY <1>1, <1>5 DEF CloudFallbackOpen, RouteOK, Before
    <3>2. Free(r) => CloudTried(r) /\ LocalTried(r)
      BY <1>1, <1>5, <3>1
         DEF OutcomeOK, TriedOK, CloudTried, LocalTried, ReadyInv, LocalPcs
    <3> QED
      BY <1>2, <2>1, <3>2 DEF TriedOK, Free, CloudTried, LocalTried, LocalPcs, CloudPcs
  <2> QED
    BY <1>2, <2>1, <2>2, <2>3, <2>4, OneMoves DEF OutcomeOK, Still
<1> QED
  BY <1>3, <1>4, <1>5 DEF CheckLocal

LEMMA OutcomeCallLocal ==
  ASSUME IInv, OutcomeInv, NEW r \in Requests, CallLocal(r)
  PROVE  OutcomeInv'
<1>1. /\ OutcomeOK(r) /\ TypeOK /\ pc[r] = "localCall"
  BY DEF IInv, OutcomeInv, CallLocal
<1>2. /\ UNCHANGED <<config, request, localReady, response, localInfo, allowFallback,
                    speakers, streamStarted>>
      /\ pc'[r] = "localRun" /\ called'[r] = called[r] \cup {"local"}
      /\ \A q \in Requests \ {r} : pc'[q] = pc[q] /\ called'[q] = called[q]
  BY <1>1 DEF CallLocal, engine, TypeOK
<1>3. OpenOK(r)' /\ FlagOK(r)'
  BY <1>1, <1>2 DEF OutcomeOK, OpenOK, FlagOK, LocalPcs, CloudPcs
<1>4. SpeechOK(r)' /\ KindOK(r)' /\ TriedOK(r)'
  BY <1>1, <1>2
     DEF OutcomeOK, SpeechOK, KindOK, TriedOK, Free, CloudTried, Before, LocalPcs, CloudPcs
<1> QED
  BY <1>2, <1>3, <1>4, OneMoves DEF OutcomeOK, Still

LEMMA OutcomeLocalSucceeds ==
  ASSUME IInv, OutcomeInv, NEW r \in Requests, LocalSucceeds(r)
  PROVE  OutcomeInv'
<1>1. /\ OutcomeOK(r) /\ TypeOK /\ pc[r] = "localRun" /\ response[r] \in Response
  BY DEF IInv, OutcomeInv, LocalSucceeds, TypeOK
<1>2. UNCHANGED <<config, request, localReady, localInfo, called, speakers, streamStarted>>
  BY DEF LocalSucceeds, engine, stream
<1>3. /\ pc'[r] = "report" /\ allowFallback'[r] = allowFallback[r]
      /\ response'[r].ok = TRUE /\ response'[r].finalTarget = "local"
      /\ response'[r].finalIdentity = LocalIdentity
      /\ response'[r].errorKind = response[r].errorKind
      /\ response'[r].fallbackUsed = response[r].fallbackUsed
      /\ response'[r].initialTarget = response[r].initialTarget
      /\ \A q \in Requests \ {r} :
           /\ pc'[q] = pc[q] /\ response'[q] = response[q]
           /\ allowFallback'[q] = allowFallback[q]
  BY <1>1, SucceedGives, IdentityTypes DEF LocalSucceeds, Backends
<1>4. LocalIdentity.target = "local"
  BY DEF LocalIdentity
<1>5. OpenOK(r)' /\ FlagOK(r)'
  BY <1>1, <1>2, <1>3, <1>4 DEF OutcomeOK, OpenOK, FlagOK, LocalPcs, CloudPcs
<1>6. SpeechOK(r)' /\ KindOK(r)' /\ TriedOK(r)'
  BY <1>1, <1>2, <1>3, <1>4
     DEF OutcomeOK, OpenOK, SpeechOK, KindOK, TriedOK, Before, LocalPcs, CloudPcs
<1> QED
  BY <1>2, <1>3, <1>5, <1>6, OneMoves DEF OutcomeOK, Still

LEMMA OutcomeLocalFails ==
  ASSUME IInv, OutcomeInv, NEW r \in Requests, NEW garbled \in BOOLEAN, LocalFails(r, garbled)
  PROVE  OutcomeInv'
<1> DEFINE resp == [response[r] EXCEPT !.garbled = @ \/ garbled]
           identity == IF request[r].stream THEN LocalIdentity ELSE localInfo[r]
<1>1. /\ OutcomeOK(r) /\ RouteOK(r) /\ response[r] \in Response /\ TypeOK
      /\ pc[r] = "localRun" /\ localInfo[r] \in Identity
  BY DEF IInv, OutcomeInv, RouteInv, TypeOK, LocalFails
<1>2. resp \in Response /\ Agrees(resp, response[r])
  BY <1>1 DEF Response, Agrees
<1>3. identity \in Identity /\ identity.target = "local"
  <2>1. LocalIdentity.target = "local" /\ localInfo[r].target = "local"
    BY <1>1 DEF LocalIdentity, OutcomeOK, FlagOK
  <2> QED
    BY <1>1, <2>1, IdentityTypes
<1>4. UNCHANGED <<config, request, localReady, localInfo, called, speakers, streamStarted>>
  BY DEF LocalFails, engine, stream
<1>5. \/ CloudFallbackOpen(r) /\ SwitchTo(r, "cloud", resp)
      \/ ~CloudFallbackOpen(r) /\ Refuse(r, resp, "local_failure", identity)
  BY DEF LocalFails
<1> HIDE DEF resp, identity
<1>6. "local" \in called[r]
  BY <1>1 DEF OutcomeOK, SpeechOK
<1>7. CASE CloudFallbackOpen(r) /\ SwitchTo(r, "cloud", resp)
  <2>1. /\ pc'[r] = "cloudInfo" /\ allowFallback'[r] = FALSE
        /\ response'[r].fallbackUsed = TRUE
        /\ response'[r].ok = resp.ok /\ response'[r].errorKind = resp.errorKind
        /\ response'[r].initialTarget = resp.initialTarget
        /\ \A q \in Requests \ {r} :
             /\ pc'[q] = pc[q] /\ response'[q] = response[q]
             /\ allowFallback'[q] = allowFallback[q]
    BY <1>1, <1>2, <1>7, SwitchGives DEF Backends
  <2>2. response[r].initialTarget = "local" /\ config.cloud /\ speakers[r] = {} /\ ~streamStarted[r]
    BY <1>1, <1>7 DEF OutcomeOK, FlagOK, CloudFallbackOpen, RouteOK, LocalPcs
  <2>3. OpenOK(r)' /\ FlagOK(r)'
    BY <1>1, <1>2, <1>4, <2>1, <2>2
       DEF OutcomeOK, OpenOK, FlagOK, Agrees, LocalPcs, CloudPcs
  <2>4. SpeechOK(r)' /\ KindOK(r)'
    BY <1>1, <1>4, <2>1, <2>2 DEF SpeechOK, KindOK, Before
  <2>5. TriedOK(r)'
    BY <1>4, <1>6, <2>1, <2>2 DEF TriedOK, Free, LocalTried, LocalPcs
  <2> QED
    BY <1>4, <2>1, <2>3, <2>4, <2>5, OneMoves DEF OutcomeOK, Still
<1>8. CASE ~CloudFallbackOpen(r) /\ Refuse(r, resp, "local_failure", identity)
  <2>1. /\ pc'[r] = "report" /\ allowFallback'[r] = allowFallback[r]
        /\ response'[r].errorKind = "local_failure"
        /\ response'[r].finalIdentity = identity
        /\ response'[r].ok = resp.ok /\ response'[r].fallbackUsed = resp.fallbackUsed
        /\ response'[r].initialTarget = resp.initialTarget
        /\ \A q \in Requests \ {r} :
             /\ pc'[q] = pc[q] /\ response'[q] = response[q]
             /\ allowFallback'[q] = allowFallback[q]
    BY <1>1, <1>2, <1>3, <1>8, RefuseGives DEF ErrorKinds
  <2>2. OpenOK(r)' /\ FlagOK(r)'
    BY <1>1, <1>2, <1>3, <1>4, <2>1
       DEF OutcomeOK, OpenOK, FlagOK, Agrees, LocalPcs, CloudPcs
  <2>3. SpeechOK(r)' /\ KindOK(r)'
    BY <1>1, <1>2, <1>4, <1>6, <2>1
       DEF OutcomeOK, OpenOK, SpeechOK, KindOK, Agrees, Before, LocalPcs
  <2>4. TriedOK(r)'
    <3>1. speakers[r] = {} => ~allowFallback[r] \/ ~config.cloud
      BY <1>1, <1>8 DEF CloudFallbackOpen, OutcomeOK, SpeechOK
    <3>2. Free(r) /\ speakers[r] = {} => CloudTried(r) /\ LocalTried(r)
      BY <1>1, <1>6, <3>1 DEF OutcomeOK, TriedOK, CloudTried, LocalTried, LocalPcs
    <3> QED
      BY <1>4, <2>1, <3>2 DEF TriedOK, Free, CloudTried, LocalTried, LocalPcs, CloudPcs
  <2> QED
    BY <1>4, <2>1, <2>2, <2>3, <2>4, OneMoves DEF OutcomeOK, Still
<1> QED
  BY <1>5, <1>7, <1>8

LEMMA OutcomeEnterCloud ==
  ASSUME IInv, OutcomeInv, NEW r \in Requests, EnterCloud(r)
  PROVE  OutcomeInv'
<1> DEFINE resp == [response[r] EXCEPT
                      !.initialIdentity = IF @.backend = "" THEN CloudIdentity ELSE @]
<1>1. /\ OutcomeOK(r) /\ RouteOK(r) /\ response[r] \in Response
      /\ TypeOK /\ pc[r] = "cloudInfo"
  BY DEF IInv, OutcomeInv, RouteInv, TypeOK, EnterCloud
<1>2. resp \in Response
  BY <1>1, IdentityTypes DEF Response
<1>3. Agrees(resp, response[r])
  BY <1>1 DEF Agrees, Response
<1>4. UNCHANGED <<config, request, localReady, localInfo, speakers, streamStarted>>
  BY DEF EnterCloud, engine
<1>5. \/ /\ config.cloud
         /\ response' = [response EXCEPT ![r] = resp]
         /\ pc' = [pc EXCEPT ![r] = "cloudRun"]
         /\ called' = [called EXCEPT ![r] = @ \cup {"cloud"}]
         /\ UNCHANGED allowFallback
      \/ /\ ~config.cloud /\ LocalFallbackOpen(r)
         /\ response' = [response EXCEPT ![r] = resp]
         /\ pc' = [pc EXCEPT ![r] = "bestEffort"]
         /\ UNCHANGED <<allowFallback, called>>
      \/ /\ ~config.cloud /\ ~LocalFallbackOpen(r)
         /\ Refuse(r, resp, CloudError(r), CloudIdentity)
         /\ UNCHANGED called
  BY DEF EnterCloud
<1> HIDE DEF resp
<1>6. CASE /\ config.cloud
           /\ response' = [response EXCEPT ![r] = resp]
           /\ pc' = [pc EXCEPT ![r] = "cloudRun"]
           /\ called' = [called EXCEPT ![r] = @ \cup {"cloud"}]
           /\ UNCHANGED allowFallback
  <2>1. /\ response'[r] = resp /\ pc'[r] = "cloudRun"
        /\ called'[r] = called[r] \cup {"cloud"}
        /\ \A q \in Requests \ {r} :
             pc'[q] = pc[q] /\ response'[q] = response[q] /\ called'[q] = called[q]
    BY <1>1, <1>6 DEF TypeOK
  <2>2. OpenOK(r)' /\ FlagOK(r)'
    BY <1>1, <1>3, <1>4, <1>6, <2>1
       DEF OutcomeOK, OpenOK, FlagOK, Agrees, LocalPcs, CloudPcs
  <2>3. SpeechOK(r)' /\ KindOK(r)' /\ TriedOK(r)'
    BY <1>1, <1>4, <1>6, <2>1
       DEF OutcomeOK, SpeechOK, KindOK, TriedOK, Free, LocalTried, Before, LocalPcs, CloudPcs
  <2> QED
    BY <1>4, <1>6, <2>1, <2>2, <2>3, OneMoves DEF OutcomeOK, Still
<1>7. CASE /\ ~config.cloud /\ LocalFallbackOpen(r)
           /\ response' = [response EXCEPT ![r] = resp]
           /\ pc' = [pc EXCEPT ![r] = "bestEffort"]
           /\ UNCHANGED <<allowFallback, called>>
  <2>1. /\ response'[r] = resp /\ pc'[r] = "bestEffort"
        /\ \A q \in Requests \ {r} : pc'[q] = pc[q] /\ response'[q] = response[q]
    BY <1>1, <1>7 DEF TypeOK
  <2>2. OpenOK(r)' /\ FlagOK(r)'
    BY <1>1, <1>3, <1>4, <1>7, <2>1
       DEF OutcomeOK, OpenOK, FlagOK, Agrees, LocalPcs, CloudPcs
  <2>3. SpeechOK(r)' /\ KindOK(r)' /\ TriedOK(r)'
    BY <1>1, <1>4, <1>7, <2>1
       DEF OutcomeOK, SpeechOK, KindOK, TriedOK, Free, CloudTried, LocalTried, Before,
           LocalPcs, CloudPcs
  <2> QED
    BY <1>4, <1>7, <2>1, <2>2, <2>3, OneMoves DEF OutcomeOK, Still
<1>8. CASE /\ ~config.cloud /\ ~LocalFallbackOpen(r)
           /\ Refuse(r, resp, CloudError(r), CloudIdentity)
           /\ UNCHANGED called
  <2>1. CloudError(r) = "cloud_unavailable" /\ called[r] = {}
    BY <1>1, <1>8 DEF CloudError, RouteOK, OutcomeOK, TriedOK
  <2>2. /\ pc'[r] = "report" /\ allowFallback'[r] = allowFallback[r]
        /\ response'[r].errorKind = "cloud_unavailable"
        /\ response'[r].finalIdentity = CloudIdentity
        /\ response'[r].ok = resp.ok /\ response'[r].fallbackUsed = resp.fallbackUsed
        /\ response'[r].initialTarget = resp.initialTarget
        /\ \A q \in Requests \ {r} :
             /\ pc'[q] = pc[q] /\ response'[q] = response[q]
             /\ allowFallback'[q] = allowFallback[q]
    BY <1>1, <1>2, <1>8, <2>1, RefuseGives, IdentityTypes DEF ErrorKinds
  <2>3. CloudIdentity.target = "cloud"
    BY DEF CloudIdentity
  <2>4. OpenOK(r)' /\ FlagOK(r)'
    BY <1>1, <1>3, <1>4, <2>2, <2>3
       DEF OutcomeOK, OpenOK, FlagOK, Agrees, LocalPcs, CloudPcs
  <2>5. SpeechOK(r)' /\ KindOK(r)'
    BY <1>1, <1>3, <1>4, <1>8, <2>1, <2>2
       DEF OutcomeOK, OpenOK, SpeechOK, KindOK, Agrees, RouteOK, Before, CloudPcs
  <2>6. TriedOK(r)'
    <3>1. ~allowFallback[r]
      BY <1>1, <1>8 DEF LocalFallbackOpen, RouteOK, Before
    <3>2. Free(r) => CloudTried(r) /\ LocalTried(r)
      BY <1>1, <1>8, <3>1 DEF OutcomeOK, TriedOK, CloudTried, CloudPcs
    <3> QED
      BY <1>4, <1>8, <2>2, <3>2 DEF TriedOK, Free, CloudTried, LocalTried, LocalPcs, CloudPcs
  <2> QED
    BY <1>4, <1>8, <2>2, <2>4, <2>5, <2>6, OneMoves DEF OutcomeOK, Still
<1> QED
  BY <1>5, <1>6, <1>7, <1>8

LEMMA OutcomeCloudSucceeds ==
  ASSUME IInv, OutcomeInv, NEW r \in Requests, CloudSucceeds(r)
  PROVE  OutcomeInv'
<1>1. /\ OutcomeOK(r) /\ TypeOK /\ pc[r] = "cloudRun" /\ response[r] \in Response
  BY DEF IInv, OutcomeInv, CloudSucceeds, TypeOK
<1>2. UNCHANGED <<config, request, localReady, localInfo, called, speakers, streamStarted>>
  BY DEF CloudSucceeds, engine, stream
<1>3. /\ pc'[r] = "report" /\ allowFallback'[r] = allowFallback[r]
      /\ response'[r].ok = TRUE /\ response'[r].finalTarget = "cloud"
      /\ response'[r].finalIdentity = SelectedBackend(r)
      /\ response'[r].errorKind = response[r].errorKind
      /\ response'[r].fallbackUsed = response[r].fallbackUsed
      /\ response'[r].initialTarget = response[r].initialTarget
      /\ \A q \in Requests \ {r} :
           /\ pc'[q] = pc[q] /\ response'[q] = response[q]
           /\ allowFallback'[q] = allowFallback[q]
  BY <1>1, SucceedGives, IdentityTypes DEF CloudSucceeds, Backends
<1>4. SelectedBackend(r).target = "cloud"
  BY DEF SelectedBackend
<1>5. OpenOK(r)' /\ FlagOK(r)'
  BY <1>1, <1>2, <1>3, <1>4 DEF OutcomeOK, OpenOK, FlagOK, LocalPcs, CloudPcs
<1>6. SpeechOK(r)' /\ KindOK(r)' /\ TriedOK(r)'
  BY <1>1, <1>2, <1>3, <1>4
     DEF OutcomeOK, OpenOK, SpeechOK, KindOK, TriedOK, Before, LocalPcs, CloudPcs
<1> QED
  BY <1>2, <1>3, <1>5, <1>6, OneMoves DEF OutcomeOK, Still

LEMMA OutcomeCloudFails ==
  ASSUME IInv, OutcomeInv, NEW r \in Requests, NEW garbled \in BOOLEAN, CloudFails(r, garbled)
  PROVE  OutcomeInv'
<1> DEFINE resp == [response[r] EXCEPT !.garbled = @ \/ garbled]
<1>1. /\ OutcomeOK(r) /\ RouteOK(r) /\ response[r] \in Response /\ TypeOK
      /\ pc[r] = "cloudRun"
  BY DEF IInv, OutcomeInv, RouteInv, TypeOK, CloudFails
<1>2. resp \in Response /\ Agrees(resp, response[r])
  BY <1>1 DEF Response, Agrees
<1>3. UNCHANGED <<config, request, localReady, localInfo, called, speakers, streamStarted>>
  BY DEF CloudFails, engine, stream
<1>4. \/ /\ LocalFallbackOpen(r)
         /\ response' = [response EXCEPT ![r] = resp]
         /\ pc' = [pc EXCEPT ![r] = "bestEffort"]
         /\ UNCHANGED allowFallback
      \/ ~LocalFallbackOpen(r) /\ Refuse(r, resp, CloudError(r), CloudErrorIdentity(r))
  BY DEF CloudFails
<1> HIDE DEF resp
<1>5. "cloud" \in called[r] /\ config.cloud
  BY <1>1 DEF OutcomeOK, SpeechOK, TriedOK
<1>6. CASE /\ LocalFallbackOpen(r)
           /\ response' = [response EXCEPT ![r] = resp]
           /\ pc' = [pc EXCEPT ![r] = "bestEffort"]
           /\ UNCHANGED allowFallback
  <2>1. /\ response'[r] = resp /\ pc'[r] = "bestEffort"
        /\ \A q \in Requests \ {r} : pc'[q] = pc[q] /\ response'[q] = response[q]
    BY <1>1, <1>6 DEF TypeOK
  <2>2. speakers[r] = {} /\ ~streamStarted[r]
    BY <1>1, <1>6 DEF LocalFallbackOpen, RouteOK
  <2>3. OpenOK(r)' /\ FlagOK(r)'
    BY <1>1, <1>2, <1>3, <1>6, <2>1
       DEF OutcomeOK, OpenOK, FlagOK, Agrees, LocalPcs, CloudPcs
  <2>4. SpeechOK(r)' /\ KindOK(r)'
    BY <1>3, <2>1, <2>2 DEF SpeechOK, KindOK, Before
  <2>5. TriedOK(r)'
    BY <1>1, <1>3, <1>5, <1>6, <2>1
       DEF OutcomeOK, TriedOK, Free, CloudTried, LocalTried, LocalPcs, CloudPcs
  <2> QED
    BY <1>3, <1>6, <2>1, <2>3, <2>4, <2>5, OneMoves DEF OutcomeOK, Still
<1>7. CASE ~LocalFallbackOpen(r) /\ Refuse(r, resp, CloudError(r), CloudErrorIdentity(r))
  <2>1. CloudError(r) = "cloud_failure"
    BY <1>5 DEF CloudError
  <2>2. CloudErrorIdentity(r).target = "cloud"
    BY DEF CloudErrorIdentity, CloudIdentity, SelectedBackend
  <2>3. /\ pc'[r] = "report" /\ allowFallback'[r] = allowFallback[r]
        /\ response'[r].errorKind = "cloud_failure"
        /\ response'[r].finalIdentity = CloudErrorIdentity(r)
        /\ response'[r].ok = resp.ok /\ response'[r].fallbackUsed = resp.fallbackUsed
        /\ response'[r].initialTarget = resp.initialTarget
        /\ \A q \in Requests \ {r} :
             /\ pc'[q] = pc[q] /\ response'[q] = response[q]
             /\ allowFallback'[q] = allowFallback[q]
    BY <1>1, <1>2, <1>7, <2>1, RefuseGives, IdentityTypes DEF ErrorKinds
  <2>4. OpenOK(r)' /\ FlagOK(r)'
    BY <1>1, <1>2, <1>3, <2>2, <2>3
       DEF OutcomeOK, OpenOK, FlagOK, Agrees, LocalPcs, CloudPcs
  <2>5. SpeechOK(r)' /\ KindOK(r)'
    BY <1>1, <1>2, <1>3, <1>5, <2>3
       DEF OutcomeOK, OpenOK, SpeechOK, KindOK, Agrees, Before, CloudPcs
  <2>6. TriedOK(r)'
    <3>1. speakers[r] = {} => ~allowFallback[r]
      BY <1>1, <1>7 DEF LocalFallbackOpen, OutcomeOK, SpeechOK
    <3>2. Free(r) /\ speakers[r] = {} => CloudTried(r) /\ LocalTried(r)
      BY <1>1, <1>5, <3>1 DEF OutcomeOK, TriedOK, CloudTried, LocalTried, CloudPcs
    <3> QED
      BY <1>3, <2>3, <3>2 DEF TriedOK, Free, CloudTried, LocalTried, LocalPcs, CloudPcs
  <2> QED
    BY <1>3, <2>3, <2>4, <2>5, <2>6, OneMoves DEF OutcomeOK, Still
<1> QED
  BY <1>4, <1>6, <1>7

LEMMA OutcomeTryLocal ==
  ASSUME IInv, OutcomeInv, NEW r \in Requests, TryLocal(r)
  PROVE  OutcomeInv'
<1>1. /\ OutcomeOK(r) /\ RouteOK(r) /\ response[r] \in Response /\ TypeOK
      /\ pc[r] = "bestEffort" /\ ReadyInv
  BY DEF IInv, OutcomeInv, RouteInv, TypeOK, TryLocal
<1>2. UNCHANGED <<config, request, localReady, localInfo, called, speakers, streamStarted>>
  BY DEF TryLocal, engine, stream
<1>3. /\ speakers[r] = {} /\ ~streamStarted[r] /\ allowFallback[r] /\ CloudTried(r)
  BY <1>1 DEF RouteOK, Before, OutcomeOK, TriedOK
<1>4. CASE SwitchTo(r, "local", response[r])
  <2>1. /\ pc'[r] = "localInfo" /\ allowFallback'[r] = FALSE
        /\ response'[r].fallbackUsed = TRUE
        /\ response'[r].ok = response[r].ok
        /\ response'[r].errorKind = response[r].errorKind
        /\ response'[r].initialTarget = response[r].initialTarget
        /\ \A q \in Requests \ {r} :
             /\ pc'[q] = pc[q] /\ response'[q] = response[q]
             /\ allowFallback'[q] = allowFallback[q]
    BY <1>1, <1>4, SwitchGives DEF Backends
  <2>2. response[r].initialTarget = "cloud"
    BY <1>1, <1>3 DEF OutcomeOK, FlagOK, CloudPcs
  <2>3. OpenOK(r)' /\ FlagOK(r)'
    BY <1>1, <1>2, <2>1, <2>2 DEF OutcomeOK, OpenOK, FlagOK, LocalPcs, CloudPcs
  <2>4. SpeechOK(r)' /\ KindOK(r)' /\ TriedOK(r)'
    BY <1>2, <1>3, <2>1 DEF SpeechOK, KindOK, TriedOK, CloudTried, Before, CloudPcs
  <2> QED
    BY <1>2, <2>1, <2>3, <2>4, OneMoves DEF OutcomeOK, Still
<1>5. CASE ~BestEffort(r) /\ Refuse(r, response[r], CloudError(r), CloudErrorIdentity(r))
  <2>1. CloudErrorIdentity(r).target = "cloud"
    BY DEF CloudErrorIdentity, CloudIdentity, SelectedBackend
  <2>2. CloudError(r) \in {"cloud_failure", "cloud_unavailable"}
    BY DEF CloudError
  <2>3. /\ pc'[r] = "report" /\ allowFallback'[r] = allowFallback[r]
        /\ response'[r].errorKind = CloudError(r)
        /\ response'[r].finalIdentity = CloudErrorIdentity(r)
        /\ response'[r].ok = response[r].ok
        /\ response'[r].fallbackUsed = response[r].fallbackUsed
        /\ response'[r].initialTarget = response[r].initialTarget
        /\ \A q \in Requests \ {r} :
             /\ pc'[q] = pc[q] /\ response'[q] = response[q]
             /\ allowFallback'[q] = allowFallback[q]
    BY <1>1, <1>5, <2>2, RefuseGives, IdentityTypes DEF ErrorKinds
  <2>4. OpenOK(r)' /\ FlagOK(r)'
    BY <1>1, <1>2, <2>1, <2>3 DEF OutcomeOK, OpenOK, FlagOK, LocalPcs, CloudPcs
  <2>5. CloudError(r) = "cloud_unavailable" => called[r] = {} /\ ~config.cloud
    BY <1>1, <1>3 DEF CloudError, CloudTried, OutcomeOK, TriedOK
  <2>6. CloudError(r) = "cloud_failure" => "cloud" \in called[r]
    BY DEF CloudError
  <2>7. SpeechOK(r)' /\ KindOK(r)'
    BY <1>1, <1>2, <1>3, <2>2, <2>3, <2>5, <2>6
       DEF OutcomeOK, OpenOK, SpeechOK, KindOK, Before, CloudPcs
  <2>8. TriedOK(r)'
    BY <1>1, <1>2, <1>3, <1>5, <2>3
       DEF TriedOK, Free, CloudTried, LocalTried, BestEffort, RequiresRemote, ReadyInv,
           LocalPcs, CloudPcs
  <2> QED
    BY <1>2, <2>3, <2>4, <2>7, <2>8, OneMoves DEF OutcomeOK, Still
<1> QED
  BY <1>4, <1>5 DEF TryLocal

LEMMA OutcomeReport ==
  ASSUME IInv, OutcomeInv, NEW r \in Requests, Report(r)
  PROVE  OutcomeInv'
<1>1. /\ OutcomeOK(r) /\ TypeOK /\ pc[r] = "report"
  BY DEF IInv, OutcomeInv, Report
<1>2. /\ UNCHANGED <<config, request, localReady, response, localInfo, allowFallback,
                    called, speakers, streamStarted>>
      /\ pc'[r] \in {"done", "threw"}
      /\ \A q \in Requests \ {r} : pc'[q] = pc[q]
  BY <1>1 DEF Report, engine, stream, TypeOK
<1>3. OpenOK(r)' /\ FlagOK(r)'
  BY <1>1, <1>2 DEF OutcomeOK, OpenOK, FlagOK, LocalPcs, CloudPcs
<1>4. SpeechOK(r)' /\ KindOK(r)'
  BY <1>1, <1>2 DEF OutcomeOK, SpeechOK, KindOK, Before
<1>5. TriedOK(r)'
  BY <1>1, <1>2 DEF OutcomeOK, TriedOK, Free, CloudTried, LocalTried, LocalPcs, CloudPcs
<1> QED
  BY <1>2, <1>3, <1>4, <1>5, OneMoves DEF OutcomeOK, Still

LEMMA OutcomeStream ==
  ASSUME IInv, OutcomeInv, NEW r \in Requests,
         ChunkThrows(r) \/ \E side \in Backends : Chunk(r, side)
  PROVE  OutcomeInv'
<1>1. OutcomeOK(r) /\ TypeOK
  BY DEF IInv, OutcomeInv
<1>2. /\ UNCHANGED <<config, request, localReady, response, localInfo, allowFallback, called>>
      /\ \A q \in Requests \ {r} :
           /\ pc'[q] = pc[q] /\ streamStarted'[q] = streamStarted[q]
           /\ speakers'[q] = speakers[q]
  BY <1>1 DEF ChunkThrows, Chunk, engine, TypeOK
<1>3. CASE ChunkThrows(r)
  <2>1. pc'[r] = "threw"
    BY <1>1, <1>3 DEF ChunkThrows, TypeOK
  <2>2. OutcomeOK(r)'
    BY <1>1, <1>2, <2>1
       DEF OutcomeOK, OpenOK, FlagOK, SpeechOK, KindOK, TriedOK, Before, LocalPcs, CloudPcs
  <2> QED
    BY <1>2, <2>2, OneMoves DEF Still
<1>4. CASE \E side \in Backends : Chunk(r, side)
  <2>1. PICK side \in Backends : Chunk(r, side)
    BY <1>4
  <2>2. /\ pc' = pc /\ pc[r] = IF side = "local" THEN "localRun" ELSE "cloudRun"
        /\ speakers'[r] = speakers[r] \cup {side}
    BY <1>1, <2>1 DEF Chunk, Streaming, TypeOK
  <2>3. OpenOK(r)' /\ FlagOK(r)'
    BY <1>1, <1>2, <2>2 DEF OutcomeOK, OpenOK, FlagOK
  <2>4. SpeechOK(r)' /\ KindOK(r)'
    BY <1>1, <1>2, <2>2 DEF OutcomeOK, SpeechOK, KindOK, Before, Backends
  <2>5. TriedOK(r)'
    BY <1>1, <1>2, <2>2 DEF OutcomeOK, TriedOK, Free, CloudTried, LocalTried
  <2> QED
    BY <1>2, <2>2, <2>3, <2>4, <2>5, OneMoves DEF OutcomeOK, Still
<1> QED
  BY <1>3, <1>4

LEMMA OutcomeSurroundings ==
  ASSUME IInv, OutcomeInv,
         \/ \E r \in Requests : Disconnect(r)
         \/ ReloadBegin \/ ReloadEnd \/ UNCHANGED vars
  PROVE  OutcomeInv'
<1>1. UNCHANGED <<config, request, pc, response, localInfo, allowFallback, streamStarted,
                  called, speakers>>
  BY DEF Disconnect, ReloadBegin, ReloadEnd, vars, engine, stream
<1>2. localReady => localReady'
  BY DEF Disconnect, ReloadBegin, ReloadEnd, vars, engine
<1>3. ReadyInv'
  BY <1>1, <1>2 DEF OutcomeInv, ReadyInv
<1>4. ASSUME NEW q \in Requests PROVE OutcomeOK(q)'
  BY <1>1, StillKeepsOutcome DEF OutcomeInv, Still
<1> QED
  BY <1>3, <1>4 DEF OutcomeInv

LEMMA OutcomeStep == IInv /\ OutcomeInv /\ [Next]_vars => OutcomeInv'
<1> SUFFICES ASSUME IInv, OutcomeInv, [Next]_vars PROVE OutcomeInv'
  OBVIOUS
<1>1. ASSUME NEW r \in Requests, Thread(r) PROVE OutcomeInv'
  <2>1. CASE Begin(r) \/ EnterLocal(r) \/ CheckLocal(r) \/ CallLocal(r)
    BY <2>1, OutcomeBegin, OutcomeEnterLocal, OutcomeCheckLocal, OutcomeCallLocal
  <2>2. CASE EnterCloud(r) \/ TryLocal(r) \/ Report(r)
    BY <2>2, OutcomeEnterCloud, OutcomeTryLocal, OutcomeReport
  <2>3. CASE Returns(r)
    BY <2>3, OutcomeLocalSucceeds, OutcomeLocalFails, OutcomeCloudSucceeds, OutcomeCloudFails
       DEF Returns
  <2> QED
    BY <1>1, <2>1, <2>2, <2>3 DEF Thread
<1>2. ASSUME NEW r \in Requests, ChunkThrows(r) \/ \E side \in Backends : Chunk(r, side)
      PROVE  OutcomeInv'
  BY <1>2, OutcomeStream
<1> QED
  BY <1>1, <1>2, OutcomeSurroundings DEF Next, Idle

\* What a response holds on its way, in every reachable state.
THEOREM OutcomeInvariance == Spec => [](IInv /\ OutcomeInv)
<1>1. Init => IInv /\ OutcomeInv
  BY IInvInit, OutcomeInit
<1>2. IInv /\ OutcomeInv /\ [Next]_vars => (IInv /\ OutcomeInv)'
  BY IInvStep, OutcomeStep
<1> QED
  BY <1>1, <1>2, PTL DEF Spec

\* fallback_used is set exactly on the requests that ended on the backend their
\* route did not name, whichever way they were refused or answered.
THEOREM FlagTellsTruth == Spec => []FallbackFlagTellsTruth
<1>1. IInv /\ OutcomeInv => FallbackFlagTellsTruth
  <2> SUFFICES ASSUME IInv, OutcomeInv, NEW r \in Requests, pc[r] \in {"report", "done"}
               PROVE  response[r].fallbackUsed <=>
                        response[r].finalIdentity.target # response[r].initialTarget
    BY DEF FallbackFlagTellsTruth
  <2>1. response[r].fallbackUsed \in BOOLEAN
    BY DEF IInv, TypeOK, Response
  <2>2. response[r].fallbackUsed = FALSE <=>
          response[r].finalIdentity.target = response[r].initialTarget
    BY DEF OutcomeInv, OutcomeOK, FlagOK
  <2> QED
    BY <2>1, <2>2
<1> QED
  BY <1>1, OutcomeInvariance, PTL

\* A successful answer is booked on the backend that ran and spoke.
THEOREM AnswerBooked == Spec => []AnswerBookedOnItsBackend
<1>1. IInv /\ OutcomeInv => AnswerBookedOnItsBackend
  BY DEF OutcomeInv, OutcomeOK, SpeechOK, AnswerBookedOnItsBackend
<1> QED
  BY <1>1, OutcomeInvariance, PTL

\* The error kind, and so the HTTP status, says which backends ran.
THEOREM ErrorKindFits == Spec => []ErrorKindFitsTheAttempt
<1>1. IInv /\ OutcomeInv => ErrorKindFitsTheAttempt
  <2> SUFFICES ASSUME IInv, OutcomeInv, NEW r \in Requests, pc[r] \in {"report", "done"}
               PROVE  LET kind == response[r].errorKind IN
                      /\ response[r].ok <=> kind = "none"
                      /\ kind = "local_failure" => "local" \in called[r]
                      /\ kind = "cloud_failure" => "cloud" \in called[r]
                      /\ kind \in {"local_unavailable", "unsupported_feature"} =>
                           "local" \notin called[r]
                      /\ kind = "cloud_unavailable" => called[r] = {} /\ ~config.cloud
                      /\ kind = "invalid_request" => called[r] = {}
    BY DEF ErrorKindFitsTheAttempt
  <2>1. response[r].ok \in BOOLEAN
    BY DEF IInv, TypeOK, Response
  <2>2. KindOK(r)
    BY DEF OutcomeInv, OutcomeOK
  <2> QED
    BY <2>1, <2>2 DEF KindOK
<1> QED
  BY <1>1, OutcomeInvariance, PTL

\* A freely routed request that fails unheard was tried wherever it could run.
THEOREM NoneLeftUntried == Spec => []NoUsableBackendLeftUntried
<1>1. IInv /\ OutcomeInv => NoUsableBackendLeftUntried
  <2> SUFFICES ASSUME IInv, OutcomeInv, NEW r \in Requests, pc[r] \in {"report", "done"},
                      ~response[r].ok, request[r].valid, request[r].override = "auto",
                      speakers[r] = {}
               PROVE  /\ config.cloud => "cloud" \in called[r]
                      /\ config.ready /\ request[r].needs = {} => "local" \in called[r]
    BY DEF NoUsableBackendLeftUntried
  <2>1. response[r].ok = FALSE
    BY DEF IInv, TypeOK, Response
  <2>2. TriedOK(r) /\ Free(r)
    BY DEF OutcomeInv, OutcomeOK, Free
  <2> QED
    BY <2>1, <2>2 DEF TriedOK, CloudTried, LocalTried
<1> QED
  BY <1>1, OutcomeInvariance, PTL

-----------------------------------------------------------------------------
(* The refinement of InferenceService *)

Asked(q) == IF pc[q] = "idle" THEN "auto" ELSE request[q].override

\* What the service shows of a request.
Unseen(q) ==
  Stage(q)' = Stage(q) /\ Asked(q)' = Asked(q) /\ Heard(q)' = Heard(q)

LEMMA UnseenStutters ==
  ASSUME \A q \in Requests : Unseen(q)
  PROVE  UNCHANGED Service!vars
BY DEF Unseen, Asked, Service!vars

\* Nothing of a request that does not move is seen.
LEMMA OthersUnseen ==
  ASSUME NEW q \in Requests, request' = request, pc'[q] = pc[q],
         response'[q] = response[q], speakers'[q] = speakers[q]
  PROVE  Unseen(q)
BY DEF Unseen, Stage, Asked, Heard

\* Between the begin of a request and its report, only its chunks are seen.
LEMMA InsideUnseen ==
  ASSUME IInv, NEW r \in Requests, Thread(r), ~Begin(r), ~Report(r)
  PROVE  UNCHANGED Service!vars
<1>1. /\ request' = request /\ speakers' = speakers
      /\ pc[r] \notin {"idle", "done", "threw"}
      /\ \E to \in Pcs \ {"idle", "done", "threw"} : pc' = [pc EXCEPT ![r] = to]
      /\ \A q \in Requests \ {r} : response'[q] = response[q]
  BY DEF IInv, TypeOK, Thread, Returns, EnterLocal, CheckLocal, CallLocal, LocalSucceeds,
         LocalFails, EnterCloud, CloudSucceeds, CloudFails, TryLocal, SwitchTo, Refuse, Succeed,
         stream, Pcs, LocalPcs, CloudPcs
<1>2. /\ pc'[r] \notin {"idle", "done", "threw"}
      /\ \A q \in Requests \ {r} : pc'[q] = pc[q]
  BY <1>1 DEF IInv, TypeOK
<1>3. Unseen(r)
  BY <1>1, <1>2 DEF Unseen, Stage, Asked, Heard
<1> QED
  BY <1>1, <1>2, <1>3, OthersUnseen, UnseenStutters

LEMMA BeginSubmits ==
  ASSUME IInv, OutcomeInv, NEW r \in Requests, Begin(r)
  PROVE  Service!Submit(r, request[r].override)
<1>1. /\ request' = request /\ speakers' = speakers /\ pc[r] = "idle"
      /\ pc'[r] \in {"report", "localInfo", "cloudInfo"}
      /\ \A q \in Requests \ {r} : pc'[q] = pc[q] /\ response'[q] = response[q]
  BY DEF IInv, TypeOK, Begin, Refuse, stream
<1>2. \A q \in Requests \ {r} : Unseen(q)
  BY <1>1, OthersUnseen
<1>3. speakers[r] = {}
  BY <1>1 DEF OutcomeInv, OutcomeOK, SpeechOK
<1>4. /\ Stage(r) = "new" /\ Stage(r)' = "working"
      /\ Asked(r)' = request[r].override
      /\ Heard(r)' = Heard(r)
  BY <1>1, <1>3 DEF Stage, Asked, Heard
<1> QED
  BY <1>2, <1>4 DEF Service!Submit, Unseen, Asked

LEMMA ReportSettles ==
  ASSUME IInv, OutcomeInv, NEW r \in Requests, Report(r)
  PROVE  \/ \E b \in Backends : Service!Answer(r, b)
         \/ \E outcome \in {"failed", "aborted"} : Service!GiveUp(r, outcome)
<1>1. /\ request' = request /\ speakers' = speakers /\ response' = response
      /\ pc[r] = "report" /\ pc'[r] \in {"done", "threw"}
      /\ \A q \in Requests \ {r} : pc'[q] = pc[q]
  BY DEF IInv, TypeOK, Report, stream
<1>2. \A q \in Requests \ {r} : Unseen(q)
  BY <1>1, OthersUnseen
<1>3. Stage(r) = "working" /\ Asked(r)' = Asked(r) /\ Asked(r) = request[r].override
  BY <1>1 DEF Stage, Asked
<1>4. CASE pc'[r] = "done" /\ response[r].ok
  <2> DEFINE b == response[r].finalTarget
  <2>1. b \in Backends /\ response[r].ok = TRUE
    BY <1>4 DEF IInv, TypeOK, Response
  <2>2. b \in called[r] /\ speakers[r] \subseteq {b}
    BY <1>1, <2>1 DEF OutcomeInv, OutcomeOK, SpeechOK
  <2>3. b \in Permitted(r)
    BY <2>2 DEF IInv, RouteInv, RouteOK
  <2>4. Heard(r) \in {"none", b} /\ Heard(r)' = b /\ Stage(r)' = "answered"
    BY <1>1, <1>4, <2>1, <2>2 DEF Heard, Stage, Backends
  <2>5. Service!Answer(r, b)
    BY <1>2, <1>3, <2>1, <2>3, <2>4
       DEF Service!Answer, Service!Permitted, Service!Backends, Permitted, Backends, Unseen, Asked
  <2> QED
    BY <2>1, <2>5
<1>5. CASE ~(pc'[r] = "done" /\ response[r].ok)
  <2>1. Heard(r)' = Heard(r) /\ Stage(r)' \in {"failed", "aborted"}
    BY <1>1, <1>5 DEF Heard, Stage
  <2>2. Service!GiveUp(r, Stage(r)')
    BY <1>2, <1>3, <2>1 DEF Service!GiveUp, Unseen, Asked
  <2> QED
    BY <2>1, <2>2
<1> QED
  BY <1>4, <1>5

LEMMA ChunkSpeaks ==
  ASSUME IInv, OutcomeInv, NEW r \in Requests, NEW side \in Backends, Chunk(r, side)
  PROVE  Service!Speak(r, side) \/ UNCHANGED Service!vars
<1>1. /\ request' = request /\ response' = response /\ pc' = pc
      /\ pc[r] = IF side = "local" THEN "localRun" ELSE "cloudRun"
      /\ speakers'[r] = speakers[r] \cup {side}
      /\ \A q \in Requests \ {r} : speakers'[q] = speakers[q]
  BY DEF IInv, TypeOK, Chunk, Streaming
<1>2. \A q \in Requests \ {r} : Unseen(q)
  BY <1>1, OthersUnseen
<1>3. side \in called[r] /\ speakers[r] \subseteq {side}
  BY <1>1 DEF OutcomeInv, OutcomeOK, SpeechOK, Backends
<1>4. /\ Stage(r) = "working" /\ Stage(r)' = Stage(r)
      /\ Asked(r)' = Asked(r) /\ Asked(r) = request[r].override
      /\ Heard(r)' = side
  BY <1>1, <1>3 DEF Stage, Asked, Heard, Backends
<1>5. CASE speakers[r] = {}
  <2>1. Heard(r) = "none"
    BY <1>1, <1>5 DEF Heard
  <2>2. side \in Permitted(r)
    BY <1>3 DEF IInv, RouteInv, RouteOK
  <2>3. Service!Speak(r, side)
    BY <1>2, <1>4, <2>1, <2>2
       DEF Service!Speak, Service!Permitted, Service!Backends, Permitted, Backends, Unseen, Asked
  <2> QED
    BY <2>3
<1>6. CASE speakers[r] # {}
  <2>1. Unseen(r)
    BY <1>1, <1>3, <1>4, <1>6 DEF Unseen, Heard, Backends
  <2> QED
    BY <1>2, <2>1, UnseenStutters
<1> QED
  BY <1>5, <1>6

LEMMA ThrowAborts ==
  ASSUME IInv, NEW r \in Requests, ChunkThrows(r)
  PROVE  Service!GiveUp(r, "aborted")
<1>1. /\ request' = request /\ response' = response /\ speakers' = speakers
      /\ pc[r] = "localRun" /\ pc'[r] = "threw"
      /\ \A q \in Requests \ {r} : pc'[q] = pc[q]
  BY DEF IInv, TypeOK, ChunkThrows, Streaming
<1>2. \A q \in Requests \ {r} : Unseen(q)
  BY <1>1, OthersUnseen
<1>3. /\ Stage(r) = "working" /\ Stage(r)' = "aborted"
      /\ Asked(r)' = Asked(r) /\ Heard(r)' = Heard(r)
  BY <1>1 DEF Stage, Asked, Heard
<1> QED
  BY <1>2, <1>3 DEF Service!GiveUp, Unseen, Asked

\* RequestExecutor implements InferenceService: one override, one speaker at
\* most and that a permitted one, one outcome.
THEOREM ExecutorImplementsService == Spec => ImplementsService
<1>1. Init => Service!Init
  BY DEF Init, Service!Init, Stage, Heard
<1>2. IInv /\ OutcomeInv /\ [Next]_vars => [Service!Next]_(Service!vars)
  <2> SUFFICES ASSUME IInv, OutcomeInv, [Next]_vars PROVE [Service!Next]_(Service!vars)
    OBVIOUS
  <2>1. ASSUME NEW r \in Requests, Begin(r) PROVE Service!Next
    <3>1. request[r].override \in Service!Overrides
      BY KindsAssumption
         DEF IInv, TypeOK, RequestKind, Backends, Service!Overrides, Service!Backends
    <3>2. Service!Submit(r, request[r].override)
      BY <2>1, BeginSubmits
    <3>3. \E override \in Service!Overrides : Service!Submit(r, override)
      BY <3>1, <3>2 DEF Service!Submit
    <3> QED
      BY <3>3 DEF Service!Next
  <2>2. ASSUME NEW r \in Requests, Report(r) PROVE Service!Next
    <3>1. CASE \E b \in Backends : Service!Answer(r, b)
      BY <3>1 DEF Service!Next, Service!Backends, Backends
    <3>2. CASE \E outcome \in {"failed", "aborted"} : Service!GiveUp(r, outcome)
      BY <3>2 DEF Service!Next, Service!Settled
    <3> QED
      BY <2>2, <3>1, <3>2, ReportSettles
  <2>3. ASSUME NEW r \in Requests, NEW side \in Backends, Chunk(r, side)
        PROVE  [Service!Next]_(Service!vars)
    BY <2>3, ChunkSpeaks DEF Service!Next, Service!Backends, Backends
  <2>4. ASSUME NEW r \in Requests, ChunkThrows(r) PROVE Service!Next
    BY <2>4, ThrowAborts DEF Service!Next, Service!Settled
  <2>5. ASSUME NEW r \in Requests, Thread(r) PROVE [Service!Next]_(Service!vars)
    BY <2>1, <2>2, <2>5, InsideUnseen
  <2>6. CASE \/ \E r \in Requests : Disconnect(r)
             \/ ReloadBegin \/ ReloadEnd \/ UNCHANGED vars
    <3>1. UNCHANGED <<request, pc, response, speakers>>
      BY <2>6 DEF Disconnect, ReloadBegin, ReloadEnd, vars, stream
    <3> QED
      BY <3>1, OthersUnseen, UnseenStutters
  <2> QED
    BY <2>3, <2>4, <2>5, <2>6 DEF Next, Idle
<1> QED
  BY <1>1, <1>2, OutcomeInvariance, PTL DEF Spec, ImplementsService, Service!Spec
=============================================================================
