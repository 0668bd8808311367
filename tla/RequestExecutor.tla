--------------------------- MODULE RequestExecutor ---------------------------
(***************************************************************************)
(* RequestExecutor (runtime/request_executor.cpp): how one chat-completion *)
(* request is routed, tried on a backend, moved once to the other backend  *)
(* and settled, for several requests that run at once on the server's      *)
(* worker threads.                                                         *)
(*                                                                         *)
(* The threads share the local engine behind LocalEngineRegistry's mutex:  *)
(* info(), is_ready() and generate() take and release it one by one, so a  *)
(* model reload, or another request's generation, may come between any two *)
(* of them.  A step here is what a thread does between two such points.    *)
(*                                                                         *)
(* execute/execute_local/execute_cloud and their streaming twins have the  *)
(* same control; they are one set of actions, in which only a streaming    *)
(* request has chunks.  Text is abstracted to what control depends on: a   *)
(* chunk or an error text is well-formed UTF-8 or it is not (nlohmann's    *)
(* dump() throws on text that is not).                                     *)
(***************************************************************************)
EXTENDS Naturals, FiniteSets

CONSTANTS
  Requests,    \* the requests of a behaviour
  Kinds,       \* the request contents that may arrive: a subset of RequestKind
  Configs,     \* the deployments considered: a subset of Config
  MaxChunks,   \* bound: chunks a backend call streams
  MaxReloads   \* bound: model reloads in a behaviour

Backends == {"local", "cloud"}
Features == {"tools", "response_format"}
Ids == {"", "hinted", "own"}

RequestKind ==
  [override : Backends \cup {"auto"},  \* request.seceda.route_override
   valid    : BOOLEAN,                 \* it has a non-empty message
   needs    : SUBSET Features,         \* what sets requires_remote_backend
   prompt   : Backends,                \* where the prompt heuristics point
   hints    : SUBSET {"engine", "backend"},  \* preferred ids of a configured model
   stream   : BOOLEAN]

Config ==
  [cloud     : BOOLEAN,           \* CloudClient::is_configured()
   ready     : BOOLEAN,           \* the local engine loaded at startup
   caps      : SUBSET Features,   \* features the local engine declares
   inProcess : BOOLEAN]           \* llama.cpp in the daemon, not a sidecar

Identity == [target : Backends, engine : Ids, backend : Ids]

ErrorKinds ==
  {"none", "invalid_request", "unsupported_feature", "local_unavailable",
   "local_failure", "cloud_unavailable", "cloud_failure"}

Response ==
  [ok : BOOLEAN, errorKind : ErrorKinds, initialTarget : Backends,
   finalTarget : Backends, fallbackUsed : BOOLEAN, garbled : BOOLEAN,
   initialIdentity : Identity, finalIdentity : Identity]

LocalPcs == {"localInfo", "localCheck", "localCall", "localRun"}
CloudPcs == {"cloudInfo", "bestEffort", "cloudRun"}
Pcs == LocalPcs \cup CloudPcs \cup {"idle", "report", "done", "threw"}
Ended == {"done", "threw"}

ASSUME KindsAssumption == Kinds \subseteq RequestKind
\* A sidecar adapter is ready once it has a URL, and declares every feature.
ASSUME ConfigsAssumption ==
  /\ Configs \subseteq Config
  /\ \A c \in Configs : c.inProcess \/ (c.ready /\ c.caps = Features)
ASSUME BoundsAssumption == MaxChunks \in Nat /\ MaxReloads \in Nat
\* No request bears the name of another holder of the engine's mutex.
ASSUME RequestsAssumption ==
  IsFiniteSet(Requests) /\ Requests \cap {"free", "reload"} = {}

VARIABLES
  config,         \* the deployment, fixed at startup
  localReady,     \* the local engine has a model
  engineLock,     \* holder of the registry's mutex: a request, "reload" or "free"
  reloads,        \* reloads begun so far
  request,        \* content of each request
  pc,             \* where each request's thread stands
  response,       \* the InferenceResponse each thread builds
  localInfo,      \* local_info, as each thread last read it
  allowFallback,  \* argument allow_cloud_fallback / allow_local_best_effort
  streamStarted,  \* stream_started of execute_streaming
  gone,           \* the client has disconnected
  refused,        \* on_delta has returned false
  chunks,         \* chunks handed to on_delta by the running call
  inFlight,       \* metrics: requests_in_flight_
  called,         \* history: backends whose generate or complete ran
  speakers        \* history: backends that handed a chunk to the client stream

vars == <<config, localReady, engineLock, reloads, request, pc, response,
          localInfo, allowFallback, streamStarted, gone, refused, chunks, inFlight,
          called, speakers>>

engine == <<config, localReady, reloads>>
stream == <<streamStarted, gone, refused, chunks, speakers>>

-----------------------------------------------------------------------------
(* Requests, identities and the routing decision *)

NoIdentity == [target |-> "local", engine |-> "", backend |-> ""]

BlankResponse ==
  [ok |-> FALSE, errorKind |-> "none", initialTarget |-> "local",
   finalTarget |-> "local", fallbackUsed |-> FALSE, garbled |-> FALSE,
   initialIdentity |-> NoIdentity, finalIdentity |-> NoIdentity]

\* requires_remote_backend, as refresh_request_views derives it.
RequiresRemote(r) == request[r].needs # {}

\* llama.cpp's ids and capabilities are those of its loaded bundle: without a
\* model, LocalModelInfo has none.
Known == localReady \/ ~config.inProcess
LocalIdentity ==
  [target |-> "local",
   engine |-> IF Known THEN "own" ELSE "",
   backend |-> IF Known THEN "own" ELSE ""]
LocalCapabilities == IF Known THEN config.caps ELSE {}

\* CloudClient::info() always describes the default backend.
CloudIdentity ==
  [target |-> "cloud", engine |-> "", backend |-> IF config.cloud THEN "own" ELSE ""]

\* complete() goes to the preferred backend when the request names one.
SelectedBackend(r) ==
  [target |-> "cloud", engine |-> "",
   backend |-> IF "backend" \in request[r].hints THEN "hinted" ELSE "own"]

LocalSupportsRequest_ToolsOnly(r) ==
  "tools" \in request[r].needs => "tools" \in LocalCapabilities
LocalSupportsRequest(r) == request[r].needs \subseteq LocalCapabilities

\* The forced route, else HeuristicRouter::decide: a request that needs a
\* remote feature goes to the cloud before any heuristic looks at the prompt.
Decision(kind) ==
  IF kind.override # "auto" THEN kind.override
  ELSE IF kind.needs # {} THEN "cloud"
  ELSE kind.prompt

\* initial_identity as execute fills it: a forced decision carries no ids.
DecidedIdentity(kind) ==
  LET hinted(h) == IF kind.override = "auto" /\ h \in kind.hints THEN "hinted" ELSE ""
  IN [target |-> Decision(kind), engine |-> hinted("engine"), backend |-> hinted("backend")]

-----------------------------------------------------------------------------
(* Moves shared by the handlers *)

\* Guards of the moves to the other backend.
CloudFallbackOpen_EvenForced(r) == ~streamStarted[r] /\ config.cloud
CloudFallbackOpen(r) == allowFallback[r] /\ ~streamStarted[r] /\ config.cloud

LocalFallbackOpen_EvenForced(r) == ~streamStarted[r]
LocalFallbackOpen(r) == allowFallback[r] /\ ~streamStarted[r]

\* A call of the other execute_* function, which may not fall back again.
SwitchTo_KeepAllowing(r, side, resp) ==
  /\ response' = [response EXCEPT ![r] = [resp EXCEPT !.fallbackUsed = TRUE]]
  /\ UNCHANGED allowFallback
  /\ pc' = [pc EXCEPT ![r] = IF side = "local" THEN "localInfo" ELSE "cloudInfo"]
SwitchTo_Unmarked(r, side, resp) ==
  /\ response' = [response EXCEPT ![r] = resp]
  /\ allowFallback' = [allowFallback EXCEPT ![r] = FALSE]
  /\ pc' = [pc EXCEPT ![r] = IF side = "local" THEN "localInfo" ELSE "cloudInfo"]
SwitchTo(r, side, resp) ==
  /\ response' = [response EXCEPT ![r] = [resp EXCEPT !.fallbackUsed = TRUE]]
  /\ allowFallback' = [allowFallback EXCEPT ![r] = FALSE]
  /\ pc' = [pc EXCEPT ![r] = IF side = "local" THEN "localInfo" ELSE "cloudInfo"]

Refuse(r, resp, kind, identity) ==
  /\ response' = [response EXCEPT ![r] =
                    [resp EXCEPT !.errorKind = kind, !.finalIdentity = identity]]
  /\ pc' = [pc EXCEPT ![r] = "report"]
  /\ UNCHANGED allowFallback

Succeed_KeepTarget(r, side, identity) ==
  /\ response' = [response EXCEPT ![r] = [@ EXCEPT !.ok = TRUE, !.finalIdentity = identity]]
  /\ pc' = [pc EXCEPT ![r] = "report"]
  /\ UNCHANGED allowFallback
Succeed(r, side, identity) ==
  /\ response' = [response EXCEPT ![r] =
                    [@ EXCEPT !.ok = TRUE, !.finalTarget = side, !.finalIdentity = identity]]
  /\ pc' = [pc EXCEPT ![r] = "report"]
  /\ UNCHANGED allowFallback

Init ==
  /\ config \in Configs
  /\ localReady = config.ready
  /\ engineLock = "free"
  /\ reloads = 0
  /\ request \in [Requests -> Kinds]
  /\ pc = [r \in Requests |-> "idle"]
  /\ response = [r \in Requests |-> BlankResponse]
  /\ localInfo = [r \in Requests |-> NoIdentity]
  /\ allowFallback = [r \in Requests |-> FALSE]
  /\ streamStarted = [r \in Requests |-> FALSE]
  /\ gone = [r \in Requests |-> FALSE]
  /\ refused = [r \in Requests |-> FALSE]
  /\ chunks = [r \in Requests |-> 0]
  /\ inFlight = 0
  /\ called = [r \in Requests |-> {}]
  /\ speakers = [r \in Requests |-> {}]

-----------------------------------------------------------------------------
(* execute, execute_streaming *)

RequestStarted_Forgotten == UNCHANGED inFlight
RequestStarted == inFlight' = inFlight + 1

\* Counting the request in, validating it, deciding its route.
Begin(r) ==
  LET kind == request[r]
      target == Decision(kind)
  IN /\ pc[r] = "idle"
     /\ RequestStarted
     /\ \/ /\ ~kind.valid
           /\ Refuse(r, response[r], "invalid_request", NoIdentity)
        \/ /\ kind.valid
           /\ response' = [response EXCEPT ![r] =
                [@ EXCEPT !.initialTarget = target, !.finalTarget = target,
                          !.initialIdentity = DecidedIdentity(kind)]]
           /\ allowFallback' = [allowFallback EXCEPT ![r] = kind.override = "auto"]
           /\ pc' = [pc EXCEPT ![r] = IF target = "local" THEN "localInfo" ELSE "cloudInfo"]
     /\ UNCHANGED <<engine, engineLock, request, localInfo, stream, called>>

\* The closing trace event and the metrics.  Its payload holds the error or
\* fallback text; dump() of a text that is not UTF-8 throws, and then
\* request_finished is never reached.
Report(r) ==
  /\ pc[r] = "report"
  /\ \/ /\ response[r].garbled
        /\ pc' = [pc EXCEPT ![r] = "threw"]
        /\ UNCHANGED inFlight
     \/ /\ ~response[r].garbled
        /\ pc' = [pc EXCEPT ![r] = "done"]
        /\ inFlight' = inFlight - 1
  /\ UNCHANGED <<engine, engineLock, request, response, localInfo, allowFallback, stream, called>>

-----------------------------------------------------------------------------
(* execute_local, execute_local_streaming *)

\* info() under the engine's mutex, then the check of what the engine offers.
\* HeuristicRouter sends no feature request here with the fallback open; the
\* code is ready for a router that would.
EnterLocal(r) ==
  LET resp == [response[r] EXCEPT
                 !.initialIdentity = IF @.engine = "" THEN LocalIdentity ELSE @]
      unsupported == RequiresRemote(r) /\ ~LocalSupportsRequest(r)
  IN /\ pc[r] = "localInfo"
     /\ engineLock = "free"
     /\ localInfo' = [localInfo EXCEPT ![r] = LocalIdentity]
     /\ \/ /\ ~unsupported
           /\ response' = [response EXCEPT ![r] = resp]
           /\ pc' = [pc EXCEPT ![r] = "localCheck"]
           /\ UNCHANGED allowFallback
        \/ /\ unsupported /\ CloudFallbackOpen(r)
           /\ SwitchTo(r, "cloud", resp)
        \/ /\ unsupported /\ ~CloudFallbackOpen(r)
           /\ Refuse(r, resp, "unsupported_feature", LocalIdentity)
     /\ UNCHANGED <<engine, engineLock, request, stream, inFlight, called>>

\* is_ready() under the mutex.
CheckLocal(r) ==
  /\ pc[r] = "localCheck"
  /\ engineLock = "free"
  /\ \/ /\ localReady
        /\ pc' = [pc EXCEPT ![r] = "localCall"]
        /\ UNCHANGED <<response, allowFallback>>
     \/ /\ ~localReady /\ CloudFallbackOpen(r)
        /\ SwitchTo(r, "cloud", response[r])
     \/ /\ ~localReady /\ ~CloudFallbackOpen(r)
        /\ Refuse(r, response[r], "local_unavailable", localInfo[r])
  /\ UNCHANGED <<engine, engineLock, request, localInfo, stream, inFlight, called>>

\* generate() takes the mutex and keeps it until it returns.
CallLocal(r) ==
  /\ pc[r] = "localCall"
  /\ engineLock = "free"
  /\ engineLock' = r
  /\ pc' = [pc EXCEPT ![r] = "localRun"]
  /\ called' = [called EXCEPT ![r] = @ \cup {"local"}]
  /\ chunks' = [chunks EXCEPT ![r] = 0]
  /\ UNCHANGED <<engine, request, response, localInfo, allowFallback, streamStarted, gone,
                 refused, inFlight, speakers>>

LocalSucceeds(r) ==
  /\ pc[r] = "localRun"
  /\ ~refused[r]
  /\ engineLock' = "free"
  /\ Succeed(r, "local", LocalIdentity)
  /\ UNCHANGED <<engine, request, localInfo, stream, inFlight, called>>

\* A generation that fails, or one whose chunk the client refused.  The
\* fallback reason, like the error, is the engine's error text: a sidecar's
\* may quote the body of its HTTP answer.  The streaming twin names the
\* engine that ran, the other one the engine it had read about.
LocalFails_KeepLock(r, garbled) ==
  LET resp == [response[r] EXCEPT !.garbled = @ \/ garbled]
  IN /\ pc[r] = "localRun"
     /\ garbled => ~refused[r] /\ ~config.inProcess
     /\ UNCHANGED engineLock
     /\ \/ CloudFallbackOpen(r) /\ SwitchTo(r, "cloud", resp)
        \/ /\ ~CloudFallbackOpen(r)
           /\ Refuse(r, resp, "local_failure",
                     IF request[r].stream THEN LocalIdentity ELSE localInfo[r])
     /\ UNCHANGED <<engine, request, localInfo, stream, inFlight, called>>
LocalFails(r, garbled) ==
  LET resp == [response[r] EXCEPT !.garbled = @ \/ garbled]
  IN /\ pc[r] = "localRun"
     /\ garbled => ~refused[r] /\ ~config.inProcess
     /\ engineLock' = "free"
     /\ \/ CloudFallbackOpen(r) /\ SwitchTo(r, "cloud", resp)
        \/ /\ ~CloudFallbackOpen(r)
           /\ Refuse(r, resp, "local_failure",
                     IF request[r].stream THEN LocalIdentity ELSE localInfo[r])
     /\ UNCHANGED <<engine, request, localInfo, stream, inFlight, called>>

-----------------------------------------------------------------------------
(* execute_cloud, execute_cloud_streaming *)

\* Which of the two refusals of execute_cloud a request meets: the one before
\* complete() or the one after it, which only the streaming twin signs with
\* the backend it called.
CloudError_Unavailable(r) == "cloud_unavailable"
CloudError(r) ==
  IF "cloud" \in called[r] THEN "cloud_failure" ELSE "cloud_unavailable"

CloudErrorIdentity(r) ==
  IF "cloud" \in called[r] /\ request[r].stream THEN SelectedBackend(r)
  ELSE CloudIdentity

EnterCloud(r) ==
  LET resp == [response[r] EXCEPT
                 !.initialIdentity = IF @.backend = "" THEN CloudIdentity ELSE @]
  IN /\ pc[r] = "cloudInfo"
     /\ \/ /\ config.cloud
           /\ response' = [response EXCEPT ![r] = resp]
           /\ pc' = [pc EXCEPT ![r] = "cloudRun"]
           /\ called' = [called EXCEPT ![r] = @ \cup {"cloud"}]
           /\ chunks' = [chunks EXCEPT ![r] = 0]
           /\ UNCHANGED allowFallback
        \/ /\ ~config.cloud /\ LocalFallbackOpen(r)
           /\ response' = [response EXCEPT ![r] = resp]
           /\ pc' = [pc EXCEPT ![r] = "bestEffort"]
           /\ UNCHANGED <<allowFallback, called, chunks>>
        \/ /\ ~config.cloud /\ ~LocalFallbackOpen(r)
           /\ Refuse(r, resp, CloudError(r), CloudIdentity)
           /\ UNCHANGED <<called, chunks>>
     /\ UNCHANGED <<engine, engineLock, request, localInfo, streamStarted, gone, refused,
                    inFlight, speakers>>

CloudSucceeds(r) ==
  /\ pc[r] = "cloudRun"
  /\ ~refused[r]
  /\ Succeed(r, "cloud", SelectedBackend(r))
  /\ UNCHANGED <<engine, engineLock, request, localInfo, stream, inFlight, called>>

CloudFails(r, garbled) ==
  LET resp == [response[r] EXCEPT !.garbled = @ \/ garbled]
  IN /\ pc[r] = "cloudRun"
     /\ garbled => ~refused[r]
     /\ \/ /\ LocalFallbackOpen(r)
           /\ response' = [response EXCEPT ![r] = resp]
           /\ pc' = [pc EXCEPT ![r] = "bestEffort"]
           /\ UNCHANGED allowFallback
        \/ /\ ~LocalFallbackOpen(r)
           /\ Refuse(r, resp, CloudError(r), CloudErrorIdentity(r))
     /\ UNCHANGED <<engine, engineLock, request, localInfo, stream, inFlight, called>>

\* The last conjuncts of the best-effort guard: is_ready() under the mutex,
\* then the feature check.
BestEffort_OnlyWithoutCloud(r) == localReady /\ ~RequiresRemote(r) /\ ~config.cloud
BestEffort(r) == localReady /\ ~RequiresRemote(r)

TryLocal(r) ==
  /\ pc[r] = "bestEffort"
  /\ engineLock = "free"
  /\ \/ BestEffort(r) /\ SwitchTo(r, "local", response[r])
     \/ ~BestEffort(r) /\ Refuse(r, response[r], CloudError(r), CloudErrorIdentity(r))
  /\ UNCHANGED <<engine, engineLock, request, localInfo, stream, inFlight, called>>

-----------------------------------------------------------------------------
(* tracked_on_delta, on which both backends' streaming calls write *)

Streaming(r, side) ==
  /\ pc[r] = IF side = "local" THEN "localRun" ELSE "cloudRun"
  /\ request[r].stream
  /\ ~refused[r]
  /\ chunks[r] < MaxChunks

\* stream_started is set before the chunk goes out, so that a chunk the
\* client refuses counts as well.
Chunk_StartedIfAccepted(r, side) ==
  /\ Streaming(r, side)
  /\ streamStarted' = [streamStarted EXCEPT ![r] = @ \/ ~gone[r]]
  /\ refused' = [refused EXCEPT ![r] = gone[r]]
  /\ chunks' = [chunks EXCEPT ![r] = @ + 1]
  /\ speakers' = [speakers EXCEPT ![r] = @ \cup {side}]
  /\ UNCHANGED <<engine, engineLock, request, pc, response, localInfo, allowFallback, gone,
                 inFlight, called>>
Chunk(r, side) ==
  /\ Streaming(r, side)
  /\ streamStarted' = [streamStarted EXCEPT ![r] = TRUE]
  /\ refused' = [refused EXCEPT ![r] = gone[r]]
  /\ chunks' = [chunks EXCEPT ![r] = @ + 1]
  /\ speakers' = [speakers EXCEPT ![r] = @ \cup {side}]
  /\ UNCHANGED <<engine, engineLock, request, pc, response, localInfo, allowFallback, gone,
                 inFlight, called>>

\* A local chunk is cut at a token, not at a character: the SSE chunk's
\* dump() throws on half a character, through generate_stream (whose guard
\* releases the mutex) and execute_streaming.  The dump comes before the look
\* at the connection, but after the role chunk, which a client that is gone
\* refuses first.  Chunks of the cloud and of a sidecar come out of parsed
\* JSON and are well formed.
ChunkThrows(r) ==
  /\ Streaming(r, "local")
  /\ config.inProcess
  /\ gone[r] => streamStarted[r]
  /\ pc' = [pc EXCEPT ![r] = "threw"]
  /\ engineLock' = "free"
  /\ streamStarted' = [streamStarted EXCEPT ![r] = TRUE]
  /\ UNCHANGED <<engine, request, response, localInfo, allowFallback, gone, refused, chunks,
                 inFlight, called, speakers>>

-----------------------------------------------------------------------------
(* The surroundings: the client, the operator's reload *)

Disconnect(r) ==
  /\ request[r].stream
  /\ pc[r] \notin Ended \cup {"idle"}
  /\ ~gone[r]
  /\ gone' = [gone EXCEPT ![r] = TRUE]
  /\ UNCHANGED <<engine, engineLock, request, pc, response, localInfo, allowFallback,
                 streamStarted, refused, chunks, inFlight, called, speakers>>

\* LocalEngineRegistry::reload holds the mutex while the model loads.
ReloadBegin_UnloadFirst ==
  /\ engineLock = "free"
  /\ reloads < MaxReloads
  /\ engineLock' = "reload"
  /\ reloads' = reloads + 1
  /\ localReady' = FALSE
  /\ UNCHANGED <<config, request, pc, response, localInfo, allowFallback, stream, inFlight, called>>
ReloadBegin ==
  /\ engineLock = "free"
  /\ reloads < MaxReloads
  /\ engineLock' = "reload"
  /\ reloads' = reloads + 1
  /\ UNCHANGED <<config, localReady, request, pc, response, localInfo, allowFallback, stream,
                 inFlight, called>>

\* A failed load or warmup leaves the model that was there in place.
ReloadEnd ==
  /\ engineLock = "reload"
  /\ engineLock' = "free"
  /\ \E loaded \in BOOLEAN : localReady' = (localReady \/ loaded)
  /\ UNCHANGED <<config, reloads, request, pc, response, localInfo, allowFallback, stream,
                 inFlight, called>>

-----------------------------------------------------------------------------

Returns(r) ==
  \/ LocalSucceeds(r) \/ CloudSucceeds(r)
  \/ \E garbled \in BOOLEAN : LocalFails(r, garbled) \/ CloudFails(r, garbled)

Thread(r) ==
  \/ Begin(r) \/ EnterLocal(r) \/ CheckLocal(r) \/ CallLocal(r)
  \/ EnterCloud(r) \/ TryLocal(r) \/ Returns(r) \/ Report(r)

\* Every request is settled and the daemon waits for the next one.
Idle ==
  /\ \A r \in Requests : pc[r] \in Ended
  /\ engineLock = "free"
  /\ UNCHANGED vars

Next ==
  \/ \E r \in Requests :
       \/ Thread(r)
       \/ \E side \in Backends : Chunk(r, side)
       \/ ChunkThrows(r)
       \/ Disconnect(r)
  \/ ReloadBegin
  \/ ReloadEnd
  \/ Idle

Spec == Init /\ [][Next]_vars

\* Threads keep running and every backend call returns (the cloud client has
\* a deadline, a generation a token budget); a load ends.
Fairness ==
  /\ \A r \in Requests : WF_vars(Thread(r))
  /\ WF_vars(ReloadEnd)

FairSpec == Spec /\ Fairness

-----------------------------------------------------------------------------
(* Properties *)

\* Every variable has its type; the gauge never goes below zero.
TypeOK ==
  /\ config \in Configs
  /\ localReady \in BOOLEAN
  /\ engineLock \in Requests \cup {"reload", "free"}
  /\ reloads \in 0..MaxReloads
  /\ request \in [Requests -> Kinds]
  /\ pc \in [Requests -> Pcs]
  /\ response \in [Requests -> Response]
  /\ localInfo \in [Requests -> Identity]
  /\ allowFallback \in [Requests -> BOOLEAN]
  /\ streamStarted \in [Requests -> BOOLEAN]
  /\ gone \in [Requests -> BOOLEAN]
  /\ refused \in [Requests -> BOOLEAN]
  /\ chunks \in [Requests -> 0..MaxChunks]
  /\ inFlight \in Nat
  /\ called \in [Requests -> SUBSET Backends]
  /\ speakers \in [Requests -> SUBSET Backends]

\* A request whose route is forced never reaches the other backend, whichever
\* way the forced one fails (the allow_* argument of the execute_* functions).
ForcedRouteKept ==
  \A r \in Requests :
    request[r].override # "auto" =>
      called[r] \cup speakers[r] \subseteq {request[r].override}

\* After the first chunk was handed to the client's stream no backend is
\* called any more, not even when the client refused that chunk: the answer
\* never mixes two models (stream_started in every fallback guard).
StreamKeepsItsBackend ==
  [][\A r \in Requests : speakers[r] # {} => called'[r] = called[r]]_vars

\* A request on its way to a backend has not been there before: local and
\* cloud never bounce a failing request between them.
NoBackendTriedTwice ==
  \A r \in Requests :
    /\ pc[r] \in {"localInfo", "localCheck", "localCall"} => "local" \notin called[r]
    /\ pc[r] = "cloudInfo" => "cloud" \notin called[r]

\* fallback_used, which the fallback metric counts, is set exactly on the
\* requests that ended on the backend their route did not name.
FallbackFlagTellsTruth ==
  \A r \in Requests :
    pc[r] \in {"report", "done"} =>
      (response[r].fallbackUsed <=>
         response[r].finalIdentity.target # response[r].initialTarget)

\* A successful answer is booked on the backend that produced it, in both
\* final_target and final_identity, and all of its chunks came from there.
AnswerBookedOnItsBackend ==
  \A r \in Requests :
    pc[r] \in {"report", "done"} /\ response[r].ok =>
      /\ response[r].finalTarget = response[r].finalIdentity.target
      /\ response[r].finalTarget \in called[r]
      /\ speakers[r] \subseteq {response[r].finalTarget}

\* The local engine is never asked for a feature it does not declare, and a
\* request that needs a remote feature runs locally only by force.
FeaturesRespected ==
  \A r \in Requests :
    "local" \in called[r] =>
      /\ request[r].needs \subseteq config.caps
      /\ request[r].override = "auto" => request[r].needs = {}

\* is_ready() and generate() take the engine's mutex separately and a reload
\* may come between them; what the first one said still holds in the second.
CheckedEngineStaysReady ==
  \A r \in Requests : pc[r] \in {"localCall", "localRun"} => localReady

\* The error kind, from which the HTTP status is derived, says how far the
\* request got: *_failure if that backend ran, *_unavailable if it did not.
ErrorKindFitsTheAttempt ==
  \A r \in Requests :
    LET kind == response[r].errorKind IN
    pc[r] \in {"report", "done"} =>
      /\ response[r].ok <=> kind = "none"
      /\ kind = "local_failure" => "local" \in called[r]
      /\ kind = "cloud_failure" => "cloud" \in called[r]
      /\ kind \in {"local_unavailable", "unsupported_feature"} => "local" \notin called[r]
      /\ kind = "cloud_unavailable" => called[r] = {} /\ ~config.cloud
      /\ kind = "invalid_request" => called[r] = {}

\* A freely routed request that fails before the client heard anything has
\* been tried wherever it could run: on a configured cloud, and on an engine
\* that was ready from the start unless it needs a remote feature.
NoUsableBackendLeftUntried ==
  \A r \in Requests :
    /\ pc[r] \in {"report", "done"}
    /\ ~response[r].ok
    /\ request[r].valid
    /\ request[r].override = "auto"
    /\ speakers[r] = {}
    => /\ config.cloud => "cloud" \in called[r]
       /\ config.ready /\ request[r].needs = {} => "local" \in called[r]

\* A request that was begun ends, however reloads, other generations and the
\* client's disconnect interleave with it.
EveryRequestSettles ==
  \A r \in Requests : (pc[r] # "idle") ~> (pc[r] \in Ended)

\* RequestExecutor implements what InferenceService promises: how the
\* executor's state is seen from outside.
Heard(r) ==
  IF "local" \in speakers[r] THEN "local"
  ELSE IF "cloud" \in speakers[r] THEN "cloud"
  ELSE IF pc[r] = "done" /\ response[r].ok THEN response[r].finalTarget
  ELSE "none"

Stage(r) ==
  CASE pc[r] = "idle" -> "new"
    [] pc[r] = "threw" -> "aborted"
    [] pc[r] = "done" -> IF response[r].ok THEN "answered" ELSE "failed"
    [] OTHER -> "working"

Service == INSTANCE InferenceService WITH
  stage <- [r \in Requests |-> Stage(r)],
  asked <- [r \in Requests |-> IF pc[r] = "idle" THEN "auto" ELSE request[r].override],
  source <- [r \in Requests |-> Heard(r)]

\* One override, one speaker at most, one outcome: the abstract service.
ImplementsService == Service!Spec

\* The in-flight gauge is exact but for the requests whose thread was left by
\* an exception, which it counts for ever: it never undercounts.
GaugeCountsUnfinished ==
  inFlight = Cardinality({r \in Requests : pc[r] \notin {"idle", "done"}})

-----------------------------------------------------------------------------
(* The inductive invariant of RequestExecutorProofs: what holds of each     *)
(* request at each program point of its thread.                            *)

\* Program points at which no backend call of the current side has begun.
Before == {"idle", "localInfo", "localCheck", "localCall", "cloudInfo", "bestEffort"}

Permitted(r) ==
  IF request[r].override = "auto" THEN Backends ELSE {request[r].override}

\* Where the request may go, and where it has been.
RouteOK(r) ==
  /\ speakers[r] # {} => streamStarted[r]
  /\ pc[r] \in Before => ~streamStarted[r]
  /\ pc[r] = "idle" => called[r] = {}
  /\ pc[r] = "bestEffort" => allowFallback[r]
  /\ allowFallback[r] => request[r].override = "auto"
  /\ pc[r] \in LocalPcs => "local" \in Permitted(r)
  /\ pc[r] \in CloudPcs => "cloud" \in Permitted(r)
  /\ called[r] \cup speakers[r] \subseteq Permitted(r)
  /\ allowFallback[r] /\ pc[r] \in LocalPcs => "cloud" \notin called[r]
  /\ allowFallback[r] /\ pc[r] \in CloudPcs => "local" \notin called[r]
  /\ pc[r] \in {"localInfo", "localCheck", "localCall"} => "local" \notin called[r]
  /\ pc[r] = "cloudInfo" => "cloud" \notin called[r]

\* What the request may rely on of the local engine.
EngineOK(r) ==
  /\ pc[r] = "localRun" <=> engineLock = r
  /\ pc[r] \in {"localCall", "localRun"} => localReady
  /\ pc[r] \in LocalPcs /\ request[r].override = "auto" => request[r].needs = {}
  /\ pc[r] \in {"localCheck", "localCall", "localRun"} => request[r].needs \subseteq config.caps
  /\ "local" \in called[r] =>
       /\ request[r].needs \subseteq config.caps
       /\ request[r].override = "auto" => request[r].needs = {}

RouteInv == \A r \in Requests : RouteOK(r)
EngineInv == \A r \in Requests : EngineOK(r)
\* What is proved of every reachable state, from which the properties follow.
IInv == TypeOK /\ GaugeCountsUnfinished /\ RouteInv /\ EngineInv

-----------------------------------------------------------------------------
\* What the repository says of the program and the code does not keep.

\* initial_identity names the backend that initial_target names: a test
\* expects the "initial backend identity" in the event beside it.
InitialIdentityNamesInitialTarget ==
  \A r \in Requests :
    pc[r] \in {"report", "done"} =>
      response[r].initialIdentity.target = response[r].initialTarget

\* The gauge exported as "Requests currently in flight" counts the requests
\* that were begun and have not ended.
InFlightCountsActiveRequests ==
  inFlight = Cardinality({r \in Requests : pc[r] \notin Ended \cup {"idle"}})
=============================================================================
