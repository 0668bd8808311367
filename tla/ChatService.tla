---------------------------- MODULE ChatService ----------------------------
(***************************************************************************)
(* The edge daemon from its start to the end of one POST                   *)
(* /v1/chat/completions: the configuration decides the model catalog, the  *)
(* body is parsed against it, the request is routed, llama.cpp generates   *)
(* or a cloud backend answers, and the answer goes out as one JSON body or *)
(* as server-sent events.  A text that is not UTF-8 cannot be written as   *)
(* JSON: nlohmann's dump() throws, and nothing here catches it.            *)
(*                                                                         *)
(* Routing and fallback are those of RequestExecutor, a cloud call is that *)
(* of CloudClient, both reduced here to what they may give a client; a     *)
(* local engine that is not llama.cpp in process is taken for one that is  *)
(* not ready.                                                              *)
(***************************************************************************)
EXTENDS ChatRequest, LlamaGeneration

CONSTANTS
  Scenarios,    \* the pairs <<launch, body>> to look at
  Amounts,      \* the numbers that the number tokens stand for
  PromptTokens, \* the tokens of a prompt
  Claims,       \* the features that the capability lists name
  Garbled,      \* the texts that are not UTF-8
  CloudPieces,  \* the contents and tool-call fragments a cloud backend sends
  MaxCloud      \* bound: characters that a cloud backend sends

\* What a file says of a setting, if it says anything.
FileSays(start, section, key) ==
  {start.files[path].tables[section][key] :
     path \in {p \in DOMAIN start.files :
                 /\ section \in DOMAIN start.files[p].tables
                 /\ key \in DOMAIN start.files[p].tables[section]}}

\* Each limit that a launch or a body can set is a number, and with the stop
\* sequences of a body makes a call of the generation. What a cloud backend
\* sends has been parsed as JSON, so it is UTF-8; a piece of llama.cpp may end
\* inside a character.
ASSUME ServiceAssumption ==
  /\ \A pair \in Scenarios : pair[1] \in Launches /\ pair[2] \in Bodies
  /\ CloudPieces \subseteq Seq(Characters) \ Garbled
  /\ << >> \notin Garbled
  /\ ({"128"} \cup Numerals) \ {Beyond32} \subseteq DOMAIN Amounts
  /\ \A start \in Launches :
       \A value \in FileSays(start, "generation", "max_completion_tokens") :
         ReadToml("max_completion_tokens", value) \in DOMAIN Amounts \cup {Rejected}
  /\ \A b \in Bodies : BodyOk(b) =>
       /\ \A key \in DOMAIN b \cap {"max_tokens", "max_completion_tokens"} :
            AsInt(b[key][2]) \in DOMAIN Amounts
       /\ \A mode \in {"stream", "buffered"}, token \in DOMAIN Amounts :
            [mode |-> mode, stops |-> Stops(b), limit |-> Amounts[token],
             prompt |-> PromptTokens] \in Jobs

VARIABLES
  phase,      \* where the request stands
  tried,      \* the backends it has been sent to
  wire,       \* what the client was sent, chunk by chunk
  role,       \* emitted_role
  gone,       \* client_cancelled
  pending,    \* the chunks still to be written when the call has returned
  response,   \* the executor's response
  cloud,      \* the cloud answer so far: its text and tool-call arguments
  restarted,  \* an attempt that had given something was given up (history)
  altered,    \* a fragment was not appended (history)
  garbled     \* the error or fallback reason the response quotes is not UTF-8

wireVars == <<wire, role, gone>>
cloudVars == <<cloud, restarted, altered, garbled>>
serviceVars == <<phase, tried, pending, response>>
vars == <<startupVars, requestVars, generationVars, serviceVars, wireVars, cloudVars>>

NoAnswer == [text |-> << >>, tools |-> << >>]
NoResponse == [ok |-> FALSE, kind |-> "none", text |-> << >>, tools |-> << >>, finish |-> ""]

-----------------------------------------------------------------------------
(* Chunks and the stream's writer. *)

Chunk(kind) == [kind |-> kind]
Content(t) == [kind |-> "content", text |-> t]
ToolCalls(t) == [kind |-> "tools", text |-> t]
Reply(status, kind) == [kind |-> "reply", status |-> status, error |-> kind]

Contents(t) == IF t = << >> THEN << >> ELSE <<Content(t)>>
Tools(t) == IF t = << >> THEN << >> ELSE <<ToolCalls(t)>>

\* A mutant: the role is written before every delta.
RoleEachTime == <<Chunk("role")>>

\* write_role_chunk_if_needed
RoleIfNeeded == IF role THEN << >> ELSE <<Chunk("role")>>

\* The delta callback: it writes the role if that is still to be done, then what
\* the delta holds; the first write that fails ends the call.
Deliver(chunks, accepted) ==
  IF chunks = << >> THEN accepted = TRUE /\ UNCHANGED wireVars
  ELSE LET whole == RoleIfNeeded \o chunks
       IN \E n \in 0 .. Len(whole) :
            /\ accepted = (n = Len(whole))
            /\ wire' = wire \o SubSeq(whole, 1, n)
            /\ role' = (role \/ n > 0)
            /\ gone' = ~accepted

\* A mutant: the whole message follows what was streamed of it.
FinalChunksAgain(resp) ==
  IF ~resp.ok THEN <<Chunk("error"), Chunk("done")>>
  ELSE RoleIfNeeded \o Contents(resp.text) \o Tools(resp.tools) \o <<Chunk("finish")>>
       \o (IF request.usage = "true" THEN <<Chunk("usage")>> ELSE << >>)
       \o <<Chunk("done")>>

\* set_streaming_chat_completion_response, once the call has returned: a stream
\* that has sent nothing yet sends the whole message.
FinalChunks(resp) ==
  IF ~resp.ok THEN <<Chunk("error"), Chunk("done")>>
  ELSE (IF role THEN << >>
        ELSE RoleIfNeeded \o Contents(resp.text) \o Tools(resp.tools))
       \o <<Chunk("finish")>>
       \o (IF request.usage = "true" THEN <<Chunk("usage")>> ELSE << >>)
       \o <<Chunk("done")>>

\* http_status_for_inference
Status(kind) ==
  CASE kind \in {"invalid_request", "unsupported_feature"} -> 400
    [] kind \in {"local_unavailable", "cloud_unavailable"} -> 503
    [] kind \in {"local_failure", "cloud_failure"} -> 502
    [] OTHER -> 500

\* chat_completion_response: a message without content that calls tools says null
JsonReply(resp) ==
  [kind |-> "reply", status |-> 200, text |-> resp.text, tools |-> resp.tools]

Streaming == verdict = "accepted" /\ request.stream = "true"

-----------------------------------------------------------------------------
Init ==
  /\ StartupInit /\ RequestInit /\ GenerationInit
  /\ <<launch, body>> \in Scenarios
  /\ phase = "boot" /\ tried = {} /\ pending = << >> /\ response = NoResponse
  /\ wire = << >> /\ role = FALSE /\ gone = FALSE
  /\ cloud = NoAnswer /\ restarted = FALSE /\ altered = FALSE /\ garbled = FALSE

Boot ==
  /\ phase = "boot"
  /\ StartupNext
  /\ phase' = IF step' = "started" THEN "parse" ELSE "boot"
  /\ UNCHANGED <<tried, pending, response>>
  /\ UNCHANGED <<requestVars, generationVars, wireVars, cloudVars>>

\* The handler parses the body and answers 400 to what it cannot take.
Accept ==
  /\ phase = "parse" /\ AcceptBody
  /\ phase' = "route"
  /\ UNCHANGED <<tried, pending, response>>
  /\ UNCHANGED <<startupVars, generationVars, wireVars, cloudVars>>

\* What is no JSON is quoted in the answer, which cannot be if it is not UTF-8.
Reject(quoting) ==
  /\ phase = "parse" /\ RejectBody
  /\ quoting => body = NotAnObject
  /\ phase' = IF quoting THEN "threw" ELSE "closed"
  /\ wire' = IF quoting THEN wire ELSE <<Reply(400, "invalid_request")>>
  /\ UNCHANGED <<tried, pending, response, role, gone>>
  /\ UNCHANGED <<startupVars, generationVars, cloudVars>>

\* The call of generate_with_bundle that a request is for llama.cpp.
JobOf(req) ==
  [mode |-> IF req.stream = "true" THEN "stream" ELSE "buffered",
   stops |-> req.stops, limit |-> Amounts[req.limit], prompt |-> PromptTokens]

Target == IF request.override # "auto" THEN request.override ELSE Decide(request).target
CloudConfigured == Usable # {}
LocalReady == ResolveEngine(config.local) = "llama" /\ config.local.model_path # ""

\* local_runtime_supports_request_features, of the loaded engine
LocalSupports ==
  LET claimed == IF LocalReady THEN Claims[config.local.capabilities] ELSE {}
  IN /\ request.needs \cap {"tools", "tool_choice"} # {} => "tools" \in claimed
     /\ "response_format" \in request.needs => "response_format" \in claimed

\* A request goes to its target, then perhaps to the other backend.
Turn(backend) ==
  /\ phase = "route" /\ request.prompt # {}
  /\ IF tried = {} THEN backend = Target ELSE backend \notin tried

\* An exception leaves the handler: nothing more is written.
Throw == phase' = "threw" /\ UNCHANGED <<pending, response>>

\* emit_response_trace_events dumps what the response quotes, and the handler
\* of a buffered request its text.
CannotBeDumped(resp) == garbled' \/ (~Streaming /\ resp.text \in Garbled)

\* The executor has a response: a stream has its last chunks to write, a
\* buffered request gets its body.
Respond(resp) ==
  /\ UNCHANGED <<role, gone>>
  /\ IF CannotBeDumped(resp) THEN Throw /\ UNCHANGED wire
     ELSE IF Streaming
     THEN /\ response' = resp
          /\ phase' = IF gone THEN "closed" ELSE "writing"
          /\ pending' = IF gone THEN << >> ELSE FinalChunks(resp)
          /\ UNCHANGED wire
     ELSE /\ response' = resp /\ phase' = "closed" /\ UNCHANGED pending
          /\ wire' = <<IF resp.ok THEN JsonReply(resp)
                       ELSE Reply(Status(resp.kind), resp.kind)>>

Refuse(kind) == Respond([NoResponse EXCEPT !.kind = kind])

\* An automatic request whose stream has not started may be sent to the other
\* backend, if that one can serve it.
MayFallBack(other) ==
  /\ request.override = "auto" /\ other \notin tried
  /\ wire = << >> /\ ~gone
  /\ IF other = "cloud" THEN CloudConfigured ELSE LocalReady /\ request.needs = {}

Fail(kind, other) ==
  IF MayFallBack(other)
  THEN phase' = "route" /\ UNCHANGED <<pending, response, wireVars>>
  ELSE Refuse(kind)

\* A request without any text is not sent anywhere.
Invalid ==
  /\ phase = "route" /\ request.prompt = {}
  /\ UNCHANGED <<tried, startupVars, requestVars, generationVars, cloudVars>>
  /\ Refuse("invalid_request")

-----------------------------------------------------------------------------
(* The local engine. *)

ServeLocal ==
  /\ Turn("local") /\ LocalReady /\ LocalSupports
  /\ StartGeneration(JobOf(request))
  /\ phase' = "local" /\ tried' = tried \cup {"local"}
  /\ UNCHANGED <<pending, response, startupVars, requestVars, wireVars, cloudVars>>

\* The engine cannot do what the request asks for, or is not ready.
LocalUnavailable ==
  /\ Turn("local") /\ ~(LocalReady /\ LocalSupports)
  /\ tried' = tried \cup {"local"}
  /\ UNCHANGED <<startupVars, requestVars, generationVars, cloudVars>>
  /\ Fail(IF LocalSupports THEN "local_unavailable" ELSE "unsupported_feature", "cloud")

\* What a step of the generation accepts goes to the stream, and what it leaves
\* when the callback does not take what it was offered.
Taken == SubSeq(heard', Len(heard) + 1, Len(heard'))
Offered ==
  Emitted(text', IF gpc = "finish" THEN Len(text)
                 ELSE IF Matches(job.stops, text') = {} THEN SafeEnd(job.stops, text')
                 ELSE FirstMatch(job.stops, text'))

\* One step of llama.cpp. A content that is not UTF-8 is neither written nor
\* refused: only the role before it may be.
Generate ==
  /\ phase = "local"
  /\ \/ /\ \/ PromptFails \/ DecodePrompt \/ SampleEnd \/ PieceFails
           \/ DecodeToken \/ DecodeFails
           \/ \E piece \in Pieces : SampleToken(piece)
        /\ UNCHANGED wireVars
     \/ \E accepted \in BOOLEAN :
          /\ \/ \E piece \in Pieces :
                  StreamToken(piece, accepted) \/ StreamStop(piece, accepted)
             \/ FinishGeneration(accepted)
          /\ Deliver(IF accepted THEN Contents(Taken) ELSE <<Content(<< >>)>>, accepted)
          /\ IF accepted THEN Taken \notin Garbled ELSE Offered \in Garbled => ~role'
  /\ UNCHANGED <<serviceVars, startupVars, requestVars, cloudVars>>

\* sse_event throws out of the delta callback and through the generation, which
\* leaves it as a refusal does; the role has been written before.
ContentThrows ==
  /\ phase = "local"
  /\ \/ \E piece \in Pieces : StreamToken(piece, FALSE) \/ StreamStop(piece, FALSE)
     \/ FinishGeneration(FALSE)
  /\ Offered \in Garbled
  /\ wire' = wire \o RoleIfNeeded /\ role' = TRUE /\ UNCHANGED gone
  /\ Throw
  /\ UNCHANGED <<tried, startupVars, requestVars, cloudVars>>

LocalReturns ==
  /\ phase = "local" /\ gpc = "done"
  /\ UNCHANGED <<tried, startupVars, requestVars, generationVars, cloudVars>>
  /\ IF outcome = "ok"
     THEN Respond([ok |-> TRUE, kind |-> "none", text |-> answer, tools |-> << >>,
                   finish |-> FinishReason])
     ELSE Fail("local_failure", "cloud")

-----------------------------------------------------------------------------
(* The cloud backend: what it answers is its own affair. *)

ServeCloud ==
  /\ Turn("cloud") /\ CloudConfigured
  /\ phase' = "cloud" /\ tried' = tried \cup {"cloud"}
  /\ UNCHANGED <<pending, response, startupVars, requestVars, generationVars>>
  /\ UNCHANGED <<wireVars, cloudVars>>

CloudUnavailable ==
  /\ Turn("cloud") /\ ~CloudConfigured
  /\ tried' = tried \cup {"cloud"}
  /\ UNCHANGED <<startupVars, requestVars, generationVars, cloudVars>>
  /\ Fail("cloud_unavailable", "local")

\* apply_stream_delta: a fragment that equals what is there is not appended, and
\* arguments that come as an object take its place.
MergeArguments(arguments, fragment, asText) ==
  IF ~asText \/ arguments = << >> \/ arguments = fragment
  THEN fragment
  ELSE arguments \o fragment

\* One event of the backend's stream: the client is told before it is applied.
CloudDelta(piece, fragment, asText, accepted) ==
  /\ phase = "cloud" /\ ~gone
  /\ piece # << >> \/ fragment # << >>
  /\ fragment = << >> => asText
  /\ Len(cloud.text) + Len(piece) + Len(cloud.tools) + Len(fragment) <= MaxCloud
  /\ altered =>                                 \* bound: one such fragment
       MergeArguments(cloud.tools, fragment, asText) = cloud.tools \o fragment
  /\ IF Streaming THEN Deliver(Contents(piece) \o Tools(fragment), accepted)
     ELSE accepted = TRUE /\ UNCHANGED wireVars
  /\ IF accepted
     THEN /\ cloud' = [text |-> cloud.text \o piece,
                       tools |-> MergeArguments(cloud.tools, fragment, asText)]
          /\ altered' = (altered \/ cloud'.tools # cloud.tools \o fragment)
     ELSE UNCHANGED <<cloud, altered>>
  /\ UNCHANGED <<restarted, garbled, serviceVars, startupVars, requestVars, generationVars>>

\* The attempt fails and another is made, which starts its answer anew.
CloudRestart ==
  /\ phase = "cloud" /\ ~gone
  /\ cloud # NoAnswer /\ ~restarted             \* bound: one such retry
  /\ cloud' = NoAnswer /\ restarted' = TRUE
  /\ UNCHANGED <<altered, garbled, serviceVars, startupVars, requestVars, generationVars>>
  /\ UNCHANGED wireVars

CloudAnswer(reply) ==
  [ok |-> TRUE, kind |-> "none", text |-> reply.text, tools |-> reply.tools,
   finish |-> "stop"]

CloudSucceeds ==
  /\ phase = "cloud" /\ ~gone
  /\ UNCHANGED <<tried, startupVars, requestVars, generationVars, cloudVars>>
  /\ Respond(CloudAnswer(cloud))

\* apply_full_message: the backend answers with one JSON body.
CloudWhole(reply) ==
  /\ phase = "cloud" /\ ~gone /\ cloud = NoAnswer
  /\ UNCHANGED <<tried, startupVars, requestVars, generationVars, cloudVars>>
  /\ Respond(CloudAnswer(reply))

\* The call fails for good, or the client has gone; the error may quote bytes of
\* the backend's answer as they came.
CloudFails(quoting) ==
  /\ phase = "cloud"
  /\ quoting => ~gone
  /\ garbled' = quoting
  /\ UNCHANGED <<cloud, restarted, altered>>
  /\ UNCHANGED <<tried, startupVars, requestVars, generationVars>>
  /\ Fail("cloud_failure", "local")

-----------------------------------------------------------------------------
\* The writes after the call; the first that fails is the last. None throws: the
\* contents still to be written are a cloud backend's, and an error that is not
\* UTF-8 has thrown in the executor.
WriteNext(accepted) ==
  /\ phase = "writing"
  /\ IF accepted
     THEN /\ wire' = Append(wire, Head(pending))
          /\ role' = (role \/ Head(pending).kind = "role")
          /\ pending' = Tail(pending)
          /\ UNCHANGED gone
     ELSE gone' = TRUE /\ pending' = << >> /\ UNCHANGED <<wire, role>>
  /\ phase' = IF pending' = << >> THEN "closed" ELSE "writing"
  /\ UNCHANGED <<tried, response, startupVars, requestVars, generationVars, cloudVars>>

Next ==
  \/ Boot \/ Accept \/ Invalid
  \/ ServeLocal \/ LocalUnavailable \/ Generate \/ ContentThrows \/ LocalReturns
  \/ ServeCloud \/ CloudUnavailable
  \/ \E piece, fragment \in CloudPieces \cup {<< >>} :
       \/ \E asText, accepted \in BOOLEAN : CloudDelta(piece, fragment, asText, accepted)
       \/ CloudWhole([text |-> piece, tools |-> fragment])
  \/ CloudRestart \/ CloudSucceeds
  \/ \E quoting \in BOOLEAN : Reject(quoting) \/ CloudFails(quoting)
  \/ \E accepted \in BOOLEAN : WriteNext(accepted)

Spec == Init /\ [][Next]_vars

-----------------------------------------------------------------------------
\* What the chunks of a kind say, put together.
Told(kind, chunks) ==
  LET told[n \in 0 .. Len(chunks)] ==
        IF n = 0 THEN << >>
        ELSE IF chunks[n].kind = kind THEN told[n - 1] \o chunks[n].text ELSE told[n - 1]
  IN told[Len(chunks)]

TellsTheAnswer(chunks) ==
  response.ok /\ ~restarted =>
    /\ Told("content", chunks) = response.text
    /\ ~altered => Told("tools", chunks) = response.tools

\* A client that stays to the end of a streamed answer has been told exactly the
\* answer that was booked for it, whether it left piece by piece (llama.cpp,
\* server-sent events of a backend) or whole at the end; but for an answer that
\* a retry started anew, and for tool-call arguments of which one fragment
\* repeated those before it or came as an object.
ClientHearsTheAnswer == phase = "closed" /\ ~gone /\ Streaming => TellsTheAnswer(wire)

Rank(kind) ==
  CASE kind = "role" -> 1
    [] kind \in {"content", "tools"} -> 2
    [] kind \in {"finish", "error"} -> 3
    [] kind = "usage" -> 4
    [] kind = "done" -> 5

InOrder(chunks) ==
  \A i, j \in DOMAIN chunks : i < j =>
    \/ Rank(chunks[i].kind) < Rank(chunks[j].kind)
    \/ Rank(chunks[i].kind) = 2 /\ Rank(chunks[j].kind) = 2

OpensWell(chunks) == chunks # << >> => chunks[1].kind \in {"role", "error"}

EndsWell(chunks) ==
  LET sent == {chunks[i].kind : i \in DOMAIN chunks}
  IN /\ "done" \in sent
     /\ response.ok <=> "finish" \in sent
     /\ "usage" \in sent <=> response.ok /\ request.usage = "true"

\* Wherever the client hung up, a stream is one that a client can read: the role
\* first and once, then the contents, one finish or error, the usage that was
\* asked for, one [DONE], and nothing after it. A client that stayed gets all of
\* that unless an exception cuts the stream: sse_event and the trace of the
\* response throw on a text that is not UTF-8. A stream so cut has no finish, no
\* error and no [DONE], so it cannot be taken for one that has ended.
StreamIsWellFormed ==
  Streaming =>
    /\ InOrder(wire) /\ OpensWell(wire)
    /\ phase = "closed" /\ ~gone => EndsWell(wire)
    /\ phase = "threw" => \A i \in DOMAIN wire : Rank(wire[i].kind) <= 2

-----------------------------------------------------------------------------
(* What InferenceService promises of a request, this one keeps. *)

\* The backend that the request is with, or was with last.
Speaker == CHOOSE b \in tried : tried = {b} \/ b # Target

Stage ==
  IF verdict # "accepted" THEN "new"
  ELSE IF phase \in {"route", "local", "cloud"} THEN "working"
  ELSE IF phase = "threw" THEN "aborted"
  ELSE IF response.ok THEN "answered" ELSE "failed"
Asked == IF verdict = "accepted" THEN request.override ELSE "auto"
Source == IF role \/ response.ok THEN Speaker ELSE "none"

Promise ==
  INSTANCE InferenceService WITH
    Requests <- {"it"},
    stage <- [r \in {"it"} |-> Stage],
    asked <- [r \in {"it"} |-> Asked],
    source <- [r \in {"it"} |-> Source]

\* Whatever the catalog made of the model that a request names: the backend that
\* speaks to its client is one that the route permits, another one never speaks
\* after it, and the answer, if there is one, is that backend's.
ImplementsPromise == Promise!Spec
=============================================================================
