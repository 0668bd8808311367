# A verification project for seceda

TLA+ models of the seceda edge runtime, TLC configurations that check them on
small instances, and TLAPS proofs of their main properties for every instance.
Paths of C++ files below are relative to `seceda_edge/cpp/src/`, those of
TypeScript files to `seceda_tui/src/`.

Seceda runs a language model on an edge device and, for the requests it should
not or cannot answer there, calls a hosted model. A daemon offers an
OpenAI-compatible HTTP API; an operator console in a terminal follows it by
polling.

## 1. Inventory

| component | state | operations | shared with | what makes it correct |
|---|---|---|---|---|
| **Request executor** `runtime/request_executor.cpp` | per request: the response being built, `stream_started`, the fallback argument; nothing kept between requests | `execute`, `execute_streaming`, and a local and a cloud half of each, which call one another | engine registry, cloud client, metrics, traces; one thread per request | a request is routed, tried at most once per backend, moved at most once; a forced route is kept; a stream has one speaker; the outcome says what happened |
| **Heuristic router** `router/heuristic_router.cpp` | none | `decide` | called by the executor | a forced route wins, then remote features, then the prompt |
| **Local engine registry** `local_models/local_engine_registry.cpp` | one engine, the last configuration and error, a mutex | `load`, `reload`, `is_ready`, `info`, `generate`, `generate_stream`, each under the mutex | all request threads, the reload handler, the health handler | a generation and a reload never overlap; what a request checked still holds when it generates; the mutex is released on every path |
| **llama runtime** `local_models/llama_runtime.cpp` | model, context, sampler | load, warm up, generate token by token, hold back text that may be a stop sequence | below the registry | a failed reload leaves the old model; nothing of a stop sequence is sent |
| **Sidecar adapter**, **stub adapter** | a URL; nothing | forward a generation over HTTP; refuse | below the registry | as the cloud client; never ready |
| **Cloud client** `cloud_bridge/cloud_client.cpp` | per call: retry loop, deadline, the state of the event stream | `complete`, `complete_stream`, `info`, `is_configured` | the executor; libcurl calls back into it | one deadline for all attempts; bounded attempts; only useful retries; success only on a complete answer |
| **Metrics registry** `telemetry/metrics_registry.cpp` | counters, gauge of requests in flight, a ring of execution events | `request_started`, `request_finished`, `get_events`, `render` | all request threads, pollers | the gauge counts; the ring keeps the newest events under concurrent appends |
| **Console: execution history** `screens/observability.tsx`, `lib/domain.ts` | cursor, rows | poll, merge | the daemon, over HTTP | no event lost without reason; the rows are the newest |
| **Trace registry and stream** `telemetry/trace_registry.cpp`, `main.cpp` | ring of trace events, subscribers; per stream a queue | push, subscribe, unsubscribe, stream with backlog | executor threads, stream threads | the events of a request in order, missing or doubled only for a known reason; a late callback does no harm |
| **Edge daemon** `runtime/edge_daemon.cpp` | runtime state, last error, configuration under `mutex_` | initialize, reload, health, info, handle_inference | everything | state and configuration describe the engine that runs; no lock cycle |
| **OpenAI wire** `openai_compat/openai_wire.cpp` | per stream: role sent, cancelled, error | the chunks of a stream, its error and its end | executor (as `on_delta`), HTTP server | role first, then deltas, one finish, `[DONE]` last |
| **OpenAI parsing and errors** `openai_compat/openai_parse.cpp` | none | JSON to request and back | HTTP handlers | what is accepted is what is served; what is not is refused with 400 |
| **HTTP daemon** `apps/seceda_edge_daemon/main.cpp` | none of its own | routes, the model catalog | everything | the model a request names decides where it goes |
| **Configuration** `runtime/runtime_config.cpp`, `config_catalog/` | the place in the command line, the selection, the environment, the settings so far | scan, select, load `.env`, apply the file, read the command line again, validate | startup | defaults, file, environment and command line in that order; what is out of range is refused |
| **Console: configuration editor** | a form | edit a TOML file | - | user interface |
| **Cloud deployments, scripts** | - | - | - | external |

How they interact. An HTTP worker thread parses a request and calls the daemon,
which hands it to the executor. The executor asks the router once, then the
engine registry (`info`, `is_ready`, `generate`, three separate visits to its
mutex) or the cloud client (no lock). Both hand chunks to the `on_delta` of the
executor, which hands them to the wire format's. On the way it pushes trace
events; at the end it pushes closing trace events and calls the metrics. The
console knows the daemon only through its HTTP endpoints.

The hard behaviours: three visits to a mutex that a reload may come between; two
functions that fall back to each other; the client's disconnect in the middle of a
callback under libcurl or under the engine's mutex; exceptions that leave a
handler half done; retries after part of an answer was sent; ids drawn before
the lock under which events are ordered; paging by a cursor over a ring.
`PROJECT.json` lists each hazard at its line, with the properties that watch it.

## 2. Modules

| module | models | composes |
|---|---|---|
| `InferenceService` | abstract: what a request is promised, not how | - |
| `RequestExecutor` | the executor with the router's decision, the engine registry's mutex and reloads, the gauge, the client's disconnect | implements `InferenceService` |
| `RequestExecutorProofs` | its theorems: where a request may go | extends it |
| `RequestOutcomeProofs` | its theorems: what is reported of it, and the refinement | extends `RequestExecutorProofs` |
| `MCRequestExecutor` | request contents and deployments for TLC | extends it |
| `BackendCall` | abstract: what the executor relies on of one backend call | - |
| `CloudClient` | one call of `complete_impl` with its attempts | implements `BackendCall` |
| `CloudClientProofs`, `MCCloudClient` | its theorems, its instances | extend it |
| `ExecutionHistory` | the ring of execution events, the threads that append, the console that polls | - |
| `ExecutionHistoryProofs` | its theorems | extends it |
| `TraceStream` | the trace registry, the threads that push, one client of `GET /trace/stream` | - |
| `TraceStreamProofs` | its theorems | extends it |
| `EdgeDaemon` | the facade's state, its lock beside the engine's, reloads, requests, probes | sits above `RequestExecutor`, of which it keeps only the use of the engine |
| `EdgeDaemonProofs` | its theorems | extends it |
| `RuntimeConfig` | the daemon's startup: settings, TOML tables, `.env` files, options, specs, validation | - |
| `ChatRequest` | the model catalog, the parser of a chat completion, the router's rules, the choice of a remote backend and of an engine | extends `RuntimeConfig` |
| `LlamaGeneration` | one call of `generate_with_bundle`, token by token | - |
| `LlamaGenerationProofs` | its theorems | extends it |
| `ChatService` | the daemon from its start to the end of one chat completion | `ChatRequest`, `LlamaGeneration` and the wire format; implements `InferenceService` for one request |
| `ChatServiceProofs` | its theorems, those of `RuntimeConfig` and `ChatRequest` included | extends it and `LlamaGenerationProofs` |
| `MCRuntimeConfig`, `MCChatService` | launches and bodies for TLC | extend them |

### RequestExecutor

`pc[r]` is where the thread of request `r` stands between two points at which
other threads can make a difference: `localInfo` before `info()`, `localCheck`
before `is_ready()`, `localCall` before `generate()`, `localRun` inside it (it
holds `engineLock`), `cloudInfo` and `cloudRun` likewise, `bestEffort` before the
`is_ready()` of the best-effort guard, `report` before the closing trace event,
`done`, and `threw` when an exception has left the executor. One action is
everything the thread does from one such point to the next.

| action | code |
|---|---|
| `Begin` | `execute`, `execute_streaming`: count in, validate, decide |
| `EnterLocal`, `CheckLocal`, `CallLocal` | `info()` and the feature check; `is_ready()`; entering `generate()` |
| `LocalSucceeds`, `LocalFails` | the code after `generate` or `generate_stream` returns |
| `EnterCloud`, `TryLocal`, `CloudSucceeds`, `CloudFails` | `execute_cloud` and its streaming twin |
| `Chunk`, `ChunkThrows` | `tracked_on_delta` and the wire format's delta callback under it |
| `Report` | `emit_response_trace_events`, then `request_finished` |
| `Disconnect`, `ReloadBegin`, `ReloadEnd` | the surroundings |

A request's content is a record of what control depends on: override, validity,
remote features, where the prompt heuristics point (an input: the heuristics
themselves are not modelled), preferred ids, streaming. A text is only *garbled* or
not, because `nlohmann::json::dump()` throws on text that is not UTF-8: a chunk
of the in-process engine ends at a token and so perhaps inside a character, and the
error text of an HTTP backend quotes the body it received. `called` and
`speakers` are history variables.

Buffered and streaming requests run the same actions; the two places where the
twins differ (which identity a failure reports) read `request[r].stream`.

### CloudClient

`pc` follows `complete_impl`: `setup`, `attempt` (the head of the retry loop),
`perform` (inside `curl_easy_perform`), `backoff`, `returned`. While `perform`
lasts, the server sends a status line and then events in any order
(`Delta`, `OtherEvent`, `DoneMarker`, `ErrorEvent`), each one run of
`curl_write_callback`. `EndTransfer` is the code after `curl_easy_perform`
returns with whatever code curl may give. Time is an integer: a transfer takes
any amount up to the `CURLOPT_TIMEOUT_MS` it was given, a pause its computed length.

Events are taken under any status, as the callback does. The content of a delta is
always appended, so it is only counted; the arguments of a tool call are kept as text,
because `apply_stream_delta` does not append a fragment that equals what was
accumulated, and takes arguments that come as an object in place of it. `sent.altered`
remembers that the answer had such a fragment, and `SuccessIsComplete` excepts the
arguments of that answer and nothing else.

Abstractions: one tool call per answer; the time that `on_delta` itself takes, and oversleeping, are not on
the clock; the payload, headers and TLS settings are data.

### ExecutionHistory

An execution draws its id from the atomic counter (`DrawId`) and later appends
its event under `events_mutex_` (`AppendEvent`); two executions may do so in the
opposite order. `Fetch` is the daemon's answer to a poll, `Merge` is
`mergeExecutionHistory`, `PollFails` a poll that brings nothing. `Restart` is a new
daemon with an empty log and ids from 1. The real sizes are `Capacity` 2048
events, `Limit` 100 events per poll and `MaxItems` 250 rows.

### TraceStream

`pc[r]` follows `push_event` on the thread of request `r`: `numbered` once it has its
id, `logged` once it is in the ring, `copied` once the stream's callback was
copied, `idle` again when the callback has run. `Capacity` is the ring's 8192
(or what the configuration says), `BacklogLimit` the stream's 2000. The handler
is `ReadBacklog`, `Subscribe`, rounds of `WriteEvent`, `EndProvider`, `Close`,
`Unsubscribe`. A keep-alive round changes nothing and is left out. `tooOld`,
`between`, `backlog` and `written` are history variables. What an event says is left
out, and taken to be UTF-8: one that is not would throw in `trace_event_sse`
(`main.cpp:244`) and end the stream. Callbacks of other streams
would differ in nothing.

### EdgeDaemon

`mutex` is `mutex_`, `engineLock` the registry's. A block of the code under
`mutex_` that waits for nothing is one action (`BeginReload`, `Enter`,
`ReportFailure`); the end of a reload and a probe hold it across visits to the
engine and take several. `Answer` ends whatever the executor did, with or without
the engine, by a result or by an exception. The engine is the in-process one; the
sidecar, whose reload only repeats its configuration, and the stubs, which never
become ready, are not instances.

### RuntimeConfig

A launch is the words of the command line, the process environment and the
files at hand. `step` follows `RuntimeConfigParser::parse`: `scan` (the search
for the configuration file, one word a step), the choice of a file, its `.env`
file, `apply`, `read` (the same words again, one a step), then `started`,
`refused` or `help`. A setting is kept as the token that names its value, so
that the module can say what each reader makes of it: `ParseWord` is the
command line's and the environment's, `ReadToml` the file's, which casts an
integer to the field's 32 bits unchecked (port 4294967297 is port 1). `Options`
is the table of flags in the order in which the code compares them, each
by prefix, `--cloud-model` before `--cloud-model-alias` included.
`SECEDA_CLOUD_API_KEY` is read after the command line (`runtime_config.cpp:1436`)
and so beats `--cloud-api-key`, the one place where the documented order is
reversed. The TOML and option *syntax* is the library's and the shell's; a file
either parses or does not. A table of engines or backends that is present but empty
is refused; the option `--exposed-model` calls `route` what the file calls
`route_target`.

### ChatRequest

`Catalog` is the list behind `/v1/models`, built entry by entry as
`add_or_update_exposed_model` does it: of two exposed models with one id a request
finds the first, and an entry takes the hints of the backend whose alias equals its
id. A body is a function from the keys it has to typed values; `BodyOk` is the
parser's checks, `Parsed` the request it makes. A request without a model gets
the front of the catalog. A prompt is the set of rules of the heuristic router
it meets, and `Decide` is the router. `SelectBackend` is the cloud client's choice;
a backend that is named but not configured falls to the default one without a word.

### LlamaGeneration

`gpc` follows the token loop: `prompt`, `sample`, `decode`, `finish`, `done`. A
token is sampled from `Pieces` or ends the generation; every call into llama.cpp
may fail. A streamed answer leaves up to `SafeEnd`, and a stop sequence that a
token completes cuts the text at its first place; a buffered answer is cut once, at
the end, and generates to its limit whatever it contains. So the two may differ: with the
stops "b" and "abc" a stream ends at the "b" of "ab" and never sees
the earlier match that a "c" would have completed. The model, its sampler, the
chat template and detokenizing are external.

### ChatService

`phase` is `boot` (every step of `RuntimeConfig`), `parse`, `route`, `local`
(every step of `LlamaGeneration`), `cloud`, `writing`, `closed`, or `threw` when an
exception has left the handler. `Deliver` is
the delta callback of `openai_wire.cpp` under the backend, a write of which may
fail at each chunk; `FinalChunks` are the chunks of `set_streaming_...` after the
call. Routing and fallback keep the conditions of the executor and leave out its
threads, traces and metrics, which `RequestExecutor` has. The cloud backend may
send any deltas, retry once after some, answer in one body, or fail. A tool
call is its arguments, of one call; a delta with empty arguments changes nothing
and is left out.

`Garbled` are the texts that are not UTF-8, which `dump()` refuses by an exception
that nothing up to the HTTP library catches. A piece of llama.cpp may end inside a
character, so a content chunk may throw in the delta callback, through the generation
(`ContentThrows`), and a buffered answer in the reply. What a cloud backend sends was
parsed as JSON and is UTF-8, but a failed call may quote its bytes as they came:
then the closing trace of the executor throws, which dumps the error and the
fallback reason before the stream's error chunk is written (`CannotBeDumped`).
That chunk and the whole message after a call can therefore not throw themselves.
A body that is no JSON may be quoted in its 400 (`Reject`). What the library does
with a stream that was so cut is external; the client has then been sent no finish,
error or `[DONE]`. The texts of the configuration and the fields of a request are taken
to be UTF-8.

A sidecar or a stub engine is taken as not ready, an SDK engine
is known by its exact id. The writer's own error (`openai_wire.cpp:354`)
needs a tool-call delta that is not JSON; the cloud client makes that text with
`dump()`, so it cannot be reached and has no action.

## 3. Runs

| run | instance | shows |
|---|---|---|
| `executor_pair` | two requests, three contents, three deployments, one chunk, one reload; fair | the engine a request checked is ready when it generates (`CheckedEngineStaysReady`), the gauge counts the unfinished requests and the aborted ones (`GaugeCountsUnfinished`), every request that was begun ends (`EveryRequestSettles`) |
| `executor_contents` | one request, every content and deployment, two chunks, two reloads | the forced route, one try per backend, truthful fallback flag and booking, features, error kinds, no usable backend left untried, one speaker per stream, and that the executor implements `InferenceService` |
| `executor_identity` | one request | finding 1 |
| `executor_inflight` | one buffered request | finding 2 |
| `cloud_call` | up to two retries, timeouts 1..2, pauses 0..2, with and without streaming, two deltas per answer, tool-call fragments that repeat or differ, as text or as an object; fair | deadline, explained outcome, complete success, useful retries, return, and that a call implements `BackendCall` |
| `cloud_restream` | one streaming call with one retry | finding 3 |
| `history` | four executions, ring of three, polls of two, two rows, one restart; fair | the ring, why an event can be missing from the console, that the rows are the newest, and that an event is listed unless one of those reasons holds (`LoggedEventIsListed`; after a restart, every event whose id is beyond the old cursor) |
| `history_gap` | three executions, polls of one | finding 4 |
| `trace_stream` | two requests of two events each, a ring of three, a backlog of two, a stream over all requests or one; fair | the order of a stream (`StreamInOrder`), every reason an event may be missing from it (`StreamMissesForAKnownReason`), that a late callback leaves a closed stream alone, that a queued event is written |
| `daemon` | two reloads, one request, one probe; fair | the runtime state after overlapping reloads (`StateFitsEngine`), snapshots and reload results that fit the engine, and that no order of the two locks blocks a call (`EveryCallReturns`) |
| `chat_service` | 30 launches, every kind of body, pieces over two characters and half of a third, stop sequences up to three long, a context of four tokens, a limit of three; a cloud that sends up to two characters and retries once | a request for a model's alias goes to that model's backend (`AliasReachesItsBackend`), what a client hears of a stream is the booked answer (`ClientHearsTheAnswer`), its chunks come in an order a client can read wherever it hung up, and a stream that an exception cuts never looks finished (`StreamIsWellFormed`), no stop sequence leaves (`NoStopIsSent`), each decoded token has room (`RoomForEveryToken`) |
| `startup_flags` | one launch with `--cloud-model` and `--cloud-model-alias` | finding 5 |

**Why the bounds are enough.** Requests meet only through the engine's mutex,
`localReady` and the gauge, so two of them and a reload show every pairwise
interleaving; the properties of a single request need every content and
deployment but no second request, since a reload already moves everything
another request can move. One chunk decides `stream_started`; a second one
shows that refusing after acceptance is like refusing at once. Two retries give
a first, a middle and a last attempt; timeouts 1..2 against pauses 0..2 put the
deadline before, at and after the end of a pause. Two fragments of one character show
one that repeats what came before it and one that does not (563,080 states). Four events overflow a ring of
three, a poll of two, and two rows, each by at least one. Four trace events do
the same to a ring of three and a backlog of two, and two requests suffice to
overtake one another. Two reloads show every order of loading and settling; a second
request or probe would only wait for the same two locks, and the safety of the
facade is proved for any number.

The bodies of `chat_service` are one per check of the parser and one per
way to route; a stream meets every deployment (both backends, one, none).
Stop sequences of one, two and three characters against pieces of one and two let a
sequence end inside a piece, span three, and overlap another one. A limit of three
under a context of four with a prompt of one token fills the context exactly, and
the limit of nine goes over it. The sum of prompt and limit is an `int`:
past `MaxInt` the code's test is undefined and the model lets it go either way; the
instance has no such sum, the proof covers it.
Two characters from the cloud make an answer in one, two or (with a tool call)
mixed deltas, a repeated fragment among them. The character `x` is half of one that
takes two bytes: a text is UTF-8 if each `x` has its pair, so that a piece of one
`x` may leave as it is (and throw), wait for its other half behind a stop sequence's
hold-back, or end an answer (133,674 states in all).

**Fairness.** `executor_pair` assumes that each thread runs on and that backend
calls and loads end (the cloud client has a deadline, proved below; a local
generation has a token budget). A mutex is taken eventually: its holders all
leave, and the instance has finitely many of them. The client's disconnect, its
chunks and the start of a reload are not fair. `cloud_call` assumes that
`complete_impl` runs on and that curl ends a transfer by its timeout; the server
owes nothing. `history` assumes that the console goes on polling and that not
every poll fails (strong fairness of `Merge`); worker threads and restarts are
not fair. `trace_stream` assumes that the stream's thread runs on, which needs no
notification: `wait_for` wakes it every second. `daemon` assumes that every
thread runs on and that loads and generations end; a stream to a client that does not
read ends at the server's write timeout (120 s, `main.cpp:310`).

**Deadlock** is checked in every run. The executor and the cloud call end in an
explicit idle step that is enabled only when everything is settled, and so do
the daemon and the trace stream. In `chat_service` and `startup_flags` it is
not checked: a launch that is refused and a request that is answered end there.

## 4. Proofs

`RequestExecutorProofs`, `RequestOutcomeProofs`, `CloudClientProofs`,
`ExecutionHistoryProofs`, `TraceStreamProofs`, `EdgeDaemonProofs`,
`LlamaGenerationProofs` and `ChatServiceProofs` hold for every value of the constants under the modules'
named assumptions: any number of requests (finite), any subset of the contents and deployments, any number of chunks and reloads; any
retry count, positive timeout and pause, any number of deltas; any finite set of
executions, any positive capacity, limit and number of rows; any requests traced, any
number of their events, any sizes of ring and backlog; any sets of
reloads, requests and probes; any launches, files, bodies, token pieces, stop
sequences and cloud answers.

*Executor.* `Invariance` proves `IInv`, four parts: `TypeOK`; the gauge's count;
`RouteInv`, which says of each program point where the request may still go; and
`EngineInv`, which says what it may rely on of the engine. The properties alone are
not inductive. `NoBackendTriedTwice`, for one, needs that a request that may still
fall back has not been on the other side; this needs that the permission is gone
after a switch, and this in turn that `bestEffort` is only reached with the
permission. `StreamKeepsItsBackend` needs that `streamStarted` is false wherever
a call can begin. `CheckedEngineStaysReady` rests on the fact that no reload ever takes
readiness away. From `IInv` follow the theorems `TypeCorrect`, `ForcedRoute`,
`NoSecondTry`, `FeaturesKept`, `EngineStaysReady`, `GaugeExact` and
`StreamKeepsBackend`. Each action has a lemma per part of the invariant,
for any request `q` and the one `r` that moves; the gauge uses the cardinality
lemmas of `FiniteSetTheorems`.

*Outcome.* `RequestOutcomeProofs` strengthens `IInv` by `OutcomeInv`: what a response
holds at each program point. `FlagOK` is why the fallback flag tells the truth: the
flag says, all along, that the request is on the side its route did not name, and a
request that may still fall back does not have it. `SpeechOK` says that only the
running call has spoken, `KindOK` what an error kind says of the calls made, and
`TriedOK` is the argument of `NoneLeftUntried`: the permission to fall back is gone
only when the other side was tried, was not configured or was not ready. With them
`ExecutorImplementsService` maps each step: `Begin` submits, the first chunk speaks,
`Report` answers or gives up, an exception aborts (`InferenceService` lets what a
backend says first run into it, `BreakOff`), all the rest is a stutter.

*Cloud call.* `CallInvariance` proves `TypeOK`, the deadline, `RetryInv` (what the
head of the loop knows of the last attempt), `TransferInv` (what the callback
keeps) and `ResultInv`. From it follow the bounds, the outcome, the completeness of a
success (`CallSuccessComplete`: the content of every delta, and the tool-call
arguments unless a fragment was altered), `CallRetriesOnlyToHelp` (an action property) and
`CallImplementsBackendCall` (a refinement).

*History.* `HistoryInvariance` proves `HistoryInv`. An id is drawn by one execution
only and lies below the counter (`IdInv`); the cursor and a reply's latest id are 0
or ids of events that were appended (`CursorInv`), so an event appended below the
cursor is `Overtaken` there and then, and whatever else a reply passes it brings
or cuts off (`ReplyInv`). That is `OnlyKnownGaps`. `RowsAreNewest` rests on
`TopRowsSize`: of a finite set with distinct ids `TopRows` keeps as many as fit,
shown on a minimal counterexample without its lowest element, because the
induction theorems of the library are out of reach. Rows, and not
the order of batches, decide: merging the best rows of what was sent with a batch gives the
best rows of both.

*Trace.* `StreamInvariance` proves `StreamInv`. The ring is the end of the sequence
of all events ever appended (`RingInv`), in which each request's numbers ascend
(`NumberInv`). `PushInv` says why a late callback does no harm: an event that is being
dispatched is newer than all its request has put into the stream since the backlog, so
it can only repeat one of the backlog. `StageInv` follows the handler: a callback is copied
only when the stream is open or over, and a closed stream is over. `MissInv` says what an open
stream may still lack, the event on its way included. `Ranks` and `Ordered` show
that a backlog is in the ring's order, by a count of the places below each. Hence
`ClientHearsInOrder`, `OnlyKnownMisses` and the action property
`SilenceAfterClose`.

*Daemon.* `DaemonInvariance` proves that the engine runs the model loaded last and is
never unready again (`EngineInv`), what a reload and a probe know halfway
(`ReloadInv`, `ProbeInv`), and with them all four safety properties.
`SnapshotIsConsistent` needs `EngineInv`: a probe reads `state_` before it asks the
engine, so "ready" must not be able to grow old. `StateFitsEngine` is inductive by
itself, because the last reload to settle asks the engine and not its own result.

*Generation.* `GenerationInvariant` proves that the client has heard a prefix of
the text that holds no stop sequence, and that this prefix ends where no
sequence can begin any more (`HeardInv`, `StreamInv`). The step that matters is
`StopBeginsInTheHeldBack`: if a piece completes a stop sequence, the place
where it begins is at or beyond `SafeEnd` of the text before the piece; else
the sequence, which is no longer than the longest, would lie in that text. That the
first match exists is the well-ordering of the naturals. `StreamIsTheAnswer` is
proved beside the two properties that `chat_service` checks; `RoomInv` counts the
tokens in the context against those sampled.

*Service.* `ServiceInvariant` proves `ServiceInv` from the daemon's first word of the
command line to the last chunk of a request. Its parts:

- `ConfigInv`: the settings keep their fields through defaults, file, environment and
  flags, the limit of a generation stays one of `Amounts`, the backends stay a
  sequence, each exposed model keeps its fields and one of three routes. It is not about
  typing alone: the limit and the stop sequences that a request ends up with come
  from four places, and llama.cpp must be called with one of the `Jobs` whichever it was.
- `PhaseInv`, `RequestInv`: what has not happened before a request stands where it stands.
- `WireInv`: the role is written first and then deltas (`IsBody`), until the call
  returns; then what was written and what is still `pending` make together one
  stream in order (`IsStream`) that ends well. And what it tells: under llama.cpp the text
  that was `heard`, under the cloud client the answer so far, unless an attempt was
  given up or a fragment was altered. A request that an exception left has told its
  client a body (`IsBody`), or nothing. A client that hangs up stops the
  writer for good, so what was written stays a prefix of that stream.
- `AliasReachesItsBackend`, which is its own induction: it is decided once, when the
  request is parsed. What it rests on is the catalog: an entry that is added leads its
  id, and entries of other ids leave it alone. The catalog adds the remote
  backends one by one, and what it keeps is shown on a minimal counterexample, the least
  number of backends after which it fails, because the library's induction theorems are out of reach.
- `TurnInv`: who has the request and who may still get it. A backend that was
  tried without an answer is left only if nothing was said yet (`role`) and the
  route is `auto`, and never twice.

From it follow `EveryStreamIsWellFormed`, `EveryClientHearsTheAnswer` and
`EveryAliasReachesItsBackend`. `Told` is a recursive function; that it takes one
chunk at a time (`TellingExists` and the lemmas after it) is again the well-ordering
of the naturals. Three refinements say that the composition is faithful:
`ServiceImplementsStartup` to the startup, `ServiceImplementsGeneration` to the
token loop, so that the theorems about `LlamaGeneration` hold of a request
(`RequestsGenerateWell`), and `ServiceKeepsThePromise` to `InferenceService`, the
specification that `RequestExecutor` implements too: the composition knows what a body
says and drops the threads, the executor knows the threads and drops the body, and both
keep one promise.

Two assumptions stand behind it. `LaunchAssumption`: the search for a
configuration file finds one that exists (`is_regular_file`, `config_catalog.cpp:77`,
before a candidate is taken), and arrays of a TOML file are sequences. `ServiceAssumption`: the numbers that
a file, a flag or a body can give as a limit are among `Amounts`, and make one of the
`Jobs` with the stops that a body may have; this is how the constants of the two
modules are tied, and TLC evaluates it on the instance, where `Jobs` is all of the
limits and stops. It also says that what a cloud backend sends is UTF-8 and that the
empty text is. An empty alias names nothing (a body without a model
gets the front of the catalog, one with an empty model is refused with 400), so
`AliasReachesItsBackend` says nothing of it.

*Model-checked only.* Liveness (`EveryRequestSettles`, `CallReturns`,
`LoggedEventIsListed`, `QueuedEventIsWritten`, `EveryCallReturns`), which these
provers do not reach. Every safety invariant and action property of the passing runs is proved.
*Proved only:* `AttemptsBounded` of the cloud call, `StreamTellsTheAnswer`, and
`ImplementsPromise` of `ChatService`, which no run repeats.

## 5. Findings

1. **Initial identity after a fallback** (`executor_identity`). `execute_cloud`
   fills `initial_identity` whenever its `backend_id` is empty, also when the
   request came from the local side and the empty id is the local engine's. The
   event then has `initial_target` local beside the cloud's identity. The local half
   does the same with `engine_id`. The test `metrics_registry_test.cpp:89`
   expects "initial backend identity".
2. **The gauge after an exception** (`executor_inflight`). `dump()` throws on text
   that is not UTF-8, and the error text of a failed backend quotes the body it
   got. The exception leaves the closing trace event and the executor,
   `request_finished` is skipped and the request counts as in flight for ever.
   The run has buffered requests only: what becomes of an exception that leaves a
   stream's content provider is up to the HTTP library, and the model ends such a
   request in `threw`. Such a stream is cut without a finish, an error or `[DONE]`
   (`StreamIsWellFormed`).
   `GaugeCountsUnfinished` says that this is the only error of the gauge.
3. **Retry after a delta** (`cloud_restream`). A transfer cut after deltas were
   streamed is retried; the client receives the answer again from its start. The
   plan in `docs/` wants errors surfaced in the stream after the first delta.
4. **The console's cursor** (`history_gap`). The cursor moves to the newest id of
   the log although the poll was cut at its limit, so the events between are
   never fetched, while the status line says that the history is up to date.
   `MissedForAKnownReason` adds a second cause, an id drawn before one that was
   appended earlier; a restarted daemon is a third, since the console keeps
   its old cursor.

5. **An option taken for another** (`startup_flags`). Options are matched by
   prefix in the order of the code, and `--cloud-model` stands before
   `--cloud-model-alias`: the latter renames the cloud model and leaves the alias.
   Only the configuration file can set the alias.

## 6. Not modelled, and the plan

Left out for good: JSON and TOML syntax, the router's character counts (a
prompt is long or it is not), the tokenizer, the sampler and llama.cpp, the
console's screens and its configuration editor, deployment scripts: libraries,
pure functions, user interface or files outside the runtime. Of the HTTP daemon only the chat
completion, the trace stream, the events and the facade's endpoints are modelled, the
static pages and the logging are not. Counters other than the gauge only grow
by one beside it.

Of the composition, `ChatService` has one request and no threads; two requests are
`RequestExecutor`'s, and the two are not joined: their product is too large
for TLC and shows nothing that the mutex does not already separate.

Next, should the project go on:

1. The reader of integers (`simple_toml_read.hpp:55`) casts to the width of the field:
   a property of the settings, beside the model of it that `ReadToml` has.
2. `EdgeDaemon` and the requests of `RequestExecutor` on one engine: the facade's
   reload refines the executor's.
3. Action properties of `ChatService`: a request's choices (route, backend, limits) do not
   change after it was accepted, and what was written stays written.

## 7. Running it

    tlasany RequestExecutor.tla
    tlc -workers 2 -config RequestExecutor_pair.cfg MCRequestExecutor
    tlc -workers 2 -config ChatService.cfg MCChatService
    tlapm RequestExecutorProofs.tla
    tlapm ChatServiceProofs.tla

The other runs are listed with their modules in `PROJECT.json`. The runs
`*_identity`, `*_inflight`, `*_restream`, `*_gap` and `startup_flags` end with a
counterexample. Definitions named `X_Something`, or called a mutant in their comment,
are versions of a definition with a plausible bug, which the properties are shown to
catch.
