---------------------------- MODULE ChatRequest ----------------------------
(***************************************************************************)
(* From the body of POST /v1/chat/completions to the request the executor  *)
(* gets: the model catalog built from the configuration, the checks of     *)
(* openai_parse.cpp, the hints a catalog entry gives, and the choices made *)
(* from them, the heuristic router's and the cloud client's.               *)
(*                                                                         *)
(* A body is the function of the keys it has; a value is <<type, value>>.  *)
(* A text is the set of what the router finds in it: "text" for words of   *)
(* no interest, or the rules of the running configuration it meets. The    *)
(* empty set is the empty text. Numbers are the tokens of RuntimeConfig.   *)
(***************************************************************************)
EXTENDS RuntimeConfig

CONSTANT Bodies   \* the bodies clients send; NotAnObject stands for any other text

VARIABLES body, request, verdict

requestVars == <<body, request, verdict>>

NotAnObject == [json |-> <<"malformed", {}>>]
NoRequest == [model |-> ""]

-----------------------------------------------------------------------------
(* The catalog: the exposed models, then what the configuration serves. *)

\* add_unique, which ignores an entry without an id
AddUnique(models, entry) ==
  IF entry.id = "" THEN models ELSE AddOrUpdate(models, NamedModel(entry))

LocalEntry(local) ==
  [ModelDefaults EXCEPT
     !.id = local.model_alias, !.display_name = local.display_name,
     !.route_target = "local", !.engine_id = local.engine_id,
     !.backend_id = local.backend_id, !.model_id = local.model_id,
     !.model_alias = local.model_alias, !.execution_mode = local.execution_mode,
     !.capabilities = local.capabilities]

\* A mutant: an alias of a backend does not choose the route.
RemoteEntryAuto(backend) ==
  [ModelDefaults EXCEPT
     !.id = backend.model_alias, !.display_name = backend.display_name,
     !.backend_id = backend.backend_id, !.model_id = backend.model,
     !.model_alias = backend.model_alias,
     !.execution_mode = backend.execution_mode, !.capabilities = backend.capabilities]

RemoteEntry(backend) ==
  [ModelDefaults EXCEPT
     !.id = backend.model_alias, !.display_name = backend.display_name,
     !.route_target = "cloud", !.backend_id = backend.backend_id,
     !.model_id = backend.model, !.model_alias = backend.model_alias,
     !.execution_mode = backend.execution_mode, !.capabilities = backend.capabilities]

\* configured_model_catalog
Catalog ==
  LET public == AddUnique(config.exposed_models, DefaultPublicModel(config))
      local == AddUnique(public, LocalEntry(config.local))
      remotes[i \in 0 .. Len(config.remote_backends)] ==
        IF i = 0 THEN AddUnique(local, RemoteEntry(config.cloud))
        ELSE AddUnique(remotes[i - 1], RemoteEntry(config.remote_backends[i]))
  IN remotes[Len(config.remote_backends)]

KnownModel(model) == \E i \in DOMAIN Catalog : Catalog[i].id = model
CatalogEntry(model) ==
  Catalog[CHOOSE i \in DOMAIN Catalog :
            /\ Catalog[i].id = model
            /\ \A j \in 1 .. (i - 1) : Catalog[j].id # model]

-----------------------------------------------------------------------------
(* The parts of a body. *)

Has(b, key) == key \in DOMAIN b
TypeOf(b, key) == b[key][1]
Given(b, key) == Has(b, key) /\ TypeOf(b, key) # "null"
Typed(b, key, types) == Has(b, key) => TypeOf(b, key) \in types

\* read_text_message_content: text, null, or an array of text parts
ContentOk(content) ==
  \/ content[1] \in {"string", "null"}
  \/ /\ content[1] = "array"
     /\ \A i \in DOMAIN content[2] : content[2][i][1] \in {"text", "input_text"}
ContentText(content) ==
  CASE content[1] = "string" -> content[2]
    [] content[1] = "null" -> {}
    [] content[1] = "array" -> UNION {content[2][i][2] : i \in DOMAIN content[2]}

\* parse_chat_message
MessageOk(message) ==
  /\ Has(message, "role") /\ TypeOf(message, "role") = "string"
  /\ message.role[2] \in {"system", "developer", "user", "assistant", "tool", "function"}
  /\ Typed(message, "name", {"string"})
  /\ Typed(message, "tool_call_id", {"string"})
  /\ Typed(message, "tool_calls", {"array"})
  /\ Has(message, "content") /\ ContentOk(message.content)

MessagesOk(b) ==
  /\ Has(b, "messages") /\ TypeOf(b, "messages") = "array"
  /\ \A i \in DOMAIN b.messages[2] : MessageOk(b.messages[2][i])

\* read_stop_sequences
StopOk(b) ==
  /\ Typed(b, "stop", {"string", "array"})
  /\ Has(b, "stop") /\ TypeOf(b, "stop") = "array" =>
       \A i \in DOMAIN b.stop[2] : b.stop[2][i][1] = "string"
Stops(b) ==
  IF ~Has(b, "stop") THEN {}
  ELSE IF TypeOf(b, "stop") = "string" THEN {b.stop[2]}
  ELSE {b.stop[2][i][2] : i \in DOMAIN b.stop[2]}

\* read_completion_token_limit: the two names of the limit must agree
AsInt(number) == Cast("max_completion_tokens", number)
LimitOk(b) ==
  /\ Typed(b, "max_tokens", {"integer"}) /\ Typed(b, "max_completion_tokens", {"integer"})
  /\ Has(b, "max_tokens") /\ Has(b, "max_completion_tokens") =>
       AsInt(b.max_tokens[2]) = AsInt(b.max_completion_tokens[2])
Limit(b) ==
  IF Has(b, "max_completion_tokens") THEN AsInt(b.max_completion_tokens[2])
  ELSE IF Has(b, "max_tokens") THEN AsInt(b.max_tokens[2])
  ELSE config.generation.max_completion_tokens

\* parse_openai_request_features: the features a request asks for
FeaturesOk(b) ==
  /\ Typed(b, "user", {"string"}) /\ StopOk(b) /\ Typed(b, "tools", {"array"})
  /\ Typed(b, "tool_choice", {"null", "string", "object"})
  /\ Typed(b, "response_format", {"null", "string", "object"})
Needs(b) ==
  {f \in {"tools", "tool_choice", "response_format"} :
     CASE f = "tools" -> Has(b, f) /\ b[f][2] # "[]"
       [] f = "tool_choice" -> Given(b, f) /\ b[f] # <<"string", "none">>
       [] f = "response_format" -> Given(b, f) /\ b[f][2] # "text"}

BodyOk(b) ==
  /\ b # NotAnObject
  /\ Typed(b, "model", {"string", "null"})
  /\ MessagesOk(b)
  /\ Typed(b, "stream", {"boolean"}) /\ Typed(b, "include_usage", {"boolean"})
  /\ LimitOk(b)
  /\ Typed(b, "controls", {"number"})
  /\ FeaturesOk(b)

Model(b) ==
  IF Given(b, "model") THEN b.model[2]
  ELSE IF Catalog # << >> THEN Catalog[1].id ELSE config.daemon.public_model_alias

\* The routing prompt of refresh_request_views: every message that is not empty.
RoutingPrompt(messages) == UNION {ContentText(messages[i].content) : i \in DOMAIN messages}

\* The request with the hints of apply_model_selection_hints.
Parsed(b) ==
  LET entry == CatalogEntry(Model(b))
  IN [model |-> Model(b),
      messages |-> Len(b.messages[2]),
      prompt |-> RoutingPrompt(b.messages[2]),
      stream |-> IF Has(b, "stream") THEN b.stream[2] ELSE "false",
      usage |-> IF Has(b, "include_usage") THEN b.include_usage[2] ELSE "false",
      limit |-> Limit(b),
      stops |-> Stops(b),
      needs |-> Needs(b),
      override |-> entry.route_target,
      engine |-> entry.engine_id,
      backend |-> entry.backend_id,
      alias |-> FirstNonEmpty(entry.model_alias, Model(b))]

-----------------------------------------------------------------------------
(* What is made of a request. *)

\* The rules of HeuristicRouter::decide in their order: each sends to the cloud.
RoutingRules ==
  <<"prompt_too_long", "estimated_tokens_exceeded", "structured_output_hint",
    "freshness_hint", "complexity_hint">>

Decide(req) ==
  IF req.needs # {} THEN [target |-> "cloud", reason |-> "remote_capability_required"]
  ELSE IF \E i \in DOMAIN RoutingRules : RoutingRules[i] \in req.prompt
  THEN [target |-> "cloud",
        reason |-> RoutingRules[CHOOSE i \in DOMAIN RoutingRules :
                     /\ RoutingRules[i] \in req.prompt
                     /\ \A j \in 1 .. (i - 1) : RoutingRules[j] \notin req.prompt]]
  ELSE [target |-> "local", reason |-> "local_default"]

\* The cloud client's backends: the default one, then the named ones.
Remotes == <<config.cloud>> \o config.remote_backends
Usable == {i \in DOMAIN Remotes : Remotes[i].base_url # ""}
FirstOf(places) == Remotes[CHOOSE i \in places : \A j \in places : i <= j]

NoBackend == [backend_id |-> ""]

\* select_backend: by id, by alias, else the first that is configured
SelectBackend(req) ==
  LET byId == {i \in Usable : req.backend # "" /\ Remotes[i].backend_id = req.backend}
      byAlias == {i \in Usable : req.alias # "" /\ Remotes[i].model_alias = req.alias}
  IN IF byId # {} THEN FirstOf(byId)
     ELSE IF byAlias # {} THEN FirstOf(byAlias)
     ELSE IF Usable # {} THEN FirstOf(Usable) ELSE NoBackend

\* The adapter for the configured engine, or "" when none fits.
SdkEngine(engine) == engine \in {"cactus", "runanywhere", "run_anywhere"}
ResolveEngine(local) ==
  LET mode == local.execution_mode
  IN CASE IsSidecar(mode) -> "sidecar"
       [] mode \in {"sdk_bridge", "sdk-bridge"} ->
            IF SdkEngine(local.engine_id) THEN "stub" ELSE ""
       [] mode \in {"", "in_process", "in-process"} ->
            IF SdkEngine(local.engine_id) THEN "" ELSE "llama"
       [] OTHER -> ""

-----------------------------------------------------------------------------
RequestInit == body \in Bodies /\ request = NoRequest /\ verdict = "none"

AcceptBody ==
  /\ verdict = "none"
  /\ BodyOk(body) /\ KnownModel(Model(body))
  /\ request' = Parsed(body)
  /\ verdict' = "accepted"
  /\ UNCHANGED body

RejectBody ==
  /\ verdict = "none"
  /\ ~(BodyOk(body) /\ KnownModel(Model(body)))
  /\ verdict' = "rejected"
  /\ UNCHANGED <<body, request>>

-----------------------------------------------------------------------------
(* README.md: a request that names the alias of a backend goes to it. *)

\* A backend no other shares its alias or id with, that can be called.
Distinct(i) ==
  /\ i \in Usable
  /\ Remotes[i].model_alias # "" /\ Remotes[i].backend_id # ""
  /\ \A j \in DOMAIN Remotes : j # i =>
       /\ Remotes[j].model_alias # Remotes[i].model_alias
       /\ Remotes[j].backend_id # Remotes[i].backend_id

\* Whatever the catalog exposes: the alias of a remote backend forces the route
\* to the cloud and selects that backend (openai_models.cpp, openai_parse.cpp,
\* select_backend), an alias only the local engine has forces the local route.
\* An empty alias names nothing.
AliasReachesItsBackend ==
  verdict = "accepted" =>
    /\ \A i \in DOMAIN Remotes :
         Distinct(i) /\ request.model = Remotes[i].model_alias
           => request.override = "cloud" /\ SelectBackend(request) = Remotes[i]
    /\ /\ request.model = config.local.model_alias /\ request.model # ""
       /\ \A i \in DOMAIN Remotes : Remotes[i].model_alias # request.model
       => request.override = "local"
=============================================================================
