--------------------------- MODULE RuntimeConfig ---------------------------
(***************************************************************************)
(* How the edge daemon finds its configuration: RuntimeConfigParser::parse *)
(* scans the command line for the configuration file, loads a .env file    *)
(* into the process environment, applies the TOML file over the built-in   *)
(* defaults, then reads the command line again, word by word, over the     *)
(* result, validates it, and adds the default public model.                *)
(*                                                                         *)
(* A setting's value is the token that names it: "0", "1" and "-1" are     *)
(* those numbers, "70000" is one no port may have, Beyond32 is one more    *)
(* than 2^32; "true" and "false" are booleans; a keyword or capability     *)
(* list is named by the text it is split from, "" being the empty list.    *)
(***************************************************************************)
EXTENDS Naturals, Sequences

CONSTANTS
  Launches,   \* the ways the daemon is started, see below
  Specs       \* what a --local-engine, --remote-backend or --exposed-model
              \* word says, [word -> [key -> token]]: other words are malformed

(***************************************************************************)
(* A launch is                                                             *)
(*   argv    the words after the program's name, each [name, value]: a     *)
(*           word --x=v has a value, any other has NoValue;                *)
(*   env     the process environment, [variable -> token];                 *)
(*   files   the regular files at hand, [path -> file];                    *)
(*   found   the configuration file found upward from the working          *)
(*           directory or the program, or "";                              *)
(*   dotenvs the .env files found upward from a path's directory,          *)
(*           [path -> sequence];                                           *)
(*   here    the .env file of the working directory, in a sequence.        *)
(* A .env file is [valid, vars]. A TOML file is [readable, tables, active, *)
(* hasEngines, engines, default, hasBackends, backends, hasExposed,        *)
(* exposed]: it is readable when it parses, has no other root key and      *)
(* schema_version 1; tables is [section -> [key -> <<type, token>>]],      *)
(* engines and backends are sequences of [name, items] in the order of     *)
(* their names, exposed is a sequence of items, and the file has each of   *)
(* these three, which may be empty, or does not.                           *)
(***************************************************************************)
NoValue == "no value"
Rejected == "rejected"
Beyond32 == "4294967297"
Numerals == {"-1", "0", "1", "70000", Beyond32}

IsSequence(s) == s \in Seq({s[i] : i \in DOMAIN s})

\* The search finds files there are, and the arrays of a file are sequences.
ASSUME LaunchAssumption ==
  \A start \in Launches :
    /\ start.found \in DOMAIN start.files \cup {""}
    /\ \A path \in DOMAIN start.files :
         IsSequence(start.files[path].backends) /\ IsSequence(start.files[path].exposed)

VARIABLES launch, step, at, selection, environ, config

startupVars == <<launch, step, at, selection, environ, config>>

-----------------------------------------------------------------------------
(* The settings and their built-in values. *)

LocalDefaults ==
  [engine_id |-> "local/llama.cpp", backend_id |-> "local",
   model_id |-> "local-default", model_alias |-> "local/default",
   display_name |-> "Seceda local llama.cpp", execution_mode |-> "in_process",
   capabilities |-> "chat.completions,text,stream", model_path |-> "",
   context_size |-> "2048", batch_size |-> "2048", n_gpu_layers |-> "99",
   n_threads |-> "-1", n_threads_batch |-> "-1", sidecar_base_url |-> "",
   sidecar_timeout_seconds |-> "120", sidecar_connect_timeout_seconds |-> "10",
   sidecar_verify_tls |-> "true"]

CloudDefaults ==
  [backend_id |-> "remote/modal-default", model |-> "seceda-cloud-default",
   model_alias |-> "remote/default", display_name |-> "Seceda remote backend",
   execution_mode |-> "remote_service",
   capabilities |-> "chat.completions,text,stream,tools,response_format",
   base_url |-> "", api_key |-> "", timeout_seconds |-> "120",
   connect_timeout_seconds |-> "10", retry_attempts |-> "2",
   retry_backoff_ms |-> "1000", send_modal_session_id |-> "false",
   verify_tls |-> "true"]

ModelDefaults ==
  [id |-> "", display_name |-> "", owned_by |-> "seceda", route_target |-> "auto",
   engine_id |-> "", backend_id |-> "", model_id |-> "", model_alias |-> "",
   execution_mode |-> "", capabilities |-> ""]

DaemonDefaults ==
  [daemon |-> [host |-> "0.0.0.0", port |-> "8080", default_system_prompt |-> "",
               warmup_prompt |-> "Hello from Seceda.",
               public_model_alias |-> "seceda/default"],
   generation |-> [max_completion_tokens |-> "128", temperature |-> "0.7",
                   top_p |-> "0.9", top_k |-> "40", min_p |-> "0.05",
                   seed |-> "4294967295"],
   router |-> [max_prompt_chars |-> "800", max_estimated_tokens |-> "256",
               structured_keywords |-> "json,schema,sql",
               cloud_keywords |-> "analyze,compare,plan",
               freshness_keywords |-> "today,latest,current"],
   observability |-> [event_log_capacity |-> "2048"],
   local |-> LocalDefaults,
   cloud |-> CloudDefaults,
   local_engines |-> << >>,
   remote_backends |-> << >>,
   exposed_models |-> <<[ModelDefaults EXCEPT !.id = "seceda/default",
                                              !.display_name = "Seceda default route"]>>]

Sections == {"daemon", "generation", "router", "observability"}

IntKeys ==
  {"port", "max_completion_tokens", "top_k", "max_estimated_tokens",
   "context_size", "batch_size", "n_gpu_layers", "n_threads", "n_threads_batch",
   "sidecar_timeout_seconds", "sidecar_connect_timeout_seconds",
   "timeout_seconds", "connect_timeout_seconds", "retry_attempts",
   "retry_backoff_ms"}
CountKeys == {"max_prompt_chars", "event_log_capacity"}
FloatKeys == {"temperature", "top_p", "min_p"}
NumberKeys == IntKeys \cup CountKeys \cup FloatKeys \cup {"seed"}
BoolKeys == {"sidecar_verify_tls", "send_modal_session_id", "verify_tls"}
ListKeys == {"capabilities", "structured_keywords", "cloud_keywords",
             "freshness_keywords"}

-----------------------------------------------------------------------------
(* Reading one value. *)

\* A 32-bit field keeps the low bits of a wider number.
Cast(key, number) ==
  IF number = Beyond32 /\ key \notin CountKeys \cup FloatKeys THEN "1" ELSE number

\* What a word means for a key, or Rejected. stoi refuses what no int holds;
\* the unsigned readers refuse nothing that 64 bits hold.
ParseWord(key, word) ==
  CASE key \in IntKeys -> IF word \in Numerals \ {Beyond32} THEN word ELSE Rejected
    [] key \in NumberKeys \ IntKeys ->
         IF word \in Numerals THEN Cast(key, word) ELSE Rejected
    [] key \in BoolKeys ->
         IF word \in {"1", "true"} THEN "true"
         ELSE IF word \in {"0", "false"} THEN "false" ELSE Rejected
    [] key = "route_target" ->
         IF word \in {"auto", "local", "cloud"} THEN word
         ELSE IF word = "remote" THEN "cloud" ELSE Rejected
    [] OTHER -> word

\* What a TOML value means for a key, or Rejected: integers are cast unchecked.
ReadToml(key, value) ==
  LET type == value[1]
      token == value[2]
  IN CASE key \in FloatKeys -> IF type \in {"integer", "float"} THEN token ELSE Rejected
       [] key \in NumberKeys \ FloatKeys ->
            IF type = "integer" THEN Cast(key, token) ELSE Rejected
       [] key \in BoolKeys -> IF type = "boolean" THEN token ELSE Rejected
       [] key \in ListKeys -> IF type = "array" THEN token ELSE Rejected
       [] key = "route_target" ->
            IF type # "string" THEN Rejected
            ELSE IF token = "" THEN "auto" ELSE ParseWord(key, token)
       [] OTHER -> IF type = "string" THEN token ELSE Rejected

Overlay(defaults, items) ==
  [k \in DOMAIN defaults |-> IF k \in DOMAIN items THEN items[k] ELSE defaults[k]]

Accepted(items, keys) ==
  DOMAIN items \subseteq keys /\ \A k \in DOMAIN items : items[k] # Rejected

FirstNonEmpty(a, b) == IF a = "" THEN b ELSE a

WithName(entry, name) ==
  [entry EXCEPT !.display_name = FirstNonEmpty(@, FirstNonEmpty(entry.model_alias, name))]

\* local_execution_modes: three spellings, in any case.
IsSidecar(mode) == mode \in {"sidecar_server", "sidecar-server", "sidecar"}

-----------------------------------------------------------------------------
(* Catalog specs of the command line: each appends an entry to a list. *)

SpecItems(word) == [k \in DOMAIN Specs[word] |-> ParseWord(k, Specs[word][k])]

\* parse_local_engine_spec, and whether it succeeds
LocalEngineSpec(word) ==
  LET entry == Overlay(LocalDefaults, SpecItems(word))
  IN WithName(entry, entry.engine_id)
LocalEngineSpecOk(word) ==
  /\ word \in DOMAIN Specs
  /\ Accepted(SpecItems(word),
              DOMAIN LocalDefaults \ {"n_gpu_layers", "n_threads", "n_threads_batch"})
  /\ IsSidecar(LocalEngineSpec(word).execution_mode)
       => LocalEngineSpec(word).sidecar_base_url # ""

\* parse_remote_backend_spec
RemoteBackendSpec(word) ==
  LET entry == Overlay(CloudDefaults, SpecItems(word))
  IN WithName(entry, entry.backend_id)
RemoteBackendSpecOk(word) ==
  /\ word \in DOMAIN Specs
  /\ Accepted(SpecItems(word), DOMAIN CloudDefaults)
  /\ RemoteBackendSpec(word).base_url # ""

NamedModel(entry) ==
  [entry EXCEPT !.display_name = FirstNonEmpty(@, entry.id),
                !.model_alias = FirstNonEmpty(@, entry.id)]

\* What a spec calls route is the entry's route_target.
ModelSpecItems(word) ==
  [k \in {IF key = "route" THEN "route_target" ELSE key : key \in DOMAIN Specs[word]} |->
     ParseWord(k, Specs[word][IF k = "route_target" THEN "route" ELSE k])]

\* parse_exposed_model_spec
ExposedModelSpec(word) == NamedModel(Overlay(ModelDefaults, ModelSpecItems(word)))
ExposedModelSpecOk(word) ==
  /\ word \in DOMAIN Specs
  /\ "route_target" \notin DOMAIN Specs[word]
  /\ Accepted(ModelSpecItems(word), DOMAIN ModelDefaults)
  /\ ExposedModelSpec(word).id # ""

-----------------------------------------------------------------------------
(* The TOML file: a table that is absent leaves its settings alone. *)

TomlItems(items) == [k \in DOMAIN items |-> ReadToml(k, items[k])]

LocalEngineTable(table) ==
  WithName(Overlay(LocalDefaults, TomlItems(table.items)), table.name)
RemoteBackendTable(table) ==
  WithName(Overlay(CloudDefaults, TomlItems(table.items)), table.name)
ExposedModelTable(items) == NamedModel(Overlay(ModelDefaults, TomlItems(items)))

\* One table of a group is the active one; the group replaces what was there.
\* A group that is there has such a table, so it is not empty.
GroupOk(present, tables, chosen, defaults) ==
  IF ~present THEN chosen = ""
  ELSE /\ chosen # ""
       /\ \E i \in DOMAIN tables : tables[i].name = chosen
       /\ \A i \in DOMAIN tables : Accepted(TomlItems(tables[i].items), DOMAIN defaults)

\* No two tables of a group have the same name.
PlaceOf(tables, chosen) == CHOOSE i \in DOMAIN tables : tables[i].name = chosen
TheChosen(tables, chosen) == tables[PlaceOf(tables, chosen)]
TheOthers(tables, chosen) ==
  [i \in 1 .. Len(tables) - 1 |->
     tables[IF i < PlaceOf(tables, chosen) THEN i ELSE i + 1]]

ApplyTable(section, file, cfg) ==
  IF section \in DOMAIN file.tables
  THEN Overlay(cfg[section], TomlItems(file.tables[section])) ELSE cfg[section]

ApplyLocalTable(file, cfg) ==
  IF ~file.hasEngines THEN cfg
  ELSE LET others == TheOthers(file.engines, file.active)
       IN [cfg EXCEPT
            !.local = LocalEngineTable(TheChosen(file.engines, file.active)),
            !.local_engines = [i \in DOMAIN others |-> LocalEngineTable(others[i])]]

ApplyRemoteTable(file, cfg) ==
  IF ~file.hasBackends THEN cfg
  ELSE LET others == TheOthers(file.backends, file.default)
       IN [cfg EXCEPT
            !.cloud = RemoteBackendTable(TheChosen(file.backends, file.default)),
            !.remote_backends = [i \in DOMAIN others |-> RemoteBackendTable(others[i])]]

ApplyExposedModels(file, cfg) ==
  IF ~file.hasExposed THEN cfg
  ELSE [cfg EXCEPT !.exposed_models =
          [i \in DOMAIN file.exposed |-> ExposedModelTable(file.exposed[i])]]

ConfigFileOk(file) ==
  /\ file.readable
  /\ DOMAIN file.tables \subseteq Sections
  /\ \A s \in DOMAIN file.tables :
       Accepted(TomlItems(file.tables[s]), DOMAIN DaemonDefaults[s])
  /\ GroupOk(file.hasEngines, file.engines, file.active, LocalDefaults)
  /\ GroupOk(file.hasBackends, file.backends, file.default, CloudDefaults)
  /\ \A i \in DOMAIN file.exposed :
       /\ Accepted(TomlItems(file.exposed[i]), DOMAIN ModelDefaults)
       /\ ExposedModelTable(file.exposed[i]).id # ""

ApplyConfigFile(file, cfg) ==
  ApplyExposedModels(file, ApplyRemoteTable(file, ApplyLocalTable(file,
    [k \in DOMAIN cfg |-> IF k \in Sections THEN ApplyTable(k, file, cfg) ELSE cfg[k]])))

-----------------------------------------------------------------------------
(* The command line. A word is taken for the first option whose flag it
   begins with: <<flag, section, key>>, or <<flag, list>>. *)

LocalOptions ==
  <<<<"--host", "daemon", "host">>, <<"--port", "daemon", "port">>,
    <<"--model-path", "local", "model_path">>,
    <<"--local-engine-id", "local", "engine_id">>,
    <<"--local-backend-id", "local", "backend_id">>,
    <<"--local-model-id", "local", "model_id">>,
    <<"--local-model-alias", "local", "model_alias">>,
    <<"--local-display-name", "local", "display_name">>,
    <<"--local-execution-mode", "local", "execution_mode">>,
    <<"--local-sidecar-base-url", "local", "sidecar_base_url">>,
    <<"--local-sidecar-timeout-seconds", "local", "sidecar_timeout_seconds">>,
    <<"--local-sidecar-connect-timeout-seconds",
      "local", "sidecar_connect_timeout_seconds">>,
    <<"--local-sidecar-verify-tls", "local", "sidecar_verify_tls">>,
    <<"--system-prompt", "daemon", "default_system_prompt">>,
    <<"--warmup-prompt", "daemon", "warmup_prompt">>,
    <<"--n-ctx", "local", "context_size">>, <<"--n-batch", "local", "batch_size">>,
    <<"--n-gpu-layers", "local", "n_gpu_layers">>,
    <<"--n-threads-batch", "local", "n_threads_batch">>,
    <<"--n-threads", "local", "n_threads">>>>

CloudOptions ==
  <<<<"--default-max-tokens", "generation", "max_completion_tokens">>,
    <<"--public-model-alias", "daemon", "public_model_alias">>,
    <<"--default-temperature", "generation", "temperature">>,
    <<"--default-top-p", "generation", "top_p">>,
    <<"--default-top-k", "generation", "top_k">>,
    <<"--default-min-p", "generation", "min_p">>,
    <<"--default-seed", "generation", "seed">>,
    <<"--local-engine", "local_engines">>,
    <<"--cloud-base-url", "cloud", "base_url">>,
    <<"--cloud-backend-id", "cloud", "backend_id">>,
    <<"--cloud-model", "cloud", "model">>,
    <<"--cloud-model-alias", "cloud", "model_alias">>,
    <<"--cloud-display-name", "cloud", "display_name">>,
    <<"--cloud-api-key", "cloud", "api_key">>,
    <<"--cloud-timeout-seconds", "cloud", "timeout_seconds">>,
    <<"--cloud-connect-timeout-seconds", "cloud", "connect_timeout_seconds">>,
    <<"--cloud-retry-attempts", "cloud", "retry_attempts">>,
    <<"--cloud-retry-backoff-ms", "cloud", "retry_backoff_ms">>,
    <<"--cloud-send-modal-session-id", "cloud", "send_modal_session_id">>,
    <<"--cloud-verify-tls", "cloud", "verify_tls">>,
    <<"--remote-backend", "remote_backends">>,
    <<"--exposed-model", "exposed_models">>,
    <<"--router-max-chars", "router", "max_prompt_chars">>,
    <<"--router-max-estimated-tokens", "router", "max_estimated_tokens">>,
    <<"--router-structured-keywords", "router", "structured_keywords">>,
    <<"--router-cloud-keywords", "router", "cloud_keywords">>,
    <<"--router-freshness-keywords", "router", "freshness_keywords">>,
    <<"--event-log-capacity", "observability", "event_log_capacity">>>>

Options == LocalOptions \o CloudOptions

Begins(text, flag) == Len(flag) <= Len(text) /\ SubSeq(text, 1, Len(flag)) = flag

Known(text) == \E i \in DOMAIN Options : Begins(text, Options[i][1])
Dispatch(text) ==
  Options[CHOOSE i \in DOMAIN Options :
            /\ Begins(text, Options[i][1])
            /\ \A j \in 1 .. (i - 1) : ~Begins(text, Options[j][1])]

\* A word of the command line, whole.
Text(word) == IF word.value = NoValue THEN word.name ELSE word.name \o "=" \o word.value

\* next_value: the value of the option at i, and the place of the word after it.
HasNext(argv, i) == argv[i].value # NoValue \/ i + 1 <= Len(argv)
NextValue(argv, i) ==
  IF argv[i].value # NoValue THEN argv[i].value ELSE Text(argv[i + 1])
After(argv, i) == IF argv[i].value # NoValue THEN i + 1 ELSE i + 2

\* The value an option's word gives its setting, or Rejected.
OptionValue(section, key, word) ==
  IF section = "local" /\ key = "execution_mode" /\ word = "" THEN "in_process"
  ELSE ParseWord(key, word)

SpecOk(list, word) ==
  \/ list = "local_engines" /\ LocalEngineSpecOk(word)
  \/ list = "remote_backends" /\ RemoteBackendSpecOk(word)
  \/ list = "exposed_models" /\ ExposedModelSpecOk(word)
SpecEntry(list, word) ==
  CASE list = "local_engines" -> LocalEngineSpec(word)
    [] list = "remote_backends" -> RemoteBackendSpec(word)
    [] list = "exposed_models" -> ExposedModelSpec(word)

-----------------------------------------------------------------------------
(* Validation and the default model. *)

Positive(number) == number \notin {"-1", "0"}

ValidLocal(c) ==
  /\ \A k \in {"context_size", "batch_size", "sidecar_timeout_seconds",
               "sidecar_connect_timeout_seconds"} : Positive(c[k])
  /\ IsSidecar(c.execution_mode) => c.sidecar_base_url # ""

ValidCloud(c) ==
  /\ \A k \in {"timeout_seconds", "connect_timeout_seconds"} : Positive(c[k])
  /\ \A k \in {"retry_attempts", "retry_backoff_ms"} : c[k] # "-1"

Valid(c) ==
  /\ Positive(c.daemon.port) /\ c.daemon.port # "70000"
  /\ Positive(c.generation.max_completion_tokens)
  /\ Positive(c.router.max_estimated_tokens)
  /\ ValidLocal(c.local) /\ ValidCloud(c.cloud)
  /\ \A i \in DOMAIN c.local_engines : ValidLocal(c.local_engines[i])
  /\ \A i \in DOMAIN c.remote_backends : ValidCloud(c.remote_backends[i])

\* add_or_update_exposed_model: the first model of that id takes what the entry says.
Merged(model, entry) ==
  [k \in DOMAIN model |->
     IF entry[k] = "" \/ (k = "route_target" /\ entry[k] = "auto")
     THEN model[k] ELSE entry[k]]
AddOrUpdate(models, entry) ==
  IF \E i \in DOMAIN models : models[i].id = entry.id
  THEN LET first == CHOOSE i \in DOMAIN models :
                      /\ models[i].id = entry.id
                      /\ \A j \in 1 .. (i - 1) : models[j].id # entry.id
       IN [models EXCEPT ![first] = Merged(@, entry)]
  ELSE Append(models, entry)

DefaultPublicModel(cfg) ==
  [ModelDefaults EXCEPT !.id = cfg.daemon.public_model_alias,
                        !.display_name = "Seceda default route"]

-----------------------------------------------------------------------------
NoSelection == [path |-> "", explicit |-> FALSE, disable |-> FALSE]

StartupInit ==
  /\ launch \in Launches
  /\ step = "scan"
  /\ at = 1
  /\ selection = NoSelection
  /\ environ = launch.env
  /\ config = DaemonDefaults

Stop(how) == step' = how /\ UNCHANGED <<launch, at, selection, environ, config>>

IsHelp(text) == text \in {"--help", "-h"}
IsConfig(text) == ~IsHelp(text) /\ Begins(text, "--config")

ScanHelp == /\ step = "scan" /\ at <= Len(launch.argv)
            /\ IsHelp(Text(launch.argv[at]))
            /\ Stop("help")

ScanConfig ==
  /\ step = "scan" /\ at <= Len(launch.argv)
  /\ IsConfig(Text(launch.argv[at]))
  /\ ~selection.disable /\ HasNext(launch.argv, at)
  /\ selection' = [selection EXCEPT !.path = NextValue(launch.argv, at), !.explicit = TRUE]
  /\ at' = After(launch.argv, at)
  /\ UNCHANGED <<launch, step, environ, config>>

ScanNoConfig ==
  /\ step = "scan" /\ at <= Len(launch.argv)
  /\ Text(launch.argv[at]) = "--no-config"
  /\ ~selection.explicit
  /\ selection' = [selection EXCEPT !.disable = TRUE]
  /\ at' = at + 1
  /\ UNCHANGED <<launch, step, environ, config>>

\* The two are not combined, and --config wants a value.
ScanRefused ==
  /\ step = "scan" /\ at <= Len(launch.argv)
  /\ \/ IsConfig(Text(launch.argv[at]))
          /\ (selection.disable \/ ~HasNext(launch.argv, at))
     \/ Text(launch.argv[at]) = "--no-config" /\ selection.explicit
  /\ Stop("refused")

ScanOther ==
  /\ step = "scan" /\ at <= Len(launch.argv)
  /\ LET text == Text(launch.argv[at])
     IN ~IsHelp(text) /\ ~IsConfig(text) /\ text # "--no-config"
  /\ at' = at + 1
  /\ UNCHANGED <<launch, step, selection, environ, config>>

\* The file the environment names, else the one found; a named file must exist.
SelectFile ==
  /\ step = "scan" /\ at > Len(launch.argv)
  /\ LET chosen ==
           IF selection.disable \/ selection.explicit THEN selection
           ELSE IF "SECEDA_CONFIG" \in DOMAIN environ
           THEN [selection EXCEPT !.path = environ["SECEDA_CONFIG"], !.explicit = TRUE]
           ELSE [selection EXCEPT !.path = launch.found]
     IN /\ selection' = chosen
        /\ step' = IF ~chosen.disable /\ chosen.explicit /\ chosen.path # ""
                      /\ chosen.path \notin DOMAIN launch.files
                   THEN "refused" ELSE "dotenv"
  /\ UNCHANGED <<launch, at, environ, config>>

\* The first .env file there is; a variable the environment has keeps its value.
DotenvCandidates ==
  (IF ~selection.disable /\ selection.path # "" THEN launch.dotenvs[selection.path]
   ELSE << >>) \o launch.here

LoadDotenv ==
  /\ step = "dotenv"
  /\ IF DotenvCandidates = << >> THEN step' = "file" /\ UNCHANGED environ
     ELSE LET dotenv == DotenvCandidates[1]
          IN IF dotenv.valid
             THEN /\ step' = "file"
                  /\ environ' = [v \in DOMAIN environ \cup DOMAIN dotenv.vars |->
                                   IF v \in DOMAIN environ THEN environ[v]
                                   ELSE dotenv.vars[v]]
             ELSE step' = "refused" /\ UNCHANGED environ
  /\ UNCHANGED <<launch, at, selection, config>>

ApplyFile ==
  /\ step = "file"
  /\ LET file == launch.files[selection.path]
     IN IF selection.disable \/ selection.path = ""
        THEN step' = "parse" /\ UNCHANGED config
        ELSE IF ConfigFileOk(file)
        THEN step' = "parse" /\ config' = ApplyConfigFile(file, config)
        ELSE step' = "refused" /\ UNCHANGED config
  /\ at' = 1
  /\ UNCHANGED <<launch, selection, environ>>

\* --config and its value, or --no-config, once more
SkipConfig ==
  /\ step = "parse" /\ at <= Len(launch.argv)
  /\ \/ IsConfig(Text(launch.argv[at])) /\ HasNext(launch.argv, at)
          /\ at' = After(launch.argv, at)
     \/ Text(launch.argv[at]) = "--no-config" /\ at' = at + 1
  /\ UNCHANGED <<launch, step, selection, environ, config>>

\* The word at hand is an option with a value.
AtOption ==
  /\ step = "parse" /\ at <= Len(launch.argv)
  /\ LET text == Text(launch.argv[at])
     IN ~IsHelp(text) /\ ~IsConfig(text) /\ text # "--no-config" /\ Known(text)
  /\ HasNext(launch.argv, at)

SetOption ==
  /\ AtOption
  /\ LET option == Dispatch(Text(launch.argv[at]))
         value == OptionValue(option[2], option[3], NextValue(launch.argv, at))
     IN /\ Len(option) = 3
        /\ value # Rejected
        /\ config' = [config EXCEPT ![option[2]][option[3]] = value]
  /\ at' = After(launch.argv, at)
  /\ UNCHANGED <<launch, step, selection, environ>>

AppendSpec ==
  /\ AtOption
  /\ LET option == Dispatch(Text(launch.argv[at]))
         word == NextValue(launch.argv, at)
     IN /\ Len(option) = 2
        /\ SpecOk(option[2], word)
        /\ config' = [config EXCEPT ![option[2]] = Append(@, SpecEntry(option[2], word))]
  /\ at' = After(launch.argv, at)
  /\ UNCHANGED <<launch, step, selection, environ>>

\* An unknown word, an option without its value, a value that does not parse.
RefuseWord ==
  /\ step = "parse" /\ at <= Len(launch.argv)
  /\ LET text == Text(launch.argv[at])
         option == Dispatch(text)
     IN /\ ~IsHelp(text) /\ text # "--no-config"
        /\ \/ ~HasNext(launch.argv, at) /\ (IsConfig(text) \/ Known(text))
           \/ ~IsConfig(text) /\ ~Known(text)
           \/ /\ AtOption
              /\ IF Len(option) = 3
                 THEN OptionValue(option[2], option[3], NextValue(launch.argv, at)) = Rejected
                 ELSE ~SpecOk(option[2], NextValue(launch.argv, at))
  /\ Stop("refused")

\* --help ends the parse too, should the scan have taken it for a value.
HelpAfterAll ==
  /\ step = "parse" /\ at <= Len(launch.argv)
  /\ IsHelp(Text(launch.argv[at]))
  /\ Stop("help")

Finish ==
  /\ step = "parse" /\ at > Len(launch.argv)
  /\ IF Valid(config)
     THEN LET keyed == IF "SECEDA_CLOUD_API_KEY" \in DOMAIN environ
                       THEN [config EXCEPT !.cloud.api_key = environ["SECEDA_CLOUD_API_KEY"]]
                       ELSE config
          IN /\ step' = "started"
             /\ config' = [keyed EXCEPT
                  !.exposed_models = AddOrUpdate(@, DefaultPublicModel(keyed))]
     ELSE step' = "refused" /\ UNCHANGED config
  /\ UNCHANGED <<launch, at, selection, environ>>

StartupNext ==
  \/ ScanHelp \/ ScanConfig \/ ScanNoConfig \/ ScanRefused \/ ScanOther
  \/ SelectFile \/ LoadDotenv \/ ApplyFile
  \/ SkipConfig \/ SetOption \/ AppendSpec \/ RefuseWord \/ HelpAfterAll \/ Finish

StartupSpec == StartupInit /\ [][StartupNext]_startupVars

-----------------------------------------------------------------------------
(* Where each setting comes from. *)

\* The places of the options of the command line, those of values left out.
IsOptionAt[i \in Nat] ==
  \/ i = 1
  \/ i > 1 /\ IsOptionAt[i - 1]
       /\ (launch.argv[i - 1].value # NoValue \/ Text(launch.argv[i - 1]) = "--no-config")
  \/ i > 2 /\ IsOptionAt[i - 2]
       /\ launch.argv[i - 2].value = NoValue /\ Text(launch.argv[i - 2]) # "--no-config"

GivesFlag(i, flag) ==
  i \in DOMAIN launch.argv /\ IsOptionAt[i] /\ launch.argv[i].name = flag

\* The help text's "Config precedence: built-in defaults, TOML file, environment,
\* CLI overrides": a documented flag's last value is what its setting holds.
CommandLineWins ==
  step = "started" =>
    \A o \in {Options[i] : i \in DOMAIN Options} : Len(o) = 3 =>
      \A i \in DOMAIN launch.argv :
        /\ GivesFlag(i, o[1])
        /\ \A j \in DOMAIN launch.argv : j > i => ~GivesFlag(j, o[1])
        => config[o[2]][o[3]] = OptionValue(o[2], o[3], NextValue(launch.argv, i))
=============================================================================
