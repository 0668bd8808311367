-------------------------- MODULE MCRuntimeConfig --------------------------
(***************************************************************************)
(* Launches of the daemon for TLC: every branch of the startup, the two    *)
(* places a file comes from, and a deployment with named backends.         *)
(***************************************************************************)
EXTENDS RuntimeConfig

Word(w) == [name |-> w, value |-> NoValue]
Set(flag, v) == [name |-> flag, value |-> v]

Empty == [k \in {} |-> ""]

Str(token) == <<"string", token>>
Number(token) == <<"integer", token>>

PlainFile ==
  [readable |-> TRUE, tables |-> Empty,
   active |-> "", hasEngines |-> FALSE, engines |-> << >>,
   default |-> "", hasBackends |-> FALSE, backends |-> << >>,
   hasExposed |-> FALSE, exposed |-> << >>]

\* The shipped shape: two backends, one of them the default, and a model catalog.
Fleet ==
  [PlainFile EXCEPT
    !.tables = [daemon |-> [port |-> Number("1")], router |-> [max_prompt_chars |-> Number("1")]],
    !.active = "llama",
    !.hasEngines = TRUE,
    !.engines = <<[name |-> "llama", items |-> [model_path |-> Str("m.gguf")]],
                  [name |-> "side", items |-> [execution_mode |-> Str("sidecar"),
                                               sidecar_base_url |-> Str("http://s")]]>>,
    !.default = "fast",
    !.hasBackends = TRUE,
    !.backends =
      <<[name |-> "fast", items |-> [backend_id |-> Str("b/fast"), base_url |-> Str("http://f"),
                                     model_alias |-> Str("remote/fast")]],
        [name |-> "idle", items |-> [backend_id |-> Str("b/idle"),
                                     model_alias |-> Str("remote/idle")]],
        [name |-> "slow", items |-> [backend_id |-> Str("b/slow"), base_url |-> Str("http://w"),
                                     model_alias |-> Str("remote/slow")]]>>,
    !.hasExposed = TRUE,
    !.exposed = <<[id |-> Str("house"), route_target |-> Str("remote"),
                   backend_id |-> Str("b/slow")]>>]

Files ==
  [path \in {"fleet.toml", "torn.toml", "wide.toml", "odd.toml", "orphan.toml", "empty.toml"} |->
     CASE path = "fleet.toml" -> Fleet
       [] path = "torn.toml" -> [PlainFile EXCEPT !.readable = FALSE]
       [] path = "wide.toml" ->
            [PlainFile EXCEPT !.tables = [daemon |-> [port |-> Number(Beyond32)]]]
       [] path = "odd.toml" ->
            [PlainFile EXCEPT !.tables = [daemon |-> [port |-> Str("1")]]]
       [] path = "orphan.toml" ->
            [PlainFile EXCEPT !.active = "none", !.hasEngines = TRUE,
                              !.engines = <<[name |-> "llama", items |-> Empty]>>]
       [] path = "empty.toml" -> [PlainFile EXCEPT !.hasBackends = TRUE]]

MCSpecs ==
  [w \in {"side", "remote", "model", "keyless", "nowhere", "toml"} |->
     CASE w = "side" -> [engine_id |-> "e", execution_mode |-> "sidecar",
                         sidecar_base_url |-> "http://s"]
       [] w = "remote" -> [backend_id |-> "b/spec", base_url |-> "http://r",
                           model_alias |-> "remote/spec"]
       [] w = "model" -> [id |-> "seceda/default", route |-> "local"]
       [] w = "keyless" -> [display_name |-> "no id"]
       [] w = "toml" -> [id |-> "house", route_target |-> "local"]
       [] w = "nowhere" -> [execution_mode |-> "sidecar"]]

Bare ==
  [argv |-> << >>, env |-> Empty, files |-> Files, found |-> "",
   dotenvs |-> [p \in DOMAIN Files \cup {"missing.toml", "--help"} |-> << >>],
   here |-> << >>]

With(words) == [Bare EXCEPT !.argv = words]

Dotenv(valid) ==
  [valid |-> valid, vars |-> [SECEDA_CLOUD_API_KEY |-> "from dotenv"]]

\* Command lines of the options the parser knows, well used.
GoodLaunches ==
  {Bare, [Bare EXCEPT !.found = "fleet.toml"],
   [Bare EXCEPT !.env = [SECEDA_CONFIG |-> "fleet.toml"]],
   With(<<Set("--config", "fleet.toml"), Set("--port", "1"), Word("--host"), Word("h")>>),
   With(<<Word("--config"), Word("wide.toml"), Set("--hostess", "h")>>),
   With(<<Word("--no-config"), Set("--local-execution-mode", ""),
          Set("--n-threads-batch", "1"), Word("--n-threads"), Word("-1")>>),
   With(<<Set("--exposed-model", "model"), Set("--local-engine", "side"),
          Set("--remote-backend", "remote"), Set("--cloud-verify-tls", "0")>>),
   [With(<<Set("--cloud-base-url", "http://c")>>) EXCEPT !.here = <<Dotenv(TRUE)>>],
   [With(<<Set("--config", "fleet.toml")>>) EXCEPT
      !.dotenvs["fleet.toml"] = <<Dotenv(TRUE)>>,
      !.env = [SECEDA_CLOUD_API_KEY |-> "from env"]]}

\* Command lines and files that stop the daemon before it starts.
BadLaunches ==
  {With(<<Word("--help")>>), With(<<Word("--port"), Word("70000")>>),
   With(<<Set("--port", Beyond32)>>), With(<<Word("--prot"), Word("1")>>),
   With(<<Word("--port")>>), With(<<Word("--config")>>),
   With(<<Word("--no-config"), Set("--config", "fleet.toml")>>),
   With(<<Set("--config", "fleet.toml"), Word("--no-config")>>),
   With(<<Set("--config", "missing.toml")>>), With(<<Set("--config", "torn.toml")>>),
   With(<<Set("--config", "odd.toml")>>), With(<<Set("--config", "orphan.toml")>>),
   With(<<Set("--config", "empty.toml")>>), With(<<Set("--exposed-model", "toml")>>),
   With(<<Set("--exposed-model", "keyless")>>), With(<<Set("--local-engine", "nowhere")>>),
   With(<<Word("--host"), Word("--config"), Word("--help"), Set("--config", "fleet.toml")>>),
   [Bare EXCEPT !.here = <<Dotenv(FALSE)>>]}

\* A command line that names the cloud model's alias, as the catalog documents.
AliasLaunch ==
  With(<<Set("--cloud-model", "served"), Set("--cloud-model-alias", "remote/served")>>)
FlagLaunches == {AliasLaunch}
=============================================================================
