--------------------------- MODULE MCChatService ---------------------------
(***************************************************************************)
(* Pairs of a launch and a request body for TLC: every launch with a plain *)
(* request for each kind of model, every way a body can be wrong, and, in  *)
(* three deployments, streams with all that changes them.                  *)
(***************************************************************************)
EXTENDS ChatService, MCRuntimeConfig

\* Characters, and the halves of one that takes two bytes.
MCCharacters == {"a", "b", "x"}
MCPieces == {<<"a">>, <<"b">>, <<"a", "b">>, <<"x">>}

\* The texts of n bytes that are UTF-8, and those of up to six that are not.
Utf8[n \in 0 .. 6] ==
  IF n = 0 THEN {<< >>}
  ELSE {Append(t, c) : t \in Utf8[n - 1], c \in {"a", "b"}}
       \cup (IF n = 1 THEN {} ELSE {t \o <<"x", "x">> : t \in Utf8[n - 2]})
MCGarbled == UNION {[1 .. n -> MCCharacters] \ Utf8[n] : n \in 0 .. 6}

MCStops == {{}, {<<"b">>}, {<<"a", "b">>, <<"b", "b", "b">>}, {<< >>}}
MCLimits == {"-1", "0", "1", "128", "70000"}
MCAmounts ==
  [t \in MCLimits |->
     CASE t = "-1" -> -1 [] t = "0" -> 0 [] t = "1" -> 1 [] t = "128" -> 3
       [] t = "70000" -> 9]

MCJobs ==
  [mode : {"buffered", "stream"}, stops : MCStops,
   limit : {MCAmounts[t] : t \in MCLimits}, prompt : {1}]

MCClaims ==
  [t \in {"chat.completions,text,stream", "tools"} |-> {t} \cap {"tools"}]

MCCloudPieces == {<<"a">>, <<"b">>}

\* Bodies.
Says(speaker, marks) ==
  [role |-> <<"string", speaker>>, content |-> <<"string", marks>>]
Asks(messages) == [messages |-> <<"array", messages>>]
Plain == Asks(<<Says("user", {"text"})>>)
Adds(b, key, value) == [k \in DOMAIN b \cup {key} |-> IF k = key THEN value ELSE b[k]]

\* A request that ends as soon as it is served.
Short(b) == Adds(b, "max_completion_tokens", <<"integer", "0">>)
For(model) == Short(Adds(Plain, "model", <<"string", model>>))

Models ==
  {"remote/default", "remote/fast", "remote/slow", "remote/idle", "remote/spec",
   "local/default", "house", "seceda/default", ""}
AliasBodies == {For(model) : model \in Models} \cup {Short(Plain)}

ToolBodies ==
  {Adds(Short(Plain), "tools", <<"array", "[tool]">>),
   Adds(For("local/default"), "response_format", <<"object", "schema">>)}

BadBodies ==
  {NotAnObject, Adds(Plain, "messages", <<"object", "">>),
   Asks(<<Says("narrator", {"text"})>>), Asks(<<[role |-> <<"string", "user">>]>>),
   Asks(<<[role |-> <<"string", "user">>,
           content |-> <<"array", <<<<"text", {"text"}>>, <<"image_url", {}>>>>>>]>>),
   Adds(Plain, "model", <<"string", "nobody">>),
   Adds(Plain, "stream", <<"string", "true">>),
   Adds(Adds(Plain, "max_tokens", <<"integer", "1">>),
        "max_completion_tokens", <<"integer", "0">>),
   Adds(Plain, "stop", <<"array", <<<<"number", "1">>>>>>),
   Adds(Plain, "tool_choice", <<"number", "1">>)}

\* Taken, though they say nothing or little.
OddBodies ==
  {Asks(<< >>), Asks(<<Says("user", {})>>),
   Short(Asks(<<[role |-> <<"string", "user">>, content |-> <<"null", {}>>],
                Says("tool", {"text"})>>)),
   Adds(Adds(Plain, "max_tokens", <<"integer", Beyond32>>),
        "max_completion_tokens", <<"integer", "1">>),
   Short(Asks(<<Says("user", {"complexity_hint"}), Says("user", {"freshness_hint"})>>))}

Streamed(b) == Adds(b, "stream", <<"boolean", "true">>)

\* Long enough for a stop sequence over three tokens: llama.cpp alone.
TwoStops == <<"array", <<<<"string", <<"a", "b">>>>, <<"string", <<"b", "b", "b">>>>>>>>
StopBodies ==
  {Streamed(Plain), Streamed(Adds(Plain, "stop", <<"string", <<"b">>>>)),
   Streamed(Adds(Plain, "stop", TwoStops)), Adds(Plain, "stop", TwoStops),
   Streamed(Adds(Plain, "stop", <<"string", << >>>>))}

\* One token: both backends, one after the other.
Brief(b) == Streamed(Adds(b, "max_tokens", <<"integer", "1">>))
Hinted == Brief(Asks(<<Says("user", {"complexity_hint"})>>))
StreamBodies ==
  {Brief(Plain), Brief(Adds(Plain, "include_usage", <<"boolean", "true">>)),
   Streamed(Adds(Plain, "max_tokens", <<"integer", "70000">>)),
   Brief(Adds(Plain, "tools", <<"array", "[tool]">>)),
   Hinted, Streamed(Asks(<< >>))}

\* Deployments: both backends, one of them, none.
OnlyLocal == With(<<Set("--model-path", "m.gguf")>>)
OnlyCloud == With(<<Set("--cloud-base-url", "http://c")>>)
Both == With(<<Set("--model-path", "m.gguf"), Set("--cloud-base-url", "http://c")>>)

MCLaunches == GoodLaunches \cup BadLaunches \cup {OnlyLocal, OnlyCloud, Both}
MCBodies ==
  {Plain} \cup AliasBodies \cup ToolBodies \cup BadBodies \cup OddBodies
  \cup StopBodies \cup StreamBodies
MCScenarios ==
  (GoodLaunches \X AliasBodies) \cup (BadLaunches \X {Plain})
  \cup ({Both} \X (BadBodies \cup OddBodies \cup ToolBodies \cup StreamBodies))
  \cup ({Bare, OnlyLocal, OnlyCloud} \X (ToolBodies \cup {Brief(Plain), Hinted}))
  \cup ({OnlyLocal} \X StopBodies)
=============================================================================
