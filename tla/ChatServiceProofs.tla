------------------------- MODULE ChatServiceProofs -------------------------
(***************************************************************************)
(* Theorems about ChatService, for any launches, bodies, pieces and        *)
(* backends: what a client is sent is a readable stream that tells the     *)
(* answer unless an exception cuts it, the alias of a backend leads to it, *)
(* and what is proved of a generation holds of the one a request runs.     *)
(***************************************************************************)
EXTENDS ChatService, LlamaGenerationProofs

Chunks ==
  [kind : {"role", "finish", "error", "usage", "done"}]
  \cup [kind : {"content", "tools"}, text : Texts]

\* What the callbacks write: the role, then deltas.
IsBody(chunks) ==
  /\ chunks \in Seq(Chunks)
  /\ \A i \in 1 .. Len(chunks) :
       IF i = 1 THEN chunks[i].kind = "role" ELSE chunks[i].kind \in {"content", "tools"}

IsStream(chunks) == chunks \in Seq(Chunks) /\ InOrder(chunks) /\ OpensWell(chunks)

-----------------------------------------------------------------------------
(* The invariant *)

IsEntry(entry) ==
  /\ DOMAIN entry = DOMAIN ModelDefaults
  /\ entry.route_target \in {"auto", "local", "cloud"}

IsCatalog(models) == IsSequence(models) /\ \A i \in DOMAIN models : IsEntry(models[i])

WellShaped(cfg) ==
  /\ DOMAIN cfg = DOMAIN DaemonDefaults
  /\ DOMAIN cfg.generation = DOMAIN DaemonDefaults.generation
  /\ cfg.generation.max_completion_tokens \in DOMAIN Amounts
  /\ IsSequence(cfg.remote_backends)
  /\ IsCatalog(cfg.exposed_models)

\* The startup keeps the configuration's shape, and reads only a file there is.
SelectionInv ==
  /\ launch \in Launches
  /\ DOMAIN selection = DOMAIN NoSelection
  /\ selection.explicit \in BOOLEAN /\ selection.disable \in BOOLEAN
  /\ step \in {"dotenv", "file"} /\ ~selection.disable /\ selection.path # ""
       => selection.path \in DOMAIN launch.files

ConfigInv == SelectionInv /\ WellShaped(config)

\* Where a request stands, and what has not happened before it stands there.
PhaseInv ==
  /\ role \in BOOLEAN /\ gone \in BOOLEAN
  /\ restarted \in BOOLEAN /\ altered \in BOOLEAN /\ garbled \in BOOLEAN
  /\ cloud \in [text : Texts, tools : Texts]
  /\ phase \in {"boot", "parse", "route", "local", "cloud", "writing", "closed", "threw"}
  /\ phase \in {"boot", "parse"} => verdict = "none"
  /\ phase \in {"boot", "parse"} => ~role
  /\ phase \in {"boot", "parse", "route"} => wire = << >> /\ ~gone
  /\ phase \in {"route", "local", "cloud", "writing"} => verdict = "accepted"
  /\ phase = "local" => job = JobOf(request)
  /\ phase = "cloud" => "cloud" \in tried
  /\ "cloud" \notin tried => cloud = NoAnswer /\ ~restarted /\ ~altered
  /\ IF phase = "writing" THEN pending # << >> /\ ~gone ELSE pending = << >>

RequestInv ==
  /\ body \in Bodies
  /\ verdict = "accepted" => JobOf(request) \in Jobs

\* What a stream has told, and what it will have told with the chunks to come.
WireInv ==
  Streaming =>
    /\ phase \in {"route", "local", "cloud", "threw"} =>
         IsBody(wire) /\ (role <=> wire # << >>)
    /\ phase = "local" /\ gone => gpc = "done"
    /\ phase = "local" /\ ~gone =>
         Told("content", wire) = heard /\ Told("tools", wire) = << >>
    /\ phase = "cloud" /\ ~gone /\ ~restarted =>
         /\ Told("content", wire) = cloud.text
         /\ ~altered => Told("tools", wire) = cloud.tools
         /\ role => cloud # NoAnswer
    /\ wire \in Seq(Chunks) /\ pending \in Seq(Chunks)
    /\ IsStream(wire \o pending)
    /\ phase \in {"writing", "closed"} /\ ~gone =>
         EndsWell(wire \o pending) /\ TellsTheAnswer(wire \o pending)

\* Which backend has the request, and which one may still get it.
TurnInv ==
  /\ tried \subseteq {"local", "cloud"}
  /\ tried # {} => Target \in tried
  /\ tried = {"local", "cloud"} => request.override = "auto"
  /\ verdict # "accepted" => tried = {} /\ ~response.ok
  /\ verdict = "accepted" => request.override \in {"auto", "local", "cloud"}
  /\ phase = "route" =>
       /\ ~role /\ ~response.ok /\ tried # {"local", "cloud"}
       /\ tried # {} => request.override = "auto"
  /\ phase \in {"local", "cloud"} => phase \in tried /\ Speaker = phase /\ ~response.ok
  /\ response.ok => tried # {}
  /\ ~Streaming => ~role
  /\ phase = "writing" =>
       /\ Streaming
       /\ ~response.ok => pending \in {<<Chunk("error"), Chunk("done")>>, <<Chunk("done")>>}

ServiceInv ==
  GenerationInv /\ ConfigInv /\ PhaseInv /\ RequestInv /\ WireInv
  /\ AliasReachesItsBackend /\ TurnInv

-----------------------------------------------------------------------------
(* What chunks tell *)

LEMMA LeastExists ==
  ASSUME NEW S \in SUBSET Nat, S # {}
  PROVE  \E x \in S : \A y \in S : x <= y
<1>1. PICK x \in S : \A y \in S : ~ (<<y, x>> \in OpToRel(<, Nat))
  BY WFMin, NatLessThanWellFounded, Zenon
<1>2. \A y \in S : ~ (y < x)
  BY <1>1, Zenon DEF OpToRel
<1> QED
  BY <1>2

\* The recursive function of Told, up to the place n.
IsTelling(f, kind, chunks, n) ==
  f = [m \in 0 .. n |->
         IF m = 0 THEN << >>
         ELSE IF chunks[m].kind = kind THEN f[m - 1] \o chunks[m].text ELSE f[m - 1]]

LEMMA TellingExists ==
  ASSUME NEW kind, NEW chunks, NEW n \in Nat
  PROVE  \E f : IsTelling(f, kind, chunks, n)
<1> DEFINE Bad == {m \in Nat : ~\E f : IsTelling(f, kind, chunks, m)}
<1> SUFFICES ASSUME Bad # {} PROVE FALSE
  OBVIOUS
<1>1. PICK b \in Bad : \A y \in Bad : b <= y
  <2> HIDE DEF Bad
  <2> Bad \subseteq Nat
    BY DEF Bad
  <2> QED
    BY LeastExists
<1>2. b # 0
  <2> DEFINE f == [m \in 0 .. 0 |-> << >>]
  <2>1. IsTelling(f, kind, chunks, 0)
    BY DEF IsTelling
  <2> QED
    BY <2>1
<1>3. b \in Nat /\ b - 1 \in Nat /\ b - 1 \notin Bad
  BY <1>1, <1>2
<1>4. PICK f : IsTelling(f, kind, chunks, b - 1)
  BY <1>3
<1> DEFINE last == IF chunks[b].kind = kind THEN f[b - 1] \o chunks[b].text ELSE f[b - 1]
           g == [m \in 0 .. b |-> IF m = b THEN last ELSE f[m]]
<1>5. ASSUME NEW m \in 0 .. b
      PROVE  g[m] = IF m = 0 THEN << >>
                    ELSE IF chunks[m].kind = kind THEN g[m - 1] \o chunks[m].text ELSE g[m - 1]
  <2>1. CASE m = b
    BY <1>2, <1>3, <2>1
  <2>2. CASE m # b
    <3>1. m \in 0 .. b - 1 /\ (m # 0 => m - 1 \in 0 .. b /\ m - 1 # b)
      BY <1>3, <2>2
    <3> QED
      BY <1>4, <2>2, <3>1 DEF IsTelling
  <2> QED
    BY <2>1, <2>2
<1>6. IsTelling(g, kind, chunks, b)
  BY <1>5 DEF IsTelling
<1> QED
  BY <1>6

\* It looks only at the chunks up to a place.
LEMMA TellingsAgree ==
  ASSUME NEW kind, NEW c, NEW d, NEW n \in Nat, NEW m \in Nat, n <= m,
         \A i \in 1 .. n : c[i] = d[i],
         NEW f, IsTelling(f, kind, c, n), NEW g, IsTelling(g, kind, d, m)
  PROVE  \A i \in 0 .. n : f[i] = g[i]
<1> DEFINE Bad == {i \in 0 .. n : f[i] # g[i]}
<1> SUFFICES ASSUME Bad # {} PROVE FALSE
  OBVIOUS
<1>1. PICK b \in Bad : \A y \in Bad : b <= y
  <2> HIDE DEF Bad
  <2> Bad \subseteq Nat
    BY DEF Bad
  <2> QED
    BY LeastExists
<1>2. b \in 0 .. n /\ b \in 0 .. m
  OBVIOUS
<1>3. b # 0
  BY <1>2 DEF IsTelling
<1>4. b - 1 \in 0 .. n /\ b - 1 \in 0 .. m /\ b \in 1 .. n /\ f[b - 1] = g[b - 1]
  BY <1>1, <1>2, <1>3
<1>5. f[b] = IF c[b].kind = kind THEN f[b - 1] \o c[b].text ELSE f[b - 1]
  BY <1>2, <1>3 DEF IsTelling
<1>6. g[b] = IF d[b].kind = kind THEN g[b - 1] \o d[b].text ELSE g[b - 1]
  BY <1>2, <1>3 DEF IsTelling
<1>7. f[b] = g[b]
  BY <1>4, <1>5, <1>6
<1> QED
  BY <1>7

LEMMA ToldIsTelling ==
  ASSUME NEW kind, NEW chunks, Len(chunks) \in Nat
  PROVE  \E f : IsTelling(f, kind, chunks, Len(chunks)) /\ Told(kind, chunks) = f[Len(chunks)]
<1> DEFINE f == CHOOSE g : IsTelling(g, kind, chunks, Len(chunks))
<1>1. IsTelling(f, kind, chunks, Len(chunks))
  BY TellingExists, Zenon
<1>2. Told(kind, chunks) = f[Len(chunks)]
  BY Zenon DEF Told, IsTelling
<1> QED
  BY <1>1, <1>2

LEMMA ToldEmpty ==
  ASSUME NEW kind PROVE Told(kind, << >>) = << >>
<1>1. Len(<< >>) = 0
  BY EmptySeq
<1>2. PICK f : IsTelling(f, kind, << >>, 0) /\ Told(kind, << >>) = f[0]
  BY <1>1, ToldIsTelling
<1> QED
  BY <1>2 DEF IsTelling

LEMMA ToldAppend ==
  ASSUME NEW kind, NEW w \in Seq(Chunks), NEW c \in Chunks
  PROVE  Told(kind, Append(w, c)) =
           IF c.kind = kind THEN Told(kind, w) \o c.text ELSE Told(kind, w)
<1> DEFINE v == Append(w, c)
           n == Len(w)
<1>1. n \in Nat /\ Len(v) = n + 1 /\ v[n + 1] = c /\ \A i \in 1 .. n : w[i] = v[i]
  BY AppendProperties, LenProperties
<1>2. PICK f : IsTelling(f, kind, w, n) /\ Told(kind, w) = f[n]
  BY <1>1, ToldIsTelling
<1> HIDE DEF v, n
<1>3. PICK g : IsTelling(g, kind, v, n + 1) /\ Told(kind, v) = g[n + 1]
  <2>1. Len(v) \in Nat
    BY <1>1
  <2>2. \E g : IsTelling(g, kind, v, Len(v)) /\ Told(kind, v) = g[Len(v)]
    BY <2>1, ToldIsTelling
  <2> QED
    BY <1>1, <2>2
<1>4. f[n] = g[n]
  <2> DEFINE k == n + 1
  <2>1. n \in Nat /\ k \in Nat /\ n <= k /\ n \in 0 .. n
    BY <1>1
  <2>2. IsTelling(f, kind, w, n) /\ IsTelling(g, kind, v, k)
    BY <1>2, <1>3
  <2>3. \A i \in 1 .. n : w[i] = v[i]
    BY <1>1
  <2> HIDE DEF k
  <2>4. \A i \in 0 .. n : f[i] = g[i]
    BY <2>1, <2>2, <2>3, TellingsAgree
  <2> QED
    BY <2>1, <2>4
<1>5. g[n + 1] = IF c.kind = kind THEN g[n] \o c.text ELSE g[n]
  <2>1. n + 1 \in 0 .. n + 1 /\ n + 1 # 0 /\ (n + 1) - 1 = n
    BY <1>1
  <2> QED
    BY <1>1, <1>3, <2>1 DEF IsTelling
<1> QED
  BY <1>2, <1>3, <1>4, <1>5 DEF v

LEMMA ToldIsText ==
  ASSUME NEW kind \in {"content", "tools"}, NEW w \in Seq(Chunks)
  PROVE  Told(kind, w) \in Texts
<1> DEFINE n == Len(w)
<1>1. n \in Nat /\ \A i \in 1 .. n : w[i] \in Chunks
  BY LenProperties, ElementOfSeq
<1>2. PICK f : IsTelling(f, kind, w, n) /\ Told(kind, w) = f[n]
  BY <1>1, ToldIsTelling
<1> HIDE DEF n
<1> DEFINE Bad == {i \in 0 .. n : f[i] \notin Texts}
<1> SUFFICES ASSUME Bad # {} PROVE FALSE
  BY <1>1, <1>2
<1>3. PICK b \in Bad : \A y \in Bad : b <= y
  <2>1. Bad \subseteq Nat
    BY <1>1
  <2> HIDE DEF Bad
  <2> QED
    BY <2>1, LeastExists
<1>4. b \in 0 .. n
  OBVIOUS
<1>5. b # 0
  <2>1. f[0] = << >>
    BY <1>1, <1>2 DEF IsTelling
  <2> QED
    BY <2>1, EmptySeq DEF Texts
<1>6. b - 1 \in 0 .. n /\ b \in 1 .. n /\ f[b - 1] \in Texts
  BY <1>1, <1>3, <1>4, <1>5
<1>7. f[b] = IF w[b].kind = kind THEN f[b - 1] \o w[b].text ELSE f[b - 1]
  BY <1>2, <1>4, <1>5 DEF IsTelling
<1>8. w[b].kind = kind => w[b].text \in Texts
  BY <1>1, <1>6 DEF Chunks
<1>9. f[b] \in Texts
  BY <1>6, <1>7, <1>8, ConcatProperties DEF Texts
<1> QED
  BY <1>9

LEMMA ChunkTypes ==
  /\ \A kind \in {"role", "finish", "error", "usage", "done"} :
       Chunk(kind) \in Chunks /\ Chunk(kind).kind = kind
  /\ \A t \in Texts :
       /\ Content(t) \in Chunks /\ Content(t).kind = "content" /\ Content(t).text = t
       /\ ToolCalls(t) \in Chunks /\ ToolCalls(t).kind = "tools" /\ ToolCalls(t).text = t
BY DEF Chunk, Content, ToolCalls, Chunks

LEMMA OneChunk ==
  ASSUME NEW c \in Chunks, NEW w \in Seq(Chunks)
  PROVE  <<c>> \in Seq(Chunks) /\ w \o <<c>> = Append(w, c) /\ w \o <<c>> \in Seq(Chunks)
BY AppendIsConcat, AppendProperties

\* The empty deltas are not sent.
LEMMA ToldDeltas ==
  ASSUME NEW w \in Seq(Chunks), NEW t \in Texts
  PROVE  /\ Contents(t) \in Seq(Chunks) /\ Tools(t) \in Seq(Chunks)
         /\ Told("content", w \o Contents(t)) = Told("content", w) \o t
         /\ Told("tools", w \o Contents(t)) = Told("tools", w)
         /\ Told("tools", w \o Tools(t)) = Told("tools", w) \o t
         /\ Told("content", w \o Tools(t)) = Told("content", w)
<1>0. Told("content", w) \in Texts /\ Told("tools", w) \in Texts
  BY ToldIsText
<1>1. CASE t = << >>
  <2>1. Contents(t) = << >> /\ Tools(t) = << >>
    BY <1>1 DEF Contents, Tools
  <2>2. w \o << >> = w /\ Told("content", w) \o t = Told("content", w)
        /\ Told("tools", w) \o t = Told("tools", w)
    BY <1>0, <1>1, ConcatEmptySeq DEF Texts
  <2> QED
    BY <2>1, <2>2, EmptySeq
<1>2. CASE t # << >>
  <2>1. Contents(t) = <<Content(t)>> /\ Tools(t) = <<ToolCalls(t)>>
    BY <1>2 DEF Contents, Tools
  <2>2. /\ Contents(t) \in Seq(Chunks) /\ Tools(t) \in Seq(Chunks)
        /\ w \o Contents(t) = Append(w, Content(t))
        /\ w \o Tools(t) = Append(w, ToolCalls(t))
    BY <2>1, OneChunk, ChunkTypes
  <2>3. /\ Told("content", Append(w, Content(t))) = Told("content", w) \o t
        /\ Told("tools", Append(w, Content(t))) = Told("tools", w)
    <3>1. /\ Content(t) \in Chunks /\ Content(t).text = t
          /\ Content(t).kind = "content" /\ Content(t).kind # "tools"
      BY ChunkTypes
    <3> QED
      BY <3>1, ToldAppend, Zenon
  <2>4. /\ Told("tools", Append(w, ToolCalls(t))) = Told("tools", w) \o t
        /\ Told("content", Append(w, ToolCalls(t))) = Told("content", w)
    <3>1. /\ ToolCalls(t) \in Chunks /\ ToolCalls(t).text = t
          /\ ToolCalls(t).kind = "tools" /\ ToolCalls(t).kind # "content"
      BY ChunkTypes
    <3> QED
      BY <3>1, ToldAppend, Zenon
  <2> QED
    BY <2>2, <2>3, <2>4
<1> QED
  BY <1>1, <1>2

\* A chunk of another kind tells nothing.
LEMMA ToldNothing ==
  ASSUME NEW w \in Seq(Chunks), NEW kind \in {"role", "finish", "error", "usage", "done"}
  PROVE  /\ <<Chunk(kind)>> \in Seq(Chunks)
         /\ w \o <<Chunk(kind)>> \in Seq(Chunks)
         /\ Told("content", w \o <<Chunk(kind)>>) = Told("content", w)
         /\ Told("tools", w \o <<Chunk(kind)>>) = Told("tools", w)
<1>1. /\ <<Chunk(kind)>> \in Seq(Chunks) /\ w \o <<Chunk(kind)>> \in Seq(Chunks)
      /\ w \o <<Chunk(kind)>> = Append(w, Chunk(kind))
  BY OneChunk, ChunkTypes
<1>2. Chunk(kind) \in Chunks /\ Chunk(kind).kind # "content" /\ Chunk(kind).kind # "tools"
  BY ChunkTypes
<1>3. /\ Told("content", Append(w, Chunk(kind))) = Told("content", w)
      /\ Told("tools", Append(w, Chunk(kind))) = Told("tools", w)
  BY <1>2, ToldAppend, Zenon
<1> QED
  BY <1>1, <1>3

-----------------------------------------------------------------------------
(* The order of chunks *)

\* What is found at a place of two sequences put together.
LEMMA PlacesOfConcat ==
  ASSUME NEW S, NEW a \in Seq(S), NEW b \in Seq(S)
  PROVE  /\ a \o b \in Seq(S)
         /\ Len(a) \in Nat /\ Len(b) \in Nat /\ Len(a \o b) = Len(a) + Len(b)
         /\ DOMAIN a = 1 .. Len(a) /\ DOMAIN b = 1 .. Len(b)
         /\ DOMAIN (a \o b) = 1 .. Len(a) + Len(b)
         /\ \A i \in 1 .. Len(a) : (a \o b)[i] = a[i]
         /\ \A i \in Len(a) + 1 .. Len(a) + Len(b) :
              i - Len(a) \in 1 .. Len(b) /\ (a \o b)[i] = b[i - Len(a)]
<1>1. a \o b \in Seq(S) /\ Len(a) \in Nat /\ Len(b) \in Nat /\ Len(a \o b) = Len(a) + Len(b)
  BY ConcatProperties, LenProperties
<1>2. /\ DOMAIN a = 1 .. Len(a) /\ DOMAIN b = 1 .. Len(b)
      /\ DOMAIN (a \o b) = 1 .. Len(a) + Len(b)
  BY <1>1, LenProperties
<1>3. \A i \in 1 .. Len(a \o b) :
        (a \o b)[i] = IF i <= Len(a) THEN a[i] ELSE b[i - Len(a)]
  BY ConcatProperties
<1>4. \A i \in 1 .. Len(a) : (a \o b)[i] = a[i]
  BY <1>1, <1>3
<1>5. \A i \in Len(a) + 1 .. Len(a) + Len(b) :
        i - Len(a) \in 1 .. Len(b) /\ (a \o b)[i] = b[i - Len(a)]
  BY <1>1, <1>3
<1> QED
  BY <1>1, <1>2, <1>4, <1>5

LEMMA RankOf ==
  /\ Rank("role") = 1 /\ Rank("content") = 2 /\ Rank("tools") = 2
  /\ Rank("finish") = 3 /\ Rank("error") = 3 /\ Rank("usage") = 4 /\ Rank("done") = 5
BY DEF Rank

LEMMA OrderOfConcat ==
  ASSUME NEW a \in Seq(Chunks), NEW b \in Seq(Chunks), InOrder(a), InOrder(b),
         \A i \in 1 .. Len(a), j \in 1 .. Len(b) : Rank(a[i].kind) < Rank(b[j].kind)
  PROVE  InOrder(a \o b)
<1> DEFINE w == a \o b
           n == Len(a)
<1>1. /\ n \in Nat /\ Len(b) \in Nat
      /\ DOMAIN a = 1 .. n /\ DOMAIN b = 1 .. Len(b)
      /\ DOMAIN w = 1 .. n + Len(b)
      /\ \A i \in 1 .. n : w[i] = a[i]
      /\ \A i \in n + 1 .. n + Len(b) : i - n \in 1 .. Len(b) /\ w[i] = b[i - n]
  BY PlacesOfConcat
<1> HIDE DEF w, n
<1> SUFFICES ASSUME NEW i \in 1 .. n + Len(b), NEW j \in 1 .. n + Len(b), i < j
             PROVE  \/ Rank(w[i].kind) < Rank(w[j].kind)
                    \/ Rank(w[i].kind) = 2 /\ Rank(w[j].kind) = 2
  BY <1>1 DEF InOrder, w
<1>2. CASE j <= n
  <2>1. i \in 1 .. n /\ j \in 1 .. n
    BY <1>1, <1>2
  <2> QED
    BY <2>1, <1>1 DEF InOrder
<1>3. CASE i > n
  <2>1. i - n \in 1 .. Len(b) /\ j - n \in 1 .. Len(b) /\ i - n < j - n
        /\ w[i] = b[i - n] /\ w[j] = b[j - n]
    BY <1>1, <1>3
  <2>2. \A x \in 1 .. Len(b), y \in 1 .. Len(b) : x < y =>
          \/ Rank(b[x].kind) < Rank(b[y].kind)
          \/ Rank(b[x].kind) = 2 /\ Rank(b[y].kind) = 2
    BY <1>1 DEF InOrder
  <2> QED
    BY <2>1, <2>2
<1>4. CASE i <= n /\ j > n
  <2>1. i \in 1 .. n /\ w[i] = a[i] /\ j - n \in 1 .. Len(b) /\ w[j] = b[j - n]
    BY <1>1, <1>4
  <2> QED
    BY <2>1 DEF n
<1> QED
  BY <1>1, <1>2, <1>3, <1>4

\* What a client has seen when it hangs up is in order, too.
LEMMA StreamPrefix ==
  ASSUME NEW a \in Seq(Chunks), NEW b \in Seq(Chunks), IsStream(a \o b)
  PROVE  IsStream(a)
<1>1. /\ Len(a) \in Nat /\ Len(b) \in Nat
      /\ DOMAIN a = 1 .. Len(a) /\ DOMAIN (a \o b) = 1 .. Len(a) + Len(b)
      /\ \A i \in 1 .. Len(a) : (a \o b)[i] = a[i]
  BY PlacesOfConcat
<1>2. InOrder(a)
  <2> SUFFICES ASSUME NEW i \in 1 .. Len(a), NEW j \in 1 .. Len(a), i < j
               PROVE  \/ Rank(a[i].kind) < Rank(a[j].kind)
                      \/ Rank(a[i].kind) = 2 /\ Rank(a[j].kind) = 2
    BY <1>1 DEF InOrder
  <2>1. i \in DOMAIN (a \o b) /\ j \in DOMAIN (a \o b)
    BY <1>1
  <2> QED
    BY <1>1, <2>1 DEF IsStream, InOrder
<1>3. OpensWell(a)
  <2> SUFFICES ASSUME a # << >> PROVE a[1].kind \in {"role", "error"}
    BY DEF OpensWell
  <2>1. Len(a) # 0 /\ 1 \in 1 .. Len(a)
    BY <1>1, EmptySeq
  <2>2. a \o b # << >> /\ (a \o b)[1] = a[1]
    BY <1>1, <2>1, EmptySeq
  <2> QED
    BY <2>2 DEF IsStream, OpensWell
<1> QED
  BY <1>2, <1>3 DEF IsStream

LEMMA BodyIsStream ==
  ASSUME NEW w, IsBody(w) PROVE IsStream(w)
<1>1. w \in Seq(Chunks) /\ Len(w) \in Nat /\ DOMAIN w = 1 .. Len(w)
  BY LenProperties DEF IsBody
<1>2. \A i \in 1 .. Len(w) : Rank(w[i].kind) = IF i = 1 THEN 1 ELSE 2
  BY RankOf DEF IsBody
<1>3. InOrder(w)
  BY <1>1, <1>2 DEF InOrder
<1>4. OpensWell(w)
  <2> SUFFICES ASSUME w # << >> PROVE w[1].kind = "role"
    BY DEF OpensWell
  <2>1. 1 \in 1 .. Len(w)
    BY <1>1, EmptySeq
  <2> QED
    BY <2>1 DEF IsBody
<1> QED
  BY <1>1, <1>3, <1>4 DEF IsStream

\* Chunks after a body make a body.
LEMMA BodyGoesOn ==
  ASSUME NEW w, IsBody(w), NEW c \in Seq(Chunks),
         \A i \in 1 .. Len(c) :
           IF w = << >> /\ i = 1 THEN c[i].kind = "role" ELSE c[i].kind \in {"content", "tools"}
  PROVE  IsBody(w \o c)
<1> DEFINE v == w \o c
           n == Len(w)
<1>1. w \in Seq(Chunks)
  BY DEF IsBody
<1>2. /\ n \in Nat /\ Len(c) \in Nat /\ v \in Seq(Chunks) /\ Len(v) = n + Len(c)
      /\ \A i \in 1 .. n : v[i] = w[i]
      /\ \A i \in n + 1 .. n + Len(c) : i - n \in 1 .. Len(c) /\ v[i] = c[i - n]
  BY <1>1, PlacesOfConcat
<1>3. n = 0 <=> w = << >>
  BY <1>1, EmptySeq
<1> HIDE DEF v, n
<1>4. ASSUME NEW i \in 1 .. n + Len(c)
      PROVE  IF i = 1 THEN v[i].kind = "role" ELSE v[i].kind \in {"content", "tools"}
  <2>1. CASE i <= n
    <3>1. i \in 1 .. Len(w) /\ v[i] = w[i]
      BY <1>2, <2>1 DEF n
    <3> QED
      BY <3>1 DEF IsBody
  <2>2. CASE i > n
    <3>1. i - n \in 1 .. Len(c) /\ v[i] = c[i - n]
      BY <1>2, <2>2
    <3>2. (w = << >> /\ i - n = 1) <=> i = 1
      BY <1>2, <1>3, <2>2
    <3> QED
      BY <3>1, <3>2
  <2> QED
    BY <1>2, <2>1, <2>2
<1> QED
  BY <1>2, <1>4 DEF IsBody, v

-----------------------------------------------------------------------------
(* Deltas *)

LEMMA PairOfDeltas ==
  ASSUME NEW t \in Texts, NEW u \in Texts
  PROVE  LET c == Contents(t) \o Tools(u)
         IN /\ c \in Seq(Chunks)
            /\ \A i \in 1 .. Len(c) : c[i].kind \in {"content", "tools"}
            /\ c = << >> <=> t = << >> /\ u = << >>
            /\ \A w \in Seq(Chunks) :
                 /\ Told("content", w \o c) = Told("content", w) \o t
                 /\ Told("tools", w \o c) = Told("tools", w) \o u
<1> DEFINE a == Contents(t)
           b == Tools(u)
           c == a \o b
<1>1. a \in Seq(Chunks) /\ b \in Seq(Chunks)
  BY ToldDeltas, EmptySeq
<1>2. /\ c \in Seq(Chunks) /\ Len(a) \in Nat /\ Len(b) \in Nat /\ Len(c) = Len(a) + Len(b)
      /\ \A i \in 1 .. Len(a) : c[i] = a[i]
      /\ \A i \in Len(a) + 1 .. Len(a) + Len(b) :
           i - Len(a) \in 1 .. Len(b) /\ c[i] = b[i - Len(a)]
  BY <1>1, PlacesOfConcat
<1>3. \A i \in 1 .. Len(a) : a[i].kind = "content"
  BY ChunkTypes DEF Contents
<1>4. \A i \in 1 .. Len(b) : b[i].kind = "tools"
  BY ChunkTypes DEF Tools
<1>5. (Len(a) = 0 <=> t = << >>) /\ (Len(b) = 0 <=> u = << >>)
  BY DEF Contents, Tools
<1>6. ASSUME NEW w \in Seq(Chunks)
      PROVE  /\ Told("content", w \o c) = Told("content", w) \o t
             /\ Told("tools", w \o c) = Told("tools", w) \o u
  <2>1. w \o c = (w \o a) \o b
    BY <1>1, ConcatAssociative
  <2>2. w \o a \in Seq(Chunks)
    BY <1>1, ConcatProperties
  <2>3. /\ Told("content", w \o a) = Told("content", w) \o t
        /\ Told("tools", w \o a) = Told("tools", w)
    BY ToldDeltas
  <2>4. /\ Told("content", (w \o a) \o b) = Told("content", w \o a)
        /\ Told("tools", (w \o a) \o b) = Told("tools", w \o a) \o u
    BY <2>2, ToldDeltas
  <2> QED
    BY <2>1, <2>3, <2>4
<1> HIDE DEF a, b, c
<1>7. \A i \in 1 .. Len(c) : c[i].kind \in {"content", "tools"}
  <2> SUFFICES ASSUME NEW i \in 1 .. Len(c) PROVE c[i].kind \in {"content", "tools"}
    OBVIOUS
  <2>1. CASE i <= Len(a)
    BY <1>2, <1>3, <2>1
  <2>2. CASE i > Len(a)
    BY <1>2, <1>4, <2>2
  <2> QED
    BY <1>2, <2>1, <2>2
<1>8. c = << >> <=> t = << >> /\ u = << >>
  BY <1>2, <1>5, EmptySeq
<1> QED
  BY <1>2, <1>6, <1>7, <1>8 DEF a, b, c

LEMMA RoleOpens ==
  ASSUME role \in BOOLEAN, NEW w \in Seq(Chunks), role <=> w # << >>
  PROVE  /\ RoleIfNeeded \in Seq(Chunks) /\ w \o RoleIfNeeded \in Seq(Chunks)
         /\ Told("content", w \o RoleIfNeeded) = Told("content", w)
         /\ Told("tools", w \o RoleIfNeeded) = Told("tools", w)
         /\ \A i \in 1 .. Len(RoleIfNeeded) :
              w = << >> /\ i = 1 /\ RoleIfNeeded[i].kind = "role"
         /\ Len(RoleIfNeeded) = IF w = << >> THEN 1 ELSE 0
<1>1. CASE role = TRUE
  <2>1. RoleIfNeeded = << >>
    BY <1>1 DEF RoleIfNeeded
  <2> QED
    BY <1>1, <2>1, EmptySeq, ConcatEmptySeq
<1>2. CASE role = FALSE
  <2>1. RoleIfNeeded = <<Chunk("role")>>
    BY <1>2 DEF RoleIfNeeded
  <2>2. /\ <<Chunk("role")>> \in Seq(Chunks) /\ w \o <<Chunk("role")>> \in Seq(Chunks)
        /\ Told("content", w \o <<Chunk("role")>>) = Told("content", w)
        /\ Told("tools", w \o <<Chunk("role")>>) = Told("tools", w)
    BY ToldNothing
  <2>3. Chunk("role").kind = "role"
    BY ChunkTypes
  <2> QED
    BY <1>2, <2>1, <2>2, <2>3
<1> QED
  BY <1>1, <1>2

LEMMA BodyOpens ==
  ASSUME role \in BOOLEAN, IsBody(wire), role <=> wire # << >>
  PROVE  IsBody(wire \o RoleIfNeeded) /\ wire \o RoleIfNeeded # << >>
<1> DEFINE r == RoleIfNeeded
<1>1. wire \in Seq(Chunks)
  BY DEF IsBody
<1>2. /\ r \in Seq(Chunks)
      /\ \A i \in 1 .. Len(r) : wire = << >> /\ i = 1 /\ r[i].kind = "role"
      /\ Len(r) = IF wire = << >> THEN 1 ELSE 0
  BY <1>1, RoleOpens
<1> HIDE DEF r
<1>3. IsBody(wire \o r)
  BY <1>2, BodyGoesOn
<1>4. Len(wire \o r) = Len(wire) + Len(r) /\ Len(wire) \in Nat /\ wire \o r \in Seq(Chunks)
  BY <1>1, <1>2, PlacesOfConcat
<1>5. wire \o r # << >>
  BY <1>1, <1>2, <1>4, EmptySeq
<1> QED
  BY <1>3, <1>5 DEF r

\* The role, when it is still to come, and deltas after it.
LEMMA RoleThenDeltas ==
  ASSUME role \in BOOLEAN, IsBody(wire), role <=> wire # << >>, NEW c \in Seq(Chunks),
         \A i \in 1 .. Len(c) : c[i].kind \in {"content", "tools"}
  PROVE  LET whole == RoleIfNeeded \o c
         IN /\ whole \in Seq(Chunks)
            /\ \A i \in 1 .. Len(whole) :
                 IF wire = << >> /\ i = 1 THEN whole[i].kind = "role"
                 ELSE whole[i].kind \in {"content", "tools"}
            /\ wire = << >> => Len(whole) > 0
            /\ wire \o whole = (wire \o RoleIfNeeded) \o c
<1> DEFINE r == RoleIfNeeded
           whole == r \o c
<1>0. wire \in Seq(Chunks)
  BY DEF IsBody
<1>1. /\ r \in Seq(Chunks)
      /\ \A i \in 1 .. Len(r) : wire = << >> /\ i = 1 /\ r[i].kind = "role"
      /\ Len(r) = IF wire = << >> THEN 1 ELSE 0
  BY <1>0, RoleOpens
<1>2. /\ whole \in Seq(Chunks) /\ Len(r) \in Nat /\ Len(c) \in Nat
      /\ Len(whole) = Len(r) + Len(c)
      /\ \A i \in 1 .. Len(r) : whole[i] = r[i]
      /\ \A i \in Len(r) + 1 .. Len(r) + Len(c) :
           i - Len(r) \in 1 .. Len(c) /\ whole[i] = c[i - Len(r)]
  <2>1. r \in Seq(Chunks) /\ c \in Seq(Chunks) /\ whole = r \o c
    BY <1>1
  <2> HIDE DEF r, whole
  <2>2. /\ r \o c \in Seq(Chunks) /\ Len(r) \in Nat /\ Len(c) \in Nat
        /\ Len(r \o c) = Len(r) + Len(c)
        /\ \A i \in 1 .. Len(r) : (r \o c)[i] = r[i]
        /\ \A i \in Len(r) + 1 .. Len(r) + Len(c) :
             i - Len(r) \in 1 .. Len(c) /\ (r \o c)[i] = c[i - Len(r)]
    BY <2>1, PlacesOfConcat
  <2> QED
    BY <2>1, <2>2
<1>3. wire \o whole = (wire \o r) \o c
  BY <1>0, <1>1, ConcatAssociative
<1> HIDE DEF r, whole
<1>4. ASSUME NEW i \in 1 .. Len(whole)
      PROVE  IF wire = << >> /\ i = 1 THEN whole[i].kind = "role"
             ELSE whole[i].kind \in {"content", "tools"}
  <2>1. CASE i <= Len(r)
    BY <1>1, <1>2, <2>1
  <2>2. CASE i > Len(r)
    <3>1. ~(wire = << >> /\ i = 1)
      BY <1>1, <2>2
    <3>2. i \in Len(r) + 1 .. Len(r) + Len(c)
      BY <1>2, <2>2
    <3>3. i - Len(r) \in 1 .. Len(c) /\ whole[i] = c[i - Len(r)]
      BY <1>2, <3>2
    <3> QED
      BY <3>1, <3>3
  <2> QED
    BY <1>2, <2>1, <2>2
<1>5. wire = << >> => Len(whole) > 0
  BY <1>1, <1>2
<1> QED
  BY <1>2, <1>3, <1>4, <1>5 DEF r, whole

LEMMA DeliverKeepsBody ==
  ASSUME role \in BOOLEAN, gone \in BOOLEAN, IsBody(wire), role <=> wire # << >>,
         NEW c \in Seq(Chunks), \A i \in 1 .. Len(c) : c[i].kind \in {"content", "tools"},
         NEW accepted \in BOOLEAN, Deliver(c, accepted)
  PROVE  /\ IsBody(wire') /\ role' \in BOOLEAN /\ gone' \in BOOLEAN
         /\ role' <=> wire' # << >>
         /\ ~accepted => gone'
         /\ accepted /\ c # << >> =>
              wire' = (wire \o RoleIfNeeded) \o c /\ role' /\ ~gone'
         /\ accepted /\ c = << >> => UNCHANGED wireVars
<1>1. CASE c = << >>
  BY <1>1 DEF Deliver, wireVars
<1>2. CASE c # << >>
  <2> DEFINE whole == RoleIfNeeded \o c
  <2>0. wire \in Seq(Chunks)
    BY DEF IsBody
  <2>1. /\ whole \in Seq(Chunks)
        /\ \A i \in 1 .. Len(whole) :
             IF wire = << >> /\ i = 1 THEN whole[i].kind = "role"
             ELSE whole[i].kind \in {"content", "tools"}
        /\ wire \o whole = (wire \o RoleIfNeeded) \o c
    BY RoleThenDeltas
  <2>2. PICK n \in 0 .. Len(whole) :
          /\ accepted = (n = Len(whole))
          /\ wire' = wire \o SubSeq(whole, 1, n)
          /\ role' = (role \/ n > 0)
          /\ gone' = ~accepted
    BY <1>2 DEF Deliver
  <2>7. Len(whole) # 0
    <3>1. RoleIfNeeded \in Seq(Chunks) /\ Len(c) # 0
      BY <1>2, <2>0, RoleOpens, EmptySeq
    <3>2. Len(RoleIfNeeded) \in Nat /\ Len(c) \in Nat /\ Len(whole) = Len(RoleIfNeeded) + Len(c)
      BY <3>1, PlacesOfConcat
    <3> QED
      BY <3>1, <3>2
  <2> HIDE DEF whole
  <2> DEFINE p == SubSeq(whole, 1, n)
  <2>3. Len(whole) \in Nat /\ n \in Nat /\ n <= Len(whole)
    BY <2>1, <2>2, LenProperties
  <2>4. p \in Seq(Chunks) /\ Len(p) = n /\ \A i \in 1 .. n : p[i] = whole[i]
    <3>1. \A i \in 1 .. n : whole[i] \in Chunks
      BY <2>1, <2>3, ElementOfSeq
    <3> QED
      BY <2>3, <3>1, SubSeqProperties
  <2>5. IsBody(wire \o p)
    <3>1. \A i \in 1 .. Len(p) :
            IF wire = << >> /\ i = 1 THEN p[i].kind = "role"
            ELSE p[i].kind \in {"content", "tools"}
      BY <2>1, <2>3, <2>4
    <3> HIDE DEF p
    <3> QED
      BY <2>4, <3>1, BodyGoesOn
  <2>6. wire \o p # << >> <=> role \/ n > 0
    <3> HIDE DEF p
    <3>1. Len(wire) \in Nat /\ Len(wire \o p) = Len(wire) + n /\ wire \o p \in Seq(Chunks)
      BY <2>0, <2>3, <2>4, PlacesOfConcat
    <3> QED
      BY <2>0, <2>3, <3>1, EmptySeq
  <2>8. accepted => wire' = wire \o whole /\ role'
    <3>1. SubSeq(whole, 1, Len(whole)) = whole
      BY <2>1, SubSeqFull
    <3> SUFFICES ASSUME accepted = TRUE PROVE wire' = wire \o whole /\ role'
      OBVIOUS
    <3>2. n = Len(whole)
      BY <2>2
    <3> QED
      BY <2>2, <2>3, <2>7, <3>1, <3>2
  <2> QED
    BY <1>2, <2>1, <2>2, <2>5, <2>6, <2>8
<1> QED
  BY <1>1, <1>2

-----------------------------------------------------------------------------
(* The end of a stream *)

TwoChunks(a, b) == <<Chunk(a), Chunk(b)>>
ThreeChunks(a, b, c) == <<Chunk(a), Chunk(b), Chunk(c)>>

Ending(ok) ==
  IF ~ok THEN TwoChunks("error", "done")
  ELSE IF request.usage = "true" THEN ThreeChunks("finish", "usage", "done")
  ELSE TwoChunks("finish", "done")

SentKinds(chunks) == {chunks[i].kind : i \in DOMAIN chunks}

LEMMA EndingShape ==
  ASSUME NEW ok \in BOOLEAN
  PROVE  /\ Ending(ok) \in Seq(Chunks) /\ Len(Ending(ok)) > 0
         /\ InOrder(Ending(ok))
         /\ \A i \in 1 .. Len(Ending(ok)) : Rank(Ending(ok)[i].kind) > 2
         /\ ~ok => Ending(ok)[1].kind = "error"
         /\ SentKinds(Ending(ok)) =
              (IF ~ok THEN {"error", "done"}
               ELSE IF request.usage = "true" THEN {"finish", "usage", "done"}
               ELSE {"finish", "done"})
<1>1. ASSUME NEW a \in {"finish", "error"}
      PROVE  LET e == TwoChunks(a, "done")
             IN /\ e \in Seq(Chunks) /\ Len(e) = 2 /\ InOrder(e)
                /\ \A i \in 1 .. Len(e) : Rank(e[i].kind) > 2
                /\ e[1].kind = a /\ SentKinds(e) = {a, "done"}
  <2> DEFINE e == TwoChunks(a, "done")
  <2>1. /\ Chunk(a) \in Chunks /\ Chunk(a).kind = a
        /\ Chunk("done") \in Chunks /\ Chunk("done").kind = "done"
    BY ChunkTypes
  <2>2. e \in Seq(Chunks) /\ Len(e) = 2 /\ DOMAIN e = {1, 2}
        /\ e[1].kind = a /\ e[2].kind = "done"
    BY <2>1 DEF TwoChunks
  <2> HIDE DEF e
  <2>3. Rank(a) = 3 /\ Rank("done") = 5
    BY RankOf
  <2>4. InOrder(e) /\ \A i \in 1 .. Len(e) : Rank(e[i].kind) > 2
    BY <2>2, <2>3 DEF InOrder
  <2>5. SentKinds(e) = {a, "done"}
    BY <2>2 DEF SentKinds
  <2> QED
    BY <2>2, <2>4, <2>5 DEF e
<1>2. LET e == ThreeChunks("finish", "usage", "done")
      IN /\ e \in Seq(Chunks) /\ Len(e) = 3 /\ InOrder(e)
         /\ \A i \in 1 .. Len(e) : Rank(e[i].kind) > 2
         /\ SentKinds(e) = {"finish", "usage", "done"}
  <2> DEFINE e == ThreeChunks("finish", "usage", "done")
  <2>1. /\ Chunk("finish") \in Chunks /\ Chunk("finish").kind = "finish"
        /\ Chunk("usage") \in Chunks /\ Chunk("usage").kind = "usage"
        /\ Chunk("done") \in Chunks /\ Chunk("done").kind = "done"
    BY ChunkTypes
  <2>2. e \in Seq(Chunks) /\ Len(e) = 3 /\ DOMAIN e = {1, 2, 3}
        /\ e[1].kind = "finish" /\ e[2].kind = "usage" /\ e[3].kind = "done"
    BY <2>1 DEF ThreeChunks
  <2> HIDE DEF e
  <2>3. Rank("finish") = 3 /\ Rank("usage") = 4 /\ Rank("done") = 5
    BY RankOf
  <2>4. InOrder(e) /\ \A i \in 1 .. Len(e) : Rank(e[i].kind) > 2
    BY <2>2, <2>3 DEF InOrder
  <2>5. SentKinds(e) = {"finish", "usage", "done"}
    BY <2>2 DEF SentKinds
  <2> QED
    BY <2>2, <2>4, <2>5 DEF e
<1>3. CASE ok = FALSE
  <2>1. Ending(ok) = TwoChunks("error", "done")
    BY <1>3 DEF Ending
  <2> QED
    BY <1>1, <1>3, <2>1
<1>4. CASE ok = TRUE /\ request.usage = "true"
  <2>1. Ending(ok) = ThreeChunks("finish", "usage", "done")
    BY <1>4 DEF Ending
  <2> QED
    BY <1>2, <1>4, <2>1
<1>5. CASE ok = TRUE /\ request.usage # "true"
  <2>1. Ending(ok) = TwoChunks("finish", "done")
    BY <1>5 DEF Ending
  <2> QED
    BY <1>1, <1>5, <2>1
<1> QED
  BY <1>3, <1>4, <1>5

LEMMA ConcatOfChunks ==
  ASSUME NEW b \in Seq(Chunks), NEW x \in Chunks, NEW y \in Chunks, NEW z \in Chunks
  PROVE  /\ b \o <<x, y>> = (b \o <<x>>) \o <<y>>
         /\ b \o <<x, y, z>> = ((b \o <<x>>) \o <<y>>) \o <<z>>
<1>1. <<x>> \in Seq(Chunks) /\ <<y>> \in Seq(Chunks) /\ <<z>> \in Seq(Chunks)
  OBVIOUS
<1>2. <<x, y>> \in Seq(Chunks)
  OBVIOUS
<1>5. <<x, y>> = <<x>> \o <<y>>
  <2>1. <<x>> \o <<y>> = Append(<<x>>, y)
    BY <1>1, AppendIsConcat
  <2> DEFINE s == Append(<<x>>, y)
             r == <<x, y>>
  <2>2. s \in Seq(Chunks) /\ Len(s) = 2 /\ s[1] = x /\ s[2] = y
    BY <1>1, AppendProperties
  <2>3. r \in Seq(Chunks) /\ Len(r) = 2 /\ r[1] = x /\ r[2] = y
    BY <1>2
  <2> HIDE DEF s, r
  <2>4. \A i \in 1 .. Len(s) : s[i] = r[i]
    BY <2>2, <2>3
  <2>5. s = r
    BY <2>2, <2>3, <2>4, SeqEqual
  <2> QED
    BY <2>1, <2>5 DEF s, r
<1>6. <<x, y, z>> = <<x, y>> \o <<z>>
  <2>1. <<x, y>> \o <<z>> = Append(<<x, y>>, z)
    BY <1>2, AppendIsConcat
  <2> DEFINE s == Append(<<x, y>>, z)
             r == <<x, y, z>>
  <2>2. s \in Seq(Chunks) /\ Len(s) = 3 /\ s[1] = x /\ s[2] = y /\ s[3] = z
    BY <1>2, AppendProperties
  <2>3. r \in Seq(Chunks) /\ Len(r) = 3 /\ r[1] = x /\ r[2] = y /\ r[3] = z
    OBVIOUS
  <2> HIDE DEF s, r
  <2>4. \A i \in 1 .. Len(s) : s[i] = r[i]
    BY <2>2, <2>3
  <2>5. s = r
    BY <2>2, <2>3, <2>4, SeqEqual
  <2> QED
    BY <2>1, <2>5 DEF s, r
<1>3. b \o (<<x>> \o <<y>>) = (b \o <<x>>) \o <<y>>
  BY <1>1, ConcatAssociative
<1>4. b \o (<<x, y>> \o <<z>>) = (b \o <<x, y>>) \o <<z>>
  BY <1>1, <1>2, ConcatAssociative
<1> QED
  BY <1>3, <1>4, <1>5, <1>6

LEMMA EndingTellsNothing ==
  ASSUME NEW b \in Seq(Chunks), NEW ok \in BOOLEAN
  PROVE  /\ Told("content", b \o Ending(ok)) = Told("content", b)
         /\ Told("tools", b \o Ending(ok)) = Told("tools", b)
<1>1. ASSUME NEW a \in {"finish", "error"}
      PROVE  /\ Told("content", b \o TwoChunks(a, "done")) = Told("content", b)
             /\ Told("tools", b \o TwoChunks(a, "done")) = Told("tools", b)
  <2> DEFINE v == b \o <<Chunk(a)>>
  <2>1. /\ v \in Seq(Chunks) /\ Told("content", v) = Told("content", b)
        /\ Told("tools", v) = Told("tools", b)
    BY ToldNothing
  <2>2. b \o TwoChunks(a, "done") = v \o <<Chunk("done")>>
    <3>1. Chunk(a) \in Chunks /\ Chunk("done") \in Chunks
      BY ChunkTypes
    <3> QED
      BY <3>1, ConcatOfChunks, Zenon DEF TwoChunks
  <2> HIDE DEF v
  <2>3. /\ Told("content", v \o <<Chunk("done")>>) = Told("content", v)
        /\ Told("tools", v \o <<Chunk("done")>>) = Told("tools", v)
    BY <2>1, ToldNothing
  <2> QED
    BY <2>1, <2>2, <2>3
<1>2. LET e == ThreeChunks("finish", "usage", "done")
      IN /\ Told("content", b \o e) = Told("content", b)
         /\ Told("tools", b \o e) = Told("tools", b)
  <2> DEFINE v == b \o <<Chunk("finish")>>
             u == v \o <<Chunk("usage")>>
  <2>1. /\ v \in Seq(Chunks) /\ Told("content", v) = Told("content", b)
        /\ Told("tools", v) = Told("tools", b)
    BY ToldNothing
  <2>2. b \o ThreeChunks("finish", "usage", "done") = u \o <<Chunk("done")>>
    <3>1. Chunk("finish") \in Chunks /\ Chunk("usage") \in Chunks /\ Chunk("done") \in Chunks
      BY ChunkTypes
    <3> QED
      BY <3>1, ConcatOfChunks, Zenon DEF ThreeChunks
  <2> HIDE DEF v
  <2>3. /\ u \in Seq(Chunks) /\ Told("content", u) = Told("content", v)
        /\ Told("tools", u) = Told("tools", v)
    BY <2>1, ToldNothing
  <2> HIDE DEF u
  <2>4. /\ Told("content", u \o <<Chunk("done")>>) = Told("content", u)
        /\ Told("tools", u \o <<Chunk("done")>>) = Told("tools", u)
    BY <2>3, ToldNothing
  <2> QED
    BY <2>1, <2>2, <2>3, <2>4
<1> QED
  BY <1>1, <1>2 DEF Ending

\* A body with an ending is a whole stream.
LEMMA BodyWithEnding ==
  ASSUME NEW b, IsBody(b), NEW ok \in BOOLEAN, ok => b # << >>
  PROVE  LET w == b \o Ending(ok)
         IN /\ IsStream(w)
            /\ "done" \in SentKinds(w)
            /\ ok <=> "finish" \in SentKinds(w)
            /\ "usage" \in SentKinds(w) <=> ok /\ request.usage = "true"
<1> DEFINE e == Ending(ok)
           w == b \o e
<1>1. /\ b \in Seq(Chunks) /\ e \in Seq(Chunks) /\ Len(e) > 0 /\ InOrder(e)
      /\ \A i \in 1 .. Len(e) : Rank(e[i].kind) > 2
      /\ ~ok => e[1].kind = "error"
  BY EndingShape DEF IsBody
<1>6. SentKinds(e) = (IF ~ok THEN {"error", "done"}
                      ELSE IF request.usage = "true" THEN {"finish", "usage", "done"}
                      ELSE {"finish", "done"})
  BY EndingShape
<1> HIDE DEF e
<1>2. /\ w \in Seq(Chunks) /\ Len(b) \in Nat /\ Len(e) \in Nat
      /\ DOMAIN b = 1 .. Len(b) /\ DOMAIN e = 1 .. Len(e)
      /\ DOMAIN w = 1 .. Len(b) + Len(e) /\ Len(w) = Len(b) + Len(e)
      /\ \A i \in 1 .. Len(b) : w[i] = b[i]
      /\ \A i \in Len(b) + 1 .. Len(b) + Len(e) :
           i - Len(b) \in 1 .. Len(e) /\ w[i] = e[i - Len(b)]
  BY <1>1, PlacesOfConcat
<1>3. IsStream(b)
  BY BodyIsStream
<1>4. InOrder(w)
  <2>1. \A i \in 1 .. Len(b), j \in 1 .. Len(e) : Rank(b[i].kind) < Rank(e[j].kind)
    <3> SUFFICES ASSUME NEW i \in 1 .. Len(b), NEW j \in 1 .. Len(e)
                 PROVE  Rank(b[i].kind) < Rank(e[j].kind)
      OBVIOUS
    <3>1. Rank(b[i].kind) \in {1, 2}
      BY RankOf DEF IsBody
    <3>2. Rank(e[j].kind) > 2
      BY <1>1, Zenon
    <3>3. Rank(e[j].kind) \in Nat
      <4>1. e[j] \in Chunks
        BY <1>1, ElementOfSeq
      <4> QED
        BY <4>1, RankOf DEF Chunks
    <3> QED
      BY <3>1, <3>2, <3>3
  <2> QED
    BY <1>1, <1>3, <2>1, OrderOfConcat DEF IsStream
<1>5. OpensWell(w)
  <2>1. CASE b = << >>
    <3>1. Len(b) = 0 /\ ok = FALSE
      BY <2>1, EmptySeq
    <3>2. 1 \in Len(b) + 1 .. Len(b) + Len(e) /\ 1 - Len(b) = 1
      BY <1>1, <1>2, <3>1
    <3>3. w[1] = e[1]
      BY <1>2, <3>2
    <3>4. w[1].kind = "error"
      BY <1>1, <3>1, <3>3, Zenon
    <3> HIDE DEF w
    <3> QED
      BY <3>4 DEF OpensWell
  <2>2. CASE b # << >>
    <3>1. 1 \in 1 .. Len(b)
      BY <1>1, <1>2, <2>2, EmptySeq
    <3>2. w[1] = b[1] /\ b[1].kind = "role"
      BY <1>2, <3>1 DEF IsBody
    <3> QED
      BY <3>2 DEF OpensWell
  <2> QED
    BY <2>1, <2>2
<1>7. \A k \in SentKinds(e) : k \in SentKinds(w)
  <2> SUFFICES ASSUME NEW i \in 1 .. Len(e) PROVE e[i].kind \in SentKinds(w)
    BY <1>2 DEF SentKinds
  <2>1. Len(b) + i \in Len(b) + 1 .. Len(b) + Len(e) /\ (Len(b) + i) - Len(b) = i
        /\ Len(b) + i \in DOMAIN w
    BY <1>2
  <2>2. w[Len(b) + i] = e[i]
    BY <1>2, <2>1
  <2> QED
    BY <2>1, <2>2 DEF SentKinds
<1>8. \A k \in SentKinds(w) : k \in {"role", "content", "tools"} \cup SentKinds(e)
  <2> SUFFICES ASSUME NEW i \in 1 .. Len(b) + Len(e)
               PROVE  w[i].kind \in {"role", "content", "tools"} \cup SentKinds(e)
    BY <1>2 DEF SentKinds
  <2>1. CASE i <= Len(b)
    <3>1. i \in 1 .. Len(b) /\ w[i] = b[i]
      BY <1>2, <2>1
    <3> QED
      BY <3>1 DEF IsBody
  <2>2. CASE i > Len(b)
    <3>1. i - Len(b) \in DOMAIN e /\ w[i] = e[i - Len(b)]
      BY <1>2, <2>2
    <3> QED
      BY <3>1 DEF SentKinds
  <2> QED
    BY <1>2, <2>1, <2>2
<1>9. /\ "done" \in SentKinds(w)
      /\ ok <=> "finish" \in SentKinds(w)
      /\ "usage" \in SentKinds(w) <=> ok /\ request.usage = "true"
  <2> HIDE DEF w
  <2> QED
    BY <1>6, <1>7, <1>8
<1> QED
  BY <1>2, <1>4, <1>5, <1>9 DEF IsStream, e

\* What set_streaming_chat_completion_response adds makes a stream whole.
\* A body that holds the answer of a response, when the role was still to come.
BodyOf(resp, b) ==
  /\ IsBody(b) /\ (resp.ok => b # << >>)
  /\ wire \o FinalChunks(resp) = b \o Ending(resp.ok)
  /\ resp.ok /\ role => b = wire
  /\ resp.ok /\ ~role => Told("content", b) = resp.text /\ Told("tools", b) = resp.tools

LEMMA FinalChunksEnd ==
  ASSUME role \in BOOLEAN, IsBody(wire), role <=> wire # << >>,
         NEW resp, resp.ok \in BOOLEAN, resp.text \in Texts, resp.tools \in Texts
  PROVE  /\ FinalChunks(resp) \in Seq(Chunks) /\ FinalChunks(resp) # << >>
         /\ \E b : BodyOf(resp, b)
<1>0. wire \in Seq(Chunks)
  BY DEF IsBody
<1>1. CASE resp.ok = FALSE
  <2>1. FinalChunks(resp) = Ending(FALSE) /\ Ending(resp.ok) = Ending(FALSE)
    BY <1>1 DEF FinalChunks, Ending, TwoChunks
  <2>2. Ending(FALSE) \in Seq(Chunks) /\ Len(Ending(FALSE)) > 0
    BY EndingShape
  <2>3. Ending(FALSE) # << >>
    <3> DEFINE e == Ending(FALSE)
    <3>1. Len(e) > 0
      BY <2>2
    <3> HIDE DEF e
    <3>2. e # << >>
      BY <3>1, EmptySeq
    <3> QED
      BY <3>2 DEF e
  <2> QED
    BY <1>1, <2>1, <2>2, <2>3 DEF BodyOf
<1>2. CASE resp.ok = TRUE
  <2> DEFINE c == Contents(resp.text) \o Tools(resp.tools)
             x == IF role THEN << >> ELSE RoleIfNeeded \o c
             b == wire \o x
             e == Ending(TRUE)
  <2>1. /\ c \in Seq(Chunks)
        /\ \A i \in 1 .. Len(c) : c[i].kind \in {"content", "tools"}
        /\ \A w \in Seq(Chunks) :
             /\ Told("content", w \o c) = Told("content", w) \o resp.text
             /\ Told("tools", w \o c) = Told("tools", w) \o resp.tools
    BY PairOfDeltas
  <2>2. (RoleIfNeeded \o Contents(resp.text)) \o Tools(resp.tools) = RoleIfNeeded \o c
    <3>1. /\ RoleIfNeeded \in Seq(Chunks) /\ Contents(resp.text) \in Seq(Chunks)
          /\ Tools(resp.tools) \in Seq(Chunks)
      BY <1>0, RoleOpens, ToldDeltas
    <3> QED
      BY <3>1, ConcatAssociative
  <2> HIDE DEF c
  <2>3. /\ RoleIfNeeded \o c \in Seq(Chunks)
        /\ \A i \in 1 .. Len(RoleIfNeeded \o c) :
             IF wire = << >> /\ i = 1 THEN (RoleIfNeeded \o c)[i].kind = "role"
             ELSE (RoleIfNeeded \o c)[i].kind \in {"content", "tools"}
        /\ wire = << >> => Len(RoleIfNeeded \o c) > 0
        /\ wire \o (RoleIfNeeded \o c) = (wire \o RoleIfNeeded) \o c
    BY <2>1, RoleThenDeltas
  <2>4. x \in Seq(Chunks)
    BY <2>3, EmptySeq
  <2>5. FinalChunks(resp) = x \o e
    <3> DEFINE f == <<Chunk("finish")>>
               u == IF request.usage = "true" THEN <<Chunk("usage")>> ELSE << >>
               d == <<Chunk("done")>>
    <3>1. FinalChunks(resp) = ((x \o f) \o u) \o d
      BY <1>2, <2>2 DEF FinalChunks
    <3>2. Chunk("finish") \in Chunks /\ Chunk("usage") \in Chunks /\ Chunk("done") \in Chunks
      BY ChunkTypes
    <3> HIDE DEF x
    <3>3. CASE request.usage = "true"
      <4>1. e = <<Chunk("finish"), Chunk("usage"), Chunk("done")>>
        BY <3>3 DEF Ending, ThreeChunks
      <4>2. x \o <<Chunk("finish"), Chunk("usage"), Chunk("done")>>
            = ((x \o <<Chunk("finish")>>) \o <<Chunk("usage")>>) \o <<Chunk("done")>>
        BY <2>4, <3>2, ConcatOfChunks, Zenon
      <4> QED
        BY <3>1, <3>3, <4>1, <4>2
    <3>4. CASE request.usage # "true"
      <4>1. e = <<Chunk("finish"), Chunk("done")>>
        BY <3>4 DEF Ending, TwoChunks
      <4>2. x \o <<Chunk("finish"), Chunk("done")>>
            = (x \o <<Chunk("finish")>>) \o <<Chunk("done")>>
        BY <2>4, <3>2, ConcatOfChunks, Zenon
      <4>3. (x \o f) \o << >> = x \o f
        <5>1. x \o f \in Seq(Chunks)
          BY <2>4, <3>2, OneChunk
        <5> QED
          BY <5>1, ConcatEmptySeq
      <4> QED
        BY <3>1, <3>4, <4>1, <4>2, <4>3
    <3> QED
      BY <3>3, <3>4
  <2>6. e \in Seq(Chunks) /\ Len(e) > 0
    BY EndingShape
  <2>7. IsBody(b) /\ b # << >>
    <3>1. CASE role = TRUE
      BY <1>0, <3>1, ConcatEmptySeq
    <3>2. CASE role = FALSE
      <4>1. b = wire \o (RoleIfNeeded \o c) /\ wire = << >>
        BY <3>2
      <4>2. wire \o (RoleIfNeeded \o c) = RoleIfNeeded \o c
        BY <2>3, <4>1, ConcatEmptySeq
      <4>3. RoleIfNeeded \o c # << >>
        BY <2>3, <4>1, EmptySeq
      <4>4. IsBody(wire \o (RoleIfNeeded \o c))
        BY <2>3, BodyGoesOn
      <4> QED
        BY <4>1, <4>2, <4>3, <4>4
    <3> QED
      BY <3>1, <3>2
  <2>8. role => b = wire
    BY <1>0, ConcatEmptySeq
  <2>9. ~role => Told("content", b) = resp.text /\ Told("tools", b) = resp.tools
    <3> SUFFICES ASSUME role = FALSE
                 PROVE  Told("content", b) = resp.text /\ Told("tools", b) = resp.tools
      OBVIOUS
    <3> DEFINE v == wire \o RoleIfNeeded
    <3>1. b = v \o c /\ wire = << >>
      BY <2>3
    <3>2. /\ v \in Seq(Chunks) /\ Told("content", v) = Told("content", << >>)
          /\ Told("tools", v) = Told("tools", << >>)
      BY <1>0, <3>1, RoleOpens
    <3> HIDE DEF v, b
    <3>3. /\ Told("content", v \o c) = Told("content", v) \o resp.text
          /\ Told("tools", v \o c) = Told("tools", v) \o resp.tools
      BY <2>1, <3>2
    <3>4. << >> \o resp.text = resp.text /\ << >> \o resp.tools = resp.tools
      BY ConcatEmptySeq DEF Texts
    <3> QED
      BY <3>1, <3>2, <3>3, <3>4, ToldEmpty
  <2>10. wire \o FinalChunks(resp) = b \o e
    <3> HIDE DEF x, e
    <3>1. wire \o (x \o e) = (wire \o x) \o e
      BY <1>0, <2>4, <2>6, ConcatAssociative
    <3> QED
      BY <2>5, <3>1
  <2>11. FinalChunks(resp) \in Seq(Chunks) /\ FinalChunks(resp) # << >>
    <3> HIDE DEF x, e
    <3>1. x \o e \in Seq(Chunks) /\ Len(x) \in Nat /\ Len(e) \in Nat
          /\ Len(x \o e) = Len(x) + Len(e)
      BY <2>4, <2>6, PlacesOfConcat
    <3> QED
      BY <2>5, <2>6, <3>1, EmptySeq
  <2>12. Ending(resp.ok) = e
    BY <1>2
  <2> HIDE DEF b, e
  <2> QED
    BY <1>2, <2>7, <2>8, <2>9, <2>10, <2>11, <2>12 DEF BodyOf
<1> QED
  BY <1>1, <1>2

-----------------------------------------------------------------------------
(* The steps that answer *)

LEMMA StreamOfBody ==
  ASSUME NEW w, IsBody(w)
  PROVE  w \in Seq(Chunks) /\ << >> \in Seq(Chunks) /\ w \o << >> = w /\ IsStream(w \o << >>)
<1>1. w \in Seq(Chunks) /\ << >> \in Seq(Chunks) /\ w \o << >> = w
  BY EmptySeq, ConcatEmptySeq DEF IsBody
<1> QED
  BY <1>1, BodyIsStream

\* What an answer adds to a body ends a stream that tells the answer.
LEMMA AnswerEndsStream ==
  ASSUME role \in BOOLEAN, IsBody(wire), role <=> wire # << >>,
         NEW resp, resp.ok \in BOOLEAN, resp.text \in Texts, resp.tools \in Texts
  PROVE  LET w == wire \o FinalChunks(resp)
         IN /\ FinalChunks(resp) \in Seq(Chunks) /\ FinalChunks(resp) # << >>
            /\ IsStream(w) /\ "done" \in SentKinds(w)
            /\ resp.ok <=> "finish" \in SentKinds(w)
            /\ "usage" \in SentKinds(w) <=> resp.ok /\ request.usage = "true"
            /\ resp.ok /\ role =>
                 /\ Told("content", w) = Told("content", wire)
                 /\ Told("tools", w) = Told("tools", wire)
            /\ resp.ok /\ ~role =>
                 Told("content", w) = resp.text /\ Told("tools", w) = resp.tools
<1>1. FinalChunks(resp) \in Seq(Chunks) /\ FinalChunks(resp) # << >>
  BY FinalChunksEnd
<1>2. PICK b : BodyOf(resp, b)
  BY FinalChunksEnd
<1>3. /\ IsBody(b) /\ (resp.ok => b # << >>)
      /\ wire \o FinalChunks(resp) = b \o Ending(resp.ok)
      /\ resp.ok /\ role => b = wire
      /\ resp.ok /\ ~role =>
           Told("content", b) = resp.text /\ Told("tools", b) = resp.tools
  BY <1>2 DEF BodyOf
<1> DEFINE w == b \o Ending(resp.ok)
<1>4. /\ IsStream(w) /\ "done" \in SentKinds(w)
      /\ resp.ok <=> "finish" \in SentKinds(w)
      /\ "usage" \in SentKinds(w) <=> resp.ok /\ request.usage = "true"
  BY <1>3, BodyWithEnding
<1>5. Told("content", w) = Told("content", b) /\ Told("tools", w) = Told("tools", b)
  BY <1>3, EndingTellsNothing DEF IsBody
<1>6. wire \o FinalChunks(resp) = w
  BY <1>3
<1> HIDE DEF w
<1> QED
  BY <1>1, <1>3, <1>4, <1>5, <1>6

LEMMA RespondKeeps ==
  ASSUME PhaseInv, WireInv, phase \in {"route", "local", "cloud"},
         NEW resp, resp.ok \in BOOLEAN, resp.text \in Texts, resp.tools \in Texts,
         Respond(resp), UNCHANGED <<requestVars, cloud, restarted, altered>>,
         garbled' \in BOOLEAN, tried \subseteq tried',
         Streaming /\ ~gone /\ resp.ok /\ ~restarted /\ role =>
           /\ Told("content", wire) = resp.text
           /\ ~altered => Told("tools", wire) = resp.tools
  PROVE  PhaseInv' /\ WireInv'
<1>1. /\ UNCHANGED <<role, gone, body, request, verdict>>
      /\ UNCHANGED <<cloud, restarted, altered>> /\ Streaming' = Streaming
      /\ verdict = "accepted" /\ pending = << >>
  BY DEF Respond, requestVars, Streaming, PhaseInv
<1>2. CASE CannotBeDumped(resp)
  <2>1. phase' = "threw" /\ pending' = << >> /\ wire' = wire
    BY <1>1, <1>2 DEF Respond, Throw
  <2>2. PhaseInv'
    BY <1>1, <2>1 DEF PhaseInv
  <2>3. ASSUME Streaming PROVE WireInv'
    <3>1. IsBody(wire) /\ (role <=> wire # << >>)
      BY <2>3 DEF WireInv
    <3>2. wire \in Seq(Chunks) /\ << >> \in Seq(Chunks) /\ IsStream(wire \o << >>)
      BY <3>1, StreamOfBody
    <3> QED
      BY <1>1, <2>1, <3>1, <3>2 DEF WireInv
  <2> QED
    BY <1>1, <2>2, <2>3 DEF WireInv
<1>3. CASE ~CannotBeDumped(resp) /\ ~Streaming
  <2>1. phase' = "closed" /\ pending' = << >>
    BY <1>1, <1>3 DEF Respond
  <2> QED
    BY <1>1, <1>3, <2>1 DEF PhaseInv, WireInv
<1>4. CASE ~CannotBeDumped(resp) /\ Streaming /\ gone
  <2>1. phase' = "closed" /\ pending' = << >> /\ wire' = wire
    BY <1>4 DEF Respond
  <2>2. PhaseInv'
    BY <1>1, <2>1 DEF PhaseInv
  <2>3. IsBody(wire)
    BY <1>4 DEF WireInv
  <2>4. wire \in Seq(Chunks) /\ << >> \in Seq(Chunks) /\ IsStream(wire \o << >>)
    BY <2>3, StreamOfBody
  <2> QED
    BY <1>1, <1>4, <2>1, <2>2, <2>4 DEF WireInv
<1>5. CASE ~CannotBeDumped(resp) /\ Streaming /\ ~gone
  <2>1. /\ phase' = "writing" /\ pending' = FinalChunks(resp) /\ wire' = wire
        /\ response' = resp
    BY <1>5 DEF Respond
  <2>2. IsBody(wire) /\ (role <=> wire # << >>) /\ role \in BOOLEAN
    BY <1>5 DEF WireInv, PhaseInv
  <2> DEFINE w == wire \o FinalChunks(resp)
  <2>3. /\ FinalChunks(resp) \in Seq(Chunks) /\ FinalChunks(resp) # << >>
        /\ IsStream(w) /\ "done" \in SentKinds(w)
        /\ resp.ok <=> "finish" \in SentKinds(w)
        /\ "usage" \in SentKinds(w) <=> resp.ok /\ request.usage = "true"
        /\ resp.ok /\ role =>
             Told("content", w) = Told("content", wire) /\ Told("tools", w) = Told("tools", wire)
        /\ resp.ok /\ ~role =>
             Told("content", w) = resp.text /\ Told("tools", w) = resp.tools
    BY <2>2, AnswerEndsStream
  <2>4. wire' \o pending' = w
    BY <2>1
  <2> HIDE DEF w
  <2>5. (EndsWell(wire \o pending))'
    BY <1>1, <2>1, <2>3, <2>4 DEF EndsWell, SentKinds
  <2>6. (TellsTheAnswer(wire \o pending))'
    <3> SUFFICES ASSUME resp.ok, ~restarted
                 PROVE  /\ Told("content", w) = resp.text
                        /\ ~altered => Told("tools", w) = resp.tools
      BY <1>1, <2>1, <2>4 DEF TellsTheAnswer
    <3>1. CASE role
      BY <1>5, <2>3, <3>1
    <3>2. CASE ~role
      BY <2>3, <3>2
    <3> QED
      BY <3>1, <3>2
  <2>7. PhaseInv'
    BY <1>1, <1>5, <2>1, <2>3 DEF PhaseInv
  <2>8. wire \in Seq(Chunks)
    BY <2>2 DEF IsBody
  <2> QED
    BY <1>1, <2>1, <2>3, <2>4, <2>5, <2>6, <2>7, <2>8 DEF WireInv
<1> QED
  BY <1>2, <1>3, <1>4, <1>5

LEMMA FailKeeps ==
  ASSUME PhaseInv, WireInv, phase \in {"route", "local", "cloud"},
         NEW kind, NEW other, Fail(kind, other),
         UNCHANGED <<requestVars, cloud, restarted, altered>>,
         garbled' \in BOOLEAN, tried \subseteq tried'
  PROVE  PhaseInv' /\ WireInv'
<1>1. CASE MayFallBack(other)
  <2>1. /\ phase' = "route" /\ UNCHANGED <<pending, response, wire, role, gone>>
        /\ wire = << >> /\ ~gone
        /\ UNCHANGED <<body, request, verdict, cloud, restarted, altered>>
        /\ Streaming' = Streaming
    BY <1>1 DEF Fail, MayFallBack, wireVars, requestVars, Streaming
  <2>2. PhaseInv'
    BY <2>1 DEF PhaseInv
  <2> QED
    BY <2>1, <2>2 DEF WireInv
<1>2. CASE ~MayFallBack(other)
  <2> DEFINE resp == [NoResponse EXCEPT !.kind = kind]
  <2>1. Respond(resp)
    BY <1>2 DEF Fail, Refuse
  <2>2. resp.ok = FALSE /\ resp.text = << >> /\ resp.tools = << >> /\ << >> \in Texts
    BY EmptySeq DEF NoResponse, Texts
  <2> HIDE DEF resp
  <2>3. resp.ok \in BOOLEAN /\ resp.text \in Texts /\ resp.tools \in Texts /\ ~resp.ok
    BY <2>2
  <2> QED
    BY <2>1, <2>3, RespondKeeps
<1> QED
  BY <1>1, <1>2

-----------------------------------------------------------------------------
(* The steps of a generation *)

LEMMA DeliverTells ==
  ASSUME role \in BOOLEAN, gone \in BOOLEAN, IsBody(wire), role <=> wire # << >>,
         NEW t \in Texts, NEW u \in Texts, Deliver(Contents(t) \o Tools(u), TRUE)
  PROVE  /\ Told("content", wire') = Told("content", wire) \o t
         /\ Told("tools", wire') = Told("tools", wire) \o u
         /\ t # << >> \/ u # << >> => role'
         /\ t = << >> /\ u = << >> => UNCHANGED wireVars
<1> DEFINE c == Contents(t) \o Tools(u)
<1>0. wire \in Seq(Chunks)
  BY DEF IsBody
<1>1. /\ c \in Seq(Chunks)
      /\ \A i \in 1 .. Len(c) : c[i].kind \in {"content", "tools"}
      /\ c = << >> <=> t = << >> /\ u = << >>
      /\ \A w \in Seq(Chunks) :
           /\ Told("content", w \o c) = Told("content", w) \o t
           /\ Told("tools", w \o c) = Told("tools", w) \o u
  BY PairOfDeltas
<1>2. Deliver(c, TRUE)
  OBVIOUS
<1> HIDE DEF c
<1>3. /\ c # << >> => wire' = (wire \o RoleIfNeeded) \o c /\ role'
      /\ c = << >> => UNCHANGED wireVars
  BY <1>1, <1>2, DeliverKeepsBody
<1>4. CASE c = << >>
  <2>1. wire' = wire /\ t = << >> /\ u = << >>
    BY <1>1, <1>3, <1>4 DEF wireVars
  <2>2. Told("content", wire) \in Texts /\ Told("tools", wire) \in Texts
    BY <1>0, ToldIsText
  <2>3. /\ Told("content", wire) \o << >> = Told("content", wire)
        /\ Told("tools", wire) \o << >> = Told("tools", wire)
    BY <2>2, ConcatEmptySeq DEF Texts
  <2> QED
    BY <1>3, <1>4, <2>1, <2>3
<1>5. CASE c # << >>
  <2> DEFINE v == wire \o RoleIfNeeded
  <2>1. /\ v \in Seq(Chunks) /\ Told("content", v) = Told("content", wire)
        /\ Told("tools", v) = Told("tools", wire)
    BY <1>0, RoleOpens
  <2>2. wire' = v \o c /\ role'
    BY <1>3, <1>5
  <2> HIDE DEF v
  <2>3. /\ Told("content", v \o c) = Told("content", v) \o t
        /\ Told("tools", v \o c) = Told("tools", v) \o u
    BY <1>1, <2>1
  <2> QED
    BY <1>1, <1>5, <2>1, <2>2, <2>3
<1> QED
  BY <1>4, <1>5

\* What the callback accepts is what is heard from then on.
LEMMA EmitHeard ==
  ASSUME NEW t \in Texts, NEW end \in Nat, end <= Len(t), streamed \in Nat,
         heard \in Texts, Emit(t, end, TRUE)
  PROVE  LET delta == SubSeq(heard', Len(heard) + 1, Len(heard'))
         IN heard' \in Texts /\ delta \in Texts /\ heard' = heard \o delta
<1>1. CASE end <= streamed
  <2>1. heard' = heard /\ Len(heard) \in Nat
    BY <1>1, LenProperties DEF Emit, Texts
  <2>2. SubSeq(heard, Len(heard) + 1, Len(heard)) = << >>
    BY <2>1, SubSeqEmpty
  <2>3. << >> \in Texts /\ heard \o << >> = heard
    BY EmptySeq, ConcatEmptySeq DEF Texts
  <2> QED
    BY <2>1, <2>2, <2>3
<1>2. CASE ~(end <= streamed)
  <2> DEFINE e == SubSeq(t, streamed + 1, end)
             n == Len(heard)
             whole == heard \o e
  <2>1. heard' = whole
    BY <1>2 DEF Emit, Emitted
  <2>2. e \in Texts
    <3>1. \A i \in streamed + 1 .. end : t[i] \in Characters
      <4> SUFFICES ASSUME NEW i \in streamed + 1 .. end PROVE t[i] \in Characters
        OBVIOUS
      <4>1. i \in 1 .. Len(t)
        BY LenProperties DEF Texts
      <4> QED
        BY <4>1, ElementOfSeq DEF Texts
    <3> QED
      BY <3>1, SubSeqProperties DEF Texts
  <2> HIDE DEF e
  <2>3. /\ n \in Nat /\ Len(e) \in Nat /\ whole \in Texts /\ Len(whole) = n + Len(e)
    BY <2>2, ConcatProperties, LenProperties DEF Texts
  <2>4. SubSeq(whole, 1, n) = heard
    <3>1. SubSeq(heard \o e, 1, n) = SubSeq(heard, 1, n)
      BY <2>2, <2>3, PrefixOfConcat
    <3>2. SubSeq(heard, 1, n) = heard
      BY SubSeqFull DEF Texts
    <3> QED
      BY <3>1, <3>2
  <2> HIDE DEF n, whole
  <2> DEFINE delta == SubSeq(whole, n + 1, Len(whole))
  <2>5. SubSeq(whole, 1, n) \o delta = SubSeq(whole, 1, Len(whole))
    <3>1. 1 \in 1 .. Len(whole) + 1 /\ n \in 1 - 1 .. Len(whole) /\ Len(whole) \in n .. Len(whole)
      BY <2>3
    <3> QED
      BY <2>3, <3>1, ConcatAdjacentSubSeq DEF Texts
  <2>6. SubSeq(whole, 1, Len(whole)) = whole
    BY <2>3, SubSeqFull DEF Texts
  <2>7. delta \in Texts
    <3>1. \A i \in n + 1 .. Len(whole) : whole[i] \in Characters
      <4> SUFFICES ASSUME NEW i \in n + 1 .. Len(whole) PROVE whole[i] \in Characters
        OBVIOUS
      <4>1. i \in 1 .. Len(whole)
        BY <2>3
      <4> QED
        BY <2>3, <4>1, ElementOfSeq DEF Texts
    <3>2. n + 1 \in Int /\ Len(whole) \in Int
      BY <2>3
    <3> QED
      BY <3>1, <3>2, SubSeqProperties DEF Texts
  <2> HIDE DEF delta
  <2>8. whole = heard \o delta
    BY <2>4, <2>5, <2>6
  <2> QED
    BY <2>1, <2>3, <2>7, <2>8 DEF delta, n
<1> QED
  BY <1>1, <1>2

\* A step that calls the callback, and what it gives it.
LEMMA CallbackStep ==
  ASSUME GenerationInv, NEW accepted \in BOOLEAN,
         \/ \E piece \in Pieces : StreamToken(piece, accepted) \/ StreamStop(piece, accepted)
         \/ FinishGeneration(accepted)
  PROVE  LET delta == SubSeq(heard', Len(heard) + 1, Len(heard'))
         IN /\ job' = job /\ gpc # "done"
            /\ ~accepted => gpc' = "done"
            /\ accepted => delta \in Texts /\ heard' = heard \o delta
<1> DEFINE Delta == SubSeq(heard', Len(heard) + 1, Len(heard'))
           Goal == Delta \in Texts /\ heard' = heard \o Delta
<1>0. heard \in Texts /\ text \in Texts /\ streamed \in Nat /\ job \in Jobs
      /\ job.stops \in SUBSET Texts
  BY JobTypes DEF GenerationInv, GenerationTypeOK
<1>1. job' = job /\ gpc # "done" /\ (~accepted => gpc' = "done")
  BY DEF StreamToken, StreamStop, FinishGeneration, Cancel, End
<1>2. ASSUME heard' = heard PROVE Goal
  <2>1. Len(heard) \in Nat
    BY <1>0, LenProperties DEF Texts
  <2>2. Delta = << >>
    BY <1>2, <2>1, SubSeqEmpty
  <2>3. << >> \in Texts /\ heard \o << >> = heard
    BY <1>0, EmptySeq, ConcatEmptySeq DEF Texts
  <2> QED
    BY <1>2, <2>2, <2>3
<1>3. ASSUME NEW t \in Texts, NEW end \in Nat, end <= Len(t), Emit(t, end, TRUE)
      PROVE  Goal
  BY <1>0, <1>3, EmitHeard
<1>4. ASSUME accepted = TRUE PROVE Goal
  <2> HIDE DEF Goal
  <2>1. ASSUME NEW piece \in Pieces, StreamToken(piece, TRUE) PROVE Goal
    <3> DEFINE whole == text \o piece
               end == SafeEnd(job.stops, whole)
    <3>1. whole \in Texts
      BY <1>0, GenerationAssumption, ConcatProperties DEF Texts
    <3>2. Emit(whole, end, TRUE)
      BY <2>1 DEF StreamToken
    <3> HIDE DEF whole
    <3>3. end \in Nat /\ end <= Len(whole)
      BY <1>0, <3>1, SafeEndBounds
    <3> HIDE DEF end
    <3> QED
      BY <1>3, <3>1, <3>2, <3>3
  <2>2. ASSUME NEW piece \in Pieces, StreamStop(piece, TRUE) PROVE Goal
    <3> DEFINE whole == text \o piece
               cut == FirstMatch(job.stops, whole)
    <3>1. whole \in Texts
      BY <1>0, GenerationAssumption, ConcatProperties DEF Texts
    <3>2. Emit(whole, cut, TRUE) /\ Matches(job.stops, whole) # {}
      BY <2>2 DEF StreamStop
    <3> HIDE DEF whole
    <3>3. cut \in Nat /\ cut <= Len(whole)
      <4>1. cut \in 0 .. Len(whole) /\ Len(whole) \in Nat
        BY <1>0, <3>1, <3>2, FirstMatchIsFirst, LenProperties DEF Texts
      <4> QED
        BY <4>1
    <3> HIDE DEF cut
    <3> QED
      BY <1>3, <3>1, <3>2, <3>3
  <2>3. ASSUME FinishGeneration(TRUE) PROVE Goal
    <3>1. CASE job.mode = "stream" /\ ending # "sequence"
      <4> DEFINE n == Len(text)
      <4>1. Emit(text, n, TRUE)
        BY <2>3, <3>1 DEF FinishGeneration
      <4>2. n \in Nat
        BY <1>0, LenProperties DEF Texts
      <4>3. n <= Len(text)
        BY <4>2
      <4> HIDE DEF n
      <4> QED
        BY <1>0, <1>3, <4>1, <4>2, <4>3
    <3>2. CASE ~(job.mode = "stream" /\ ending # "sequence")
      <4>1. heard' = heard
        BY <2>3, <3>2 DEF FinishGeneration
      <4> QED
        BY <1>2, <4>1
    <3> QED
      BY <3>1, <3>2
  <2> QED
    BY <1>4, <2>1, <2>2, <2>3
<1> QED
  BY <1>1, <1>4

LEMMA QuietStep ==
  ASSUME \/ PromptFails \/ DecodePrompt \/ SampleEnd \/ PieceFails
         \/ DecodeToken \/ DecodeFails
         \/ \E piece \in Pieces : SampleToken(piece)
  PROVE  job' = job /\ heard' = heard /\ gpc # "done"
BY DEF PromptFails, DecodePrompt, SampleEnd, PieceFails, DecodeToken, DecodeFails, SampleToken

LEMMA GenerateKeeps ==
  ASSUME GenerationInv, PhaseInv, WireInv, Generate
  PROVE  PhaseInv' /\ WireInv'
<1>1. /\ phase = "local" /\ verdict = "accepted"
      /\ UNCHANGED <<phase, tried, pending, response, body, request, verdict>>
      /\ UNCHANGED <<cloud, restarted, altered, garbled>> /\ Streaming' = Streaming
      /\ JobOf(request)' = JobOf(request)
  BY DEF Generate, serviceVars, requestVars, cloudVars, Streaming, PhaseInv, JobOf
<1>2. CASE /\ \/ PromptFails \/ DecodePrompt \/ SampleEnd \/ PieceFails
              \/ DecodeToken \/ DecodeFails
              \/ \E piece \in Pieces : SampleToken(piece)
           /\ UNCHANGED wireVars
  <2>1. UNCHANGED <<wire, role, gone, job, heard>> /\ gpc # "done"
    BY <1>2, QuietStep DEF wireVars
  <2> QED
    BY <1>1, <2>1 DEF PhaseInv, WireInv
<1>3. ASSUME NEW accepted \in BOOLEAN,
             \/ \E piece \in Pieces :
                  StreamToken(piece, accepted) \/ StreamStop(piece, accepted)
             \/ FinishGeneration(accepted),
             Deliver(IF accepted THEN Contents(Taken) ELSE <<Content(<< >>)>>, accepted)
      PROVE  PhaseInv' /\ WireInv'
  <2> DEFINE delta == SubSeq(heard', Len(heard) + 1, Len(heard'))
  <2>1. /\ job' = job /\ gpc # "done"
        /\ ~accepted => gpc' = "done"
        /\ accepted => delta \in Texts /\ heard' = heard \o delta
    BY <1>3, CallbackStep
  <2>2. role' \in BOOLEAN /\ gone' \in BOOLEAN
    BY <1>3 DEF Deliver, wireVars, PhaseInv
  <2>3. PhaseInv'
    BY <1>1, <2>1, <2>2 DEF PhaseInv
  <2>4. ASSUME Streaming PROVE WireInv'
    <3>1. /\ IsBody(wire) /\ (role <=> wire # << >>) /\ role \in BOOLEAN /\ gone = FALSE
          /\ Told("content", wire) = heard /\ Told("tools", wire) = << >>
      BY <1>1, <2>1, <2>4 DEF WireInv, PhaseInv
    <3>2. CASE accepted = FALSE
      <4> DEFINE c == <<Content(<< >>)>>
      <4>1. Deliver(c, FALSE)
        BY <1>3, <3>2
      <4>2. c \in Seq(Chunks) /\ \A i \in 1 .. Len(c) : c[i].kind \in {"content", "tools"}
        <5>1. << >> \in Texts
          BY EmptySeq DEF Texts
        <5> QED
          BY <5>1, ChunkTypes
      <4> HIDE DEF c
      <4>3. IsBody(wire') /\ (role' <=> wire' # << >>) /\ gone'
        BY <3>1, <4>1, <4>2, DeliverKeepsBody
      <4>4. wire' \in Seq(Chunks) /\ << >> \in Seq(Chunks) /\ IsStream(wire' \o << >>)
        BY <4>3, StreamOfBody
      <4>5. pending' = << >>
        BY <1>1 DEF PhaseInv
      <4> QED
        BY <1>1, <2>1, <3>2, <4>3, <4>4, <4>5 DEF WireInv
    <3>3. CASE accepted = TRUE
      <4> DEFINE c == Contents(delta) \o Tools(<< >>)
      <4>1. delta \in Texts /\ << >> \in Texts /\ heard' = heard \o delta
        BY <2>1, <3>3, EmptySeq DEF Texts
      <4> HIDE DEF delta
      <4>2. Contents(delta) = c
        <5>1. Contents(delta) \in Seq(Chunks)
          BY <4>1, ToldDeltas, EmptySeq
        <5>2. Tools(<< >>) = << >>
          BY DEF Tools
        <5> QED
          BY <5>1, <5>2, ConcatEmptySeq
      <4>3. Deliver(c, TRUE)
        BY <1>3, <3>3, <4>2 DEF delta, Taken
      <4>4. c \in Seq(Chunks) /\ \A i \in 1 .. Len(c) : c[i].kind \in {"content", "tools"}
        BY <4>1, PairOfDeltas
      <4>5. /\ Told("content", wire') = Told("content", wire) \o delta
            /\ Told("tools", wire') = Told("tools", wire) \o << >>
        BY <3>1, <4>1, <4>3, DeliverTells
      <4> HIDE DEF c
      <4>6. /\ IsBody(wire') /\ (role' <=> wire' # << >>)
            /\ c # << >> => ~gone'
            /\ c = << >> => UNCHANGED wireVars
        BY <3>1, <4>3, <4>4, DeliverKeepsBody
      <4>7. gone' = FALSE
        BY <2>2, <3>1, <4>6 DEF wireVars
      <4>8. Told("content", wire') = heard' /\ Told("tools", wire') = << >>
        BY <3>1, <4>1, <4>5, ConcatEmptySeq, EmptySeq
      <4>9. wire' \in Seq(Chunks) /\ << >> \in Seq(Chunks) /\ IsStream(wire' \o << >>)
        BY <4>6, StreamOfBody
      <4>10. pending' = << >>
        BY <1>1 DEF PhaseInv
      <4> QED
        BY <1>1, <4>6, <4>7, <4>8, <4>9, <4>10 DEF WireInv
    <3> QED
      BY <3>2, <3>3
  <2> QED
    BY <1>1, <2>3, <2>4 DEF WireInv
<1> QED
  BY <1>2, <1>3, Zenon DEF Generate

\* An exception out of the callback leaves the role and what was written before.
LEMMA ContentThrowsKeeps ==
  ASSUME GenerationInv, PhaseInv, WireInv, ContentThrows
  PROVE  PhaseInv' /\ WireInv'
<1>1. /\ phase = "local" /\ verdict = "accepted" /\ phase' = "threw" /\ pending' = << >>
      /\ UNCHANGED <<tried, response, body, request, verdict, gone>>
      /\ UNCHANGED <<cloud, restarted, altered, garbled>> /\ Streaming' = Streaming
      /\ wire' = wire \o RoleIfNeeded /\ role' = TRUE
  BY DEF ContentThrows, Throw, requestVars, cloudVars, Streaming, PhaseInv
<1>2. PhaseInv'
  BY <1>1 DEF PhaseInv
<1>3. ASSUME Streaming PROVE WireInv'
  <2>1. IsBody(wire) /\ (role <=> wire # << >>) /\ role \in BOOLEAN
    BY <1>1, <1>3 DEF WireInv, PhaseInv
  <2>2. IsBody(wire') /\ wire' # << >>
    BY <1>1, <2>1, BodyOpens
  <2>3. wire' \in Seq(Chunks) /\ << >> \in Seq(Chunks) /\ IsStream(wire' \o << >>)
    BY <2>2, StreamOfBody
  <2> QED
    BY <1>1, <2>2, <2>3 DEF WireInv
<1> QED
  BY <1>1, <1>2, <1>3 DEF WireInv

LEMMA LocalReturnsKeeps ==
  ASSUME GenerationInv, PhaseInv, WireInv, LocalReturns
  PROVE  PhaseInv' /\ WireInv'
<1>1. /\ phase = "local" /\ verdict = "accepted" /\ UNCHANGED requestVars
      /\ UNCHANGED <<cloud, restarted, altered>> /\ garbled' \in BOOLEAN
      /\ tried \subseteq tried' /\ job = JobOf(request)
  BY DEF LocalReturns, PhaseInv, cloudVars
<1>2. CASE outcome = "ok"
  <2> DEFINE resp == [ok |-> TRUE, kind |-> "none", text |-> answer, tools |-> << >>,
                      finish |-> FinishReason]
  <2>1. Respond(resp)
    BY <1>2 DEF LocalReturns
  <2>2. resp.ok = TRUE /\ resp.text = answer /\ resp.tools = << >>
    OBVIOUS
  <2>3. answer \in Texts /\ << >> \in Texts
    BY EmptySeq DEF GenerationInv, GenerationTypeOK, Texts
  <2>4. ASSUME Streaming, ~gone
        PROVE  Told("content", wire) = answer /\ Told("tools", wire) = << >>
    <3>1. job.mode = "stream"
      BY <1>1, <2>4 DEF JobOf, Streaming
    <3>2. heard = answer
      BY <1>2, <3>1 DEF GenerationInv, OutcomeInv
    <3> QED
      BY <1>1, <2>4, <3>2 DEF WireInv
  <2> HIDE DEF resp
  <2>5. resp.ok \in BOOLEAN /\ resp.text \in Texts /\ resp.tools \in Texts
    BY <2>2, <2>3
  <2>6. Streaming /\ ~gone /\ resp.ok /\ ~restarted /\ role =>
          /\ Told("content", wire) = resp.text
          /\ ~altered => Told("tools", wire) = resp.tools
    BY <2>2, <2>4
  <2> QED
    BY <1>1, <2>1, <2>5, <2>6, RespondKeeps
<1>3. CASE outcome # "ok"
  BY <1>1, <1>3, FailKeeps DEF LocalReturns
<1> QED
  BY <1>2, <1>3

-----------------------------------------------------------------------------
(* The steps of a cloud call *)

LEMMA CloudPieceIsText ==
  ASSUME NEW piece \in CloudPieces \cup {<< >>} PROVE piece \in Texts
BY ServiceAssumption, EmptySeq DEF Texts

LEMMA LongerIsNotEmpty ==
  ASSUME NEW t \in Texts, NEW u \in Texts, u # << >>
  PROVE  t \o u \in Texts /\ t \o u # << >>
<1>1. /\ t \o u \in Texts /\ Len(t \o u) = Len(t) + Len(u) /\ Len(t) \in Nat
      /\ Len(u) \in Nat /\ Len(u) # 0
  BY ConcatProperties, LenProperties, EmptySeq DEF Texts
<1> QED
  BY <1>1, EmptySeq

\* What an event makes of the answer.
Grown(piece, fragment, asText) ==
  [text |-> cloud.text \o piece, tools |-> MergeArguments(cloud.tools, fragment, asText)]

LEMMA CloudAnswerGrows ==
  ASSUME cloud \in [text : Texts, tools : Texts], NEW piece \in Texts, NEW fragment \in Texts,
         NEW asText \in BOOLEAN, piece # << >> \/ fragment # << >>,
         fragment = << >> => asText
  PROVE  /\ Grown(piece, fragment, asText) \in [text : Texts, tools : Texts]
         /\ Grown(piece, fragment, asText) # NoAnswer
<1> DEFINE tools == MergeArguments(cloud.tools, fragment, asText)
           text_ == cloud.text \o piece
<1>1. cloud.text \in Texts /\ cloud.tools \in Texts
  OBVIOUS
<1>2. text_ \in Texts /\ (piece # << >> => text_ # << >>)
  <2>1. text_ \in Texts
    BY <1>1, ConcatProperties DEF Texts
  <2> QED
    BY <1>1, <2>1, LongerIsNotEmpty
<1>3. tools \in Texts /\ (fragment # << >> => tools # << >>)
  <2>1. cloud.tools \o fragment \in Texts
    BY <1>1, ConcatProperties DEF Texts
  <2>2. fragment # << >> => cloud.tools \o fragment # << >>
    BY <1>1, LongerIsNotEmpty
  <2> QED
    BY <2>1, <2>2 DEF MergeArguments
<1>4. Grown(piece, fragment, asText) = [text |-> text_, tools |-> tools]
  BY DEF Grown
<1> HIDE DEF tools, text_
<1> QED
  BY <1>2, <1>3, <1>4 DEF NoAnswer

LEMMA CloudDeltaKeeps ==
  ASSUME PhaseInv, WireInv, NEW piece \in CloudPieces \cup {<< >>},
         NEW fragment \in CloudPieces \cup {<< >>}, NEW asText \in BOOLEAN,
         NEW accepted \in BOOLEAN, CloudDelta(piece, fragment, asText, accepted)
  PROVE  PhaseInv' /\ WireInv'
<1>0. piece \in Texts /\ fragment \in Texts
  BY CloudPieceIsText
<1>1. /\ phase = "cloud" /\ verdict = "accepted" /\ gone = FALSE /\ "cloud" \in tried
      /\ piece # << >> \/ fragment # << >>
      /\ UNCHANGED <<phase, tried, pending, response, body, request, verdict>>
      /\ UNCHANGED <<restarted, garbled>>
      /\ Streaming' = Streaming /\ pending = << >>
  BY DEF CloudDelta, serviceVars, requestVars, Streaming, PhaseInv
<1>9. cloud \in [text : Texts, tools : Texts]
  BY DEF PhaseInv
<1>10. PICK next : next = Grown(piece, fragment, asText)
  OBVIOUS
<1>2. /\ next \in [text : Texts, tools : Texts] /\ next # NoAnswer
      /\ next.text = cloud.text \o piece
  <2>1. next.text = cloud.text \o piece
    BY <1>10 DEF Grown
  <2>2. fragment = << >> => asText
    BY DEF CloudDelta
  <2> QED
    BY <1>0, <1>1, <1>9, <1>10, <2>1, <2>2, CloudAnswerGrows
<1>3. IF accepted
      THEN /\ cloud' = next
           /\ altered' = (altered \/ cloud'.tools # cloud.tools \o fragment)
      ELSE UNCHANGED <<cloud, altered>>
  BY <1>10 DEF CloudDelta, Grown
<1>4. role' \in BOOLEAN /\ gone' \in BOOLEAN
  BY DEF CloudDelta, Deliver, wireVars, PhaseInv
<1>5. PhaseInv'
  <2>1. altered' \in BOOLEAN /\ cloud' \in [text : Texts, tools : Texts]
    BY <1>2, <1>3 DEF PhaseInv
  <2> QED
    BY <1>1, <1>4, <2>1 DEF PhaseInv
<1>6. ASSUME Streaming PROVE WireInv'
  <2> DEFINE c == Contents(piece) \o Tools(fragment)
  <2>1. Deliver(c, accepted)
    BY <1>6 DEF CloudDelta
  <2>2. IsBody(wire) /\ (role <=> wire # << >>) /\ role \in BOOLEAN
    BY <1>1, <1>6 DEF WireInv, PhaseInv
  <2>3. c \in Seq(Chunks) /\ \A i \in 1 .. Len(c) : c[i].kind \in {"content", "tools"}
    BY <1>0, PairOfDeltas
  <2>4. c # << >>
    BY <1>0, <1>1, PairOfDeltas
  <2>5. accepted = TRUE =>
          /\ Told("content", wire') = Told("content", wire) \o piece
          /\ Told("tools", wire') = Told("tools", wire) \o fragment
    BY <1>0, <1>1, <2>1, <2>2, DeliverTells
  <2> HIDE DEF c
  <2>6. /\ IsBody(wire') /\ (role' <=> wire' # << >>)
        /\ ~accepted => gone'
    BY <1>1, <2>1, <2>2, <2>3, DeliverKeepsBody
  <2>7. wire' \in Seq(Chunks) /\ << >> \in Seq(Chunks) /\ IsStream(wire' \o << >>)
    BY <2>6, StreamOfBody
  <2>8. ASSUME ~gone', ~restarted
        PROVE  /\ Told("content", wire') = cloud'.text
               /\ ~altered' => Told("tools", wire') = cloud'.tools
               /\ cloud' # NoAnswer
    <3>1. accepted = TRUE
      BY <2>6, <2>8
    <3>2. Told("content", wire) = cloud.text /\ (~altered => Told("tools", wire) = cloud.tools)
      BY <1>1, <1>6, <2>8 DEF WireInv
    <3> QED
      BY <1>1, <1>2, <1>3, <2>5, <3>1, <3>2
  <2> QED
    BY <1>1, <2>6, <2>7, <2>8 DEF WireInv
<1>7. Streaming \/ WireInv'
  BY <1>1 DEF WireInv
<1> QED
  BY <1>5, <1>6, <1>7

LEMMA CloudRestartKeeps ==
  ASSUME PhaseInv, WireInv, CloudRestart PROVE PhaseInv' /\ WireInv'
<1>1. /\ phase = "cloud" /\ "cloud" \in tried /\ restarted' = TRUE /\ cloud' = NoAnswer
      /\ UNCHANGED <<phase, tried, pending, response, body, request, verdict, altered, garbled>>
      /\ UNCHANGED <<wire, role, gone>> /\ Streaming' = Streaming
  BY DEF CloudRestart, serviceVars, requestVars, wireVars, Streaming, PhaseInv
<1>2. NoAnswer \in [text : Texts, tools : Texts]
  BY EmptySeq DEF NoAnswer, Texts
<1>3. PhaseInv'
  BY <1>1, <1>2 DEF PhaseInv
<1>4. WireInv'
  BY <1>1 DEF WireInv
<1> QED
  BY <1>3, <1>4

LEMMA CloudAnswersKeep ==
  ASSUME PhaseInv, WireInv,
         \/ CloudSucceeds
         \/ \E piece, fragment \in CloudPieces \cup {<< >>} :
              CloudWhole([text |-> piece, tools |-> fragment])
  PROVE  PhaseInv' /\ WireInv'
<1>1. ASSUME NEW reply \in [text : Texts, tools : Texts], phase = "cloud",
             Respond(CloudAnswer(reply)), UNCHANGED <<tried, requestVars, cloudVars>>,
             reply = cloud \/ cloud = NoAnswer
      PROVE  PhaseInv' /\ WireInv'
  <2> DEFINE resp == CloudAnswer(reply)
  <2>1. /\ resp.ok = TRUE /\ resp.text = reply.text /\ resp.tools = reply.tools
        /\ resp.ok \in BOOLEAN /\ resp.text \in Texts /\ resp.tools \in Texts
    BY DEF CloudAnswer
  <2>2. Respond(resp) /\ tried \subseteq tried' /\ garbled' \in BOOLEAN
        /\ UNCHANGED <<requestVars, cloud, restarted, altered>>
    BY <1>1 DEF cloudVars, PhaseInv
  <2> HIDE DEF resp
  <2>3. Streaming /\ ~gone /\ resp.ok /\ ~restarted /\ role =>
          /\ Told("content", wire) = resp.text
          /\ ~altered => Told("tools", wire) = resp.tools
    BY <1>1, <2>1 DEF WireInv
  <2> QED
    BY <1>1, <2>1, <2>2, <2>3, RespondKeeps
<1>2. CASE CloudSucceeds
  <2>1. cloud \in [text : Texts, tools : Texts]
    BY DEF PhaseInv
  <2> QED
    BY <1>1, <1>2, <2>1 DEF CloudSucceeds
<1>3. ASSUME NEW piece \in CloudPieces \cup {<< >>}, NEW fragment \in CloudPieces \cup {<< >>},
             CloudWhole([text |-> piece, tools |-> fragment])
      PROVE  PhaseInv' /\ WireInv'
  <2> DEFINE reply == [text |-> piece, tools |-> fragment]
  <2>1. reply \in [text : Texts, tools : Texts]
    BY CloudPieceIsText
  <2>2. CloudWhole(reply)
    BY <1>3
  <2> HIDE DEF reply
  <2> QED
    BY <1>1, <2>1, <2>2 DEF CloudWhole
<1> QED
  BY <1>2, <1>3

LEMMA FailuresKeep ==
  ASSUME PhaseInv, WireInv,
         \/ \E quoting \in BOOLEAN : CloudFails(quoting)
         \/ LocalUnavailable \/ CloudUnavailable \/ Invalid
  PROVE  PhaseInv' /\ WireInv'
<1>1. ASSUME NEW quoting \in BOOLEAN, CloudFails(quoting) PROVE PhaseInv' /\ WireInv'
  <2>1. Fail("cloud_failure", "local") /\ phase = "cloud" /\ garbled' \in BOOLEAN
        /\ tried \subseteq tried' /\ UNCHANGED <<requestVars, cloud, restarted, altered>>
    BY <1>1 DEF CloudFails
  <2> QED
    BY <2>1, FailKeeps
<1>2. CASE LocalUnavailable
  <2>1. Fail(IF LocalSupports THEN "local_unavailable" ELSE "unsupported_feature", "cloud")
        /\ phase = "route" /\ tried \subseteq tried' /\ garbled' \in BOOLEAN
        /\ UNCHANGED <<requestVars, cloud, restarted, altered>>
    BY <1>2 DEF LocalUnavailable, Turn, cloudVars, PhaseInv
  <2> QED
    BY <2>1, FailKeeps
<1>3. CASE CloudUnavailable
  <2>1. Fail("cloud_unavailable", "local") /\ phase = "route" /\ tried \subseteq tried'
        /\ garbled' \in BOOLEAN /\ UNCHANGED <<requestVars, cloud, restarted, altered>>
    BY <1>3 DEF CloudUnavailable, Turn, cloudVars, PhaseInv
  <2> QED
    BY <2>1, FailKeeps
<1>4. CASE Invalid
  <2> DEFINE resp == [NoResponse EXCEPT !.kind = "invalid_request"]
  <2>1. Respond(resp) /\ phase = "route" /\ garbled' \in BOOLEAN
        /\ UNCHANGED <<tried, requestVars, cloud, restarted, altered>>
    BY <1>4 DEF Invalid, Refuse, cloudVars, PhaseInv
  <2>2. resp.ok = FALSE /\ resp.text \in Texts /\ resp.tools \in Texts
    BY EmptySeq DEF NoResponse, Texts
  <2> HIDE DEF resp
  <2>3. resp.ok \in BOOLEAN /\ ~resp.ok /\ tried \subseteq tried'
    BY <2>1, <2>2
  <2> QED
    BY <2>1, <2>2, <2>3, RespondKeeps
<1> QED
  BY <1>1, <1>2, <1>3, <1>4

LEMMA NoChunksYet ==
  /\ << >> \in Seq(Chunks) /\ IsBody(<< >>) /\ << >> \o << >> = << >> /\ IsStream(<< >> \o << >>)
  /\ Told("content", << >>) = << >> /\ Told("tools", << >>) = << >>
<1>1. << >> \in Seq(Chunks) /\ Len(<< >>) = 0
  BY EmptySeq
<1>2. IsBody(<< >>)
  BY <1>1 DEF IsBody
<1> QED
  BY <1>1, <1>2, StreamOfBody, ToldEmpty

LEMMA InitKeeps == Init => PhaseInv /\ WireInv
<1> SUFFICES ASSUME Init PROVE PhaseInv /\ WireInv
  OBVIOUS
<1>1. NoAnswer \in [text : Texts, tools : Texts]
  BY EmptySeq DEF NoAnswer, Texts
<1>2. verdict = "none"
  BY DEF Init, RequestInit
<1> QED
  BY <1>1, <1>2 DEF Init, PhaseInv, WireInv, Streaming

LEMMA OpeningKeeps ==
  ASSUME PhaseInv, WireInv, Boot \/ Accept \/ \E quoting \in BOOLEAN : Reject(quoting)
  PROVE  PhaseInv' /\ WireInv'
<1>1. CASE Boot
  <2>1. /\ phase' \in {"boot", "parse"} /\ verdict = "none" /\ phase = "boot"
        /\ UNCHANGED <<tried, pending, response, body, request, verdict>>
        /\ UNCHANGED <<wire, role, gone, cloud, restarted, altered, garbled>>
    BY <1>1 DEF Boot, PhaseInv, requestVars, wireVars, cloudVars
  <2> QED
    BY <2>1 DEF PhaseInv, WireInv, Streaming
<1>2. CASE Accept
  <2>1. /\ phase = "parse" /\ phase' = "route" /\ verdict' = "accepted"
        /\ UNCHANGED <<tried, pending, response, wire, role, gone>>
        /\ UNCHANGED <<cloud, restarted, altered, garbled>>
    BY <1>2 DEF Accept, AcceptBody, wireVars, cloudVars
  <2>2. wire = << >> /\ pending = << >> /\ role = FALSE /\ gone = FALSE
    BY <2>1 DEF PhaseInv
  <2>3. PhaseInv'
    BY <2>1, <2>2 DEF PhaseInv
  <2> QED
    BY <2>1, <2>2, <2>3, NoChunksYet DEF WireInv
<1>3. ASSUME NEW quoting \in BOOLEAN, Reject(quoting) PROVE PhaseInv' /\ WireInv'
  <2>1. /\ phase = "parse" /\ phase' \in {"closed", "threw"} /\ verdict' = "rejected"
        /\ UNCHANGED <<tried, pending, response, role, gone>>
        /\ UNCHANGED <<cloud, restarted, altered, garbled>>
    BY <1>3 DEF Reject, RejectBody, cloudVars
  <2> QED
    BY <2>1 DEF PhaseInv, WireInv, Streaming
<1> QED
  BY <1>1, <1>2, <1>3

LEMMA ServeLocalKeeps ==
  ASSUME GenerationInv, PhaseInv, WireInv, ServeLocal
  PROVE  PhaseInv' /\ WireInv'
<1>1. /\ phase = "route" /\ phase' = "local" /\ tried \subseteq tried'
      /\ job' = JobOf(request) /\ gpc' = "prompt" /\ heard' = heard /\ gpc = "idle"
      /\ UNCHANGED <<pending, response, body, request, verdict, wire, role, gone>>
      /\ UNCHANGED <<cloud, restarted, altered, garbled>>
      /\ Streaming' = Streaming /\ JobOf(request)' = JobOf(request)
  BY DEF ServeLocal, Turn, StartGeneration, requestVars, wireVars, cloudVars, Streaming, JobOf
<1>2. wire = << >> /\ gone = FALSE /\ pending = << >> /\ verdict = "accepted"
  BY <1>1 DEF PhaseInv
<1>3. heard = << >>
  <2>1. text = << >> /\ streamed = 0 /\ heard = SubSeq(text, 1, streamed)
    BY <1>1 DEF GenerationInv, StreamInv, HeardInv, Active
  <2> QED
    BY <2>1, EmptySeq
<1>4. PhaseInv'
  BY <1>1, <1>2 DEF PhaseInv
<1>5. ASSUME Streaming PROVE WireInv'
  <2>1. IsBody(wire) /\ (role <=> wire # << >>)
    BY <1>1, <1>5 DEF WireInv
  <2> QED
    BY <1>1, <1>2, <1>3, <2>1, NoChunksYet DEF WireInv
<1>6. Streaming \/ WireInv'
  BY <1>1 DEF WireInv
<1> QED
  BY <1>4, <1>5, <1>6

LEMMA ServeCloudKeeps ==
  ASSUME PhaseInv, WireInv, ServeCloud
  PROVE  PhaseInv' /\ WireInv'
<1>1. /\ phase = "route" /\ phase' = "cloud" /\ tried' = tried \cup {"cloud"}
      /\ "cloud" \notin tried
      /\ UNCHANGED <<pending, response, body, request, verdict, wire, role, gone>>
      /\ UNCHANGED <<cloud, restarted, altered, garbled>>
      /\ Streaming' = Streaming
  BY DEF ServeCloud, Turn, requestVars, wireVars, cloudVars, Streaming
<1>2. wire = << >> /\ gone = FALSE /\ pending = << >> /\ verdict = "accepted"
      /\ cloud = NoAnswer /\ restarted = FALSE /\ altered = FALSE
  BY <1>1 DEF PhaseInv
<1>3. PhaseInv'
  BY <1>1, <1>2 DEF PhaseInv
<1>4. ASSUME Streaming PROVE WireInv'
  <2>1. IsBody(wire) /\ (role <=> wire # << >>)
    BY <1>1, <1>4 DEF WireInv
  <2>2. cloud.text = << >> /\ cloud.tools = << >> /\ role = FALSE
    BY <1>2, <2>1 DEF NoAnswer, PhaseInv
  <2> QED
    BY <1>1, <1>2, <2>1, <2>2, NoChunksYet DEF WireInv
<1>5. Streaming \/ WireInv'
  BY <1>1 DEF WireInv
<1> QED
  BY <1>3, <1>4, <1>5

\* A chunk that was to be written has been written.
LEMMA HeadMoves ==
  ASSUME NEW a \in Seq(Chunks), NEW b \in Seq(Chunks), b # << >>
  PROVE  /\ Append(a, Head(b)) \in Seq(Chunks) /\ Tail(b) \in Seq(Chunks)
         /\ Append(a, Head(b)) \o Tail(b) = a \o b
<1>1. Head(b) \in Chunks /\ Tail(b) \in Seq(Chunks) /\ b = <<Head(b)>> \o Tail(b)
  BY HeadTailProperties
<1>2. <<Head(b)>> \in Seq(Chunks) /\ Append(a, Head(b)) \in Seq(Chunks)
      /\ Append(a, Head(b)) = a \o <<Head(b)>>
  BY <1>1, AppendProperties, AppendIsConcat
<1>3. (a \o <<Head(b)>>) \o Tail(b) = a \o (<<Head(b)>> \o Tail(b))
  BY <1>1, <1>2, ConcatAssociative
<1> QED
  BY <1>1, <1>2, <1>3

LEMMA WriteNextKeeps ==
  ASSUME PhaseInv, WireInv, NEW accepted \in BOOLEAN, WriteNext(accepted)
  PROVE  PhaseInv' /\ WireInv'
<1>1. /\ phase = "writing" /\ verdict = "accepted" /\ pending # << >> /\ gone = FALSE
      /\ UNCHANGED <<tried, response, body, request, verdict, cloud, restarted, altered, garbled>>
      /\ Streaming' = Streaming
      /\ phase' = IF pending' = << >> THEN "closed" ELSE "writing"
      /\ role \in BOOLEAN
  BY DEF WriteNext, PhaseInv, requestVars, cloudVars, Streaming
<1>2. "cloud" \notin tried => cloud = NoAnswer /\ ~restarted /\ ~altered
  BY DEF PhaseInv
<1>3. CASE accepted
  <2>1. /\ wire' = Append(wire, Head(pending)) /\ pending' = Tail(pending) /\ gone' = FALSE
        /\ role' = (role \/ Head(pending).kind = "role")
    BY <1>1, <1>3 DEF WriteNext
  <2>2. PhaseInv'
    <3>1. role' \in BOOLEAN
      BY <1>1, <2>1
    <3> QED
      BY <1>1, <2>1, <3>1 DEF PhaseInv
  <2>3. ASSUME Streaming PROVE WireInv'
    <3>1. /\ wire \in Seq(Chunks) /\ pending \in Seq(Chunks) /\ IsStream(wire \o pending)
          /\ EndsWell(wire \o pending) /\ TellsTheAnswer(wire \o pending)
      BY <1>1, <2>3 DEF WireInv
    <3>2. wire' \in Seq(Chunks) /\ pending' \in Seq(Chunks)
          /\ wire' \o pending' = wire \o pending
      BY <1>1, <2>1, <3>1, HeadMoves
    <3>3. (EndsWell(wire \o pending))' /\ (TellsTheAnswer(wire \o pending))'
      BY <1>1, <3>1, <3>2 DEF EndsWell, TellsTheAnswer
    <3>4. phase' \notin {"route", "local", "cloud", "threw"}
      BY <1>1
    <3> QED
      BY <3>1, <3>2, <3>3, <3>4 DEF WireInv
  <2> QED
    BY <1>1, <2>2, <2>3 DEF WireInv
<1>4. CASE ~accepted
  <2>1. /\ wire' = wire /\ role' = role /\ pending' = << >> /\ gone' = TRUE
        /\ phase' = "closed"
    BY <1>1, <1>4 DEF WriteNext
  <2>2. PhaseInv'
    BY <1>1, <2>1 DEF PhaseInv
  <2>3. ASSUME Streaming PROVE WireInv'
    <3>1. wire \in Seq(Chunks) /\ pending \in Seq(Chunks) /\ IsStream(wire \o pending)
      BY <2>3 DEF WireInv
    <3>2. IsStream(wire) /\ wire \o << >> = wire /\ << >> \in Seq(Chunks)
      BY <3>1, StreamPrefix, ConcatEmptySeq, EmptySeq
    <3> QED
      BY <2>1, <3>1, <3>2 DEF WireInv
  <2> QED
    BY <1>1, <2>2, <2>3 DEF WireInv
<1> QED
  BY <1>3, <1>4

LEMMA WireStep ==
  ASSUME GenerationInv, PhaseInv, WireInv, [Next]_vars
  PROVE  PhaseInv' /\ WireInv'
<1>1. CASE Boot \/ Accept \/ \E quoting \in BOOLEAN : Reject(quoting)
  BY <1>1, OpeningKeeps
<1>2. CASE \/ \E quoting \in BOOLEAN : CloudFails(quoting)
           \/ LocalUnavailable \/ CloudUnavailable \/ Invalid
  BY <1>2, FailuresKeep
<1>3. CASE ServeLocal
  BY <1>3, ServeLocalKeeps
<1>4. CASE Generate \/ ContentThrows
  BY <1>4, GenerateKeeps, ContentThrowsKeeps
<1>5. CASE LocalReturns
  BY <1>5, LocalReturnsKeeps
<1>6. CASE ServeCloud
  BY <1>6, ServeCloudKeeps
<1>7. ASSUME NEW piece \in CloudPieces \cup {<< >>}, NEW fragment \in CloudPieces \cup {<< >>},
             NEW asText \in BOOLEAN, NEW accepted \in BOOLEAN,
             CloudDelta(piece, fragment, asText, accepted)
      PROVE  PhaseInv' /\ WireInv'
  BY <1>7, CloudDeltaKeeps
<1>8. ASSUME NEW piece \in CloudPieces \cup {<< >>}, NEW fragment \in CloudPieces \cup {<< >>},
             CloudWhole([text |-> piece, tools |-> fragment])
      PROVE  PhaseInv' /\ WireInv'
  <2>1. \E p, f \in CloudPieces \cup {<< >>} : CloudWhole([text |-> p, tools |-> f])
    BY <1>8
  <2> QED
    BY <2>1, CloudAnswersKeep
<1>9. CASE CloudRestart
  BY <1>9, CloudRestartKeeps
<1>10. CASE CloudSucceeds
  BY <1>10, CloudAnswersKeep
<1>11. ASSUME NEW accepted \in BOOLEAN, WriteNext(accepted) PROVE PhaseInv' /\ WireInv'
  BY <1>11, WriteNextKeeps
<1>12. CASE UNCHANGED vars
  BY <1>12 DEF vars, requestVars, generationVars, serviceVars, wireVars, cloudVars,
     PhaseInv, WireInv, Streaming, JobOf, EndsWell, TellsTheAnswer
<1> QED
  BY <1>1, <1>2, <1>3, <1>4, <1>5, <1>6, <1>7, <1>8, <1>9, <1>10, <1>11, <1>12, Zenon DEF Next

-----------------------------------------------------------------------------
(* The request and its generation *)

LEMMA RequestStep ==
  ASSUME ConfigInv, RequestInv, [Next]_vars
  PROVE  RequestInv'
<1>1. CASE Accept
  <2>1. /\ BodyOk(body) /\ request' = Parsed(body) /\ body' = body /\ body \in Bodies
    BY <1>1 DEF Accept, AcceptBody, RequestInv
  <2>2. Limit(body) \in DOMAIN Amounts
    <3>1. \A key \in DOMAIN body \cap {"max_tokens", "max_completion_tokens"} :
             AsInt(body[key][2]) \in DOMAIN Amounts
      BY <2>1, ServiceAssumption
    <3>2. config.generation.max_completion_tokens \in DOMAIN Amounts
      BY DEF ConfigInv, WellShaped
    <3> QED
      BY <3>1, <3>2 DEF Limit, Has
  <2> DEFINE mode == IF Parsed(body).stream = "true" THEN "stream" ELSE "buffered"
  <2>3. mode \in {"stream", "buffered"}
    OBVIOUS
  <2>4. JobOf(Parsed(body)) =
          [mode |-> mode, stops |-> Stops(body), limit |-> Amounts[Limit(body)],
           prompt |-> PromptTokens]
    BY DEF JobOf, Parsed
  <2> HIDE DEF mode
  <2>5. JobOf(Parsed(body)) \in Jobs
    BY <2>1, <2>2, <2>3, <2>4, ServiceAssumption
  <2>6. JobOf(request)' = JobOf(Parsed(body))
    BY <2>1 DEF JobOf
  <2> QED
    BY <2>1, <2>5, <2>6 DEF RequestInv
<1>2. CASE \E quoting \in BOOLEAN : Reject(quoting)
  BY <1>2 DEF Reject, RejectBody, RequestInv
<1>3. CASE UNCHANGED requestVars
  BY <1>3 DEF requestVars, RequestInv, JobOf
<1>4. Accept \/ (\E quoting \in BOOLEAN : Reject(quoting)) \/ UNCHANGED requestVars
  BY DEF Next, vars, Boot, Invalid, ServeLocal, LocalUnavailable, Generate, ContentThrows,
     LocalReturns, ServeCloud, CloudUnavailable, CloudDelta, CloudWhole, CloudRestart,
     CloudSucceeds, CloudFails, WriteNext
<1> QED
  BY <1>1, <1>2, <1>3, <1>4

LEMMA GenerationStep ==
  ASSUME GenerationInv, PhaseInv, RequestInv, [Next]_vars
  PROVE  GenerationInv'
<1>1. CASE ServeLocal
  <2>1. JobOf(request) \in Jobs /\ StartGeneration(JobOf(request))
    BY <1>1 DEF ServeLocal, Turn, PhaseInv, RequestInv
  <2> QED
    BY <2>1, StartGenerationStep
<1>2. CASE Generate \/ ContentThrows
  <2>1. GenerationNext
    BY <1>2 DEF Generate, ContentThrows, GenerationNext
  <2> QED
    BY <2>1, GenerationInvIsInductive
<1>3. CASE UNCHANGED generationVars
  BY <1>3, GenerationInvIsInductive
<1>4. ServeLocal \/ Generate \/ ContentThrows \/ UNCHANGED generationVars
  BY DEF Next, vars, Boot, Accept, Reject, Invalid, LocalUnavailable, LocalReturns,
     ServeCloud, CloudUnavailable, CloudDelta, CloudWhole, CloudRestart, CloudSucceeds,
     CloudFails, WriteNext
<1> QED
  BY <1>1, <1>2, <1>3, <1>4

-----------------------------------------------------------------------------
(* The configuration *)

LEMMA SequenceFacts ==
  ASSUME NEW s, IsSequence(s)
  PROVE  Len(s) \in Nat /\ DOMAIN s = 1 .. Len(s)
BY LenProperties DEF IsSequence

LEMMA AnySequence ==
  ASSUME NEW S, NEW s \in Seq(S) PROVE IsSequence(s)
<1>1. Len(s) \in Nat /\ DOMAIN s = 1 .. Len(s) /\ s \in [1 .. Len(s) -> S]
  BY LenProperties
<1>2. s \in [1 .. Len(s) -> {s[i] : i \in DOMAIN s}]
  BY <1>1
<1> QED
  BY <1>1, <1>2, SeqDef DEF IsSequence

LEMMA AnyFunctionOnPlaces ==
  ASSUME NEW n \in Nat, NEW T, NEW s \in [1 .. n -> T] PROVE IsSequence(s)
<1>1. s \in Seq(T)
  BY SeqDef
<1> QED
  BY <1>1, AnySequence

LEMMA AppendedSequence ==
  ASSUME NEW s, IsSequence(s), NEW e
  PROVE  /\ IsSequence(Append(s, e))
         /\ DOMAIN Append(s, e) = 1 .. Len(s) + 1
         /\ Append(s, e)[Len(s) + 1] = e
         /\ \A i \in 1 .. Len(s) : Append(s, e)[i] = s[i]
<1> DEFINE S == {s[i] : i \in DOMAIN s} \cup {e}
<1>1. s \in Seq(S) /\ e \in S
  BY SeqMonotonic DEF IsSequence
<1> HIDE DEF S
<1>2. Append(s, e) \in Seq(S)
  BY <1>1, AppendProperties
<1>3. IsSequence(Append(s, e))
  BY <1>2, AnySequence
<1>4. Len(s) \in Nat /\ DOMAIN s = 1 .. Len(s) /\ Len(Append(s, e)) = Len(s) + 1
      /\ DOMAIN Append(s, e) = 1 .. Len(Append(s, e))
  BY <1>1, <1>2, AppendProperties, LenProperties
<1>5. Append(s, e)[Len(s) + 1] = e /\ \A i \in 1 .. Len(s) : Append(s, e)[i] = s[i]
  BY <1>1, <1>4, AppendProperties
<1> QED
  BY <1>3, <1>4, <1>5

LEMMA ChangedSequence ==
  ASSUME NEW s, IsSequence(s), NEW t, DOMAIN t = DOMAIN s, NEW T, t \in [DOMAIN s -> T]
  PROVE  IsSequence(t)
BY SequenceFacts, AnyFunctionOnPlaces

LEMMA CatalogGrows ==
  ASSUME NEW models, IsCatalog(models), NEW entry, IsEntry(entry)
  PROVE  IsCatalog(Append(models, entry))
<1>1. IsSequence(models) /\ Len(models) \in Nat /\ DOMAIN models = 1 .. Len(models)
  BY SequenceFacts DEF IsCatalog
<1>2. /\ IsSequence(Append(models, entry))
      /\ DOMAIN Append(models, entry) = 1 .. Len(models) + 1
      /\ Append(models, entry)[Len(models) + 1] = entry
      /\ \A i \in 1 .. Len(models) : Append(models, entry)[i] = models[i]
  BY <1>1, AppendedSequence
<1>3. ASSUME NEW i \in 1 .. Len(models) + 1
      PROVE  IsEntry(Append(models, entry)[i])
  <2>1. CASE i = Len(models) + 1
    BY <1>2, <2>1
  <2>2. CASE i # Len(models) + 1
    <3>1. i \in 1 .. Len(models)
      BY <1>1, <2>2
    <3> QED
      BY <1>1, <1>2, <3>1 DEF IsCatalog
  <2> QED
    BY <2>1, <2>2
<1> QED
  BY <1>2, <1>3 DEF IsCatalog

LEMMA FirstPlaceExists ==
  ASSUME NEW places \in SUBSET Nat, places # {}
  PROVE  \E i \in places : \A j \in 1 .. (i - 1) : j \notin places
<1>1. PICK i \in places : \A j \in places : i <= j
  BY LeastExists
<1>2. \A j \in 1 .. (i - 1) : j \notin places
  BY <1>1
<1> QED
  BY <1>1, <1>2

LEMMA FirstOfIdExists ==
  ASSUME NEW models, IsSequence(models), NEW id, \E i \in DOMAIN models : models[i].id = id
  PROVE  \E i \in DOMAIN models :
            /\ models[i].id = id
            /\ \A j \in 1 .. (i - 1) : models[j].id # id
<1> DEFINE places == {i \in DOMAIN models : models[i].id = id}
<1>1. Len(models) \in Nat /\ DOMAIN models = 1 .. Len(models)
  BY SequenceFacts
<1>2. places \in SUBSET Nat /\ places # {}
  BY <1>1
<1>3. PICK i \in places : \A j \in 1 .. (i - 1) : j \notin places
  <2> HIDE DEF places
  <2> QED
    BY <1>2, FirstPlaceExists
<1>4. ASSUME NEW j \in 1 .. (i - 1) PROVE models[j].id # id
  BY <1>1, <1>3, <1>4
<1> QED
  BY <1>3, <1>4

\* What add_or_update_exposed_model leaves of a list: an entry of that id is
\* merged with, where the first one is, or the list gets the entry.
LEMMA AddOrUpdateShape ==
  ASSUME NEW models, IsSequence(models), NEW entry
  PROVE  \/ /\ \A i \in DOMAIN models : models[i].id # entry.id
            /\ AddOrUpdate(models, entry) = Append(models, entry)
         \/ \E first \in DOMAIN models :
              /\ models[first].id = entry.id
              /\ \A j \in 1 .. (first - 1) : models[j].id # entry.id
              /\ AddOrUpdate(models, entry) =
                   [models EXCEPT ![first] = Merged(models[first], entry)]
<1>1. CASE \A i \in DOMAIN models : models[i].id # entry.id
  BY <1>1 DEF AddOrUpdate
<1>2. CASE \E i \in DOMAIN models : models[i].id = entry.id
  <2> DEFINE first == CHOOSE i \in DOMAIN models :
                        /\ models[i].id = entry.id
                        /\ \A j \in 1 .. (i - 1) : models[j].id # entry.id
  <2>1. \E i \in DOMAIN models : /\ models[i].id = entry.id
                                 /\ \A j \in 1 .. (i - 1) : models[j].id # entry.id
    BY <1>2, FirstOfIdExists
  <2>2. /\ first \in DOMAIN models /\ models[first].id = entry.id
        /\ \A j \in 1 .. (first - 1) : models[j].id # entry.id
    BY <2>1
  <2>3. AddOrUpdate(models, entry) =
          [models EXCEPT ![first] = Merged(models[first], entry)]
    BY <1>2 DEF AddOrUpdate
  <2> HIDE DEF first
  <2> QED
    BY <2>2, <2>3
<1> QED
  BY <1>1, <1>2

LEMMA MergedIsEntry ==
  ASSUME NEW model, IsEntry(model), NEW entry, IsEntry(entry)
  PROVE  IsEntry(Merged(model, entry))
<1>1. "route_target" \in DOMAIN ModelDefaults
  BY DEF ModelDefaults
<1> QED
  BY <1>1 DEF Merged, IsEntry

LEMMA CatalogStaysOne ==
  ASSUME NEW models, IsCatalog(models), NEW entry, IsEntry(entry)
  PROVE  IsCatalog(AddOrUpdate(models, entry))
<1>1. IsSequence(models) /\ \A i \in DOMAIN models : IsEntry(models[i])
  BY DEF IsCatalog
<1>2. CASE AddOrUpdate(models, entry) = Append(models, entry)
  BY <1>2, CatalogGrows
<1>3. ASSUME NEW first \in DOMAIN models,
             AddOrUpdate(models, entry) =
               [models EXCEPT ![first] = Merged(models[first], entry)]
      PROVE  IsCatalog(AddOrUpdate(models, entry))
  <2> DEFINE t == [models EXCEPT ![first] = Merged(models[first], entry)]
             T == {t[i] : i \in DOMAIN t}
  <2>1. IsEntry(Merged(models[first], entry))
    BY <1>1, MergedIsEntry
  <2>2. DOMAIN t = DOMAIN models /\ t \in [DOMAIN models -> T]
    BY <1>1
  <2>3. \A i \in DOMAIN t : IsEntry(t[i])
    BY <1>1, <2>1
  <2> HIDE DEF t, T
  <2>4. IsSequence(t)
    BY <1>1, <2>2, ChangedSequence
  <2> QED
    BY <1>3, <2>3, <2>4 DEF IsCatalog, t
<1> QED
  BY <1>1, <1>2, <1>3, AddOrUpdateShape

LEMMA DefaultsShaped == WellShaped(DaemonDefaults)
<1>1. "128" \in DOMAIN Amounts
  BY ServiceAssumption DEF Numerals, Beyond32
<1>2. IsSequence(DaemonDefaults.remote_backends)
  BY EmptySeq, AnySequence DEF DaemonDefaults
<1>3. IsCatalog(DaemonDefaults.exposed_models)
  <2> DEFINE m == [ModelDefaults EXCEPT !.id = "seceda/default",
                                        !.display_name = "Seceda default route"]
  <2>1. IsEntry(m)
    BY DEF ModelDefaults, IsEntry
  <2>2. DaemonDefaults.exposed_models = <<m>>
    BY DEF DaemonDefaults
  <2> HIDE DEF m
  <2>3. <<m>> \in Seq({m}) /\ DOMAIN <<m>> = {1} /\ <<m>>[1] = m
    OBVIOUS
  <2> QED
    BY <2>1, <2>2, <2>3, AnySequence DEF IsCatalog
<1>4. DaemonDefaults.generation.max_completion_tokens = "128"
  BY DEF DaemonDefaults
<1> QED
  BY <1>1, <1>2, <1>3, <1>4 DEF WellShaped

LEMMA NamedModelShape ==
  ASSUME NEW entry, IsEntry(entry) PROVE IsEntry(NamedModel(entry))
BY DEF NamedModel, IsEntry, ModelDefaults

LEMMA OverlayIsEntry ==
  ASSUME NEW items, "route_target" \in DOMAIN items =>
                      items["route_target"] \in {"auto", "local", "cloud"}
  PROVE  IsEntry(Overlay(ModelDefaults, items))
BY DEF Overlay, IsEntry, ModelDefaults

LEMMA WordIsRoute ==
  ASSUME NEW word, ParseWord("route_target", word) # Rejected
  PROVE  ParseWord("route_target", word) \in {"auto", "local", "cloud"}
BY DEF ParseWord, IntKeys, NumberKeys, CountKeys, FloatKeys, BoolKeys

LEMMA TableIsEntry ==
  ASSUME NEW items, Accepted(TomlItems(items), DOMAIN ModelDefaults)
  PROVE  IsEntry(ExposedModelTable(items))
<1> DEFINE key == "route_target"
<1>1. ASSUME key \in DOMAIN items PROVE TomlItems(items)[key] \in {"auto", "local", "cloud"}
  <2>1. TomlItems(items)[key] = ReadToml(key, items[key]) /\ ReadToml(key, items[key]) # Rejected
    BY <1>1 DEF TomlItems, Accepted
  <2>2. ReadToml(key, items[key]) =
          IF items[key][1] # "string" THEN Rejected
          ELSE IF items[key][2] = "" THEN "auto" ELSE ParseWord(key, items[key][2])
    BY DEF ReadToml, IntKeys, NumberKeys, CountKeys, FloatKeys, BoolKeys, ListKeys
  <2> QED
    BY <2>1, <2>2, WordIsRoute
<1>2. DOMAIN TomlItems(items) = DOMAIN items
  BY DEF TomlItems
<1>3. IsEntry(Overlay(ModelDefaults, TomlItems(items)))
  BY <1>1, <1>2, OverlayIsEntry
<1> QED
  BY <1>3, NamedModelShape DEF ExposedModelTable

LEMMA SpecIsEntry ==
  ASSUME NEW word, ExposedModelSpecOk(word)
  PROVE  IsEntry(ExposedModelSpec(word))
<1> DEFINE key == "route_target"
           items == ModelSpecItems(word)
<1>1. ASSUME key \in DOMAIN items PROVE items[key] \in {"auto", "local", "cloud"}
  <2>1. items[key] = ParseWord(key, Specs[word]["route"]) /\ items[key] # Rejected
    BY <1>1 DEF ModelSpecItems, ExposedModelSpecOk, Accepted
  <2> HIDE DEF items
  <2> QED
    BY <2>1, WordIsRoute
<1> HIDE DEF items
<1>2. IsEntry(Overlay(ModelDefaults, items))
  BY <1>1, OverlayIsEntry
<1> QED
  BY <1>2, NamedModelShape DEF ExposedModelSpec, items

LEMMA FileShaped ==
  ASSUME NEW start \in Launches, NEW path \in DOMAIN start.files,
         ConfigFileOk(start.files[path]), NEW cfg, WellShaped(cfg)
  PROVE  WellShaped(ApplyConfigFile(start.files[path], cfg))
<1> DEFINE file == start.files[path]
           base == [k \in DOMAIN cfg |-> IF k \in Sections THEN ApplyTable(k, file, cfg)
                                         ELSE cfg[k]]
           locals == ApplyLocalTable(file, base)
           remotes == ApplyRemoteTable(file, locals)
<1>1. IsSequence(file.backends) /\ IsSequence(file.exposed)
  BY LaunchAssumption
<1>2. WellShaped(base)
  <2>1. /\ DOMAIN base = DOMAIN DaemonDefaults
        /\ base.remote_backends = cfg.remote_backends
        /\ base.exposed_models = cfg.exposed_models
        /\ base.generation = ApplyTable("generation", file, cfg)
    BY DEF WellShaped, DaemonDefaults, Sections
  <2>2. CASE "generation" \notin DOMAIN file.tables
    <3>1. base.generation = cfg.generation
      BY <2>1, <2>2 DEF ApplyTable
    <3> HIDE DEF base
    <3> QED
      BY <2>1, <3>1 DEF WellShaped
  <2>3. CASE "generation" \in DOMAIN file.tables
    <3> DEFINE table == file.tables["generation"]
               key == "max_completion_tokens"
    <3>1. base.generation = Overlay(cfg.generation, TomlItems(table))
      BY <2>1, <2>3 DEF ApplyTable
    <3>2. DOMAIN base.generation = DOMAIN DaemonDefaults.generation
      BY <3>1 DEF Overlay, WellShaped
    <3>3. key \in DOMAIN cfg.generation
      BY DEF WellShaped, DaemonDefaults
    <3>4. CASE key \in DOMAIN table
      <4>1. table[key] \in FileSays(start, "generation", key)
        BY <2>3, <3>4 DEF FileSays
      <4>2. ReadToml(key, table[key]) \in DOMAIN Amounts \cup {Rejected}
        BY <4>1, ServiceAssumption
      <4>3. Accepted(TomlItems(table), DOMAIN DaemonDefaults["generation"])
        BY <2>3 DEF ConfigFileOk
      <4>4. key \in DOMAIN TomlItems(table) /\ TomlItems(table)[key] = ReadToml(key, table[key])
        BY <3>4 DEF TomlItems
      <4>5. TomlItems(table)[key] # Rejected
        BY <4>3, <4>4 DEF Accepted
      <4>6. base.generation[key] = TomlItems(table)[key]
        BY <3>1, <3>3, <4>4 DEF Overlay
      <4>7. base.generation.max_completion_tokens \in DOMAIN Amounts
        BY <4>2, <4>4, <4>5, <4>6
      <4> HIDE DEF base
      <4> QED
        BY <2>1, <3>2, <4>7 DEF WellShaped
    <3>5. CASE key \notin DOMAIN table
      <4>1. key \notin DOMAIN TomlItems(table)
        BY <3>5 DEF TomlItems
      <4>2. base.generation[key] = cfg.generation[key]
        BY <3>1, <3>3, <4>1 DEF Overlay
      <4>3. base.generation.max_completion_tokens \in DOMAIN Amounts
        BY <4>2 DEF WellShaped
      <4> HIDE DEF base
      <4> QED
        BY <2>1, <3>2, <4>3 DEF WellShaped
    <3> QED
      BY <3>4, <3>5
  <2> QED
    BY <2>2, <2>3
<1> HIDE DEF base
<1>3. WellShaped(locals)
  <2>1. /\ DOMAIN locals = DOMAIN base
        /\ locals.generation = base.generation
        /\ locals.remote_backends = base.remote_backends
        /\ locals.exposed_models = base.exposed_models
    BY <1>2 DEF ApplyLocalTable, WellShaped, DaemonDefaults
  <2> HIDE DEF locals
  <2> QED
    BY <1>2, <2>1 DEF WellShaped
<1> HIDE DEF locals
<1>4. WellShaped(remotes)
  <2>1. /\ DOMAIN remotes = DOMAIN locals
        /\ remotes.generation = locals.generation
        /\ remotes.exposed_models = locals.exposed_models
    BY <1>3 DEF ApplyRemoteTable, WellShaped, DaemonDefaults
  <2>2. IsSequence(remotes.remote_backends)
    <3>1. CASE ~file.hasBackends
      BY <1>3, <3>1 DEF ApplyRemoteTable, WellShaped
    <3>2. CASE file.hasBackends
      <4> DEFINE others == TheOthers(file.backends, file.default)
                 entries == [i \in DOMAIN others |-> RemoteBackendTable(others[i])]
                 n == Len(file.backends) - 1
      <4>1. n \in Nat
        <5>1. file.backends \in Seq({file.backends[i] : i \in DOMAIN file.backends})
          BY <1>1 DEF IsSequence
        <5>2. GroupOk(file.hasBackends, file.backends, file.default, CloudDefaults)
          BY DEF ConfigFileOk
        <5>3. PICK i \in DOMAIN file.backends : TRUE
          BY <3>2, <5>2 DEF GroupOk
        <5>4. Len(file.backends) \in Nat \ {0}
          BY <5>1, <5>3, LenProperties
        <5> QED
          BY <5>4
      <4>2. DOMAIN others = 1 .. n
        BY DEF TheOthers
      <4>3. "remote_backends" \in DOMAIN locals
        BY <1>3 DEF WellShaped, DaemonDefaults
      <4>4. remotes.remote_backends = entries
        BY <3>2, <4>3 DEF ApplyRemoteTable
      <4>5. entries \in [1 .. n -> {entries[i] : i \in 1 .. n}]
        BY <4>2
      <4> HIDE DEF n, entries
      <4> QED
        BY <4>1, <4>4, <4>5, AnyFunctionOnPlaces
    <3> QED
      BY <3>1, <3>2
  <2> HIDE DEF remotes
  <2> QED
    BY <1>3, <2>1, <2>2 DEF WellShaped
<1> HIDE DEF remotes
<1> DEFINE final == ApplyExposedModels(file, remotes)
<1>5. WellShaped(final)
  <2>1. CASE ~file.hasExposed
    BY <1>4, <2>1 DEF ApplyExposedModels
  <2>2. CASE file.hasExposed
    <3> DEFINE models == [i \in DOMAIN file.exposed |-> ExposedModelTable(file.exposed[i])]
    <3>1. /\ DOMAIN final = DOMAIN remotes
          /\ final.generation = remotes.generation
          /\ final.remote_backends = remotes.remote_backends
          /\ final.exposed_models = models
      BY <1>4, <2>2 DEF ApplyExposedModels, WellShaped, DaemonDefaults
    <3>2. IsCatalog(models)
      <4>1. Len(file.exposed) \in Nat /\ DOMAIN file.exposed = 1 .. Len(file.exposed)
        BY <1>1, SequenceFacts
      <4>2. \A i \in DOMAIN models : IsEntry(models[i])
        BY TableIsEntry DEF ConfigFileOk
      <4>3. models \in [1 .. Len(file.exposed) -> {models[i] : i \in 1 .. Len(file.exposed)}]
        BY <4>1
      <4> HIDE DEF models
      <4>4. IsSequence(models)
        BY <4>1, <4>3, AnyFunctionOnPlaces
      <4> QED
        BY <4>2, <4>4 DEF IsCatalog
    <3> HIDE DEF final, models
    <3> QED
      BY <1>4, <3>1, <3>2 DEF WellShaped
  <2> QED
    BY <2>1, <2>2
<1>6. ApplyConfigFile(file, cfg) = final
  BY DEF ApplyConfigFile, base, locals, remotes
<1> QED
  BY <1>5, <1>6

\* The options that set a value set one of a section, not a list.
LEMMA OptionTargets ==
  /\ DOMAIN Options \in SUBSET Nat
  /\ \A i \in DOMAIN Options :
       Len(Options[i]) = 3 => Options[i][2] \notin {"remote_backends", "exposed_models"}
<1> DEFINE S == {LocalOptions[i] : i \in 1 .. 20} \cup {CloudOptions[i] : i \in 1 .. 28}
<1>0. /\ \A i \in 1 .. 20 : LocalOptions[i] \in S
      /\ \A i \in 1 .. 28 : CloudOptions[i] \in S
  OBVIOUS
<1> HIDE DEF S
<1>1. LocalOptions \in Seq(S)
  BY <1>0 DEF LocalOptions
<1>2. CloudOptions \in Seq(S)
  BY <1>0 DEF CloudOptions
<1>6. Len(LocalOptions) = 20 /\ Len(CloudOptions) = 28
  BY DEF LocalOptions, CloudOptions
<1>3. \A i \in 1 .. 20 : LocalOptions[i][2] \notin {"remote_backends", "exposed_models"}
  BY DEF LocalOptions
<1>4. \A i \in 1 .. 28 : Len(CloudOptions[i]) = 3 =>
        CloudOptions[i][2] \notin {"remote_backends", "exposed_models"}
  BY DEF CloudOptions
<1>5. /\ DOMAIN Options = 1 .. 48
      /\ \A i \in 1 .. 48 : Options[i] = IF i <= 20 THEN LocalOptions[i] ELSE CloudOptions[i - 20]
  <2>1. /\ LocalOptions \o CloudOptions \in Seq(S)
        /\ Len(LocalOptions \o CloudOptions) = Len(LocalOptions) + Len(CloudOptions)
        /\ \A i \in 1 .. Len(LocalOptions) + Len(CloudOptions) :
             (LocalOptions \o CloudOptions)[i] =
               IF i <= Len(LocalOptions) THEN LocalOptions[i]
               ELSE CloudOptions[i - Len(LocalOptions)]
    BY <1>1, <1>2, ConcatProperties
  <2>2. Options = LocalOptions \o CloudOptions
    BY DEF Options
  <2>3. DOMAIN Options = 1 .. Len(Options)
    BY <2>1, <2>2, LenProperties
  <2>4. Len(LocalOptions) + Len(CloudOptions) = 48
    BY <1>6
  <2>5. DOMAIN Options = 1 .. 48
    BY <2>1, <2>2, <2>3, <2>4, Zenon
  <2>6. ASSUME NEW i \in 1 .. 48
        PROVE  Options[i] = IF i <= 20 THEN LocalOptions[i] ELSE CloudOptions[i - 20]
    <3>1. Options[i] = IF i <= Len(LocalOptions) THEN LocalOptions[i]
                       ELSE CloudOptions[i - Len(LocalOptions)]
      BY <2>1, <2>2, <2>4
    <3> QED
      BY <1>6, <3>1, Zenon
  <2> QED
    BY <2>5, <2>6
<1> QED
  BY <1>3, <1>4, <1>5

LEMMA DispatchedOption ==
  ASSUME NEW word, Known(word)
  PROVE  \E i \in DOMAIN Options : Dispatch(word) = Options[i]
<1> DEFINE places == {i \in DOMAIN Options : Begins(word, Options[i][1])}
<1>1. places \in SUBSET Nat /\ places # {}
  BY OptionTargets DEF Known
<1>2. PICK i \in places : \A j \in 1 .. (i - 1) : j \notin places
  <2> HIDE DEF places
  <2> QED
    BY <1>1, FirstPlaceExists
<1>3. \A j \in 1 .. (i - 1) : j \in DOMAIN Options
  <2>1. DOMAIN Options = 1 .. Len(Options) /\ Len(Options) \in Nat
    BY OptionTargets
  <2> QED
    BY <1>2, <2>1
<1>4. \E k \in DOMAIN Options : /\ Begins(word, Options[k][1])
                                /\ \A j \in 1 .. (k - 1) : ~Begins(word, Options[j][1])
  BY <1>2, <1>3
<1> QED
  BY <1>4 DEF Dispatch

LEMMA OptionShaped ==
  ASSUME SetOption, WellShaped(config)
  PROVE  WellShaped(config')
<1> DEFINE option == Dispatch(Text(launch.argv[at]))
           section == option[2]
           key == option[3]
           word == NextValue(launch.argv, at)
           value == OptionValue(section, key, word)
<1>1. /\ Len(option) = 3 /\ value # Rejected
      /\ config' = [config EXCEPT ![section][key] = value]
  BY DEF SetOption
<1>2. Known(Text(launch.argv[at]))
  BY DEF SetOption, AtOption
<1>3. section \notin {"remote_backends", "exposed_models"}
  <2>1. PICK i \in DOMAIN Options : option = Options[i]
    BY <1>2, DispatchedOption
  <2> HIDE DEF option
  <2> QED
    BY <1>1, <2>1, OptionTargets
<1>4. section = "generation" /\ key = "max_completion_tokens" => value \in DOMAIN Amounts
  <2> SUFFICES ASSUME section = "generation", key = "max_completion_tokens"
               PROVE  value \in DOMAIN Amounts
    OBVIOUS
  <2>1. value = ParseWord("max_completion_tokens", word)
    BY DEF OptionValue
  <2>2. "max_completion_tokens" \in IntKeys
    BY DEF IntKeys
  <2> HIDE DEF option, word, value
  <2>3. value = IF word \in Numerals \ {Beyond32} THEN word ELSE Rejected
    BY <2>1, <2>2 DEF ParseWord, NumberKeys, BoolKeys
  <2>4. value \in Numerals \ {Beyond32}
    BY <1>1, <2>3
  <2> QED
    BY <2>4, ServiceAssumption
<1> HIDE DEF option, word, value
<1>5. /\ DOMAIN config' = DOMAIN config
      /\ config'.remote_backends = config.remote_backends
      /\ config'.exposed_models = config.exposed_models
  BY <1>1, <1>3 DEF WellShaped, DaemonDefaults
<1>6. /\ DOMAIN config'.generation = DOMAIN config.generation
      /\ config'.generation.max_completion_tokens \in DOMAIN Amounts
  <2>1. CASE section # "generation"
    <3>1. config'.generation = config.generation
      BY <1>1, <2>1 DEF WellShaped, DaemonDefaults
    <3> QED
      BY <3>1 DEF WellShaped
  <2>2. CASE section = "generation"
    <3>1. config'.generation = [config.generation EXCEPT ![key] = value]
      BY <1>1, <2>2 DEF WellShaped, DaemonDefaults
    <3>2. "max_completion_tokens" \in DOMAIN config.generation
      BY DEF WellShaped, DaemonDefaults
    <3> QED
      BY <1>4, <2>2, <3>1, <3>2 DEF WellShaped
  <2> QED
    BY <2>1, <2>2
<1> QED
  BY <1>5, <1>6 DEF WellShaped

LEMMA SpecShaped ==
  ASSUME AppendSpec, WellShaped(config)
  PROVE  WellShaped(config')
<1> DEFINE list == Dispatch(Text(launch.argv[at]))[2]
           word == NextValue(launch.argv, at)
<1>1. /\ SpecOk(list, word)
      /\ config' = [config EXCEPT ![list] = Append(@, SpecEntry(list, word))]
  BY DEF AppendSpec
<1> HIDE DEF list, word
<1>2. list \in {"local_engines", "remote_backends", "exposed_models"}
  BY <1>1 DEF SpecOk
<1>3. /\ DOMAIN config' = DOMAIN config /\ config'.generation = config.generation
      /\ list # "remote_backends" => config'.remote_backends = config.remote_backends
      /\ list # "exposed_models" => config'.exposed_models = config.exposed_models
      /\ list = "remote_backends" =>
           config'.remote_backends = Append(config.remote_backends, SpecEntry(list, word))
      /\ list = "exposed_models" =>
           config'.exposed_models = Append(config.exposed_models, SpecEntry(list, word))
  BY <1>1, <1>2 DEF WellShaped, DaemonDefaults
<1>4. IsSequence(config'.remote_backends)
  <2>1. IsSequence(config.remote_backends)
    BY DEF WellShaped
  <2>2. IsSequence(Append(config.remote_backends, SpecEntry(list, word)))
    BY <2>1, AppendedSequence
  <2> QED
    BY <1>3, <2>1, <2>2
<1>5. IsCatalog(config'.exposed_models)
  <2>1. CASE list # "exposed_models"
    BY <1>3, <2>1 DEF WellShaped
  <2>2. CASE list = "exposed_models"
    <3> DEFINE entry == SpecEntry(list, word)
    <3>1. entry = ExposedModelSpec(word)
      BY <2>2 DEF SpecEntry
    <3>2. ExposedModelSpecOk(word)
      BY <1>1, <2>2 DEF SpecOk
    <3>3. IsEntry(entry)
      BY <3>1, <3>2, SpecIsEntry
    <3> HIDE DEF entry
    <3> QED
      BY <1>3, <2>2, <3>3, CatalogGrows DEF WellShaped, entry
  <2> QED
    BY <2>1, <2>2
<1> QED
  BY <1>3, <1>4, <1>5 DEF WellShaped

LEMMA FinishShaped ==
  ASSUME Finish, WellShaped(config)
  PROVE  WellShaped(config')
<1>1. CASE UNCHANGED config
  BY <1>1
<1>2. CASE ~UNCHANGED config
  <2> DEFINE keyed == IF "SECEDA_CLOUD_API_KEY" \in DOMAIN environ
                      THEN [config EXCEPT !.cloud.api_key = environ["SECEDA_CLOUD_API_KEY"]]
                      ELSE config
             entry == DefaultPublicModel(keyed)
  <2>1. config' = [keyed EXCEPT !.exposed_models = AddOrUpdate(@, entry)]
    BY <1>2 DEF Finish
  <2>2. /\ DOMAIN keyed = DOMAIN config /\ keyed.generation = config.generation
        /\ keyed.remote_backends = config.remote_backends
        /\ keyed.exposed_models = config.exposed_models
    BY DEF WellShaped, DaemonDefaults
  <2>3. IsEntry(entry)
    BY DEF DefaultPublicModel, IsEntry, ModelDefaults
  <2> HIDE DEF keyed, entry
  <2>4. /\ DOMAIN config' = DOMAIN config /\ config'.generation = config.generation
        /\ config'.remote_backends = config.remote_backends
        /\ config'.exposed_models = AddOrUpdate(config.exposed_models, entry)
    BY <2>1, <2>2 DEF WellShaped, DaemonDefaults
  <2>5. IsCatalog(config'.exposed_models)
    BY <2>3, <2>4, CatalogStaysOne DEF WellShaped
  <2> QED
    BY <2>4, <2>5 DEF WellShaped
<1> QED
  BY <1>1, <1>2

LEMMA StartupStep ==
  ASSUME ConfigInv, StartupNext PROVE ConfigInv'
<1>1. launch' = launch /\ launch \in Launches
  BY DEF StartupNext, ConfigInv, SelectionInv, Stop, ScanHelp, ScanConfig, ScanNoConfig,
     ScanRefused, ScanOther, SelectFile, LoadDotenv, ApplyFile, SkipConfig, SetOption,
     AppendSpec, RefuseWord, HelpAfterAll, Finish
<1>2. CASE SetOption
  BY <1>1, <1>2, OptionShaped DEF SetOption, AtOption, ConfigInv, SelectionInv
<1>3. CASE AppendSpec
  BY <1>1, <1>3, SpecShaped DEF AppendSpec, AtOption, ConfigInv, SelectionInv
<1>4. CASE Finish
  <2>1. step' \in {"started", "refused"} /\ selection' = selection
    BY <1>4 DEF Finish
  <2> QED
    BY <1>1, <1>4, <2>1, FinishShaped DEF ConfigInv, SelectionInv
<1>5. CASE ApplyFile
  <2>1. step' \in {"parse", "refused"} /\ selection' = selection
    BY <1>5 DEF ApplyFile
  <2>2. CASE UNCHANGED config
    BY <1>1, <2>1, <2>2 DEF ConfigInv, SelectionInv
  <2>3. CASE ~UNCHANGED config
    <3>1. /\ ~selection.disable /\ selection.path # "" /\ step = "file"
          /\ ConfigFileOk(launch.files[selection.path])
          /\ config' = ApplyConfigFile(launch.files[selection.path], config)
      BY <1>5, <2>3 DEF ApplyFile
    <3>2. selection.path \in DOMAIN launch.files
      BY <3>1 DEF ConfigInv, SelectionInv
    <3>3. WellShaped(config')
      BY <1>1, <3>1, <3>2, FileShaped DEF ConfigInv
    <3> QED
      BY <1>1, <2>1, <3>3 DEF ConfigInv, SelectionInv
  <2> QED
    BY <2>2, <2>3
<1>6. CASE SelectFile
  <2> DEFINE chosen ==
           IF selection.disable \/ selection.explicit THEN selection
           ELSE IF "SECEDA_CONFIG" \in DOMAIN environ
           THEN [selection EXCEPT !.path = environ["SECEDA_CONFIG"], !.explicit = TRUE]
           ELSE [selection EXCEPT !.path = launch.found]
  <2>1. /\ selection' = chosen /\ config' = config
        /\ step' = IF ~chosen.disable /\ chosen.explicit /\ chosen.path # ""
                      /\ chosen.path \notin DOMAIN launch.files
                   THEN "refused" ELSE "dotenv"
    BY <1>6 DEF SelectFile
  <2>2. /\ DOMAIN selection = {"path", "explicit", "disable"}
        /\ selection.explicit \in BOOLEAN /\ selection.disable \in BOOLEAN
    BY DEF ConfigInv, SelectionInv, NoSelection
  <2>3. launch.found \in DOMAIN launch.files \cup {""}
    BY <1>1, LaunchAssumption
  <2>4. /\ DOMAIN chosen = {"path", "explicit", "disable"}
        /\ chosen.explicit \in BOOLEAN /\ chosen.disable \in BOOLEAN
        /\ ~chosen.disable /\ ~chosen.explicit => chosen.path = launch.found
    BY <2>2
  <2> HIDE DEF chosen
  <2> QED
    BY <1>1, <2>1, <2>3, <2>4 DEF ConfigInv, SelectionInv, NoSelection
<1>7. CASE LoadDotenv
  <2>1. /\ step = "dotenv" /\ step' \in {"file", "refused"} /\ UNCHANGED <<selection, config>>
    BY <1>7 DEF LoadDotenv
  <2> QED
    BY <1>1, <2>1 DEF ConfigInv, SelectionInv
<1>8. CASE ScanConfig \/ ScanNoConfig
  <2>1. /\ step' = "scan" /\ config' = config
        /\ DOMAIN selection' = DOMAIN selection
        /\ selection'.explicit \in BOOLEAN /\ selection'.disable \in BOOLEAN
    BY <1>8 DEF ScanConfig, ScanNoConfig, ConfigInv, SelectionInv, NoSelection
  <2> QED
    BY <1>1, <2>1 DEF ConfigInv, SelectionInv
<1>9. CASE \/ ScanHelp \/ ScanRefused \/ ScanOther \/ SkipConfig \/ RefuseWord \/ HelpAfterAll
  <2>1. step' \in {"scan", "help", "refused", "parse"} /\ UNCHANGED <<selection, config>>
    BY <1>9 DEF ScanHelp, ScanRefused, ScanOther, SkipConfig, RefuseWord, HelpAfterAll, Stop
  <2> QED
    BY <1>1, <2>1 DEF ConfigInv, SelectionInv
<1> QED
  BY <1>2, <1>3, <1>4, <1>5, <1>6, <1>7, <1>8, <1>9 DEF StartupNext

LEMMA ConfigStep ==
  ASSUME ConfigInv, [Next]_vars PROVE ConfigInv'
<1>1. CASE StartupNext
  BY <1>1, StartupStep
<1>2. CASE UNCHANGED startupVars
  BY <1>2 DEF startupVars, ConfigInv, SelectionInv
<1>3. StartupNext \/ UNCHANGED startupVars
  BY DEF Next, vars, Boot, Accept, Reject, Invalid, ServeLocal, LocalUnavailable, Generate,
     ContentThrows, LocalReturns, ServeCloud, CloudUnavailable, CloudDelta, CloudWhole,
     CloudRestart, CloudSucceeds, CloudFails, WriteNext
<1> QED
  BY <1>1, <1>2, <1>3

-----------------------------------------------------------------------------
(* The catalog *)

\* The first entry of an id, the one a request for that id gets.
IsFirst(models, id, place) ==
  /\ place \in DOMAIN models /\ models[place].id = id
  /\ \A j \in 1 .. (place - 1) : models[j].id # id

\* A request for an id gets a route, and a backend if one is named.
Leads(models, id, route, backend) ==
  \E place \in DOMAIN models :
    /\ IsFirst(models, id, place)
    /\ models[place].route_target = route
    /\ backend # "" => models[place].backend_id = backend

Names(entry, id) == entry.id = id
Routes(entry) == entry.id # "" /\ entry.route_target \notin {"", "auto"}

LEMMA FirstIsUnique ==
  ASSUME NEW models, IsSequence(models), NEW id, NEW p, NEW q,
         IsFirst(models, id, p), IsFirst(models, id, q)
  PROVE  p = q
<1>1. Len(models) \in Nat /\ DOMAIN models = 1 .. Len(models)
  BY SequenceFacts
<1>2. p \in Nat /\ q \in Nat /\ p >= 1 /\ q >= 1
  BY <1>1 DEF IsFirst
<1>3. ~(p < q)
  <2> SUFFICES ASSUME p < q PROVE FALSE
    OBVIOUS
  <2>1. p \in 1 .. (q - 1)
    BY <1>2
  <2> QED
    BY <2>1 DEF IsFirst
<1>4. ~(q < p)
  <2> SUFFICES ASSUME q < p PROVE FALSE
    OBVIOUS
  <2>1. q \in 1 .. (p - 1)
    BY <1>2
  <2> QED
    BY <2>1 DEF IsFirst
<1> QED
  BY <1>2, <1>3, <1>4

LEMMA NamedModelKeeps ==
  ASSUME NEW entry, DOMAIN entry = DOMAIN ModelDefaults
  PROVE  LET named == NamedModel(entry)
         IN /\ DOMAIN named = DOMAIN ModelDefaults
            /\ named.id = entry.id /\ named.route_target = entry.route_target
            /\ named.backend_id = entry.backend_id
BY DEF NamedModel, ModelDefaults

LEMMA MergedFields ==
  ASSUME NEW model, DOMAIN model = DOMAIN ModelDefaults, NEW entry
  PROVE  LET merged == Merged(model, entry)
         IN /\ merged.id = IF entry.id = "" THEN model.id ELSE entry.id
            /\ entry.route_target \notin {"", "auto"} =>
                 merged.route_target = entry.route_target
            /\ entry.backend_id # "" => merged.backend_id = entry.backend_id
<1>1. {"id", "route_target", "backend_id"} \subseteq DOMAIN model
  BY DEF ModelDefaults
<1> QED
  BY <1>1 DEF Merged

LEMMA AddUniqueIsCatalog ==
  ASSUME NEW models, IsCatalog(models), NEW entry, IsEntry(entry)
  PROVE  IsCatalog(AddUnique(models, entry))
BY CatalogStaysOne, NamedModelShape DEF AddUnique

\* An entry that is added is the one its id leads to, whatever was there.
LEMMA AddedLeads ==
  ASSUME NEW models, IsCatalog(models), NEW entry, DOMAIN entry = DOMAIN ModelDefaults,
         Routes(entry)
  PROVE  Leads(AddUnique(models, entry), entry.id, entry.route_target, entry.backend_id)
<1> DEFINE named == NamedModel(entry)
           after == AddUnique(models, entry)
<1>1. /\ named.id = entry.id /\ named.route_target = entry.route_target
      /\ named.backend_id = entry.backend_id
  BY NamedModelKeeps
<1>2. after = AddOrUpdate(models, named)
  BY DEF AddUnique, Routes
<1>3. IsSequence(models) /\ Len(models) \in Nat /\ DOMAIN models = 1 .. Len(models)
  BY SequenceFacts DEF IsCatalog
<1> HIDE DEF named, after
<1>4. CASE /\ \A i \in DOMAIN models : models[i].id # named.id
           /\ after = Append(models, named)
  <2>0. PICK last \in Nat : last = Len(models) + 1
    BY <1>3
  <2>1. /\ DOMAIN after = 1 .. last /\ after[last] = named
        /\ \A i \in 1 .. Len(models) : after[i] = models[i]
    <3>1. /\ DOMAIN Append(models, named) = 1 .. Len(models) + 1
          /\ Append(models, named)[Len(models) + 1] = named
          /\ \A i \in 1 .. Len(models) : Append(models, named)[i] = models[i]
      BY <1>3, AppendedSequence
    <3> QED
      BY <1>4, <2>0, <3>1
  <2>6. last >= 1 /\ last - 1 = Len(models)
    BY <1>3, <2>0
  <2>2. \A j \in 1 .. (last - 1) : after[j].id # entry.id
    BY <1>1, <1>3, <1>4, <2>1, <2>6
  <2>3. last \in DOMAIN after
    BY <2>1, <2>6
  <2>4. IsFirst(after, entry.id, last)
    BY <1>1, <2>1, <2>2, <2>3 DEF IsFirst
  <2> QED
    BY <1>1, <2>1, <2>3, <2>4 DEF Leads, after
<1>5. ASSUME NEW first \in 1 .. Len(models), models[first].id = named.id,
             \A j \in 1 .. (first - 1) : models[j].id # named.id,
             after = [models EXCEPT ![first] = Merged(models[first], named)]
      PROVE  Leads(after, entry.id, entry.route_target, entry.backend_id)
  <2>1. DOMAIN models[first] = DOMAIN ModelDefaults
    BY <1>3 DEF IsCatalog, IsEntry
  <2>2. /\ Merged(models[first], named).id = entry.id
        /\ Merged(models[first], named).route_target = entry.route_target
        /\ entry.backend_id # "" =>
             Merged(models[first], named).backend_id = entry.backend_id
    BY <1>1, <2>1, MergedFields DEF Routes
  <2>3. first \in DOMAIN after /\ after[first] = Merged(models[first], named)
    BY <1>3, <1>5
  <2>4. \A j \in 1 .. (first - 1) : after[j].id # entry.id
    <3> SUFFICES ASSUME NEW j \in 1 .. (first - 1) PROVE after[j].id # entry.id
      OBVIOUS
    <3>0. j \in 1 .. Len(models) /\ j # first
      BY <1>3
    <3>1. j \in DOMAIN models /\ j # first
      BY <1>3, <3>0
    <3>2. after[j] = models[j]
      BY <1>5, <3>1
    <3> QED
      BY <1>1, <1>5, <3>2
  <2>5. IsFirst(after, entry.id, first)
    BY <2>2, <2>3, <2>4 DEF IsFirst
  <2> QED
    BY <2>2, <2>3, <2>5 DEF Leads
<1>6. Leads(after, entry.id, entry.route_target, entry.backend_id)
  <2>1. \/ /\ \A i \in DOMAIN models : models[i].id # named.id
           /\ AddOrUpdate(models, named) = Append(models, named)
        \/ \E first \in DOMAIN models :
             /\ models[first].id = named.id
             /\ \A j \in 1 .. (first - 1) : models[j].id # named.id
             /\ AddOrUpdate(models, named) =
                  [models EXCEPT ![first] = Merged(models[first], named)]
    BY <1>3, AddOrUpdateShape
  <2>2. CASE /\ \A i \in DOMAIN models : models[i].id # named.id
             /\ AddOrUpdate(models, named) = Append(models, named)
    BY <1>2, <1>4, <2>2 DEF after
  <2>3. ASSUME NEW first \in DOMAIN models, models[first].id = named.id,
               \A j \in 1 .. (first - 1) : models[j].id # named.id,
               AddOrUpdate(models, named) =
                 [models EXCEPT ![first] = Merged(models[first], named)]
        PROVE  Leads(after, entry.id, entry.route_target, entry.backend_id)
    <3>1. first \in 1 .. Len(models)
      BY <1>3
    <3> QED
      BY <1>2, <1>5, <2>3, <3>1
  <2> QED
    BY <2>1, <2>2, <2>3
<1> QED
  BY <1>6 DEF after

\* An entry of another id does not change where an id leads.
LEMMA OthersKeep ==
  ASSUME NEW models, IsCatalog(models), NEW entry, DOMAIN entry = DOMAIN ModelDefaults,
         NEW id, NEW route, NEW backend, Leads(models, id, route, backend), ~Names(entry, id)
  PROVE  Leads(AddUnique(models, entry), id, route, backend)
<1> DEFINE named == NamedModel(entry)
           after == AddUnique(models, entry)
<1>1. named.id = entry.id
  BY NamedModelKeeps
<1>2. entry.id # "" => after = AddOrUpdate(models, named)
  BY DEF AddUnique
<1>3. entry.id = "" => after = models
  BY DEF AddUnique
<1>4. IsSequence(models) /\ Len(models) \in Nat /\ DOMAIN models = 1 .. Len(models)
  BY SequenceFacts DEF IsCatalog
<1>5. PICK place \in DOMAIN models :
        /\ IsFirst(models, id, place)
        /\ models[place].route_target = route
        /\ backend # "" => models[place].backend_id = backend
  BY DEF Leads
<1> HIDE DEF named, after
<1> SUFFICES Leads(after, id, route, backend)
  BY DEF after
<1>6. ASSUME place \in DOMAIN after, after[place] = models[place],
             \A j \in 1 .. (place - 1) : after[j].id = models[j].id
      PROVE  Leads(after, id, route, backend)
  <2>1. IsFirst(after, id, place)
    BY <1>5, <1>6 DEF IsFirst
  <2> QED
    BY <1>5, <1>6, <2>1 DEF Leads
<1>12. place \in Nat /\ place \in 1 .. Len(models)
  BY <1>4
<1>7. \A j \in 1 .. (place - 1) : j \in 1 .. Len(models)
  BY <1>4, <1>12
<1>8. CASE entry.id = ""
  <2>1. after = models
    BY <1>3, <1>8
  <2> QED
    BY <1>5, <1>6, <2>1
<1>9. CASE after = Append(models, named)
  <2>1. /\ DOMAIN after = 1 .. Len(models) + 1
        /\ \A i \in 1 .. Len(models) : after[i] = models[i]
    BY <1>4, <1>9, AppendedSequence
  <2>2. place \in DOMAIN after /\ after[place] = models[place]
    BY <1>4, <1>12, <2>1
  <2>3. \A j \in 1 .. (place - 1) : after[j].id = models[j].id
    BY <1>7, <2>1
  <2> QED
    BY <1>6, <2>2, <2>3
<1>10. ASSUME NEW first \in DOMAIN models, models[first].id = named.id,
              after = [models EXCEPT ![first] = Merged(models[first], named)]
       PROVE  Leads(after, id, route, backend)
  <2>1. first # place
    BY <1>1, <1>5, <1>10 DEF IsFirst, Names
  <2>2. place \in DOMAIN after /\ after[place] = models[place]
    BY <1>10, <2>1
  <2>3. DOMAIN models[first] = DOMAIN ModelDefaults
    BY DEF IsCatalog, IsEntry
  <2>6. Merged(models[first], named).id =
          IF named.id = "" THEN models[first].id ELSE named.id
    BY <2>3, MergedFields
  <2>4. Merged(models[first], named).id = models[first].id
    BY <1>10, <2>6
  <2>5. \A j \in 1 .. (place - 1) : after[j].id = models[j].id
    BY <1>4, <1>7, <1>10, <2>4
  <2> QED
    BY <1>6, <2>2, <2>5
<1>13. CASE entry.id # ""
  <2>1. \/ after = Append(models, named)
        \/ \E first \in DOMAIN models :
             /\ models[first].id = named.id
             /\ after = [models EXCEPT ![first] = Merged(models[first], named)]
    <3>1. \/ /\ \A i \in DOMAIN models : models[i].id # named.id
             /\ AddOrUpdate(models, named) = Append(models, named)
          \/ \E first \in DOMAIN models :
               /\ models[first].id = named.id
               /\ \A j \in 1 .. (first - 1) : models[j].id # named.id
               /\ AddOrUpdate(models, named) =
                    [models EXCEPT ![first] = Merged(models[first], named)]
      BY <1>4, AddOrUpdateShape
    <3>2. after = AddOrUpdate(models, named)
      BY <1>2, <1>13
    <3> HIDE DEF named
    <3> QED
      BY <3>1, <3>2
  <2> QED
    BY <1>9, <1>10, <2>1
<1> QED
  BY <1>8, <1>13

\* The catalog after the first n named remotes; Catalog's recursive function.
IsBuilding(f, first, n) ==
  f = [i \in 0 .. n |->
         IF i = 0 THEN first ELSE AddUnique(f[i - 1], RemoteEntry(config.remote_backends[i]))]

LEMMA BuildingExists ==
  ASSUME NEW first, NEW n \in Nat
  PROVE  \E f : IsBuilding(f, first, n)
<1> DEFINE Bad == {m \in Nat : ~\E f : IsBuilding(f, first, m)}
<1> SUFFICES ASSUME Bad # {} PROVE FALSE
  OBVIOUS
<1>1. PICK b \in Bad : \A y \in Bad : b <= y
  <2> HIDE DEF Bad
  <2> Bad \subseteq Nat
    BY DEF Bad
  <2> QED
    BY LeastExists
<1>2. b # 0
  <2> DEFINE f == [m \in 0 .. 0 |-> first]
  <2>1. IsBuilding(f, first, 0)
    BY DEF IsBuilding
  <2> QED
    BY <2>1
<1>3. b \in Nat /\ b - 1 \in Nat /\ b - 1 \notin Bad
  BY <1>1, <1>2
<1>4. PICK f : IsBuilding(f, first, b - 1)
  BY <1>3
<1> DEFINE last == AddUnique(f[b - 1], RemoteEntry(config.remote_backends[b]))
           g == [m \in 0 .. b |-> IF m = b THEN last ELSE f[m]]
<1>5. ASSUME NEW m \in 0 .. b
      PROVE  g[m] = IF m = 0 THEN first
                    ELSE AddUnique(g[m - 1], RemoteEntry(config.remote_backends[m]))
  <2>1. CASE m = b
    BY <1>2, <1>3, <2>1
  <2>2. CASE m # b
    <3>1. m \in 0 .. b - 1 /\ (m # 0 => m - 1 \in 0 .. b /\ m - 1 # b)
      BY <1>3, <2>2
    <3> QED
      BY <1>4, <2>2, <3>1 DEF IsBuilding
  <2> QED
    BY <2>1, <2>2
<1>6. IsBuilding(g, first, b)
  BY <1>5 DEF IsBuilding
<1> QED
  BY <1>6

\* The entries that the catalog gets, and what it is before the remotes.
PublicCatalog == AddUnique(config.exposed_models, DefaultPublicModel(config))
LocalCatalog == AddUnique(PublicCatalog, LocalEntry(config.local))

LEMMA CatalogIsBuilt ==
  ASSUME Len(config.remote_backends) \in Nat
  PROVE  \E f : /\ IsBuilding(f, AddUnique(LocalCatalog, RemoteEntry(config.cloud)),
                              Len(config.remote_backends))
                /\ Catalog = f[Len(config.remote_backends)]
<1> DEFINE first == AddUnique(LocalCatalog, RemoteEntry(config.cloud))
           n == Len(config.remote_backends)
           f == CHOOSE g : IsBuilding(g, first, n)
<1>1. IsBuilding(f, first, n)
  BY BuildingExists, Zenon
<1>2. Catalog = f[n]
  BY Zenon DEF Catalog, IsBuilding, LocalCatalog, PublicCatalog
<1> QED
  BY <1>1, <1>2

LEMMA EntryShapes ==
  /\ IsEntry(DefaultPublicModel(config))
  /\ \A local : LET entry == LocalEntry(local)
                IN /\ IsEntry(entry) /\ DOMAIN entry = DOMAIN ModelDefaults
                   /\ entry.id = local.model_alias /\ entry.route_target = "local"
                   /\ entry.backend_id = local.backend_id
  /\ \A remote : LET entry == RemoteEntry(remote)
                 IN /\ IsEntry(entry) /\ DOMAIN entry = DOMAIN ModelDefaults
                    /\ entry.id = remote.model_alias /\ entry.route_target = "cloud"
                    /\ entry.backend_id = remote.backend_id
BY DEF DefaultPublicModel, LocalEntry, RemoteEntry, ModelDefaults, IsEntry

LEMMA StagesAreCatalogs ==
  ASSUME NEW first, IsCatalog(first), NEW n \in Nat, NEW f, IsBuilding(f, first, n)
  PROVE  \A k \in 0 .. n : IsCatalog(f[k])
<1> DEFINE Bad == {k \in 0 .. n : ~IsCatalog(f[k])}
<1> SUFFICES ASSUME Bad # {} PROVE FALSE
  OBVIOUS
<1>1. PICK b \in Bad : \A y \in Bad : b <= y
  <2> HIDE DEF Bad
  <2> Bad \subseteq Nat
    BY DEF Bad
  <2> QED
    BY LeastExists
<1>2. b \in 0 .. n /\ b # 0
  BY DEF IsBuilding
<1>3. b - 1 \in 0 .. n /\ IsCatalog(f[b - 1])
  BY <1>1, <1>2
<1>4. f[b] = AddUnique(f[b - 1], RemoteEntry(config.remote_backends[b]))
  BY <1>2 DEF IsBuilding
<1>5. IsEntry(RemoteEntry(config.remote_backends[b]))
  BY EntryShapes
<1>6. IsCatalog(f[b])
  BY <1>3, <1>4, <1>5, AddUniqueIsCatalog
<1> QED
  BY <1>6

\* Where an id leads, it leads to the end of the building.
LEMMA LeadsOn ==
  ASSUME NEW first, IsCatalog(first), NEW n \in Nat, NEW f, IsBuilding(f, first, n),
         NEW from \in 0 .. n, NEW id, NEW route, NEW backend, Leads(f[from], id, route, backend),
         \A j \in (from + 1) .. n : ~Names(RemoteEntry(config.remote_backends[j]), id)
  PROVE  Leads(f[n], id, route, backend)
<1> DEFINE Bad == {k \in from .. n : ~Leads(f[k], id, route, backend)}
<1> SUFFICES ASSUME Bad # {} PROVE FALSE
  OBVIOUS
<1>1. PICK b \in Bad : \A y \in Bad : b <= y
  <2> HIDE DEF Bad
  <2> Bad \subseteq Nat
    BY DEF Bad
  <2> QED
    BY LeastExists
<1>2. b \in from .. n /\ b # from
  OBVIOUS
<1>3. b \in (from + 1) .. n /\ b - 1 \in from .. n /\ b - 1 \in 0 .. n /\ b # 0 /\ b \in 0 .. n
  BY <1>2
<1>4. Leads(f[b - 1], id, route, backend)
  BY <1>1, <1>3
<1>5. f[b] = AddUnique(f[b - 1], RemoteEntry(config.remote_backends[b]))
  BY <1>3 DEF IsBuilding
<1>6. DOMAIN RemoteEntry(config.remote_backends[b]) = DOMAIN ModelDefaults
      /\ ~Names(RemoteEntry(config.remote_backends[b]), id)
  BY <1>3, EntryShapes
<1>7. IsCatalog(f[b - 1])
  BY <1>3, StagesAreCatalogs
<1>8. Leads(f[b], id, route, backend)
  BY <1>4, <1>5, <1>6, <1>7, OthersKeep
<1> QED
  BY <1>8

LEMMA LocalCatalogFacts ==
  ASSUME WellShaped(config)
  PROVE  /\ IsCatalog(LocalCatalog)
         /\ config.local.model_alias # "" =>
              Leads(LocalCatalog, config.local.model_alias, "local", config.local.backend_id)
<1> DEFINE entry == LocalEntry(config.local)
<1>1. IsCatalog(PublicCatalog)
  BY EntryShapes, AddUniqueIsCatalog DEF WellShaped, PublicCatalog
<1>2. /\ IsEntry(entry) /\ DOMAIN entry = DOMAIN ModelDefaults
      /\ entry.id = config.local.model_alias /\ entry.route_target = "local"
      /\ entry.backend_id = config.local.backend_id
  BY EntryShapes
<1>3. LocalCatalog = AddUnique(PublicCatalog, entry)
  BY DEF LocalCatalog
<1> HIDE DEF entry
<1>4. IsCatalog(LocalCatalog)
  BY <1>1, <1>2, <1>3, AddUniqueIsCatalog
<1>5. ASSUME config.local.model_alias # ""
      PROVE  Leads(LocalCatalog, config.local.model_alias, "local", config.local.backend_id)
  <2>1. Routes(entry)
    BY <1>2, <1>5 DEF Routes
  <2>2. Leads(AddUnique(PublicCatalog, entry), entry.id, entry.route_target, entry.backend_id)
    BY <1>1, <1>2, <2>1, AddedLeads
  <2> QED
    BY <1>2, <1>3, <2>2
<1> QED
  BY <1>4, <1>5

LEMMA RemotesFacts ==
  ASSUME WellShaped(config)
  PROVE  /\ Len(config.remote_backends) \in Nat
         /\ DOMAIN Remotes = 1 .. Len(config.remote_backends) + 1
         /\ Remotes[1] = config.cloud
         /\ \A i \in 1 .. Len(config.remote_backends) :
              Remotes[i + 1] = config.remote_backends[i]
<1> DEFINE named == config.remote_backends
           S == {named[i] : i \in DOMAIN named} \cup {config.cloud}
<1>1. named \in Seq({named[i] : i \in DOMAIN named})
  BY DEF WellShaped, IsSequence
<1>2. config.cloud \in S /\ {named[i] : i \in DOMAIN named} \subseteq S
  OBVIOUS
<1> HIDE DEF S
<1>3. named \in Seq(S)
  BY <1>1, <1>2, SeqMonotonic
<1>4. <<config.cloud>> \in Seq(S) /\ Len(<<config.cloud>>) = 1
      /\ <<config.cloud>>[1] = config.cloud
  BY <1>2
<1>5. Remotes = <<config.cloud>> \o named
  BY DEF Remotes
<1> HIDE DEF named
<1>6. Len(named) \in Nat
  BY <1>3, LenProperties
<1>7. /\ <<config.cloud>> \o named \in Seq(S)
      /\ Len(<<config.cloud>> \o named) = Len(<<config.cloud>>) + Len(named)
      /\ \A i \in 1 .. Len(<<config.cloud>>) + Len(named) : (<<config.cloud>> \o named)[i] =
           IF i <= Len(<<config.cloud>>) THEN <<config.cloud>>[i]
           ELSE named[i - Len(<<config.cloud>>)]
  BY <1>3, <1>4, ConcatProperties
<1>8. /\ Remotes \in Seq(S) /\ Len(Remotes) = Len(named) + 1
      /\ \A i \in 1 .. Len(named) + 1 :
           Remotes[i] = IF i <= 1 THEN <<config.cloud>>[i] ELSE named[i - 1]
  BY <1>4, <1>5, <1>6, <1>7
<1>9. DOMAIN Remotes = 1 .. Len(named) + 1
  BY <1>8, LenProperties
<1>10. Remotes[1] = config.cloud /\ \A i \in 1 .. Len(named) : Remotes[i + 1] = named[i]
  BY <1>4, <1>6, <1>8
<1> QED
  BY <1>6, <1>9, <1>10 DEF named

LEMMA CatalogIsCatalog ==
  ASSUME WellShaped(config) PROVE IsCatalog(Catalog)
<1> DEFINE first == AddUnique(LocalCatalog, RemoteEntry(config.cloud))
           n == Len(config.remote_backends)
<1>1. n \in Nat
  BY RemotesFacts
<1>2. PICK f : IsBuilding(f, first, n) /\ Catalog = f[n]
  BY <1>1, CatalogIsBuilt
<1>3. IsCatalog(first)
  BY LocalCatalogFacts, EntryShapes, AddUniqueIsCatalog
<1> HIDE DEF first, n
<1>4. \A k \in 0 .. n : IsCatalog(f[k])
  BY <1>1, <1>2, <1>3, StagesAreCatalogs
<1> QED
  BY <1>1, <1>2, <1>4

LEMMA RemoteAliasLeads ==
  ASSUME WellShaped(config), NEW i \in DOMAIN Remotes, Distinct(i)
  PROVE  Leads(Catalog, Remotes[i].model_alias, "cloud", Remotes[i].backend_id)
<1> DEFINE first == AddUnique(LocalCatalog, RemoteEntry(config.cloud))
           n == Len(config.remote_backends)
           entry == RemoteEntry(Remotes[i])
           id == Remotes[i].model_alias
           backend == Remotes[i].backend_id
<1>1. /\ n \in Nat /\ DOMAIN Remotes = 1 .. n + 1
      /\ Remotes[1] = config.cloud
      /\ \A k \in 1 .. n : Remotes[k + 1] = config.remote_backends[k]
  BY RemotesFacts
<1>2. PICK f : IsBuilding(f, first, n) /\ Catalog = f[n]
  BY <1>1, CatalogIsBuilt
<1>3. IsCatalog(LocalCatalog) /\ IsCatalog(first)
  BY LocalCatalogFacts, EntryShapes, AddUniqueIsCatalog
<1>4. /\ DOMAIN entry = DOMAIN ModelDefaults
      /\ entry.id = id /\ entry.route_target = "cloud" /\ entry.backend_id = backend
  BY EntryShapes
<1>5. Routes(entry)
  BY <1>4 DEF Distinct, Routes
<1>6. \A k \in DOMAIN Remotes : k # i => ~Names(RemoteEntry(Remotes[k]), id)
  BY EntryShapes DEF Distinct, Names
<1>7. first = AddUnique(LocalCatalog, RemoteEntry(config.cloud))
  OBVIOUS
<1> HIDE DEF first, n
<1>8. i \in 1 .. n + 1 /\ i \in Nat /\ i - 1 \in 0 .. n
  BY <1>1
<1>9. PICK before : IsCatalog(before) /\ f[i - 1] = AddUnique(before, entry)
  <2>1. CASE i = 1
    <3>1. f[i - 1] = AddUnique(LocalCatalog, entry)
      BY <1>1, <1>2, <1>7, <1>8, <2>1 DEF IsBuilding
    <3> QED
      BY <1>3, <3>1
  <2>2. CASE i # 1
    <3>1. i - 1 \in 1 .. n /\ (i - 1) + 1 = i /\ (i - 1) - 1 \in 0 .. n /\ i - 1 # 0
      BY <1>1, <1>8, <2>2
    <3>2. Remotes[i] = config.remote_backends[i - 1]
      BY <1>1, <3>1
    <3>3. f[i - 1] = AddUnique(f[(i - 1) - 1], RemoteEntry(config.remote_backends[i - 1]))
      BY <1>2, <1>8, <3>1 DEF IsBuilding
    <3>4. IsCatalog(f[(i - 1) - 1])
      BY <1>1, <1>2, <1>3, <3>1, StagesAreCatalogs
    <3> QED
      BY <3>2, <3>3, <3>4
  <2> QED
    BY <2>1, <2>2
<1> HIDE DEF entry, id, backend
<1>10. Leads(f[i - 1], id, "cloud", backend)
  <2>1. Leads(AddUnique(before, entry), entry.id, entry.route_target, entry.backend_id)
    BY <1>4, <1>5, <1>9, AddedLeads
  <2> QED
    BY <1>4, <1>9, <2>1
<1>11. ASSUME NEW j \in ((i - 1) + 1) .. n
       PROVE  ~Names(RemoteEntry(config.remote_backends[j]), id)
  <2>1. j \in 1 .. n /\ j + 1 \in 1 .. n + 1 /\ j + 1 # i
    BY <1>1, <1>8
  <2>2. Remotes[j + 1] = config.remote_backends[j] /\ j + 1 \in DOMAIN Remotes
    BY <1>1, <2>1
  <2> QED
    BY <1>6, <2>1, <2>2
<1>12. PICK from \in 0 .. n : from = i - 1
  BY <1>8
<1>13. /\ Leads(f[from], id, "cloud", backend)
       /\ \A j \in (from + 1) .. n : ~Names(RemoteEntry(config.remote_backends[j]), id)
  BY <1>10, <1>11, <1>12
<1>14. Leads(f[n], id, "cloud", backend)
  BY <1>1, <1>2, <1>3, <1>13, LeadsOn
<1> QED
  BY <1>2, <1>14 DEF id, backend

\* The alias of the local engine is one that no remote backend has.
LocalAlone ==
  /\ config.local.model_alias # ""
  /\ \A i \in DOMAIN Remotes : Remotes[i].model_alias # config.local.model_alias

LEMMA LocalAliasLeads ==
  ASSUME WellShaped(config), LocalAlone
  PROVE  Leads(Catalog, config.local.model_alias, "local", config.local.backend_id)
<1> DEFINE first == AddUnique(LocalCatalog, RemoteEntry(config.cloud))
           n == Len(config.remote_backends)
           id == config.local.model_alias
           backend == config.local.backend_id
<1>1. /\ n \in Nat /\ DOMAIN Remotes = 1 .. n + 1
      /\ Remotes[1] = config.cloud
      /\ \A k \in 1 .. n : Remotes[k + 1] = config.remote_backends[k]
  BY RemotesFacts
<1>2. PICK f : IsBuilding(f, first, n) /\ Catalog = f[n]
  BY <1>1, CatalogIsBuilt
<1>3. /\ IsCatalog(LocalCatalog) /\ IsCatalog(first)
      /\ Leads(LocalCatalog, id, "local", backend)
  BY LocalCatalogFacts, EntryShapes, AddUniqueIsCatalog DEF LocalAlone
<1>4. \A k \in DOMAIN Remotes : ~Names(RemoteEntry(Remotes[k]), id)
  BY EntryShapes DEF Names, LocalAlone
<1>5. first = AddUnique(LocalCatalog, RemoteEntry(config.cloud))
  OBVIOUS
<1> HIDE DEF first, n, id, backend
<1>6. 1 \in DOMAIN Remotes /\ \A j \in 1 .. n : j + 1 \in DOMAIN Remotes
  BY <1>1
<1>7. ~Names(RemoteEntry(config.cloud), id)
  BY <1>1, <1>4, <1>6
<1>8. Leads(first, id, "local", backend)
  BY <1>3, <1>5, <1>7, EntryShapes, OthersKeep
<1>9. f[0] = first /\ 0 \in 0 .. n
  BY <1>1, <1>2 DEF IsBuilding
<1>10. PICK from \in 0 .. n : from = 0
  BY <1>9
<1>11. \A j \in (from + 1) .. n : ~Names(RemoteEntry(config.remote_backends[j]), id)
  BY <1>1, <1>4, <1>6, <1>10
<1>12. Leads(f[from], id, "local", backend)
  BY <1>8, <1>9, <1>10
<1>13. Leads(f[n], id, "local", backend)
  BY <1>1, <1>2, <1>3, <1>11, <1>12, LeadsOn
<1> QED
  BY <1>2, <1>13 DEF id, backend

LEMMA LeadsToEntry ==
  ASSUME IsCatalog(Catalog), NEW id, NEW route, NEW backend, Leads(Catalog, id, route, backend)
  PROVE  /\ CatalogEntry(id).route_target = route
         /\ backend # "" => CatalogEntry(id).backend_id = backend
<1>1. PICK p \in DOMAIN Catalog :
        /\ IsFirst(Catalog, id, p)
        /\ Catalog[p].route_target = route
        /\ backend # "" => Catalog[p].backend_id = backend
  BY DEF Leads
<1> DEFINE q == CHOOSE i \in DOMAIN Catalog :
                  /\ Catalog[i].id = id
                  /\ \A j \in 1 .. (i - 1) : Catalog[j].id # id
<1>2. \E i \in DOMAIN Catalog :
        /\ Catalog[i].id = id
        /\ \A j \in 1 .. (i - 1) : Catalog[j].id # id
  BY <1>1 DEF IsFirst
<1>3. IsFirst(Catalog, id, q)
  BY <1>2 DEF IsFirst
<1>4. CatalogEntry(id) = Catalog[q]
  BY DEF CatalogEntry
<1> HIDE DEF q
<1>5. q = p
  BY <1>1, <1>3, FirstIsUnique DEF IsCatalog
<1> QED
  BY <1>1, <1>4, <1>5

\* The first backend of a set of one.
LEMMA FirstOfOne ==
  ASSUME NEW i \in Nat PROVE FirstOf({i}) = Remotes[i]
<1>1. \E k \in {i} : \A j \in {i} : k <= j
  OBVIOUS
<1>2. (CHOOSE k \in {i} : \A j \in {i} : k <= j) = i
  BY <1>1
<1> QED
  BY <1>2 DEF FirstOf

LEMMA AcceptedReachesItsBackend ==
  ASSUME ConfigInv, Accept PROVE AliasReachesItsBackend'
<1>1. request' = Parsed(body) /\ config' = config
  BY DEF Accept, AcceptBody, startupVars
<1>2. /\ request'.model = Model(body)
      /\ request'.override = CatalogEntry(Model(body)).route_target
      /\ request'.backend = CatalogEntry(Model(body)).backend_id
  BY <1>1 DEF Parsed
<1>3. WellShaped(config) /\ IsCatalog(Catalog)
  BY CatalogIsCatalog DEF ConfigInv
<1>4. Remotes' = Remotes /\ Usable' = Usable
  BY <1>1 DEF Remotes, Usable
<1>5. ASSUME NEW i \in DOMAIN Remotes, Distinct(i), request'.model = Remotes[i].model_alias
      PROVE  request'.override = "cloud" /\ SelectBackend(request)' = Remotes[i]
  <2>1. Leads(Catalog, Remotes[i].model_alias, "cloud", Remotes[i].backend_id)
    BY <1>3, <1>5, RemoteAliasLeads
  <2>2. Remotes[i].backend_id # ""
    BY <1>5 DEF Distinct
  <2>3. request'.override = "cloud" /\ request'.backend = Remotes[i].backend_id
    <3>1. /\ CatalogEntry(Remotes[i].model_alias).route_target = "cloud"
          /\ Remotes[i].backend_id # "" =>
               CatalogEntry(Remotes[i].model_alias).backend_id = Remotes[i].backend_id
      BY <1>3, <2>1, LeadsToEntry
    <3>2. Model(body) = Remotes[i].model_alias
      BY <1>2, <1>5
    <3> QED
      BY <1>2, <2>2, <3>1, <3>2
  <2>4. {j \in Usable : request'.backend # "" /\ Remotes[j].backend_id = request'.backend} = {i}
    BY <1>5, <2>2, <2>3 DEF Distinct, Usable
  <2>5. i \in Nat
    BY <1>3, RemotesFacts
  <2>6. SelectBackend(request)' = FirstOf({i})
    BY <1>1, <1>4, <2>4 DEF SelectBackend, FirstOf
  <2> QED
    BY <2>3, <2>5, <2>6, FirstOfOne
<1>6. ASSUME request'.model = config.local.model_alias, request'.model # "",
             \A i \in DOMAIN Remotes : Remotes[i].model_alias # request'.model
      PROVE  request'.override = "local"
  <2>1. LocalAlone
    BY <1>6 DEF LocalAlone
  <2>2. Leads(Catalog, config.local.model_alias, "local", config.local.backend_id)
    BY <1>3, <2>1, LocalAliasLeads
  <2> QED
    <3>1. CatalogEntry(config.local.model_alias).route_target = "local"
      BY <1>3, <2>2, LeadsToEntry
    <3> QED
      BY <1>2, <1>6, <3>1
<1>7. \A i \in DOMAIN Remotes : Distinct(i)' = Distinct(i)
  BY <1>4 DEF Distinct
<1> QED
  BY <1>1, <1>4, <1>5, <1>6, <1>7 DEF AliasReachesItsBackend

LEMMA AliasStep ==
  ASSUME ConfigInv, PhaseInv, AliasReachesItsBackend, [Next]_vars
  PROVE  AliasReachesItsBackend'
<1>1. CASE Accept
  BY <1>1, AcceptedReachesItsBackend
<1>2. CASE Boot \/ \E quoting \in BOOLEAN : Reject(quoting)
  <2>1. verdict' # "accepted"
    BY <1>2 DEF Boot, Reject, RejectBody, requestVars, PhaseInv
  <2> QED
    BY <2>1 DEF AliasReachesItsBackend
<1>3. CASE UNCHANGED <<requestVars, startupVars>>
  <2>1. request' = request /\ verdict' = verdict /\ config' = config
    BY <1>3 DEF requestVars, startupVars
  <2>2. Remotes' = Remotes /\ Usable' = Usable
    BY <2>1 DEF Remotes, Usable
  <2>3. SelectBackend(request)' = SelectBackend(request)
    BY <2>1, <2>2 DEF SelectBackend, FirstOf
  <2>4. \A i \in DOMAIN Remotes : Distinct(i)' = Distinct(i)
    BY <2>2 DEF Distinct
  <2> QED
    BY <2>1, <2>2, <2>3, <2>4 DEF AliasReachesItsBackend
<1>4. \/ Accept \/ Boot \/ \E quoting \in BOOLEAN : Reject(quoting)
      \/ UNCHANGED <<requestVars, startupVars>>
  BY DEF Next, vars, Invalid, ServeLocal, LocalUnavailable, Generate, ContentThrows,
     LocalReturns, ServeCloud, CloudUnavailable, CloudDelta, CloudWhole, CloudRestart,
     CloudSucceeds, CloudFails, WriteNext
<1> QED
  BY <1>1, <1>2, <1>3, <1>4

-----------------------------------------------------------------------------
(* Who speaks to the client *)

\* What a step means to InferenceService.
Promised == Promise!Next \/ UNCHANGED Promise!vars

LEMMA Stutters ==
  ASSUME Stage' = Stage, Asked' = Asked, Source' = Source PROVE Promised
BY DEF Promised, Promise!vars

LEMMA Submits ==
  ASSUME Stage = "new", Stage' = "working", Asked' \in {"auto", "local", "cloud"},
         Source' = Source
  PROVE  Promised
<1>1. Promise!Submit("it", Asked')
  BY DEF Promise!Submit
<1>2. Asked' \in Promise!Overrides
  BY DEF Promise!Overrides, Promise!Backends
<1> QED
  BY <1>1, <1>2 DEF Promised, Promise!Next

LEMMA Speaks ==
  ASSUME Stage = "working", Stage' = Stage, Asked' = Asked, Source = "none",
         Source' \in {"local", "cloud"}, Asked \in {"auto", Source'}
  PROVE  Promised
<1>1. Promise!Speak("it", Source')
  BY DEF Promise!Speak, Promise!Permitted, Promise!Backends
<1> QED
  BY <1>1 DEF Promised, Promise!Next, Promise!Backends

LEMMA Answers ==
  ASSUME Stage = "working", Stage' = "answered", Asked' = Asked, Source \in {"none", Source'},
         Source' \in {"local", "cloud"}, Asked \in {"auto", Source'}
  PROVE  Promised
<1>1. Promise!Answer("it", Source')
  BY DEF Promise!Answer, Promise!Permitted, Promise!Backends
<1> QED
  BY <1>1 DEF Promised, Promise!Next, Promise!Backends

LEMMA GivesUp ==
  ASSUME Stage = "working", NEW how \in {"failed", "aborted"}, Stage' = how,
         Asked' = Asked, Source' = Source
  PROVE  Promised
<1>1. Promise!GiveUp("it", how)
  BY DEF Promise!GiveUp
<1> QED
  BY <1>1 DEF Promised, Promise!Next, Promise!Settled

LEMMA BreaksOff ==
  ASSUME Stage = "working", Stage' = "aborted", Asked' = Asked, Source \in {"none", Source'},
         Source' \in {"local", "cloud"}, Asked \in {"auto", Source'}
  PROVE  Promised
<1>1. Promise!BreakOff("it", Source')
  BY DEF Promise!BreakOff, Promise!Permitted, Promise!Backends
<1> QED
  BY <1>1 DEF Promised, Promise!Next, Promise!Backends

\* The backend that was tried last is the one that is not the target, if it was tried.
LEMMA SpeakerIs ==
  ASSUME tried \subseteq {"local", "cloud"}, Target \in tried,
         NEW b \in tried, tried = {b} \/ b # Target
  PROVE  Speaker = b
<1>1. \A x \in tried : tried = {x} \/ x # Target => x = b
  OBVIOUS
<1> QED
  BY <1>1 DEF Speaker

LEMMA SpeakerIsPermitted ==
  ASSUME TurnInv, verdict = "accepted", tried # {}
  PROVE  Speaker \in {"local", "cloud"} /\ Asked \in {"auto", Speaker}
<1>1. tried \subseteq {"local", "cloud"} /\ Target \in tried
  BY DEF TurnInv
<1>2. CASE tried = {Target}
  <2>1. Speaker = Target
    BY <1>1, <1>2, SpeakerIs
  <2>2. request.override # "auto" => Target = request.override
    BY DEF Target
  <2> QED
    BY <1>1, <2>1, <2>2 DEF Asked
<1>3. CASE tried # {Target}
  <2>1. PICK b \in tried : b # Target
    BY <1>1, <1>3
  <2>2. Speaker = b
    BY <1>1, <2>1, SpeakerIs
  <2>3. tried = {"local", "cloud"}
    BY <1>1, <2>1
  <2> QED
    BY <1>1, <2>2, <2>3 DEF TurnInv, Asked
<1> QED
  BY <1>2, <1>3

LEMMA SameTurn ==
  ASSUME UNCHANGED <<request, verdict, tried>>
  PROVE  Target' = Target /\ Speaker' = Speaker /\ Asked' = Asked /\ Streaming' = Streaming
BY DEF Target, Decide, Speaker, Asked, Streaming

\* The route an accepted request is given is one of the three.
LEMMA AcceptedRoute ==
  ASSUME ConfigInv, Accept PROVE request'.override \in {"auto", "local", "cloud"}
<1>1. request'.override = CatalogEntry(Model(body)).route_target /\ KnownModel(Model(body))
  BY DEF Accept, AcceptBody, Parsed
<1> DEFINE id == Model(body)
           q == CHOOSE i \in DOMAIN Catalog :
                  /\ Catalog[i].id = id
                  /\ \A j \in 1 .. (i - 1) : Catalog[j].id # id
<1>2. IsCatalog(Catalog)
  BY CatalogIsCatalog DEF ConfigInv
<1>3. \E i \in DOMAIN Catalog : Catalog[i].id = id
  BY <1>1 DEF KnownModel
<1> HIDE DEF id
<1>4. \E i \in DOMAIN Catalog :
        /\ Catalog[i].id = id
        /\ \A j \in 1 .. (i - 1) : Catalog[j].id # id
  BY <1>2, <1>3, FirstOfIdExists DEF IsCatalog
<1>5. q \in DOMAIN Catalog
  BY <1>4
<1>6. CatalogEntry(id) = Catalog[q]
  BY DEF CatalogEntry
<1> HIDE DEF q
<1>7. IsEntry(Catalog[q])
  BY <1>2, <1>5 DEF IsCatalog
<1> QED
  BY <1>1, <1>6, <1>7 DEF IsEntry, id

LEMMA OpeningTurns ==
  ASSUME ConfigInv, PhaseInv, TurnInv,
         Boot \/ Accept \/ \E quoting \in BOOLEAN : Reject(quoting)
  PROVE  TurnInv' /\ Promised
<1>1. UNCHANGED <<tried, pending, response, role>> /\ phase \in {"boot", "parse"}
      /\ verdict = "none" /\ ~role /\ tried = {} /\ ~response.ok
  BY DEF Boot, Accept, Reject, wireVars, PhaseInv, TurnInv
<1>2. Source = "none" /\ Source' = "none" /\ Stage = "new" /\ Asked = "auto"
  BY <1>1 DEF Source, Stage, Asked
<1>3. CASE Accept
  <2>1. phase' = "route" /\ verdict' = "accepted"
    BY <1>3 DEF Accept, AcceptBody
  <2>2. request'.override \in {"auto", "local", "cloud"}
    BY <1>3, AcceptedRoute
  <2>3. Stage' = "working" /\ Asked' \in {"auto", "local", "cloud"}
    BY <2>1, <2>2 DEF Stage, Asked
  <2>4. TurnInv'
    BY <1>1, <2>1, <2>2 DEF TurnInv
  <2> QED
    BY <1>2, <2>3, <2>4, Submits
<1>4. CASE Boot \/ \E quoting \in BOOLEAN : Reject(quoting)
  <2>1. phase' \in {"boot", "parse", "closed", "threw"} /\ verdict' # "accepted"
    BY <1>1, <1>4 DEF Boot, Reject, RejectBody, requestVars
  <2>2. Stage' = "new" /\ Asked' = "auto"
    BY <2>1 DEF Stage, Asked
  <2>3. TurnInv'
    BY <1>1, <2>1 DEF TurnInv
  <2> QED
    BY <1>2, <2>2, <2>3, Stutters
<1> QED
  BY <1>3, <1>4

\* A backend that gets the request is its target, or the other one after it.
LEMMA TurnTaken ==
  ASSUME TurnInv, verdict = "accepted", NEW b \in {"local", "cloud"}, Turn(b),
         UNCHANGED <<request, verdict>>, tried' = tried \cup {b}
  PROVE  /\ tried' \subseteq {"local", "cloud"} /\ tried' # {} /\ b \in tried'
         /\ Target' \in tried' /\ Speaker' = b
         /\ tried' = {"local", "cloud"} => request.override = "auto"
         /\ Target \in {"local", "cloud"}
<1>1. /\ phase = "route" /\ tried \subseteq {"local", "cloud"}
      /\ tried # {} => Target \in tried
      /\ IF tried = {} THEN b = Target ELSE b \notin tried
      /\ tried # {} => request.override = "auto"
  BY DEF Turn, TurnInv
<1>2. Target' = Target
  BY DEF Target, Decide
<1>3. /\ tried' \subseteq {"local", "cloud"} /\ tried' # {} /\ b \in tried'
      /\ Target' \in tried' /\ Target \in {"local", "cloud"}
      /\ tried' = {"local", "cloud"} => request.override = "auto"
  <2>1. CASE tried = {}
    BY <1>1, <1>2, <2>1
  <2>2. CASE tried # {}
    BY <1>1, <1>2, <2>2
  <2> QED
    BY <2>1, <2>2
<1>4. tried' = {b} \/ b # Target'
  BY <1>1, <1>2
<1>5. \A x \in tried' : tried' = {x} \/ x # Target' => x = b
  BY <1>3, <1>4
<1>6. Speaker' = b
  BY <1>3, <1>4, <1>5 DEF Speaker
<1> QED
  BY <1>3, <1>6

LEMMA ServingTurns ==
  ASSUME PhaseInv, TurnInv, ServeLocal \/ ServeCloud
  PROVE  TurnInv' /\ Promised
<1>1. /\ UNCHANGED <<pending, response, request, verdict, role>>
      /\ phase = "route" /\ verdict = "accepted"
  BY DEF ServeLocal, ServeCloud, Turn, requestVars, wireVars, PhaseInv
<1>2. PICK b \in {"local", "cloud"} : Turn(b) /\ phase' = b /\ tried' = tried \cup {b}
  BY DEF ServeLocal, ServeCloud
<1>3. /\ tried' \subseteq {"local", "cloud"} /\ tried' # {} /\ b \in tried'
      /\ Target' \in tried' /\ Speaker' = b
      /\ tried' = {"local", "cloud"} => request.override = "auto"
  BY <1>1, <1>2, TurnTaken
<1>4. ~role /\ ~response.ok
  BY <1>1 DEF TurnInv
<1>5. Streaming' = Streaming
  BY <1>1 DEF Streaming
<1>6. TurnInv'
  BY <1>1, <1>2, <1>3, <1>4, <1>5 DEF TurnInv
<1>7. Stage' = Stage /\ Asked' = Asked /\ Source' = Source
  BY <1>1, <1>2, <1>4 DEF Stage, Asked, Source
<1> QED
  BY <1>6, <1>7, Stutters

\* A response without an answer, or another turn.
LEMMA FailTurns ==
  ASSUME PhaseInv, WireInv, TurnInv, phase \in {"route", "local", "cloud"},
         NEW kind, NEW other, Fail(kind, other) \/ (Refuse(kind) /\ other \notin tried),
         UNCHANGED <<request, verdict>>,
         other \in {"local", "cloud"}, tried' \subseteq {"local", "cloud"},
         tried' # {} => Target' \in tried',
         other \notin tried => other \notin tried',
         tried' = {"local", "cloud"} => request.override = "auto",
         role => tried' = tried
  PROVE  TurnInv' /\ Promised
<1>1. verdict = "accepted" /\ ~response.ok /\ Streaming' = Streaming /\ Asked' = Asked
  BY DEF PhaseInv, TurnInv, Streaming, Asked
<1>2. Stage = "working"
  BY <1>1 DEF Stage
<1>3. CASE Fail(kind, other) /\ MayFallBack(other)
  <2>1. /\ phase' = "route" /\ UNCHANGED <<pending, response, wire, role, gone>>
        /\ wire = << >> /\ request.override = "auto" /\ other \notin tried
    BY <1>3 DEF Fail, MayFallBack, wireVars
  <2>2. ~role
    BY <2>1 DEF WireInv, TurnInv
  <2>3. tried' # {"local", "cloud"}
    BY <2>1
  <2>4. TurnInv'
    BY <1>1, <2>1, <2>2, <2>3 DEF TurnInv
  <2>5. Stage' = Stage /\ Source' = Source
    BY <1>1, <1>2, <2>1, <2>2 DEF Stage, Source
  <2> QED
    BY <1>1, <2>4, <2>5, Stutters
<1>4. CASE Refuse(kind)
  <2>1. /\ ~response'.ok /\ UNCHANGED role
        /\ phase' \in {"closed", "writing", "threw"}
        /\ phase' = "writing" => Streaming /\ pending' = <<Chunk("error"), Chunk("done")>>
    BY <1>1, <1>4 DEF Refuse, Respond, Throw, NoResponse, FinalChunks
  <2>2. TurnInv'
    BY <1>1, <2>1 DEF TurnInv
  <2>3. Stage' \in {"failed", "aborted"}
    BY <1>1, <2>1 DEF Stage
  <2>4. Source' = Source
    <3>1. CASE role
      <4>1. Speaker' = Speaker
        BY <3>1, SameTurn
      <4> QED
        BY <2>1, <3>1, <4>1 DEF Source
    <3>2. CASE ~role
      BY <1>1, <2>1, <3>2 DEF Source
    <3> QED
      BY <3>1, <3>2
  <2> QED
    BY <1>1, <1>2, <2>2, <2>3, <2>4, GivesUp
<1> QED
  BY <1>3, <1>4 DEF Fail

LEMMA FailuresTurn ==
  ASSUME PhaseInv, WireInv, TurnInv,
         \/ Invalid \/ LocalUnavailable \/ CloudUnavailable
         \/ \E quoting \in BOOLEAN : CloudFails(quoting)
         \/ LocalReturns /\ outcome # "ok"
  PROVE  TurnInv' /\ Promised
<1>1. UNCHANGED <<request, verdict>> /\ phase \in {"route", "local", "cloud"}
      /\ verdict = "accepted"
  BY DEF Invalid, LocalUnavailable, CloudUnavailable, CloudFails, LocalReturns, Turn,
     requestVars, PhaseInv
<1>2. ASSUME tried' = tried, NEW kind, NEW other \in {"local", "cloud"},
             Fail(kind, other) \/ (Refuse(kind) /\ other \notin tried)
      PROVE  TurnInv' /\ Promised
  <2>1. Target' = Target
    BY <1>1, <1>2, SameTurn
  <2>2. /\ tried' \subseteq {"local", "cloud"} /\ (tried' # {} => Target' \in tried')
        /\ tried' = {"local", "cloud"} => request.override = "auto"
    BY <1>2, <2>1 DEF TurnInv
  <2> QED
    BY <1>1, <1>2, <2>2, FailTurns
<1>3. ASSUME NEW b \in {"local", "cloud"}, NEW other \in {"local", "cloud"}, b # other,
             Turn(b), tried' = tried \cup {b}, NEW kind, Fail(kind, other)
      PROVE  TurnInv' /\ Promised
  <2>1. /\ tried' \subseteq {"local", "cloud"} /\ (tried' # {} => Target' \in tried')
        /\ tried' = {"local", "cloud"} => request.override = "auto"
    BY <1>1, <1>3, TurnTaken
  <2>2. ~role
    BY <1>3 DEF Turn, TurnInv
  <2>3. other \notin tried => other \notin tried'
    BY <1>3
  <2> QED
    BY <1>1, <1>3, <2>1, <2>2, <2>3, FailTurns
<1>4. CASE Invalid
  <2>1. tried' = tried /\ Refuse("invalid_request")
    BY <1>4 DEF Invalid
  <2>2. phase = "route"
    BY <1>4 DEF Invalid
  <2>3. PICK other \in {"local", "cloud"} : other \notin tried
    BY <2>2 DEF TurnInv
  <2> QED
    BY <1>2, <2>1, <2>3
<1>5. CASE LocalUnavailable
  BY <1>3, <1>5 DEF LocalUnavailable
<1>6. CASE CloudUnavailable
  BY <1>3, <1>6 DEF CloudUnavailable
<1>7. CASE \E quoting \in BOOLEAN : CloudFails(quoting)
  BY <1>2, <1>7 DEF CloudFails
<1>8. CASE LocalReturns /\ outcome # "ok"
  BY <1>2, <1>8 DEF LocalReturns
<1> QED
  BY <1>4, <1>5, <1>6, <1>7, <1>8

\* What a callback writes is the first word of the backend that has the request,
\* or one more of it.
LEMMA CallbackTurns ==
  ASSUME TurnInv, verdict = "accepted", phase \in {"local", "cloud"}, role \in BOOLEAN,
         UNCHANGED <<phase, tried, response, request, verdict>>,
         UNCHANGED role \/ (Streaming /\ role' \in BOOLEAN /\ (role => role'))
  PROVE  TurnInv' /\ Promised
<1>1. Target' = Target /\ Speaker' = Speaker /\ Asked' = Asked /\ Streaming' = Streaming
  BY SameTurn
<1>2. TurnInv'
  BY <1>1 DEF TurnInv
<1>3. Stage = "working" /\ Stage' = Stage /\ ~response.ok /\ tried # {}
  BY DEF Stage, TurnInv
<1>4. CASE role' = role
  <2>1. Source' = Source
    BY <1>1, <1>4 DEF Source
  <2> QED
    BY <1>1, <1>2, <1>3, <2>1, Stutters
<1>5. CASE ~role /\ role'
  <2>1. Source = "none" /\ Source' = Speaker
    BY <1>1, <1>3, <1>5 DEF Source
  <2>2. Speaker \in {"local", "cloud"} /\ Asked \in {"auto", Speaker}
    BY <1>3, SpeakerIsPermitted
  <2> QED
    BY <1>1, <1>2, <1>3, <2>1, <2>2, Speaks
<1>6. CASE role /\ role'
  <2>1. Source' = Source
    BY <1>1, <1>6 DEF Source
  <2> QED
    BY <1>1, <1>2, <1>3, <2>1, Stutters
<1> QED
  BY <1>4, <1>5, <1>6

LEMMA DeliverRole ==
  ASSUME NEW chunks, NEW accepted, role \in BOOLEAN, Deliver(chunks, accepted)
  PROVE  role' \in BOOLEAN /\ (role => role')
BY DEF Deliver, wireVars

LEMMA GenerateTurns ==
  ASSUME GenerationInv, PhaseInv, TurnInv, Generate
  PROVE  TurnInv' /\ Promised
<1>1. /\ phase = "local" /\ verdict = "accepted" /\ job = JobOf(request) /\ role \in BOOLEAN
      /\ UNCHANGED <<phase, tried, response, request, verdict>>
  BY DEF Generate, serviceVars, requestVars, PhaseInv
<1>2. UNCHANGED role \/ (Streaming /\ role' \in BOOLEAN /\ (role => role'))
  <2>1. CASE UNCHANGED wireVars
    BY <2>1 DEF wireVars
  <2>2. ASSUME NEW accepted \in BOOLEAN,
               \/ \E piece \in Pieces :
                    StreamToken(piece, accepted) \/ StreamStop(piece, accepted)
               \/ FinishGeneration(accepted),
               Deliver(IF accepted THEN Contents(Taken) ELSE <<Content(<< >>)>>, accepted)
        PROVE  UNCHANGED role \/ (Streaming /\ role' \in BOOLEAN /\ (role => role'))
    <3>1. CASE Streaming
      BY <1>1, <2>2, <3>1, DeliverRole
    <3>2. CASE ~Streaming
      <4>1. job.mode = "buffered"
        BY <1>1, <3>2 DEF JobOf, Streaming
      <4>2. accepted = TRUE /\ heard' = heard
        BY <2>2, <4>1 DEF StreamToken, StreamStop, FinishGeneration
      <4>3. Len(heard) \in Nat
        BY LenProperties DEF GenerationInv, GenerationTypeOK, Texts
      <4>4. SubSeq(heard', Len(heard) + 1, Len(heard')) = << >>
        BY <4>2, <4>3, SubSeqEmpty
      <4>5. Deliver(<< >>, accepted)
        BY <2>2, <4>2, <4>4 DEF Contents, Taken
      <4> QED
        BY <4>5 DEF Deliver, wireVars
    <3> QED
      BY <3>1, <3>2
  <2> QED
    BY <2>1, <2>2, Zenon DEF Generate
<1> QED
  BY <1>1, <1>2, CallbackTurns

LEMMA ContentThrowsTurns ==
  ASSUME PhaseInv, TurnInv, ContentThrows
  PROVE  TurnInv' /\ Promised
<1>1. /\ phase = "local" /\ verdict = "accepted" /\ job = JobOf(request) /\ role \in BOOLEAN
      /\ phase' = "threw" /\ role' = TRUE
      /\ UNCHANGED <<tried, response, request, verdict>>
  BY DEF ContentThrows, Throw, requestVars, PhaseInv
<1>2. Target' = Target /\ Speaker' = Speaker /\ Asked' = Asked /\ Streaming' = Streaming
  BY <1>1, SameTurn
<1>3. Streaming
  <2>1. job.mode = "stream"
    BY DEF ContentThrows, StreamToken, StreamStop, FinishGeneration
  <2> QED
    BY <1>1, <2>1 DEF JobOf, Streaming
<1>4. TurnInv'
  BY <1>1, <1>2, <1>3 DEF TurnInv
<1>5. Stage = "working" /\ Stage' = "aborted" /\ ~response.ok /\ tried # {}
  BY <1>1 DEF Stage, TurnInv
<1>6. Source \in {"none", Speaker} /\ Source' = Speaker
  BY <1>1, <1>2, <1>5 DEF Source
<1>7. Speaker \in {"local", "cloud"} /\ Asked \in {"auto", Speaker}
  BY <1>1, <1>5, SpeakerIsPermitted
<1> QED
  BY <1>2, <1>4, <1>5, <1>6, <1>7, BreaksOff

LEMMA CloudStepTurns ==
  ASSUME PhaseInv, TurnInv,
         \/ CloudRestart
         \/ \E piece, fragment \in CloudPieces \cup {<< >>}, asText, accepted \in BOOLEAN :
              CloudDelta(piece, fragment, asText, accepted)
  PROVE  TurnInv' /\ Promised
<1>1. /\ phase = "cloud" /\ verdict = "accepted" /\ role \in BOOLEAN
      /\ UNCHANGED <<phase, tried, response, request, verdict>>
  BY DEF CloudRestart, CloudDelta, serviceVars, requestVars, PhaseInv
<1>2. UNCHANGED role \/ (Streaming /\ role' \in BOOLEAN /\ (role => role'))
  <2>1. CASE CloudRestart
    BY <2>1 DEF CloudRestart, wireVars
  <2>2. ASSUME NEW piece, NEW fragment, NEW asText, NEW accepted,
               CloudDelta(piece, fragment, asText, accepted)
        PROVE  UNCHANGED role \/ (Streaming /\ role' \in BOOLEAN /\ (role => role'))
    <3>1. CASE Streaming
      <4>1. Deliver(Contents(piece) \o Tools(fragment), accepted)
        BY <2>2, <3>1 DEF CloudDelta
      <4> QED
        BY <1>1, <3>1, <4>1, DeliverRole
    <3>2. CASE ~Streaming
      BY <2>2, <3>2 DEF CloudDelta, wireVars
    <3> QED
      BY <3>1, <3>2
  <2> QED
    BY <2>1, <2>2
<1> QED
  BY <1>1, <1>2, CallbackTurns

LEMMA AnswersTurn ==
  ASSUME PhaseInv, TurnInv, phase \in {"local", "cloud"}, NEW resp, resp.ok = TRUE,
         Respond(resp), UNCHANGED <<tried, request, verdict>>
  PROVE  TurnInv' /\ Promised
<1>1. verdict = "accepted" /\ tried # {} /\ ~response.ok /\ Stage = "working"
  BY DEF PhaseInv, TurnInv, Stage
<1>2. Target' = Target /\ Speaker' = Speaker /\ Asked' = Asked /\ Streaming' = Streaming
  BY SameTurn
<1>3. CASE CannotBeDumped(resp)
  <2>1. phase' = "threw" /\ UNCHANGED <<response, role>>
    BY <1>3 DEF Respond, Throw
  <2>2. TurnInv'
    BY <1>1, <1>2, <2>1 DEF TurnInv
  <2>3. Stage' = "aborted" /\ Source' = Source
    BY <1>1, <1>2, <2>1 DEF Stage, Source
  <2> QED
    BY <1>1, <1>2, <2>2, <2>3, GivesUp
<1>4. CASE ~CannotBeDumped(resp)
  <2>1. /\ response'.ok /\ UNCHANGED role /\ phase' \in {"closed", "writing"}
        /\ phase' = "writing" => Streaming
    BY <1>4 DEF Respond
  <2>2. TurnInv'
    BY <1>1, <1>2, <2>1 DEF TurnInv
  <2>3. Stage' = "answered"
    BY <1>1, <2>1 DEF Stage
  <2>4. Source \in {"none", Speaker} /\ Source' = Speaker
    BY <1>1, <1>2, <2>1 DEF Source
  <2>5. Speaker \in {"local", "cloud"} /\ Asked \in {"auto", Speaker}
    BY <1>1, SpeakerIsPermitted
  <2> QED
    BY <1>1, <1>2, <2>2, <2>3, <2>4, <2>5, Answers
<1> QED
  BY <1>3, <1>4

LEMMA SuccessesTurn ==
  ASSUME PhaseInv, TurnInv,
         \/ LocalReturns /\ outcome = "ok"
         \/ CloudSucceeds
         \/ \E piece, fragment \in CloudPieces \cup {<< >>} :
              CloudWhole([text |-> piece, tools |-> fragment])
  PROVE  TurnInv' /\ Promised
<1>1. UNCHANGED <<tried, request, verdict>> /\ phase \in {"local", "cloud"}
  BY DEF LocalReturns, CloudSucceeds, CloudWhole, requestVars
<1>2. \E resp : resp.ok = TRUE /\ Respond(resp)
  BY DEF LocalReturns, CloudSucceeds, CloudWhole, CloudAnswer
<1> QED
  BY <1>1, <1>2, AnswersTurn

LEMMA WritesTurn ==
  ASSUME PhaseInv, TurnInv, NEW accepted \in BOOLEAN, WriteNext(accepted)
  PROVE  TurnInv' /\ Promised
<1>1. /\ phase = "writing" /\ verdict = "accepted" /\ pending # << >> /\ Streaming
      /\ role \in BOOLEAN
      /\ UNCHANGED <<tried, response, request, verdict>>
      /\ phase' = IF pending' = << >> THEN "closed" ELSE "writing"
  BY DEF WriteNext, requestVars, PhaseInv, TurnInv
<1>2. Target' = Target /\ Speaker' = Speaker /\ Asked' = Asked /\ Streaming' = Streaming
  BY <1>1, SameTurn
<1>3. ASSUME ~response.ok
      PROVE  /\ UNCHANGED role
             /\ pending' = << >> \/ pending' = <<Chunk("done")>>
  <2>1. CASE pending = <<Chunk("error"), Chunk("done")>>
    <3>1. Head(pending).kind = "error" /\ Tail(pending) = <<Chunk("done")>>
      BY <2>1 DEF Chunk
    <3> QED
      BY <1>1, <3>1 DEF WriteNext
  <2>2. CASE pending = <<Chunk("done")>>
    <3>1. Head(pending).kind = "done" /\ Tail(pending) = << >>
      BY <2>2 DEF Chunk
    <3> QED
      BY <1>1, <3>1 DEF WriteNext
  <2> QED
    BY <1>1, <1>3, <2>1, <2>2 DEF TurnInv
<1>4. TurnInv'
  BY <1>1, <1>2, <1>3 DEF TurnInv
<1>5. Stage' = Stage
  BY <1>1 DEF Stage
<1>6. Source' = Source
  BY <1>1, <1>2, <1>3 DEF Source
<1> QED
  BY <1>2, <1>4, <1>5, <1>6, Stutters

LEMMA TurnStep ==
  ASSUME GenerationInv, ConfigInv, PhaseInv, WireInv, TurnInv, [Next]_vars
  PROVE  TurnInv' /\ Promised
<1>1. CASE Boot \/ Accept \/ \E quoting \in BOOLEAN : Reject(quoting)
  BY <1>1, OpeningTurns
<1>2. CASE ServeLocal \/ ServeCloud
  BY <1>2, ServingTurns
<1>3. CASE \/ Invalid \/ LocalUnavailable \/ CloudUnavailable
           \/ \E quoting \in BOOLEAN : CloudFails(quoting)
  BY <1>3, FailuresTurn
<1>4. CASE LocalReturns
  BY <1>4, FailuresTurn, SuccessesTurn
<1>5. CASE Generate \/ ContentThrows
  BY <1>5, GenerateTurns, ContentThrowsTurns
<1>6. CASE CloudRestart
  BY <1>6, CloudStepTurns
<1>7. ASSUME NEW piece \in CloudPieces \cup {<< >>}, NEW fragment \in CloudPieces \cup {<< >>},
             NEW asText \in BOOLEAN, NEW accepted \in BOOLEAN,
             CloudDelta(piece, fragment, asText, accepted)
      PROVE  TurnInv' /\ Promised
  <2>1. \E p, f \in CloudPieces \cup {<< >>}, s, a \in BOOLEAN : CloudDelta(p, f, s, a)
    BY <1>7
  <2> QED
    BY <2>1, CloudStepTurns
<1>8. ASSUME NEW piece \in CloudPieces \cup {<< >>}, NEW fragment \in CloudPieces \cup {<< >>},
             CloudWhole([text |-> piece, tools |-> fragment])
      PROVE  TurnInv' /\ Promised
  <2>1. \E p, f \in CloudPieces \cup {<< >>} : CloudWhole([text |-> p, tools |-> f])
    BY <1>8
  <2> QED
    BY <2>1, SuccessesTurn
<1>9. CASE CloudSucceeds
  BY <1>9, SuccessesTurn
<1>10. ASSUME NEW accepted \in BOOLEAN, WriteNext(accepted) PROVE TurnInv' /\ Promised
  BY <1>10, WritesTurn
<1>11. CASE UNCHANGED vars
  <2>1. UNCHANGED <<phase, tried, pending, response, role, request, verdict>>
    BY <1>11 DEF vars, serviceVars, wireVars, requestVars
  <2>2. Target' = Target /\ Speaker' = Speaker /\ Asked' = Asked /\ Streaming' = Streaming
    BY <2>1, SameTurn
  <2>3. Stage' = Stage /\ Source' = Source
    BY <2>1, <2>2 DEF Stage, Source
  <2>4. TurnInv'
    BY <2>1, <2>2 DEF TurnInv
  <2> QED
    BY <2>2, <2>3, <2>4, Stutters
<1> QED
  BY <1>1, <1>2, <1>3, <1>4, <1>5, <1>6, <1>7, <1>8, <1>9, <1>10, <1>11, Zenon DEF Next

-----------------------------------------------------------------------------
(* Theorems *)

LEMMA ServiceInit == Init => ServiceInv
<1> SUFFICES ASSUME Init PROVE ServiceInv
  OBVIOUS
<1>1. GenerationInv
  BY GenerationInitInv DEF Init
<1>2. PhaseInv /\ WireInv
  BY InitKeeps
<1>3. verdict = "none" /\ launch \in Launches /\ body \in Bodies
      /\ step = "scan" /\ selection = NoSelection /\ config = DaemonDefaults
  BY DEF Init, RequestInit, StartupInit
<1>4. SelectionInv
  BY <1>3 DEF SelectionInv, NoSelection
<1>5. ConfigInv
  BY <1>3, <1>4, DefaultsShaped DEF ConfigInv
<1>6. RequestInv /\ AliasReachesItsBackend
  BY <1>3 DEF RequestInv, AliasReachesItsBackend
<1>7. TurnInv
  BY <1>3 DEF Init, NoResponse, Streaming, TurnInv
<1> QED
  BY <1>2, <1>1, <1>5, <1>6, <1>7 DEF ServiceInv

LEMMA ServiceStep == ServiceInv /\ [Next]_vars => ServiceInv'
<1> SUFFICES ASSUME ServiceInv, [Next]_vars PROVE ServiceInv'
  OBVIOUS
<1>1. /\ GenerationInv /\ ConfigInv /\ PhaseInv /\ RequestInv /\ WireInv
      /\ AliasReachesItsBackend /\ TurnInv
  BY DEF ServiceInv
<1>2. PhaseInv' /\ WireInv'
  BY <1>1, WireStep
<1>3. RequestInv'
  BY <1>1, RequestStep
<1>4. GenerationInv'
  BY <1>1, GenerationStep
<1>5. ConfigInv'
  BY <1>1, ConfigStep
<1>6. AliasReachesItsBackend'
  BY <1>1, AliasStep
<1>7. TurnInv'
  BY <1>1, TurnStep
<1> QED
  BY <1>2, <1>3, <1>4, <1>5, <1>6, <1>7 DEF ServiceInv

\* From the daemon's first word of the command line to the end of the request, the
\* parts of the invariant hold each other up: the configuration's shape makes the
\* request's call of llama.cpp a legal one, where the request stands says what of
\* it the callbacks have written, and that makes the stream.
THEOREM ServiceInvariant == Spec => []ServiceInv
BY ServiceInit, ServiceStep, PTL DEF Spec

\* Wherever the client hangs up, the server-sent events of
\* set_streaming_chat_completion_response are a stream a client can read, whole
\* unless an exception cuts it (a text that is not UTF-8 cannot be dumped), and
\* one that was cut never looks like one that has ended.
THEOREM EveryStreamIsWellFormed == Spec => []StreamIsWellFormed
<1>1. ServiceInv => StreamIsWellFormed
  <2> SUFFICES ASSUME PhaseInv, WireInv, Streaming
               PROVE  /\ InOrder(wire) /\ OpensWell(wire)
                      /\ phase = "closed" /\ ~gone => EndsWell(wire)
                      /\ phase = "threw" => \A i \in DOMAIN wire : Rank(wire[i].kind) <= 2
    BY DEF ServiceInv, StreamIsWellFormed
  <2>1. wire \in Seq(Chunks) /\ pending \in Seq(Chunks) /\ IsStream(wire \o pending)
    BY DEF WireInv
  <2>2. InOrder(wire) /\ OpensWell(wire)
    BY <2>1, StreamPrefix DEF IsStream
  <2>3. ASSUME phase = "closed", ~gone PROVE EndsWell(wire)
    <3>1. pending = << >> /\ EndsWell(wire \o pending)
      BY <2>3 DEF PhaseInv, WireInv
    <3>2. wire \o << >> = wire
      BY <2>1, ConcatEmptySeq
    <3> QED
      BY <3>1, <3>2
  <2>4. ASSUME phase = "threw", NEW i \in DOMAIN wire PROVE Rank(wire[i].kind) <= 2
    <3>1. IsBody(wire)
      BY <2>4 DEF WireInv
    <3>2. i \in 1 .. Len(wire)
      BY <2>1, <2>4, LenProperties
    <3>3. wire[i].kind \in {"role", "content", "tools"}
      BY <3>1, <3>2 DEF IsBody
    <3> QED
      BY <3>3 DEF Rank
  <2> QED
    BY <2>2, <2>3, <2>4
<1> QED
  BY <1>1, ServiceInvariant, PTL

\* What the callbacks wrote as it came and what was written at the end make up the
\* response exactly, but for a tool-call fragment that the response has not taken:
\* no delta is lost, sent twice, or followed by the whole message.
THEOREM EveryClientHearsTheAnswer == Spec => []ClientHearsTheAnswer
<1>1. ServiceInv => ClientHearsTheAnswer
  <2> SUFFICES ASSUME PhaseInv, WireInv, phase = "closed", ~gone, Streaming
               PROVE  TellsTheAnswer(wire)
    BY DEF ServiceInv, ClientHearsTheAnswer
  <2>1. wire \in Seq(Chunks) /\ pending = << >> /\ TellsTheAnswer(wire \o pending)
    BY DEF PhaseInv, WireInv
  <2>2. wire \o << >> = wire
    BY <2>1, ConcatEmptySeq
  <2> QED
    BY <2>1, <2>2
<1> QED
  BY <1>1, ServiceInvariant, PTL

\* README.md's promise, for every configuration file, command line and catalog: the
\* alias of a backend leads to that backend, whatever model entries share its name.
THEOREM EveryAliasReachesItsBackend == Spec => []AliasReachesItsBackend
<1>1. ServiceInv => AliasReachesItsBackend
  BY DEF ServiceInv
<1> QED
  BY <1>1, ServiceInvariant, PTL

\* However the startup, the catalog and the router decide: a request is submitted
\* with one of three routes, one backend at most speaks to its client and that one
\* is permitted by the route, also when an exception breaks the request off, and an
\* answer is the answer of the one that spoke.
THEOREM ServiceKeepsThePromise == Spec => ImplementsPromise
<1>1. Init => Promise!Init
  <2> SUFFICES ASSUME Init PROVE Promise!Init
    OBVIOUS
  <2>1. verdict = "none" /\ role = FALSE /\ response.ok = FALSE
    BY DEF Init, RequestInit, NoResponse
  <2>2. Stage = "new" /\ Asked = "auto" /\ Source = "none"
    BY <2>1 DEF Stage, Asked, Source
  <2> QED
    BY <2>2 DEF Promise!Init
<1>2. ServiceInv /\ [Next]_vars => [Promise!Next]_(Promise!vars)
  BY TurnStep DEF ServiceInv, Promised
<1> QED
  BY <1>1, <1>2, ServiceInvariant, PTL DEF Spec, ImplementsPromise, Promise!Spec

\* The composition is faithful to its parts: from the start of the daemon to the end
\* of a request, the command line and the files are read by RuntimeConfig's steps ...
THEOREM ServiceImplementsStartup == Spec => StartupSpec
<1>1. Init => StartupInit
  BY DEF Init
<1>2. [Next]_vars => [StartupNext]_startupVars
  BY DEF Next, vars, Boot, Accept, Reject, Invalid, ServeLocal, LocalUnavailable, Generate,
     ContentThrows, LocalReturns, ServeCloud, CloudUnavailable, CloudDelta, CloudWhole,
     CloudRestart, CloudSucceeds, CloudFails, WriteNext
<1> QED
  BY <1>1, <1>2, PTL DEF Spec, StartupSpec

\* ... and llama.cpp is called with one of the Jobs, by LlamaGeneration's steps,
\* whatever limit and stop sequences the body, the file or the flags have set.
THEOREM ServiceImplementsGeneration == Spec => GenerationSpec
<1>1. Init => GenerationInit
  BY DEF Init
<1>2. ServiceInv /\ [Next]_vars => [GenerationNext]_generationVars
  <2> SUFFICES ASSUME PhaseInv, RequestInv, [Next]_vars
               PROVE  GenerationNext \/ UNCHANGED generationVars
    BY DEF ServiceInv
  <2>1. CASE ServeLocal
    <3>1. JobOf(request) \in Jobs /\ StartGeneration(JobOf(request))
      BY <2>1 DEF ServeLocal, Turn, PhaseInv, RequestInv
    <3> QED
      BY <3>1 DEF GenerationNext
  <2>2. CASE Generate \/ ContentThrows
    BY <2>2 DEF Generate, ContentThrows, GenerationNext
  <2>3. ServeLocal \/ Generate \/ ContentThrows \/ UNCHANGED generationVars
    BY DEF Next, vars, Boot, Accept, Reject, Invalid, LocalUnavailable, LocalReturns,
       ServeCloud, CloudUnavailable, CloudDelta, CloudWhole, CloudRestart, CloudSucceeds,
       CloudFails, WriteNext
  <2> QED
    BY <2>1, <2>2, <2>3
<1> QED
  BY <1>1, <1>2, ServiceInvariant, PTL DEF Spec, GenerationSpec

\* So what is proved of a call of llama.cpp holds of the one that a request runs:
\* no stop sequence is given to its client, what is streamed is the answer, and
\* each token that is decoded has room in the context.
THEOREM RequestsGenerateWell ==
  Spec => [](NoStopIsSent /\ StreamTellsTheAnswer /\ RoomForEveryToken)
BY ServiceImplementsGeneration, NoStopSequenceLeaves, StreamIsTheAnswer,
   DecodingNeverOverruns, PTL
=============================================================================
