------------------------ MODULE LlamaGenerationProofs ------------------------
(***************************************************************************)
(* Theorems about LlamaGeneration, for any stop sequences, pieces, limits  *)
(* and contexts: nothing of a stop sequence is given to a client, and a    *)
(* token that is decoded finds room in the context.                        *)
(***************************************************************************)
EXTENDS LlamaGeneration, SequenceTheorems, WellFoundedInduction, TLAPS

Texts == Seq(Characters)
Active == {"idle", "prompt", "sample", "decode", "finish"}

GenerationTypeOK ==
  /\ gpc \in Active \cup {"done"}
  /\ job \in Jobs
  /\ used \in Nat /\ streamed \in Nat /\ generated \in Nat
  /\ text \in Texts /\ heard \in Texts /\ answer \in Texts
  /\ ending \in {"limit", "eog", "sequence"}
  /\ outcome \in {"none", "ok", "failed", "cancelled"}

\* What the client has is a prefix of the text that holds no stop sequence,
\* and nothing unless the answer is streamed.
HeardInv ==
  /\ gpc \in Active => streamed <= Len(text) /\ heard = SubSeq(text, 1, streamed)
  /\ Matches(job.stops, heard) = {}
  /\ job.mode # "stream" => streamed = 0

\* Until a stop sequence completes, a streamed text has none, and the part that
\* could still become one has not left.
StreamInv ==
  /\ gpc \in Active \ {"finish"} => ending = "limit"
  /\ gpc \in {"idle", "prompt"} => text = << >> /\ streamed = 0 /\ generated = 0
  /\ gpc \in Active /\ job.mode = "stream" =>
       /\ Matches(job.stops, text) = {}
       /\ IF ending = "sequence" THEN streamed = Len(text)
          ELSE streamed <= SafeEnd(job.stops, text)
  /\ job.mode = "warmup" => text = << >>

OutcomeInv ==
  /\ gpc \in Active => outcome = "none"
  /\ outcome = "ok" =>
       /\ Matches(job.stops, answer) = {}
       /\ job.mode = "stream" => heard = answer

\* Each token in the context is one of the prompt or one that was sampled.
RoomInv ==
  /\ gpc \in {"sample", "decode"} =>
       generated < job.limit /\ (~Overflows => ~OverBudget)
  /\ gpc = "sample" => used <= job.prompt + generated
  /\ gpc = "decode" => used <= job.prompt + generated - 1

GenerationInv == GenerationTypeOK /\ HeardInv /\ StreamInv /\ OutcomeInv /\ RoomInv
-----------------------------------------------------------------------------
(* Texts and stop sequences *)

LEMMA JobTypes ==
  ASSUME NEW j \in Jobs
  PROVE  /\ j.stops \subseteq Texts /\ j.limit \in Int /\ j.prompt \in Nat
         /\ j.mode \in Modes
         /\ \E s \in j.stops \cup {<< >>} : \A t \in j.stops : Len(t) <= Len(s)
<1>1. j \in [mode : Modes, stops : SUBSET Seq(Characters), limit : Int, prompt : Nat]
  BY GenerationAssumption
<1>2. \E s \in j.stops \cup {<< >>} : \A t \in j.stops : Len(t) <= Len(s)
  BY GenerationAssumption
<1> QED
  BY <1>1, <1>2 DEF Texts

LEMMA PrefixIsText ==
  ASSUME NEW t \in Texts, NEW n \in Nat, n <= Len(t)
  PROVE  /\ SubSeq(t, 1, n) \in Texts
         /\ Len(SubSeq(t, 1, n)) = n
         /\ \A i \in 1 .. n : SubSeq(t, 1, n)[i] = t[i]
<1>1. \A i \in 1 .. n : t[i] \in Characters
  BY ElementOfSeq DEF Texts
<1> QED
  BY <1>1, SubSeqProperties DEF Texts

\* A piece appended to a text leaves its prefixes as they are.
LEMMA PrefixOfConcat ==
  ASSUME NEW t \in Texts, NEW u \in Texts, NEW n \in Nat, n <= Len(t)
  PROVE  /\ t \o u \in Texts
         /\ Len(t \o u) = Len(t) + Len(u)
         /\ SubSeq(t \o u, 1, n) = SubSeq(t, 1, n)
         /\ \A i \in 1 .. Len(t) : (t \o u)[i] = t[i]
<1>1. /\ t \o u \in Texts
      /\ Len(t \o u) = Len(t) + Len(u)
      /\ \A i \in 1 .. Len(t) : (t \o u)[i] = t[i]
  BY ConcatProperties DEF Texts
<1>2. SubSeq(t \o u, 1, n) = SubSeq(t, 1, n)
  <2>1. CASE n = 0
    BY <2>1, SubSeqEmpty
  <2>2. CASE n # 0
    <3>1. n \in 1 .. Len(t) /\ 1 \in 1 .. Len(t)
      BY <2>2 DEF Texts
    <3> QED
      BY <3>1, SubSeqOfConcat1 DEF Texts
  <2> QED
    BY <2>1, <2>2
<1> QED
  BY <1>1, <1>2

LEMMA NothingMatchesEmpty ==
  ASSUME NEW stops \in SUBSET Texts
  PROVE  Matches(stops, << >>) = {}
<1> SUFFICES ASSUME NEW m \in 0 .. 0, NEW s \in stops, s # << >>, OccursAt(s, << >>, m)
             PROVE  FALSE
  BY EmptySeq DEF Matches, StopAt
<1>1. Len(s) \in Nat \ {0}
  BY EmptySeq DEF Texts
<1>2. m + Len(s) <= Len(<< >>)
  BY DEF OccursAt
<1> QED
  BY <1>1, <1>2, EmptySeq

\* What occurs in a prefix of a text occurs in the text.
LEMMA PrefixAddsNoMatch ==
  ASSUME NEW stops \in SUBSET Texts, NEW t \in Texts, NEW n \in Nat, n <= Len(t)
  PROVE  /\ Matches(stops, SubSeq(t, 1, n)) \subseteq Matches(stops, t)
         /\ \A m \in Matches(stops, SubSeq(t, 1, n)) : m < n
<1> DEFINE p == SubSeq(t, 1, n)
<1> SUFFICES ASSUME NEW m \in 0 .. Len(p), NEW s \in stops, s # << >>, OccursAt(s, p, m)
             PROVE  m \in Matches(stops, t) /\ m < n
  BY DEF Matches, StopAt
<1>1. Len(p) = n /\ \A i \in 1 .. n : p[i] = t[i]
  BY PrefixIsText
<1>2. Len(s) \in Nat \ {0} /\ Len(t) \in Nat
  BY EmptySeq, LenProperties DEF Texts
<1>3. m + Len(s) <= n /\ \A i \in 1 .. Len(s) : p[m + i] = s[i]
  BY <1>1 DEF OccursAt
<1>4. ASSUME NEW i \in 1 .. Len(s) PROVE t[m + i] = s[i]
  <2>1. m + i \in 1 .. n
    BY <1>1, <1>2, <1>3
  <2> QED
    BY <2>1, <1>1, <1>3
<1>5. OccursAt(s, t, m)
  BY <1>1, <1>2, <1>3, <1>4 DEF OccursAt
<1>6. m \in 0 .. Len(t) /\ m < n
  BY <1>1, <1>2, <1>3
<1> QED
  BY <1>5, <1>6 DEF Matches, StopAt

\* apply_stop_sequences looks for the first of them.
LEMMA FirstMatchIsFirst ==
  ASSUME NEW stops \in SUBSET Texts, NEW t \in Texts, Matches(stops, t) # {}
  PROVE  /\ FirstMatch(stops, t) \in Matches(stops, t)
         /\ \A m \in Matches(stops, t) : FirstMatch(stops, t) <= m
         /\ FirstMatch(stops, t) \in 0 .. Len(t)
<1> DEFINE M == Matches(stops, t)
<1>1. M # {} /\ M \subseteq Nat /\ M \subseteq 0 .. Len(t)
  <2>1. Len(t) \in Nat
    BY LenProperties DEF Texts
  <2> QED
    BY <2>1 DEF Matches
<1>2. \E x \in M : \A y \in M : ~ (<<y, x>> \in OpToRel(<, Nat))
  <2> HIDE DEF M
  <2> QED
    BY <1>1, WFMin, NatLessThanWellFounded, Zenon
<1>3. PICK x \in M : \A y \in M : ~ (<<y, x>> \in OpToRel(<, Nat))
  BY <1>2
<1>4. \A y \in M : ~ (y < x)
  BY <1>1, <1>3, Zenon DEF OpToRel
<1>5. \A y \in M : x <= y
  BY <1>1, <1>4
<1> QED
  BY <1>1, <1>5 DEF FirstMatch

LEMMA CutHasNoMatch ==
  ASSUME NEW stops \in SUBSET Texts, NEW t \in Texts, Matches(stops, t) # {}
  PROVE  Matches(stops, SubSeq(t, 1, FirstMatch(stops, t))) = {}
<1> DEFINE f == FirstMatch(stops, t)
<1>1. f \in Nat /\ f <= Len(t) /\ \A m \in Matches(stops, t) : f <= m
  BY FirstMatchIsFirst, LenProperties DEF Texts
<1>2. \A m \in Matches(stops, SubSeq(t, 1, f)) : m \in Matches(stops, t) /\ m < f
  BY <1>1, PrefixAddsNoMatch
<1>3. \A m \in Matches(stops, t) : m \in Nat
  BY LenProperties DEF Matches, Texts
<1> QED
  BY <1>1, <1>2, <1>3

LEMMA AnswerIsCut ==
  ASSUME NEW stops \in SUBSET Texts, NEW t \in Texts
  PROVE  CutAtStop(stops, t) \in Texts /\ Matches(stops, CutAtStop(stops, t)) = {}
<1>1. CASE Matches(stops, t) = {}
  BY <1>1 DEF CutAtStop
<1>2. CASE Matches(stops, t) # {}
  <2>1. FirstMatch(stops, t) \in Nat /\ FirstMatch(stops, t) <= Len(t)
    BY <1>2, FirstMatchIsFirst, LenProperties DEF Texts
  <2> QED
    BY <1>2, <2>1, CutHasNoMatch, PrefixIsText DEF CutAtStop
<1> QED
  BY <1>1, <1>2

-----------------------------------------------------------------------------
(* Holding back *)

LEMMA LongestBounds ==
  ASSUME NEW j \in Jobs
  PROVE  /\ Longest(j.stops) \in Nat
         /\ \A s \in j.stops : Len(s) <= Longest(j.stops)
<1> DEFINE L == Lengths(j.stops)
<1>1. j.stops \subseteq Texts
  BY JobTypes
<1>2. PICK s \in j.stops \cup {<< >>} : \A t \in j.stops : Len(t) <= Len(s)
  BY JobTypes
<1>3. L \subseteq Nat /\ (\A t \in j.stops : Len(t) \in L) /\ 0 \in L
  BY <1>1, LenProperties DEF Lengths, Texts
<1>4. Len(s) \in L /\ \A k \in L : k <= Len(s)
  <2>1. Len(s) \in L
    BY <1>3, EmptySeq
  <2>2. \A k \in L : k <= Len(s)
    BY <1>2, <1>3, <2>1 DEF Lengths
  <2> QED
    BY <2>1, <2>2
<1>5. Longest(j.stops) \in L /\ \A k \in L : k <= Longest(j.stops)
  BY <1>4 DEF Longest
<1> QED
  BY <1>3, <1>5

LEMMA SafeEndBounds ==
  ASSUME NEW j \in Jobs, NEW t \in Texts
  PROVE  /\ SafeEnd(j.stops, t) \in Nat
         /\ SafeEnd(j.stops, t) <= Len(t)
         /\ Holdback(j.stops) \in Nat
<1>1. Len(t) \in Nat
  BY LenProperties DEF Texts
<1> QED
  BY <1>1, LongestBounds DEF SafeEnd, Holdback

\* A longer text lets at least as much leave.
LEMMA SafeEndGrows ==
  ASSUME NEW j \in Jobs, NEW t \in Texts, NEW u \in Texts
  PROVE  SafeEnd(j.stops, t) <= SafeEnd(j.stops, t \o u)
<1>1. Len(t) \in Nat /\ Len(u) \in Nat /\ Len(t \o u) = Len(t) + Len(u)
  BY ConcatProperties, LenProperties DEF Texts
<1> QED
  BY <1>1, SafeEndBounds DEF SafeEnd

\* A stop sequence that a piece completes begins where nothing has left yet.
LEMMA StopBeginsInTheHeldBack ==
  ASSUME NEW j \in Jobs, NEW t \in Texts, NEW u \in Texts,
         Matches(j.stops, t) = {}, NEW m \in Matches(j.stops, t \o u)
  PROVE  SafeEnd(j.stops, t) <= m
<1>0. j.stops \subseteq Texts
  BY JobTypes
<1>1. PICK s \in j.stops : s # << >> /\ OccursAt(s, t \o u, m)
  BY DEF Matches, StopAt
<1>2. /\ Len(t \o u) = Len(t) + Len(u) /\ Len(t) \in Nat /\ Len(u) \in Nat
      /\ \A i \in 1 .. Len(t) : (t \o u)[i] = t[i]
  BY PrefixOfConcat, ConcatProperties, LenProperties DEF Texts
<1>3. m \in Nat
  BY <1>2 DEF Matches
<1>4. Len(s) \in Nat \ {0} /\ Len(s) <= Longest(j.stops) /\ Longest(j.stops) \in Nat
  BY <1>0, <1>1, EmptySeq, LongestBounds DEF Texts
<1>5. ~ (m + Len(s) <= Len(t))
  <2> SUFFICES ASSUME m + Len(s) <= Len(t) PROVE FALSE
    OBVIOUS
  <2>1. ASSUME NEW i \in 1 .. Len(s) PROVE t[m + i] = s[i]
    <3>1. m + i \in 1 .. Len(t)
      BY <1>2, <1>3, <1>4
    <3> QED
      BY <3>1, <1>1, <1>2 DEF OccursAt
  <2>2. m \in 0 .. Len(t) /\ OccursAt(s, t, m)
    BY <1>2, <1>3, <1>4, <2>1 DEF OccursAt
  <2> QED
    BY <1>1, <2>2 DEF Matches, StopAt
<1> QED
  BY <1>2, <1>3, <1>4, <1>5 DEF SafeEnd, Holdback

-----------------------------------------------------------------------------
(* The invariant is inductive. The small actions change no text. *)

LEMMA GenerationInitInv == GenerationInit => GenerationInv
<1> SUFFICES ASSUME GenerationInit PROVE GenerationInv
  OBVIOUS
<1>1. job \in Jobs
  BY GenerationAssumption DEF GenerationInit
<1>2. /\ gpc = "idle" /\ used = 0 /\ text = << >> /\ streamed = 0 /\ generated = 0
      /\ ending = "limit" /\ outcome = "none" /\ answer = << >> /\ heard = << >>
  BY DEF GenerationInit
<1>3. << >> \in Texts /\ Len(<< >>) = 0 /\ SubSeq(<< >>, 1, 0) = << >>
  BY EmptySeq, SubSeqEmpty DEF Texts
<1>4. Matches(job.stops, << >>) = {} /\ SafeEnd(job.stops, << >>) \in Nat
  BY <1>1, <1>3, JobTypes, NothingMatchesEmpty, SafeEndBounds
<1>5. GenerationTypeOK
  BY <1>1, <1>2, <1>3 DEF GenerationTypeOK, Active
<1>6. HeardInv
  BY <1>2, <1>3, <1>4 DEF HeardInv
<1>7. StreamInv
  BY <1>2, <1>4 DEF StreamInv
<1>8. OutcomeInv /\ RoomInv
  BY <1>2 DEF OutcomeInv, RoomInv
<1> QED
  BY <1>5, <1>6, <1>7, <1>8 DEF GenerationInv

LEMMA StartGenerationStep ==
  ASSUME GenerationInv, NEW j \in Jobs, StartGeneration(j) PROVE GenerationInv'
<1> USE DEF GenerationInv, StartGeneration
<1>1. GenerationTypeOK'
  BY DEF GenerationTypeOK, Active
<1>2. text = << >> /\ streamed = 0 /\ heard = << >> /\ Len(<< >>) = 0
  BY EmptySeq, SubSeqEmpty DEF HeardInv, StreamInv, Active
<1>3. Matches(j.stops, << >>) = {} /\ SafeEnd(j.stops, << >>) \in Nat
  BY JobTypes, NothingMatchesEmpty, SafeEndBounds, EmptySeq DEF Texts
<1>4. HeardInv' /\ OutcomeInv' /\ RoomInv'
  BY <1>2, <1>3 DEF HeardInv, OutcomeInv, RoomInv, Active
<1>5. StreamInv'
  BY <1>2, <1>3 DEF StreamInv, Active
<1> QED
  BY <1>1, <1>4, <1>5

\* A call that ends without a result keeps what was heard.
LEMMA AbandonStep ==
  ASSUME GenerationInv,
         gpc' = "done", outcome' \in {"failed", "cancelled"},
         UNCHANGED <<job, used, streamed, generated, ending, answer, heard>>,
         text' \in Texts, job.mode = "warmup" => text' = text
  PROVE  GenerationInv'
<1> USE DEF GenerationInv
<1>1. GenerationTypeOK'
  BY DEF GenerationTypeOK, Active
<1>2. HeardInv' /\ StreamInv' /\ OutcomeInv' /\ RoomInv'
  BY DEF HeardInv, StreamInv, OutcomeInv, RoomInv, Active
<1> QED
  BY <1>1, <1>2

LEMMA DecodePromptStep ==
  ASSUME GenerationInv, DecodePrompt PROVE GenerationInv'
<1> USE DEF GenerationInv, DecodePrompt
<1>1. job \in Jobs /\ job.prompt \in Nat /\ job.limit \in Int
  BY JobTypes DEF GenerationTypeOK
<1>2. GenerationTypeOK'
  BY <1>1 DEF GenerationTypeOK, Active
<1>3. HeardInv' /\ StreamInv' /\ OutcomeInv'
  BY DEF HeardInv, StreamInv, OutcomeInv, Active
<1>4. RoomInv'
  BY <1>1 DEF RoomInv, StreamInv, OverBudget, Overflows
<1> QED
  BY <1>2, <1>3, <1>4

LEMMA SampleEndStep ==
  ASSUME GenerationInv, SampleEnd PROVE GenerationInv'
<1> USE DEF GenerationInv, SampleEnd
<1>1. GenerationTypeOK'
  BY DEF GenerationTypeOK, Active
<1>2. HeardInv' /\ StreamInv' /\ OutcomeInv' /\ RoomInv'
  BY DEF HeardInv, StreamInv, OutcomeInv, RoomInv, Active
<1> QED
  BY <1>1, <1>2

LEMMA DecodeTokenStep ==
  ASSUME GenerationInv, DecodeToken PROVE GenerationInv'
<1> USE DEF GenerationInv, DecodeToken
<1>1. GenerationTypeOK'
  BY DEF GenerationTypeOK, Active
<1>2. HeardInv' /\ StreamInv' /\ OutcomeInv'
  BY DEF HeardInv, StreamInv, OutcomeInv, Active
<1>3. job.prompt \in Nat /\ used \in Nat /\ generated \in Nat
  BY JobTypes DEF GenerationTypeOK
<1>4. RoomInv'
  BY <1>3 DEF RoomInv, OverBudget, Overflows
<1> QED
  BY <1>1, <1>2, <1>4

LEMMA SampleTokenStep ==
  ASSUME GenerationInv, NEW piece \in Pieces, SampleToken(piece) PROVE GenerationInv'
<1>1. /\ piece \in Texts /\ text \in Texts /\ streamed \in Nat /\ generated \in Nat
      /\ used \in Nat /\ job.limit \in Int /\ job.prompt \in Nat
  BY GenerationAssumption, JobTypes DEF GenerationInv, GenerationTypeOK, Texts
<1>2. /\ gpc = "sample" /\ job.mode # "stream" /\ gpc' \in {"decode", "finish"}
      /\ generated' = generated + 1 /\ (gpc' = "decode" => generated + 1 < job.limit)
      /\ text' = (IF job.mode = "warmup" THEN text ELSE text \o piece)
      /\ UNCHANGED <<job, used, streamed, ending, outcome, answer, heard>>
  BY <1>1 DEF SampleToken, CountToken
<1>3. streamed = 0 /\ heard = << >>
  BY <1>2, SubSeqEmpty DEF GenerationInv, HeardInv, Active
<1>4. text' \in Texts /\ Len(text') \in Nat
  BY <1>1, <1>2, ConcatProperties, LenProperties DEF Texts
<1>5. GenerationTypeOK'
  BY <1>1, <1>2, <1>4 DEF GenerationInv, GenerationTypeOK, Active
<1>6. SubSeq(text', 1, 0) = << >>
  BY SubSeqEmpty
<1>7. HeardInv'
  BY <1>2, <1>3, <1>4, <1>6 DEF GenerationInv, HeardInv
<1>8. StreamInv' /\ OutcomeInv'
  BY <1>2 DEF GenerationInv, StreamInv, OutcomeInv, Active
<1>9. RoomInv'
  BY <1>1, <1>2 DEF GenerationInv, RoomInv, OverBudget, Overflows
<1> QED
  BY <1>5, <1>7, <1>8, <1>9 DEF GenerationInv

\* What leaves continues what was heard.
LEMMA EmitExtends ==
  ASSUME NEW t \in Texts, streamed \in Nat, NEW end \in Nat, end <= Len(t),
         streamed <= Len(t), heard = SubSeq(t, 1, streamed), Emit(t, end, TRUE)
  PROVE  /\ streamed' \in Nat /\ streamed' <= Len(t)
         /\ heard' = SubSeq(t, 1, streamed')
         /\ streamed' = (IF end <= streamed THEN streamed ELSE end)
<1>1. CASE end <= streamed
  BY <1>1 DEF Emit
<1>2. CASE ~ (end <= streamed)
  <2>1. streamed' = end /\ heard' = SubSeq(t, 1, streamed) \o SubSeq(t, streamed + 1, end)
    BY <1>2 DEF Emit, Emitted
  <2>2. /\ Len(t) \in Nat /\ 1 \in 1 .. Len(t) + 1
        /\ streamed \in 1 - 1 .. Len(t) /\ end \in streamed .. Len(t)
    BY <1>2, LenProperties DEF Texts
  <2>3. SubSeq(t, 1, streamed) \o SubSeq(t, streamed + 1, end) = SubSeq(t, 1, end)
    BY <2>2, ConcatAdjacentSubSeq DEF Texts
  <2> QED
    BY <1>2, <2>1, <2>3
<1> QED
  BY <1>1, <1>2

\* A callback that refuses gets nothing more.
LEMMA EmitRefused ==
  ASSUME NEW t, NEW end, Emit(t, end, FALSE)
  PROVE  UNCHANGED <<streamed, heard>>
BY DEF Emit

LEMMA StreamTokenStep ==
  ASSUME GenerationInv, NEW piece \in Pieces, NEW accepted \in BOOLEAN,
         StreamToken(piece, accepted)
  PROVE  GenerationInv'
<1> DEFINE whole == text \o piece
           end == SafeEnd(job.stops, whole)
<1>1. /\ piece \in Texts /\ text \in Texts /\ streamed \in Nat /\ generated \in Nat
      /\ used \in Nat /\ job \in Jobs /\ job.limit \in Int /\ job.prompt \in Nat
      /\ job.stops \in SUBSET Texts
  BY GenerationAssumption, JobTypes DEF GenerationInv, GenerationTypeOK, Texts
<1>2. /\ gpc = "sample" /\ job.mode = "stream"
      /\ text' = whole /\ Matches(job.stops, whole) = {}
      /\ Emit(whole, end, accepted)
      /\ UNCHANGED <<job, used, answer>>
  BY DEF StreamToken
<1>3. /\ streamed <= Len(text) /\ heard = SubSeq(text, 1, streamed) /\ ending = "limit"
      /\ streamed <= SafeEnd(job.stops, text) /\ outcome = "none"
  BY <1>2 DEF GenerationInv, HeardInv, StreamInv, OutcomeInv, Active
<1>4. whole \in Texts /\ Len(whole) \in Nat /\ streamed <= Len(whole)
      /\ heard = SubSeq(whole, 1, streamed)
  <2>1. Len(whole) = Len(text) + Len(piece) /\ whole \in Texts
        /\ heard = SubSeq(whole, 1, streamed)
    BY <1>1, <1>3, PrefixOfConcat
  <2>2. Len(text) \in Nat /\ Len(piece) \in Nat
    BY <1>1, LenProperties DEF Texts
  <2> QED
    BY <2>1, <2>2, <1>1, <1>3
<1>5. end \in Nat /\ end <= Len(whole) /\ SafeEnd(job.stops, text) <= end
      /\ SafeEnd(job.stops, text) \in Nat
  BY <1>1, <1>4, SafeEndBounds, SafeEndGrows
<1>6. CASE accepted = FALSE
  <2>1. Cancel /\ UNCHANGED <<streamed, heard>>
    BY <1>2, <1>6, EmitRefused DEF StreamToken
  <2> QED
    BY <1>2, <1>4, <2>1, AbandonStep DEF Cancel, End
<1>7. CASE accepted = TRUE
  <2>1. /\ generated' = generated + 1 /\ gpc' \in {"decode", "finish"}
        /\ gpc' = "decode" => generated + 1 < job.limit
        /\ UNCHANGED <<ending, outcome>>
    BY <1>1, <1>7 DEF StreamToken, CountToken
  <2>2. /\ streamed' \in Nat /\ streamed' <= Len(whole)
        /\ heard' = SubSeq(whole, 1, streamed')
        /\ streamed' = (IF end <= streamed THEN streamed ELSE end)
    BY <1>1, <1>2, <1>4, <1>5, <1>7, EmitExtends
  <2>3. streamed' <= end
    BY <2>2, <1>1, <1>3, <1>5
  <2>4. heard' \in Texts /\ Matches(job.stops, heard') = {}
    BY <2>2, <1>1, <1>2, <1>4, PrefixIsText, PrefixAddsNoMatch
  <2>5. GenerationTypeOK'
    BY <1>1, <1>2, <1>4, <2>1, <2>2, <2>4 DEF GenerationInv, GenerationTypeOK, Active
  <2>6. HeardInv'
    BY <1>2, <2>2, <2>4 DEF HeardInv
  <2>7. StreamInv'
    BY <1>2, <1>3, <2>1, <2>3 DEF StreamInv
  <2>8. OutcomeInv'
    BY <1>3, <2>1 DEF OutcomeInv
  <2>9. RoomInv'
    BY <1>1, <1>2, <2>1 DEF GenerationInv, RoomInv, OverBudget, Overflows
  <2> QED
    BY <2>5, <2>6, <2>7, <2>8, <2>9 DEF GenerationInv
<1> QED
  BY <1>6, <1>7

LEMMA StreamStopStep ==
  ASSUME GenerationInv, NEW piece \in Pieces, NEW accepted \in BOOLEAN,
         StreamStop(piece, accepted)
  PROVE  GenerationInv'
<1> DEFINE whole == text \o piece
           cut == FirstMatch(job.stops, whole)
<1>1. /\ piece \in Texts /\ text \in Texts /\ streamed \in Nat /\ generated \in Nat
      /\ job \in Jobs /\ job.stops \in SUBSET Texts
  BY GenerationAssumption, JobTypes DEF GenerationInv, GenerationTypeOK, Texts
<1>2. /\ gpc = "sample" /\ job.mode = "stream"
      /\ Matches(job.stops, whole) # {}
      /\ Emit(whole, cut, accepted)
      /\ UNCHANGED <<job, used, answer>>
  BY DEF StreamStop
<1>3. /\ streamed <= Len(text) /\ heard = SubSeq(text, 1, streamed)
      /\ Matches(job.stops, text) = {}
      /\ streamed <= SafeEnd(job.stops, text) /\ outcome = "none"
  BY <1>2 DEF GenerationInv, HeardInv, StreamInv, OutcomeInv, Active
<1>4. whole \in Texts /\ Len(whole) \in Nat /\ streamed <= Len(whole)
      /\ heard = SubSeq(whole, 1, streamed)
  <2>1. Len(whole) = Len(text) + Len(piece) /\ whole \in Texts
        /\ heard = SubSeq(whole, 1, streamed)
    BY <1>1, <1>3, PrefixOfConcat
  <2>2. Len(text) \in Nat /\ Len(piece) \in Nat
    BY <1>1, LenProperties DEF Texts
  <2> QED
    BY <2>1, <2>2, <1>1, <1>3
<1>5. cut \in Matches(job.stops, whole) /\ cut \in Nat /\ cut <= Len(whole)
  <2> HIDE DEF whole
  <2> QED
    BY <1>1, <1>2, <1>4, FirstMatchIsFirst
<1>6. streamed <= cut
  <2>1. SafeEnd(job.stops, text) <= cut /\ SafeEnd(job.stops, text) \in Nat
    BY <1>1, <1>3, <1>5, StopBeginsInTheHeldBack, SafeEndBounds
  <2> QED
    BY <2>1, <1>1, <1>3, <1>5
<1>7. CASE accepted = FALSE
  <2>1. Cancel /\ text' = whole /\ UNCHANGED <<streamed, heard>>
    BY <1>2, <1>7, EmitRefused DEF StreamStop
  <2> QED
    BY <1>2, <1>4, <2>1, AbandonStep DEF Cancel, End
<1>8. CASE accepted = TRUE
  <2>1. /\ text' = SubSeq(whole, 1, cut) /\ generated' = generated + 1
        /\ ending' = "sequence" /\ gpc' = "finish" /\ UNCHANGED outcome
    BY <1>8 DEF StreamStop
  <2>2. streamed' = cut /\ heard' = SubSeq(whole, 1, cut)
    <3>1. /\ heard' = SubSeq(whole, 1, streamed')
          /\ streamed' = (IF cut <= streamed THEN streamed ELSE cut)
      BY <1>1, <1>2, <1>4, <1>5, <1>8, EmitExtends
    <3> QED
      BY <3>1, <1>1, <1>5, <1>6
  <2>3. text' \in Texts /\ Len(text') = cut /\ Matches(job.stops, text') = {}
    BY <2>1, <1>1, <1>2, <1>4, <1>5, PrefixIsText, CutHasNoMatch
  <2>4. heard' = text' /\ SubSeq(text', 1, cut) = text'
    BY <2>1, <2>2, <2>3, SubSeqFull DEF Texts
  <2>5. GenerationTypeOK'
    BY <1>1, <1>2, <1>5, <2>1, <2>2, <2>3, <2>4
    DEF GenerationInv, GenerationTypeOK, Active
  <2>6. HeardInv'
    <3> HIDE DEF whole, cut
    <3>1. job' = job /\ streamed' = cut /\ cut <= Len(text')
      BY <1>2, <1>5, <2>2, <2>3
    <3>2. heard' = SubSeq(text', 1, cut) /\ Matches(job.stops, heard') = {}
      BY <2>3, <2>4, Zenon
    <3> QED
      BY <1>2, <3>1, <3>2 DEF HeardInv
  <2>7. StreamInv'
    BY <1>2, <2>1, <2>2, <2>3 DEF StreamInv
  <2>8. OutcomeInv' /\ RoomInv'
    BY <1>3, <2>1 DEF OutcomeInv, RoomInv
  <2> QED
    BY <2>5, <2>6, <2>7, <2>8 DEF GenerationInv
<1> QED
  BY <1>7, <1>8

LEMMA FinishGenerationStep ==
  ASSUME GenerationInv, NEW accepted \in BOOLEAN, FinishGeneration(accepted)
  PROVE  GenerationInv'
<1>1. /\ text \in Texts /\ Len(text) \in Nat /\ streamed \in Nat /\ job \in Jobs
      /\ job.stops \in SUBSET Texts
  BY JobTypes, LenProperties DEF GenerationInv, GenerationTypeOK, Texts
<1>2. /\ gpc = "finish" /\ UNCHANGED <<job, used, text, generated>>
  BY DEF FinishGeneration
<1>3. /\ streamed <= Len(text) /\ heard = SubSeq(text, 1, streamed)
      /\ outcome = "none"
  BY <1>2 DEF GenerationInv, HeardInv, OutcomeInv, Active
<1>4. SubSeq(text, 1, Len(text)) = text
  BY <1>1, SubSeqFull DEF Texts
<1>5. CASE accepted = FALSE
  <2>1. /\ job.mode = "stream" /\ ending # "sequence"
        /\ Emit(text, Len(text), FALSE) /\ End("cancelled")
        /\ UNCHANGED <<answer, ending>>
    BY <1>5 DEF FinishGeneration
  <2>2. UNCHANGED <<streamed, heard>>
    BY <2>1, EmitRefused
  <2> QED
    BY <1>1, <1>2, <2>1, <2>2, AbandonStep DEF End
<1>6. CASE accepted = TRUE
  <2>1. /\ gpc' = "done" /\ outcome' = "ok"
        /\ answer' = (IF job.mode = "buffered" THEN CutAtStop(job.stops, text) ELSE text)
        /\ ending' \in {ending, "sequence"}
    BY <1>6 DEF FinishGeneration, End
  <2>2. CASE job.mode = "stream"
    <3>1. answer' = text /\ Matches(job.stops, text) = {}
      BY <1>2, <2>1, <2>2 DEF GenerationInv, StreamInv, Active
    <3>2. streamed' \in Nat /\ heard' = text
      <4>1. CASE ending = "sequence"
        <5>1. streamed = Len(text) /\ UNCHANGED <<streamed, heard>>
          BY <1>2, <2>2, <4>1
          DEF FinishGeneration, GenerationInv, StreamInv, Active
        <5> QED
          BY <5>1, <1>1, <1>3, <1>4
      <4>2. CASE ending # "sequence"
        <5>1. Emit(text, Len(text), accepted)
          BY <1>6, <2>2, <4>2 DEF FinishGeneration
        <5>2. /\ streamed' \in Nat /\ heard' = SubSeq(text, 1, streamed')
              /\ streamed' = (IF Len(text) <= streamed THEN streamed ELSE Len(text))
          <6> DEFINE end == Len(text)
          <6>1. Emit(text, end, accepted) /\ end \in Nat /\ end <= Len(text)
            BY <5>1, <1>1
          <6> HIDE DEF end
          <6>2. /\ streamed' \in Nat /\ heard' = SubSeq(text, 1, streamed')
                /\ streamed' = (IF end <= streamed THEN streamed ELSE end)
            BY <6>1, <1>1, <1>3, <1>6, EmitExtends
          <6> QED
            BY <6>2 DEF end
        <5>3. streamed' = Len(text)
          BY <5>2, <1>1, <1>3
        <5>4. heard' = SubSeq(text, 1, Len(text))
          BY <5>2, <5>3
        <5> QED
          BY <5>2, <5>4, <1>4
      <4> QED
        BY <4>1, <4>2
    <3>3. GenerationTypeOK'
      BY <1>1, <1>2, <2>1, <3>1, <3>2 DEF GenerationInv, GenerationTypeOK, Active
    <3>4. HeardInv' /\ StreamInv' /\ OutcomeInv' /\ RoomInv'
      BY <1>2, <2>1, <2>2, <3>1, <3>2
      DEF HeardInv, StreamInv, OutcomeInv, RoomInv, Active
    <3> QED
      BY <3>3, <3>4 DEF GenerationInv
  <2>3. CASE job.mode # "stream"
    <3>1. UNCHANGED <<streamed, heard>>
      BY <2>3 DEF FinishGeneration
    <3>2. answer' \in Texts /\ Matches(job.stops, answer') = {}
      <4>1. CASE job.mode = "buffered"
        BY <4>1, <1>1, <2>1, AnswerIsCut
      <4>2. CASE job.mode = "warmup"
        BY <4>2, <1>1, <2>1, NothingMatchesEmpty DEF GenerationInv, StreamInv
      <4> QED
        BY <4>1, <4>2, <2>3, <1>1, JobTypes DEF Modes
    <3>3. GenerationTypeOK'
      BY <1>1, <1>2, <2>1, <3>1, <3>2 DEF GenerationInv, GenerationTypeOK, Active
    <3>4. HeardInv' /\ StreamInv' /\ OutcomeInv' /\ RoomInv'
      BY <1>2, <2>1, <2>3, <3>1, <3>2
      DEF GenerationInv, HeardInv, StreamInv, OutcomeInv, RoomInv, Active
    <3> QED
      BY <3>3, <3>4 DEF GenerationInv
  <2> QED
    BY <2>2, <2>3
<1> QED
  BY <1>5, <1>6

LEMMA GenerationInvIsInductive ==
  GenerationInv /\ [GenerationNext]_generationVars => GenerationInv'
<1> SUFFICES ASSUME GenerationInv, [GenerationNext]_generationVars PROVE GenerationInv'
  OBVIOUS
<1>1. ASSUME NEW j \in Jobs, StartGeneration(j) PROVE GenerationInv'
  BY <1>1, StartGenerationStep
<1>2. CASE PromptFails \/ PieceFails \/ DecodeFails
  <2>1. gpc' = "done" /\ outcome' = "failed" /\ text' = text /\ text \in Texts
        /\ UNCHANGED <<job, used, streamed, generated, ending, answer, heard>>
    BY <1>2 DEF PromptFails, PieceFails, DecodeFails, End, GenerationInv, GenerationTypeOK
  <2> QED
    BY <2>1, AbandonStep
<1>3. CASE DecodePrompt
  BY <1>3, DecodePromptStep
<1>4. CASE SampleEnd
  BY <1>4, SampleEndStep
<1>5. ASSUME NEW piece \in Pieces, SampleToken(piece) PROVE GenerationInv'
  BY <1>5, SampleTokenStep
<1>6. ASSUME NEW piece \in Pieces, NEW accepted \in BOOLEAN, StreamToken(piece, accepted)
      PROVE GenerationInv'
  BY <1>6, StreamTokenStep
<1>7. ASSUME NEW piece \in Pieces, NEW accepted \in BOOLEAN, StreamStop(piece, accepted)
      PROVE GenerationInv'
  BY <1>7, StreamStopStep
<1>8. CASE DecodeToken
  BY <1>8, DecodeTokenStep
<1>9. ASSUME NEW accepted \in BOOLEAN, FinishGeneration(accepted) PROVE GenerationInv'
  BY <1>9, FinishGenerationStep
<1>10. CASE UNCHANGED generationVars
  BY <1>10 DEF generationVars, GenerationInv, GenerationTypeOK, HeardInv, StreamInv,
     OutcomeInv, RoomInv, OverBudget, Overflows
<1> QED
  BY <1>1, <1>2, <1>3, <1>4, <1>5, <1>6, <1>7, <1>8, <1>9, <1>10, Zenon DEF GenerationNext

-----------------------------------------------------------------------------
(* Theorems *)

THEOREM GenerationInvariant == GenerationSpec => []GenerationInv
BY GenerationInitInv, GenerationInvIsInductive, PTL DEF GenerationSpec

\* Whatever the stop sequences and however the tokens split them, no part of a
\* stop sequence's text goes to the client with the sequence complete: neither
\* the emitted prefixes nor the answer hold one (emit_stream_safe_prefix,
\* apply_stop_sequences).
THEOREM NoStopSequenceLeaves == GenerationSpec => []NoStopIsSent
<1>1. GenerationInv => NoStopIsSent
  BY DEF GenerationInv, HeardInv, OutcomeInv, NoStopIsSent
<1> QED
  BY <1>1, GenerationInvariant, PTL

\* The chunks of a streamed call that ends well make up its answer exactly: what
\* is held back leaves at the end, and nothing leaves twice.
THEOREM StreamIsTheAnswer == GenerationSpec => []StreamTellsTheAnswer
<1>1. GenerationInv => StreamTellsTheAnswer
  BY DEF GenerationInv, OutcomeInv, StreamTellsTheAnswer
<1> QED
  BY <1>1, GenerationInvariant, PTL

\* The budget check of generate_with_bundle, made once, leaves room in the context
\* for each token that is decoded later.
THEOREM DecodingNeverOverruns == GenerationSpec => []RoomForEveryToken
<1>1. GenerationInv => RoomForEveryToken
  <2> SUFFICES ASSUME GenerationInv, gpc = "decode", ~Overflows PROVE used < ContextSize
    BY DEF RoomForEveryToken
  <2>1. /\ job.prompt + job.limit <= ContextSize /\ generated < job.limit
        /\ used <= job.prompt + generated - 1
    <3>1. job.prompt \in Nat /\ job.limit \in Int
      BY JobTypes DEF GenerationInv, GenerationTypeOK
    <3> QED
      BY <3>1, GenerationAssumption DEF GenerationInv, RoomInv, OverBudget
  <2>2. /\ used \in Nat /\ generated \in Nat
        /\ job.prompt \in Nat /\ job.limit \in Int /\ ContextSize \in Nat
    BY JobTypes, GenerationAssumption DEF GenerationInv, GenerationTypeOK
  <2> QED
    BY <2>1, <2>2
<1> QED
  BY <1>1, GenerationInvariant, PTL
=============================================================================
