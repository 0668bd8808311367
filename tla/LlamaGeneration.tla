--------------------------- MODULE LlamaGeneration -------------------------
(***************************************************************************)
(* One call of LlamaRuntime::generate_with_bundle: the prompt is checked   *)
(* against the context and decoded, tokens are sampled one at a time, and  *)
(* the text they make is cut at a stop sequence. A streamed answer leaves  *)
(* while it is generated: what could still become a stop sequence is held  *)
(* back. The model, its sampler and llama.cpp's failures are external.     *)
(***************************************************************************)
EXTENDS Integers, Sequences

CONSTANTS
  Jobs,         \* the calls: [mode, stops, limit, prompt]; prompt is the number
                \* of tokens of the prompt, 0 when it has none
  Characters,   \* what the pieces of text are made of
  Pieces,       \* the texts of the tokens the model may sample
  HasEncoder,   \* whether it is an encoder-decoder model
  ContextSize,  \* the configured context, in tokens
  MaxInt        \* the greatest int

Modes == {"buffered", "stream", "warmup"}

\* A request has finitely many stop sequences, so one is the longest.
ASSUME GenerationAssumption ==
  /\ Pieces \subseteq Seq(Characters)
  /\ ContextSize \in Nat /\ MaxInt \in Nat /\ HasEncoder \in BOOLEAN
  /\ Jobs # {} /\ Jobs \subseteq [mode : Modes, stops : SUBSET Seq(Characters),
                     limit : Int, prompt : Nat]
  /\ \A j \in Jobs : \E s \in j.stops \cup {<< >>} : \A t \in j.stops : Len(t) <= Len(s)

VARIABLES
  gpc,        \* where the call stands
  job,        \* its arguments
  used,       \* tokens in the model's context
  text,       \* generated_text
  streamed,   \* streamed_size: how much of it has left
  generated,  \* tokens sampled so far
  ending,     \* why sampling ended: "limit", "eog" or "sequence"
  outcome,    \* "none", then "ok", "failed" or "cancelled"
  answer,     \* the result's text
  heard       \* what the callback has accepted

generationVars ==
  <<gpc, job, used, text, streamed, generated, ending, outcome, answer, heard>>

-----------------------------------------------------------------------------
(* Stop sequences. An empty one is never looked for. *)

OccursAt(s, t, m) == m + Len(s) <= Len(t) /\ \A i \in 1 .. Len(s) : t[m + i] = s[i]

StopAt(stops, t, m) == \E s \in stops : s # << >> /\ OccursAt(s, t, m)
Matches(stops, t) == {m \in 0 .. Len(t) : StopAt(stops, t, m)}

\* A mutant: the last place counts.
LastMatch(stops, t) ==
  CHOOSE m \in Matches(stops, t) : \A k \in Matches(stops, t) : m >= k

FirstMatch(stops, t) ==
  CHOOSE m \in Matches(stops, t) : \A k \in Matches(stops, t) : m <= k

\* apply_stop_sequences
CutAtStop(stops, t) ==
  IF Matches(stops, t) = {} THEN t ELSE SubSeq(t, 1, FirstMatch(stops, t))

\* max_stop_sequence_holdback: one less than the longest
Lengths(stops) == {Len(s) : s \in stops} \cup {0}
Longest(stops) == CHOOSE n \in Lengths(stops) : \A k \in Lengths(stops) : k <= n
Holdback(stops) == IF Longest(stops) = 0 THEN 0 ELSE Longest(stops) - 1

\* A mutant: nothing is held back.
SafeEndAtOnce(stops, t) == Len(t)

\* How much of a text without a stop sequence may leave.
SafeEnd(stops, t) ==
  IF Len(t) > Holdback(stops) THEN Len(t) - Holdback(stops) ELSE 0

\* emit_stream_safe_prefix, of t up to end
Emitted(t, end) == SubSeq(t, streamed + 1, end)
Emit(t, end, accepted) ==
  IF end <= streamed THEN accepted = TRUE /\ UNCHANGED <<streamed, heard>>
  ELSE IF accepted
  THEN streamed' = end /\ heard' = heard \o Emitted(t, end)
  ELSE UNCHANGED <<streamed, heard>>

-----------------------------------------------------------------------------
GenerationInit ==
  /\ gpc = "idle"
  /\ job = CHOOSE j \in Jobs : TRUE
  /\ used = 0 /\ text = << >> /\ streamed = 0 /\ generated = 0
  /\ ending = "limit" /\ outcome = "none" /\ answer = << >> /\ heard = << >>

StartGeneration(j) ==
  /\ gpc = "idle"
  /\ gpc' = "prompt" /\ job' = j
  /\ UNCHANGED <<used, text, streamed, generated, ending, outcome, answer, heard>>

End(how) == gpc' = "done" /\ outcome' = how

\* A mutant: the budget forgets the tokens to generate.
PromptOverBudget == job.prompt > ContextSize

\* The sum is an int's: beyond MaxInt it is undefined, and the test may go
\* either way.
OverBudget == job.prompt + job.limit > ContextSize
Overflows == job.prompt + job.limit > MaxInt

\* build_prompt, tokenizing and decoding the prompt, any of which may fail.
PromptFails ==
  /\ gpc = "prompt"
  /\ End("failed")
  /\ UNCHANGED <<job, used, text, streamed, generated, ending, answer, heard>>

DecodePrompt ==
  /\ gpc = "prompt"
  /\ job.prompt > 0
  /\ Overflows \/ ~OverBudget
  /\ used' = (IF HasEncoder THEN 1 ELSE job.prompt)
  /\ used' <= ContextSize
  /\ gpc' = IF job.limit > 0 THEN "sample" ELSE "finish"
  /\ UNCHANGED <<job, text, streamed, generated, ending, outcome, answer, heard>>

\* The sampler draws an end-of-generation token.
SampleEnd ==
  /\ gpc = "sample"
  /\ ending' = "eog" /\ gpc' = "finish"
  /\ UNCHANGED <<job, used, text, streamed, generated, outcome, answer, heard>>

\* A token whose text cannot be had ends the call.
PieceFails ==
  /\ gpc = "sample"
  /\ End("failed")
  /\ UNCHANGED <<job, used, text, streamed, generated, ending, answer, heard>>

\* The next token, unless it was the last one allowed, is decoded.
CountToken ==
  /\ generated' = generated + 1
  /\ gpc' = IF generated + 1 >= job.limit THEN "finish" ELSE "decode"

\* A token of a warmup or of a buffered answer: stops are looked for at the end.
SampleToken(piece) ==
  /\ gpc = "sample" /\ job.mode # "stream"
  /\ text' = IF job.mode = "warmup" THEN text ELSE text \o piece
  /\ CountToken
  /\ UNCHANGED <<job, used, streamed, ending, outcome, answer, heard>>

Cancel == End("cancelled") /\ UNCHANGED <<generated, ending>>

\* A token of a streamed answer that completes no stop sequence.
StreamToken(piece, accepted) ==
  /\ gpc = "sample" /\ job.mode = "stream"
  /\ text' = text \o piece
  /\ Matches(job.stops, text') = {}
  /\ Emit(text', SafeEnd(job.stops, text'), accepted)
  /\ IF accepted THEN CountToken /\ UNCHANGED <<ending, outcome>> ELSE Cancel
  /\ UNCHANGED <<job, used, answer>>

\* A token that completes one: the text before it leaves, the rest is erased.
StreamStop(piece, accepted) ==
  /\ gpc = "sample" /\ job.mode = "stream"
  /\ LET whole == text \o piece
         cut == FirstMatch(job.stops, whole)
     IN /\ Matches(job.stops, whole) # {}
        /\ Emit(whole, cut, accepted)
        /\ IF accepted
           THEN /\ text' = SubSeq(whole, 1, cut)
                /\ generated' = generated + 1
                /\ ending' = "sequence" /\ gpc' = "finish"
                /\ UNCHANGED outcome
           ELSE text' = whole /\ Cancel
  /\ UNCHANGED <<job, used, answer>>

\* llama_decode takes a place of the context, and may fail at any time.
DecodeToken ==
  /\ gpc = "decode" /\ used < ContextSize
  /\ used' = used + 1 /\ gpc' = "sample"
  /\ UNCHANGED <<job, text, streamed, generated, ending, outcome, answer, heard>>

DecodeFails ==
  /\ gpc = "decode"
  /\ End("failed")
  /\ UNCHANGED <<job, used, text, streamed, generated, ending, answer, heard>>

\* What was held back leaves; the answer of a buffered call is cut.
FinishGeneration(accepted) ==
  /\ gpc = "finish"
  /\ IF job.mode = "stream" /\ ending # "sequence"
     THEN Emit(text, Len(text), accepted)
     ELSE accepted = TRUE /\ UNCHANGED <<streamed, heard>>
  /\ IF accepted
     THEN /\ End("ok")
          /\ answer' = IF job.mode = "buffered" THEN CutAtStop(job.stops, text) ELSE text
          /\ ending' = IF job.mode = "buffered" /\ Matches(job.stops, text) # {}
                       THEN "sequence" ELSE ending
     ELSE End("cancelled") /\ UNCHANGED <<answer, ending>>
  /\ UNCHANGED <<job, used, text, generated>>

\* finish_reason
FinishReason == IF ending = "limit" THEN "length" ELSE "stop"

GenerationNext ==
  \/ \E j \in Jobs : StartGeneration(j)
  \/ PromptFails \/ DecodePrompt \/ SampleEnd \/ PieceFails
  \/ \E piece \in Pieces :
       \/ SampleToken(piece)
       \/ \E accepted \in BOOLEAN :
            StreamToken(piece, accepted) \/ StreamStop(piece, accepted)
  \/ DecodeToken \/ DecodeFails
  \/ \E accepted \in BOOLEAN : FinishGeneration(accepted)

GenerationSpec == GenerationInit /\ [][GenerationNext]_generationVars

-----------------------------------------------------------------------------
\* A stop sequence is never part of what a client is given: not of the answer,
\* and not of what was streamed while a longer text could still have held one.
NoStopIsSent ==
  /\ Matches(job.stops, heard) = {}
  /\ outcome = "ok" => Matches(job.stops, answer) = {}

\* A streamed answer is what the client has heard, no more and no less.
StreamTellsTheAnswer ==
  outcome = "ok" /\ job.mode = "stream" => heard = answer

\* The budget check leaves room in the context for every token that is decoded.
RoomForEveryToken ==
  gpc = "decode" /\ ~Overflows => used < ContextSize
=============================================================================
