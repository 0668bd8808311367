-------------------------- MODULE CloudClientProofs --------------------------
(***************************************************************************)
(* Theorems about CloudClient, for every set of calls, every number of     *)
(* deltas an answer may carry and every tool-call fragment in them: the    *)
(* invariant IInv of CloudClient is inductive, the properties follow from  *)
(* it, and every step of a call is a step of BackendCall or stutters.      *)
(***************************************************************************)
EXTENDS CloudClient, TLAPS

\* The fields of a call are what validate_cloud_config admits.
LEMMA CallFields ==
  ASSUME call \in Calls
  PROVE  /\ call.retries \in Nat
         /\ call.timeout \in Nat \ {0}
         /\ call.backoff \in Nat
         /\ call.streaming \in BOOLEAN
BY CallsAssumption DEF Call

\* Nothing sent and nothing said have the types of what grows from them.
LEMMA EmptyTypes ==
  /\ NoText \in [content : 0..MaxDeltas, arguments : Seq(Characters)]
  /\ NothingSent \in [deltas : 0..MaxDeltas, content : Nat, arguments : Seq(Characters),
                      altered : BOOLEAN]
  /\ NothingSent.content <= NothingSent.deltas
BY MaxDeltasAssumption DEF NoText, NothingSent

LEMMA DeltaFields ==
  ASSUME NEW delta \in Deltas
  PROVE  /\ delta.content \in {0, 1}
         /\ delta.arguments \in Seq(Characters)
<1>1. delta.content \in {0, 1} /\ delta.arguments \in {<< >>} \cup Fragments
  <2>1. CASE delta \in [content : {0, 1}, arguments : {<< >>}, asText : {TRUE}]
    BY <2>1
  <2>2. CASE delta \in [content : {0, 1}, arguments : Fragments, asText : BOOLEAN]
    BY <2>2
  <2> QED
    BY <2>1, <2>2 DEF Deltas
<1>2. delta.content \in {0, 1}
  BY <1>1
<1>3. << >> \in Seq(Characters)
  OBVIOUS
<1>4. delta.arguments \in Seq(Characters)
  BY <1>1, <1>3, FragmentsAssumption, Zenon
<1> QED
  BY <1>2, <1>4

\* Merged arguments are characters again.
LEMMA MergeType ==
  ASSUME NEW delta \in Deltas, NEW arguments \in Seq(Characters)
  PROVE  MergeArguments(arguments, delta) \in Seq(Characters)
BY DeltaFields DEF MergeArguments

LEMMA InitIInv == Init => IInv
<1> SUFFICES ASSUME Init PROVE IInv
  OBVIOUS
<1>1. TypeOK
  <2>1. 0 \in Nat
    OBVIOUS
  <2> QED
    BY <2>1, EmptyTypes, Zenon DEF Init, TypeOK, Pcs, Statuses, CurlCodes, Errors
<1>2. DeadlineKept /\ RetryInv /\ TransferInv /\ ResultInv
  BY CallFields DEF Init, DeadlineKept, RetryInv, TransferInv, ResultInv,
                    OutcomeExplained, SuccessIsComplete, MaxAttempts, NoText, NothingSent
<1> QED
  BY <1>1, <1>2 DEF IInv

-----------------------------------------------------------------------------
(* One lemma per conjunct of IInv; each looks at the actions that matter.  *)

\* Next, one action per disjunct.
LEMMA Step ==
  ASSUME Next
  PROVE  \/ \E status \in Statuses \ {"none"} : StatusLine(status)
         \/ \E delta \in Deltas, accepted, finished, wellFormed \in BOOLEAN :
              Delta(delta, accepted, finished, wellFormed)
         \/ \E finished, wellFormed \in BOOLEAN : OtherEvent(finished, wellFormed)
         \/ DoneMarker
         \/ ErrorEvent
         \/ Setup
         \/ DeadlinePassed
         \/ BeginAttempt
         \/ Backoff
         \/ \E code \in CurlCodes \ {"none"}, parsed \in BOOLEAN, d \in 0..TransferBudget :
              EndTransfer(code, parsed, d)
         \/ UNCHANGED vars
BY Zenon DEF Next, ServerSends, Advance, Returned

LEMMA TypeStep == IInv /\ [Next]_vars => TypeOK'
<1> SUFFICES ASSUME IInv, [Next]_vars PROVE TypeOK'
  OBVIOUS
<1> USE DEF IInv, TypeOK
<1>0. call.retries \in Nat /\ call.timeout \in Nat /\ call.backoff \in Nat
  BY CallFields
<1>1. ASSUME NEW status \in Statuses \ {"none"}, StatusLine(status) PROVE TypeOK'
  BY <1>1 DEF StatusLine, answer, result, client
<1>2. ASSUME NEW delta \in Deltas, NEW accepted \in BOOLEAN, NEW finished \in BOOLEAN,
             NEW wellFormed \in BOOLEAN, Delta(delta, accepted, finished, wellFormed)
      PROVE  TypeOK'
  <2>1. /\ sent' \in [deltas : 0..MaxDeltas, content : Nat, arguments : Seq(Characters),
                      altered : BOOLEAN]
        /\ sent'.content <= sent'.deltas
    <3>1. sent.deltas + 1 \in 0..MaxDeltas
      BY <1>2, MaxDeltasAssumption DEF Delta
    <3>2. /\ sent.content + delta.content \in Nat
          /\ sent.arguments \o delta.arguments \in Seq(Characters)
      BY DeltaFields
    <3>3. (\/ sent.altered
           \/ MergeArguments(text.arguments, delta) # text.arguments \o delta.arguments)
          \in BOOLEAN
      BY Zenon
    <3>4. sent.content + delta.content <= sent.deltas + 1
      BY DeltaFields
    <3> QED
      BY <1>2, <3>1, <3>2, <3>3, <3>4 DEF Delta
  <2>2. text' \in [content : 0..MaxDeltas, arguments : Seq(Characters)]
    <3>1. MergeArguments(text.arguments, delta) \in Seq(Characters)
      BY MergeType
    <3>2. text.content = sent.content /\ sent.deltas < MaxDeltas
      BY <1>2 DEF Delta, Answering, TransferInv
    <3>3. text.content + delta.content \in 0..MaxDeltas
      BY <3>2, DeltaFields, MaxDeltasAssumption
    <3> QED
      BY <1>2, <3>1, <3>3 DEF Delta
  <2>3. delivered' \in Nat /\ refused' \in BOOLEAN
    <3>1. delivered + 1 \in Nat /\ (refused \/ ~accepted) \in BOOLEAN
      OBVIOUS
    <3> QED
      BY <1>2, <3>1, Zenon DEF Delta, client
  <2> QED
    BY <1>2, <2>1, <2>2, <2>3 DEF Delta, SaysComplete, result
<1>3. ASSUME NEW finished \in BOOLEAN, NEW wellFormed \in BOOLEAN,
             OtherEvent(finished, wellFormed)
      PROVE  TypeOK'
  BY <1>3 DEF OtherEvent, SaysComplete, result, client
<1>4. CASE DoneMarker
  BY <1>4 DEF DoneMarker, SaysComplete, result, client
<1>5. CASE ErrorEvent
  BY <1>5 DEF ErrorEvent, answer, result, client
<1>6. CASE Setup
  <2>1. pc' \in Pcs /\ error' \in Errors
    BY <1>6 DEF Setup, Pcs, Errors
  <2> QED
    BY <1>6, <2>1, Zenon DEF Setup, transfer, answer, client
<1>7. CASE DeadlinePassed
  <2>1. pc' \in Pcs /\ error' \in Errors
    BY <1>7 DEF DeadlinePassed, Pcs, Errors
  <2> QED
    BY <1>7, <2>1, Zenon DEF DeadlinePassed, transfer, answer, client
<1>8. CASE BeginAttempt
  <2>1. attempt + 1 \in Nat
    OBVIOUS
  <2> QED
    BY <1>8, <2>1, EmptyTypes, Zenon
    DEF BeginAttempt, FreshState, FreshResult, client, Pcs, Errors, Statuses, CurlCodes
<1>9. CASE Backoff
  <2>1. Pause \in Nat
    BY <1>0 DEF Pause, Remaining, DeadlineKept
  <2> QED
    BY <1>9, <2>1 DEF Backoff, transfer, answer, result, client, Pcs
<1>10. ASSUME NEW code \in CurlCodes \ {"none"}, NEW parsed \in BOOLEAN,
              NEW d \in 0..TransferBudget, EndTransfer(code, parsed, d)
       PROVE  TypeOK'
  <2>1. d \in Nat /\ clock' \in Nat
    BY <1>0, <1>10 DEF EndTransfer, TransferBudget, Remaining
  <2>2. error' \in Errors
    BY <1>10 DEF EndTransfer, Verdict, Errors
  <2>3. text' \in [content : 0..MaxDeltas, arguments : Seq(Characters)]
    <3>1. [NoText EXCEPT !.content = 1] \in [content : 0..MaxDeltas, arguments : Seq(Characters)]
      <4>1. 1 \in 0..MaxDeltas
        BY MaxDeltasAssumption
      <4> QED
        BY <4>1, EmptyTypes, Zenon
    <3>2. text' = [NoText EXCEPT !.content = 1] \/ text' = text
      BY <1>10, Zenon DEF EndTransfer
    <3> QED
      BY <3>1, <3>2
  <2>4. ok' \in BOOLEAN /\ pc' \in Pcs
    BY <1>10 DEF EndTransfer, Pcs
  <2> QED
    BY <1>10, <2>1, <2>2, <2>3, <2>4 DEF EndTransfer, transfer, answer, client
<1>11. CASE UNCHANGED vars
  BY <1>11 DEF vars
<1> QED
  BY <1>1, <1>2, <1>3, <1>4, <1>5, <1>6, <1>7, <1>8, <1>9, <1>10, <1>11, Step

\* Only a transfer and a pause take time, and both are cut at the deadline.
LEMMA DeadlineStep == IInv /\ [Next]_vars => DeadlineKept'
<1> SUFFICES ASSUME IInv, [Next]_vars PROVE DeadlineKept'
  OBVIOUS
<1> USE DEF IInv, TypeOK, DeadlineKept
<1>0. call.retries \in Nat /\ call.timeout \in Nat /\ call.backoff \in Nat
  BY CallFields
<1>1. CASE Backoff
  BY <1>0, <1>1 DEF Backoff, Pause, Remaining
<1>2. ASSUME NEW code \in CurlCodes \ {"none"}, NEW parsed \in BOOLEAN,
             NEW d \in 0..TransferBudget, EndTransfer(code, parsed, d)
      PROVE  DeadlineKept'
  BY <1>0, <1>2 DEF EndTransfer, TransferBudget, Remaining
<1>3. CASE UNCHANGED <<call, clock>>
  BY <1>3
<1>4. \/ Backoff
      \/ \E code \in CurlCodes \ {"none"}, parsed \in BOOLEAN, d \in 0..TransferBudget :
           EndTransfer(code, parsed, d)
      \/ UNCHANGED <<call, clock>>
  BY Step DEF StatusLine, Delta, OtherEvent, DoneMarker, ErrorEvent, Setup, DeadlinePassed,
              BeginAttempt, vars
<1> QED
  BY <1>1, <1>2, <1>3, <1>4

LEMMA RetryStep == IInv /\ [Next]_vars => RetryInv'
<1> SUFFICES ASSUME IInv, [Next]_vars PROVE RetryInv'
  OBVIOUS
<1> USE DEF IInv, TypeOK, RetryInv, MaxAttempts
<1>0. call.retries \in Nat
  BY CallFields
<1>1. ASSUME NEW status \in Statuses \ {"none"}, StatusLine(status) PROVE RetryInv'
  BY <1>1 DEF StatusLine
<1>2. ASSUME NEW delta \in Deltas, NEW accepted \in BOOLEAN, NEW finished \in BOOLEAN,
             NEW wellFormed \in BOOLEAN, Delta(delta, accepted, finished, wellFormed)
      PROVE  RetryInv'
  BY <1>2 DEF Delta, Answering
<1>3. ASSUME NEW finished \in BOOLEAN, NEW wellFormed \in BOOLEAN,
             OtherEvent(finished, wellFormed)
      PROVE  RetryInv'
  BY <1>3 DEF OtherEvent, Answering
<1>4. CASE DoneMarker \/ ErrorEvent
  BY <1>4 DEF DoneMarker, ErrorEvent, Answering
<1>5. CASE Setup \/ DeadlinePassed \/ Backoff
  <2>1. /\ pc \in {"setup", "attempt", "backoff"}
        /\ pc' \in {"attempt", "returned"}
        /\ UNCHANGED <<call, attempt, parserError, http, curlCode, refused>>
    BY <1>5, Zenon DEF Setup, DeadlinePassed, Backoff, transfer, client
  <2> QED
    BY <1>0, <2>1
<1>6. CASE BeginAttempt
  BY <1>0, <1>6 DEF BeginAttempt
<1>7. ASSUME NEW code \in CurlCodes \ {"none"}, NEW parsed \in BOOLEAN,
             NEW d \in 0..TransferBudget, EndTransfer(code, parsed, d)
      PROVE  RetryInv'
  <2>1. pc' = "returned" \/ (pc' = "backoff" /\ Retryable(code) /\ AttemptsLeft)
    BY <1>7 DEF EndTransfer
  <2>2. CASE pc' = "returned"
    BY <1>0, <1>7, <2>2 DEF EndTransfer
  <2>3. CASE pc' = "backoff" /\ Retryable(code) /\ AttemptsLeft
    <3>1. code # "write" /\ parserError = "none"
      BY <1>7, <2>3 DEF EndTransfer, PossibleCode, Retryable
    <3>2. ~refused
      BY <1>7, <3>1 DEF EndTransfer, TransferInv
    <3> QED
      BY <1>0, <1>7, <2>3, <3>1, <3>2
      DEF EndTransfer, Retryable, AttemptsLeft, transfer, client
  <2> QED
    BY <2>1, <2>2, <2>3
<1>8. CASE UNCHANGED vars
  BY <1>8 DEF vars
<1> QED
  BY <1>1, <1>2, <1>3, <1>4, <1>5, <1>6, <1>7, <1>8, Step

LEMMA TransferStep == IInv /\ [Next]_vars => TransferInv'
<1> SUFFICES ASSUME IInv, [Next]_vars PROVE TransferInv'
  OBVIOUS
<1> USE DEF IInv, TypeOK, TransferInv
<1>1. ASSUME NEW status \in Statuses \ {"none"}, StatusLine(status) PROVE TransferInv'
  BY <1>1 DEF StatusLine, answer, client
<1>2. ASSUME NEW delta \in Deltas, NEW accepted \in BOOLEAN, NEW finished \in BOOLEAN,
             NEW wellFormed \in BOOLEAN, Delta(delta, accepted, finished, wellFormed)
      PROVE  TransferInv'
  <2>1. /\ parserError = "none"
        /\ ~refused
        /\ sawDone <=> complete
        /\ text.content = sent.content
        /\ ~sent.altered => text.arguments = sent.arguments
        /\ call.streaming => delivered = heardBefore + sent.deltas
    BY <1>2 DEF Delta, Answering
  <2>2. delta.content \in Nat
    BY DeltaFields
  <2>3. CASE accepted /\ wellFormed
    <3>1. /\ parserError' = "none" /\ ~refused'
          /\ sawDone' <=> complete'
      BY <1>2, <2>1, <2>3 DEF Delta, SaysComplete, client
    <3>2. text'.content = sent'.content
      BY <1>2, <2>1, <2>2, <2>3 DEF Delta
    <3>3. ~sent'.altered => text'.arguments = sent'.arguments
      BY <1>2, <2>1, <2>3 DEF Delta
    <3>4. call'.streaming => delivered' = heardBefore' + sent'.deltas
      BY <1>2, <2>1 DEF Delta, client
    <3> QED
      BY <3>1, <3>2, <3>3, <3>4
  <2>4. CASE accepted /\ ~wellFormed
    BY <1>2, <2>1, <2>4 DEF Delta, SaysComplete, client
  <2>5. CASE ~accepted
    BY <1>2, <2>1, <2>5 DEF Delta, SaysComplete, client
  <2> QED
    BY <2>3, <2>4, <2>5
<1>3. ASSUME NEW finished \in BOOLEAN, NEW wellFormed \in BOOLEAN,
             OtherEvent(finished, wellFormed)
      PROVE  TransferInv'
  BY <1>3 DEF OtherEvent, SaysComplete, Answering, client
<1>4. CASE DoneMarker \/ ErrorEvent
  BY <1>4 DEF DoneMarker, ErrorEvent, SaysComplete, answer, client
<1>5. CASE BeginAttempt
  <2>1. ~refused
    BY <1>5 DEF BeginAttempt, RetryInv
  <2>2. ~sawDone' /\ ~complete'
    BY <1>5, Zenon DEF BeginAttempt, FreshState
  <2> QED
    BY <1>5, <2>1, <2>2
    DEF BeginAttempt, FreshResult, FreshState, client, NoText, NothingSent
<1>6. ASSUME NEW code \in CurlCodes \ {"none"}, NEW parsed \in BOOLEAN,
             NEW d \in 0..TransferBudget, EndTransfer(code, parsed, d)
      PROVE  TransferInv'
  BY <1>6 DEF EndTransfer
<1>7. CASE Setup \/ DeadlinePassed \/ Backoff
  BY <1>7 DEF Setup, DeadlinePassed, Backoff
<1>8. CASE UNCHANGED vars
  BY <1>8 DEF vars
<1> QED
  BY <1>1, <1>2, <1>3, <1>4, <1>5, <1>6, <1>7, <1>8, Step

LEMMA ResultStep == IInv /\ [Next]_vars => ResultInv'
<1> SUFFICES ASSUME IInv, [Next]_vars PROVE ResultInv'
  OBVIOUS
<1> USE DEF IInv, TypeOK, ResultInv, OutcomeExplained
<1>1. ASSUME NEW code \in CurlCodes \ {"none"}, NEW parsed \in BOOLEAN,
             NEW d \in 0..TransferBudget, EndTransfer(code, parsed, d)
      PROVE  ResultInv'
  <2>1. /\ ok' <=> error' = "none"
        /\ pc' # "returned" => ~ok'
    BY <1>1 DEF EndTransfer
  <2>2. ASSUME ok' PROVE SuccessIsComplete'
    <3>1. Verdict(code, parsed) = "none"
      BY <1>1, <2>2 DEF EndTransfer
    <3>2. /\ parserError = "none" /\ code = "ok" /\ http = "200" /\ ~streamError
          /\ sawEvent => sawDone
      BY <3>1 DEF Verdict
    <3>3. /\ ~refused
          /\ sawDone <=> complete
          /\ text.content = sent.content
          /\ ~sent.altered => text.arguments = sent.arguments
          /\ call.streaming => delivered = heardBefore + sent.deltas
      BY <1>1, <3>2 DEF EndTransfer, TransferInv
    <3> QED
      BY <1>1, <2>2, <3>2, <3>3
      DEF EndTransfer, SuccessIsComplete, transfer, answer, client
  <2>3. ASSUME ~ok' PROVE SuccessIsComplete'
    BY <2>3 DEF SuccessIsComplete
  <2> QED
    BY <2>1, <2>2, <2>3
<1>2. CASE UNCHANGED vars
  BY <1>2 DEF vars, SuccessIsComplete
<1>3. ASSUME NEW status \in Statuses \ {"none"}, StatusLine(status) PROVE ResultInv'
  BY <1>3 DEF StatusLine, result, SuccessIsComplete
<1>4. ASSUME NEW delta \in Deltas, NEW accepted \in BOOLEAN, NEW finished \in BOOLEAN,
             NEW wellFormed \in BOOLEAN, Delta(delta, accepted, finished, wellFormed)
      PROVE  ResultInv'
  BY <1>4 DEF Delta, Answering, result, SuccessIsComplete
<1>5. ASSUME NEW finished \in BOOLEAN, NEW wellFormed \in BOOLEAN,
             OtherEvent(finished, wellFormed)
      PROVE  ResultInv'
  BY <1>5 DEF OtherEvent, Answering, result, SuccessIsComplete
<1>6. CASE DoneMarker \/ ErrorEvent
  <2>1. pc = "perform" /\ UNCHANGED <<pc, result>>
    BY <1>6, Zenon DEF DoneMarker, ErrorEvent, Answering
  <2> QED
    BY <2>1 DEF result, SuccessIsComplete
<1>7. CASE Setup \/ BeginAttempt
  BY <1>7 DEF Setup, BeginAttempt, SuccessIsComplete
<1>8. CASE Backoff
  BY <1>8 DEF Backoff, result, SuccessIsComplete
<1>9. CASE DeadlinePassed
  <2>1. pc' = "returned" /\ ~ok /\ ok' = ok /\ error' # "none"
    BY <1>9 DEF DeadlinePassed
  <2> QED
    BY <2>1, Zenon DEF SuccessIsComplete
<1> QED
  BY <1>1, <1>2, <1>3, <1>4, <1>5, <1>6, <1>7, <1>8, <1>9, Step

\* The whole invariant holds of every reachable state.
THEOREM CallInvariance == Spec => []IInv
<1>1. IInv /\ [Next]_vars => IInv'
  BY TypeStep, DeadlineStep, RetryStep, TransferStep, ResultStep DEF IInv
<1> QED
  BY InitIInv, <1>1, PTL DEF Spec

-----------------------------------------------------------------------------
(* The properties *)

\* The variables of complete_impl keep their types.
THEOREM CallTypeCorrect == Spec => []TypeOK
<1>1. IInv => TypeOK
  BY DEF IInv
<1> QED
  BY CallInvariance, <1>1, PTL

\* However many attempts and pauses there are, together they stay within the
\* backend's timeout.
THEOREM CallKeepsDeadline == Spec => []DeadlineKept
<1>1. IInv => DeadlineKept
  BY DEF IInv
<1> QED
  BY CallInvariance, <1>1, PTL

\* retry_attempts bounds the attempts of a call.
THEOREM CallBoundsAttempts == Spec => []AttemptsBounded
<1>1. IInv => AttemptsBounded
  BY DEF IInv, RetryInv, AttemptsBounded
<1> QED
  BY CallInvariance, <1>1, PTL

\* Every exit of complete_impl sets exactly one of ok and error.
THEOREM CallExplainsOutcome == Spec => []OutcomeExplained
<1>1. IInv => OutcomeExplained
  BY DEF IInv, ResultInv
<1> QED
  BY CallInvariance, <1>1, PTL

\* A success is the complete answer of its last attempt, handed on in full: the
\* content of every delta, and the tool-call arguments put together, but for a
\* fragment that apply_stream_delta does not append.
THEOREM CallSuccessComplete == Spec => []SuccessIsComplete
<1>1. IInv => SuccessIsComplete
  BY DEF IInv, ResultInv
<1> QED
  BY CallInvariance, <1>1, PTL

\* What ended the last attempt justifies the next one, and there was one left.
THEOREM CallRetriesOnlyToHelp == Spec => RetryMayHelp
<1>1. ASSUME IInv, [Next]_vars
      PROVE  [attempt' # attempt /\ attempt > 0 =>
                /\ attempt < MaxAttempts
                /\ ~refused
                /\ parserError = "none"
                /\ curlCode = "retryable" \/ (curlCode = "ok" /\ http = "gateway")]_vars
  <2>1. attempt' = attempt \/ BeginAttempt
    BY <1>1, Step DEF StatusLine, Delta, OtherEvent, DoneMarker, ErrorEvent, Setup,
                      DeadlinePassed, Backoff, EndTransfer, vars
  <2>2. CASE BeginAttempt
    BY <1>1, <2>2 DEF BeginAttempt, IInv, RetryInv
  <2> QED
    BY <2>1, <2>2
<1> QED
  BY CallInvariance, <1>1, PTL DEF Spec, RetryMayHelp

-----------------------------------------------------------------------------
(* Refinement *)

\* The call implements what the executor relies on.
THEOREM CallImplementsBackendCall == Spec => ImplementsBackendCall
<1>1. Init => Backend!Init
  BY DEF Init, Backend!Init
<1>2. ASSUME IInv, [Next]_vars
      PROVE  [Backend!Next]_(Backend!vars)
  <2> USE DEF IInv, TypeOK, Backend!vars
  <2>1. ASSUME NEW delta \in Deltas, NEW accepted \in BOOLEAN, NEW finished \in BOOLEAN,
               NEW wellFormed \in BOOLEAN, Delta(delta, accepted, finished, wellFormed)
        PROVE  [Backend!Next]_(Backend!vars)
    <3>1. pc = "perform" /\ pc' = pc /\ ~refused
      BY <1>2, <2>1 DEF Delta, Answering, TransferInv
    <3>2. CASE call.streaming
      <4>1. delivered' = delivered + 1 /\ refused' = ~accepted
        BY <2>1, <3>1, <3>2 DEF Delta
      <4>2. Backend!Deliver(accepted)
        BY <3>1, <4>1 DEF Backend!Deliver
      <4> QED
        BY <4>2 DEF Backend!Next
    <3>3. CASE ~call.streaming
      BY <2>1, <3>1, <3>3 DEF Delta, client
    <3> QED
      BY <3>2, <3>3
  <2>2. ASSUME NEW code \in CurlCodes \ {"none"}, NEW parsed \in BOOLEAN,
               NEW d \in 0..TransferBudget, EndTransfer(code, parsed, d)
        PROVE  [Backend!Next]_(Backend!vars)
    <3>1. pc = "perform" /\ pc' \in {"backoff", "returned"} /\ UNCHANGED client
      BY <2>2 DEF EndTransfer
    <3>2. CASE pc' = "backoff"
      BY <3>1, <3>2 DEF client
    <3>3. CASE pc' = "returned"
      <4>1. ok' => ~refused
        <5>1. ok' => parserError = "none"
          BY <2>2 DEF EndTransfer, Verdict
        <5> QED
          BY <1>2, <3>1, <5>1 DEF TransferInv
      <4>2. Backend!Return(IF ok' THEN "ok" ELSE "failed")
        BY <3>1, <3>3, <4>1 DEF Backend!Return, client
      <4> QED
        BY <4>2 DEF Backend!Next
    <3> QED
      BY <3>1, <3>2, <3>3
  <2>3. CASE Setup \/ DeadlinePassed \/ BeginAttempt
    <3>1. UNCHANGED <<ok, client>> /\ ~ok /\ pc # "returned"
      BY <1>2, <2>3 DEF Setup, DeadlinePassed, BeginAttempt, ResultInv
    <3>2. CASE pc' = "returned"
      <4>1. Backend!Return("failed")
        BY <3>1, <3>2 DEF Backend!Return, client
      <4> QED
        BY <4>1 DEF Backend!Next
    <3>3. CASE pc' # "returned"
      BY <3>1, <3>3 DEF client
    <3> QED
      BY <3>2, <3>3
  <2>4. CASE \/ \E status \in Statuses \ {"none"} : StatusLine(status)
             \/ \E finished, wellFormed \in BOOLEAN : OtherEvent(finished, wellFormed)
             \/ DoneMarker \/ ErrorEvent \/ Backoff \/ UNCHANGED vars
    <3>1. UNCHANGED client /\ (pc' = pc \/ pc' = "attempt") /\ UNCHANGED ok
      BY <2>4 DEF StatusLine, OtherEvent, DoneMarker, ErrorEvent, Backoff, result, vars, client
    <3>2. (pc' = "returned") <=> (pc = "returned")
      BY <2>4 DEF StatusLine, OtherEvent, DoneMarker, ErrorEvent, Backoff, Answering, vars
    <3> QED
      BY <3>1, <3>2 DEF client
  <2> QED
    BY <1>2, <2>1, <2>2, <2>3, <2>4, Step
<1> QED
  BY CallInvariance, <1>1, <1>2, PTL DEF Spec, ImplementsBackendCall, Backend!Spec
=============================================================================
