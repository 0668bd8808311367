----------------------------- MODULE CloudClient -----------------------------
(***************************************************************************)
(* CloudClient::complete_impl (cloud_bridge/cloud_client.cpp): one         *)
(* completion asked of the selected cloud backend, over as many HTTP       *)
(* attempts as its retry settings and its deadline allow.                  *)
(*                                                                         *)
(* An attempt is curl_easy_perform: the server may answer in server-sent   *)
(* events, which curl_write_callback takes one by one, or in one JSON      *)
(* body, and the transfer may be cut at any moment.  The content of a      *)
(* delta is only counted, since it is always appended; the arguments of a  *)
(* tool call are kept, since they are not.  Time is an integer that moves  *)
(* with each transfer and each back-off sleep.                             *)
(***************************************************************************)
EXTENDS Naturals, Sequences

CONSTANTS
  Calls,      \* the calls considered: a subset of Call
  Characters, \* the characters of tool-call arguments
  Fragments,  \* the tool-call arguments that a delta may carry
  MaxDeltas   \* bound: deltas in one answer of the server

\* A backend's settings, as validate_cloud_config admits them, and whether
\* the caller passed an on_delta.
Call == [retries : Nat, timeout : Nat \ {0}, backoff : Nat, streaming : BOOLEAN]

\* What a delta carries: content or not, and of the arguments of a tool call a
\* fragment as text, the whole as an object, or nothing (its name, say).
Deltas ==
  [content : {0, 1}, arguments : {<< >>}, asText : {TRUE}]
    \cup [content : {0, 1}, arguments : Fragments, asText : BOOLEAN]

ASSUME CallsAssumption == Calls \subseteq Call
ASSUME FragmentsAssumption == Fragments \subseteq Seq(Characters)
ASSUME MaxDeltasAssumption == MaxDeltas \in Nat \ {0}

VARIABLES
  call,         \* the call made
  pc,           \* where complete_impl stands
  attempt,      \* attempts begun
  clock,        \* time since request_start
  http,         \* status line of the running attempt
  sent,         \* history: what the deltas of the running attempt's answer carried
  complete,     \* history: that answer has said that it is complete
  text,         \* result.text and the arguments in result.message
  sawEvent,     \* stream_state.saw_stream_event
  sawDone,      \* stream_state.saw_done
  streamError,  \* stream_state.stream_error is set
  parserError,  \* stream_state.parser_error
  curlCode,     \* what curl_easy_perform returned
  ok,           \* result.ok
  error,        \* result.error
  delivered,    \* history: deltas handed to on_delta by the whole call
  heardBefore,  \* history: those of earlier attempts
  refused       \* history: on_delta has returned false

vars == <<call, pc, attempt, clock, http, sent, complete, text, sawEvent, sawDone,
          streamError, parserError, curlCode, ok, error, delivered, heardBefore, refused>>

result == <<ok, error>>
client == <<delivered, refused>>
answer == <<sent, complete>>
transfer == <<http, sawEvent, sawDone, streamError, parserError>>

Pcs == {"setup", "attempt", "perform", "backoff", "returned"}
Statuses == {"none", "200", "gateway", "other"}  \* gateway: 502, 503, 504
CurlCodes == {"none", "ok", "write", "retryable", "fatal"}
Errors == {"none", "setup", "timed out", "curl", "http", "stream", "unparsable",
           "unterminated", "malformed", "cancelled"}

NoText == [content |-> 0, arguments |-> << >>]

\* altered: arguments that came were not appended to those before them
NothingSent == [deltas |-> 0, content |-> 0, arguments |-> << >>, altered |-> FALSE]

MaxAttempts == call.retries + 1

\* remaining_ms: what the deadline of the whole call leaves.
Remaining == call.timeout - clock

\* CURLOPT_TIMEOUT_MS of the next transfer.
TransferBudget_Whole == call.timeout
TransferBudget == Remaining

\* The pause before the next attempt, cut at the deadline.
Pause == IF call.backoff < Remaining THEN call.backoff ELSE Remaining

Init ==
  /\ call \in Calls
  /\ pc = "setup"
  /\ attempt = 0
  /\ clock = 0
  /\ http = "none"
  /\ sent = NothingSent
  /\ complete = FALSE
  /\ text = NoText
  /\ sawEvent = FALSE
  /\ sawDone = FALSE
  /\ streamError = FALSE
  /\ parserError = "none"
  /\ curlCode = "none"
  /\ ok = FALSE
  /\ error = "none"
  /\ delivered = 0
  /\ heardBefore = 0
  /\ refused = FALSE

-----------------------------------------------------------------------------
(* complete_impl up to curl_easy_perform *)

\* The backend is selected and the body built; no configured backend, no
\* libcurl or request JSON that does not parse ends the call.
Setup ==
  /\ pc = "setup"
  /\ \/ pc' = "attempt" /\ UNCHANGED error
     \/ pc' = "returned" /\ error' = "setup"
  /\ UNCHANGED <<call, attempt, clock, transfer, answer, text, curlCode, ok, client, heardBefore>>

\* The head of the retry loop when the deadline has passed: the error of the
\* last attempt stays.
DeadlinePassed_Silent ==
  /\ pc = "attempt"
  /\ Remaining = 0
  /\ pc' = "returned"
  /\ error' = "none"
  /\ UNCHANGED <<call, attempt, clock, transfer, answer, text, curlCode, ok, client, heardBefore>>
DeadlinePassed ==
  /\ pc = "attempt"
  /\ Remaining = 0
  /\ pc' = "returned"
  /\ error' = IF error = "none" THEN "timed out" ELSE error
  /\ UNCHANGED <<call, attempt, clock, transfer, answer, text, curlCode, ok, client, heardBefore>>

\* A fresh CurlStreamState.
FreshState_KeepDone ==
  /\ http' = "none"
  /\ sawEvent' = FALSE
  /\ streamError' = FALSE
  /\ parserError' = "none"
  /\ UNCHANGED sawDone
FreshState ==
  /\ http' = "none"
  /\ sawEvent' = FALSE
  /\ sawDone' = FALSE
  /\ streamError' = FALSE
  /\ parserError' = "none"

\* A fresh CloudCompletionResult.
FreshResult_KeepText == UNCHANGED text
FreshResult == text' = NoText

\* The head of the loop in time: everything the last attempt left is dropped.
BeginAttempt_Uncounted ==
  /\ pc = "attempt"
  /\ Remaining > 0
  /\ UNCHANGED attempt
  /\ FreshState
  /\ FreshResult
  /\ sent' = NothingSent
  /\ complete' = FALSE
  /\ curlCode' = "none"
  /\ heardBefore' = delivered
  /\ pc' = "perform" /\ error' = "none"
  /\ UNCHANGED <<call, clock, ok, client>>
BeginAttempt ==
  /\ pc = "attempt"
  /\ Remaining > 0
  /\ attempt' = attempt + 1
  /\ FreshState
  /\ FreshResult
  /\ sent' = NothingSent
  /\ complete' = FALSE
  /\ curlCode' = "none"
  /\ heardBefore' = delivered
  /\ \/ pc' = "perform" /\ error' = "none"
     \/ pc' = "returned" /\ error' = "setup"    \* curl_easy_init failed
  /\ UNCHANGED <<call, clock, ok, client>>

-----------------------------------------------------------------------------
(* curl_write_callback, event by event *)

StatusLine(status) ==
  /\ pc = "perform"
  /\ http = "none"
  /\ http' = status
  /\ UNCHANGED <<call, pc, attempt, clock, answer, text, sawEvent, sawDone, streamError,
                 parserError, curlCode, result, client, heardBefore>>

\* After the callback has returned 0 curl calls it no more.
\* Events are taken under any status.
Answering_AfterRefusal == pc = "perform" /\ http # "none"
Answering == pc = "perform" /\ http # "none" /\ parserError = "none"

\* A completion marker: [DONE], or a finish_reason in an event that was taken.
SaysComplete(said) ==
  /\ sawDone' = (sawDone \/ said)
  /\ complete' = (complete \/ said)

\* apply_stream_delta, of the arguments of a tool call: a text is appended to
\* what is there unless it equals that; an object takes its place.
MergeArguments(arguments, delta) ==
  IF ~delta.asText \/ arguments = << >> \/ arguments = delta.arguments
  THEN delta.arguments
  ELSE arguments \o delta.arguments

\* A delta with content or tool calls: handed on, then added to the result,
\* unless the client refuses it or, once handed on, its tool call is malformed.
Delta(delta, accepted, finished, wellFormed) ==
  /\ Answering
  /\ sent.deltas < MaxDeltas
  /\ ~accepted => call.streaming
  /\ sawEvent' = TRUE
  /\ sent' = [deltas |-> sent.deltas + 1,
              content |-> sent.content + delta.content,
              arguments |-> sent.arguments \o delta.arguments,
              altered |-> \/ sent.altered
                          \/ MergeArguments(text.arguments, delta)
                               # text.arguments \o delta.arguments]
  /\ SaysComplete(finished /\ accepted /\ wellFormed)
  /\ IF call.streaming
       THEN delivered' = delivered + 1 /\ refused' = (refused \/ ~accepted)
       ELSE UNCHANGED client
  /\ text' = IF ~accepted THEN text
             ELSE [content |-> text.content + delta.content,
                   arguments |-> IF wellFormed THEN MergeArguments(text.arguments, delta)
                                 ELSE text.arguments]
  /\ parserError' = IF ~accepted THEN "cancelled"
                    ELSE IF ~wellFormed THEN "malformed" ELSE "none"
  /\ UNCHANGED <<call, pc, attempt, clock, http, streamError, curlCode, result, heardBefore>>

\* An event without a delta to hand on: usage, a role, or a payload that does
\* not parse; finished when it has a finish_reason.
OtherEvent(finished, wellFormed) ==
  /\ Answering
  /\ sawEvent' = TRUE
  /\ SaysComplete(finished /\ wellFormed)
  /\ parserError' = IF wellFormed THEN "none" ELSE "malformed"
  /\ UNCHANGED <<call, pc, attempt, clock, http, sent, text, streamError, curlCode, result,
                 client, heardBefore>>

\* data: [DONE], which does not count as an event of the stream.
DoneMarker ==
  /\ Answering
  /\ SaysComplete(TRUE)
  /\ UNCHANGED <<call, pc, attempt, clock, http, sent, text, sawEvent, streamError,
                 parserError, curlCode, result, client, heardBefore>>

\* error: ..., remembered while the stream goes on.
ErrorEvent ==
  /\ Answering
  /\ streamError' = TRUE
  /\ UNCHANGED <<call, pc, attempt, clock, http, answer, text, sawEvent, sawDone, parserError,
                 curlCode, result, client, heardBefore>>

-----------------------------------------------------------------------------
(* complete_impl after curl_easy_perform *)

\* What curl may return: a write error exactly when the callback returned 0.
PossibleCode(code) ==
  /\ (code = "write") <=> (parserError # "none")
  /\ code = "ok" => http # "none"

\* The classification of an ended attempt; parsed: a body without events is a
\* completion in JSON.
Verdict(code, parsed) ==
  IF parserError # "none" THEN parserError
  ELSE IF code # "ok" THEN "curl"
  ELSE IF http # "200" THEN "http"
  ELSE IF streamError THEN "stream"
  ELSE IF ~sawEvent THEN IF parsed THEN "none" ELSE "unparsable"
  ELSE IF ~sawDone THEN "unterminated"
  ELSE "none"

\* is_retryable_curl_code, is_retryable_http_status.
Retryable_AnyStatus(code) == code = "retryable" \/ (code = "ok" /\ http # "200")
Retryable(code) == code = "retryable" \/ (code = "ok" /\ http = "gateway")

AttemptsLeft_OneMore == attempt <= MaxAttempts
AttemptsLeft == attempt < MaxAttempts

\* The transfer ends after d; the call returns, or pauses for a retry.
EndTransfer(code, parsed, d) ==
  /\ pc = "perform"
  /\ PossibleCode(code)
  /\ parsed => code = "ok" /\ http = "200" /\ ~sawEvent /\ ~sawDone
  /\ clock' = clock + d
  /\ curlCode' = code
  /\ error' = Verdict(code, parsed)
  /\ ok' = (error' = "none")
  /\ text' = IF ok' /\ ~sawEvent THEN [NoText EXCEPT !.content = 1] ELSE text
  /\ pc' = IF ~ok' /\ Retryable(code) /\ AttemptsLeft /\ clock' < call.timeout
             THEN "backoff" ELSE "returned"
  /\ UNCHANGED <<call, attempt, transfer, answer, client, heardBefore>>

Backoff ==
  /\ pc = "backoff"
  /\ clock' = clock + Pause
  /\ pc' = "attempt"
  /\ UNCHANGED <<call, attempt, transfer, answer, text, curlCode, result, client, heardBefore>>

-----------------------------------------------------------------------------

ServerSends ==
  \/ \E status \in Statuses \ {"none"} : StatusLine(status)
  \/ \E delta \in Deltas, accepted, finished, wellFormed \in BOOLEAN :
       Delta(delta, accepted, finished, wellFormed)
  \/ \E finished, wellFormed \in BOOLEAN : OtherEvent(finished, wellFormed)
  \/ DoneMarker
  \/ ErrorEvent

Advance ==
  \/ Setup \/ DeadlinePassed \/ BeginAttempt \/ Backoff
  \/ \E code \in CurlCodes \ {"none"}, parsed \in BOOLEAN, d \in 0..TransferBudget :
       EndTransfer(code, parsed, d)

Returned == pc = "returned" /\ UNCHANGED vars

Next == ServerSends \/ Advance \/ Returned

Spec == Init /\ [][Next]_vars

\* The thread keeps running, and curl ends a transfer by CURLOPT_TIMEOUT_MS.
FairSpec == Spec /\ WF_vars(Advance)

-----------------------------------------------------------------------------
(* Properties *)

\* Every variable has its type.
TypeOK ==
  /\ call \in Calls
  /\ pc \in Pcs
  /\ attempt \in Nat
  /\ clock \in Nat
  /\ http \in Statuses
  /\ sent \in [deltas : 0..MaxDeltas, content : Nat, arguments : Seq(Characters),
              altered : BOOLEAN]
  /\ sent.content <= sent.deltas
  /\ complete \in BOOLEAN
  /\ text \in [content : 0..MaxDeltas, arguments : Seq(Characters)]
  /\ sawEvent \in BOOLEAN
  /\ sawDone \in BOOLEAN
  /\ streamError \in BOOLEAN
  /\ ok \in BOOLEAN
  /\ refused \in BOOLEAN
  /\ parserError \in {"none", "malformed", "cancelled"}
  /\ curlCode \in CurlCodes
  /\ error \in Errors
  /\ delivered \in Nat
  /\ heardBefore \in Nat

\* All attempts and pauses together fit in the backend's timeout_seconds: the
\* budget is the call's, not each attempt's.
DeadlineKept == clock <= call.timeout

\* A call makes retry_attempts + 1 attempts at most.
AttemptsBounded == attempt <= MaxAttempts

\* A returned call succeeded or says why not, never both, whichever of the
\* many exits it took and whatever an earlier attempt had left in the result.
OutcomeExplained == pc = "returned" => (ok <=> error = "none")

\* Success means a complete answer of one attempt: status 200, no error event,
\* a completion marker or a JSON body; its text holds the content of every delta
\* of that attempt and none of an abandoned one, and a stream was handed them
\* all.  Its tool-call arguments are the fragments of that attempt put together,
\* but where one repeated all that came before it, or came as an object:
\* apply_stream_delta does not append such a one.
SuccessIsComplete ==
  pc = "returned" /\ ok =>
    /\ http = "200" /\ curlCode = "ok" /\ ~streamError /\ ~refused
    /\ sawEvent => /\ complete
                   /\ text.content = sent.content
                   /\ ~sent.altered => text.arguments = sent.arguments
                   /\ call.streaming => delivered = heardBefore + sent.deltas

\* An attempt is repeated only for what a retry may cure: a connection that
\* was not made or was cut, or a gateway's 502, 503 or 504; not for another
\* status, an answer that is malformed or holds an error, a client that left;
\* and never once the attempts that the settings allow have been made.
RetryMayHelp ==
  [][attempt' # attempt /\ attempt > 0 =>
       /\ attempt < MaxAttempts
       /\ ~refused
       /\ parserError = "none"
       /\ curlCode = "retryable" \/ (curlCode = "ok" /\ http = "gateway")]_vars

\* The call returns within its deadline's worth of attempts and pauses.
CallReturns == <>(pc = "returned")

\* What the executor relies on of a backend call.
Backend == INSTANCE BackendCall WITH
  status <- IF pc # "returned" THEN "running" ELSE IF ok THEN "ok" ELSE "failed",
  delivered <- delivered,
  refused <- refused

\* No delta after a refused one, no success after it, one outcome: the call
\* implements BackendCall.
ImplementsBackendCall == Backend!Spec

-----------------------------------------------------------------------------
(* The inductive invariant of CloudClientProofs *)

\* What the retry loop knows at its head: the last attempt, if there was one,
\* ended in a way a retry may cure, and there is an attempt left.
RetryInv ==
  /\ attempt <= MaxAttempts
  /\ pc = "setup" => attempt = 0
  /\ pc \in {"setup", "attempt", "backoff"} =>
       /\ attempt < MaxAttempts
       /\ ~refused
       /\ parserError = "none"
       /\ attempt > 0 => curlCode = "retryable" \/ (curlCode = "ok" /\ http = "gateway")

\* What the callback keeps while a transfer runs.
TransferInv ==
  pc = "perform" =>
    /\ sawDone <=> complete
    /\ refused => parserError = "cancelled"
    /\ parserError = "none" =>
         /\ text.content = sent.content
         /\ ~sent.altered => text.arguments = sent.arguments
         /\ call.streaming => delivered = heardBefore + sent.deltas

ResultInv ==
  /\ pc # "returned" => ~ok
  /\ OutcomeExplained
  /\ SuccessIsComplete

IInv == TypeOK /\ DeadlineKept /\ RetryInv /\ TransferInv /\ ResultInv

-----------------------------------------------------------------------------
\* What the repository says of the program and the code does not keep.

\* After the first streamed delta errors are surfaced in the stream: no
\* attempt begins once the client has heard one.
ErrorsSurfaceAfterFirstDelta == heardBefore = 0
=============================================================================
