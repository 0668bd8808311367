-------------------------- MODULE ExecutionHistory --------------------------
(***************************************************************************)
(* The log of finished executions that MetricsRegistry keeps               *)
(* (telemetry/metrics_registry.cpp) and the operator console that follows  *)
(* it by polling GET /metrics/events (seceda_tui, observability.tsx and    *)
(* mergeExecutionHistory).                                                 *)
(*                                                                         *)
(* Worker threads finish at once: push_event draws the event's id from an  *)
(* atomic counter before it takes events_mutex_ to append, so the log need *)
(* not be in the order of ids.  The console keeps a cursor, the highest    *)
(* latest_id it was told, and asks for what lies beyond it.                *)
(***************************************************************************)
EXTENDS Naturals, Sequences, FiniteSets

CONSTANTS
  Executions,  \* the executions of a behaviour
  Capacity,    \* event_capacity_
  Limit,       \* events the console asks for at a time
  MaxItems,    \* rows the console keeps
  MaxRestarts  \* bound: restarts of the daemon

ASSUME SizesAssumption ==
  /\ {Capacity, Limit, MaxItems} \subseteq Nat \ {0}
  /\ MaxRestarts \in Nat
ASSUME ExecutionsAssumption == IsFiniteSet(Executions)

VARIABLES
  nextId,    \* next_event_id_
  pc,        \* where each execution's push_event stands
  id,        \* the id each execution drew
  log,       \* events_
  appended,  \* history: every event the running daemon has appended
  restarts,  \* restarts so far
  reply,     \* the answer to the console's poll, if one is under way
  cursor,    \* history.sinceId of the console
  rows,      \* history.executions of the console
  listed,    \* history: executions that have had a row
  cutOff     \* history: executions a poll left out for its limit

vars == <<nextId, pc, id, log, appended, restarts, reply, cursor, rows, listed, cutOff>>

daemon == <<nextId, pc, id, log, appended, restarts>>
console == <<reply, cursor, rows, listed, cutOff>>

Elements(s) == {s[i] : i \in DOMAIN s}
Smaller(m, n) == IF m < n THEN m ELSE n
Larger(m, n) == IF m < n THEN n ELSE m

NoReply == [latest |-> 0, events |-> {}, open |-> FALSE]

Init ==
  /\ nextId = 1
  /\ pc = [e \in Executions |-> "running"]
  /\ id = [e \in Executions |-> 0]
  /\ log = <<>>
  /\ appended = <<>>
  /\ restarts = 0
  /\ reply = NoReply
  /\ cursor = 0
  /\ rows = {}
  /\ listed = {}
  /\ cutOff = {}

-----------------------------------------------------------------------------
(* MetricsRegistry *)

\* push_event before the mutex.
DrawId(e) ==
  /\ pc[e] = "running"
  /\ pc' = [pc EXCEPT ![e] = "numbered"]
  /\ id' = [id EXCEPT ![e] = nextId]
  /\ nextId' = nextId + 1
  /\ UNCHANGED <<log, appended, restarts, console>>

\* The ring under the mutex drops its oldest events.
Newest_DropLast(s) == SubSeq(s, 1, Smaller(Len(s), Capacity))
Newest_OneTooMany(s) == SubSeq(s, Len(s) - Smaller(Len(s), Capacity + 1) + 1, Len(s))
Newest(s) == SubSeq(s, Len(s) - Smaller(Len(s), Capacity) + 1, Len(s))

AppendEvent(e) ==
  /\ pc[e] = "numbered"
  /\ pc' = [pc EXCEPT ![e] = "logged"]
  /\ log' = Newest(Append(log, e))
  /\ appended' = Append(appended, e)
  /\ UNCHANGED <<nextId, id, restarts, console>>

\* The log lives in memory: a new daemon starts with an empty one, at id 1.
Restart ==
  /\ restarts < MaxRestarts
  /\ restarts' = restarts + 1
  /\ nextId' = 1
  /\ log' = <<>>
  /\ appended' = <<>>
  /\ pc' = [e \in Executions |-> IF pc[e] = "numbered" THEN "lost" ELSE pc[e]]
  /\ UNCHANGED <<id, console>>

\* get_events: the places of the log that lie beyond the cursor, and the events
\* of the oldest of them, up to the limit.
Beyond(since) == {i \in DOMAIN log : id[log[i]] > since}
Batch(since) ==
  {log[i] : i \in {j \in Beyond(since) :
                    Cardinality({k \in Beyond(since) : k < j}) < Limit}}
LatestId_LastDrawn == nextId - 1
LatestId == IF log = <<>> THEN 0 ELSE id[log[Len(log)]]

-----------------------------------------------------------------------------
(* The console *)

Fetch ==
  /\ ~reply.open
  /\ reply' = [latest |-> LatestId, events |-> Batch(cursor), open |-> TRUE]
  /\ cutOff' = cutOff \cup ({log[i] : i \in Beyond(cursor)} \ Batch(cursor))
  /\ UNCHANGED <<daemon, cursor, rows, listed>>

\* The rows with the highest ids, by which they are sorted.
TopRows_Lowest(es) == {e \in es : Cardinality({f \in es : id[f] < id[e]}) < MaxItems}
TopRows(es) == {e \in es : Cardinality({f \in es : id[f] > id[e]}) < MaxItems}

\* Rows are keyed by the event's id: an event takes the place of its namesake.
Merge ==
  LET new == reply.events
      old == {e \in rows : \A f \in new : id[f] # id[e]}
  IN /\ reply.open
     /\ rows' = TopRows(old \cup new)
     /\ listed' = listed \cup new
     /\ cursor' = Larger(cursor, reply.latest)
     /\ reply' = NoReply
     /\ UNCHANGED <<daemon, cutOff>>

\* The request fails, or the screen is left before the answer: it is dropped.
PollFails_AdvanceCursor ==
  /\ reply.open
  /\ reply' = NoReply
  /\ cursor' = Larger(cursor, reply.latest)
  /\ UNCHANGED <<daemon, rows, listed, cutOff>>
PollFails ==
  /\ reply.open
  /\ reply' = NoReply
  /\ UNCHANGED <<daemon, cursor, rows, listed, cutOff>>

-----------------------------------------------------------------------------

Next ==
  \/ \E e \in Executions : DrawId(e) \/ AppendEvent(e)
  \/ Restart
  \/ Fetch
  \/ Merge
  \/ PollFails

Spec == Init /\ [][Next]_vars

\* The console polls for ever and not every poll fails.
FairSpec == Spec /\ WF_vars(Fetch) /\ SF_vars(Merge)

-----------------------------------------------------------------------------
(* Properties *)

\* Every variable has its type.
TypeOK ==
  /\ nextId \in 1..(Cardinality(Executions) + 1)
  /\ pc \in [Executions -> {"running", "numbered", "logged", "lost"}]
  /\ id \in [Executions -> Nat]
  /\ log \in Seq(Executions) /\ Len(log) <= Capacity
  /\ appended \in Seq(Executions)
  /\ restarts \in 0..MaxRestarts
  /\ reply.latest \in Nat /\ reply.events \subseteq Executions /\ reply.open \in BOOLEAN
  /\ cursor \in Nat
  /\ rows \subseteq Executions /\ listed \subseteq Executions /\ cutOff \subseteq Executions

\* An event whose id was drawn before that of one already in the log.
Overtaken(e) ==
  \E i, j \in DOMAIN appended :
    i < j /\ appended[j] = e /\ id[appended[i]] > id[e]

\* The ring holds the events that were appended last, however many threads
\* append at once.
LogHoldsTheNewest ==
  /\ Len(log) = Smaller(Len(appended), Capacity)
  /\ \A i \in DOMAIN log : log[i] = appended[Len(appended) - Len(log) + i]

\* With one run of the daemon, an event that the cursor has passed is missing
\* from the console for one of two reasons only: a poll left it out for its
\* limit, or it was appended after an event with a higher id.
MissedForAKnownReason ==
  restarts = 0 =>
    \A e \in Elements(log) :
      id[e] <= cursor /\ e \notin listed => e \in cutOff \/ Overtaken(e)

\* With one run of the daemon, the rows are those of highest id among all the
\* console has ever been sent, in whatever batches they came.
RowsAreTheNewest ==
  restarts = 0 =>
    /\ rows \subseteq listed
    /\ Cardinality(rows) = Smaller(Cardinality(listed), MaxItems)
    /\ \A e \in rows, f \in listed \ rows : id[f] < id[e]

\* Neither the console nor a reply still under way is past an event.
AheadOfConsole(e) == id[e] > cursor /\ (reply.open => id[e] > reply.latest)

\* An event of the log gets its row, unless the ring or a limit drops it or a
\* higher id overtakes it. A restarted daemon draws its ids from 1 again while
\* the console keeps its cursor: then this holds of the ids that have got past
\* what the console knew of the run before.
LoggedEventIsListed ==
  \A e \in Executions :
    (e \in Elements(log) /\ (restarts = 0 \/ AheadOfConsole(e))) ~>
      \/ e \in listed \cup cutOff
      \/ e \notin Elements(log)
      \/ Overtaken(e)

-----------------------------------------------------------------------------
(* The inductive invariant of ExecutionHistoryProofs *)

Drawn == {e \in Executions : pc[e] # "running"}
Logged == {e \in Executions : pc[e] = "logged"}

\* Only what was appended is in the log, in a reply or a row.
FlowInv ==
  /\ Elements(appended) \cup reply.events \cup listed \subseteq Logged
  /\ nextId <= Cardinality(Drawn) + 1

\* One run of the daemon gives every event an id of its own.
IdInv ==
  restarts = 0 =>
    /\ \A e \in Drawn : id[e] \in 1..(nextId - 1)
    /\ \A e, f \in Drawn : id[e] = id[f] => e = f

\* The console knows no id but those of events that were appended.
CursorInv ==
  restarts = 0 =>
    \A n \in {cursor, reply.latest} : n = 0 \/ \E e \in Elements(appended) : id[e] = n

\* What a reply's latest id passes it brings, unless it is known already.
ReplyInv ==
  restarts = 0 /\ reply.open =>
    \A e \in Elements(log) :
      id[e] <= reply.latest =>
        id[e] <= cursor \/ e \in reply.events \cup cutOff \/ Overtaken(e)

HistoryInv ==
  /\ TypeOK /\ LogHoldsTheNewest /\ FlowInv /\ IdInv /\ CursorInv /\ ReplyInv
  /\ MissedForAKnownReason /\ RowsAreTheNewest

-----------------------------------------------------------------------------
\* What the repository says of the program and the code does not keep.

\* "History updated through event" the cursor: of the events that were appended
\* in the order of their ids, all up to the cursor have had a row.
HistoryIsCompleteUpToCursor ==
  \A e \in Elements(log) : id[e] <= cursor /\ ~Overtaken(e) => e \in listed
=============================================================================
