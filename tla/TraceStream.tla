----------------------------- MODULE TraceStream -----------------------------
(***************************************************************************)
(* The trace of the requests that are being answered                       *)
(* (telemetry/trace_registry.cpp) and one client of GET /trace/stream      *)
(* (apps/seceda_edge_daemon/main.cpp) who follows it.                      *)
(*                                                                         *)
(* push_event draws an id, appends under events_mutex_, copies the         *)
(* callbacks under subscribers_mutex_ and calls them under no lock.  The   *)
(* handler of the stream reads the backlog first and subscribes then; its  *)
(* content provider drains the queue that the callback fills.  Each        *)
(* request is traced by one thread.                                        *)
(***************************************************************************)
EXTENDS Naturals, Sequences, FiniteSets, SequencesExt

CONSTANTS
  Requests,      \* the requests traced
  MaxPushes,     \* bound: trace events of one request
  Capacity,      \* event_capacity_ of the registry
  BacklogLimit,  \* events the stream's handler asks for
  Filters        \* the values of request_id on the stream's URL; "all" stands for none

ASSUME TraceConstantsAssumption ==
  /\ {MaxPushes, Capacity, BacklogLimit} \subseteq Nat \ {0}
  /\ Filters \subseteq Requests \cup {"all"}

VARIABLES
  nextId,      \* next_event_id_
  pc,          \* where each request's push_event stands
  current,     \* the event it pushes
  pushes,      \* request_sequence_numbers_
  events,      \* events_
  appended,    \* history: every event ever appended
  query,       \* parameters of the stream: request_id and since_id
  stream,      \* how far the stream's handler has got
  subscribed,  \* its callback is in subscribers_
  closed,      \* state->closed
  pending,     \* state->pending_events
  gone,        \* the client has disconnected
  written,     \* history: events written to the client
  backlog,     \* history: what the backlog brought
  tooOld,      \* history: matching events the backlog did not bring
  between      \* history: events that came after the backlog and before the subscription

trace == <<nextId, pc, current, pushes, events, appended>>
vars == <<trace, query, stream, subscribed, closed, pending, gone, written, backlog, tooOld,
          between>>

NoEvent == [request |-> "none", seq |-> 0, id |-> 0]
Matches(e) == query.request = "all" \/ query.request = e.request

Init ==
  /\ nextId = 1
  /\ pc = [r \in Requests |-> "idle"]
  /\ current = [r \in Requests |-> NoEvent]
  /\ pushes = [r \in Requests |-> 0]
  /\ events = <<>>
  /\ appended = <<>>
  /\ query \in [request : Filters, since : 0..1]
  /\ stream = "none"
  /\ subscribed = FALSE
  /\ closed = FALSE
  /\ pending = <<>>
  /\ gone = FALSE
  /\ written = <<>>
  /\ backlog = <<>>
  /\ tooOld = {}
  /\ between = {}

-----------------------------------------------------------------------------
(* TraceRegistry::push_event, on the thread of a request *)

DrawTraceId(r) ==
  /\ pc[r] = "idle"
  /\ pushes[r] < MaxPushes
  /\ pc' = [pc EXCEPT ![r] = "numbered"]
  /\ current' = [current EXCEPT ![r] = [request |-> r, seq |-> 0, id |-> nextId]]
  /\ nextId' = nextId + 1
  /\ UNCHANGED <<pushes, events, appended, query, stream, subscribed, closed, pending, gone,
                 written, backlog, tooOld, between>>

\* The ring drops its oldest events.
Trimmed_OneTooMany(grown) == IF Len(grown) > Capacity + 1 THEN Tail(grown) ELSE grown
Trimmed(grown) == IF Len(grown) > Capacity THEN Tail(grown) ELSE grown

AppendTrace(r) ==
  LET e == [current[r] EXCEPT !.seq = pushes[r] + 1]
  IN /\ pc[r] = "numbered"
     /\ pc' = [pc EXCEPT ![r] = "logged"]
     /\ current' = [current EXCEPT ![r] = e]
     /\ pushes' = [pushes EXCEPT ![r] = @ + 1]
     /\ events' = Trimmed(Append(events, e))
     /\ appended' = Append(appended, e)
     /\ between' = IF stream = "read" THEN between \cup {e} ELSE between
     /\ UNCHANGED <<nextId, query, stream, subscribed, closed, pending, gone, written, backlog,
                    tooOld>>

\* The copy of the callbacks that are to be called with the event.
CopySubscribers(r) ==
  /\ pc[r] = "logged"
  /\ pc' = [pc EXCEPT ![r] = IF subscribed /\ Matches(current[r]) THEN "copied" ELSE "idle"]
  /\ between' = IF subscribed THEN between \ {current[r]} ELSE between
  /\ UNCHANGED <<nextId, current, pushes, events, appended, query, stream, subscribed, closed,
                 pending, gone, written, backlog, tooOld>>

\* The stream's callback; it may be called after unsubscribe.
CallSubscriber_EvenClosed(r) ==
  /\ pc[r] = "copied"
  /\ pc' = [pc EXCEPT ![r] = "idle"]
  /\ pending' = Append(pending, current[r])
  /\ UNCHANGED <<nextId, current, pushes, events, appended, query, stream, subscribed, closed,
                 gone, written, backlog, tooOld, between>>
CallSubscriber(r) ==
  /\ pc[r] = "copied"
  /\ pc' = [pc EXCEPT ![r] = "idle"]
  /\ pending' = IF closed THEN pending ELSE Append(pending, current[r])
  /\ UNCHANGED <<nextId, current, pushes, events, appended, query, stream, subscribed, closed,
                 gone, written, backlog, tooOld, between>>

-----------------------------------------------------------------------------
(* The handler of GET /trace/stream *)

\* get_events: the places of the ring that lie beyond since_id and match, and of
\* these the first ones, up to the limit.
Found_OneBeyond ==
  {i \in DOMAIN events : events[i].id > query.since + 1 /\ Matches(events[i])}
Found == {i \in DOMAIN events : events[i].id > query.since /\ Matches(events[i])}
Rank(places, i) == Cardinality({j \in places : j <= i})
Taken == {i \in Found : Rank(Found, i) <= BacklogLimit}

\* What the places hold, in their order.
InOrder(places) ==
  [k \in 1..Cardinality(places) |-> events[CHOOSE i \in places : Rank(places, i) = k]]

ReadBacklog ==
  /\ stream = "none"
  /\ stream' = "read"
  /\ pending' = InOrder(Taken)
  /\ backlog' = InOrder(Taken)
  /\ tooOld' = {events[i] : i \in Found \ Taken} \cup (ToSet(appended) \ ToSet(events))
  /\ UNCHANGED <<trace, query, subscribed, closed, gone, written, between>>

Subscribe ==
  /\ stream = "read"
  /\ stream' = "open"
  /\ subscribed' = TRUE
  /\ UNCHANGED <<trace, query, closed, pending, gone, written, backlog, tooOld, between>>

\* One round of the content provider with an event in the queue.
WriteEvent_Newest ==
  /\ stream = "open"
  /\ pending # <<>>
  /\ ~gone
  /\ pending' = Front(pending)
  /\ written' = Append(written, Last(pending))
  /\ UNCHANGED <<trace, query, stream, subscribed, closed, gone, backlog, tooOld, between>>
WriteEvent_AllButOne ==
  /\ stream = "open"
  /\ Len(pending) > 1
  /\ ~gone
  /\ pending' = Tail(pending)
  /\ written' = Append(written, Head(pending))
  /\ UNCHANGED <<trace, query, stream, subscribed, closed, gone, backlog, tooOld, between>>
WriteEvent ==
  /\ stream = "open"
  /\ pending # <<>>
  /\ ~gone
  /\ pending' = Tail(pending)
  /\ written' = Append(written, Head(pending))
  /\ UNCHANGED <<trace, query, stream, subscribed, closed, gone, backlog, tooOld, between>>

\* The provider ends: the client is gone, or sending the event it has taken
\* fails.  The event is lost with the stream.
EndProvider ==
  /\ stream = "open"
  /\ gone \/ pending # <<>>
  /\ stream' = "ended"
  /\ pending' = IF pending = <<>> THEN pending ELSE Tail(pending)
  /\ UNCHANGED <<trace, query, subscribed, closed, gone, written, backlog, tooOld, between>>

\* The releaser of the content provider: first closed, then unsubscribe.
Close ==
  /\ stream = "ended"
  /\ ~closed
  /\ closed' = TRUE
  /\ UNCHANGED <<trace, query, stream, subscribed, pending, gone, written, backlog, tooOld,
                 between>>

Unsubscribe ==
  /\ closed
  /\ subscribed
  /\ subscribed' = FALSE
  /\ UNCHANGED <<trace, query, stream, closed, pending, gone, written, backlog, tooOld,
                 between>>

ClientLeaves ==
  /\ ~gone
  /\ gone' = TRUE
  /\ UNCHANGED <<trace, query, stream, subscribed, closed, pending, written, backlog, tooOld,
                 between>>

-----------------------------------------------------------------------------

Push(r) == DrawTraceId(r) \/ AppendTrace(r) \/ CopySubscribers(r) \/ CallSubscriber(r)
Handler == ReadBacklog \/ Subscribe \/ WriteEvent \/ EndProvider \/ Close \/ Unsubscribe

Quiet ==
  /\ \A r \in Requests : pc[r] = "idle" /\ pushes[r] = MaxPushes
  /\ (stream = "open" /\ pending = <<>>) \/ (closed /\ ~subscribed)
  /\ UNCHANGED vars

Next == \/ \E r \in Requests : Push(r)
        \/ Handler
        \/ ClientLeaves
        \/ Quiet

Spec == Init /\ [][Next]_vars

\* The stream's thread runs on, and notices that its client is gone: cv.wait_for
\* wakes it each second, notified or not.  A sending that fails is no duty.
FairSpec == Spec /\ WF_vars(ReadBacklog \/ Subscribe \/ WriteEvent \/ (gone /\ EndProvider)
                              \/ Close \/ Unsubscribe)

-----------------------------------------------------------------------------
(* Properties *)

Event == [request : Requests \cup {"none"}, seq : 0..MaxPushes, id : Nat]

\* Every variable has its type; the ring keeps its capacity.
TypeOK ==
  /\ nextId \in Nat
  /\ pc \in [Requests -> {"idle", "numbered", "logged", "copied"}]
  /\ current \in [Requests -> Event]
  /\ pushes \in [Requests -> 0..MaxPushes]
  /\ Len(events) <= Capacity
  /\ ToSet(events) \cup ToSet(appended) \cup ToSet(pending) \cup ToSet(written)
       \cup ToSet(backlog) \cup tooOld \cup between \subseteq Event
  /\ query \in [request : Filters, since : Nat]
  /\ stream \in {"none", "read", "open", "ended"}
  /\ subscribed \in BOOLEAN /\ closed \in BOOLEAN /\ gone \in BOOLEAN

\* What the client has been sent and, while the stream is open, is going to be.
Heard == IF stream = "ended" THEN written ELSE written \o pending

\* A client sees the events of a request in their order.  It may see one
\* twice: in the backlog and, as it was still being dispatched when the
\* stream subscribed, once more after it.
StreamInOrder ==
  \A i, j \in DOMAIN Heard :
    i < j /\ Heard[i].request = Heard[j].request =>
      \/ Heard[i].seq < Heard[j].seq
      \/ Heard[i] = Heard[j] /\ i <= Len(backlog) /\ Len(backlog) < j

\* An event whose push is over has been queued for an open stream, unless it
\* lies before since_id, had left the ring or was beyond the limit when the
\* backlog was read, or was pushed between the backlog and the subscription.
StreamMissesForAKnownReason ==
  stream = "open" =>
    \A e \in ToSet(appended) :
      Matches(e) /\ (e = current[e.request] => pc[e.request] = "idle") =>
        \/ e \in ToSet(Heard)
        \/ e.id <= query.since
        \/ e \in tooOld
        \/ e \in between

\* A callback that comes after the stream was closed leaves its queue alone,
\* although nothing waits for callbacks that are under way.
NothingAfterClose == [][closed => pending' = pending]_vars

\* What is queued is written, however busy the requests are, unless the
\* stream ends.
QueuedEventIsWritten ==
  \A r \in Requests, n \in 1..MaxPushes :
    (\E e \in ToSet(pending) : e.request = r /\ e.seq = n) ~>
      \/ \E e \in ToSet(written) : e.request = r /\ e.seq = n
      \/ stream = "ended"

-----------------------------------------------------------------------------
(* The inductive invariant of TraceStreamProofs *)

\* The sequences hold events, and what the client is to hear was appended.
SequencesInv ==
  /\ {events, appended, pending, written, backlog} \subseteq Seq(Event)
  /\ ToSet(Heard) \subseteq ToSet(appended)

\* The ring is the end of what was appended.
RingInv ==
  /\ Len(events) <= Len(appended)
  /\ \A i \in DOMAIN events : events[i] = appended[Len(appended) - Len(events) + i]

\* The events of a request are numbered in the order in which they are appended.
NumberInv ==
  /\ \A i \in DOMAIN appended :
       appended[i].request \in Requests /\ appended[i].seq <= pushes[appended[i].request]
  /\ \A i, j \in DOMAIN appended :
       i < j /\ appended[i].request = appended[j].request => appended[i].seq < appended[j].seq

\* The push of a request is at its latest event.
PushInv ==
  \A r \in Requests :
    /\ pc[r] = "numbered" => current[r].request = r /\ pushes[r] < MaxPushes
    /\ pc[r] \in {"logged", "copied"} =>
         /\ current[r] \in ToSet(appended)
         /\ current[r].request = r
         /\ current[r].seq = pushes[r]
         /\ \A k \in DOMAIN Heard :
              k > Len(backlog) /\ Heard[k].request = r => Heard[k].seq < pushes[r]

\* How far the handler has got.
StageInv ==
  /\ stream \in {"none", "read"} =>
       written = <<>> /\ ~subscribed /\ \A r \in Requests : pc[r] # "copied"
  /\ stream = "none" => pending = <<>> /\ backlog = <<>>
  /\ stream = "read" => pending = backlog
  /\ stream = "open" => subscribed
  /\ closed => stream = "ended"
  /\ stream # "ended" => Len(backlog) <= Len(Heard)

\* What a stream that has read its backlog misses, before the event that is on its
\* way to it.
MissInv ==
  stream \in {"read", "open"} =>
    \A e \in ToSet(appended) :
      Matches(e) =>
        \/ e \in ToSet(Heard)
        \/ e.id <= query.since
        \/ e \in tooOld \cup between
        \/ stream = "open" /\ e = current[e.request] /\ pc[e.request] \in {"logged", "copied"}

StreamInv ==
  /\ TypeOK /\ SequencesInv /\ RingInv /\ NumberInv /\ PushInv /\ StageInv
  /\ StreamInOrder /\ MissInv
=============================================================================
