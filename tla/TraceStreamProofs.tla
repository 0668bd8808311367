-------------------------- MODULE TraceStreamProofs --------------------------
(***************************************************************************)
(* Proofs about TraceStream: what the client of a trace stream is sent     *)
(* comes in the order of each request, whatever the interleaving of the    *)
(* pushes with the backlog and the subscription, and what it misses it     *)
(* misses for a known reason.                                              *)
(***************************************************************************)
EXTENDS TraceStream, FiniteSetTheorems, TLAPS

-----------------------------------------------------------------------------
(* The places of a backlog and their order *)

\* The ranks of n places are 1 to n, each taken once, in the order of the places.
LEMMA Ranks ==
  ASSUME NEW n \in Nat, NEW places \in SUBSET (1..n)
  PROVE  /\ Cardinality(places) \in Nat
         /\ \A i \in places : Rank(places, i) \in 1..Cardinality(places)
         /\ \A i, j \in places : i < j => Rank(places, i) < Rank(places, j)
         /\ \A k \in 1..Cardinality(places) : \E i \in places : Rank(places, i) = k
<1> DEFINE Upto(i) == {j \in places : j <= i}
           rank == [i \in places |-> Rank(places, i)]
           size == Cardinality(places)
<1>1. IsFiniteSet(places) /\ Cardinality(places) \in Nat /\ places \subseteq Nat
  <2>1. IsFiniteSet(1..n)
    BY FS_Interval
  <2>2. IsFiniteSet(places)
    BY <2>1, FS_Subset
  <2> QED
    BY <2>2, FS_CardinalityType
<1>2. ASSUME NEW i \in places
      PROVE  IsFiniteSet(Upto(i)) /\ Rank(places, i) \in 1..size
  <2>1. IsFiniteSet(Upto(i)) /\ Cardinality(Upto(i)) <= size
    <3>1. Upto(i) \subseteq places
      OBVIOUS
    <3> QED
      BY <1>1, <3>1, FS_Subset
  <2>2. Cardinality(Upto(i)) \in Nat /\ Cardinality(Upto(i)) # 0
    <3>1. i \in Upto(i)
      OBVIOUS
    <3> QED
      BY <2>1, <3>1, FS_CardinalityType, FS_EmptySet
  <2> QED
    BY <1>1, <2>1, <2>2 DEF Rank
<1>3. ASSUME NEW i \in places, NEW j \in places, i < j
      PROVE  Rank(places, i) < Rank(places, j)
  <2>1. Upto(i) \subseteq Upto(j) /\ j \in Upto(j) /\ j \notin Upto(i)
    <3>1. i \in Nat /\ j \in Nat
      BY <1>1
    <3>2. \A k \in places : k <= i => k <= j
      BY <1>1, <1>3, <3>1
    <3>3. Upto(i) \subseteq Upto(j)
      BY <3>2
    <3>4. j \in Upto(j) /\ j \notin Upto(i)
      BY <1>3, <3>1
    <3> QED
      BY <3>3, <3>4
  <2>2. Cardinality(Upto(i)) <= Cardinality(Upto(j))
        /\ (Cardinality(Upto(i)) = Cardinality(Upto(j)) => Upto(i) = Upto(j))
    BY <1>2, <2>1, FS_Subset
  <2>3. Cardinality(Upto(i)) \in Nat /\ Cardinality(Upto(j)) \in Nat
    BY <1>2, FS_CardinalityType
  <2> QED
    BY <2>1, <2>2, <2>3 DEF Rank
<1>4. rank \in Injection(places, 1..size)
  <2>1. rank \in [places -> 1..size]
    BY <1>2
  <2>2. ASSUME NEW i \in places, NEW j \in places, rank[i] = rank[j]
        PROVE  i = j
    <3>1. Rank(places, i) = Rank(places, j)
      BY <2>2
    <3>2. Rank(places, i) \in Nat /\ Rank(places, j) \in Nat
      <4> HIDE DEF Upto
      <4> QED
        BY <1>1, <1>2
    <3> QED
      BY <1>1, <1>3, <3>1, <3>2
  <2> QED
    BY <2>1, <2>2 DEF Injection, IsInjective
<1>5. rank \in Surjection(places, 1..size)
  <2>1. IsFiniteSet(1..size) /\ Cardinality(1..size) = size
    BY <1>1, FS_Interval
  <2> QED
    BY <1>4, <2>1, FS_Injection
<1>6. ASSUME NEW k \in 1..size
      PROVE  \E i \in places : Rank(places, i) = k
  <2>1. \E i \in places : rank[i] = k
    BY <1>5 DEF Surjection
  <2> QED
    BY <2>1
<1> QED
  BY <1>1, <1>2, <1>3, <1>6

\* A backlog holds what its places hold, in their order.
LEMMA Ordered ==
  ASSUME events \in Seq(Event), NEW places \in SUBSET (DOMAIN events)
  PROVE  /\ InOrder(places) \in Seq(Event)
         /\ \A k \in DOMAIN InOrder(places) : \E i \in places : InOrder(places)[k] = events[i]
         /\ \A k, l \in DOMAIN InOrder(places) :
              k < l => \E i, j \in places :
                         /\ i < j
                         /\ InOrder(places)[k] = events[i] /\ InOrder(places)[l] = events[j]
         /\ \A i \in places : \E k \in DOMAIN InOrder(places) : InOrder(places)[k] = events[i]
<1> DEFINE place(k) == CHOOSE i \in places : Rank(places, i) = k
           size == Cardinality(places)
<1>1. Len(events) \in Nat /\ places \in SUBSET (1..Len(events))
  OBVIOUS
<1>2. /\ size \in Nat
      /\ \A i \in places : Rank(places, i) \in 1..size
      /\ \A i, j \in places : i < j => Rank(places, i) < Rank(places, j)
      /\ \A k \in 1..size : \E i \in places : Rank(places, i) = k
  BY <1>1, Ranks
<1>0. DOMAIN InOrder(places) = 1..size
  BY DEF InOrder
<1>3. ASSUME NEW k \in 1..size
      PROVE  /\ place(k) \in places /\ Rank(places, place(k)) = k
             /\ InOrder(places)[k] = events[place(k)]
  <2>1. \E i \in places : Rank(places, i) = k
    BY <1>1, Ranks
  <2> QED
    BY <2>1 DEF InOrder
<1>4. InOrder(places) \in Seq(Event)
  <2>1. \A k \in 1..size : events[place(k)] \in Event
    BY <1>1, <1>3
  <2>2. InOrder(places) = [k \in 1..size |-> events[place(k)]]
    BY DEF InOrder
  <2> HIDE DEF place, size
  <2> QED
    BY <1>2, <2>1, <2>2
<1>5. ASSUME NEW k \in 1..size, NEW l \in 1..size, k < l
      PROVE  place(k) < place(l)
  <2>1. place(k) \in Nat /\ place(l) \in Nat
    BY <1>1, <1>3
  <2>2. ~(place(l) < place(k)) /\ place(k) # place(l)
    <3>1. place(l) < place(k) => Rank(places, place(l)) < Rank(places, place(k))
      BY <1>1, <1>3, Ranks
    <3> HIDE DEF place, size
    <3> QED
      BY <1>2, <1>3, <1>5, <3>1
  <2> HIDE DEF place
  <2> QED
    BY <2>1, <2>2
<1>6. ASSUME NEW i \in places
      PROVE  \E k \in 1..size : InOrder(places)[k] = events[i]
  <2>1. Rank(places, i) \in 1..size
    BY <1>1, Ranks
  <2>2. place(Rank(places, i)) = i
    <3>1. /\ place(Rank(places, i)) \in places
          /\ Rank(places, place(Rank(places, i))) = Rank(places, i)
      BY <1>3, <2>1
    <3>2. ASSUME NEW j \in places, Rank(places, j) = Rank(places, i)
          PROVE  ~(i < j) /\ ~(j < i)
      <4>1. Rank(places, i) \in Nat
        BY <1>2
      <4>2. i < j => Rank(places, i) < Rank(places, j)
        BY <1>2
      <4>3. j < i => Rank(places, j) < Rank(places, i)
        BY <1>2
      <4> QED
        BY <3>2, <4>1, <4>2, <4>3
    <3>3. place(Rank(places, i)) \in Nat /\ i \in Nat
      BY <1>1, <3>1
    <3>4. ~(i < place(Rank(places, i))) /\ ~(place(Rank(places, i)) < i)
      BY <3>1, <3>2
    <3> HIDE DEF place
    <3> QED
      BY <3>3, <3>4
  <2> QED
    BY <1>3, <2>1, <2>2
<1>7. \A k \in 1..size : \E i \in places : InOrder(places)[k] = events[i]
  BY <1>3
<1>8. ASSUME NEW k \in 1..size, NEW l \in 1..size, k < l
      PROVE  \E i, j \in places :
               i < j /\ InOrder(places)[k] = events[i] /\ InOrder(places)[l] = events[j]
  <2>1. place(k) \in places /\ place(l) \in places
        /\ InOrder(places)[k] = events[place(k)] /\ InOrder(places)[l] = events[place(l)]
    BY <1>3
  <2>2. place(k) < place(l)
    BY <1>5, <1>8
  <2> HIDE DEF place
  <2> QED
    BY <2>1, <2>2
<1> HIDE DEF place, size
<1>9. \A k \in DOMAIN InOrder(places) : \E i \in places : InOrder(places)[k] = events[i]
  BY <1>0, <1>7
<1>10. ASSUME NEW k \in DOMAIN InOrder(places), NEW l \in DOMAIN InOrder(places), k < l
       PROVE  \E i, j \in places :
                /\ i < j
                /\ InOrder(places)[k] = events[i] /\ InOrder(places)[l] = events[j]
  <2>1. k \in 1..size /\ l \in 1..size
    BY <1>0
  <2> QED
    BY <1>8, <1>10, <2>1
<1>11. \A i \in places : \E k \in DOMAIN InOrder(places) : InOrder(places)[k] = events[i]
  BY <1>0, <1>6, Zenon
<1> QED
  BY <1>4, <1>9, <1>10, <1>11

-----------------------------------------------------------------------------
(* Sequences of events *)

\* What is in a sequence has a place there.
LEMMA InSequence ==
  ASSUME NEW s, NEW e
  PROVE  e \in ToSet(s) <=> \E i \in DOMAIN s : s[i] = e
BY DEF ToSet

\* One more event joins those of a sequence.
LEMMA AppendAdds ==
  ASSUME NEW s \in Seq(Event), NEW e
  PROVE  ToSet(Append(s, e)) = ToSet(s) \cup {e}
<1>1. \A i \in 1..Len(s) : Append(s, e)[i] = s[i]
  OBVIOUS
<1>2. Append(s, e)[Len(s) + 1] = e /\ DOMAIN Append(s, e) = 1..(Len(s) + 1)
  OBVIOUS
<1>3. \A i \in 1..(Len(s) + 1) : i \in 1..Len(s) \/ i = Len(s) + 1
  OBVIOUS
<1>4. 1..Len(s) \subseteq 1..(Len(s) + 1) /\ Len(s) + 1 \in 1..(Len(s) + 1) /\ DOMAIN s = 1..Len(s)
  OBVIOUS
<1> HIDE DEF Event
<1> QED
  BY <1>1, <1>2, <1>3, <1>4 DEF ToSet

\* Sending the first event of the queue does not change what is heard.
LEMMA SendFirst ==
  ASSUME NEW s \in Seq(Event), NEW q \in Seq(Event), q # <<>>
  PROVE  /\ Append(s, Head(q)) \in Seq(Event) /\ Tail(q) \in Seq(Event)
         /\ Append(s, Head(q)) \o Tail(q) = s \o q
<1>1. Len(q) \in Nat \ {0} /\ Len(s) \in Nat
  OBVIOUS
<1>2. Head(q) = q[1] /\ Head(q) \in Event
  OBVIOUS
<1>3. Tail(q) \in Seq(Event) /\ Len(Tail(q)) = Len(q) - 1
      /\ \A i \in 1..(Len(q) - 1) : Tail(q)[i] = q[i + 1]
  OBVIOUS
<1>4. Append(s, Head(q)) \in Seq(Event) /\ Len(Append(s, Head(q))) = Len(s) + 1
      /\ (\A i \in 1..Len(s) : Append(s, Head(q))[i] = s[i])
      /\ Append(s, Head(q))[Len(s) + 1] = q[1]
  BY <1>2
<1> HIDE DEF Event
<1> DEFINE left == Append(s, Head(q)) \o Tail(q)
           right == s \o q
<1>5. left \in Seq(Event) /\ right \in Seq(Event)
  BY <1>3, <1>4
<1>6. Len(left) = Len(s) + Len(q) /\ Len(right) = Len(s) + Len(q)
  BY <1>1, <1>3, <1>4
<1>7. ASSUME NEW i \in 1..(Len(s) + Len(q)) PROVE left[i] = right[i]
  <2>1. CASE i <= Len(s)
    BY <1>1, <1>4, <2>1
  <2>2. CASE i = Len(s) + 1
    BY <1>1, <1>4, <2>2
  <2>3. CASE i > Len(s) + 1
    <3>1. i - Len(s) \in 1..Len(q) /\ right[i] = q[i - Len(s)]
      BY <1>1, <2>3
    <3>2. i - Len(s) - 1 \in 1..(Len(q) - 1)
          /\ left[i] = Tail(q)[i - Len(s) - 1]
      BY <1>1, <1>3, <1>4, <2>3
    <3> QED
      BY <1>1, <1>3, <3>1, <3>2
  <2> QED
    BY <1>1, <2>1, <2>2, <2>3
<1> HIDE DEF left, right
<1>8. left = right
  BY <1>5, <1>6, <1>7
<1> QED
  BY <1>3, <1>4, <1>8 DEF left, right

\* The ring holds events that were appended, those of a request in their order.
LEMMA RingOrdered ==
  ASSUME SequencesInv, RingInv, NumberInv
  PROVE  /\ ToSet(events) \subseteq ToSet(appended)
         /\ \A i, j \in DOMAIN events :
              i < j /\ events[i].request = events[j].request => events[i].seq < events[j].seq
<1> DEFINE off == Len(appended) - Len(events)
<1>1. /\ Len(events) \in Nat /\ DOMAIN events = 1..Len(events)
      /\ Len(appended) \in Nat /\ DOMAIN appended = 1..Len(appended)
  BY DEF SequencesInv
<1>2. \A i \in DOMAIN events : off + i \in DOMAIN appended /\ events[i] = appended[off + i]
  BY <1>1 DEF RingInv
<1>3. \A i, j \in DOMAIN events : i < j => off + i < off + j
  BY <1>1
<1> HIDE DEF off
<1>4. ToSet(events) \subseteq ToSet(appended)
  BY <1>2 DEF ToSet
<1>5. ASSUME NEW i \in DOMAIN events, NEW j \in DOMAIN events,
             i < j, events[i].request = events[j].request
      PROVE  events[i].seq < events[j].seq
  BY <1>2, <1>3, <1>5 DEF NumberInv
<1> QED
  BY <1>4, <1>5

\* An event of a request is known by its number.
LEMMA NumberNamesEvent ==
  ASSUME SequencesInv, NumberInv, NEW e \in ToSet(appended), NEW f \in ToSet(appended),
         e.request = f.request, e.seq = f.seq
  PROVE  e = f
<1>1. PICK i \in DOMAIN appended : appended[i] = e
  BY DEF ToSet
<1>2. PICK j \in DOMAIN appended : appended[j] = f
  BY DEF ToSet
<1>3. i \in Nat /\ j \in Nat /\ appended \in Seq(Event)
  BY DEF SequencesInv
<1>4. e.seq \in Nat
  <2>1. e \in Event
    BY <1>1, <1>3
  <2> QED
    BY <2>1, TraceConstantsAssumption DEF Event
<1>5. ~(i < j) /\ ~(j < i)
  BY <1>1, <1>2, <1>4 DEF NumberInv
<1> QED
  BY <1>1, <1>2, <1>3, <1>5

-----------------------------------------------------------------------------
(* The initial states, and the pushes *)

LEMMA StreamInit == Init => StreamInv
<1> SUFFICES ASSUME Init PROVE StreamInv
  OBVIOUS
<1> USE DEF Init
<1>1. Heard = <<>>
  BY DEF Heard
<1>2. ToSet(<<>>) = {}
  BY DEF ToSet
<1>3. TypeOK
  <2>1. NoEvent \in Event
    BY TraceConstantsAssumption DEF NoEvent, Event
  <2>2. query \in [request : Filters, since : Nat]
    OBVIOUS
  <2>3. ToSet(events) \cup ToSet(appended) \cup ToSet(pending) \cup ToSet(written)
          \cup ToSet(backlog) \cup tooOld \cup between \subseteq Event
    BY <1>2
  <2>4. nextId \in Nat /\ Len(events) <= Capacity
        /\ subscribed \in BOOLEAN /\ closed \in BOOLEAN /\ gone \in BOOLEAN
    <3>1. Len(events) = 0
      OBVIOUS
    <3>2. nextId \in Nat /\ Len(events) <= Capacity
      BY <3>1, TraceConstantsAssumption
    <3>3. subscribed = FALSE /\ closed = FALSE /\ gone = FALSE
      OBVIOUS
    <3> QED
      BY <3>2, <3>3
  <2>5. /\ pc \in [Requests -> {"idle", "numbered", "logged", "copied"}]
        /\ current \in [Requests -> Event] /\ pushes \in [Requests -> 0..MaxPushes]
        /\ stream \in {"none", "read", "open", "ended"}
    BY <2>1, TraceConstantsAssumption
  <2> QED
    BY <2>2, <2>3, <2>4, <2>5 DEF TypeOK
<1>4. SequencesInv
  BY <1>1, <1>2 DEF SequencesInv
<1>5. RingInv /\ NumberInv /\ PushInv /\ MissInv
  BY DEF RingInv, NumberInv, PushInv, MissInv
<1>6. StageInv
  BY <1>1 DEF StageInv
<1>7. StreamInOrder
  BY <1>1 DEF StreamInOrder
<1> QED
  BY <1>3, <1>4, <1>5, <1>6, <1>7 DEF StreamInv

\* What the parts of the invariant say of one another's variables.
LEMMA StreamParts ==
  ASSUME StreamInv
  PROVE  /\ Heard \in Seq(Event)
         /\ Len(Heard) \in Nat /\ DOMAIN Heard = 1..Len(Heard)
         /\ \A r \in Requests : pushes[r] \in 0..MaxPushes
         /\ \A k \in DOMAIN Heard :
              /\ Heard[k] \in ToSet(appended) /\ Heard[k].request \in Requests
              /\ Heard[k].seq \in Nat /\ Heard[k].seq <= pushes[Heard[k].request]
<1> USE DEF StreamInv
<1>1. Heard \in Seq(Event)
  BY DEF Heard, SequencesInv
<1>2. \A r \in Requests : pushes[r] \in 0..MaxPushes
  BY DEF TypeOK
<1>3. ASSUME NEW k \in DOMAIN Heard
      PROVE  /\ Heard[k] \in ToSet(appended) /\ Heard[k].request \in Requests
             /\ Heard[k].seq \in Nat /\ Heard[k].seq <= pushes[Heard[k].request]
  <2>1. Heard[k] \in ToSet(appended)
    BY InSequence DEF SequencesInv
  <2>2. PICK i \in DOMAIN appended : appended[i] = Heard[k]
    BY <2>1, InSequence
  <2>3. Heard[k] \in Event
    BY <1>1
  <2>4. Heard[k].seq \in Nat
    BY <2>3, TraceConstantsAssumption DEF Event
  <2> QED
    BY <2>1, <2>2, <2>4 DEF NumberInv
<1> QED
  BY <1>1, <1>2, <1>3

LEMMA StreamDraw ==
  ASSUME StreamInv, NEW r \in Requests, DrawTraceId(r)
  PROVE  StreamInv'
<1> USE DEF StreamInv, DrawTraceId
<1>0. Heard' = Heard
  BY DEF Heard
<1>1. TypeOK'
  <2>1. current' \in [Requests -> Event]
    <3>1. [request |-> r, seq |-> 0, id |-> nextId] \in Event
      BY TraceConstantsAssumption DEF TypeOK, Event
    <3> QED
      BY <3>1 DEF TypeOK
  <2>2. pc' \in [Requests -> {"idle", "numbered", "logged", "copied"}]
    BY DEF TypeOK
  <2> QED
    BY <2>1, <2>2 DEF TypeOK
<1>2. SequencesInv' /\ RingInv' /\ NumberInv' /\ StreamInOrder'
  BY <1>0 DEF SequencesInv, RingInv, NumberInv, StreamInOrder
<1>3. PushInv'
  <2> SUFFICES ASSUME NEW q \in Requests
               PROVE  /\ pc'[q] = "numbered" =>
                           current'[q].request = q /\ pushes'[q] < MaxPushes
                      /\ pc'[q] \in {"logged", "copied"} =>
                           /\ current'[q] \in ToSet(appended')
                           /\ current'[q].request = q
                           /\ current'[q].seq = pushes'[q]
                           /\ \A k \in DOMAIN Heard' :
                                k > Len(backlog') /\ Heard'[k].request = q =>
                                  Heard'[k].seq < pushes'[q]
    BY Zenon DEF PushInv
  <2>1. CASE q = r
    BY <2>1 DEF TypeOK
  <2>2. CASE q # r
    BY <1>0, <2>2 DEF PushInv, TypeOK
  <2> QED
    BY <2>1, <2>2
<1>4. StageInv'
  BY <1>0 DEF StageInv, TypeOK
<1>5. MissInv'
  <2> SUFFICES ASSUME stream \in {"read", "open"}, NEW e \in ToSet(appended), Matches(e)
               PROVE  \/ e \in ToSet(Heard)
                      \/ e.id <= query.since
                      \/ e \in tooOld \cup between
                      \/ /\ stream = "open" /\ e = current'[e.request]
                         /\ pc'[e.request] \in {"logged", "copied"}
    BY <1>0 DEF MissInv, Matches
  <2>1. CASE e.request = r
    BY <2>1 DEF MissInv
  <2>2. CASE e.request # r
    <3>1. e.request \in Requests
      BY InSequence DEF NumberInv
    <3> QED
      BY <2>2, <3>1 DEF MissInv, TypeOK
  <2> QED
    BY <2>1, <2>2
<1> QED
  BY <1>1, <1>2, <1>3, <1>4, <1>5

LEMMA StreamAppend ==
  ASSUME StreamInv, NEW r \in Requests, AppendTrace(r)
  PROVE  StreamInv'
<1> USE DEF StreamInv
<1> DEFINE e == [current[r] EXCEPT !.seq = pushes[r] + 1]
<1>0. Heard' = Heard /\ UNCHANGED <<query, stream, backlog, tooOld, pending, written>>
  BY DEF Heard, AppendTrace
<1>1. /\ pc[r] = "numbered" /\ pc' = [pc EXCEPT ![r] = "logged"]
      /\ current' = [current EXCEPT ![r] = e] /\ pushes' = [pushes EXCEPT ![r] = @ + 1]
      /\ events' = Trimmed(Append(events, e)) /\ appended' = Append(appended, e)
  BY DEF AppendTrace
<1>2. /\ pushes \in [Requests -> 0..MaxPushes] /\ MaxPushes \in Nat
      /\ current[r].request = r /\ pushes[r] < MaxPushes
  BY <1>1, TraceConstantsAssumption DEF PushInv, TypeOK
<1>3. e \in Event /\ e.request = r /\ e.seq = pushes[r] + 1
  <2>1. current[r] \in Event
    BY DEF TypeOK
  <2>2. pushes[r] + 1 \in 0..MaxPushes
    BY <1>2
  <2> QED
    BY <1>2, <2>1, <2>2 DEF Event
<1>4. events \in Seq(Event) /\ appended \in Seq(Event)
  BY DEF SequencesInv
<1>5. \A q \in Requests : pushes'[q] = IF q = r THEN pushes[r] + 1 ELSE pushes[q]
  BY <1>1, <1>2
<1> HIDE DEF e
<1>6. ToSet(appended') = ToSet(appended) \cup {e}
  BY <1>1, <1>4, AppendAdds
<1>7. /\ events' \in Seq(Event) /\ Len(events') <= Capacity
      /\ Len(events') <= Len(appended')
      /\ \A i \in DOMAIN events' : events'[i] = appended'[Len(appended') - Len(events') + i]
  <2> DEFINE grown == Append(events, e)
  <2>1. grown \in Seq(Event) /\ Len(grown) = Len(events) + 1 /\ appended' \in Seq(Event)
        /\ Len(appended') = Len(appended) + 1 /\ Len(events) \in Nat /\ Len(appended) \in Nat
        /\ Len(events) <= Len(appended) /\ Len(events) <= Capacity /\ Capacity \in Nat \ {0}
    BY <1>1, <1>3, <1>4, TraceConstantsAssumption DEF RingInv, TypeOK
  <2>2. ASSUME NEW i \in 1..Len(grown)
        PROVE  grown[i] = appended'[Len(appended') - Len(grown) + i]
    <3>1. CASE i <= Len(events)
      <4>1. grown[i] = events[i] /\ i \in DOMAIN events
        BY <1>4, <2>1, <3>1
      <4>2. events[i] = appended[Len(appended) - Len(events) + i]
        BY <4>1 DEF RingInv
      <4>3. Len(appended) - Len(events) + i \in 1..Len(appended)
        BY <2>1, <3>1
      <4>4. appended'[Len(appended) - Len(events) + i] = appended[Len(appended) - Len(events) + i]
        BY <1>1, <1>4, <4>3
      <4> HIDE DEF grown
      <4> QED
        BY <2>1, <4>1, <4>2, <4>4
    <3>2. CASE i = Len(events) + 1
      <4>1. grown[i] = e /\ appended'[Len(appended) + 1] = e
        BY <1>1, <1>4, <2>1, <3>2
      <4> HIDE DEF grown
      <4> QED
        BY <2>1, <3>2, <4>1
    <3> HIDE DEF grown
    <3> QED
      BY <2>1, <3>1, <3>2
  <2>3. CASE Len(grown) > Capacity
    <3>1. events' = Tail(grown)
      BY <1>1, <2>3 DEF Trimmed
    <3> HIDE DEF grown
    <3>2. events' \in Seq(Event) /\ Len(events') = Len(grown) - 1
          /\ \A i \in 1..(Len(grown) - 1) : events'[i] = grown[i + 1]
      BY <2>1, <2>3, <3>1
    <3>3. \A i \in 1..(Len(grown) - 1) :
            i + 1 \in 1..Len(grown)
            /\ Len(appended') - Len(grown) + (i + 1) = Len(appended') - Len(events') + i
      BY <2>1, <3>2
    <3>4. Len(events') <= Capacity /\ Len(events') <= Len(appended')
          /\ DOMAIN events' = 1..(Len(grown) - 1)
      BY <2>1, <3>2
    <3>5. ASSUME NEW i \in DOMAIN events'
          PROVE  events'[i] = appended'[Len(appended') - Len(events') + i]
      <4>1. events'[i] = grown[i + 1] /\ i + 1 \in 1..Len(grown)
            /\ Len(appended') - Len(grown) + (i + 1) = Len(appended') - Len(events') + i
        BY <3>2, <3>3, <3>4
      <4>2. grown[i + 1] = appended'[Len(appended') - Len(grown) + (i + 1)]
        BY <2>2, <4>1
      <4> QED
        BY <4>1, <4>2
    <3> QED
      BY <3>2, <3>4, <3>5
  <2>4. CASE ~(Len(grown) > Capacity)
    <3>1. events' = grown
      BY <1>1, <2>4 DEF Trimmed
    <3> HIDE DEF grown
    <3>2. Len(events') <= Capacity /\ Len(events') <= Len(appended') /\ events' \in Seq(Event)
          /\ DOMAIN events' = 1..Len(grown)
      BY <2>1, <2>4, <3>1
    <3>3. ASSUME NEW i \in DOMAIN events'
          PROVE  events'[i] = appended'[Len(appended') - Len(events') + i]
      BY <2>2, <3>1, <3>2
    <3> QED
      BY <3>2, <3>3
  <2> QED
    BY <2>3, <2>4
<1>8. TypeOK'
  <2>1. ToSet(events') \subseteq Event /\ ToSet(appended') \subseteq Event
    <3>1. appended' \in Seq(Event) /\ events' \in Seq(Event)
      BY <1>1, <1>3, <1>4, <1>7
    <3>2. \A i \in DOMAIN appended' : appended'[i] \in Event
      BY <3>1
    <3>3. \A i \in DOMAIN events' : events'[i] \in Event
      BY <3>1
    <3> HIDE DEF Event
    <3> QED
      BY <3>2, <3>3 DEF ToSet
  <2>2. current' \in [Requests -> Event] /\ pushes' \in [Requests -> 0..MaxPushes]
    BY <1>1, <1>2, <1>3 DEF TypeOK
  <2>3. pc' \in [Requests -> {"idle", "numbered", "logged", "copied"}]
    BY <1>1 DEF TypeOK
  <2>4. between' \subseteq Event /\ UNCHANGED <<nextId, query, stream, subscribed, closed, gone>>
    BY <1>3 DEF TypeOK, AppendTrace, e
  <2>5. ToSet(pending) \cup ToSet(written) \cup ToSet(backlog) \cup tooOld \subseteq Event
    BY DEF TypeOK
  <2> QED
    BY <1>0, <1>7, <2>1, <2>2, <2>3, <2>4, <2>5 DEF TypeOK
<1>9. SequencesInv' /\ RingInv'
  <2>1. appended' \in Seq(Event)
    BY <1>1, <1>3, <1>4
  <2> QED
    BY <1>0, <1>6, <1>7, <2>1 DEF SequencesInv, RingInv
<1>10. NumberInv'
  <2>1. /\ Len(appended) \in Nat /\ DOMAIN appended = 1..Len(appended)
        /\ DOMAIN appended' = 1..(Len(appended) + 1)
        /\ appended'[Len(appended) + 1] = e
        /\ \A i \in DOMAIN appended : appended'[i] = appended[i]
    BY <1>1, <1>3, <1>4
  <2>2. \A i \in DOMAIN appended' : i \in DOMAIN appended \/ i = Len(appended) + 1
    BY <2>1
  <2>3. ASSUME NEW i \in DOMAIN appended
        PROVE  /\ appended[i].request \in Requests /\ appended[i].seq \in Nat
               /\ appended[i].seq <= pushes[appended[i].request]
               /\ appended[i].seq <= pushes'[appended[i].request]
    <3>1. appended[i].request \in Requests /\ appended[i].seq <= pushes[appended[i].request]
      BY DEF NumberInv
    <3>2. appended[i] \in Event
      BY <1>4
    <3>3. appended[i].seq \in Nat
      BY <1>2, <3>2 DEF Event
    <3> QED
      BY <1>2, <1>5, <3>1, <3>3
  <2>4. ASSUME NEW i \in DOMAIN appended'
        PROVE  appended'[i].request \in Requests
               /\ appended'[i].seq <= pushes'[appended'[i].request]
    BY <1>2, <1>3, <1>5, <2>1, <2>2, <2>3
  <2>5. ASSUME NEW i \in DOMAIN appended', NEW j \in DOMAIN appended',
               i < j, appended'[i].request = appended'[j].request
        PROVE  appended'[i].seq < appended'[j].seq
    <3>1. CASE j \in DOMAIN appended
      <4>1. i \in DOMAIN appended
        BY <2>1, <2>5, <3>1
      <4> QED
        BY <2>1, <2>5, <3>1, <4>1 DEF NumberInv
    <3>2. CASE j = Len(appended) + 1
      <4>1. i \in DOMAIN appended
        BY <2>1, <2>5, <3>2
      <4> QED
        BY <1>2, <1>3, <2>1, <2>3, <2>5, <3>2, <4>1
    <3> QED
      BY <2>2, <3>1, <3>2
  <2> QED
    BY <2>4, <2>5 DEF NumberInv
<1>11. PushInv'
  <2> SUFFICES ASSUME NEW q \in Requests
               PROVE  /\ pc'[q] = "numbered" =>
                           current'[q].request = q /\ pushes'[q] < MaxPushes
                      /\ pc'[q] \in {"logged", "copied"} =>
                           /\ current'[q] \in ToSet(appended')
                           /\ current'[q].request = q
                           /\ current'[q].seq = pushes'[q]
                           /\ \A k \in DOMAIN Heard' :
                                k > Len(backlog') /\ Heard'[k].request = q =>
                                  Heard'[k].seq < pushes'[q]
    BY Zenon DEF PushInv
  <2>1. CASE q = r
    <3>1. pc'[q] = "logged" /\ current'[q] = e
      BY <1>1, <2>1 DEF TypeOK
    <3>2. \A k \in DOMAIN Heard : Heard[k].request = q => Heard[k].seq < pushes'[q]
      BY <1>2, <1>5, <2>1, StreamParts
    <3> QED
      BY <1>0, <1>3, <1>5, <1>6, <2>1, <3>1, <3>2
  <2>2. CASE q # r
    <3>1. pc'[q] = pc[q] /\ current'[q] = current[q] /\ pushes'[q] = pushes[q]
      BY <1>1, <1>5, <2>2 DEF TypeOK
    <3> QED
      BY <1>0, <1>6, <3>1 DEF PushInv
  <2> QED
    BY <2>1, <2>2
<1>12. StageInv' /\ StreamInOrder'
  <2>1. \A q \in Requests : pc'[q] = "copied" => pc[q] = "copied"
    BY <1>1 DEF TypeOK
  <2>2. UNCHANGED <<subscribed, closed>>
    BY DEF AppendTrace
  <2> QED
    BY <1>0, <2>1, <2>2 DEF StageInv, StreamInOrder
<1>13. MissInv'
  <2> SUFFICES ASSUME stream \in {"read", "open"}, NEW f \in ToSet(appended'), Matches(f)
               PROVE  \/ f \in ToSet(Heard)
                      \/ f.id <= query.since
                      \/ f \in tooOld \cup between'
                      \/ /\ stream = "open" /\ f = current'[f.request]
                         /\ pc'[f.request] \in {"logged", "copied"}
    BY <1>0 DEF MissInv, Matches
  <2>0. between \subseteq between'
    BY DEF AppendTrace
  <2>1. CASE f = e
    <3>1. CASE stream = "read"
      BY <2>1, <3>1 DEF AppendTrace, e
    <3>2. CASE stream = "open"
      BY <1>1, <1>3, <2>1, <3>2 DEF TypeOK
    <3> QED
      BY <3>1, <3>2
  <2>2. CASE f \in ToSet(appended)
    <3>1. f.request \in Requests
      BY <2>2, InSequence DEF NumberInv
    <3>2. f.request # r => pc'[f.request] = pc[f.request] /\ current'[f.request] = current[f.request]
      BY <1>1, <3>1 DEF TypeOK
    <3> QED
      BY <1>1, <2>0, <2>2, <3>2 DEF MissInv
  <2> QED
    BY <1>6, <2>1, <2>2
<1> QED
  BY <1>8, <1>9, <1>10, <1>11, <1>12, <1>13

LEMMA StreamCopy ==
  ASSUME StreamInv, NEW r \in Requests, CopySubscribers(r)
  PROVE  StreamInv'
<1> USE DEF StreamInv
<1>0. /\ Heard' = Heard
      /\ pc[r] = "logged"
      /\ pc' = [pc EXCEPT ![r] = IF subscribed /\ Matches(current[r]) THEN "copied" ELSE "idle"]
      /\ UNCHANGED <<nextId, current, pushes, events, appended, query, stream, subscribed,
                     closed, pending, gone, written, backlog, tooOld>>
  BY DEF Heard, CopySubscribers
<1>1. between' \subseteq between /\ (~subscribed => between' = between)
      /\ \A e \in between \ between' : e = current[r]
  BY DEF CopySubscribers
<1>2. \A q \in Requests : q # r => pc'[q] = pc[q]
  BY <1>0 DEF TypeOK
<1>3. pc'[r] = IF subscribed /\ Matches(current[r]) THEN "copied" ELSE "idle"
  BY <1>0 DEF TypeOK
<1>4. TypeOK'
  <2>1. pc' \in [Requests -> {"idle", "numbered", "logged", "copied"}]
    BY <1>0 DEF TypeOK
  <2> QED
    BY <1>0, <1>1, <2>1 DEF TypeOK
<1>5. SequencesInv' /\ RingInv' /\ NumberInv' /\ StreamInOrder'
  BY <1>0 DEF SequencesInv, RingInv, NumberInv, StreamInOrder
<1>6. PushInv'
  <2>1. \A q \in Requests : pc'[q] = "numbered" => pc[q] = "numbered"
    BY <1>2, <1>3
  <2>2. \A q \in Requests : pc'[q] \in {"logged", "copied"} => pc[q] \in {"logged", "copied"}
    BY <1>0, <1>2
  <2> QED
    BY <1>0, <2>1, <2>2 DEF PushInv
<1>7. StageInv'
  BY <1>0, <1>2, <1>3 DEF StageInv
<1>8. MissInv'
  <2> SUFFICES ASSUME stream \in {"read", "open"}, NEW e \in ToSet(appended), Matches(e)
               PROVE  \/ e \in ToSet(Heard)
                      \/ e.id <= query.since
                      \/ e \in tooOld \cup between'
                      \/ /\ stream = "open" /\ e = current[e.request]
                         /\ pc'[e.request] \in {"logged", "copied"}
    BY <1>0 DEF MissInv, Matches
  <2>1. current[r].request = r
    BY <1>0 DEF PushInv
  <2>2. CASE stream = "read"
    <3>1. ~subscribed
      BY <2>2 DEF StageInv
    <3> QED
      BY <1>1, <2>2, <3>1 DEF MissInv
  <2>3. CASE stream = "open" /\ e = current[r]
    <3>1. subscribed
      BY <2>3 DEF StageInv
    <3>2. pc'[r] = "copied"
      BY <1>3, <2>3, <3>1
    <3> QED
      BY <2>1, <2>3, <3>2
  <2>4. CASE stream = "open" /\ e # current[r]
    <3>1. e \in between => e \in between'
      BY <1>1, <2>4
    <3>2. e.request \in Requests
      BY InSequence DEF NumberInv
    <3>3. e = current[e.request] => pc'[e.request] = pc[e.request]
      BY <1>2, <2>4, <3>2
    <3> QED
      BY <2>4, <3>1, <3>3 DEF MissInv
  <2> QED
    BY <2>2, <2>3, <2>4
<1> QED
  BY <1>4, <1>5, <1>6, <1>7, <1>8

\* A callback appends to what is heard while the stream is open.
LEMMA StreamCall ==
  ASSUME StreamInv, NEW r \in Requests, CallSubscriber(r)
  PROVE  StreamInv'
<1> USE DEF StreamInv
<1> DEFINE e == current[r]
<1>0. /\ pc[r] = "copied" /\ pc' = [pc EXCEPT ![r] = "idle"]
      /\ pending' = IF closed THEN pending ELSE Append(pending, e)
      /\ UNCHANGED <<nextId, current, pushes, events, appended, query, stream, subscribed,
                     closed, gone, written, backlog, tooOld, between>>
  BY DEF CallSubscriber
<1>1. e \in ToSet(appended) /\ e \in Event /\ e.request = r /\ e.seq = pushes[r]
      /\ pushes[r] \in Nat
  <2>1. e \in Event
    BY DEF TypeOK
  <2>2. pushes[r] \in Nat
    BY TraceConstantsAssumption DEF TypeOK
  <2> QED
    BY <1>0, <2>1, <2>2 DEF PushInv
<1>2. \A q \in Requests : q # r => pc'[q] = pc[q]
  BY <1>0 DEF TypeOK
<1>3. pc'[r] = "idle"
  BY <1>0 DEF TypeOK
<1>4. pending \in Seq(Event) /\ written \in Seq(Event) /\ pending' \in Seq(Event)
  <2>1. pending \in Seq(Event) /\ written \in Seq(Event)
    BY DEF SequencesInv
  <2> HIDE DEF Event, e
  <2> QED
    BY <1>0, <1>1, <2>1
<1>5. stream \in {"open", "ended"}
  BY <1>0 DEF StageInv, TypeOK
<1> HIDE DEF e
<1>6. \/ Heard' = Heard /\ stream = "ended"
      \/ Heard' = Append(Heard, e) /\ stream = "open"
  <2>1. CASE stream = "ended"
    BY <1>0, <2>1 DEF Heard
  <2>2. CASE stream = "open"
    <3>1. ~closed
      BY <2>2 DEF StageInv
    <3>2. written \o Append(pending, e) = Append(written \o pending, e)
      BY <1>1, <1>4
    <3> QED
      BY <1>0, <2>2, <3>1, <3>2 DEF Heard
  <2> QED
    BY <1>5, <2>1, <2>2
<1>7. /\ Heard \in Seq(Event) /\ Len(Heard) \in Nat /\ DOMAIN Heard = 1..Len(Heard)
      /\ Len(backlog) \in Nat
  BY StreamParts DEF SequencesInv
<1>8. stream = "open" => /\ ToSet(Heard') = ToSet(Heard) \cup {e}
                         /\ DOMAIN Heard' = 1..(Len(Heard) + 1)
                         /\ Len(Heard') = Len(Heard) + 1
                         /\ Heard'[Len(Heard) + 1] = e
                         /\ \A k \in DOMAIN Heard : Heard'[k] = Heard[k]
  <2>1. ToSet(Append(Heard, e)) = ToSet(Heard) \cup {e}
    BY <1>7, AppendAdds
  <2>2. /\ DOMAIN Append(Heard, e) = 1..(Len(Heard) + 1)
        /\ Len(Append(Heard, e)) = Len(Heard) + 1
        /\ Append(Heard, e)[Len(Heard) + 1] = e
        /\ \A k \in DOMAIN Heard : Append(Heard, e)[k] = Heard[k]
    BY <1>1, <1>7
  <2> QED
    BY <1>6, <2>1, <2>2
<1>9. TypeOK'
  <2>1. pc' \in [Requests -> {"idle", "numbered", "logged", "copied"}]
    BY <1>0 DEF TypeOK
  <2>2. ToSet(pending') \subseteq Event
    <3>1. \A k \in DOMAIN pending' : pending'[k] \in Event
      BY <1>4
    <3> HIDE DEF Event
    <3> QED
      BY <3>1 DEF ToSet
  <2> QED
    BY <1>0, <2>1, <2>2 DEF TypeOK
<1>10. SequencesInv' /\ RingInv' /\ NumberInv'
  <2>1. ToSet(Heard') \subseteq ToSet(appended)
    BY <1>1, <1>6, <1>8 DEF SequencesInv
  <2> QED
    BY <1>0, <1>4, <2>1 DEF SequencesInv, RingInv, NumberInv
<1>11. PushInv'
  <2> SUFFICES ASSUME NEW q \in Requests
               PROVE  /\ pc'[q] = "numbered" =>
                           current'[q].request = q /\ pushes'[q] < MaxPushes
                      /\ pc'[q] \in {"logged", "copied"} =>
                           /\ current'[q] \in ToSet(appended')
                           /\ current'[q].request = q
                           /\ current'[q].seq = pushes'[q]
                           /\ \A k \in DOMAIN Heard' :
                                k > Len(backlog') /\ Heard'[k].request = q =>
                                  Heard'[k].seq < pushes'[q]
    BY Zenon DEF PushInv
  <2>1. CASE q = r
    BY <1>3, <2>1
  <2>2. CASE q # r
    <3>1. \A k \in DOMAIN Heard' : Heard'[k].request = q => k \in DOMAIN Heard /\ Heard'[k] = Heard[k]
      <4>1. \A k \in 1..(Len(Heard) + 1) : k = Len(Heard) + 1 \/ k \in DOMAIN Heard
        BY <1>7
      <4> QED
        BY <1>1, <1>6, <1>8, <2>2, <4>1
    <3> QED
      BY <1>0, <1>2, <2>2, <3>1 DEF PushInv
  <2> QED
    BY <2>1, <2>2
<1>12. StageInv'
  <2>1. stream # "ended" => Len(backlog) <= Len(Heard')
    BY <1>6, <1>7, <1>8 DEF StageInv
  <2> QED
    BY <1>0, <1>5, <2>1 DEF StageInv
<1>13. StreamInOrder'
  <2>1. CASE stream = "ended"
    BY <1>0, <1>6, <2>1 DEF StreamInOrder
  <2>2. CASE stream = "open"
    <3> SUFFICES ASSUME NEW i \in DOMAIN Heard', NEW j \in DOMAIN Heard',
                        i < j, Heard'[i].request = Heard'[j].request
                 PROVE  \/ Heard'[i].seq < Heard'[j].seq
                        \/ Heard'[i] = Heard'[j] /\ i <= Len(backlog) /\ Len(backlog) < j
      BY <1>0 DEF StreamInOrder
    <3>1. CASE j \in DOMAIN Heard
      <4>1. i \in DOMAIN Heard
        BY <1>7, <1>8, <2>2, <3>1
      <4> QED
        BY <1>8, <2>2, <3>1, <4>1 DEF StreamInOrder
    <3>2. CASE j = Len(Heard) + 1
      <4>1. i \in DOMAIN Heard /\ Heard'[j] = e /\ Heard'[i] = Heard[i]
        BY <1>7, <1>8, <2>2, <3>2
      <4>2. /\ Heard[i] \in ToSet(appended) /\ Heard[i].request = r
            /\ Heard[i].seq \in Nat /\ Heard[i].seq <= pushes[r]
        BY <1>1, <4>1, StreamParts
      <4>3. CASE i > Len(backlog)
        BY <1>0, <1>1, <4>1, <4>2, <4>3 DEF PushInv
      <4>4. CASE ~(i > Len(backlog)) /\ Heard[i].seq = pushes[r]
        <5>1. Heard[i] = e
          BY <1>1, <4>2, <4>4, NumberNamesEvent
        <5>2. Len(backlog) < j
          BY <1>7, <2>2, <3>2 DEF StageInv
        <5>3. i <= Len(backlog)
          BY <1>7, <4>1, <4>4
        <5> QED
          BY <4>1, <5>1, <5>2, <5>3
      <4>5. CASE Heard[i].seq # pushes[r]
        BY <1>1, <4>1, <4>2, <4>5
      <4> QED
        BY <4>3, <4>4, <4>5
    <3>3. j \in DOMAIN Heard \/ j = Len(Heard) + 1
      BY <1>7, <1>8, <2>2
    <3> QED
      BY <3>1, <3>2, <3>3
  <2> QED
    BY <1>5, <2>1, <2>2
<1>14. MissInv'
  <2>1. CASE stream = "ended"
    BY <1>0, <2>1 DEF MissInv
  <2>2. CASE stream = "open"
    <3> SUFFICES ASSUME NEW f \in ToSet(appended), Matches(f)
                 PROVE  \/ f \in ToSet(Heard')
                        \/ f.id <= query.since
                        \/ f \in tooOld \cup between
                        \/ /\ stream = "open" /\ f = current[f.request]
                           /\ pc'[f.request] \in {"logged", "copied"}
      BY <1>0 DEF MissInv, Matches
    <3>1. CASE f = e
      BY <1>8, <2>2, <3>1
    <3>2. CASE f # e
      <4>1. f.request \in Requests
        BY InSequence DEF NumberInv
      <4>2. f = current[f.request] => f.request # r
        BY <3>2 DEF e
      <4> QED
        BY <1>2, <1>8, <2>2, <4>1, <4>2 DEF MissInv
    <3> QED
      BY <3>1, <3>2
  <2> QED
    BY <1>5, <2>1, <2>2
<1> QED
  BY <1>9, <1>10, <1>11, <1>12, <1>13, <1>14

-----------------------------------------------------------------------------
(* The stream's handler *)

\* The backlog is in the order of the ring, and what it leaves out is too old.
LEMMA StreamBacklog ==
  ASSUME StreamInv, ReadBacklog
  PROVE  StreamInv'
<1> USE DEF StreamInv
<1>0. /\ stream = "none" /\ stream' = "read"
      /\ pending' = InOrder(Taken) /\ backlog' = InOrder(Taken)
      /\ tooOld' = {events[i] : i \in Found \ Taken} \cup (ToSet(appended) \ ToSet(events))
      /\ UNCHANGED <<nextId, pc, current, pushes, events, appended, query, subscribed, closed,
                     gone, written, between>>
  BY DEF ReadBacklog, trace
<1>1. events \in Seq(Event) /\ appended \in Seq(Event) /\ Taken \in SUBSET (DOMAIN events)
  BY DEF SequencesInv, Taken, Found
<1>2. /\ pending' \in Seq(Event)
      /\ \A k \in DOMAIN pending' : \E i \in Taken : pending'[k] = events[i]
      /\ \A k, l \in DOMAIN pending' :
           k < l => \E i, j \in Taken :
                      /\ i < j
                      /\ pending'[k] = events[i] /\ pending'[l] = events[j]
      /\ \A i \in Taken : \E k \in DOMAIN pending' : pending'[k] = events[i]
  <2> DEFINE brought == InOrder(Taken)
  <2>1. /\ brought \in Seq(Event)
        /\ \A k \in DOMAIN brought : \E i \in Taken : brought[k] = events[i]
        /\ \A k, l \in DOMAIN brought :
             k < l => \E i, j \in Taken :
                        /\ i < j
                        /\ brought[k] = events[i] /\ brought[l] = events[j]
        /\ \A i \in Taken : \E k \in DOMAIN brought : brought[k] = events[i]
    BY <1>1, Ordered
  <2>2. pending' = brought
    BY <1>0
  <2> HIDE DEF brought
  <2> QED
    BY <2>1, <2>2
<1>3. Heard' = pending'
  <2>1. written' = <<>>
    BY <1>0 DEF StageInv
  <2>2. <<>> \o pending' = pending'
    BY <1>2
  <2> QED
    BY <1>0, <2>1, <2>2 DEF Heard
<1>4. /\ ToSet(events) \subseteq ToSet(appended)
      /\ \A i, j \in DOMAIN events :
           i < j /\ events[i].request = events[j].request => events[i].seq < events[j].seq
  BY RingOrdered
<1>5. TypeOK'
  <2>1. \A k \in DOMAIN pending' : pending'[k] \in Event
    BY <1>2
  <2>2. ToSet(pending') \subseteq Event
    <3> HIDE DEF Event
    <3> QED
      BY <2>1 DEF ToSet
  <2>3. \A i \in DOMAIN events : events[i] \in Event
    BY <1>1
  <2>4. tooOld' \subseteq Event
    <3>1. Found \subseteq DOMAIN events
      BY DEF Found
    <3>2. ToSet(appended) \subseteq Event
      BY DEF TypeOK
    <3> HIDE DEF Event
    <3> QED
      BY <1>0, <2>3, <3>1, <3>2
  <2> QED
    BY <1>0, <2>2, <2>4 DEF TypeOK
<1>6. SequencesInv' /\ RingInv' /\ NumberInv'
  <2>1. ToSet(Heard') \subseteq ToSet(appended)
    <3>1. \A k \in DOMAIN pending' : pending'[k] \in ToSet(events)
      BY <1>1, <1>2, InSequence
    <3> QED
      BY <1>3, <1>4, <3>1 DEF ToSet
  <2>2. {events', appended', pending', written', backlog'} \subseteq Seq(Event)
    BY <1>0, <1>2 DEF SequencesInv
  <2> QED
    BY <1>0, <2>1, <2>2 DEF SequencesInv, RingInv, NumberInv
<1>7. PushInv'
  <2>1. ASSUME NEW k \in DOMAIN Heard', k > Len(backlog') PROVE FALSE
    <3>1. Heard' = backlog' /\ backlog' \in Seq(Event)
      BY <1>0, <1>2, <1>3
    <3>2. DOMAIN backlog' = 1..Len(backlog') /\ Len(backlog') \in Nat
      BY <3>1
    <3> QED
      BY <2>1, <3>1, <3>2
  <2> QED
    BY <1>0, <2>1 DEF PushInv
<1>8. StageInv'
  <2>1. Len(backlog') = Len(Heard') /\ Len(Heard') \in Nat
    BY <1>0, <1>2, <1>3
  <2> QED
    BY <1>0, <2>1 DEF StageInv
<1>9. StreamInOrder'
  <2> SUFFICES ASSUME NEW k \in DOMAIN pending', NEW l \in DOMAIN pending',
                      k < l, pending'[k].request = pending'[l].request
               PROVE  pending'[k].seq < pending'[l].seq
    BY <1>3 DEF StreamInOrder
  <2>1. PICK i \in Taken, j \in Taken :
          i < j /\ pending'[k] = events[i] /\ pending'[l] = events[j]
    BY <1>2
  <2> QED
    BY <1>1, <1>4, <2>1
<1>10. MissInv'
  <2> SUFFICES ASSUME NEW e \in ToSet(appended), Matches(e), ~(e.id <= query.since),
                      e \notin tooOld'
               PROVE  e \in ToSet(pending')
    BY <1>0, <1>3 DEF MissInv, Matches
  <2>1. e \in ToSet(events)
    BY <1>0
  <2>2. PICK i \in DOMAIN events : events[i] = e
    BY <2>1, InSequence
  <2>3. e.id > query.since
    <3>1. e \in Event
      BY <1>1, <2>2
    <3>2. e.id \in Nat /\ query.since \in Nat
      BY <3>1 DEF Event, TypeOK
    <3> QED
      BY <3>2
  <2>4. i \in Found
    BY <2>2, <2>3 DEF Found
  <2>5. i \in Taken
    BY <1>0, <2>2, <2>4
  <2> QED
    BY <1>2, <2>2, <2>5 DEF ToSet
<1> QED
  BY <1>5, <1>6, <1>7, <1>8, <1>9, <1>10

\* From here on the callback is told of what is pushed.
LEMMA StreamSubscribe ==
  ASSUME StreamInv, Subscribe
  PROVE  StreamInv'
<1> USE DEF StreamInv
<1>0. /\ stream = "read" /\ stream' = "open" /\ subscribed' = TRUE
      /\ UNCHANGED <<nextId, pc, current, pushes, events, appended, query, closed, pending,
                     gone, written, backlog, tooOld, between>>
  BY DEF Subscribe, trace
<1>1. Heard' = Heard
  BY <1>0 DEF Heard
<1>2. TypeOK'
  BY <1>0 DEF TypeOK
<1>3. SequencesInv' /\ RingInv' /\ NumberInv' /\ PushInv' /\ StreamInOrder'
  BY <1>0, <1>1 DEF SequencesInv, RingInv, NumberInv, PushInv, StreamInOrder
<1>4. StageInv'
  BY <1>0, <1>1 DEF StageInv
<1>5. MissInv'
  BY <1>0, <1>1 DEF MissInv, Matches
<1> QED
  BY <1>2, <1>3, <1>4, <1>5

LEMMA StreamWrite ==
  ASSUME StreamInv, WriteEvent
  PROVE  StreamInv'
<1> USE DEF StreamInv
<1>0. /\ stream = "open" /\ pending # <<>>
      /\ pending' = Tail(pending) /\ written' = Append(written, Head(pending))
      /\ UNCHANGED <<nextId, pc, current, pushes, events, appended, query, stream, subscribed,
                     closed, gone, backlog, tooOld, between>>
  BY DEF WriteEvent, trace
<1>1. pending \in Seq(Event) /\ written \in Seq(Event)
  BY DEF SequencesInv
<1>2. pending' \in Seq(Event) /\ written' \in Seq(Event) /\ Heard' = Heard
  BY <1>0, <1>1, SendFirst DEF Heard
<1>3. TypeOK'
  <2>1. \A k \in DOMAIN pending' : pending'[k] \in Event
    BY <1>2
  <2>2. \A k \in DOMAIN written' : written'[k] \in Event
    BY <1>2
  <2>3. ToSet(pending') \subseteq Event /\ ToSet(written') \subseteq Event
    <3> HIDE DEF Event
    <3> QED
      BY <2>1, <2>2 DEF ToSet
  <2> QED
    BY <1>0, <2>3 DEF TypeOK
<1>4. SequencesInv' /\ RingInv' /\ NumberInv' /\ PushInv' /\ StreamInOrder'
  BY <1>0, <1>2 DEF SequencesInv, RingInv, NumberInv, PushInv, StreamInOrder
<1>5. StageInv' /\ MissInv'
  BY <1>0, <1>2 DEF StageInv, MissInv, Matches
<1> QED
  BY <1>3, <1>4, <1>5

\* The end of the stream leaves what was written, a beginning of what was heard.
LEMMA StreamEnd ==
  ASSUME StreamInv, EndProvider
  PROVE  StreamInv'
<1> USE DEF StreamInv
<1>0. /\ stream = "open" /\ stream' = "ended"
      /\ pending' = IF pending = <<>> THEN pending ELSE Tail(pending)
      /\ UNCHANGED <<nextId, pc, current, pushes, events, appended, query, subscribed, closed,
                     gone, written, backlog, tooOld, between>>
  BY DEF EndProvider, trace
<1>1. pending \in Seq(Event) /\ written \in Seq(Event)
  BY DEF SequencesInv
<1>2. pending' \in Seq(Event)
  BY <1>0, <1>1, SendFirst
<1>3. Heard' = written /\ Heard = written \o pending
  BY <1>0 DEF Heard
<1>4. /\ DOMAIN Heard' \subseteq DOMAIN Heard
      /\ \A k \in DOMAIN Heard' : Heard'[k] = Heard[k]
  BY <1>1, <1>3
<1>5. TypeOK'
  <2>1. \A k \in DOMAIN pending' : pending'[k] \in Event
    BY <1>2
  <2>2. ToSet(pending') \subseteq Event
    <3> HIDE DEF Event
    <3> QED
      BY <2>1 DEF ToSet
  <2> QED
    BY <1>0, <2>2 DEF TypeOK
<1>6. SequencesInv' /\ RingInv' /\ NumberInv'
  <2>1. ToSet(Heard') \subseteq ToSet(appended)
    BY <1>4 DEF SequencesInv, ToSet
  <2> QED
    BY <1>0, <1>2, <2>1 DEF SequencesInv, RingInv, NumberInv
<1>7. PushInv'
  BY <1>0, <1>4 DEF PushInv
<1>8. StageInv' /\ MissInv'
  BY <1>0 DEF StageInv, MissInv
<1>9. StreamInOrder'
  BY <1>0, <1>4 DEF StreamInOrder
<1> QED
  BY <1>5, <1>6, <1>7, <1>8, <1>9

\* Closing, unsubscribing, a client that leaves and a stutter touch no event.
LEMMA StreamAside ==
  ASSUME StreamInv, Close \/ Unsubscribe \/ ClientLeaves \/ UNCHANGED vars
  PROVE  StreamInv'
<1> USE DEF StreamInv
<1>0. UNCHANGED <<nextId, pc, current, pushes, events, appended, query, stream, pending, written,
                  backlog, tooOld, between>>
  BY DEF Close, Unsubscribe, ClientLeaves, vars, trace
<1>1. Heard' = Heard
  BY <1>0 DEF Heard
<1>2. SequencesInv' /\ RingInv' /\ NumberInv' /\ PushInv' /\ StreamInOrder' /\ MissInv'
  BY <1>0, <1>1 DEF SequencesInv, RingInv, NumberInv, PushInv, StreamInOrder, MissInv, Matches
<1>3. CASE Close
  <2>1. closed' = TRUE /\ stream = "ended" /\ UNCHANGED <<subscribed, gone>>
    BY <1>3 DEF Close
  <2> QED
    BY <1>0, <1>1, <1>2, <2>1 DEF TypeOK, StageInv
<1>4. CASE Unsubscribe
  <2>1. closed /\ subscribed' = FALSE /\ UNCHANGED <<closed, gone>>
    BY <1>4 DEF Unsubscribe
  <2>2. stream = "ended"
    BY <2>1 DEF StageInv
  <2> QED
    BY <1>0, <1>1, <1>2, <2>1, <2>2 DEF TypeOK, StageInv
<1>5. CASE ClientLeaves
  <2>1. gone' = TRUE /\ UNCHANGED <<subscribed, closed>>
    BY <1>5 DEF ClientLeaves
  <2> QED
    BY <1>0, <1>1, <1>2, <2>1 DEF TypeOK, StageInv
<1>6. CASE UNCHANGED vars
  <2>1. UNCHANGED <<subscribed, closed, gone>>
    BY <1>6 DEF vars
  <2> QED
    BY <1>0, <1>1, <1>2, <2>1 DEF TypeOK, StageInv
<1> QED
  BY <1>3, <1>4, <1>5, <1>6

-----------------------------------------------------------------------------
(* The theorems *)

LEMMA StreamStep ==
  ASSUME StreamInv, [Next]_vars
  PROVE  StreamInv'
<1>1. ASSUME NEW r \in Requests, Push(r) PROVE StreamInv'
  BY <1>1, StreamDraw, StreamAppend, StreamCopy, StreamCall DEF Push
<1>2. CASE Handler
  BY <1>2, StreamBacklog, StreamSubscribe, StreamWrite, StreamEnd, StreamAside DEF Handler
<1>3. CASE ClientLeaves \/ Quiet \/ UNCHANGED vars
  BY <1>3, StreamAside DEF Quiet
<1> QED
  BY <1>1, <1>2, <1>3 DEF Next

\* The trace and its stream keep their inductive invariant: however the pushes of
\* any number of requests interleave with the handler of GET /trace/stream.
THEOREM StreamInvariance == Spec => []StreamInv
<1>1. Init => StreamInv
  BY StreamInit
<1>2. StreamInv /\ [Next]_vars => StreamInv'
  BY StreamStep
<1> QED
  BY <1>1, <1>2, PTL DEF Spec

\* Every variable has its type, and the ring never holds more than its capacity.
THEOREM StreamTypes == Spec => []TypeOK
<1>1. StreamInv => TypeOK
  BY DEF StreamInv
<1> QED
  BY <1>1, StreamInvariance, PTL

\* The client is sent the events of each request in the order in which push_event
\* numbered them, and none twice but one that was in the backlog.
THEOREM ClientHearsInOrder == Spec => []StreamInOrder
<1>1. StreamInv => StreamInOrder
  BY DEF StreamInv
<1> QED
  BY <1>1, StreamInvariance, PTL

\* What an open stream misses was cut off by since_id, the ring or the limit, or
\* came between get_events and subscribe.
THEOREM OnlyKnownMisses == Spec => []StreamMissesForAKnownReason
<1>1. StreamInv => StreamMissesForAKnownReason
  BY DEF StreamInv, MissInv, StreamMissesForAKnownReason
<1> QED
  BY <1>1, StreamInvariance, PTL

\* Once the releaser has closed the stream no callback touches its queue.
THEOREM SilenceAfterClose == Spec => NothingAfterClose
<1>1. StreamInv /\ [Next]_vars => [closed => pending' = pending]_vars
  <2> SUFFICES ASSUME StreamInv, [Next]_vars, closed
               PROVE  pending' = pending
    OBVIOUS
  <2>1. stream = "ended"
    BY DEF StreamInv, StageInv
  <2>2. ASSUME NEW r \in Requests, Push(r) PROVE pending' = pending
    BY <2>2 DEF Push, DrawTraceId, AppendTrace, CopySubscribers, CallSubscriber
  <2>3. CASE Handler
    BY <2>1, <2>3 DEF Handler, ReadBacklog, Subscribe, WriteEvent, EndProvider, Close, Unsubscribe
  <2>4. CASE ClientLeaves \/ Quiet \/ UNCHANGED vars
    BY <2>4 DEF ClientLeaves, Quiet, vars
  <2> QED
    BY <2>2, <2>3, <2>4 DEF Next
<1> QED
  BY <1>1, StreamInvariance, PTL DEF Spec, NothingAfterClose
=============================================================================
