------------------------ MODULE ExecutionHistoryProofs ------------------------
(***************************************************************************)
(* Theorems about ExecutionHistory for any finite number of executions and *)
(* any capacity, limit, number of rows and of restarts.                    *)
(*                                                                         *)
(* HistoryInv of ExecutionHistory is inductive.  The log's half is about   *)
(* sequences, the rows' half about finite sets: TopRowsSize counts *)
(* the rows of highest id.                                                 *)
(***************************************************************************)
EXTENDS ExecutionHistory, SequenceTheorems, FiniteSetTheorems, WellFoundedInduction, TLAPS

-----------------------------------------------------------------------------
(* The rows of highest id *)

Distinct(es) == \A e, f \in es : id[e] = id[f] => e = f
Above(e, es) == {f \in es : id[f] > id[e]}

\* A set of executions has one of lowest id.
LEMMA LowestExists ==
  ASSUME id \in [Executions -> Nat], NEW es \in SUBSET Executions, es # {}
  PROVE  \E m \in es : \A e \in es : id[m] <= id[e]
<1> DEFINE ids == {id[e] : e \in es}
<1>1. ids # {} /\ ids \subseteq Nat
  OBVIOUS
<1>2. \E x \in ids : \A y \in ids : ~ (<<y, x>> \in OpToRel(<, Nat))
  <2> HIDE DEF ids
  <2> QED
    BY <1>1, WFMin, NatLessThanWellFounded, Zenon
<1>3. PICK x \in ids : \A y \in ids : ~ (<<y, x>> \in OpToRel(<, Nat))
  BY <1>2
<1>4. \A y \in ids : ~ (y < x)
  <2> HIDE DEF ids
  <2> QED
    BY <1>1, <1>3, Zenon DEF OpToRel
<1>5. PICK m \in es : x = id[m]
  OBVIOUS
<1>6. ASSUME NEW e \in es PROVE id[m] <= id[e]
  BY <1>4, <1>5
<1> QED
  BY <1>6

\* Nobody outranks a row but who has a row, too.
LEMMA TopRowsDominate ==
  ASSUME id \in [Executions -> Nat], NEW es \in SUBSET Executions, Distinct(es),
         ExecutionsAssumption, NEW e \in TopRows(es), NEW f \in es \ TopRows(es)
  PROVE  id[f] < id[e]
<1> SUFFICES ASSUME ~(id[f] < id[e]) PROVE FALSE
  OBVIOUS
<1>1. e \in es /\ Cardinality(Above(e, es)) < MaxItems
      /\ ~(Cardinality(Above(f, es)) < MaxItems)
  BY DEF TopRows, Above
<1>2. IsFiniteSet(Above(e, es)) /\ IsFiniteSet(Above(f, es))
  BY FS_Subset, ExecutionsAssumption DEF Above
<1>3. Above(f, es) \subseteq Above(e, es)
  BY <1>1 DEF Above
<1>4. Cardinality(Above(f, es)) <= Cardinality(Above(e, es))
  BY <1>2, <1>3, FS_Subset
<1>5. /\ Cardinality(Above(f, es)) \in Nat /\ Cardinality(Above(e, es)) \in Nat
      /\ MaxItems \in Nat
  BY <1>2, FS_CardinalityType, SizesAssumption
<1> QED
  BY <1>1, <1>4, <1>5

\* There are as many rows as there is room for.
LEMMA TopRowsSize ==
  ASSUME id \in [Executions -> Nat], NEW all \in SUBSET Executions, Distinct(all)
  PROVE  Cardinality(TopRows(all)) = Smaller(Cardinality(all), MaxItems)
<1> DEFINE Bad == {es \in SUBSET all :
                     Cardinality(TopRows(es)) # Smaller(Cardinality(es), MaxItems)}
<1> SUFFICES ASSUME Bad # {} PROVE FALSE
  OBVIOUS
<1>1. IsFiniteSet(all) /\ FiniteSubsetsOf(all) = SUBSET all
  BY ExecutionsAssumption, FS_Subset, FS_FiniteSubsetsOfFinite
<1>2. \E es \in Bad : \A fs \in Bad : ~ (<<fs, es>> \in StrictSubsetOrdering(all))
  <2>1. Bad \subseteq FiniteSubsetsOf(all)
    BY <1>1
  <2> HIDE DEF Bad
  <2> QED
    BY <2>1, WFMin, FS_StrictSubsetOrderingWellFounded, Zenon
<1>3. PICK es \in Bad : \A fs \in Bad : ~ (<<fs, es>> \in StrictSubsetOrdering(all))
  BY <1>2
<1>4. es \in SUBSET all /\ IsFiniteSet(es) /\ Cardinality(es) \in Nat /\ MaxItems \in Nat \ {0}
  BY <1>1, FS_Subset, FS_CardinalityType, SizesAssumption
<1>5. CASE Cardinality(es) <= MaxItems
  <2>1. ASSUME NEW e \in es PROVE e \in TopRows(es)
    <3>1. Above(e, es) \subseteq es \ {e}
      BY <1>4 DEF Above
    <3>2. IsFiniteSet(es \ {e}) /\ Cardinality(es \ {e}) = Cardinality(es) - 1
      BY <1>4, FS_RemoveElement
    <3>3. IsFiniteSet(Above(e, es)) /\ Cardinality(Above(e, es)) <= Cardinality(es) - 1
      BY <3>1, <3>2, FS_Subset
    <3>4. Cardinality(Above(e, es)) \in Nat
      BY <3>3, FS_CardinalityType
    <3> QED
      BY <1>4, <1>5, <3>3, <3>4 DEF TopRows, Above
  <2>2. TopRows(es) = es
    BY <2>1 DEF TopRows
  <2> QED
    BY <1>4, <1>5, <2>2 DEF Smaller
<1>6. CASE ~(Cardinality(es) <= MaxItems)
  <2>1. es # {}
    BY <1>4, <1>6, FS_EmptySet
  <2>2. PICK m \in es : \A e \in es : id[m] <= id[e]
    BY <1>4, <2>1, LowestExists
  <2> DEFINE fs == es \ {m}
  <2>3. IsFiniteSet(fs) /\ Cardinality(fs) = Cardinality(es) - 1
    BY <1>4, FS_RemoveElement
  <2>4. fs \notin Bad
    <3>1. <<fs, es>> \in StrictSubsetOrdering(all)
      BY <1>4 DEF StrictSubsetOrdering
    <3> QED
      BY <1>3, <3>1
  <2>5. Cardinality(TopRows(fs)) = MaxItems
    BY <1>4, <1>6, <2>3, <2>4 DEF Smaller
  <2>6. Above(m, es) = fs
    BY <1>4, <2>2 DEF Above, Distinct
  <2>7. ~(Cardinality(Above(m, es)) < MaxItems)
    BY <1>4, <1>6, <2>3, <2>6
  <2>8. \A e \in fs : Above(e, es) = Above(e, fs)
    BY <1>4, <2>2 DEF Above
  <2>9. TopRows(es) = TopRows(fs)
    BY <2>7, <2>8 DEF TopRows, Above
  <2> QED
    BY <1>4, <1>6, <2>5, <2>9 DEF Smaller
<1> QED
  BY <1>4, <1>5, <1>6

-----------------------------------------------------------------------------
(* The ring *)

LEMMA NewestProperties ==
  ASSUME NEW s \in Seq(Executions)
  PROVE  /\ Newest(s) \in Seq(Executions)
         /\ Len(Newest(s)) = Smaller(Len(s), Capacity)
         /\ Len(Newest(s)) <= Capacity
         /\ \A i \in DOMAIN Newest(s) : Newest(s)[i] = s[Len(s) - Len(Newest(s)) + i]
<1> DEFINE k == Smaller(Len(s), Capacity)
           m == Len(s) - k + 1
<1>1. Len(s) \in Nat /\ Capacity \in Nat \ {0} /\ \A i \in 1..Len(s) : s[i] \in Executions
  BY LenProperties, SizesAssumption
<1>2. k \in Nat /\ k <= Len(s) /\ k <= Capacity /\ m \in Int /\ m >= 1
  BY <1>1 DEF Smaller
<1>3. \A i \in m..Len(s) : s[i] \in Executions
  BY <1>1, <1>2
<1>4. Newest(s) = SubSeq(s, m, Len(s))
  BY DEF Newest
<1> HIDE DEF k, m
<1>5. /\ SubSeq(s, m, Len(s)) \in Seq(Executions)
      /\ Len(SubSeq(s, m, Len(s))) = IF m <= Len(s) THEN Len(s) - m + 1 ELSE 0
      /\ \A i \in 1..(Len(s) - m + 1) : SubSeq(s, m, Len(s))[i] = s[m + i - 1]
  BY <1>1, <1>2, <1>3, SubSeqProperties
<1>6. Len(Newest(s)) = k
  BY <1>1, <1>2, <1>4, <1>5 DEF m
<1>7. DOMAIN Newest(s) = 1..k
  BY <1>4, <1>5, <1>6, LenProperties
<1>8. ASSUME NEW i \in 1..k PROVE Newest(s)[i] = s[Len(s) - k + i]
  <2>1. i \in 1..(Len(s) - m + 1) /\ m + i - 1 = Len(s) - k + i
    BY <1>1, <1>2 DEF m
  <2> QED
    BY <1>4, <1>5, <2>1
<1> QED
  BY <1>2, <1>4, <1>5, <1>6, <1>7, <1>8 DEF k

LEMMA LogInAppended ==
  ASSUME TypeOK, LogHoldsTheNewest
  PROVE  /\ Elements(log) \subseteq Elements(appended)
         /\ log # <<>> => log[Len(log)] \in Elements(log)
<1>1. /\ Len(log) \in Nat /\ DOMAIN log = 1..Len(log)
      /\ Len(appended) \in Nat /\ DOMAIN appended = 1..Len(appended)
  BY LenProperties DEF TypeOK
<1>2. Len(log) <= Len(appended)
  BY <1>1, SizesAssumption DEF LogHoldsTheNewest, Smaller
<1>3. ASSUME NEW i \in DOMAIN log PROVE log[i] \in Elements(appended)
  <2>1. Len(appended) - Len(log) + i \in DOMAIN appended
    BY <1>1, <1>2
  <2> QED
    BY <2>1 DEF LogHoldsTheNewest, Elements
<1>4. log # <<>> => Len(log) \in DOMAIN log
  BY <1>1, EmptySeq DEF TypeOK
<1> QED
  BY <1>3, <1>4 DEF Elements

\* An event once overtaken remains so.
LEMMA OvertakenKept ==
  ASSUME NEW e, Overtaken(e),
         \A i \in DOMAIN appended : i \in DOMAIN appended' /\ appended'[i] = appended[i],
         \A f \in Elements(appended) : id'[f] = id[f]
  PROVE  Overtaken(e)'
<1>1. PICK i, j \in DOMAIN appended :
        i < j /\ appended[j] = e /\ id[appended[i]] > id[e]
  BY DEF Overtaken
<1>2. id'[appended[i]] = id[appended[i]] /\ id'[e] = id[e]
  BY <1>1 DEF Elements
<1> QED
  BY <1>1, <1>2 DEF Overtaken

-----------------------------------------------------------------------------
(* The inductive invariant, action by action *)

LEMMA HistoryInit == Init => HistoryInv
<1> SUFFICES ASSUME Init PROVE HistoryInv
  OBVIOUS
<1> USE DEF Init
<1>1. /\ <<>> \in Seq(Executions) /\ Len(<<>>) = 0 /\ DOMAIN <<>> = {}
      /\ IsFiniteSet({}) /\ Cardinality({}) = 0 /\ Cardinality(Executions) \in Nat
  BY FS_EmptySet, FS_CardinalityType, ExecutionsAssumption
<1>2. Elements(<<>>) = {}
  BY <1>1 DEF Elements
<1>3. TypeOK
  BY <1>1, SizesAssumption DEF TypeOK, NoReply
<1>4. LogHoldsTheNewest /\ MissedForAKnownReason
  BY <1>1, <1>2, SizesAssumption DEF LogHoldsTheNewest, Smaller, MissedForAKnownReason
<1>5. Drawn = {}
  BY DEF Drawn
<1>6. FlowInv /\ IdInv
  BY <1>1, <1>2, <1>5 DEF FlowInv, IdInv, NoReply
<1>7. CursorInv /\ ReplyInv
  BY DEF CursorInv, ReplyInv, NoReply
<1>8. RowsAreTheNewest
  BY <1>1, SizesAssumption DEF RowsAreTheNewest, Smaller
<1> QED
  BY <1>3, <1>4, <1>6, <1>7, <1>8 DEF HistoryInv

LEMMA HistoryDrawId ==
  ASSUME HistoryInv, NEW e \in Executions, DrawId(e)
  PROVE  HistoryInv'
<1> USE DEF HistoryInv
<1>1. /\ pc[e] = "running" /\ pc'[e] = "numbered" /\ id'[e] = nextId /\ nextId' = nextId + 1
      /\ \A f \in Executions \ {e} : pc'[f] = pc[f] /\ id'[f] = id[f]
      /\ UNCHANGED <<log, appended, restarts, reply, cursor, rows, listed, cutOff>>
  BY DEF DrawId, TypeOK, console
<1>2. e \notin Logged /\ \A f \in Logged : f \in Executions /\ id'[f] = id[f]
  BY <1>1 DEF Logged
<1>3. Logged' = Logged /\ Drawn' = Drawn \cup {e} /\ e \notin Drawn
  BY <1>1 DEF Logged, Drawn
<1>4. Elements(appended) \subseteq Logged /\ Elements(log) \subseteq Logged
  BY LogInAppended DEF FlowInv
<1>5. nextId' \in 1..(Cardinality(Executions) + 1) /\ nextId' <= Cardinality(Drawn') + 1
  <2>1. IsFiniteSet(Drawn) /\ Cardinality(Drawn) \in Nat
    BY ExecutionsAssumption, FS_Subset, FS_CardinalityType DEF Drawn
  <2>2. Cardinality(Drawn') = Cardinality(Drawn) + 1
    BY <1>3, <2>1, FS_AddElement
  <2>3. Drawn' \subseteq Executions
    BY DEF Drawn
  <2>4. Cardinality(Drawn') <= Cardinality(Executions) /\ Cardinality(Executions) \in Nat
    BY <2>3, ExecutionsAssumption, FS_Subset, FS_CardinalityType
  <2> QED
    BY <1>1, <2>1, <2>2, <2>4 DEF FlowInv, TypeOK
<1>6. TypeOK'
  BY <1>1, <1>5 DEF TypeOK, DrawId
<1>7. LogHoldsTheNewest' /\ FlowInv'
  BY <1>1, <1>3, <1>5 DEF LogHoldsTheNewest, FlowInv
<1>8. IdInv'
  <2> SUFFICES ASSUME restarts = 0 PROVE IdInv'
    BY <1>1 DEF IdInv
  <2>1. /\ nextId \in Nat \ {0}
        /\ \A f \in Drawn : f # e /\ id'[f] = id[f] /\ id[f] \in 1..(nextId - 1)
        /\ \A f, g \in Drawn : id[f] = id[g] => f = g
    BY <1>1, <1>3 DEF IdInv, TypeOK, Drawn
  <2>2. \A f \in Drawn \cup {e} : id'[f] \in 1..nextId
    BY <1>1, <2>1
  <2>3. \A f, g \in Drawn \cup {e} : id'[f] = id'[g] => f = g
    BY <1>1, <2>1
  <2> QED
    BY <1>1, <1>3, <2>1, <2>2, <2>3 DEF IdInv
<1>9. CursorInv'
  BY <1>1, <1>2, <1>4 DEF CursorInv
<1>10. \A f : Overtaken(f) => Overtaken(f)'
  BY <1>1, <1>2, <1>4, OvertakenKept
<1>11. ReplyInv' /\ MissedForAKnownReason'
  BY <1>1, <1>2, <1>4, <1>10 DEF ReplyInv, MissedForAKnownReason
<1>12. RowsAreTheNewest'
  <2>1. listed \subseteq Logged
    BY DEF FlowInv
  <2> QED
    BY <1>1, <1>2, <2>1 DEF RowsAreTheNewest
<1> QED
  BY <1>6, <1>7, <1>8, <1>9, <1>11, <1>12

LEMMA HistoryAppendEvent ==
  ASSUME HistoryInv, NEW e \in Executions, AppendEvent(e)
  PROVE  HistoryInv'
<1> USE DEF HistoryInv
<1>1. /\ pc[e] = "numbered" /\ pc'[e] = "logged"
      /\ \A f \in Executions \ {e} : pc'[f] = pc[f]
      /\ log' = Newest(Append(log, e)) /\ appended' = Append(appended, e)
      /\ UNCHANGED <<nextId, id, restarts, reply, cursor, rows, listed, cutOff>>
  BY DEF AppendEvent, TypeOK, console
<1>2. Logged' = Logged \cup {e} /\ Drawn' = Drawn /\ e \notin Logged /\ e \in Drawn
  BY <1>1 DEF Logged, Drawn
<1>3. /\ appended' \in Seq(Executions) /\ Len(appended') = Len(appended) + 1
      /\ Len(appended) \in Nat /\ DOMAIN appended = 1..Len(appended)
      /\ DOMAIN appended' = 1..Len(appended')
      /\ \A i \in 1..Len(appended) : appended'[i] = appended[i]
      /\ appended'[Len(appended')] = e
  BY <1>1, AppendProperties, LenProperties DEF TypeOK
<1>4. Elements(appended') = Elements(appended) \cup {e}
  BY <1>3 DEF Elements
<1> DEFINE s == Append(log, e)
<1>5. /\ log' \in Seq(Executions) /\ Len(log') = Smaller(Len(log) + 1, Capacity)
      /\ Len(log') <= Capacity
      /\ \A i \in DOMAIN log' : log'[i] = s[Len(log) + 1 - Len(log') + i]
      /\ Len(log) \in Nat /\ DOMAIN log = 1..Len(log) /\ DOMAIN log' = 1..Len(log')
      /\ \A i \in 1..Len(log) : s[i] = log[i]
      /\ s[Len(log) + 1] = e
  <2>1. /\ Len(log) \in Nat /\ DOMAIN log = 1..Len(log) /\ log \in Seq(Executions)
    BY LenProperties DEF TypeOK
  <2>2. /\ s \in Seq(Executions) /\ Len(s) = Len(log) + 1
        /\ \A i \in 1..Len(log) : s[i] = log[i]
        /\ s[Len(log) + 1] = e
    BY <2>1, AppendProperties
  <2> HIDE DEF s
  <2>3. /\ Newest(s) \in Seq(Executions)
        /\ Len(Newest(s)) = Smaller(Len(s), Capacity)
        /\ Len(Newest(s)) <= Capacity
        /\ \A i \in DOMAIN Newest(s) : Newest(s)[i] = s[Len(s) - Len(Newest(s)) + i]
    BY <2>2, NewestProperties
  <2>4. DOMAIN Newest(s) = 1..Len(Newest(s))
    BY <2>3, LenProperties
  <2>5. log' = Newest(s)
    BY <1>1 DEF s
  <2> QED
    BY <2>1, <2>2, <2>3, <2>4, <2>5
<1> HIDE DEF s
<1>6. Elements(log') \subseteq Elements(log) \cup {e}
  <2>1. ASSUME NEW i \in DOMAIN log' PROVE log'[i] \in Elements(log) \cup {e}
    <3> DEFINE j == Len(log) + 1 - Len(log') + i
    <3>1. j \in 1..(Len(log) + 1)
      BY <1>5, SizesAssumption DEF Smaller
    <3>2. CASE j \in 1..Len(log)
      BY <1>5, <3>2 DEF Elements
    <3>3. CASE j = Len(log) + 1
      BY <1>5, <3>3
    <3> QED
      BY <1>5, <3>1, <3>2, <3>3
  <2> QED
    BY <2>1 DEF Elements
<1>7. LogHoldsTheNewest'
  <2>1. Len(log') = Smaller(Len(appended'), Capacity)
    BY <1>3, <1>5, SizesAssumption DEF LogHoldsTheNewest, Smaller
  <2>2. ASSUME NEW i \in DOMAIN log'
        PROVE  log'[i] = appended'[Len(appended') - Len(log') + i]
    <3> DEFINE j == Len(log) + 1 - Len(log') + i
    <3>1. j \in 1..(Len(log) + 1)
      BY <1>5, SizesAssumption DEF Smaller
    <3>2. Len(appended') - Len(log') + i = Len(appended) - Len(log) + j
      BY <1>3, <1>5
    <3>3. CASE j \in 1..Len(log)
      <4>1. Len(appended) - Len(log) + j \in 1..Len(appended)
        BY <1>3, <1>5, <3>3, SizesAssumption DEF LogHoldsTheNewest, Smaller
      <4>2. log'[i] = log[j] /\ log[j] = appended[Len(appended) - Len(log) + j]
        BY <1>5, <3>3 DEF LogHoldsTheNewest
      <4> QED
        BY <1>3, <3>2, <4>1, <4>2
    <3>4. CASE j = Len(log) + 1
      <4>1. Len(appended) - Len(log) + j = Len(appended')
        BY <1>3, <1>5, <3>4
      <4>2. log'[i] = e
        BY <1>5, <3>4
      <4> QED
        BY <1>3, <3>2, <4>1, <4>2
    <3> QED
      BY <1>5, <3>1, <3>3, <3>4
  <2> QED
    BY <2>1, <2>2 DEF LogHoldsTheNewest
<1>8. TypeOK'
  BY <1>1, <1>3, <1>5 DEF TypeOK, AppendEvent
<1>9. FlowInv' /\ IdInv'
  BY <1>1, <1>2, <1>4 DEF FlowInv, IdInv
<1>10. CursorInv'
  BY <1>1, <1>4 DEF CursorInv
<1>11. \A f : Overtaken(f) => Overtaken(f)'
  BY <1>1, <1>3, OvertakenKept
\* The new event was overtaken if the console knows an id as high.
<1>12. ASSUME restarts = 0, NEW n \in {cursor, reply.latest}, id[e] <= n
       PROVE  Overtaken(e)'
  <2>1. id[e] \in Nat \ {0} /\ n # 0
    BY <1>2, <1>12 DEF IdInv, TypeOK
  <2>2. PICK f \in Elements(appended) : id[f] = n
    BY <1>12, <2>1 DEF CursorInv
  <2>3. f \in Logged /\ f \in Drawn /\ f # e
    BY <1>2 DEF FlowInv, Logged, Drawn
  <2>4. id[f] > id[e]
    BY <1>2, <1>12, <2>2, <2>3 DEF IdInv, TypeOK, Drawn
  <2>5. PICK i \in DOMAIN appended : appended[i] = f
    BY DEF Elements
  <2>6. i \in DOMAIN appended' /\ Len(appended') \in DOMAIN appended' /\ i < Len(appended')
    BY <1>3
  <2> QED
    BY <1>1, <1>3, <2>4, <2>5, <2>6 DEF Overtaken
<1>13. ReplyInv' /\ MissedForAKnownReason'
  BY <1>1, <1>6, <1>11, <1>12 DEF ReplyInv, MissedForAKnownReason
<1>14. RowsAreTheNewest'
  BY <1>1 DEF RowsAreTheNewest
<1> QED
  BY <1>7, <1>8, <1>9, <1>10, <1>13, <1>14

LEMMA HistoryRestart ==
  ASSUME HistoryInv, Restart
  PROVE  HistoryInv'
<1> USE DEF HistoryInv
<1>1. /\ restarts' = restarts + 1 /\ restarts' \in 1..MaxRestarts /\ nextId' = 1
      /\ log' = <<>> /\ appended' = <<>>
      /\ pc' = [e \in Executions |-> IF pc[e] = "numbered" THEN "lost" ELSE pc[e]]
      /\ UNCHANGED <<id, reply, cursor, rows, listed, cutOff>>
  BY SizesAssumption DEF Restart, TypeOK, console
<1>2. /\ <<>> \in Seq(Executions) /\ Len(<<>>) = 0 /\ DOMAIN <<>> = {}
      /\ Cardinality(Executions) \in Nat
  BY FS_CardinalityType, ExecutionsAssumption
<1>3. Elements(<<>>) = {}
  BY <1>2 DEF Elements
<1>4. TypeOK'
  BY <1>1, <1>2, SizesAssumption DEF TypeOK
<1>5. LogHoldsTheNewest'
  BY <1>1, <1>2, SizesAssumption DEF LogHoldsTheNewest, Smaller
<1>6. FlowInv'
  <2>1. Logged' = Logged
    BY <1>1 DEF Logged
  <2>2. Drawn' \subseteq Executions
    BY DEF Drawn
  <2>3. Cardinality(Drawn') \in Nat
    BY <2>2, ExecutionsAssumption, FS_Subset, FS_CardinalityType
  <2> QED
    BY <1>1, <1>3, <2>1, <2>3 DEF FlowInv
<1>7. restarts' # 0
  BY <1>1
<1> QED
  BY <1>4, <1>5, <1>6, <1>7
     DEF IdInv, CursorInv, ReplyInv, MissedForAKnownReason, RowsAreTheNewest

LEMMA HistoryFetch ==
  ASSUME HistoryInv, Fetch
  PROVE  HistoryInv'
<1> USE DEF HistoryInv
<1>1. /\ reply' = [latest |-> LatestId, events |-> Batch(cursor), open |-> TRUE]
      /\ cutOff' = cutOff \cup ({log[i] : i \in Beyond(cursor)} \ Batch(cursor))
      /\ UNCHANGED <<nextId, pc, id, log, appended, restarts, cursor, rows, listed>>
  BY DEF Fetch, daemon
<1>2. reply'.latest = LatestId /\ reply'.events = Batch(cursor) /\ reply'.open = TRUE
  BY <1>1
<1>3. /\ Elements(log) \subseteq Elements(appended) /\ Elements(log) \subseteq Executions
      /\ log # <<>> => log[Len(log)] \in Elements(log)
  <2>1. Elements(appended) \subseteq Executions
    BY DEF FlowInv, Logged
  <2> QED
    BY <2>1, LogInAppended
<1>4. /\ Batch(cursor) \subseteq Elements(log)
      /\ {log[i] : i \in Beyond(cursor)} \subseteq Elements(log)
  BY DEF Batch, Beyond, Elements
<1>5. LatestId \in Nat /\ (LatestId = 0 \/ \E e \in Elements(appended) : id[e] = LatestId)
  BY <1>3 DEF LatestId, TypeOK
<1>6. TypeOK'
  BY <1>1, <1>2, <1>3, <1>4, <1>5 DEF TypeOK
<1>7. FlowInv'
  BY <1>1, <1>2, <1>3, <1>4 DEF FlowInv, Logged, Drawn
<1>8. IdInv' /\ CursorInv' /\ LogHoldsTheNewest' /\ RowsAreTheNewest'
  BY <1>1, <1>2, <1>5 DEF IdInv, CursorInv, Drawn, LogHoldsTheNewest, RowsAreTheNewest
<1>9. \A f : Overtaken(f) => Overtaken(f)'
  BY <1>1, OvertakenKept
<1>10. ASSUME NEW e \in Elements(log) PROVE id[e] <= cursor \/ e \in Batch(cursor) \cup cutOff'
  <2>1. PICK i \in DOMAIN log : e = log[i]
    BY DEF Elements
  <2>2. id[e] \in Nat /\ cursor \in Nat
    BY <1>3 DEF TypeOK
  <2> QED
    BY <1>1, <2>1, <2>2 DEF Beyond
<1>11. ReplyInv' /\ MissedForAKnownReason'
  BY <1>1, <1>2, <1>9, <1>10 DEF ReplyInv, MissedForAKnownReason
<1> QED
  BY <1>6, <1>7, <1>8, <1>11

\* A reply that is dropped leaves everything else as it was.
LEMMA HistoryPollFails ==
  ASSUME HistoryInv, PollFails \/ UNCHANGED vars
  PROVE  HistoryInv'
<1> USE DEF HistoryInv
<1>1. /\ UNCHANGED <<nextId, pc, id, log, appended, restarts, cursor, rows, listed, cutOff>>
      /\ reply' = reply \/ reply' = NoReply
  BY DEF PollFails, daemon, vars
<1>2. NoReply.latest = 0 /\ NoReply.events = {} /\ NoReply.open = FALSE
  BY DEF NoReply
<1>3. TypeOK' /\ LogHoldsTheNewest'
  <2>1. reply'.latest \in Nat /\ reply'.events \subseteq Executions
    BY <1>1, <1>2 DEF TypeOK
  <2>2. reply'.open \in BOOLEAN
    BY <1>1, <1>2 DEF TypeOK
  <2>3. TypeOK'
    BY <1>1, <1>2, <2>1, <2>2 DEF TypeOK
  <2>4. LogHoldsTheNewest'
    BY <1>1 DEF LogHoldsTheNewest
  <2> QED
    BY <2>3, <2>4
<1>4. FlowInv' /\ IdInv' /\ CursorInv'
  BY <1>1, <1>2 DEF FlowInv, Logged, Drawn, IdInv, CursorInv
<1>5. \A f : Overtaken(f) => Overtaken(f)'
  BY <1>1, OvertakenKept
<1>6. ReplyInv' /\ MissedForAKnownReason' /\ RowsAreTheNewest'
  BY <1>1, <1>2, <1>5 DEF ReplyInv, MissedForAKnownReason, RowsAreTheNewest
<1> QED
  BY <1>3, <1>4, <1>6

\* The rows of highest id among the old ones and the new are those of highest
\* id among all that were ever sent.
LEMMA MergedRows ==
  ASSUME HistoryInv, restarts = 0, NEW new \in SUBSET Executions, Distinct(listed \cup new)
  PROVE  LET merged == TopRows(rows \cup new) IN
         /\ merged \subseteq listed \cup new
         /\ Cardinality(merged) = Smaller(Cardinality(listed \cup new), MaxItems)
         /\ \A e \in merged, f \in (listed \cup new) \ merged : id[f] < id[e]
<1> DEFINE some == rows \cup new
           all == listed \cup new
           merged == TopRows(some)
<1>1. /\ rows \subseteq listed /\ listed \subseteq Executions /\ id \in [Executions -> Nat]
      /\ Cardinality(rows) = Smaller(Cardinality(listed), MaxItems)
      /\ \A e \in rows, f \in listed \ rows : id[f] < id[e]
  BY DEF HistoryInv, TypeOK, RowsAreTheNewest
<1>2. /\ IsFiniteSet(listed) /\ IsFiniteSet(rows) /\ IsFiniteSet(all) /\ IsFiniteSet(some)
      /\ Cardinality(rows) <= Cardinality(some) /\ Cardinality(some) <= Cardinality(all)
  <2>1. IsFiniteSet(all) /\ some \subseteq all /\ rows \subseteq some /\ listed \subseteq all
    BY <1>1, ExecutionsAssumption, FS_Subset
  <2> QED
    BY <2>1, FS_Subset
<1>3. /\ Cardinality(rows) \in Nat /\ Cardinality(listed) \in Nat
      /\ Cardinality(some) \in Nat /\ Cardinality(all) \in Nat /\ MaxItems \in Nat
  BY <1>2, FS_CardinalityType, SizesAssumption
<1>4. some \in SUBSET Executions /\ some \subseteq all /\ Distinct(some)
  BY <1>1 DEF Distinct
<1>5. merged \subseteq some /\ Cardinality(merged) = Smaller(Cardinality(some), MaxItems)
  <2>1. merged \subseteq some
    BY DEF TopRows
  <2> HIDE DEF some
  <2> QED
    BY <1>1, <1>4, <2>1, TopRowsSize
<1>6. \A e \in merged, f \in some \ merged : id[f] < id[e]
  <2> HIDE DEF some
  <2> QED
    BY <1>1, <1>4, TopRowsDominate, ExecutionsAssumption
<1>7. CASE rows = listed
  BY <1>4, <1>5, <1>6, <1>7
<1>8. CASE rows # listed
  <2>1. Cardinality(rows) = MaxItems
    <3>1. Cardinality(rows) # Cardinality(listed)
      BY <1>1, <1>2, <1>8, FS_Subset
    <3> QED
      BY <1>1, <1>3, <3>1 DEF Smaller
  <2>2. Cardinality(merged) = MaxItems /\ Smaller(Cardinality(all), MaxItems) = MaxItems
    BY <1>2, <1>3, <1>5, <2>1 DEF Smaller
  <2>3. ASSUME NEW e \in merged, NEW f \in all \ merged PROVE id[f] < id[e]
    <3>1. CASE f \in some
      BY <1>6, <3>1
    <3>2. CASE f \notin some /\ e \in rows
      BY <1>1, <3>2
    <3>3. CASE f \notin some /\ e \notin rows
      <4>1. f \in listed \ rows /\ e \in Executions /\ f \in Executions
        BY <1>1, <1>4, <1>5, <3>3
      <4>2. id[e] # id[f]
        BY <1>4, <1>5, <3>3 DEF Distinct
      <4>3. CASE id[e] < id[f]
        <5>1. rows \subseteq Above(e, some) /\ Above(e, some) \subseteq some
          BY <1>1, <4>1, <4>3 DEF Above
        <5>2. IsFiniteSet(Above(e, some)) /\ Cardinality(rows) <= Cardinality(Above(e, some))
          BY <1>2, <5>1, FS_Subset
        <5>3. Cardinality(Above(e, some)) < MaxItems /\ Cardinality(Above(e, some)) \in Nat
          BY <5>2, FS_CardinalityType DEF TopRows, Above
        <5> QED
          BY <1>3, <2>1, <5>2, <5>3
      <4> QED
        BY <1>1, <4>1, <4>2, <4>3
    <3> QED
      BY <3>1, <3>2, <3>3
  <2> QED
    BY <1>4, <1>5, <2>2, <2>3
<1> QED
  BY <1>7, <1>8

LEMMA HistoryMerge ==
  ASSUME HistoryInv, Merge
  PROVE  HistoryInv'
<1> USE DEF HistoryInv
<1> DEFINE new == reply.events
           old == {e \in rows : \A f \in new : id[f] # id[e]}
<1>1. /\ reply.open
      /\ rows' = TopRows(old \cup new) /\ listed' = listed \cup new
      /\ cursor' = Larger(cursor, reply.latest) /\ reply' = NoReply
      /\ UNCHANGED <<nextId, pc, id, log, appended, restarts, cutOff>>
  BY DEF Merge, daemon
<1>2. reply'.latest = 0 /\ reply'.events = {} /\ reply'.open = FALSE
  BY <1>1 DEF NoReply
<1>3. cursor' \in {cursor, reply.latest} /\ cursor' \in Nat
  BY <1>1 DEF Larger, TypeOK
<1>4. rows' \subseteq Executions /\ listed' \subseteq Executions
  BY <1>1 DEF TopRows, TypeOK
<1>5. TypeOK' /\ LogHoldsTheNewest'
  <2>1. reply'.latest \in Nat /\ reply'.events \subseteq Executions
    BY <1>1, <1>2 DEF TypeOK
  <2>2. reply'.open \in BOOLEAN
    BY <1>1, <1>2 DEF TypeOK
  <2>3. TypeOK'
    BY <1>1, <1>2, <1>3, <1>4, <2>1, <2>2 DEF TypeOK
  <2>4. LogHoldsTheNewest'
    BY <1>1 DEF LogHoldsTheNewest
  <2> QED
    BY <2>3, <2>4
<1>6. FlowInv' /\ IdInv' /\ CursorInv' /\ ReplyInv'
  BY <1>1, <1>2, <1>3 DEF FlowInv, Logged, Drawn, IdInv, CursorInv, ReplyInv
<1>7. \A f : Overtaken(f) => Overtaken(f)'
  BY <1>1, OvertakenKept
<1>8. MissedForAKnownReason'
  <2> SUFFICES ASSUME restarts = 0, NEW e \in Elements(log), id[e] <= cursor', e \notin listed'
               PROVE  e \in cutOff \/ Overtaken(e)
    BY <1>1, <1>7 DEF MissedForAKnownReason
  <2>1. e \notin listed /\ e \notin reply.events
    BY <1>1
  <2>2. id[e] <= cursor \/ id[e] <= reply.latest
    BY <1>3
  <2>3. CASE id[e] <= cursor
    BY <2>1, <2>3 DEF MissedForAKnownReason
  <2>4. CASE id[e] <= reply.latest
    BY <1>1, <2>1, <2>3, <2>4 DEF ReplyInv
  <2> QED
    BY <2>2, <2>3, <2>4
<1>9. RowsAreTheNewest'
  <2> SUFFICES ASSUME restarts = 0 PROVE RowsAreTheNewest'
    BY <1>1 DEF RowsAreTheNewest
  <2>1. listed \cup new \subseteq Drawn /\ new \in SUBSET Executions /\ rows \subseteq listed
    BY DEF FlowInv, Logged, Drawn, RowsAreTheNewest
  <2>2. Distinct(listed \cup new)
    BY <2>1 DEF Distinct, IdInv
  <2>3. old \cup new = rows \cup new
    BY <2>1, <2>2 DEF Distinct
  <2>4. LET merged == TopRows(rows \cup new) IN
        /\ merged \subseteq listed \cup new
        /\ Cardinality(merged) = Smaller(Cardinality(listed \cup new), MaxItems)
        /\ \A e \in merged, f \in (listed \cup new) \ merged : id[f] < id[e]
    BY <2>1, <2>2, MergedRows
  <2>5. rows' = TopRows(rows \cup new)
    BY <1>1, <2>3
  <2> HIDE DEF new, old
  <2> QED
    BY <1>1, <2>4, <2>5 DEF RowsAreTheNewest
<1> QED
  BY <1>5, <1>6, <1>8, <1>9

-----------------------------------------------------------------------------
(* The theorems *)

\* The strengthening holds in every reachable state, restarts included.
THEOREM HistoryInvariance == Spec => []HistoryInv
<1>1. HistoryInv /\ [Next]_vars => HistoryInv'
  BY HistoryDrawId, HistoryAppendEvent, HistoryRestart, HistoryFetch, HistoryMerge,
     HistoryPollFails DEF Next
<1> QED
  BY <1>1, HistoryInit, PTL DEF Spec

\* Every variable keeps its type; ids and the ring stay within their bounds.
THEOREM HistoryTypes == Spec => []TypeOK
<1>1. HistoryInv => TypeOK
  BY DEF HistoryInv
<1> QED
  BY <1>1, HistoryInvariance, PTL

\* The ring holds the events appended last, whatever threads append at once.
THEOREM RingIsExact == Spec => []LogHoldsTheNewest
<1>1. HistoryInv => LogHoldsTheNewest
  BY DEF HistoryInv
<1> QED
  BY <1>1, HistoryInvariance, PTL

\* An event the cursor has passed is missing from the console only because a
\* poll was cut at its limit or because a higher id was appended before it.
THEOREM OnlyKnownGaps == Spec => []MissedForAKnownReason
<1>1. HistoryInv => MissedForAKnownReason
  BY DEF HistoryInv
<1> QED
  BY <1>1, HistoryInvariance, PTL

\* However the events were batched, the rows are those of highest id of all.
THEOREM RowsAreNewest == Spec => []RowsAreTheNewest
<1>1. HistoryInv => RowsAreTheNewest
  BY DEF HistoryInv
<1> QED
  BY <1>1, HistoryInvariance, PTL
===============================================================================
