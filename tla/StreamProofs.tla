---------------------------- MODULE StreamProofs ----------------------------
(***************************************************************************)
(* Proofs about modules StreamId and Stream, for every width of the        *)
(* numbers in an id and every number of entries.                           *)
(***************************************************************************)
EXTENDS Stream, WellFoundedInduction, TLAPS

USE IdMaxAssumption DEF UInt, StreamID, ZeroID

\* Every set of numbers has a least one: what follows argues by the least
\* counterexample.
LEMMA LeastNumber ==
    ASSUME NEW T \in SUBSET Nat, T # {}
    PROVE  \E n \in T : \A m \in T : n <= m
<1> DEFINE Less == {p \in Nat \X Nat : p[1] < p[2]}
<1>1. IsWellFoundedOn(Less, Nat)
  BY NatLessThanWellFounded, Zenon DEF OpToRel
<1> HIDE DEF Less
<1>2. PICK n \in T : \A m \in T : <<m, n>> \notin Less
  BY <1>1, WFMin
<1>3. \A m \in T : <<m, n>> \in Nat \X Nat /\ <<m, n>>[1] = m /\ <<m, n>>[2] = n
  OBVIOUS
<1>4. \A m \in T : ~(m < n)
  BY <1>2, <1>3, Zenon DEF Less
<1> QED
  BY <1>4

-----------------------------------------------------------------------------
(* Printing *)

\* Power is the function that its definition describes.
LEMMA PowerDefined ==
    Power = [n \in 0..(IdMax + 1) |-> IF n = 0 THEN 1 ELSE Base * Power[n - 1]]
<1> DEFINE Upto(f, n) == f = [k \in 0..n |-> IF k = 0 THEN 1 ELSE Base * f[k - 1]]
           T == {n \in Nat : ~ \E f : Upto(f, n)}
<1>1. T = {}
  <2>1. SUFFICES ASSUME T # {} PROVE FALSE
    OBVIOUS
  <2>2. PICK n \in T : \A m \in T : n <= m
    BY <2>1, LeastNumber
  <2>3. CASE n = 0
    <3>1. Upto([k \in 0..0 |-> 1], 0)
      OBVIOUS
    <3> QED
      BY <2>2, <2>3, <3>1
  <2>4. CASE n # 0
    <3>1. n - 1 \in Nat /\ n - 1 \notin T
      BY <2>2, <2>4
    <3>2. PICK f : Upto(f, n - 1)
      BY <3>1
    <3> DEFINE g == [k \in 0..n |-> IF k = n THEN Base * f[n - 1] ELSE f[k]]
    <3>3. \A k \in 0..n : g[k] = IF k = 0 THEN 1 ELSE Base * g[k - 1]
      <4>1. \A k \in 0..(n - 1) : f[k] = IF k = 0 THEN 1 ELSE Base * f[k - 1]
        BY <3>2
      <4> QED
        BY <2>4, <3>1, <4>1
    <3>4. Upto(g, n)
      BY <3>3
    <3> QED
      BY <2>2, <3>4
  <2> QED
    BY <2>3, <2>4
<1>2. \A n \in Nat : \E f : Upto(f, n)
  BY <1>1, Zenon
<1>3. \E f : Upto(f, IdMax + 1)
  <2>1. IdMax + 1 \in Nat
    OBVIOUS
  <2> HIDE DEF Upto
  <2> QED
    BY <1>2, <2>1
<1> QED
  BY <1>3 DEF Power

\* A number n has at most n + 1 digits: powers are positive and outgrow it.
LEMMA PowerGrows ==
    \A n \in 0..(IdMax + 1) : Power[n] \in Nat /\ Power[n] > n
<1> DEFINE T == {n \in 0..(IdMax + 1) : ~(Power[n] \in Nat /\ Power[n] > n)}
<1>1. SUFFICES ASSUME T # {} PROVE FALSE
  OBVIOUS
<1>2. T \in SUBSET Nat
  OBVIOUS
<1>3. PICK n \in T : \A m \in T : n <= m
  BY <1>1, <1>2, LeastNumber
<1>4. CASE n = 0
  BY <1>3, <1>4, PowerDefined
<1>5. CASE n # 0
  <2>1. n - 1 \in 0..(IdMax + 1) /\ n - 1 \notin T
    BY <1>3, <1>5
  <2>2. Power[n] = Base * Power[n - 1]
    BY <1>3, <1>5, PowerDefined
  <2>3. Power[n - 1] \in Nat /\ Power[n - 1] > n - 1
    BY <2>1
  <2> HIDE DEF T
  <2>4. ASSUME NEW p \in Nat, p > n - 1 PROVE Base * p \in Nat /\ Base * p > n
    <3>1. n \in Nat
      BY <1>3 DEF T
    <3>2. p >= n /\ p >= 1
      BY <1>5, <2>4, <3>1
    <3>3. Base * p >= 2 * p
      BY <3>2, BaseAssumption
    <3> QED
      BY <3>1, <3>2, <3>3, BaseAssumption
  <2>5. Power[n] \in Nat /\ Power[n] > n
    BY <2>2, <2>3, <2>4
  <2> QED
    BY <1>3, <2>5 DEF T
<1> QED
  BY <1>4, <1>5

\* Longer numbers are larger.
LEMMA PowerMonotone ==
    ASSUME NEW i \in 0..(IdMax + 1), NEW j \in i..(IdMax + 1)
    PROVE  Power[i] <= Power[j]
<1> DEFINE T == {n \in i..(IdMax + 1) : ~(Power[i] <= Power[n])}
<1>1. SUFFICES ASSUME T # {} PROVE FALSE
  OBVIOUS
<1>2. T \in SUBSET Nat
  OBVIOUS
<1>3. PICK n \in T : \A m \in T : n <= m
  BY <1>1, <1>2, LeastNumber
<1>4. n # i
  BY <1>3, PowerGrows
<1>5. n - 1 \in i..(IdMax + 1) /\ n - 1 \notin T
  BY <1>3, <1>4
<1>6. Power[n] = Base * Power[n - 1]
  <2>1. n \in 1..(IdMax + 1)
    BY <1>3, <1>4
  <2> QED
    BY <2>1, PowerDefined
<1>7. Power[i] \in Nat /\ Power[n - 1] \in Nat /\ Power[i] <= Power[n - 1]
  BY <1>5, PowerGrows
<1>8. \A p \in Nat : Base * p >= p
  BY BaseAssumption
<1>9. Base * Power[n - 1] \in Nat
  BY <1>7, BaseAssumption
<1> HIDE DEF T
<1>10. Power[i] <= Power[n]
  BY <1>6, <1>7, <1>8, <1>9
<1> QED
  BY <1>3, <1>10 DEF T

\* What "%lu" prints has a number of digits, and they are not too many.
LEMMA DigitsDefined ==
    ASSUME NEW n \in UInt
    PROVE  /\ Digits(n) \in 1..(IdMax + 1)
           /\ n < Power[Digits(n)]
           /\ Digits(n) = 1 \/ n >= Power[Digits(n) - 1]
<1> DEFINE T == {d \in 1..(IdMax + 1) : n < Power[d]}
<1>1. IdMax + 1 \in T
  BY PowerGrows
<1>2. T \in SUBSET Nat
  OBVIOUS
<1>3. PICK d \in T : \A e \in T : d <= e
  BY <1>1, <1>2, LeastNumber
<1>4. d = 1 \/ n >= Power[d - 1]
  <2>1. SUFFICES ASSUME d # 1 PROVE n >= Power[d - 1]
    OBVIOUS
  <2>2. d - 1 \in 1..(IdMax + 1) /\ d - 1 \notin T
    BY <1>3, <2>1
  <2>3. Power[d - 1] \in Nat
    BY <2>2, PowerGrows
  <2> QED
    BY <2>2, <2>3
<1> QED
  BY <1>3, <1>4 DEF Digits

\* No number has more digits than IdMax.
LEMMA DigitsMonotone == ASSUME NEW n \in UInt PROVE Digits(n) <= Digits(IdMax)
<1> DEFINE d == Digits(n)
           e == Digits(IdMax)
<1>1. /\ d \in 1..(IdMax + 1) /\ (d = 1 \/ n >= Power[d - 1])
      /\ e \in 1..(IdMax + 1) /\ IdMax < Power[e]
  BY DigitsDefined
<1> HIDE DEF d, e
<1>2. SUFFICES ASSUME d > e PROVE FALSE
  BY <1>1 DEF d, e
<1>3. d - 1 \in e..(IdMax + 1) /\ n >= Power[d - 1]
  BY <1>1, <1>2
<1>4. Power[e] <= Power[d - 1] /\ Power[e] \in Nat /\ Power[d - 1] \in Nat
  BY <1>1, <1>3, PowerMonotone, PowerGrows
<1> QED
  BY <1>1, <1>3, <1>4

\* An id that is cut is still a pair of uint64_t.
LEMMA PrintedType == ASSUME NEW id \in StreamID PROVE generateStreamID(id) \in StreamID
<1> DEFINE over == Digits(id.seq) - (IdChars - Digits(id.ms) - 1)
<1>1. Digits(id.seq) \in 1..(IdMax + 1) /\ Digits(id.ms) \in 1..(IdMax + 1)
  BY DigitsDefined
<1>2. ASSUME over > 0 PROVE id.seq \div Power[over] \in UInt
  <2>1. over \in 1..(IdMax + 1)
    <3>1. Digits(id.ms) <= Digits(IdMax) /\ Digits(IdMax) \in 1..(IdMax + 1)
      BY DigitsMonotone, DigitsDefined
    <3> QED
      BY <1>1, <1>2, <3>1, IdCharsAssumption
  <2>2. Power[over] \in Nat /\ Power[over] > 0
    BY <2>1, PowerGrows
  <2> QED
    BY <2>2
<1> QED
  BY <1>2 DEF generateStreamID

-----------------------------------------------------------------------------
(* Ids *)

\* compareStreamIDs is a strict total order on ids.
LEMMA CompareOrder ==
    ASSUME NEW a \in StreamID, NEW b \in StreamID, NEW c \in StreamID
    PROVE  /\ compareStreamIDs(a, b) = 0 <=> a = b
           /\ compareStreamIDs(a, b) = 1 <=> compareStreamIDs(b, a) = -1
           /\ compareStreamIDs(a, b) \in {-1, 0, 1}
           /\ compareStreamIDs(a, b) = -1 /\ compareStreamIDs(b, c) = -1
                => compareStreamIDs(a, c) = -1
<1>1. compareStreamIDs(a, b) = 0 <=> a = b
  BY DEF compareStreamIDs
<1>2. compareStreamIDs(a, b) = 1 <=> compareStreamIDs(b, a) = -1
  BY DEF compareStreamIDs
<1>3. compareStreamIDs(a, b) \in {-1, 0, 1}
  BY DEF compareStreamIDs
<1>4. compareStreamIDs(a, b) = -1 /\ compareStreamIDs(b, c) = -1
        => compareStreamIDs(a, c) = -1
  BY DEF compareStreamIDs
<1> QED
  BY <1>1, <1>2, <1>3, <1>4

\* isIdInRange, XRANGE's own comparison of milliseconds and sequence numbers,
\* is the interval of the order that XREAD's compareStreamIDs defines.
THEOREM RangeIsInterval ==
    ASSUME NEW id \in StreamID, NEW start \in StreamID, NEW end \in StreamID
    PROVE  isIdInRange(id, start, end) <=>
              (id = start \/ compareStreamIDs(id, start) > 0)
                /\ ~(compareStreamIDs(id, end) > 0)
<1>1. isIdInRange(id, start, end) <=>
        compareStreamIDs(id, start) \in {0, 1} /\ compareStreamIDs(id, end) \in {-1, 0}
  BY DEF isIdInRange, compareStreamIDs
<1>2. /\ compareStreamIDs(id, start) \in {-1, 0, 1}
      /\ compareStreamIDs(id, end) \in {-1, 0, 1}
      /\ compareStreamIDs(id, start) = 0 <=> id = start
  BY CompareOrder
<1> QED
  BY <1>1, <1>2

-----------------------------------------------------------------------------
(* Types *)

\* Stored ids, the top item's among them, are pairs of uint64_t.
LEMMA EntryType ==
    ASSUME entries \in Seq(Entry)
    PROVE  /\ \A i \in 1..Len(entries) : entries[i].id \in StreamID
           /\ entries # <<>> => tail \in StreamID /\ Len(entries) \in 1..Len(entries)
<1>1. \A i \in 1..Len(entries) : entries[i] \in Entry
  OBVIOUS
<1>2. \A i \in 1..Len(entries) : entries[i].id \in StreamID
  BY <1>1 DEF Entry
<1>3. entries # <<>> => Len(entries) \in 1..Len(entries)
  OBVIOUS
<1> QED
  BY <1>2, <1>3 DEF tail

\* XADD works with a pair of uint64_t.
LEMMA NewIDType ==
    ASSUME NEW a \in IdArg, a.kind # "malformed", NEW now \in UInt,
           entries \in Seq(Entry)
    PROVE  NewID(a, now) \in StreamID
<1>1. parseStreamID(a, now) \in StreamID
  BY DEF parseStreamID, IdArg
<1>2. ASSUME NEW ms \in UInt PROVE getNextSequence(ms) \in UInt
  <2>1. CASE entries = <<>>
    BY <2>1 DEF getNextSequence
  <2>2. CASE entries # <<>>
    <3>1. tail \in StreamID
      BY <2>2, EntryType
    <3>2. (tail.seq + 1) % (IdMax + 1) \in 0..IdMax
      BY <3>1
    <3> QED
      BY <2>2, <3>2 DEF getNextSequence
  <2> QED
    BY <2>1, <2>2
<1> QED
  BY <1>1, <1>2 DEF NewID

\* XREAD's reply is one of the entries found, the first.
LEMMA FirstFound ==
    ASSUME NEW found \in SUBSET Nat, found # {}
    PROVE  /\ createXreadResponse(found) \in found
           /\ \A j \in found : createXreadResponse(found) <= j
<1>1. PICK i \in found : \A j \in found : i <= j
  BY LeastNumber
<1> QED
  BY <1>1 DEF createXreadResponse

\* Every step keeps the types, that of the id printed into too small a buffer
\* included.
LEMMA TypeStep == ASSUME TypeOK, [Next]_vars PROVE TypeOK'
<1>1. ASSUME NEW a \in IdArg, XAddMalformed(a) PROVE TypeOK'
  BY <1>1 DEF XAddMalformed, TypeOK
<1>2. ASSUME NEW a \in IdArg, NEW now \in UInt, XAdd(a, now) PROVE TypeOK'
  <2> DEFINE id == NewID(a, now)
             e == [id |-> generateStreamID(id), full |-> id]
  <2>1. entries \in Seq(Entry) /\ seen \in Seq(1..Len(entries))
    BY DEF TypeOK
  <2>2. id \in StreamID
    BY <1>2, <2>1, NewIDType DEF XAdd
  <2>3. e \in Entry
    BY <2>2, PrintedType, Zenon DEF Entry
  <2>4. entries' = entries \/ entries' = Append(entries, e)
    BY <1>2 DEF XAdd
  <2> HIDE DEF e
  <2>5. entries' \in Seq(Entry) /\ Len(entries') <= MaxEntries /\ Len(entries') >= Len(entries)
    BY <1>2, <2>1, <2>3, <2>4, MaxEntriesAssumption DEF XAdd, TypeOK
  <2>6. seen' \in Seq(1..Len(entries'))
    BY <1>2, <2>1, <2>5 DEF XAdd
  <2> QED
    BY <1>2, <2>5, <2>6 DEF XAdd, TypeOK
<1>3. CASE XRead
  <2> DEFINE i == createXreadResponse(streamRead(cursor))
  <2>1. i \in 1..Len(entries)
    <3>1. streamRead(cursor) \subseteq 1..Len(entries) /\ streamRead(cursor) # {}
      BY <1>3 DEF XRead, streamRead
    <3>2. streamRead(cursor) \in SUBSET Nat
      BY <3>1
    <3> QED
      BY <3>1, <3>2, FirstFound
  <2>2. entries \in Seq(Entry) /\ entries[i].id \in StreamID
    BY <2>1, EntryType DEF TypeOK
  <2>3. seen' = Append(seen, i) /\ cursor' = entries[i].id /\ UNCHANGED <<entries, alive>>
    BY <1>3 DEF XRead
  <2> HIDE DEF i
  <2> QED
    BY <2>1, <2>2, <2>3 DEF TypeOK
<1>4. CASE UNCHANGED vars
  BY <1>4 DEF vars, TypeOK
<1> QED
  BY <1>1, <1>2, <1>3, <1>4 DEF Next

\* Ids stay pairs of uint64_t, whatever is cut off when they are printed, and
\* the follower is sent entries that exist.
THEOREM TypeCorrect == Spec => []TypeOK
<1>1. Init => TypeOK
  BY MaxEntriesAssumption DEF Init, TypeOK, Entry
<1> QED
  BY <1>1, TypeStep, PTL DEF Spec

-----------------------------------------------------------------------------
(* The inductive invariant *)

\* Ids increase, and lie above 0-0.
Increasing ==
    /\ \A i \in 1..Len(entries) : compareStreamIDs(entries[i].id, ZeroID) = 1
    /\ \A i, j \in 1..Len(entries) :
          i < j => compareStreamIDs(entries[i].id, entries[j].id) = -1

\* The follower has been sent the first Len(seen) entries, and its cursor is
\* the id of the last of them.
Following ==
    /\ seen \in Seq(Nat)
    /\ Len(seen) <= Len(entries)
    /\ \A i \in 1..Len(seen) : seen[i] = i
    /\ cursor = IF seen = <<>> THEN ZeroID ELSE entries[Len(seen)].id

\* Nothing is claimed of a stream that holds a cut id: what the digits that
\* are left say is not related to the id that was meant.
IInv == TypeOK /\ (NoneCut => Increasing /\ Following)

\* What passes isValidNextID lies above 0-0 and above the top item.
LEMMA ValidIsAbove ==
    ASSUME NEW id \in StreamID, entries \in Seq(Entry), isValidNextID(id)
    PROVE  /\ compareStreamIDs(id, ZeroID) = 1
           /\ entries # <<>> => compareStreamIDs(tail, id) = -1
<1>1. compareStreamIDs(id, ZeroID) = 1
  BY DEF isValidNextID, compareStreamIDs
<1>2. ASSUME entries # <<>> PROVE compareStreamIDs(tail, id) = -1
  <2>1. tail \in StreamID
    BY <1>2, EntryType
  <2> QED
    BY <1>2, <2>1 DEF isValidNextID, compareStreamIDs
<1> QED
  BY <1>1, <1>2

\* streamAdd keeps the invariant: the id it lets through is above the top item.
LEMMA AddStep ==
    ASSUME IInv, TypeOK', NEW a \in IdArg, NEW now \in UInt, XAdd(a, now)
    PROVE  IInv'
<1> DEFINE id == NewID(a, now)
           e == [id |-> generateStreamID(id), full |-> id]
           n == Len(entries)
<1>1. CASE entries' = entries
  BY <1>1 DEF IInv, XAdd, NoneCut, Increasing, Following
<1>2. CASE isValidNextID(id) /\ entries' = Append(entries, e)
  <2>1. entries \in Seq(Entry) /\ id \in StreamID
    BY NewIDType DEF XAdd, IInv, TypeOK
  <2>2. /\ n \in Nat
        /\ Len(entries') = n + 1
        /\ \A i \in 1..n : entries'[i] = entries[i]
        /\ entries'[n + 1] = e
    <3> HIDE DEF e
    <3> QED
      BY <1>2, <2>1
  <2>3. ASSUME NoneCut'
        PROVE  (Increasing /\ Following)'
    <3> HIDE DEF e, id
    <3>1. NoneCut /\ e.id = e.full
      BY <2>2, <2>3 DEF NoneCut
    <3>2. entries \in Seq(Entry) /\ Increasing /\ Following
      BY <2>1, <3>1 DEF IInv
    <3>3. id \in StreamID
      BY <2>1
    <3>4. e.id = id
      BY <3>1 DEF e
    <3>6. /\ compareStreamIDs(id, ZeroID) = 1
          /\ entries # <<>> => compareStreamIDs(tail, id) = -1
      BY <1>2, <3>2, <3>3, ValidIsAbove
    <3>7. \A i \in 1..n : compareStreamIDs(entries[i].id, id) = -1
      <4>1. SUFFICES ASSUME NEW i \in 1..n
                     PROVE  compareStreamIDs(entries[i].id, id) = -1
        OBVIOUS
      <4>2. entries # <<>> /\ n \in 1..n
        BY <3>2
      <4>3. entries[i].id \in StreamID /\ tail \in StreamID
        BY <3>2, <4>2, EntryType
      <4>4. CASE i = n
        BY <3>6, <4>2, <4>4 DEF tail
      <4>5. CASE i < n
        <5>1. compareStreamIDs(entries[i].id, tail) = -1
          BY <3>2, <4>2, <4>5 DEF Increasing, tail
        <5> QED
          BY <3>3, <3>6, <4>2, <4>3, <5>1, CompareOrder
      <4> QED
        BY <2>2, <4>4, <4>5
    <3>8. \A i \in 1..(n+1) : i \in 1..n \/ i = n + 1
      BY <2>2
    <3>9. Increasing'
      <4>1. \A i \in 1..(n+1) : compareStreamIDs(entries'[i].id, ZeroID) = 1
        BY <2>2, <3>2, <3>4, <3>6, <3>8 DEF Increasing
      <4>2. ASSUME NEW i \in 1..(n+1), NEW j \in 1..(n+1), i < j
            PROVE  compareStreamIDs(entries'[i].id, entries'[j].id) = -1
        <5>1. i \in 1..n
          BY <2>2, <4>2
        <5>2. CASE j \in 1..n
          BY <2>2, <3>2, <4>2, <5>1, <5>2 DEF Increasing
        <5>3. CASE j = n + 1
          BY <2>2, <3>4, <3>7, <5>1, <5>3
        <5> QED
          BY <3>8, <5>2, <5>3
      <4> QED
        BY <2>2, <4>1, <4>2 DEF Increasing
    <3>10. Following'
      <4>1. seen' = seen /\ cursor' = cursor
        BY DEF XAdd
      <4>2. seen # <<>> => entries'[Len(seen)] = entries[Len(seen)]
        BY <2>2, <3>2 DEF Following
      <4> QED
        BY <2>2, <3>2, <4>1, <4>2 DEF Following
    <3> QED
      BY <3>9, <3>10
  <2> QED
    BY <2>3 DEF IInv
<1> QED
  BY <1>1, <1>2 DEF XAdd

\* With increasing ids, the first entry above the follower's cursor is the
\* one after those it has been sent.
LEMMA FirstNew ==
    ASSUME entries \in Seq(Entry), Increasing, Following, streamRead(cursor) # {}
    PROVE  /\ Len(seen) + 1 \in 1..Len(entries)
           /\ createXreadResponse(streamRead(cursor)) = Len(seen) + 1
<1> DEFINE k == Len(seen)
           found == streamRead(cursor)
<1>1. k \in Nat /\ k <= Len(entries) /\ Len(entries) \in Nat
  BY DEF Following
<1>2. \A i \in 1..Len(entries) : entries[i].id \in StreamID
  BY EntryType
<1>3. \A i \in 1..Len(entries) : i \in found <=> i > k
  <2>1. SUFFICES ASSUME NEW i \in 1..Len(entries) PROVE i \in found <=> i > k
    OBVIOUS
  <2>2. i \in found <=> compareStreamIDs(entries[i].id, cursor) > 0
    BY DEF streamRead
  <2>3. CASE seen = <<>>
    <3>1. cursor = ZeroID /\ k = 0
      BY <2>3 DEF Following
    <3>2. compareStreamIDs(entries[i].id, cursor) = 1
      BY <3>1 DEF Increasing
    <3> QED
      BY <2>2, <3>1, <3>2
  <2>4. CASE seen # <<>>
    <3>1. cursor = entries[k].id /\ k \in 1..Len(entries)
      BY <1>1, <2>4 DEF Following
    <3>2. CASE i > k
      <4>1. compareStreamIDs(entries[k].id, entries[i].id) = -1
        BY <1>1, <3>1, <3>2 DEF Increasing
      <4>2. compareStreamIDs(entries[i].id, cursor) = 1
        BY <1>2, <3>1, <4>1, CompareOrder
      <4> QED
        BY <2>2, <3>2, <4>2
    <3>3. CASE i <= k
      <4>1. compareStreamIDs(entries[i].id, cursor) \in {-1, 0}
        BY <1>1, <1>2, <3>1, <3>3, CompareOrder DEF Increasing
      <4> QED
        BY <1>1, <2>2, <3>3, <4>1
    <3> QED
      BY <1>1, <3>2, <3>3
  <2> QED
    BY <2>3, <2>4
<1>4. found \subseteq 1..Len(entries)
  BY DEF streamRead
<1> HIDE DEF found
<1>5. k + 1 \in 1..Len(entries) /\ k + 1 \in found
  <2>1. PICK i \in 1..Len(entries) : i \in found
    BY <1>4 DEF found
  <2> QED
    BY <1>1, <1>3, <2>1
<1>6. \A j \in found : k + 1 <= j
  BY <1>1, <1>3, <1>4
<1>7. \A i \in found : (\A j \in found : i <= j) => i = k + 1
  BY <1>1, <1>4, <1>5, <1>6
<1> QED
  BY <1>5, <1>6, <1>7 DEF createXreadResponse, found

\* XREAD keeps the invariant: what it sends next is the next entry.
LEMMA ReadStep == ASSUME IInv, TypeOK', XRead PROVE IInv'
<1>1. entries' = entries
  BY DEF XRead
<1>2. NoneCut' <=> NoneCut
  BY <1>1 DEF NoneCut
<1>3. ASSUME NoneCut PROVE (Increasing /\ Following)'
  <2>1. entries \in Seq(Entry) /\ Increasing /\ Following
    BY <1>3 DEF IInv, TypeOK
  <2> DEFINE k == Len(seen)
  <2>2. k \in Nat /\ k + 1 \in 1..Len(entries)
    BY <2>1, FirstNew DEF XRead, Following
  <2>3. seen' = Append(seen, k + 1) /\ cursor' = entries[k + 1].id
    BY <2>1, FirstNew DEF XRead
  <2>4. /\ seen' \in Seq(Nat)
        /\ Len(seen') = k + 1
        /\ \A i \in 1..k : seen'[i] = seen[i]
        /\ seen'[k + 1] = k + 1
    BY <2>1, <2>2, <2>3 DEF Following
  <2>5. \A i \in 1..(k + 1) : seen'[i] = i
    BY <2>1, <2>2, <2>4, SMTT(30) DEF Following
  <2>6. Following'
    BY <1>1, <2>2, <2>3, <2>4, <2>5 DEF Following
  <2> QED
    BY <1>1, <2>1, <2>6 DEF Increasing
<1> QED
  BY <1>1, <1>2, <1>3 DEF IInv

-----------------------------------------------------------------------------
(* The theorems *)

\* The inductive invariant holds in every reachable state.
THEOREM Invariance == Spec => []IInv
<1>1. Init => IInv
  BY MaxEntriesAssumption DEF Init, IInv, TypeOK, NoneCut, Entry, Increasing, Following
<1>2. IInv /\ [Next]_vars => IInv'
  <2> SUFFICES ASSUME IInv, [Next]_vars PROVE IInv'
    OBVIOUS
  <2>0. TypeOK'
    BY TypeStep DEF IInv
  <2>1. ASSUME NEW a \in IdArg, XAddMalformed(a) PROVE IInv'
    BY <2>0, <2>1 DEF XAddMalformed, IInv, NoneCut, Increasing, Following
  <2>2. ASSUME NEW a \in IdArg, NEW now \in UInt, XAdd(a, now) PROVE IInv'
    BY <2>0, <2>2, AddStep
  <2>3. CASE XRead
    BY <2>0, <2>3, ReadStep
  <2>4. CASE UNCHANGED vars
    BY <2>0, <2>4 DEF vars, IInv, NoneCut, Increasing, Following
  <2> QED
    BY <2>1, <2>2, <2>3, <2>4 DEF Next
<1> QED
  BY <1>1, <1>2, PTL DEF Spec

\* XADD keeps ids strictly increasing, for any width of the numbers and
\* however the clock jumps, until an id is too long for its buffer.
THEOREM IdsAlwaysIncrease == Spec => []IdsIncrease
<1>1. IInv => IdsIncrease
  BY DEF IInv, IdsIncrease, Increasing
<1> QED
  BY <1>1, Invariance, PTL

\* A client that follows the stream by its last id misses nothing, gets
\* nothing twice and nothing out of order.
THEOREM FollowerMissesNothing == Spec => []FollowerSeesPrefix
<1>1. ASSUME IInv PROVE FollowerSeesPrefix
  <2>1. ASSUME NoneCut PROVE seen = [i \in 1..Len(seen) |-> i]
    <3>1. seen \in Seq(Nat) /\ \A i \in 1..Len(seen) : seen[i] = i
      BY <1>1, <2>1 DEF IInv, Following
    <3> QED
      BY <3>1
  <2> QED
    BY <2>1 DEF FollowerSeesPrefix
<1> QED
  BY <1>1, Invariance, PTL

\* An automatic id is refused only behind the clock or at the end of the
\* sequence numbers, also after an id that was cut.
THEOREM AutomaticIdsWork == Spec => []AutoIdAccepted
<1>1. ASSUME TypeOK PROVE AutoIdAccepted
  <2>1. entries \in Seq(Entry)
    BY <1>1 DEF TypeOK
  <2>2. SUFFICES ASSUME NEW now \in UInt,
                        ~(entries # <<>> /\ now < tail.ms),
                        ~(entries # <<>> /\ now = tail.ms /\ tail.seq = IdMax)
                 PROVE  isValidNextID(NewID([kind |-> "*"], now))
    BY DEF AutoIdAccepted
  <2>3. NewID([kind |-> "*"], now) = [ms |-> now, seq |-> getNextSequence(now)]
    BY DEF NewID, parseStreamID
  <2>4. CASE entries = <<>>
    BY <2>3, <2>4 DEF getNextSequence, isValidNextID
  <2>5. CASE entries # <<>>
    <3>1. tail \in StreamID
      BY <2>1, <2>5, EntryType
    <3>2. CASE tail.ms = now
      <4>1. (tail.seq + 1) % (IdMax + 1) = tail.seq + 1
        BY <2>2, <2>5, <3>1, <3>2
      <4> QED
        BY <2>3, <2>5, <3>1, <3>2, <4>1 DEF getNextSequence, isValidNextID
    <3>3. CASE tail.ms # now
      BY <2>2, <2>3, <2>5, <3>1, <3>3 DEF getNextSequence, isValidNextID
    <3> QED
      BY <3>2, <3>3
  <2> QED
    BY <2>4, <2>5
<1> QED
  BY <1>1, TypeCorrect, PTL

\* XRANGE and XREAD agree on every stream that XADD can build, one with cut ids
\* in the wrong order among them.
THEOREM RangeAlwaysAgreesWithRead == Spec => []RangeAgreesWithRead
<1>1. ASSUME TypeOK PROVE RangeAgreesWithRead
  <2>1. \A i \in 1..Len(entries) : entries[i].id \in StreamID
    BY <1>1, EntryType DEF TypeOK
  <2>2. SUFFICES ASSUME NEW start \in StreamID, NEW end \in StreamID, NEW i \in 1..Len(entries)
                 PROVE  isIdInRange(entries[i].id, start, end) <=>
                          (entries[i].id = start \/ compareStreamIDs(entries[i].id, start) > 0)
                            /\ ~(compareStreamIDs(entries[i].id, end) > 0)
    BY DEF RangeAgreesWithRead, streamRange, streamRead
  <2> QED
    BY <2>1, RangeIsInterval
<1> QED
  BY <1>1, TypeCorrect, PTL

=============================================================================
