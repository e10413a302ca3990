---------------------------- MODULE XStreamProofs ---------------------------
(***************************************************************************)
(* Proofs about module XStream: type correctness for any number of writers *)
(* and readers, and what holds of a single writer with any number of       *)
(* readers and entries.                                                    *)
(***************************************************************************)
EXTENDS XStream, SequenceTheorems, FiniteSetTheorems, WellFoundedInduction, TLAPS

USE WritersAssumption, BoundsAssumption DEF NULL

-----------------------------------------------------------------------------
(* The inductive invariants *)

\* Writers that have still to allocate their entry.
Pending == {w \in Writers : wpc[w] \in {"create", "parse", "check"}}

\* A writer past the look-up has a stream, and past the check an entry; there
\* is room for the entries that are to come.
WritersOK ==
    /\ \A w \in Writers :
          /\ wpc[w] \in {"parse", "check", "link", "head", "next", "tail", "notify"} =>
                wstream[w] # NULL
          /\ wpc[w] \in {"link", "head", "next", "tail", "notify"} => wnode[w] # NULL
    /\ Len(node) + Cardinality(Pending) <= MaxNodes

TInv == TypeOK /\ WritersOK

\* One writer at most.
OneWriter == \A v, w \in Writers : v = w

At(stage) == \E w \in Writers : wpc[w] = stage

\* An entry is allocated and not yet linked.
Unlinked == At("link") \/ At("head") \/ At("next")

\* How many entries are linked: all, but for one that is about to be.
Linked == IF Unlinked THEN Len(node) - 1 ELSE Len(node)

\* The entries form a chain in the order of their allocation and of their ids.
\* The tail is one behind between the two assignments of streamAdd.
ChainOK ==
    /\ Len(streams) <= 1 /\ current = Len(streams) /\ ~crashed
    /\ current = NULL => Len(node) = 0
    /\ \A i \in Nodes : node[i].next = IF i < Linked THEN i + 1 ELSE NULL
    /\ \A i \in Nodes : node[i].id > 0
    /\ \A i, j \in Nodes : i < j => node[i].id < node[j].id
    /\ current # NULL =>
          /\ streams[1].head = IF Linked > 0 THEN 1 ELSE NULL
          /\ streams[1].tail = IF At("tail") THEN Linked - 1 ELSE Linked
    /\ acked \subseteq 1..Linked

\* The writer works on the one stream there is, and on the last entry; what it
\* found out about the head still holds when it acts on it.
AddOK ==
    \A w \in Writers :
        /\ wpc[w] = "create" => current = NULL
        /\ wpc[w] \in {"parse", "check", "link", "head", "next", "tail", "notify"} =>
              wstream[w] = 1 /\ current = 1
        /\ wpc[w] \in {"link", "head", "next", "tail", "notify"} => wnode[w] = Len(node)
        /\ wpc[w] = "head" => streams[1].head = NULL
        /\ wpc[w] = "next" => streams[1].head # NULL

\* A client has been sent neighbours of the chain, and asks for what follows
\* the last one.
FollowOK ==
    \A r \in Readers :
        /\ \A i \in 1..Len(seen[r]) : seen[r][i] \in 1..Linked
        /\ \A i \in 1..(Len(seen[r]) - 1) : seen[r][i + 1] = seen[r][i] + 1
        /\ rpc[r] # "idle" /\ seen[r] # <<>> => rid[r] = Cursor(r)

CInv == TInv /\ ChainOK /\ AddOK /\ FollowOK

-----------------------------------------------------------------------------
(* Walks over a list *)

\* Every set of numbers has a least one: what follows argues by the least
\* counterexample.
LEMMA LeastNumber ==
    ASSUME NEW T \in SUBSET Nat, T # {}
    PROVE  \E n \in T : \A m \in T : n <= m
<1> DEFINE Less == {p \in Nat \X Nat : p[1] < p[2]}
<1>1. IsWellFoundedOn(Less, Nat)
  BY NatLessThanWellFounded, Zenon DEF OpToRel
<1> HIDE DEF Less
<1>2. PICK n \in T : \A m \in T : <<m, n>> \notin Less
  BY <1>1, WFMin
<1>3. \A m \in T : <<m, n>> \in Nat \X Nat /\ <<m, n>>[1] = m /\ <<m, n>>[2] = n
  OBVIOUS
<1>4. \A m \in T : ~(m < n)
  BY <1>2, <1>3, Zenon DEF Less
<1> QED
  BY <1>4

\* So the first place found is the one before all others.
LEMMA MinFound ==
    ASSUME NEW T \in SUBSET Nat, T # {}
    PROVE  Min(T) \in T /\ \A m \in T : Min(T) <= m
<1>1. \E n \in T : \A m \in T : n <= m
  BY LeastNumber
<1> QED
  BY <1>1, Zenon DEF Min

\* Walk is the function that its definition describes.
LEMMA WalkDefined ==
    ASSUME NEW s
    PROVE  Walk(s) = [k \in 1..MaxNodes |->
                        IF k = 1 THEN streams[s].head
                        ELSE IF Walk(s)[k - 1] = NULL THEN NULL ELSE node[Walk(s)[k - 1]].next]
<1> DEFINE Upto(f, n) == f = [k \in 1..n |-> IF k = 1 THEN streams[s].head
                                ELSE IF f[k - 1] = NULL THEN NULL ELSE node[f[k - 1]].next]
           T == {n \in Nat : ~ \E f : Upto(f, n)}
<1>1. T = {}
  <2>1. SUFFICES ASSUME T # {} PROVE FALSE
    OBVIOUS
  <2>2. PICK n \in T : \A m \in T : n <= m
    BY <2>1, LeastNumber
  <2>3. CASE n = 0
    <3>1. Upto([k \in 1..0 |-> 0], 0)
      OBVIOUS
    <3> QED
      BY <2>2, <2>3, <3>1
  <2>4. CASE n # 0
    <3>1. n - 1 \in Nat /\ n - 1 \notin T
      BY <2>2, <2>4
    <3>2. PICK f : Upto(f, n - 1)
      BY <3>1
    <3> DEFINE new == IF n = 1 THEN streams[s].head
                      ELSE IF f[n - 1] = NULL THEN NULL ELSE node[f[n - 1]].next
               g == [k \in 1..n |-> IF k = n THEN new ELSE f[k]]
    <3>3. \A k \in 1..n : g[k] = IF k = 1 THEN streams[s].head
                                 ELSE IF g[k - 1] = NULL THEN NULL ELSE node[g[k - 1]].next
      <4>1. \A k \in 1..(n - 1) : f[k] = IF k = 1 THEN streams[s].head
                                ELSE IF f[k - 1] = NULL THEN NULL ELSE node[f[k - 1]].next
        BY <3>2
      <4>2. ASSUME NEW k \in 1..n, k # n PROVE k \in 1..(n - 1) /\ g[k] = f[k]
        BY <4>2
      <4>3. ASSUME NEW k \in 1..n, k # 1 PROVE g[k - 1] = f[k - 1]
        BY <4>3
      <4>4. g[n] = new
        BY <2>4
      <4> HIDE DEF g
      <4>5. ASSUME NEW k \in 1..n
            PROVE  g[k] = IF k = 1 THEN streams[s].head
                          ELSE IF g[k - 1] = NULL THEN NULL ELSE node[g[k - 1]].next
        <5>1. CASE k = n
          BY <4>3, <4>4, <5>1
        <5>2. CASE k # n
          BY <4>1, <4>2, <4>3, <5>2
        <5> QED
          BY <5>1, <5>2
      <4> QED
        BY <4>5
    <3>4. Upto(g, n)
      BY <3>3
    <3> QED
      BY <2>2, <3>4
  <2> QED
    BY <2>3, <2>4
<1>2. \A n \in Nat : \E f : Upto(f, n)
  BY <1>1, Zenon
<1>3. \E f : Upto(f, MaxNodes)
  <2> HIDE DEF Upto
  <2> QED
    BY <1>2
<1> QED
  BY <1>3 DEF Walk

\* A walk over a list of the store meets entries, then NULL for good.
LEMMA WalkType ==
    ASSUME TypeOK, NEW s \in 1..Len(streams), NEW k \in 1..MaxNodes
    PROVE  /\ Walk(s)[k] \in Pointers
           /\ k # 1 /\ Walk(s)[k - 1] = NULL => Walk(s)[k] = NULL
<1> DEFINE T == {n \in 1..MaxNodes : Walk(s)[n] \notin Pointers}
<1>1. T = {}
  <2>1. SUFFICES ASSUME T # {} PROVE FALSE
    OBVIOUS
  <2>2. T \in SUBSET Nat
    OBVIOUS
  <2>3. PICK n \in T : \A m \in T : n <= m
    BY <2>1, <2>2, LeastNumber
  <2>4. CASE n = 1
    <3>1. Walk(s)[1] = streams[s].head
      BY <2>3, <2>4, WalkDefined
    <3>2. streams[s] \in [head : Pointers, tail : Pointers]
      BY ElementOfSeq DEF TypeOK
    <3> QED
      BY <2>3, <2>4, <3>1, <3>2
  <2>5. CASE n # 1
    <3>1. n - 1 \in 1..MaxNodes /\ n - 1 \notin T
      BY <2>3, <2>5
    <3>2. Walk(s)[n - 1] \in Pointers
      BY <3>1
    <3>3. Walk(s)[n] = IF Walk(s)[n - 1] = NULL THEN NULL ELSE node[Walk(s)[n - 1]].next
      BY <2>3, <2>5, WalkDefined
    <3>4. \A i \in Nodes : node[i].next \in Pointers
      <4>1. \A i \in 1..Len(node) : node[i] \in [id : Nat, next : Pointers]
        BY ElementOfSeq DEF TypeOK
      <4> QED
        BY <4>1 DEF Nodes
    <3>5. Walk(s)[n] \in Pointers
      BY <3>2, <3>3, <3>4 DEF Pointers
    <3> QED
      BY <2>3, <3>5
  <2> QED
    BY <2>4, <2>5
<1>2. k # 1 => Walk(s)[k] = IF Walk(s)[k - 1] = NULL THEN NULL ELSE node[Walk(s)[k - 1]].next
  BY WalkDefined
<1> QED
  BY <1>1, <1>2

\* What a reader sees of a list are its entries.
LEMMA ListType ==
    ASSUME TypeOK, NEW s \in 0..Len(streams)
    PROVE  /\ Len(List(s)) \in 0..MaxNodes
           /\ \A k \in 1..Len(List(s)) : List(s)[k] \in Nodes
<1>1. CASE s = NULL
  <2>1. List(s) = <<>> /\ Len(<<>>) = 0
    BY <1>1, EmptySeq DEF List
  <2> QED
    BY <2>1
<1>2. CASE s # NULL
  <2> DEFINE S == {j \in 1..MaxNodes : Walk(s)[j] # NULL}
             n == Cardinality(S)
  <2>1. s \in 1..Len(streams)
    <3>1. Len(streams) \in Nat
      BY LenProperties DEF TypeOK
    <3> QED
      BY <1>2, <3>1
  <2>2. IsFiniteSet(1..MaxNodes) /\ Cardinality(1..MaxNodes) = MaxNodes
    BY FS_Interval
  <2>3. IsFiniteSet(S) /\ n \in 0..MaxNodes
    <3>1. S \subseteq 1..MaxNodes
      OBVIOUS
    <3>2. IsFiniteSet(S) /\ n <= Cardinality(1..MaxNodes)
      BY <2>2, <3>1, FS_Subset
    <3>3. n \in Nat
      BY <3>2, FS_CardinalityType
    <3> QED
      BY <2>2, <3>2, <3>3
  <2>4. List(s) = [k \in 1..n |-> Walk(s)[k]]
    BY <1>2 DEF List
  <2> HIDE DEF n
  <2>5. Len(List(s)) = n /\ \A k \in 1..n : List(s)[k] = Walk(s)[k]
    BY <2>3, <2>4
  <2>6. ASSUME NEW k \in 1..n PROVE Walk(s)[k] # NULL
    <3>1. SUFFICES ASSUME Walk(s)[k] = NULL PROVE FALSE
      OBVIOUS
    <3>2. ASSUME NEW j \in k..MaxNodes PROVE Walk(s)[j] = NULL
      <4> DEFINE T == {m \in k..MaxNodes : Walk(s)[m] # NULL}
      <4>1. SUFFICES ASSUME T # {} PROVE FALSE
        OBVIOUS
      <4>2. T \in SUBSET Nat
        OBVIOUS
      <4>3. PICK m \in T : \A i \in T : m <= i
        BY <4>1, <4>2, LeastNumber
      <4>4. m # k
        BY <3>1, <4>3
      <4>5. m \in 1..MaxNodes /\ m # 1 /\ m - 1 \in k..MaxNodes /\ m - 1 \notin T
        BY <4>3, <4>4
      <4>6. Walk(s)[m - 1] = NULL
        BY <4>5
      <4>7. Walk(s)[m] = NULL
        BY <2>1, <4>5, <4>6, WalkType
      <4> QED
        BY <4>3, <4>7
    <3>3. S \subseteq 1..(k - 1)
      <4>1. ASSUME NEW j \in S PROVE j \in 1..(k - 1)
        <5>1. j \in 1..MaxNodes /\ j \notin k..MaxNodes
          BY <3>2
        <5> QED
          BY <5>1
      <4> QED
        BY <4>1
    <3>4. IsFiniteSet(1..(k - 1)) /\ Cardinality(1..(k - 1)) = k - 1
      BY FS_Interval
    <3>5. n <= k - 1
      BY <3>3, <3>4, FS_Subset DEF n
    <3> QED
      BY <2>3, <3>5
  <2>7. ASSUME NEW k \in 1..n PROVE Walk(s)[k] \in Nodes
    <3>1. Walk(s)[k] \in Pointers
      BY <2>1, <2>3, WalkType
    <3> QED
      BY <2>6, <3>1 DEF Pointers
  <2> QED
    BY <2>3, <2>5, <2>7
<1> QED
  BY <1>1, <1>2

-----------------------------------------------------------------------------
(* Types, for any number of writers *)

StreamRecs == [head : Pointers, tail : Pointers]
NodeRecs == [id : Nat, next : Pointers]

StoreT ==
    /\ streams \in Seq(StreamRecs) /\ current \in 0..Len(streams)
    /\ node \in Seq(NodeRecs) /\ crashed \in BOOLEAN /\ acked \subseteq Nodes

WriterT ==
    /\ wpc \in [Writers -> {"idle", "create", "parse", "check", "link",
                            "head", "next", "tail", "notify"}]
    /\ wstream \in [Writers -> 0..Len(streams)]
    /\ wid \in [Writers -> Nat] /\ wnode \in [Writers -> Pointers]

ReaderT ==
    /\ rpc \in [Readers -> {"idle", "read", "enter", "wait", "recheck"}]
    /\ mode \in [Readers -> {"poll", "timed", "forever"}]
    /\ rstream \in [Readers -> 0..Len(streams)]
    /\ rid \in [Readers -> Nat] /\ sleptAt \in [Readers -> 0..MaxNodes]
    /\ seen \in [Readers -> Seq(Nodes)]

\* The parts of the invariant, and the elements of the store's sequences.
LEMMA TParts ==
    ASSUME TInv
    PROVE  /\ StoreT /\ WriterT /\ ReaderT /\ Len(streams) \in Nat /\ Len(node) \in Nat
           /\ \A s \in 1..Len(streams) : streams[s] \in StreamRecs
           /\ \A i \in Nodes : node[i] \in NodeRecs
           /\ IsFiniteSet(Pending) /\ Cardinality(Pending) \in Nat
           /\ Len(node) + Cardinality(Pending) <= MaxNodes
<1>1. StoreT /\ WriterT /\ ReaderT
  BY DEF TInv, TypeOK, StoreT, WriterT, ReaderT, StreamRecs, NodeRecs
<1>2. Len(streams) \in Nat /\ Len(node) \in Nat
  BY <1>1, LenProperties DEF StoreT
<1>3. /\ \A s \in 1..Len(streams) : streams[s] \in StreamRecs
      /\ \A i \in Nodes : node[i] \in NodeRecs
  BY <1>1, ElementOfSeq DEF StoreT, Nodes
<1>4. IsFiniteSet(Pending) /\ Cardinality(Pending) \in Nat
  <2>1. Pending \subseteq Writers
    BY DEF Pending
  <2> QED
    BY <2>1, FS_Subset, FS_CardinalityType
<1> QED
  BY <1>1, <1>2, <1>3, <1>4 DEF TInv, WritersOK

\* The parts make the invariant.
LEMMA TWhole ==
    ASSUME StoreT', WriterT', ReaderT', WritersOK'
    PROVE  TInv'
<1>1. Len(node') \in Nat
  BY LenProperties DEF StoreT
<1>2. Cardinality(Pending') \in Nat
  <2>1. Pending' \subseteq Writers
    BY DEF Pending
  <2> QED
    BY <2>1, FS_Subset, FS_CardinalityType
<1>3. Len(node') <= MaxNodes
  BY <1>1, <1>2 DEF WritersOK
<1> QED
  BY <1>3 DEF TInv, TypeOK, StoreT, WriterT, ReaderT, StreamRecs, NodeRecs

\* A pointer stays one while entries are only added.
LEMMA Grows ==
    ASSUME TInv, NEW m \in Nat, NEW p \in Nat, Len(node) <= m, Len(streams) <= p
    PROVE  /\ Nodes \subseteq 1..m /\ Pointers \subseteq (1..m) \cup {NULL}
           /\ 0..Len(streams) \subseteq 0..p
           /\ node \in Seq([id : Nat, next : (1..m) \cup {NULL}])
           /\ streams \in Seq([head : (1..m) \cup {NULL}, tail : (1..m) \cup {NULL}])
<1>1. Nodes \subseteq 1..m /\ Pointers \subseteq (1..m) \cup {NULL}
  BY TParts DEF Nodes, Pointers
<1>2. 0..Len(streams) \subseteq 0..p
  BY TParts
<1>3. /\ NodeRecs \subseteq [id : Nat, next : (1..m) \cup {NULL}]
      /\ StreamRecs \subseteq [head : (1..m) \cup {NULL}, tail : (1..m) \cup {NULL}]
  BY <1>1 DEF NodeRecs, StreamRecs
<1>4. node \in Seq(NodeRecs) /\ streams \in Seq(StreamRecs)
  BY TParts DEF StoreT
<1> QED
  BY <1>1, <1>2, <1>3, <1>4, SeqMonotonic

LEMMA ReaderTGrows ==
    ASSUME TInv, UNCHANGED <<rpc, mode, rstream, rid, sleptAt, seen>>,
           Len(node') \in Nat, Len(streams') \in Nat,
           Len(node) <= Len(node'), Len(streams) <= Len(streams')
    PROVE  ReaderT'
<1>1. ReaderT
  BY TParts
<1>2. Nodes \subseteq Nodes' /\ 0..Len(streams) \subseteq 0..Len(streams')
  BY Grows DEF Nodes
<1>3. ASSUME NEW q \in Seq(Nodes) PROVE q \in Seq(Nodes')
  BY <1>2, SeqMonotonic
<1>4. seen \in [Readers -> Seq(Nodes')]
  BY <1>1, <1>3 DEF ReaderT
<1>5. rstream \in [Readers -> 0..Len(streams')]
  BY <1>1, <1>2 DEF ReaderT
<1> QED
  BY <1>1, <1>4, <1>5 DEF ReaderT

\* Steps of a writer that change no list.
LEMMA QuietWriter ==
    ASSUME TInv, UNCHANGED <<streams, current, node, crashed>>, acked' \subseteq Nodes
    PROVE  StoreT'
  BY TParts DEF StoreT, StreamRecs, NodeRecs, Pointers, Nodes

LEMMA LookupT == ASSUME TInv, NEW w \in Writers, AddLookup(w) PROVE TInv'
<1>1. /\ wpc[w] = "idle" /\ Len(node) + Cardinality(Busy) < MaxNodes
      /\ wstream' = [wstream EXCEPT ![w] = current]
      /\ wpc' = [wpc EXCEPT ![w] = IF current = NULL THEN "create" ELSE "parse"]
      /\ UNCHANGED <<streams, current, node, crashed, acked, wid, wnode>>
      /\ UNCHANGED <<rpc, mode, rstream, rid, sleptAt, seen>>
  BY DEF AddLookup, storeVars, readerVars, requestVars
<1>2. StoreT'
  BY <1>1, TParts, QuietWriter DEF StoreT
<1>3. WriterT'
  BY <1>1, TParts DEF WriterT, StoreT, Pointers, Nodes
<1>4. ReaderT'
  BY <1>1, TParts, ReaderTGrows
<1>5. WritersOK'
  <2>1. \A v \in Writers :
          /\ wpc'[v] \in {"parse", "check", "link", "head", "next", "tail", "notify"} =>
                wstream'[v] # NULL
          /\ wpc'[v] \in {"link", "head", "next", "tail", "notify"} => wnode[v] # NULL
    BY <1>1, TParts DEF WriterT, TInv, WritersOK
  <2>2. Pending' = Pending \cup {w} /\ w \notin Pending
    BY <1>1, TParts DEF WriterT, Pending
  <2>3. Pending \subseteq Busy /\ Busy \subseteq Writers
    BY DEF Pending, Busy
  <2>4. IsFiniteSet(Busy) /\ Cardinality(Pending) <= Cardinality(Busy)
    BY <2>3, FS_Subset
  <2>5. Cardinality(Busy) \in Nat
    BY <2>4, FS_CardinalityType
  <2>6. Cardinality(Pending') = Cardinality(Pending) + 1
    BY <2>2, TParts, FS_AddElement
  <2>7. Len(node) + Cardinality(Pending') <= MaxNodes
    BY <1>1, <2>4, <2>5, <2>6, TParts
  <2> QED
    BY <1>1, <2>1, <2>7 DEF WritersOK
<1> QED
  BY <1>2, <1>3, <1>4, <1>5, TWhole

\* The writers that have still to allocate stay the same.
LEMMA SamePending ==
    ASSUME TInv, NEW w \in Writers, NEW stage, wpc' = [wpc EXCEPT ![w] = stage],
           stage \in {"create", "parse", "check"} <=> wpc[w] \in {"create", "parse", "check"}
    PROVE  Pending' = Pending
  BY TParts DEF WriterT, Pending

LEMMA CreateT == ASSUME TInv, NEW w \in Writers, AddCreate(w) PROVE TInv'
<1> DEFINE new == [head |-> NULL, tail |-> NULL]
<1>1. /\ wpc[w] = "create"
      /\ streams' = Append(streams, new) /\ current' = Len(streams')
      /\ wstream' = [wstream EXCEPT ![w] = Len(streams')]
      /\ wpc' = [wpc EXCEPT ![w] = "parse"]
      /\ UNCHANGED <<node, crashed, acked, wid, wnode>>
      /\ UNCHANGED <<rpc, mode, rstream, rid, sleptAt, seen>>
  BY DEF AddCreate, readerVars, requestVars
<1>2. new \in StreamRecs
  BY DEF StreamRecs, Pointers
<1>3. streams' \in Seq(StreamRecs) /\ Len(streams') = Len(streams) + 1
  BY <1>1, <1>2, TParts, AppendProperties DEF StoreT
<1> HIDE DEF new
<1>4. Len(streams') \in Nat /\ Len(streams) <= Len(streams') /\ Len(streams') # 0
      /\ Len(node') \in Nat /\ Len(node) <= Len(node')
  BY <1>1, <1>3, TParts
<1>5. StoreT'
  BY <1>1, <1>3, <1>4, TParts DEF StoreT, StreamRecs, NodeRecs, Pointers, Nodes
<1>6. WriterT'
  <2>1. 0..Len(streams) \subseteq 0..Len(streams') /\ Len(streams') \in 0..Len(streams')
    BY <1>4, TParts
  <2>2. wstream' \in [Writers -> 0..Len(streams')]
    BY <1>1, <2>1, TParts DEF WriterT
  <2> QED
    BY <1>1, <2>2, TParts DEF WriterT, Pointers, Nodes
<1>7. ReaderT'
  BY <1>1, <1>4, ReaderTGrows
<1>8. WritersOK'
  <2>1. \A v \in Writers :
          /\ wpc'[v] \in {"parse", "check", "link", "head", "next", "tail", "notify"} =>
                wstream'[v] # NULL
          /\ wpc'[v] \in {"link", "head", "next", "tail", "notify"} => wnode[v] # NULL
    BY <1>1, <1>4, TParts DEF WriterT, TInv, WritersOK
  <2>2. Pending' = Pending
    BY <1>1, SamePending
  <2> QED
    BY <1>1, <2>1, <2>2 DEF TInv, WritersOK
<1> QED
  BY <1>5, <1>6, <1>7, <1>8, TWhole

\* The id of a tail is a number.
LEMMA TailType == ASSUME TInv, NEW s \in 1..Len(streams) PROVE TailId(s) \in Nat
<1>1. streams[s].tail \in Pointers /\ \A i \in Nodes : node[i].id \in Nat
  BY TParts DEF StreamRecs, NodeRecs
<1> QED
  BY <1>1 DEF TailId, Pointers

LEMMA ParseT == ASSUME TInv, NEW w \in Writers, AddParse(w) PROVE TInv'
<1>1. PICK id \in (1..MaxId) \cup {TailId(wstream[w]) + 1} : wid' = [wid EXCEPT ![w] = id]
  BY DEF AddParse
<1>2. /\ wpc[w] = "parse" /\ wpc' = [wpc EXCEPT ![w] = "check"]
      /\ UNCHANGED <<streams, current, node, crashed, acked, wstream, wnode>>
      /\ UNCHANGED <<rpc, mode, rstream, rid, sleptAt, seen>>
  BY DEF AddParse, storeVars, readerVars, requestVars
<1>3. id \in Nat
  <2>1. wstream[w] \in 1..Len(streams)
    BY <1>2, TParts DEF TInv, WritersOK, WriterT
  <2>2. TailId(wstream[w]) \in Nat
    BY <2>1, TailType
  <2> QED
    BY <2>2
<1>4. StoreT'
  BY <1>2, TParts, QuietWriter DEF StoreT
<1>5. WriterT'
  BY <1>1, <1>2, <1>3, TParts DEF WriterT, Pointers, Nodes
<1>6. ReaderT'
  BY <1>2, TParts, ReaderTGrows
<1>7. WritersOK'
  <2>1. \A v \in Writers :
          /\ wpc'[v] \in {"parse", "check", "link", "head", "next", "tail", "notify"} =>
                wstream[v] # NULL
          /\ wpc'[v] \in {"link", "head", "next", "tail", "notify"} => wnode[v] # NULL
    BY <1>2, TParts DEF WriterT, TInv, WritersOK
  <2>2. Pending' = Pending
    BY <1>2, SamePending
  <2> QED
    BY <1>2, <2>1, <2>2 DEF TInv, WritersOK
<1> QED
  BY <1>4, <1>5, <1>6, <1>7, TWhole

\* XADD returns: the writer is as before its first step.
LEMMA ReturnsT ==
    ASSUME TInv, NEW w \in Writers, AddReturns(w), UNCHANGED <<streams, node>>
    PROVE  WriterT' /\ WritersOK'
<1>1. /\ wpc' = [wpc EXCEPT ![w] = "idle"] /\ wstream' = [wstream EXCEPT ![w] = NULL]
      /\ wid' = [wid EXCEPT ![w] = 0] /\ wnode' = [wnode EXCEPT ![w] = NULL]
  BY DEF AddReturns
<1>2. WriterT'
  BY <1>1, TParts DEF WriterT, Pointers, Nodes
<1>3. \A v \in Writers :
          /\ wpc'[v] \in {"parse", "check", "link", "head", "next", "tail", "notify"} =>
                wstream'[v] # NULL
          /\ wpc'[v] \in {"link", "head", "next", "tail", "notify"} => wnode'[v] # NULL
  BY <1>1, TParts DEF WriterT, TInv, WritersOK
<1>4. Pending' \subseteq Pending
  BY <1>1, TParts DEF WriterT, Pending
<1>5. Cardinality(Pending') <= Cardinality(Pending) /\ Cardinality(Pending') \in Nat
  BY <1>4, TParts, FS_Subset, FS_CardinalityType
<1>6. Len(node) + Cardinality(Pending') <= MaxNodes
  BY <1>5, TParts
<1> QED
  BY <1>2, <1>3, <1>6 DEF WritersOK

LEMMA CheckT == ASSUME TInv, NEW w \in Writers, AddCheck(w) PROVE TInv'
<1>1. /\ wpc[w] = "check" /\ UNCHANGED <<streams, current, crashed, acked>>
      /\ UNCHANGED <<rpc, mode, rstream, rid, sleptAt, seen>>
  BY DEF AddCheck, readerVars, requestVars
<1>2. CASE AddReturns(w) /\ UNCHANGED node
  <2>1. StoreT'
    BY <1>1, <1>2, TParts, QuietWriter DEF StoreT
  <2>2. ReaderT'
    BY <1>1, <1>2, TParts, ReaderTGrows
  <2> QED
    BY <1>1, <1>2, <2>1, <2>2, ReturnsT, TWhole
<1>3. CASE /\ node' = Append(node, [id |-> wid[w], next |-> NULL])
           /\ wnode' = [wnode EXCEPT ![w] = Len(node')]
           /\ wpc' = [wpc EXCEPT ![w] = "link"]
           /\ UNCHANGED <<wstream, wid>>
  <2> DEFINE m == Len(node) + 1
             P == (1..m) \cup {NULL}
             new == [id |-> wid[w], next |-> NULL]
  <2>1. /\ m \in Nat /\ Len(node) <= m
        /\ Len(streams) \in Nat /\ Len(streams) <= Len(streams)
    BY TParts
  <2>2. node \in Seq([id : Nat, next : P]) /\ streams \in Seq([head : P, tail : P])
    BY <2>1, Grows
  <2>3. new \in [id : Nat, next : P]
    BY TParts DEF WriterT
  <2> HIDE DEF new
  <2>4. node' \in Seq([id : Nat, next : P]) /\ Len(node') = m
    BY <1>3, <2>2, <2>3, AppendProperties DEF new
  <2>5. Nodes' = 1..m /\ Pointers' = P
    BY <2>4 DEF Nodes, Pointers
  <2>6. Nodes \subseteq Nodes' /\ Pointers \subseteq Pointers'
    BY <2>1, <2>5, Grows
  <2>7. StoreT'
    <3>1. acked' \subseteq Nodes'
      BY <1>1, <2>6, TParts DEF StoreT
    <3>2. streams' \in Seq(StreamRecs') /\ node' \in Seq(NodeRecs')
      BY <1>1, <2>2, <2>4, <2>5 DEF StreamRecs, NodeRecs
    <3> QED
      BY <1>1, <3>1, <3>2, TParts DEF StoreT
  <2>8. WriterT'
    <3>1. Len(node') \in Pointers'
      BY <2>1, <2>4, <2>5
    <3>2. wnode' \in [Writers -> Pointers']
      BY <1>3, <2>6, <3>1, TParts DEF WriterT
    <3> QED
      BY <1>1, <1>3, <3>2, TParts DEF WriterT
  <2>9. ReaderT'
    BY <1>1, <2>1, <2>4, ReaderTGrows
  <2>10. WritersOK'
    <3>1. \A v \in Writers :
          /\ wpc'[v] \in {"parse", "check", "link", "head", "next", "tail", "notify"} =>
                wstream[v] # NULL
          /\ wpc'[v] \in {"link", "head", "next", "tail", "notify"} => wnode'[v] # NULL
      BY <1>1, <1>3, <2>1, <2>4, TParts DEF WriterT, TInv, WritersOK
    <3>2. Pending' = Pending \ {w} /\ w \in Pending
      BY <1>1, <1>3, TParts DEF WriterT, Pending
    <3>3. Cardinality(Pending') = Cardinality(Pending) - 1
      BY <3>2, TParts, FS_RemoveElement
    <3>4. Len(node') + Cardinality(Pending') <= MaxNodes
      BY <2>4, <3>3, TParts
    <3> QED
      BY <1>3, <3>1, <3>4 DEF WritersOK
  <2> QED
    BY <2>7, <2>8, <2>9, <2>10, TWhole
<1> QED
  BY <1>2, <1>3 DEF AddCheck

LEMMA TestT == ASSUME TInv, NEW w \in Writers, AddTest(w) PROVE TInv'
<1>1. /\ wpc[w] = "link" /\ \E stage \in {"head", "next"} : wpc' = [wpc EXCEPT ![w] = stage]
      /\ UNCHANGED <<streams, current, node, crashed, acked, wstream, wid, wnode>>
      /\ UNCHANGED <<rpc, mode, rstream, rid, sleptAt, seen>>
  BY DEF AddTest, storeVars, readerVars, requestVars
<1>2. StoreT'
  BY <1>1, TParts, QuietWriter DEF StoreT
<1>3. WriterT'
  BY <1>1, TParts DEF WriterT, Pointers, Nodes
<1>4. ReaderT'
  BY <1>1, TParts, ReaderTGrows
<1>5. WritersOK'
  <2>1. \A v \in Writers :
          /\ wpc'[v] \in {"parse", "check", "link", "head", "next", "tail", "notify"} =>
                wstream[v] # NULL
          /\ wpc'[v] \in {"link", "head", "next", "tail", "notify"} => wnode[v] # NULL
    BY <1>1, TParts DEF WriterT, TInv, WritersOK
  <2>2. Pending' = Pending
    BY <1>1, SamePending
  <2> QED
    BY <1>1, <2>1, <2>2 DEF TInv, WritersOK
<1> QED
  BY <1>2, <1>3, <1>4, <1>5, TWhole

\* Only a pointer of the stream, or of an entry, changes.
LEMMA LinkT == ASSUME TInv, NEW w \in Writers, AddLink(w) PROVE TInv'
<1> DEFINE s == wstream[w]
           S == streams[s]
<1>1. /\ wpc[w] \in {"head", "next"} /\ wpc' = [wpc EXCEPT ![w] = "tail"]
      /\ streams' = [streams EXCEPT ![s].head = wnode[w]] \/ streams' = streams
      /\ \/ S.tail # NULL /\ node' = [node EXCEPT ![S.tail].next = wnode[w]]
         \/ node' = node
      /\ crashed' = crashed \/ crashed' = (S.tail = NULL)
      /\ UNCHANGED <<current, acked, wstream, wid, wnode>>
      /\ UNCHANGED <<rpc, mode, rstream, rid, sleptAt, seen>>
  BY DEF AddLink, readerVars, requestVars
<1>2. s \in 1..Len(streams) /\ wnode[w] \in Pointers
  BY <1>1, TParts DEF TInv, WritersOK, WriterT
<1>3. S \in StreamRecs
  BY <1>2, TParts
<1>4. streams' \in Seq(StreamRecs) /\ Len(streams') = Len(streams)
  <2>1. CASE streams' = [streams EXCEPT ![s].head = wnode[w]]
    <3>1. [S EXCEPT !.head = wnode[w]] \in StreamRecs
      BY <1>2, <1>3 DEF StreamRecs
    <3>2. streams' = [streams EXCEPT ![s] = [S EXCEPT !.head = wnode[w]]]
      BY <2>1
    <3> QED
      BY <1>2, <3>1, <3>2, TParts, ExceptSeq DEF StoreT
  <2>2. CASE streams' = streams
    BY <2>2, TParts DEF StoreT
  <2> QED
    BY <1>1, <2>1, <2>2
<1>5. node' \in Seq(NodeRecs) /\ Len(node') = Len(node)
  <2>1. CASE S.tail # NULL /\ node' = [node EXCEPT ![S.tail].next = wnode[w]]
    <3>1. S.tail \in Nodes
      BY <1>3, <2>1 DEF StreamRecs, Pointers
    <3>2. [node[S.tail] EXCEPT !.next = wnode[w]] \in NodeRecs
      BY <1>2, <3>1, TParts DEF NodeRecs
    <3>3. node' = [node EXCEPT ![S.tail] = [node[S.tail] EXCEPT !.next = wnode[w]]]
      BY <2>1
    <3> QED
      BY <3>1, <3>2, <3>3, TParts, ExceptSeq DEF StoreT, Nodes
  <2>2. CASE node' = node
    BY <2>2, TParts DEF StoreT
  <2> QED
    BY <1>1, <2>1, <2>2
<1>6. crashed' \in BOOLEAN
  BY <1>1, TParts DEF StoreT
<1> HIDE DEF S, s
<1>7. Nodes' = Nodes /\ Pointers' = Pointers /\ StreamRecs' = StreamRecs /\ NodeRecs' = NodeRecs
  BY <1>5 DEF Nodes, Pointers, StreamRecs, NodeRecs
<1>8. StoreT'
  BY <1>1, <1>4, <1>5, <1>6, <1>7, TParts DEF StoreT
<1>9. WriterT'
  BY <1>1, <1>4, <1>7, TParts DEF WriterT
<1>10. ReaderT'
  BY <1>1, <1>4, <1>5, TParts, ReaderTGrows
<1>11. WritersOK'
  <2>1. \A v \in Writers :
          /\ wpc'[v] \in {"parse", "check", "link", "head", "next", "tail", "notify"} =>
                wstream[v] # NULL
          /\ wpc'[v] \in {"link", "head", "next", "tail", "notify"} => wnode[v] # NULL
    BY <1>1, TParts DEF WriterT, TInv, WritersOK
  <2>2. Pending' = Pending
    BY <1>1, SamePending
  <2> QED
    BY <1>1, <1>5, <2>1, <2>2 DEF TInv, WritersOK
<1> QED
  BY <1>8, <1>9, <1>10, <1>11, TWhole

LEMMA TailT == ASSUME TInv, NEW w \in Writers, AddTail(w) PROVE TInv'
<1> DEFINE s == wstream[w]
<1>1. /\ wpc[w] = "tail" /\ wpc' = [wpc EXCEPT ![w] = "notify"]
      /\ streams' = [streams EXCEPT ![s].tail = wnode[w]]
      /\ UNCHANGED <<current, node, crashed, acked, wstream, wid, wnode>>
      /\ UNCHANGED <<rpc, mode, rstream, rid, sleptAt, seen>>
  BY DEF AddTail, readerVars, requestVars
<1>2. s \in 1..Len(streams) /\ wnode[w] \in Pointers
  BY <1>1, TParts DEF TInv, WritersOK, WriterT
<1>3. streams' \in Seq(StreamRecs) /\ Len(streams') = Len(streams)
  <2>1. [streams[s] EXCEPT !.tail = wnode[w]] \in StreamRecs
    BY <1>2, TParts DEF StreamRecs
  <2>2. streams' = [streams EXCEPT ![s] = [streams[s] EXCEPT !.tail = wnode[w]]]
    BY <1>1
  <2> QED
    BY <1>2, <2>1, <2>2, TParts, ExceptSeq DEF StoreT
<1>4. Nodes' = Nodes /\ Pointers' = Pointers /\ StreamRecs' = StreamRecs /\ NodeRecs' = NodeRecs
  BY <1>1 DEF Nodes, Pointers, StreamRecs, NodeRecs
<1> HIDE DEF s
<1>5. StoreT'
  BY <1>1, <1>3, <1>4, TParts DEF StoreT
<1>6. WriterT'
  BY <1>1, <1>3, <1>4, TParts DEF WriterT
<1>7. ReaderT'
  BY <1>1, <1>3, TParts, ReaderTGrows
<1>8. WritersOK'
  <2>1. \A v \in Writers :
          /\ wpc'[v] \in {"parse", "check", "link", "head", "next", "tail", "notify"} =>
                wstream[v] # NULL
          /\ wpc'[v] \in {"link", "head", "next", "tail", "notify"} => wnode[v] # NULL
    BY <1>1, TParts DEF WriterT, TInv, WritersOK
  <2>2. Pending' = Pending
    BY <1>1, SamePending
  <2> QED
    BY <1>1, <2>1, <2>2 DEF TInv, WritersOK
<1> QED
  BY <1>5, <1>6, <1>7, <1>8, TWhole

LEMMA NotifyT == ASSUME TInv, NEW w \in Writers, AddNotify(w) PROVE TInv'
<1>1. /\ wpc[w] = "notify"
      /\ rpc' = [r \in Readers |-> IF rpc[r] = "wait" THEN "recheck" ELSE rpc[r]]
      /\ acked' = acked \cup {wnode[w]} /\ AddReturns(w)
      /\ UNCHANGED <<streams, current, node, crashed, mode, rstream, rid, sleptAt, seen>>
  BY DEF AddNotify, storeVars, requestVars
<1>2. wnode[w] \in Nodes
  BY <1>1, TParts DEF TInv, WritersOK, WriterT, Pointers
<1>3. StoreT'
  BY <1>1, <1>2, TParts, QuietWriter DEF StoreT
<1>4. ReaderT'
  BY <1>1, TParts DEF ReaderT, Nodes
<1> QED
  BY <1>1, <1>3, <1>4, ReturnsT, TWhole

\* The steps of readers leave the store and the writers alone.
LEMMA ReaderStepT ==
    ASSUME TInv, ReaderT', UNCHANGED <<streams, current, node, crashed, acked>>,
           UNCHANGED <<wpc, wstream, wid, wnode>>
    PROVE  TInv'
<1>1. StoreT'
  BY TParts, QuietWriter DEF StoreT
<1>2. WriterT'
  BY TParts DEF WriterT, Pointers, Nodes
<1>3. WritersOK'
  BY DEF TInv, WritersOK, Pending
<1> QED
  BY <1>1, <1>2, <1>3, TWhole

\* The last id that a client was sent is a number.
LEMMA CursorType == ASSUME TInv, NEW r \in Readers PROVE Cursor(r) \in Nat
<1>1. seen[r] \in Seq(Nodes)
  BY TParts DEF ReaderT
<1>2. CASE seen[r] # <<>>
  <2>1. Len(seen[r]) \in 1..Len(seen[r])
    BY <1>1, <1>2, EmptySeq
  <2>2. seen[r][Len(seen[r])] \in Nodes
    BY <1>1, <2>1, ElementOfSeq
  <2> QED
    BY <1>2, <2>2, TParts DEF Cursor, NodeRecs
<1> QED
  BY <1>2 DEF Cursor

LEMMA ReplyT ==
    ASSUME TInv, NEW r \in Readers, Reply(r, streamRead(rstream[r], rid[r])),
           UNCHANGED <<streams, current, node, crashed, acked>>,
           UNCHANGED <<wpc, wstream, wid, wnode>>
    PROVE  TInv'
<1> DEFINE found == streamRead(rstream[r], rid[r])
           l == List(rstream[r])
<1>1. /\ seen' = [seen EXCEPT ![r] = IF found = {} THEN @ ELSE Append(@, l[Min(found)])]
      /\ rpc' = [rpc EXCEPT ![r] = "idle"] /\ mode' = [mode EXCEPT ![r] = "poll"]
      /\ rstream' = [rstream EXCEPT ![r] = NULL] /\ rid' = [rid EXCEPT ![r] = 0]
      /\ sleptAt' = [sleptAt EXCEPT ![r] = 0]
  BY DEF Reply, Answered
<1>2. rstream[r] \in 0..Len(streams) /\ seen[r] \in Seq(Nodes)
  BY TParts DEF ReaderT
<1>3. Len(l) \in Nat /\ \A k \in 1..Len(l) : l[k] \in Nodes
  <2>1. /\ Len(l) \in 0..MaxNodes
        /\ \A k \in 1..Len(l) : l[k] \in Nodes
    BY <1>2, ListType DEF TInv
  <2> QED
    BY <2>1
<1>4. found \subseteq 1..Len(l)
  BY DEF streamRead
<1> HIDE DEF found, l
<1>5. ASSUME found # {} PROVE Append(seen[r], l[Min(found)]) \in Seq(Nodes)
  <2>1. found \in SUBSET Nat
    BY <1>3, <1>4
  <2>2. Min(found) \in found
    BY <1>5, <2>1, MinFound
  <2>3. l[Min(found)] \in Nodes
    BY <1>3, <1>4, <2>2
  <2> QED
    BY <1>2, <2>3, AppendProperties
<1>6. seen' \in [Readers -> Seq(Nodes)]
  BY <1>1, <1>5, TParts DEF ReaderT
<1>7. ReaderT'
  <2>1. Nodes' = Nodes
    BY DEF Nodes
  <2> QED
    BY <1>1, <1>6, <2>1, TParts DEF ReaderT
<1> QED
  BY <1>7, ReaderStepT

\* A reader goes on without an answer.
LEMMA StageT ==
    ASSUME TInv, NEW r \in Readers, NEW stage \in {"read", "enter", "wait", "recheck"},
           rpc' = [rpc EXCEPT ![r] = stage], UNCHANGED <<mode, rstream, rid, seen>>,
           UNCHANGED <<streams, current, node, crashed, acked>>,
           UNCHANGED <<wpc, wstream, wid, wnode>>,
           sleptAt' \in [Readers -> 0..MaxNodes]
    PROVE  TInv'
<1>1. ReaderT'
  BY TParts DEF ReaderT, Nodes
<1> QED
  BY <1>1, ReaderStepT

LEMMA ReaderNextT ==
    ASSUME TInv, NEW r \in Readers, ReadLookup(r) \/ ReadStep(r) \/ ReadSpurious(r)
    PROVE  TInv'
<1> USE DEF storeVars, writerVars, requestVars
<1>1. CASE ReadLookup(r)
  <2>1. rid' \in [Readers -> Nat]
    <3>1. Cursor(r) \in Nat
      BY CursorType
    <3>2. current # NULL => TailId(current) \in Nat
      <4>1. current # NULL => current \in 1..Len(streams)
        BY TParts DEF StoreT
      <4> QED
        BY <4>1, TailType
    <3>3. PICK id \in Nat : rid' = [rid EXCEPT ![r] = id]
      <4>1. CASE rid' = [rid EXCEPT ![r] = Cursor(r)]
        BY <3>1, <4>1
      <4>2. CASE rid' = [rid EXCEPT ![r] = IF current = NULL THEN 0 ELSE TailId(current)]
        BY <3>2, <4>2
      <4> QED
        BY <1>1, <4>1, <4>2 DEF ReadLookup
    <3> QED
      BY <3>3, TParts DEF ReaderT
  <2>2. ReaderT'
    BY <1>1, <2>1, TParts DEF ReadLookup, ReaderT, StoreT, Nodes
  <2> QED
    BY <1>1, <2>2, ReaderStepT DEF ReadLookup
<1>2. CASE ReadFirst(r)
  <2>1. CASE Reply(r, streamRead(rstream[r], rid[r]))
    BY <1>2, <2>1, ReplyT DEF ReadFirst
  <2>2. CASE rpc' = [rpc EXCEPT ![r] = "enter"] /\ UNCHANGED <<requestVars, sleptAt, seen>>
    BY <1>2, <2>2, TParts, StageT DEF ReadFirst, ReaderT
  <2> QED
    BY <1>2, <2>1, <2>2 DEF ReadFirst
<1>3. CASE ReadSleep(r)
  <2>1. rstream[r] \in 0..Len(streams)
    BY TParts DEF ReaderT
  <2>2. Len(List(rstream[r])) \in 0..MaxNodes
    BY <2>1, ListType DEF TInv
  <2>3. sleptAt' \in [Readers -> 0..MaxNodes]
    BY <1>3, <2>2, TParts DEF ReadSleep, ReaderT
  <2> QED
    BY <1>3, <2>3, StageT DEF ReadSleep
<1>4. CASE ReadInvalidTime(r) \/ ReadSpurious(r)
  BY <1>4, TParts, StageT DEF ReadInvalidTime, ReadSpurious, ReaderT
<1>5. CASE ReadTimeout(r)
  <2>1. ReaderT'
    BY <1>5, TParts DEF ReadTimeout, Answered, ReaderT, Nodes
  <2> QED
    BY <1>5, <2>1, ReaderStepT DEF ReadTimeout
<1>6. CASE ReadAgain(r)
  BY <1>6, ReplyT DEF ReadAgain
<1> QED
  BY <1>1, <1>2, <1>3, <1>4, <1>5, <1>6 DEF ReadStep

LEMMA InitT == ASSUME Init PROVE TInv
<1>1. <<>> \in Seq(StreamRecs) /\ <<>> \in Seq(NodeRecs) /\ Len(<<>>) = 0 /\ <<>> \in Seq(Nodes)
  BY EmptySeq
<1>2. Pending = {} /\ Cardinality({}) = 0
  BY FS_EmptySet DEF Init, Pending
<1>3. WritersOK
  BY <1>1, <1>2 DEF Init, WritersOK
<1>4. StoreT
  <2>1. streams = <<>> /\ current = 0 /\ node = <<>> /\ crashed = FALSE /\ acked = {}
    BY DEF Init
  <2>2. current \in 0..Len(streams)
    BY <1>1, <2>1
  <2>3. streams \in Seq(StreamRecs) /\ node \in Seq(NodeRecs)
    BY <1>1, <2>1
  <2> QED
    BY <2>1, <2>2, <2>3 DEF StoreT
<1>5. 0 \in Pointers /\ 0 \in 0..Len(streams) /\ 0 \in 0..MaxNodes
  BY <1>1 DEF Init, Pointers
<1>6. WriterT /\ ReaderT
  BY <1>1, <1>5 DEF Init, WriterT, ReaderT
<1>7. Len(node) <= MaxNodes
  BY <1>1 DEF Init
<1> QED
  BY <1>3, <1>4, <1>6, <1>7 DEF TInv, TypeOK, StoreT, WriterT, ReaderT, StreamRecs, NodeRecs

LEMMA NextT == TInv /\ [Next]_vars => TInv'
<1> SUFFICES ASSUME TInv, [Next]_vars PROVE TInv'
  OBVIOUS
<1>1. ASSUME NEW w \in Writers, AddLookup(w) \/ AddStep(w) PROVE TInv'
  BY <1>1, LookupT, CreateT, ParseT, CheckT, TestT, LinkT, TailT, NotifyT DEF AddStep
<1>2. ASSUME NEW r \in Readers, ReadLookup(r) \/ ReadStep(r) \/ ReadSpurious(r) PROVE TInv'
  BY <1>2, ReaderNextT
<1>3. CASE UNCHANGED vars
  <2>1. ReaderT'
    BY <1>3, TParts DEF vars, storeVars, readerVars, requestVars, ReaderT, Nodes
  <2> QED
    BY <1>3, <2>1, ReaderStepT DEF vars, storeVars, writerVars, readerVars, requestVars
<1> QED
  BY <1>1, <1>2, <1>3 DEF Next

\* However many threads add and read at the same time, every pointer that the
\* code follows is NULL or leads to an entry or a stream.
THEOREM TypeCorrect == Spec => []TypeOK
<1>1. TInv => TypeOK
  BY DEF TInv
<1> QED
  BY <1>1, InitT, NextT, PTL DEF Spec

-----------------------------------------------------------------------------
(* Any number of writers: no broadcast is lost *)

\* The walks over all streams, and how long each reader's list is.
Walks == [s \in 1..Len(streams) |-> Walk(s)]
Lengths == [r \in Readers |-> Len(List(rstream[r]))]

\* A walk starts at the head and follows the pointers.
WalksFollow ==
    \A s \in 1..Len(streams) : \A k \in 1..MaxNodes :
        /\ Walks[s][k] \in Pointers
        /\ Walks[s][k] = IF k = 1 THEN streams[s].head
                         ELSE IF Walks[s][k - 1] = NULL THEN NULL
                              ELSE node[Walks[s][k - 1]].next

\* A list has as many entries as its walk meets.
LengthsCount ==
    \A r \in Readers :
        /\ Lengths[r] \in 0..MaxNodes
        /\ Lengths[r] = IF rstream[r] = NULL THEN 0
                        ELSE Cardinality({k \in 1..MaxNodes : Walks[rstream[r]][k] # NULL})

\* NoSleeperForgotten, in terms of these.
WakersOK ==
    \A r \in Readers : rpc[r] = "wait" /\ Lengths[r] > sleptAt[r]
                           => \E w \in Writers : wpc[w] \in {"tail", "notify"}

LEMMA WalksFacts == TInv => WalksFollow
<1> SUFFICES ASSUME TInv, NEW s \in 1..Len(streams), NEW k \in 1..MaxNodes
             PROVE  /\ Walk(s)[k] \in Pointers
                    /\ Walk(s)[k] = IF k = 1 THEN streams[s].head
                                    ELSE IF Walk(s)[k - 1] = NULL THEN NULL
                                         ELSE node[Walk(s)[k - 1]].next
  BY DEF WalksFollow, Walks
<1>1. Walk(s)[k] \in Pointers
  BY WalkType DEF TInv
<1> QED
  BY <1>1, WalkDefined

LEMMA LengthsFacts == TInv => LengthsCount
<1> SUFFICES ASSUME TInv, NEW r \in Readers
             PROVE  /\ Lengths[r] \in 0..MaxNodes
                    /\ Lengths[r] = IF rstream[r] = NULL THEN 0
                          ELSE Cardinality({k \in 1..MaxNodes : Walks[rstream[r]][k] # NULL})
  BY DEF LengthsCount
<1> DEFINE s == rstream[r]
           n == Cardinality({k \in 1..MaxNodes : Walk(s)[k] # NULL})
<1>1. s \in 0..Len(streams) /\ Len(streams) \in Nat
  BY TParts DEF ReaderT
<1>2. Lengths[r] = Len(List(s))
  BY DEF Lengths
<1>3. Len(List(s)) \in 0..MaxNodes
  BY <1>1, ListType DEF TInv
<1>4. CASE s = NULL
  <2>1. List(s) = <<>> /\ Len(<<>>) = 0
    BY <1>4, EmptySeq DEF List
  <2> QED
    BY <1>2, <1>3, <1>4, <2>1
<1>5. CASE s # NULL
  <2>1. Walks[s] = Walk(s)
    BY <1>1, <1>5 DEF Walks
  <2>2. List(s) = [k \in 1..n |-> Walk(s)[k]]
    BY <1>5 DEF List
  <2>3. n \in Nat
    <3>1. IsFiniteSet(1..MaxNodes)
      BY FS_Interval
    <3>2. {k \in 1..MaxNodes : Walk(s)[k] # NULL} \subseteq 1..MaxNodes
      OBVIOUS
    <3>3. IsFiniteSet({k \in 1..MaxNodes : Walk(s)[k] # NULL})
      BY <3>1, <3>2, FS_Subset
    <3> QED
      BY <3>3, FS_CardinalityType
  <2>4. Len(List(s)) = n
    <3> HIDE DEF n
    <3> QED
      BY <2>2, <2>3
  <2>5. n = Cardinality({k \in 1..MaxNodes : Walks[s][k] # NULL})
    BY <2>1
  <2> HIDE DEF n, s
  <2> QED
    BY <1>2, <1>3, <1>5, <2>4, <2>5 DEF s
<1> QED
  BY <1>4, <1>5

LEMMA NextFacts == TInv' => WalksFollow' /\ LengthsCount'
  BY WalksFacts, LengthsFacts, PTL

\* A walk meets the same entries as long as no pointer on its way changes.
LEMMA SameWalks ==
    ASSUME TInv, TInv', Len(streams) <= Len(streams'),
           \A s \in 1..Len(streams) : streams'[s].head = streams[s].head,
           \A i \in Nodes : node'[i].next = node[i].next,
           NEW s \in 1..Len(streams), NEW k \in 1..MaxNodes
    PROVE  Walks'[s][k] = Walks[s][k]
<1> DEFINE T == {m \in 1..MaxNodes : Walks'[s][m] # Walks[s][m]}
<1>1. SUFFICES ASSUME T # {} PROVE FALSE
  OBVIOUS
<1>2. T \in SUBSET Nat
  OBVIOUS
<1>3. PICK m \in T : \A i \in T : m <= i
  BY <1>1, <1>2, LeastNumber
<1>4. s \in 1..Len(streams')
  BY TParts, LenProperties DEF TInv, TypeOK
<1>5. /\ Walks[s][m] = IF m = 1 THEN streams[s].head
                       ELSE IF Walks[s][m - 1] = NULL THEN NULL ELSE node[Walks[s][m - 1]].next
      /\ m # 1 => Walks[s][m - 1] \in Pointers
  <2>1. m \in 1..MaxNodes /\ (m # 1 => m - 1 \in 1..MaxNodes)
    BY <1>3
  <2>2. \A j \in 1..MaxNodes :
          /\ Walks[s][j] \in Pointers
          /\ Walks[s][j] = IF j = 1 THEN streams[s].head
                           ELSE IF Walks[s][j - 1] = NULL THEN NULL
                                ELSE node[Walks[s][j - 1]].next
    BY WalksFacts DEF WalksFollow
  <2> QED
    BY <2>1, <2>2
<1>6. Walks'[s][m] = IF m = 1 THEN streams'[s].head
                     ELSE IF Walks'[s][m - 1] = NULL THEN NULL ELSE node'[Walks'[s][m - 1]].next
  BY <1>3, <1>4, NextFacts DEF WalksFollow
<1>7. CASE m = 1
  BY <1>3, <1>5, <1>6, <1>7
<1>8. CASE m # 1
  <2>1. m - 1 \in 1..MaxNodes /\ m - 1 \notin T
    BY <1>3, <1>8
  <2>2. Walks'[s][m - 1] = Walks[s][m - 1]
    BY <2>1
  <2>3. Walks'[s][m] = Walks[s][m]
    BY <1>5, <1>6, <1>8, <2>2 DEF Pointers
  <2> QED
    BY <1>3, <2>3
<1> QED
  BY <1>7, <1>8

\* So a sleeper's list does not grow.
LEMMA SameLength ==
    ASSUME TInv, TInv', Len(streams) <= Len(streams'),
           \A s \in 1..Len(streams) : streams'[s].head = streams[s].head,
           \A i \in Nodes : node'[i].next = node[i].next,
           NEW r \in Readers, rstream'[r] = rstream[r]
    PROVE  Lengths'[r] = Lengths[r]
<1>1. rstream[r] \in 0..Len(streams) /\ Len(streams) \in Nat
  BY TParts DEF ReaderT
<1>2. /\ Lengths[r] = IF rstream[r] = NULL THEN 0
                 ELSE Cardinality({k \in 1..MaxNodes : Walks[rstream[r]][k] # NULL})
      /\ Lengths'[r] = IF rstream'[r] = NULL THEN 0
                 ELSE Cardinality({k \in 1..MaxNodes : Walks'[rstream'[r]][k] # NULL})
  BY LengthsFacts, NextFacts DEF LengthsCount
<1>3. CASE rstream[r] = NULL
  BY <1>2, <1>3
<1>4. CASE rstream[r] # NULL
  <2>1. rstream[r] \in 1..Len(streams)
    BY <1>1, <1>4
  <2>2. \A k \in 1..MaxNodes : Walks'[rstream[r]][k] = Walks[rstream[r]][k]
    BY <2>1, SameWalks
  <2>3. {k \in 1..MaxNodes : Walks'[rstream[r]][k] # NULL}
          = {k \in 1..MaxNodes : Walks[rstream[r]][k] # NULL}
    BY <2>2
  <2> QED
    BY <1>2, <2>3
<1> QED
  BY <1>3, <1>4

\* A step that changes no list, puts nobody to sleep and ends no insertion
\* behind its link.
LEMMA QuietWakers ==
    ASSUME TInv, TInv', WakersOK, Len(streams) <= Len(streams'),
           \A s \in 1..Len(streams) : streams'[s].head = streams[s].head,
           \A i \in Nodes : node'[i].next = node[i].next,
           \A w \in Writers : wpc[w] \in {"tail", "notify"} => wpc'[w] \in {"tail", "notify"},
           \A r \in Readers : rpc'[r] = "wait" =>
               rpc[r] = "wait" /\ rstream'[r] = rstream[r] /\ sleptAt'[r] = sleptAt[r]
    PROVE  WakersOK'
<1> SUFFICES ASSUME NEW r \in Readers, rpc'[r] = "wait", Lengths'[r] > sleptAt'[r]
             PROVE  \E w \in Writers : wpc'[w] \in {"tail", "notify"}
  BY DEF WakersOK
<1>1. Lengths'[r] = Lengths[r]
  BY SameLength
<1>2. PICK w \in Writers : wpc[w] \in {"tail", "notify"}
  BY <1>1 DEF WakersOK
<1> QED
  BY <1>2

LEMMA WriterWakers ==
    ASSUME TInv, TInv', WakersOK, NEW w \in Writers, AddLookup(w) \/ AddStep(w)
    PROVE  WakersOK'
<1> USE DEF storeVars, readerVars, requestVars
<1>1. /\ Len(streams) \in Nat /\ Len(node) \in Nat
      /\ wpc \in [Writers -> {"idle", "create", "parse", "check", "link",
                              "head", "next", "tail", "notify"}]
      /\ streams \in Seq(StreamRecs) /\ node \in Seq(NodeRecs)
  BY TParts DEF StoreT, WriterT
<1>2. CASE AddLookup(w) \/ AddParse(w)
  <2>1. /\ streams' = streams /\ node' = node
        /\ rpc' = rpc /\ rstream' = rstream /\ sleptAt' = sleptAt
        /\ wpc[w] \in {"idle", "parse"}
        /\ \E stage \in {"create", "parse", "check"} : wpc' = [wpc EXCEPT ![w] = stage]
    BY <1>2 DEF AddLookup, AddParse
  <2>2. \A v \in Writers : wpc[v] \in {"tail", "notify"} => wpc'[v] \in {"tail", "notify"}
    BY <1>1, <2>1
  <2> QED
    BY <1>1, <2>1, <2>2, QuietWakers
<1>3. CASE AddCreate(w)
  <2>1. /\ streams' = Append(streams, [head |-> NULL, tail |-> NULL]) /\ node' = node
        /\ rpc' = rpc /\ rstream' = rstream /\ sleptAt' = sleptAt
        /\ wpc[w] = "create" /\ wpc' = [wpc EXCEPT ![w] = "parse"]
    BY <1>3 DEF AddCreate
  <2>2. \A v \in Writers : wpc[v] \in {"tail", "notify"} => wpc'[v] \in {"tail", "notify"}
    BY <1>1, <2>1
  <2>3. Len(streams) <= Len(streams') /\ \A s \in 1..Len(streams) : streams'[s] = streams[s]
    BY <1>1, <2>1
  <2> QED
    BY <2>1, <2>2, <2>3, QuietWakers
<1>4. CASE AddCheck(w)
  <2>1. /\ streams' = streams /\ rpc' = rpc /\ rstream' = rstream /\ sleptAt' = sleptAt
        /\ wpc[w] = "check" /\ \E stage \in {"link", "idle"} : wpc' = [wpc EXCEPT ![w] = stage]
        /\ node' = node \/ node' = Append(node, [id |-> wid[w], next |-> NULL])
    BY <1>4 DEF AddCheck, AddReturns
  <2>2. \A v \in Writers : wpc[v] \in {"tail", "notify"} => wpc'[v] \in {"tail", "notify"}
    BY <1>1, <2>1
  <2>3. \A i \in Nodes : node'[i] = node[i]
    <3>1. CASE node' = node
      BY <3>1
    <3>2. CASE node' = Append(node, [id |-> wid[w], next |-> NULL])
      BY <1>1, <3>2 DEF Nodes
    <3> QED
      BY <2>1, <3>1, <3>2
  <2> QED
    BY <1>1, <2>1, <2>2, <2>3, QuietWakers
<1>5. CASE AddLink(w) \/ AddTail(w)
  <2>1. \E stage \in {"tail", "notify"} : wpc' = [wpc EXCEPT ![w] = stage]
    BY <1>5 DEF AddLink, AddTail
  <2>2. wpc'[w] \in {"tail", "notify"}
    BY <1>1, <2>1
  <2> QED
    BY <2>2 DEF WakersOK
<1>6. CASE AddNotify(w)
  <2>1. \A r \in Readers : rpc'[r] # "wait"
    BY <1>6 DEF AddNotify
  <2> QED
    BY <2>1 DEF WakersOK
<1>7. CASE AddTest(w)
  <2>1. /\ streams' = streams /\ node' = node
        /\ rpc' = rpc /\ rstream' = rstream /\ sleptAt' = sleptAt
        /\ wpc[w] = "link" /\ \E stage \in {"head", "next"} : wpc' = [wpc EXCEPT ![w] = stage]
    BY <1>7 DEF AddTest
  <2>2. \A v \in Writers : wpc[v] \in {"tail", "notify"} => wpc'[v] \in {"tail", "notify"}
    BY <1>1, <2>1
  <2> QED
    BY <1>1, <2>1, <2>2, QuietWakers
<1> QED
  BY <1>2, <1>3, <1>4, <1>5, <1>6, <1>7 DEF AddStep

LEMMA ReaderWakers ==
    ASSUME TInv, TInv', WakersOK, NEW r \in Readers,
           ReadLookup(r) \/ ReadStep(r) \/ ReadSpurious(r)
    PROVE  WakersOK'
<1> USE DEF storeVars, writerVars, requestVars
<1>1. /\ Len(streams) \in Nat
      /\ rpc \in [Readers -> {"idle", "read", "enter", "wait", "recheck"}]
      /\ rstream \in [Readers -> 0..Len(streams)] /\ sleptAt \in [Readers -> 0..MaxNodes]
  BY TParts DEF ReaderT
<1>2. streams' = streams /\ node' = node /\ wpc' = wpc
  BY DEF ReadLookup, ReadStep, ReadFirst, ReadSleep, ReadInvalidTime, ReadTimeout, ReadAgain,
         ReadSpurious
<1>3. ASSUME NEW stage \in {"idle", "read", "enter", "recheck"},
             rpc' = [rpc EXCEPT ![r] = stage],
             \A q \in Readers : q # r => rstream'[q] = rstream[q] /\ sleptAt'[q] = sleptAt[q]
      PROVE  WakersOK'
  <2>1. rpc'[r] # "wait" /\ \A q \in Readers : q # r => rpc'[q] = rpc[q]
    BY <1>1, <1>3
  <2> QED
    BY <1>1, <1>2, <1>3, <2>1, QuietWakers
<1>4. CASE ReadSleep(r)
  <2>1. /\ rpc' = [rpc EXCEPT ![r] = "wait"] /\ rstream' = rstream
        /\ sleptAt' = [sleptAt EXCEPT ![r] = Lengths[r]]
    BY <1>4 DEF ReadSleep, Lengths
  <2>2. \A q \in Readers : Lengths'[q] = Lengths[q]
    BY <1>1, <1>2, <2>1, SameLength
  <2>3. Lengths[r] \in 0..MaxNodes
    BY LengthsFacts DEF LengthsCount
  <2>4. SUFFICES ASSUME NEW q \in Readers, rpc'[q] = "wait", Lengths[q] > sleptAt'[q]
                 PROVE  \E w \in Writers : wpc[w] \in {"tail", "notify"}
    BY <1>2, <2>2 DEF WakersOK
  <2>5. q # r
    BY <1>1, <2>1, <2>3, <2>4
  <2>6. rpc[q] = "wait" /\ sleptAt'[q] = sleptAt[q]
    BY <1>1, <2>1, <2>4, <2>5
  <2> QED
    BY <2>4, <2>6 DEF WakersOK
<1>5. CASE ReadLookup(r)
  <2>1. /\ rpc' = [rpc EXCEPT ![r] = "read"] /\ sleptAt' = sleptAt
        /\ rstream' = [rstream EXCEPT ![r] = current]
    BY <1>5 DEF ReadLookup
  <2> QED
    BY <1>1, <1>3, <2>1
<1>6. CASE Answered(r)
  <2>1. /\ rpc' = [rpc EXCEPT ![r] = "idle"] /\ sleptAt' = [sleptAt EXCEPT ![r] = 0]
        /\ rstream' = [rstream EXCEPT ![r] = NULL]
    BY <1>6 DEF Answered
  <2> QED
    BY <1>1, <1>3, <2>1
<1>7. CASE /\ \E stage \in {"enter", "recheck"} : rpc' = [rpc EXCEPT ![r] = stage]
           /\ rstream' = rstream /\ sleptAt' = sleptAt
  BY <1>3, <1>7
<1> QED
  BY <1>4, <1>5, <1>6, <1>7 DEF ReadStep, ReadFirst, ReadInvalidTime, ReadTimeout, ReadAgain,
     ReadSpurious, Reply

LEMMA NextWakers == TInv /\ TInv' /\ WakersOK /\ [Next]_vars => WakersOK'
<1> SUFFICES ASSUME TInv, TInv', WakersOK, [Next]_vars PROVE WakersOK'
  OBVIOUS
<1>1. CASE UNCHANGED vars
  <2>1. /\ streams' = streams /\ node' = node /\ wpc' = wpc
        /\ rpc' = rpc /\ rstream' = rstream /\ sleptAt' = sleptAt
    BY <1>1 DEF vars, storeVars, writerVars, readerVars, requestVars
  <2>2. Len(streams) \in Nat
    BY TParts
  <2> QED
    BY <2>1, <2>2, QuietWakers
<1>2. CASE Next
  BY <1>2, WriterWakers, ReaderWakers DEF Next
<1> QED
  BY <1>1, <1>2

LEMMA WakersMean == WakersOK => NoSleeperForgotten
  BY DEF WakersOK, NoSleeperForgotten, Lengths

\* With any number of writers and readers: a reader never sleeps on behind the
\* broadcast that was meant for it, although it enters the wait without a
\* second look at its stream and writers link and notify in separate steps.
THEOREM BroadcastsReach == Spec => []NoSleeperForgotten
<1>1. Init => WakersOK
  BY DEF Init, WakersOK
<1> QED
  BY <1>1, InitT, NextT, NextWakers, WakersMean, PTL DEF Spec

-----------------------------------------------------------------------------
(* One writer: the list is the chain of all entries *)

\* With one writer, the stage of XADD is the stage of that writer.
LEMMA TheStage ==
    ASSUME OneWriter, NEW w \in Writers, NEW stage
    PROVE  (At(stage) <=> wpc[w] = stage) /\ (At(stage)' <=> wpc'[w] = stage)
  BY DEF OneWriter, At

LEMMA LinkedType ==
    ASSUME TInv
    PROVE  Linked \in Nat /\ Linked <= Len(node) /\ Len(node) <= MaxNodes
<1>1. Len(node) \in Nat /\ Len(node) <= MaxNodes
  BY TParts DEF TInv, TypeOK
<1>2. Unlinked => Len(node) # 0
  <2>1. ASSUME NEW w \in Writers, wpc[w] \in {"link", "head", "next"} PROVE Len(node) # 0
    <3>1. wnode[w] \in Nodes
      BY <2>1, TParts DEF TInv, WritersOK, WriterT, Pointers
    <3> QED
      BY <1>1, <3>1 DEF Nodes
  <2> QED
    BY <2>1 DEF Unlinked, At
<1> QED
  BY <1>1, <1>2 DEF Linked

\* A walk meets the linked entries in the order of their allocation.
LEMMA ChainWalk ==
    ASSUME TInv, ChainOK, current # NULL, NEW k \in 1..MaxNodes
    PROVE  Walk(1)[k] = IF k <= Linked THEN k ELSE NULL
<1> DEFINE T == {n \in 1..MaxNodes : Walk(1)[n] # IF n <= Linked THEN n ELSE NULL}
<1>0. Linked \in Nat /\ Linked <= Len(node) /\ Len(node) \in Nat
  BY LinkedType, TParts
<1>1. SUFFICES ASSUME T # {} PROVE FALSE
  OBVIOUS
<1>2. T \in SUBSET Nat
  OBVIOUS
<1>3. PICK n \in T : \A m \in T : n <= m
  BY <1>1, <1>2, LeastNumber
<1>4. CASE n = 1
  <2>1. Walk(1)[1] = streams[1].head
    BY <1>3, <1>4, WalkDefined
  <2>2. streams[1].head = IF Linked > 0 THEN 1 ELSE NULL
    BY DEF ChainOK
  <2> QED
    BY <1>0, <1>3, <1>4, <2>1, <2>2
<1>5. CASE n # 1
  <2>1. n - 1 \in 1..MaxNodes /\ n - 1 \notin T
    BY <1>3, <1>5
  <2>2. Walk(1)[n - 1] = IF n - 1 <= Linked THEN n - 1 ELSE NULL
    BY <2>1
  <2>3. Walk(1)[n] = IF Walk(1)[n - 1] = NULL THEN NULL ELSE node[Walk(1)[n - 1]].next
    BY <1>3, <1>5, WalkDefined
  <2>4. n - 1 <= Linked => node[n - 1].next = IF n - 1 < Linked THEN n ELSE NULL
    <3>1. n - 1 <= Linked => n - 1 \in Nodes
      BY <1>0, <2>1 DEF Nodes
    <3>2. \A i \in Nodes : node[i].next = IF i < Linked THEN i + 1 ELSE NULL
      BY DEF ChainOK
    <3> QED
      BY <2>1, <3>1, <3>2
  <2>5. n - 1 # 0 /\ n \in Nat
    BY <2>1
  <2>6. Walk(1)[n] = IF n <= Linked THEN n ELSE NULL
    BY <1>0, <2>2, <2>3, <2>4, <2>5
  <2> QED
    BY <1>3, <2>6
<1> QED
  BY <1>4, <1>5

LEMMA ChainList ==
    ASSUME TInv, ChainOK, current # NULL
    PROVE  Len(List(1)) = Linked /\ \A k \in 1..Linked : List(1)[k] = k
<1>1. Linked \in Nat /\ Linked <= MaxNodes
  BY LinkedType, TParts
<1> DEFINE S == {j \in 1..MaxNodes : Walk(1)[j] # NULL}
<1>2. S = 1..Linked
  <2>1. ASSUME NEW j \in 1..MaxNodes PROVE Walk(1)[j] # NULL <=> j \in 1..Linked
    BY <1>1, ChainWalk
  <2>2. 1..Linked \subseteq 1..MaxNodes
    BY <1>1
  <2> QED
    BY <2>1, <2>2
<1>3. Cardinality(S) = Linked
  <2>1. Cardinality(1..Linked) = Linked
    BY <1>1, FS_Interval
  <2> QED
    BY <1>2, <2>1
<1>4. List(1) = [k \in 1..Cardinality(S) |-> Walk(1)[k]]
  BY DEF List
<1>5. \A k \in 1..Linked : Walk(1)[k] = k
  BY <1>1, ChainWalk
<1> HIDE DEF S
<1> QED
  BY <1>1, <1>3, <1>4, <1>5

\* The client's sequence, when entries are only added.
LEMMA FollowKept ==
    ASSUME TInv, FollowOK, seen' = seen, rid' = rid, Linked' \in Nat, Linked <= Linked',
           \A i \in 1..Linked : node'[i].id = node[i].id,
           \A r \in Readers : rpc'[r] = "idle" <=> rpc[r] = "idle"
    PROVE  FollowOK'
<1>1. Linked \in Nat
  BY LinkedType
<1>2. SUFFICES ASSUME NEW r \in Readers
               PROVE  /\ \A i \in 1..Len(seen[r]) : seen[r][i] \in 1..(Linked')
                      /\ \A i \in 1..(Len(seen[r]) - 1) : seen[r][i + 1] = seen[r][i] + 1
                      /\ rpc'[r] # "idle" /\ seen[r] # <<>> => rid[r] = Cursor(r)'
  BY DEF FollowOK
<1>3. \A i \in 1..Len(seen[r]) : seen[r][i] \in 1..(Linked')
  BY <1>1 DEF FollowOK
<1>4. seen[r] # <<>> => Cursor(r)' = Cursor(r)
  <2>1. seen[r] \in Seq(Nodes)
    BY TParts DEF ReaderT
  <2>2. seen[r] # <<>> => Len(seen[r]) \in 1..Len(seen[r])
    BY <2>1, EmptySeq
  <2>3. seen[r] # <<>> => seen[r][Len(seen[r])] \in 1..Linked
    BY <2>2 DEF FollowOK
  <2> QED
    BY <2>3 DEF Cursor
<1> QED
  BY <1>3, <1>4 DEF FollowOK

-----------------------------------------------------------------------------
(* One writer: the steps of XADD *)

\* What a step of the one writer has to keep.
WriterGoal == ChainOK' /\ AddOK' /\ FollowOK'

\* The facts about the writer's stage that the steps use.
LEMMA Stages ==
    ASSUME OneWriter, TInv, NEW w \in Writers
    PROVE  /\ Linked = IF wpc[w] \in {"link", "head", "next"} THEN Len(node) - 1 ELSE Len(node)
           /\ Linked' = IF wpc'[w] \in {"link", "head", "next"}
                        THEN Len(node') - 1 ELSE Len(node')
           /\ (At("tail") <=> wpc[w] = "tail") /\ (At("tail")' <=> wpc'[w] = "tail")
<1>1. /\ Unlinked <=> wpc[w] \in {"link", "head", "next"}
      /\ Unlinked' <=> wpc'[w] \in {"link", "head", "next"}
  BY DEF OneWriter, Unlinked, At
<1>2. (At("tail") <=> wpc[w] = "tail") /\ (At("tail")' <=> wpc'[w] = "tail")
  BY TheStage
<1> QED
  BY <1>1, <1>2 DEF Linked

\* What AddOK says is said of the one writer.
LEMMA AddWhole ==
    ASSUME OneWriter, NEW w \in Writers,
           wpc'[w] = "create" => current' = NULL,
           wpc'[w] \in {"parse", "check", "link", "head", "next", "tail", "notify"} =>
              wstream'[w] = 1 /\ current' = 1,
           wpc'[w] \in {"link", "head", "next", "tail", "notify"} => wnode'[w] = Len(node'),
           wpc'[w] = "head" => streams'[1].head = NULL,
           wpc'[w] = "next" => streams'[1].head # NULL
    PROVE  AddOK'
<1>1. \A v \in Writers : v = w
  BY DEF OneWriter
<1> QED
  BY <1>1 DEF AddOK

\* Steps that change no list, and neither link nor move the tail.
LEMMA QuietC ==
    ASSUME OneWriter, TInv, ChainOK, FollowOK, NEW w \in Writers,
           UNCHANGED <<streams, current, node, crashed, seen, rid>>,
           acked' \subseteq 1..Linked,
           wpc[w] # "tail", wpc'[w] # "tail",
           wpc[w] \in {"link", "head", "next"} <=> wpc'[w] \in {"link", "head", "next"},
           \A r \in Readers : rpc'[r] = "idle" <=> rpc[r] = "idle"
    PROVE  ChainOK' /\ FollowOK'
<1>1. Linked' = Linked /\ ~At("tail") /\ ~At("tail")'
  BY Stages
<1>2. Linked \in Nat
  BY LinkedType
<1>3. FollowOK'
  BY <1>1, <1>2, FollowKept
<1>4. ChainOK'
  BY <1>1 DEF ChainOK, Nodes
<1> QED
  BY <1>3, <1>4

LEMMA LookupC == ASSUME OneWriter, CInv, NEW w \in Writers, AddLookup(w) PROVE WriterGoal
<1>1. /\ wpc[w] = "idle" /\ wstream' = [wstream EXCEPT ![w] = current]
      /\ wpc' = [wpc EXCEPT ![w] = IF current = NULL THEN "create" ELSE "parse"]
      /\ UNCHANGED <<streams, current, node, crashed, acked, wid, wnode>>
      /\ UNCHANGED <<rpc, mode, rstream, rid, sleptAt, seen>>
  BY DEF AddLookup, storeVars, readerVars, requestVars
<1>2. TInv /\ ChainOK /\ FollowOK
  BY DEF CInv
<1>3. /\ wpc'[w] = IF current = NULL THEN "create" ELSE "parse"
      /\ wstream'[w] = current
  BY <1>1, <1>2, TParts DEF WriterT
<1>4. ChainOK' /\ FollowOK'
  BY <1>1, <1>2, <1>3, QuietC DEF ChainOK
<1>5. current = NULL \/ current = 1
  BY <1>2, TParts DEF ChainOK
<1>6. AddOK'
  BY <1>1, <1>3, <1>5, AddWhole
<1> QED
  BY <1>4, <1>6 DEF WriterGoal

LEMMA CreateC == ASSUME OneWriter, CInv, NEW w \in Writers, AddCreate(w) PROVE WriterGoal
<1> DEFINE new == [head |-> NULL, tail |-> NULL]
<1>1. /\ wpc[w] = "create"
      /\ streams' = Append(streams, new) /\ current' = Len(streams')
      /\ wstream' = [wstream EXCEPT ![w] = Len(streams')]
      /\ wpc' = [wpc EXCEPT ![w] = "parse"]
      /\ UNCHANGED <<node, crashed, acked, wid, wnode>>
      /\ UNCHANGED <<rpc, mode, rstream, rid, sleptAt, seen>>
  BY DEF AddCreate, readerVars, requestVars
<1>2. TInv /\ ChainOK /\ AddOK /\ FollowOK
  BY DEF CInv
<1>3. current = NULL /\ Len(streams) = 0 /\ Len(node) = 0
  BY <1>1, <1>2 DEF AddOK, ChainOK
<1>4. new \in StreamRecs
  BY DEF StreamRecs, Pointers
<1>5. Len(streams') = 1 /\ streams'[1] = new
  BY <1>1, <1>2, <1>3, <1>4, TParts, AppendProperties DEF StoreT
<1>6. wpc'[w] = "parse" /\ wstream'[w] = 1
  BY <1>1, <1>2, <1>5, TParts DEF WriterT
<1>7. Linked = 0 /\ Linked' = 0 /\ ~At("tail")'
  BY <1>1, <1>2, <1>3, <1>6, Stages
<1>8. FollowOK'
  BY <1>1, <1>2, <1>7, FollowKept
<1>9. ChainOK'
  <2>1. Nodes = {} /\ Nodes' = {}
    BY <1>1, <1>3 DEF Nodes
  <2>2. acked' \subseteq 1..(Linked')
    BY <1>1, <1>2, <1>7 DEF ChainOK
  <2>3. ~crashed'
    BY <1>1, <1>2 DEF ChainOK
  <2> QED
    BY <1>1, <1>3, <1>5, <1>7, <2>1, <2>2, <2>3 DEF ChainOK
<1>10. AddOK'
  BY <1>1, <1>5, <1>6, AddWhole
<1> QED
  BY <1>8, <1>9, <1>10 DEF WriterGoal

LEMMA ParseC == ASSUME OneWriter, CInv, NEW w \in Writers, AddParse(w) PROVE WriterGoal
<1>1. /\ wpc[w] = "parse" /\ wpc' = [wpc EXCEPT ![w] = "check"]
      /\ UNCHANGED <<streams, current, node, crashed, acked, wstream, wnode>>
      /\ UNCHANGED <<rpc, mode, rstream, rid, sleptAt, seen>>
  BY DEF AddParse, storeVars, readerVars, requestVars
<1>2. TInv /\ ChainOK /\ AddOK /\ FollowOK
  BY DEF CInv
<1>3. wpc'[w] = "check"
  BY <1>1, <1>2, TParts DEF WriterT
<1>4. ChainOK' /\ FollowOK'
  BY <1>1, <1>2, <1>3, QuietC DEF ChainOK
<1>5. AddOK'
  BY <1>1, <1>2, <1>3, AddWhole DEF AddOK
<1> QED
  BY <1>4, <1>5 DEF WriterGoal

\* The tail is the last entry when the id is checked: a greater id keeps the
\* chain in order.
LEMMA CheckC == ASSUME OneWriter, CInv, NEW w \in Writers, AddCheck(w) PROVE WriterGoal
<1>1. /\ wpc[w] = "check" /\ UNCHANGED <<streams, current, crashed, acked>>
      /\ UNCHANGED <<rpc, mode, rstream, rid, sleptAt, seen>>
  BY DEF AddCheck, readerVars, requestVars
<1>2. TInv /\ ChainOK /\ AddOK /\ FollowOK
  BY DEF CInv
<1>3. CASE AddReturns(w) /\ UNCHANGED node
  <2>1. wpc'[w] = "idle"
    BY <1>2, <1>3, TParts DEF AddReturns, WriterT
  <2>2. ChainOK' /\ FollowOK'
    BY <1>1, <1>2, <1>3, <2>1, QuietC DEF ChainOK
  <2>3. AddOK'
    BY <2>1, AddWhole
  <2> QED
    BY <2>2, <2>3 DEF WriterGoal
<1>4. CASE /\ wid[w] > TailId(wstream[w])
           /\ node' = Append(node, [id |-> wid[w], next |-> NULL])
           /\ wnode' = [wnode EXCEPT ![w] = Len(node')]
           /\ wpc' = [wpc EXCEPT ![w] = "link"]
           /\ UNCHANGED <<wstream, wid>>
  <2> DEFINE n == Len(node)
             new == [id |-> wid[w], next |-> NULL]
  <2>1. n \in Nat /\ node \in Seq(NodeRecs) /\ wid[w] \in Nat
    BY <1>2, TParts DEF StoreT, WriterT
  <2>2. new \in NodeRecs
    BY <2>1 DEF NodeRecs, Pointers
  <2>3. Len(node') = n + 1 /\ node'[n + 1] = new /\ \A i \in 1..n : node'[i] = node[i]
    BY <1>4, <2>1, <2>2, AppendProperties
  <2>4. wpc'[w] = "link" /\ wnode'[w] = n + 1
    BY <1>2, <1>4, <2>3, TParts DEF WriterT
  <2>5. Linked = n /\ Linked' = n /\ ~At("tail") /\ ~At("tail")'
    BY <1>1, <1>2, <2>1, <2>3, <2>4, Stages
  <2>6. FollowOK'
    BY <1>1, <1>2, <2>1, <2>3, <2>5, FollowKept
  <2>7. AddOK'
    BY <1>1, <1>2, <1>4, <2>3, <2>4, AddWhole DEF AddOK
  <2>8. wstream[w] = 1 /\ current = 1 /\ streams[1].tail = n
    BY <1>1, <1>2, <2>5 DEF AddOK, ChainOK
  <2>9. wid[w] > 0 /\ \A i \in 1..n : wid[w] > node[i].id
    <3>1. CASE n = 0
      BY <1>4, <2>8, <3>1 DEF TailId
    <3>2. CASE n # 0
      <4>1. wid[w] > node[n].id
        BY <1>4, <2>8, <3>2 DEF TailId
      <4>2. \A i \in 1..n : node[i].id \in Nat /\ node[i].id > 0
        BY <1>2, TParts DEF ChainOK, Nodes, NodeRecs
      <4>3. \A i \in 1..n : i < n => node[i].id < node[n].id
        BY <1>2, <2>1, <3>2 DEF ChainOK, Nodes
      <4>4. n \in 1..n
        BY <2>1, <3>2
      <4> HIDE DEF n
      <4>5. ASSUME NEW i \in 1..n PROVE wid[w] > node[i].id
        <5>1. CASE i = n
          BY <4>1, <5>1
        <5>2. CASE i # n
          <6>1. i < n
            BY <2>1, <5>2
          <6>2. node[i].id < node[n].id /\ node[i].id \in Nat /\ node[n].id \in Nat
            BY <4>2, <4>3, <4>4, <6>1
          <6> QED
            BY <2>1, <4>1, <6>2
        <5> QED
          BY <5>1, <5>2
      <4>6. wid[w] > 0
        BY <2>1, <4>1, <4>2, <4>4
      <4> QED
        BY <4>5, <4>6
    <3> QED
      BY <3>1, <3>2
  <2>10. ChainOK'
    <3>1. Nodes = 1..n /\ Nodes' = 1..(n + 1)
      BY <2>3 DEF Nodes
    <3>2. \A i \in 1..n : node[i].next = IF i < n THEN i + 1 ELSE NULL
      BY <1>2, <2>5, <3>1 DEF ChainOK
    <3>3. \A i \in 1..n : node[i].id > 0
      BY <1>2, <3>1 DEF ChainOK
    <3>4. \A i, j \in 1..n : i < j => node[i].id < node[j].id
      BY <1>2, <3>1 DEF ChainOK
    <3>5. node'[n + 1].id = wid[w] /\ node'[n + 1].next = NULL
      BY <2>3
    <3>6. streams[1].head = IF n > 0 THEN 1 ELSE NULL
      BY <1>2, <2>5, <2>8 DEF ChainOK
    <3>7. Len(streams) <= 1 /\ current = Len(streams) /\ ~crashed /\ acked \subseteq 1..n
      BY <1>2, <2>5 DEF ChainOK
    <3> HIDE DEF n, new
    <3>8. ASSUME NEW i \in 1..(n + 1)
          PROVE  node'[i].next = (IF i < n THEN i + 1 ELSE NULL) /\ node'[i].id > 0
      <4>1. CASE i = n + 1
        BY <2>1, <2>9, <3>5, <4>1
      <4>2. CASE i # n + 1
        <5>1. i \in 1..n
          BY <2>1, <4>2
        <5> QED
          BY <2>3, <3>2, <3>3, <5>1
      <4> QED
        BY <4>1, <4>2
    <3>9. ASSUME NEW i \in 1..(n + 1), NEW j \in 1..(n + 1), i < j
          PROVE  node'[i].id < node'[j].id
      <4>1. i \in 1..n
        BY <2>1, <3>9
      <4>2. CASE j = n + 1
        BY <2>3, <2>9, <3>5, <4>1, <4>2
      <4>3. CASE j # n + 1
        <5>1. j \in 1..n
          BY <2>1, <4>3
        <5> QED
          BY <2>3, <3>4, <3>9, <4>1, <5>1
      <4> QED
        BY <4>2, <4>3
    <3> QED
      BY <1>1, <2>5, <2>8, <3>1, <3>6, <3>7, <3>8, <3>9 DEF ChainOK
  <2> QED
    BY <2>6, <2>7, <2>10 DEF WriterGoal
<1> QED
  BY <1>3, <1>4 DEF AddCheck

\* With one writer the head is, when it is set, what the test found.
LEMMA TestC == ASSUME OneWriter, CInv, NEW w \in Writers, AddTest(w) PROVE WriterGoal
<1>1. /\ wpc[w] = "link"
      /\ wpc' = [wpc EXCEPT ![w] = IF streams[wstream[w]].head = NULL THEN "head" ELSE "next"]
      /\ UNCHANGED <<streams, current, node, crashed, acked, wstream, wid, wnode>>
      /\ UNCHANGED <<rpc, mode, rstream, rid, sleptAt, seen>>
  BY DEF AddTest, storeVars, readerVars, requestVars
<1>2. TInv /\ ChainOK /\ AddOK /\ FollowOK
  BY DEF CInv
<1>3. wstream[w] = 1 /\ current = 1 /\ wnode[w] = Len(node)
  BY <1>1, <1>2 DEF AddOK
<1>4. wpc'[w] = IF streams[1].head = NULL THEN "head" ELSE "next"
  BY <1>1, <1>2, <1>3, TParts DEF WriterT
<1>5. wpc'[w] \in {"head", "next"}
  BY <1>4
<1>6. ChainOK' /\ FollowOK'
  BY <1>1, <1>2, <1>5, QuietC DEF ChainOK
<1>7. AddOK'
  BY <1>1, <1>3, <1>4, AddWhole
<1> QED
  BY <1>6, <1>7 DEF WriterGoal

\* The head was set before the tail was NULL for the last time: tail->next is
\* never the NULL dereference that two writers can make it.
LEMMA LinkC == ASSUME OneWriter, CInv, NEW w \in Writers, AddLink(w) PROVE WriterGoal
<1> DEFINE n == Len(node)
           S == streams[1]
<1>1. TInv /\ ChainOK /\ AddOK /\ FollowOK
  BY DEF CInv
<1>2. /\ wpc[w] \in {"head", "next"} /\ wpc' = [wpc EXCEPT ![w] = "tail"]
      /\ UNCHANGED <<current, acked, wstream, wid, wnode>>
      /\ UNCHANGED <<rpc, mode, rstream, rid, sleptAt, seen>>
  BY DEF AddLink, readerVars, requestVars
<1>3. wstream[w] = 1 /\ current = 1 /\ wnode[w] = n
  BY <1>1, <1>2 DEF AddOK
<1>4. /\ streams' = IF S.head = NULL THEN [streams EXCEPT ![1].head = n] ELSE streams
      /\ node' = IF S.head # NULL /\ S.tail # NULL
                 THEN [node EXCEPT ![S.tail].next = n] ELSE node
      /\ crashed' = (S.head # NULL /\ S.tail = NULL)
  <2>1. CASE wpc[w] = "head"
    <3>1. S.head = NULL
      BY <1>1, <2>1 DEF AddOK
    <3>2. /\ streams' = [streams EXCEPT ![1].head = n] /\ node' = node
          /\ crashed' = crashed
      BY <1>3, <2>1 DEF AddLink
    <3>3. crashed = FALSE
      BY <1>1, TParts DEF ChainOK, StoreT
    <3> QED
      BY <3>1, <3>2, <3>3
  <2>2. CASE wpc[w] = "next"
    <3>1. S.head # NULL
      BY <1>1, <2>2 DEF AddOK
    <3>2. /\ streams' = streams /\ crashed' = (S.tail = NULL)
          /\ node' = IF S.tail = NULL THEN node ELSE [node EXCEPT ![S.tail].next = n]
      BY <1>3, <2>2 DEF AddLink
    <3> QED
      BY <3>1, <3>2
  <2> QED
    BY <1>2, <2>1, <2>2
<1>5. wpc'[w] = "tail"
  BY <1>1, <1>2, TParts DEF WriterT
<1>6. Linked = n - 1 /\ Linked \in Nat /\ n \in Nat
  BY <1>1, <1>2, LinkedType, Stages, TParts
<1>7. At("tail")' /\ ~At("tail")
  BY <1>1, <1>2, <1>5, Stages
<1>8. S.head = (IF n - 1 > 0 THEN 1 ELSE NULL) /\ S.tail = n - 1
  BY <1>1, <1>3, <1>6, <1>7 DEF ChainOK
<1>9. /\ Len(streams) = 1 /\ streams \in Seq(StreamRecs) /\ S \in StreamRecs
      /\ node \in Seq(NodeRecs) /\ \A i \in 1..n : node[i] \in NodeRecs
  BY <1>1, <1>3, TParts DEF ChainOK, StoreT, Nodes
<1>10. /\ Len(streams') = 1 /\ streams'[1].head = 1 /\ streams'[1].tail = n - 1
       /\ crashed' = FALSE
  <2>1. 1 \in DOMAIN streams /\ Len(streams) = 1
    BY <1>9
  <2>2. CASE n = 1
    <3>1. S.head = NULL /\ streams' = [streams EXCEPT ![1] = [S EXCEPT !.head = n]]
      BY <1>4, <1>8, <2>2
    <3>2. [S EXCEPT !.head = n] \in StreamRecs
      BY <1>9, <2>2 DEF StreamRecs, Pointers, Nodes
    <3>3. Len(streams') = 1 /\ streams'[1] = [S EXCEPT !.head = n]
      BY <1>9, <3>1, <3>2, ExceptSeq
    <3>4. [S EXCEPT !.head = n].head = n /\ [S EXCEPT !.head = n].tail = S.tail
      BY <1>9 DEF StreamRecs
    <3>5. crashed' = FALSE
      BY <1>4, <3>1
    <3> HIDE DEF S
    <3> QED
      BY <1>8, <2>2, <3>3, <3>4, <3>5
  <2>3. CASE n # 1
    <3> HIDE DEF n, S
    <3>0. n - 1 > 0 /\ n - 1 # 0
      BY <1>6, <2>3
    <3>1. S.head = 1 /\ S.tail = n - 1 /\ S.tail # NULL
      BY <1>8, <3>0
    <3>2. streams' = streams
      BY <1>4, <3>1
    <3>3. S.tail # NULL
      BY <3>1
    <3>4. crashed' = FALSE
      BY <1>4, <3>3, Zenon
    <3> QED
      BY <1>9, <3>1, <3>2, <3>4 DEF S
  <2> QED
    BY <2>2, <2>3
<1>11. /\ Len(node') = n
       /\ \A i \in 1..n : /\ node'[i].id = node[i].id
                          /\ node'[i].next = IF i < n THEN i + 1 ELSE NULL
  <2>1. \A i \in 1..n : node[i].next = IF i < n - 1 THEN i + 1 ELSE NULL
    BY <1>1, <1>6 DEF ChainOK, Nodes
  <2>2. CASE n = 1
    <3>1. node' = node
      BY <1>4, <1>8, <2>2
    <3> QED
      BY <2>1, <2>2, <3>1
  <2>3. CASE n # 1
    <3>1. n - 1 \in 1..n
      BY <1>6, <2>3
    <3>2. node' = [node EXCEPT ![n - 1] = [node[n - 1] EXCEPT !.next = n]]
      <4> HIDE DEF S, n
      <4>0. n - 1 > 0 /\ n - 1 # 0
        BY <1>6, <2>3
      <4>1. S.head # NULL /\ S.tail # NULL /\ S.tail = n - 1
        BY <1>8, <4>0
      <4>2. node' = [node EXCEPT ![S.tail].next = n]
        BY <1>4, <4>1
      <4> QED
        BY <4>1, <4>2
    <3>3. Len(node') = n
      BY <1>9, <3>2
    <3>4. ASSUME NEW i \in 1..n
          PROVE  node'[i] = IF i = n - 1 THEN [node[i] EXCEPT !.next = n] ELSE node[i]
      <4>1. DOMAIN node = 1..n
        BY <1>9
      <4> HIDE DEF n
      <4> QED
        BY <3>2, <4>1
    <3>5. \A i \in 1..n : [node[i] EXCEPT !.next = n].id = node[i].id
                          /\ [node[i] EXCEPT !.next = n].next = n
      BY <1>9 DEF NodeRecs
    <3> HIDE DEF n
    <3>6. ASSUME NEW i \in 1..n
          PROVE  /\ node'[i].id = node[i].id
                 /\ node'[i].next = IF i < n THEN i + 1 ELSE NULL
      <4>1. CASE i = n - 1
        <5>1. i < n /\ i + 1 = n
          BY <1>6, <4>1
        <5> QED
          BY <3>4, <3>5, <4>1, <5>1
      <4>2. CASE i # n - 1
        <5>1. i < n <=> i < n - 1
          BY <1>6, <4>2
        <5> QED
          BY <2>1, <3>4, <4>2, <5>1
      <4> QED
        BY <4>1, <4>2
    <3> QED
      BY <3>3, <3>6
  <2> QED
    BY <2>2, <2>3
<1> HIDE DEF n, S
<1>12. Linked' = n /\ n > 0
  BY <1>1, <1>5, <1>6, <1>11, Stages
<1>13. FollowOK'
  BY <1>1, <1>2, <1>6, <1>11, <1>12, FollowKept
<1>14. ChainOK'
  <2>1. Nodes = 1..n /\ Nodes' = 1..n
    BY <1>11 DEF Nodes, n
  <2>2. /\ \A i \in 1..n : node[i].id > 0
        /\ \A i, j \in 1..n : i < j => node[i].id < node[j].id
    BY <1>1, <2>1 DEF ChainOK
  <2>3. acked' \subseteq 1..n
    <3>1. acked \subseteq 1..(n - 1)
      BY <1>1, <1>6 DEF ChainOK
    <3> QED
      BY <1>2, <1>6, <3>1
  <2>4. /\ \A i \in 1..n : node'[i].id > 0
        /\ \A i, j \in 1..n : i < j => node'[i].id < node'[j].id
    BY <1>11, <2>2
  <2> QED
    BY <1>2, <1>3, <1>7, <1>10, <1>11, <1>12, <2>1, <2>3, <2>4 DEF ChainOK
<1>15. AddOK'
  BY <1>2, <1>3, <1>5, <1>11, AddWhole DEF n
<1> QED
  BY <1>13, <1>14, <1>15 DEF WriterGoal

LEMMA TailC == ASSUME OneWriter, CInv, NEW w \in Writers, AddTail(w) PROVE WriterGoal
<1> DEFINE n == Len(node)
           S == streams[1]
<1>1. TInv /\ ChainOK /\ AddOK /\ FollowOK
  BY DEF CInv
<1>2. /\ wpc[w] = "tail" /\ wpc' = [wpc EXCEPT ![w] = "notify"]
      /\ UNCHANGED <<current, node, crashed, acked, wstream, wid, wnode>>
      /\ UNCHANGED <<rpc, mode, rstream, rid, sleptAt, seen>>
  BY DEF AddTail, readerVars, requestVars
<1>3. wstream[w] = 1 /\ current = 1 /\ wnode[w] = n
  BY <1>1, <1>2 DEF AddOK
<1>4. streams' = [streams EXCEPT ![1] = [S EXCEPT !.tail = n]]
  BY <1>3 DEF AddTail
<1>5. wpc'[w] = "notify"
  BY <1>1, <1>2, TParts DEF WriterT
<1>6. Linked = n /\ Linked' = n /\ n \in Nat /\ ~At("tail")'
  BY <1>1, <1>2, <1>5, Stages, TParts
<1>7. Len(streams) = 1 /\ streams \in Seq(StreamRecs) /\ S \in StreamRecs
  BY <1>1, <1>3, TParts DEF ChainOK, StoreT
<1>8. Len(streams') = 1 /\ streams'[1].head = S.head /\ streams'[1].tail = n
  BY <1>4, <1>7 DEF StreamRecs
<1>9. FollowOK'
  BY <1>1, <1>2, <1>6, FollowKept
<1>10. ChainOK'
  <2>1. Nodes' = Nodes
    BY <1>2 DEF Nodes
  <2>2. S.head = IF n > 0 THEN 1 ELSE NULL
    BY <1>1, <1>3, <1>6 DEF ChainOK
  <2> QED
    BY <1>1, <1>2, <1>3, <1>6, <1>8, <2>1, <2>2 DEF ChainOK
<1>11. AddOK'
  BY <1>2, <1>3, <1>5, AddWhole
<1> QED
  BY <1>9, <1>10, <1>11 DEF WriterGoal

LEMMA NotifyC == ASSUME OneWriter, CInv, NEW w \in Writers, AddNotify(w) PROVE WriterGoal
<1>1. TInv /\ ChainOK /\ AddOK /\ FollowOK
  BY DEF CInv
<1>2. /\ wpc[w] = "notify"
      /\ rpc' = [r \in Readers |-> IF rpc[r] = "wait" THEN "recheck" ELSE rpc[r]]
      /\ acked' = acked \cup {wnode[w]} /\ AddReturns(w)
      /\ UNCHANGED <<streams, current, node, crashed, mode, rstream, rid, sleptAt, seen>>
  BY DEF AddNotify, storeVars, requestVars
<1>3. wpc'[w] = "idle"
  BY <1>1, <1>2, TParts DEF AddReturns, WriterT
<1>4. acked' \subseteq 1..Linked
  <2>1. Linked = Len(node) /\ wnode[w] = Len(node)
    BY <1>1, <1>2, Stages DEF AddOK
  <2>2. wnode[w] \in Nodes
    BY <1>1, <1>2, TParts DEF TInv, WritersOK, WriterT, Pointers
  <2> QED
    BY <1>1, <1>2, <2>1, <2>2 DEF ChainOK, Nodes
<1>5. \A r \in Readers : rpc'[r] = "idle" <=> rpc[r] = "idle"
  BY <1>2
<1>6. ChainOK' /\ FollowOK'
  BY <1>1, <1>2, <1>3, <1>4, <1>5, QuietC
<1>7. AddOK'
  BY <1>3, AddWhole
<1> QED
  BY <1>6, <1>7 DEF WriterGoal

-----------------------------------------------------------------------------
(* One writer: the steps of XREAD *)

\* A reader leaves the chain and the writer alone.
LEMMA ReaderC ==
    ASSUME ChainOK, AddOK, UNCHANGED <<streams, current, node, crashed, acked>>,
           UNCHANGED <<wpc, wstream, wid, wnode>>
    PROVE  ChainOK' /\ AddOK' /\ Linked' = Linked
<1>1. Linked' = Linked /\ (At("tail")' <=> At("tail")) /\ Nodes' = Nodes
  BY DEF Linked, Unlinked, At, Nodes
<1>2. ChainOK'
  BY <1>1 DEF ChainOK
<1> QED
  BY <1>1, <1>2 DEF AddOK

\* What one reader's step leaves of FollowOK to show.
LEMMA FollowOne ==
    ASSUME FollowOK, NEW r \in Readers, node' = node, Linked' = Linked,
           \A q \in Readers : q # r => seen'[q] = seen[q] /\ rid'[q] = rid[q]
                                       /\ rpc'[q] = rpc[q],
           \A i \in 1..Len(seen'[r]) : seen'[r][i] \in 1..Linked,
           \A i \in 1..(Len(seen'[r]) - 1) : seen'[r][i + 1] = seen'[r][i] + 1,
           rpc'[r] # "idle" /\ seen'[r] # <<>> => rid'[r] = Cursor(r)'
    PROVE  FollowOK'
<1>1. ASSUME NEW q \in Readers, q # r
      PROVE  /\ \A i \in 1..Len(seen'[q]) : seen'[q][i] \in 1..Linked
             /\ \A i \in 1..(Len(seen'[q]) - 1) : seen'[q][i + 1] = seen'[q][i] + 1
             /\ rpc'[q] # "idle" /\ seen'[q] # <<>> => rid'[q] = Cursor(q)'
  <2>1. seen'[q] = seen[q] /\ rid'[q] = rid[q] /\ rpc'[q] = rpc[q]
    BY <1>1
  <2>2. Cursor(q)' = Cursor(q)
    BY <2>1 DEF Cursor
  <2> QED
    BY <2>1, <2>2 DEF FollowOK
<1>2. ASSUME NEW q \in Readers
      PROVE  /\ \A i \in 1..Len(seen'[q]) : seen'[q][i] \in 1..(Linked')
             /\ \A i \in 1..(Len(seen'[q]) - 1) : seen'[q][i + 1] = seen'[q][i] + 1
             /\ rpc'[q] # "idle" /\ seen'[q] # <<>> => rid'[q] = Cursor(q)'
  BY <1>1
<1> QED
  BY <1>2 DEF FollowOK

\* A reader that is not answered keeps what it asked for.
LEMMA StageC ==
    ASSUME CInv, NEW r \in Readers, NEW stage, rpc' = [rpc EXCEPT ![r] = stage],
           rpc[r] # "idle", UNCHANGED <<rid, seen>>,
           UNCHANGED <<streams, current, node, crashed, acked>>,
           UNCHANGED <<wpc, wstream, wid, wnode>>
    PROVE  WriterGoal
<1>1. TInv /\ ChainOK /\ AddOK /\ FollowOK
  BY DEF CInv
<1>2. ChainOK' /\ AddOK' /\ Linked' = Linked
  BY <1>1, ReaderC
<1>3. \A q \in Readers : q # r => rpc'[q] = rpc[q]
  BY <1>1, TParts DEF ReaderT
<1>4. /\ \A i \in 1..Len(seen[r]) : seen[r][i] \in 1..Linked
      /\ \A i \in 1..(Len(seen[r]) - 1) : seen[r][i + 1] = seen[r][i] + 1
      /\ seen[r] # <<>> => rid[r] = Cursor(r)
  BY <1>1 DEF FollowOK
<1>5. Cursor(r)' = Cursor(r)
  BY DEF Cursor
<1>6. FollowOK'
  BY <1>1, <1>2, <1>3, <1>4, <1>5, FollowOne
<1> QED
  BY <1>2, <1>6 DEF WriterGoal

LEMMA ReadLookupC == ASSUME CInv, NEW r \in Readers, ReadLookup(r) PROVE WriterGoal
<1>1. TInv /\ ChainOK /\ AddOK /\ FollowOK
  BY DEF CInv
<1>2. /\ rpc' = [rpc EXCEPT ![r] = "read"]
      /\ UNCHANGED <<streams, current, node, crashed, acked, seen>>
      /\ UNCHANGED <<wpc, wstream, wid, wnode>>
  BY DEF ReadLookup, storeVars, writerVars
<1>3. PICK id : rid' = [rid EXCEPT ![r] = id] /\ (seen[r] = <<>> \/ id = Cursor(r))
  BY DEF ReadLookup
<1>4. ChainOK' /\ AddOK' /\ Linked' = Linked
  BY <1>1, <1>2, ReaderC
<1>5. /\ \A q \in Readers : q # r => rpc'[q] = rpc[q] /\ rid'[q] = rid[q]
      /\ rid'[r] = id
  BY <1>1, <1>2, <1>3, TParts DEF ReaderT
<1>6. Cursor(r)' = Cursor(r)
  BY <1>2 DEF Cursor
<1>7. /\ \A i \in 1..Len(seen[r]) : seen[r][i] \in 1..Linked
      /\ \A i \in 1..(Len(seen[r]) - 1) : seen[r][i + 1] = seen[r][i] + 1
  BY <1>1 DEF FollowOK
<1>8. FollowOK'
  BY <1>1, <1>2, <1>3, <1>4, <1>5, <1>6, <1>7, FollowOne
<1> QED
  BY <1>4, <1>8 DEF WriterGoal

\* The first entry after the last one sent is its neighbour on the chain.
LEMMA ReplyC ==
    ASSUME CInv, NEW r \in Readers, Reply(r, streamRead(rstream[r], rid[r])), rpc[r] # "idle",
           UNCHANGED <<streams, current, node, crashed, acked>>,
           UNCHANGED <<wpc, wstream, wid, wnode>>
    PROVE  WriterGoal
<1> DEFINE found == streamRead(rstream[r], rid[r])
           l == List(rstream[r])
           q == seen[r]
           m == Min(found)
<1>1. TInv /\ ChainOK /\ AddOK /\ FollowOK
  BY DEF CInv
<1>2. /\ seen' = [seen EXCEPT ![r] = IF found = {} THEN q ELSE Append(q, l[m])]
      /\ rpc' = [rpc EXCEPT ![r] = "idle"] /\ rid' = [rid EXCEPT ![r] = 0]
  BY DEF Reply, Answered
<1>3. ChainOK' /\ AddOK' /\ Linked' = Linked
  BY <1>1, ReaderC
<1>4. /\ \A p \in Readers : p # r => seen'[p] = seen[p] /\ rid'[p] = rid[p] /\ rpc'[p] = rpc[p]
      /\ seen'[r] = (IF found = {} THEN q ELSE Append(q, l[m])) /\ rpc'[r] = "idle"
  BY <1>1, <1>2, TParts DEF ReaderT
<1>5. /\ q \in Seq(Nodes) /\ rstream[r] \in 0..Len(streams) /\ Linked \in Nat
      /\ rid[r] \in Nat
  BY <1>1, TParts, LinkedType DEF ReaderT
<1>6. /\ \A i \in 1..Len(q) : q[i] \in 1..Linked
      /\ \A i \in 1..(Len(q) - 1) : q[i + 1] = q[i] + 1
      /\ q # <<>> => rid[r] = Cursor(r)
  BY <1>1 DEF FollowOK
<1>7. CASE found = {}
  <2> HIDE DEF found, l, q, m
  <2> QED
    BY <1>1, <1>3, <1>4, <1>6, <1>7, FollowOne DEF WriterGoal
<1>8. CASE found # {}
  <2>1. rstream[r] = 1 /\ current # NULL
    <3>1. rstream[r] # NULL
      <4>1. SUFFICES ASSUME rstream[r] = NULL PROVE found = {}
        BY <1>8
      <4>2. l = <<>> /\ Len(l) = 0
        BY <4>1 DEF List
      <4> HIDE DEF l
      <4>3. found = {k \in 1..Len(l) : node[l[k]].id > rid[r]}
        BY DEF streamRead, l
      <4> QED
        BY <4>2, <4>3
    <3> QED
      BY <1>1, <1>5, <3>1 DEF ChainOK
  <2>2. Len(l) = Linked /\ \A k \in 1..Linked : l[k] = k
    BY <1>1, <2>1, ChainList
  <2>3. found = {k \in 1..Linked : node[k].id > rid[r]}
    BY <2>2 DEF streamRead
  <2> HIDE DEF found, l, q
  <2>4. m \in found /\ \A k \in found : m <= k
    <3>1. found \in SUBSET Nat
      BY <2>3
    <3> QED
      BY <1>8, <3>1, MinFound
  <2> HIDE DEF m
  <2>5. m \in 1..Linked /\ l[m] = m /\ m \in Nat
    BY <1>5, <2>2, <2>3, <2>4
  <2>6. 1..Linked \subseteq Nodes
    BY <1>1, LinkedType, TParts DEF Nodes
  <2>7. /\ Len(Append(q, m)) = Len(q) + 1 /\ Append(q, m)[Len(q) + 1] = m /\ Len(q) \in Nat
        /\ \A i \in 1..Len(q) : Append(q, m)[i] = q[i]
    BY <1>5, <2>5, <2>6, AppendProperties, LenProperties
  <2>8. q # <<>> => m = q[Len(q)] + 1
    <3>1. SUFFICES ASSUME q # <<>> PROVE m = q[Len(q)] + 1
      OBVIOUS
    <3> DEFINE c == q[Len(q)]
    <3>2. Len(q) \in 1..Len(q)
      BY <1>5, <3>1, EmptySeq
    <3>3. c \in 1..Linked /\ rid[r] = node[c].id
      BY <1>6, <3>1, <3>2 DEF Cursor, q
    <3> HIDE DEF c
    <3>4. \A i, j \in 1..Linked : /\ node[i].id \in Nat
                                  /\ i < j => node[i].id < node[j].id
      BY <1>1, <2>6, TParts DEF ChainOK, NodeRecs
    <3>5. node[m].id > node[c].id
      BY <2>3, <2>4, <3>3
    <3>6. c < m
      <4>1. SUFFICES ASSUME m <= c PROVE FALSE
        BY <1>5, <2>5, <3>3
      <4>2. node[m].id <= node[c].id
        <5>1. m = c \/ m < c
          BY <1>5, <2>5, <3>3, <4>1
        <5> QED
          BY <2>5, <3>3, <3>4, <5>1
      <4> QED
        BY <2>5, <3>3, <3>4, <3>5, <4>2
    <3>7. c + 1 \in 1..Linked /\ c < c + 1
      BY <1>5, <2>5, <3>3, <3>6
    <3>8. c + 1 \in found
      <4>1. node[c].id < node[c + 1].id /\ node[c].id \in Nat /\ node[c + 1].id \in Nat
        BY <3>3, <3>4, <3>7
      <4> QED
        BY <2>3, <3>3, <3>7, <4>1
    <3>9. m <= c + 1
      BY <2>4, <3>8
    <3>10. m = c + 1
      BY <1>5, <2>5, <3>3, <3>6, <3>9
    <3> QED
      BY <3>10 DEF c
  <2>9. \A i \in 1..Len(Append(q, m)) : Append(q, m)[i] \in 1..Linked
    <3>1. ASSUME NEW i \in 1..(Len(q) + 1) PROVE Append(q, m)[i] \in 1..Linked
      <4>1. CASE i = Len(q) + 1
        BY <2>5, <2>7, <4>1
      <4>2. CASE i # Len(q) + 1
        BY <1>6, <2>7, <4>2
      <4> QED
        BY <4>1, <4>2
    <3> QED
      BY <2>7, <3>1
  <2>10. \A i \in 1..(Len(Append(q, m)) - 1) : Append(q, m)[i + 1] = Append(q, m)[i] + 1
    <3>1. ASSUME NEW i \in 1..Len(q) PROVE Append(q, m)[i + 1] = Append(q, m)[i] + 1
      <4>1. CASE i = Len(q)
        <5>1. q # <<>>
          BY <1>5, <2>7, <4>1, EmptySeq
        <5> QED
          BY <2>7, <2>8, <4>1, <5>1
      <4>2. CASE i # Len(q)
        <5>1. i \in 1..(Len(q) - 1) /\ i + 1 \in 1..Len(q)
          BY <2>7, <4>2
        <5> QED
          BY <1>6, <2>7, <5>1
      <4> QED
        BY <4>1, <4>2
    <3> QED
      BY <2>7, <3>1
  <2>11. seen'[r] = Append(q, m)
    BY <1>4, <1>8, <2>5
  <2>12. FollowOK'
    BY <1>1, <1>3, <1>4, <2>9, <2>10, <2>11, FollowOne
  <2> QED
    BY <1>3, <2>12 DEF WriterGoal
<1> QED
  BY <1>7, <1>8

LEMMA ReaderNextC ==
    ASSUME CInv, NEW r \in Readers, ReadLookup(r) \/ ReadStep(r) \/ ReadSpurious(r)
    PROVE  WriterGoal
<1> USE DEF storeVars, writerVars, requestVars
<1>1. CASE ReadLookup(r)
  BY <1>1, ReadLookupC
<1>2. CASE ReadFirst(r)
  <2>1. CASE Reply(r, streamRead(rstream[r], rid[r]))
    BY <1>2, <2>1, ReplyC DEF ReadFirst
  <2>2. CASE rpc' = [rpc EXCEPT ![r] = "enter"] /\ UNCHANGED <<requestVars, sleptAt, seen>>
    BY <1>2, <2>2, StageC DEF ReadFirst
  <2> QED
    BY <1>2, <2>1, <2>2 DEF ReadFirst
<1>3. CASE ReadSleep(r)
  BY <1>3, StageC DEF ReadSleep
<1>4. CASE ReadInvalidTime(r) \/ ReadSpurious(r)
  BY <1>4, StageC DEF ReadInvalidTime, ReadSpurious
<1>5. CASE ReadTimeout(r)
  <2>1. TInv /\ ChainOK /\ AddOK /\ FollowOK
    BY DEF CInv
  <2>2. ChainOK' /\ AddOK' /\ Linked' = Linked
    BY <1>5, <2>1, ReaderC DEF ReadTimeout
  <2>3. /\ \A q \in Readers : q # r => rid'[q] = rid[q] /\ rpc'[q] = rpc[q]
        /\ rpc'[r] = "idle" /\ seen' = seen /\ node' = node
    BY <1>5, <2>1, TParts DEF ReadTimeout, Answered, ReaderT
  <2>4. /\ \A i \in 1..Len(seen[r]) : seen[r][i] \in 1..Linked
        /\ \A i \in 1..(Len(seen[r]) - 1) : seen[r][i + 1] = seen[r][i] + 1
    BY <2>1 DEF FollowOK
  <2>5. FollowOK'
    BY <2>1, <2>2, <2>3, <2>4, FollowOne
  <2> QED
    BY <2>2, <2>5 DEF WriterGoal
<1>6. CASE ReadAgain(r)
  BY <1>6, ReplyC DEF ReadAgain
<1> QED
  BY <1>1, <1>2, <1>3, <1>4, <1>5, <1>6 DEF ReadStep

-----------------------------------------------------------------------------
(* One writer: what follows *)

LEMMA InitC == ASSUME Init PROVE CInv
<1>1. TInv
  BY InitT
<1>2. Len(streams) = 0 /\ Len(node) = 0 /\ \A r \in Readers : seen[r] = <<>> /\ Len(seen[r]) = 0
  BY EmptySeq DEF Init
<1>3. Linked = 0 /\ Nodes = {}
  BY <1>1, <1>2, LinkedType DEF Nodes
<1>4. ChainOK
  BY <1>2, <1>3 DEF Init, ChainOK
<1>5. AddOK /\ FollowOK
  BY <1>2 DEF Init, AddOK, FollowOK
<1> QED
  BY <1>1, <1>4, <1>5 DEF CInv

LEMMA NextC == ASSUME OneWriter PROVE CInv /\ [Next]_vars => CInv'
<1> SUFFICES ASSUME CInv, [Next]_vars PROVE CInv'
  OBVIOUS
<1>1. TInv'
  BY NextT DEF CInv
<1>2. ASSUME NEW w \in Writers, AddLookup(w) \/ AddStep(w) PROVE WriterGoal
  BY <1>2, LookupC, CreateC, ParseC, CheckC, TestC, LinkC, TailC, NotifyC DEF AddStep
<1>3. ASSUME NEW r \in Readers, ReadLookup(r) \/ ReadStep(r) \/ ReadSpurious(r) PROVE WriterGoal
  BY <1>3, ReaderNextC
<1>4. ASSUME UNCHANGED vars PROVE WriterGoal
  <2>1. TInv /\ ChainOK /\ AddOK /\ FollowOK
    BY DEF CInv
  <2>2. ChainOK' /\ AddOK' /\ Linked' = Linked
    BY <1>4, <2>1, ReaderC DEF vars, storeVars, writerVars
  <2>3. Linked' \in Nat /\ Linked <= Linked'
    BY <2>1, <2>2, LinkedType
  <2>4. FollowOK'
    BY <1>4, <2>1, <2>3, FollowKept DEF vars, storeVars, readerVars, requestVars
  <2> QED
    BY <2>2, <2>4 DEF WriterGoal
<1>5. WriterGoal
  BY <1>2, <1>3, <1>4 DEF Next
<1> QED
  BY <1>1, <1>5 DEF CInv, WriterGoal

\* The elements of the list that storeGetStream finds.
LEMMA OnTheList ==
    ASSUME CInv
    PROVE  /\ Linked \in Nat
           /\ Linked > 0 => /\ Len(List(current)) = Linked
                            /\ \A k \in 1..Linked : List(current)[k] = k
<1>1. TInv /\ ChainOK
  BY DEF CInv
<1>2. Linked \in Nat /\ Linked <= Len(node) /\ Len(node) \in Nat
  BY <1>1, LinkedType, TParts
<1>3. Linked > 0 => current # NULL
  BY <1>1, <1>2 DEF ChainOK
<1>4. current # NULL => current = 1
  BY <1>1, TParts DEF ChainOK
<1>5. current # NULL => Len(List(1)) = Linked /\ \A k \in 1..Linked : List(1)[k] = k
  BY <1>1, ChainList
<1> QED
  BY <1>2, <1>3, <1>4, <1>5

LEMMA CInvReadable == CInv => AckedReadable
<1> SUFFICES ASSUME CInv, NEW i \in acked PROVE i \in Elements(List(current))
  BY DEF AckedReadable
<1>1. i \in 1..Linked
  BY DEF CInv, ChainOK
<1> QED
  BY <1>1, OnTheList DEF Elements

LEMMA CInvFollowed == CInv => FollowerSkipsNothing
<1> DEFINE l == List(current)
<1> SUFFICES ASSUME CInv, NEW r \in Readers, NEW i \in 1..(Len(seen[r]) - 1)
             PROVE  \E k \in 1..(Len(l) - 1) : l[k] = seen[r][i] /\ l[k + 1] = seen[r][i + 1]
  BY DEF FollowerSkipsNothing
<1> DEFINE a == seen[r][i]
<1>1. Len(seen[r]) \in Nat
  <2>1. TInv
    BY DEF CInv
  <2>2. seen[r] \in Seq(Nodes)
    BY <2>1, TParts DEF ReaderT
  <2> QED
    BY <2>2, LenProperties
<1>2. i \in 1..Len(seen[r]) /\ i + 1 \in 1..Len(seen[r])
  BY <1>1
<1>3. a \in 1..Linked /\ seen[r][i + 1] \in 1..Linked /\ seen[r][i + 1] = a + 1
  BY <1>2 DEF CInv, FollowOK
<1> HIDE DEF a, l
<1>4. Linked \in Nat /\ Linked > 0
  BY <1>3, OnTheList
<1>5. Len(l) = Linked /\ \A k \in 1..Linked : l[k] = k
  BY <1>4, OnTheList DEF l
<1>6. a \in 1..(Len(l) - 1) /\ l[a] = a /\ l[a + 1] = a + 1
  BY <1>3, <1>4, <1>5
<1> QED
  BY <1>3, <1>6 DEF a

\* While one thread at a time adds entries, an XADD that was answered with an
\* id can be read, however many clients read meanwhile.  The run with two
\* writers shows that streamAdd does not promise this without the hypothesis.
THEOREM OneWriterReadable == ASSUME OneWriter PROVE Spec => []AckedReadable
<1>1. CInv /\ [Next]_vars => CInv'
  BY NextC
<1>2. Init => CInv
  BY InitC
<1> QED
  BY <1>1, <1>2, CInvReadable, PTL DEF Spec

\* A client that follows the stream by its last id misses nothing and gets
\* nothing twice, through wake-ups, time limits and spurious wake-ups.
THEOREM OneWriterFollowed == ASSUME OneWriter PROVE Spec => []FollowerSkipsNothing
<1>1. CInv /\ [Next]_vars => CInv'
  BY NextC
<1>2. Init => CInv
  BY InitC
<1> QED
  BY <1>1, <1>2, CInvFollowed, PTL DEF Spec

\* With one writer streamAdd never follows a tail that is NULL.
THEOREM OneWriterNoCrash == ASSUME OneWriter PROVE Spec => []~crashed
<1>1. CInv /\ [Next]_vars => CInv'
  BY NextC
<1>2. Init => CInv
  BY InitC
<1>3. CInv => ~crashed
  BY DEF CInv, ChainOK
<1> QED
  BY <1>1, <1>2, <1>3, PTL DEF Spec

-----------------------------------------------------------------------------
(* One writer: the list is a log *)

LogEntries == [entry : Nat, id : Nat]

\* The entries on the chain.
Chain == [k \in 1..Linked |-> View(k)]
LogIsChain == Readable = Chain

LEMMA InitLog == Init => Log!LogInit
<1> SUFFICES ASSUME Init PROVE Log!LogInit
  OBVIOUS
<1>1. Returned = {}
  BY DEF Init, Returned
<1>2. Sent = [r \in Readers |-> <<>>]
  <2>1. \A r \in Readers : seen[r] = <<>> /\ Len(seen[r]) = 0
    BY EmptySeq DEF Init
  <2>2. ASSUME NEW r \in Readers PROVE Views(seen[r]) = <<>>
    BY <2>1 DEF Views
  <2> QED
    BY <2>2 DEF Sent
<1>3. Readable = <<>>
  <2> DEFINE l == List(current)
  <2>1. l = <<>> /\ Len(<<>>) = 0
    BY EmptySeq DEF Init, List
  <2>2. Readable = Views(l)
    BY DEF Readable
  <2> HIDE DEF l
  <2>3. Len(l) = 0
    BY <2>1
  <2>4. Views(l) = <<>>
    BY <2>3 DEF Views
  <2> QED
    BY <2>2, <2>4
<1> QED
  BY <1>1, <1>2, <1>3 DEF Log!LogInit

LEMMA CInvLog == CInv => LogIsChain
<1> SUFFICES ASSUME CInv PROVE Views(List(current)) = Chain
  BY DEF LogIsChain, Readable
<1> DEFINE l == List(current)
<1>1. TInv /\ ChainOK
  BY DEF CInv
<1>2. Len(l) = Linked /\ \A k \in 1..Linked : l[k] = k
  <2>1. CASE current = NULL
    <3>1. Len(node) = 0 /\ Linked \in Nat /\ Linked <= Len(node)
      BY <1>1, <2>1, LinkedType DEF ChainOK
    <3>2. Linked = 0
      BY <3>1
    <3>3. Len(l) = 0
      BY <2>1 DEF List
    <3> QED
      BY <3>2, <3>3
  <2>2. CASE current # NULL
    <3>1. current = 1
      BY <1>1, <2>2, TParts DEF ChainOK
    <3> QED
      BY <1>1, <2>2, <3>1, ChainList
  <2> QED
    BY <2>1, <2>2
<1> HIDE DEF l
<1>3. Views(l) = [k \in 1..Linked |-> View(k)]
  BY <1>2 DEF Views
<1> QED
  BY <1>3 DEF Chain, l

LEMMA CInvLogNext == CInv' => LogIsChain'
  BY CInvLog, PTL

\* What CInv says of the chain and of the clients, in both states of a step.
LEMMA ChainFacts ==
    ASSUME CInv
    PROVE  /\ Linked \in Nat /\ 1..Linked \subseteq Nodes
           /\ \A i, j \in 1..Linked : /\ node[i].id \in Nat
                                      /\ i < j => node[i].id < node[j].id
           /\ \A i \in 1..Linked : View(i) \in LogEntries
           /\ acked \subseteq 1..Linked
           /\ \A r \in Readers : /\ seen[r] \in Seq(Nodes) /\ Len(seen[r]) \in Nat
                                 /\ \A i \in 1..Len(seen[r]) : seen[r][i] \in 1..Linked
<1>1. TInv /\ ChainOK /\ FollowOK
  BY DEF CInv
<1>2. Linked \in Nat /\ 1..Linked \subseteq Nodes
  BY <1>1, LinkedType, TParts DEF Nodes
<1>3. \A i, j \in 1..Linked : /\ node[i].id \in Nat
                              /\ i < j => node[i].id < node[j].id
  BY <1>1, <1>2, TParts DEF ChainOK, NodeRecs
<1>4. acked \subseteq 1..Linked
  BY <1>1 DEF ChainOK
<1>5. ASSUME NEW r \in Readers
      PROVE  /\ seen[r] \in Seq(Nodes) /\ Len(seen[r]) \in Nat
             /\ \A i \in 1..Len(seen[r]) : seen[r][i] \in 1..Linked
  BY <1>1, TParts, LenProperties DEF ReaderT, FollowOK
<1>6. \A i \in 1..Linked : View(i) \in LogEntries
  BY <1>2, <1>3 DEF View, LogEntries
<1> QED
  BY <1>2, <1>3, <1>4, <1>5, <1>6

\* Entries that stay on the chain keep their ids, and so do the answers.
LEMMA SameIds ==
    ASSUME CInv, \A i \in 1..Linked : node'[i].id = node[i].id
    PROVE  /\ seen' = seen => Sent' = Sent
           /\ acked' = acked => Returned' = Returned
           /\ Linked' = Linked => Chain' = Chain
<1>1. ASSUME seen' = seen PROVE Sent' = Sent
  <2>1. ASSUME NEW r \in Readers
        PROVE  [k \in 1..Len(seen[r]) |-> [entry |-> seen[r][k], id |-> node'[seen[r][k]].id]]
                 = [k \in 1..Len(seen[r]) |-> [entry |-> seen[r][k], id |-> node[seen[r][k]].id]]
    <3>1. \A i \in 1..Len(seen[r]) : seen[r][i] \in 1..Linked
      BY ChainFacts
    <3> QED
      BY <3>1
  <2> QED
    BY <1>1, <2>1 DEF Sent, Views, View
<1>2. ASSUME acked' = acked PROVE Returned' = Returned
  <2>1. acked \subseteq 1..Linked
    BY ChainFacts
  <2> QED
    BY <1>2, <2>1 DEF Returned, View
<1>3. ASSUME Linked' = Linked PROVE Chain' = Chain
  BY <1>3 DEF Chain, View
<1> QED
  BY <1>1, <1>2, <1>3

\* A step that changes neither the chain nor what the clients have got.
LEMMA LogQuiet ==
    ASSUME CInv, CInv', Linked' = Linked, \A i \in 1..Linked : node'[i].id = node[i].id,
           acked' = acked, seen' = seen
    PROVE  UNCHANGED Log!logVars
<1>1. Readable = Chain /\ Readable' = Chain'
  BY CInvLog, CInvLogNext DEF LogIsChain
<1>2. Chain' = Chain /\ Returned' = Returned /\ Sent' = Sent
  BY SameIds
<1> QED
  BY <1>1, <1>2 DEF Log!logVars

LogStep == Log!LogNext \/ UNCHANGED Log!logVars

\* An entry can be read from the moment it is linked.
LEMMA LinkLog ==
    ASSUME OneWriter, CInv, CInv', NEW w \in Writers, AddLink(w)
    PROVE  LogStep
<1> DEFINE n == Len(node)
           e == View(n)
<1>1. TInv /\ ChainOK /\ AddOK
  BY DEF CInv
<1>2. /\ wpc[w] \in {"head", "next"} /\ wpc' = [wpc EXCEPT ![w] = "tail"]
      /\ acked' = acked /\ seen' = seen
      /\ \/ node' = node
         \/ node' = [node EXCEPT ![streams[wstream[w]].tail].next = wnode[w]]
  BY DEF AddLink, readerVars, requestVars
<1>3. wpc'[w] = "tail" /\ n \in Nat /\ node \in Seq(NodeRecs)
  BY <1>1, <1>2, TParts DEF WriterT, StoreT
<1>4. Len(node') = n /\ \A i \in 1..n : node'[i].id = node[i].id
  <2>1. \A i \in 1..n : node[i] \in NodeRecs
    BY <1>3
  <2>2. CASE node' = node
    BY <2>2
  <2>3. ASSUME NEW t, node' = [node EXCEPT ![t].next = wnode[w]]
        PROVE  Len(node') = n /\ \A i \in 1..n : node'[i].id = node[i].id
    <3>1. DOMAIN node = 1..n
      BY <1>3
    <3>2. DOMAIN node' = 1..n /\ Len(node') = n
      BY <1>3, <2>3, <3>1
    <3>3. ASSUME NEW i \in 1..n PROVE node'[i].id = node[i].id
      <4>1. node'[i] = IF i = t THEN [node[i] EXCEPT !.next = wnode[w]] ELSE node[i]
        BY <2>3, <3>1
      <4>2. [node[i] EXCEPT !.next = wnode[w]].id = node[i].id
        BY <2>1 DEF NodeRecs
      <4> QED
        BY <4>1, <4>2
    <3> QED
      BY <3>2, <3>3
  <2> QED
    BY <1>2, <2>2, <2>3
<1>5. Linked = n - 1 /\ Linked' = n /\ Linked \in Nat
  BY <1>1, <1>2, <1>3, <1>4, Stages, LinkedType
<1> HIDE DEF n
<1>6. \A i \in 1..Linked : node'[i].id = node[i].id
  BY <1>3, <1>4, <1>5
<1>7. Returned' = Returned /\ Sent' = Sent
  BY <1>2, <1>6, SameIds
<1>8. Readable = Chain /\ Readable' = Chain'
  BY CInvLog, CInvLogNext DEF LogIsChain
<1>9. /\ n \in 1..n /\ \A i \in 1..n : View(i) \in LogEntries
      /\ \A i \in 1..(n - 1) : View(i).id < e.id
  <2>1. /\ n \in 1..n /\ \A i \in 1..n : node[i] \in NodeRecs
    BY <1>3, <1>5 DEF n
  <2>2. \A i, j \in 1..n : i < j => node[i].id < node[j].id
    BY <1>1 DEF ChainOK, Nodes, n
  <2>3. \A i \in 1..(n - 1) : i \in 1..n /\ i < n
    BY <1>3
  <2> QED
    BY <1>3, <2>1, <2>2, <2>3 DEF NodeRecs, View, LogEntries
<1> DEFINE c == [k \in 1..(n - 1) |-> View(k)]
<1>10. Chain = c /\ Chain' = [k \in 1..n |-> View(k)]
  BY <1>4, <1>5 DEF Chain, View
<1>11. c \in Seq(LogEntries) /\ Len(c) = n - 1
  BY <1>3, <1>5, <1>9
<1>12. Chain' = Append(c, e)
  <2>1. Append(c, e) \in Seq(LogEntries) /\ Len(Append(c, e)) = n
        /\ \A k \in 1..(n - 1) : Append(c, e)[k] = c[k]
        /\ Append(c, e)[n] = e
    <3>1. /\ Append(c, e) \in Seq(LogEntries) /\ Len(Append(c, e)) = Len(c) + 1
          /\ \A k \in 1..Len(c) : Append(c, e)[k] = c[k]
          /\ Append(c, e)[Len(c) + 1] = e
      <4> HIDE DEF c, e
      <4>1. e \in LogEntries
        BY <1>9 DEF e
      <4> QED
        BY <1>11, <4>1, AppendProperties
    <3>2. Len(c) + 1 = n
      <4> HIDE DEF c
      <4> QED
        BY <1>3, <1>11
    <3> QED
      BY <1>11, <3>1, <3>2
  <2>2. Chain' \in Seq(LogEntries) /\ Len(Chain') = n
    BY <1>3, <1>9, <1>10
  <2>3. ASSUME NEW k \in 1..n PROVE Chain'[k] = Append(c, e)[k]
    <3>1. CASE k = n
      BY <1>10, <2>1, <3>1
    <3>2. CASE k # n
      <4>1. k \in 1..(n - 1)
        BY <1>3, <3>2
      <4>2. c[k] = View(k)
        BY <4>1
      <4> HIDE DEF c, e
      <4> QED
        BY <1>10, <2>1, <4>1, <4>2
    <3> QED
      BY <3>1, <3>2
  <2> HIDE DEF c, e
  <2> QED
    BY <2>1, <2>2, <2>3, SeqEqual
<1>13. Log!Add(e)
  <2>1. \A k \in 1..Len(Readable) : Readable[k].id < e.id
    BY <1>8, <1>9, <1>10, <1>11
  <2> HIDE DEF c, e
  <2> QED
    BY <1>7, <1>8, <1>10, <1>12, <2>1 DEF Log!Add
<1>14. Len(Readable') = n /\ Readable'[n] = e
  BY <1>3, <1>8, <1>9, <1>10
<1> HIDE DEF e, c
<1> QED
  BY <1>9, <1>13, <1>14 DEF LogStep, Log!LogNext

\* The id is returned after its entry was linked.
LEMMA NotifyLog ==
    ASSUME OneWriter, CInv, CInv', NEW w \in Writers, AddNotify(w)
    PROVE  LogStep
<1> DEFINE n == wnode[w]
<1>1. TInv /\ ChainOK /\ AddOK
  BY DEF CInv
<1>2. /\ wpc[w] = "notify" /\ acked' = acked \cup {n} /\ node' = node /\ seen' = seen
      /\ AddReturns(w)
  BY DEF AddNotify, storeVars
<1>3. wpc'[w] = "idle"
  BY <1>1, <1>2, TParts DEF AddReturns, WriterT
<1>4. Linked' = Linked /\ Linked = Len(node)
  BY <1>1, <1>2, <1>3, Stages
<1>5. n \in acked' /\ acked' \subseteq 1..Linked
  <2>1. acked' \subseteq 1..(Linked')
    BY DEF CInv, ChainOK
  <2> QED
    BY <1>2, <1>4, <2>1
<1>6. Readable = Chain /\ Readable' = Chain'
  BY CInvLog, CInvLogNext DEF LogIsChain
<1>7. Chain' = Chain /\ Sent' = Sent
  BY <1>2, <1>4, SameIds
<1> HIDE DEF n
<1>8. Len(Chain) = Linked /\ Chain[n] = View(n) /\ n \in 1..Linked
  <2>1. Linked \in Nat
    BY ChainFacts
  <2> QED
    BY <1>5, <2>1 DEF Chain
<1>9. Returned' = Returned \cup {Chain[n]}
  BY <1>2, <1>8 DEF Returned, View
<1>10. Log!Acknowledge(n)
  BY <1>6, <1>7, <1>9 DEF Log!Acknowledge
<1> QED
  BY <1>6, <1>8, <1>10 DEF LogStep, Log!LogNext

\* A client gets the entry behind its last one.
LEMMA ReplyLog ==
    ASSUME CInv, CInv', NEW r \in Readers, NEW found, Reply(r, found),
           UNCHANGED <<node, acked, wpc>>
    PROVE  LogStep
<1> DEFINE q == seen[r]
           m == List(rstream[r])[Min(found)]
<1>1. seen' = [seen EXCEPT ![r] = IF found = {} THEN q ELSE Append(q, m)]
  BY DEF Reply
<1>2. Linked' = Linked
  BY DEF Linked, Unlinked, At
<1>3. seen \in [Readers -> Seq(Nodes)]
  BY TParts DEF CInv, ReaderT
<1>4. CASE found = {}
  <2>1. seen' = seen
    BY <1>1, <1>3, <1>4
  <2> QED
    BY <1>2, <2>1, LogQuiet DEF LogStep
<1>5. CASE found # {}
  <2> HIDE DEF m
  <2>1. /\ seen'[r] = Append(q, m) /\ \A p \in Readers : p # r => seen'[p] = seen[p]
        /\ DOMAIN seen' = Readers
    BY <1>1, <1>3, <1>5
  <2>2. /\ \A i \in 1..Len(seen'[r]) : seen'[r][i] \in 1..Linked
        /\ \A i \in 1..(Len(seen'[r]) - 1) : seen'[r][i + 1] = seen'[r][i] + 1
    BY <1>2 DEF CInv, FollowOK
  <2>3. /\ q \in Seq(Nodes) /\ Len(q) \in Nat /\ Linked \in Nat
        /\ \A i \in 1..Len(q) : q[i] \in 1..Linked
        /\ \A i \in 1..Linked : View(i) \in LogEntries
    BY ChainFacts
  <2> HIDE DEF q
  <2>4. /\ Len(Append(q, m)) = Len(q) + 1 /\ Append(q, m)[Len(q) + 1] = m
        /\ \A i \in 1..Len(q) : Append(q, m)[i] = q[i]
    BY <2>3
  <2>5. m \in 1..Linked
    <3>1. Len(q) + 1 \in 1..(Len(q) + 1)
      BY <2>3
    <3> QED
      BY <2>1, <2>2, <2>4, <3>1
  <2>6. q # <<>> => Len(q) \in 1..Len(q) /\ m = q[Len(q)] + 1
    <3>1. SUFFICES ASSUME q # <<>> PROVE Len(q) \in 1..Len(q) /\ m = q[Len(q)] + 1
      OBVIOUS
    <3>2. Len(q) \in 1..Len(q)
      BY <2>3, <3>1, EmptySeq
    <3>3. Len(q) \in 1..(Len(seen'[r]) - 1)
      BY <2>1, <2>3, <2>4, <3>2
    <3> QED
      BY <2>1, <2>2, <2>4, <3>2, <3>3
  <2> DEFINE a == [k \in 1..Len(q) |-> View(q[k])]
             b == [k \in 1..Len(Append(q, m)) |-> View(Append(q, m)[k])]
  <2>7. a \in Seq(LogEntries) /\ Len(a) = Len(q)
    BY <2>3
  <2>8. b = Append(a, View(m))
    <3>1. View(m) \in LogEntries
      BY <2>3, <2>5
    <3>2. b \in Seq(LogEntries) /\ Len(b) = Len(q) + 1
      <4>1. ASSUME NEW k \in 1..(Len(q) + 1) PROVE View(Append(q, m)[k]) \in LogEntries
        BY <2>1, <2>2, <2>3, <2>4
      <4> QED
        BY <2>3, <2>4, <4>1
    <3>3. ASSUME NEW k \in 1..(Len(q) + 1) PROVE b[k] = IF k = Len(q) + 1 THEN View(m) ELSE a[k]
      <4>1. b[k] = View(Append(q, m)[k])
        BY <2>4
      <4>2. CASE k = Len(q) + 1
        BY <2>4, <4>1, <4>2
      <4>3. CASE k # Len(q) + 1
        <5>1. k \in 1..Len(q)
          BY <2>3, <4>3
        <5> QED
          BY <2>4, <4>1, <4>3, <5>1
      <4> QED
        BY <4>2, <4>3
    <3> DEFINE d == Append(a, View(m))
    <3>4. d \in Seq(LogEntries) /\ Len(d) = Len(q) + 1 /\ d[Len(q) + 1] = View(m)
          /\ \A k \in 1..Len(q) : d[k] = a[k]
      <4> HIDE DEF a
      <4> QED
        BY <2>3, <2>7, <3>1, AppendProperties
    <3> HIDE DEF a, b, d
    <3>5. ASSUME NEW k \in 1..(Len(q) + 1) PROVE b[k] = d[k]
      <4>1. CASE k = Len(q) + 1
        BY <3>3, <3>4, <4>1
      <4>2. CASE k # Len(q) + 1
        <5>1. k \in 1..Len(q)
          BY <2>3, <4>2
        <5> QED
          BY <3>3, <3>4, <4>2, <5>1
      <4> QED
        BY <4>1, <4>2
    <3>6. b = d
      BY <3>2, <3>4, <3>5, SeqEqual
    <3> QED
      BY <3>6 DEF d
  <2>9. Sent[r] = a /\ Sent'[r] = b
    <3>1. Sent[r] = a
      BY DEF Sent, Views, q
    <3>2. Sent'[r] = [k \in 1..Len(seen'[r]) |->
                        [entry |-> seen'[r][k], id |-> node'[seen'[r][k]].id]]
      BY DEF Sent, Views, View
    <3> QED
      BY <2>1, <3>1, <3>2 DEF View
  <2>10. ASSUME NEW p \in Readers, p # r PROVE Sent'[p] = Sent[p]
    <3>1. Sent'[p] = [k \in 1..Len(seen'[p]) |->
                        [entry |-> seen'[p][k], id |-> node'[seen'[p][k]].id]]
      BY DEF Sent, Views, View
    <3>2. Sent[p] = [k \in 1..Len(seen[p]) |-> [entry |-> seen[p][k], id |-> node[seen[p][k]].id]]
      BY DEF Sent, Views, View
    <3> QED
      BY <2>1, <2>10, <3>1, <3>2
  <2>11. Readable = Chain /\ Readable' = Chain' /\ Chain' = Chain
         /\ Returned' = Returned
    BY <1>2, CInvLog, CInvLogNext, SameIds DEF LogIsChain
  <2>12. /\ Len(Chain) = Linked /\ Chain[m] = View(m)
         /\ \A k \in 1..Linked : Chain[k] = View(k)
    BY <2>3, <2>5 DEF Chain
  <2>13. Sent' = [Sent EXCEPT ![r] = Append(@, Chain[m])]
    <3>1. DOMAIN Sent = Readers /\ DOMAIN Sent' = Readers
          /\ Sent' = [p \in Readers |-> Sent'[p]]
      BY DEF Sent
    <3> HIDE DEF a, b
    <3> QED
      BY <2>8, <2>9, <2>10, <2>12, <3>1
  <2>14. Sent[r] # <<>> => m > 1 /\ Sent[r][Len(Sent[r])] = Chain[m - 1]
    <3>1. SUFFICES ASSUME a # <<>> PROVE m > 1 /\ a[Len(a)] = Chain[m - 1]
      BY <2>9
    <3>2. q # <<>>
      BY <2>7, <3>1, EmptySeq
    <3>3. Len(q) \in 1..Len(q) /\ m = q[Len(q)] + 1 /\ q[Len(q)] \in 1..Linked
      BY <2>3, <2>6, <3>2
    <3>4. m > 1 /\ m - 1 = q[Len(q)]
      BY <2>3, <3>3
    <3>5. a[Len(q)] = View(q[Len(q)])
      BY <3>3
    <3> HIDE DEF a
    <3> QED
      BY <2>7, <2>12, <3>3, <3>4, <3>5
  <2>15. Log!Send(r, m)
    BY <2>11, <2>13, <2>14 DEF Log!Send
  <2> QED
    BY <2>5, <2>11, <2>12, <2>15 DEF LogStep, Log!LogNext
<1> QED
  BY <1>4, <1>5

LEMMA WriterLog ==
    ASSUME OneWriter, CInv, CInv', NEW w \in Writers, AddLookup(w) \/ AddStep(w)
    PROVE  LogStep
<1>1. TInv
  BY DEF CInv
<1>2. CASE AddLink(w)
  BY <1>2, LinkLog
<1>3. CASE AddNotify(w)
  BY <1>3, NotifyLog
<1>4. ASSUME acked' = acked, seen' = seen, node' = node,
             wpc[w] \in {"link", "head", "next"} <=> wpc'[w] \in {"link", "head", "next"}
      PROVE  LogStep
  <2>1. Linked' = Linked
    BY <1>1, <1>4, Stages
  <2> QED
    BY <1>4, <2>1, LogQuiet DEF LogStep
<1>5. CASE AddLookup(w) \/ AddCreate(w) \/ AddParse(w) \/ AddTail(w)
  <2>1. /\ acked' = acked /\ seen' = seen /\ node' = node
        /\ wpc[w] \in {"idle", "create", "parse", "tail"}
        /\ wpc' \in {[wpc EXCEPT ![w] = s] : s \in {"create", "parse", "check", "notify"}}
    BY <1>5 DEF AddLookup, AddCreate, AddParse, AddTail, storeVars, readerVars
  <2>2. wpc'[w] \in {"create", "parse", "check", "notify"}
    BY <1>1, <2>1, TParts DEF WriterT
  <2> QED
    BY <1>4, <2>1, <2>2
<1>6. CASE AddCheck(w)
  <2>1. acked' = acked /\ seen' = seen /\ wpc[w] = "check"
    BY <1>6 DEF AddCheck, readerVars
  <2>2. CASE AddReturns(w) /\ UNCHANGED node
    <3>1. wpc'[w] = "idle"
      BY <1>1, <2>2, TParts DEF AddReturns, WriterT
    <3> QED
      BY <1>4, <2>1, <2>2, <3>1
  <2>3. CASE /\ node' = Append(node, [id |-> wid[w], next |-> NULL])
             /\ wpc' = [wpc EXCEPT ![w] = "link"]
    <3>1. wpc'[w] = "link"
      BY <1>1, <2>3, TParts DEF WriterT
    <3>2. node \in Seq(NodeRecs) /\ Len(node) \in Nat
      BY <1>1, TParts DEF StoreT
    <3>3. Len(node') = Len(node) + 1 /\ \A i \in 1..Len(node) : node'[i] = node[i]
      BY <2>3, <3>2
    <3>4. Linked' = Linked /\ Linked = Len(node)
      BY <1>1, <2>1, <3>1, <3>2, <3>3, Stages
    <3> QED
      BY <2>1, <3>3, <3>4, LogQuiet DEF LogStep
  <2> QED
    BY <1>6, <2>2, <2>3 DEF AddCheck
<1>7. CASE AddTest(w)
  <2>1. /\ acked' = acked /\ seen' = seen /\ node' = node /\ wpc[w] = "link"
        /\ \E stage \in {"head", "next"} : wpc' = [wpc EXCEPT ![w] = stage]
    BY <1>7 DEF AddTest, storeVars, readerVars
  <2>2. wpc'[w] \in {"head", "next"}
    BY <1>1, <2>1, TParts DEF WriterT
  <2> QED
    BY <1>4, <2>1, <2>2
<1> QED
  BY <1>2, <1>3, <1>5, <1>6, <1>7 DEF AddStep

LEMMA ReaderLog ==
    ASSUME CInv, CInv', NEW r \in Readers, ReadLookup(r) \/ ReadStep(r) \/ ReadSpurious(r)
    PROVE  LogStep
<1>1. node' = node /\ acked' = acked /\ wpc' = wpc
  BY DEF ReadLookup, ReadStep, ReadFirst, ReadSleep, ReadInvalidTime, ReadTimeout, ReadAgain,
         ReadSpurious, storeVars, writerVars
<1>2. CASE seen' = seen
  <2>1. Linked' = Linked
    BY <1>1 DEF Linked, Unlinked, At
  <2> QED
    BY <1>1, <1>2, <2>1, LogQuiet DEF LogStep
<1>3. CASE Reply(r, streamRead(rstream[r], rid[r]))
  BY <1>1, <1>3, ReplyLog
<1>4. seen' = seen \/ Reply(r, streamRead(rstream[r], rid[r]))
  BY DEF ReadLookup, ReadStep, ReadFirst, ReadSleep, ReadInvalidTime, ReadTimeout, ReadAgain,
         ReadSpurious
<1> QED
  BY <1>2, <1>3, <1>4

LEMMA NextLog ==
    ASSUME OneWriter PROVE CInv /\ CInv' /\ [Next]_vars => [Log!LogNext]_(Log!logVars)
<1> SUFFICES ASSUME CInv, CInv', [Next]_vars PROVE LogStep
  BY DEF LogStep
<1>1. CASE UNCHANGED vars
  <2>1. node' = node /\ acked' = acked /\ seen' = seen /\ wpc' = wpc
    BY <1>1 DEF vars, storeVars, writerVars, readerVars
  <2>2. Linked' = Linked
    BY <2>1 DEF Linked, Unlinked, At
  <2> QED
    BY <2>1, <2>2, LogQuiet DEF LogStep
<1>2. CASE Next
  BY <1>2, WriterLog, ReaderLog DEF Next
<1> QED
  BY <1>1, <1>2

\* While one thread at a time adds entries, XADD and XREAD on the linked list
\* implement a log: an entry can be read behind all others from one step on, is
\* returned after that, keeps its id and its place, and every client gets a
\* piece of the log without a gap, however many read and whatever wakes them.
THEOREM Refinement == ASSUME OneWriter PROVE Spec => ImplementsLog
<1>1. CInv /\ [Next]_vars => CInv'
  BY NextC
<1>2. Init => CInv
  BY InitC
<1>3. Init => Log!LogInit
  BY InitLog
<1>4. CInv /\ CInv' /\ [Next]_vars => [Log!LogNext]_(Log!logVars)
  BY NextLog
<1> QED
  BY <1>1, <1>2, <1>3, <1>4, PTL DEF Spec, ImplementsLog, Log!LogSpec

=============================================================================
