-------------------------- MODULE RedisStoreProofs --------------------------
(***************************************************************************)
(* Proofs about module RedisStore for any keys, any hash function and any  *)
(* initial size: every entry stays findable, used stays the number of      *)
(* entries, and the hash table implements the map of module KeyMap.        *)
(*                                                                         *)
(* The lemmas are about one store s; Good(s) is the inductive invariant.   *)
(* What an operation does is told by the set of all entries, which growing *)
(* leaves alone, so that buckets appear only in the first lemmas.          *)
(***************************************************************************)
EXTENDS RedisStore, FiniteSetTheorems, TLAPS

\* The shape of a store.
Shape(s) ==
    s \in [table : [0 .. (s.size - 1) -> SUBSET Entry], size : Nat \ {0}, used : Nat]

\* Every entry is on the chain its hash leads to.
Placed(s) ==
    \A b \in 0 .. (s.size - 1) : \A e \in s.table[b] : hash[e.key] % s.size = b

\* A key has one entry at most.
Unique(s) == \A e, f \in Entries(s) : e.key = f.key => e = f

Counted(s) == IsFiniteSet(Entries(s)) /\ s.used = Cardinality(Entries(s))

Good(s) == Shape(s) /\ Placed(s) /\ Unique(s) /\ Counted(s)

-----------------------------------------------------------------------------
(* Buckets *)

\* A remainder is below the divisor.
LEMMA Remainder ==
    ASSUME NEW n \in Nat, NEW m \in Nat \ {0}
    PROVE  n % m \in 0 .. (m - 1)
  OBVIOUS

\* The number of a key's bucket is one of the table's.
LEMMA BucketRange ==
    ASSUME NEW s, Shape(s), NEW k \in Keys
    PROVE  bucket(s, k) \in 0 .. (s.size - 1)
  BY Remainder, HashAssumption DEF Shape, bucket

\* An entry is one of the table's if it is on one of its chains.
LEMMA EntriesOf ==
    ASSUME NEW s, Shape(s)
    PROVE  /\ Entries(s) \subseteq Entry
           /\ \A e : e \in Entries(s) <=> \E b \in 0 .. (s.size - 1) : e \in s.table[b]
           /\ \A e \in Entries(s) : e.key \in Keys
  BY DEF Shape, Entries, Entry

\* The walk along one chain finds what is in the whole table.
LEMMA FoundIsAll ==
    ASSUME NEW s, Shape(s), Placed(s), NEW k \in Keys
    PROVE  Found(s, k) = {e \in Entries(s) : e.key = k}
  BY EntriesOf, BucketRange DEF Found, bucket, Placed

\* What a lookup returns is the only entry of its key.
LEMMA Lookup ==
    ASSUME NEW s, Good(s), NEW k \in Keys
    PROVE  /\ \A e \in Entries(s) : e.key = k => Has(s, k) /\ Get(s, k) = e
           /\ Has(s, k) => Get(s, k) \in Entries(s) /\ Get(s, k).key = k
  <1>1. Found(s, k) = {e \in Entries(s) : e.key = k}
    BY FoundIsAll DEF Good
  <1>2. Has(s, k) => Get(s, k) \in Found(s, k)
    BY DEF Has, Get
  <1>. QED
    BY <1>1, <1>2 DEF Good, Unique, Has

\* Growing keeps the entries and puts each where its hash now leads.
LEMMA ResizeGood ==
    ASSUME NEW s, Good(s)
    PROVE  Good(resize(s)) /\ Entries(resize(s)) = Entries(s)
  <1>. DEFINE t == resize(s)
              n == 2 * s.size
  <1>0. s.size \in Nat \ {0} /\ n \in Nat \ {0} /\ s.used \in Nat
    BY DEF Good, Shape
  <1>1. t = [table |-> [b \in 0 .. (n - 1) |-> {e \in Entries(s) : hash[e.key] % n = b}],
             size |-> n, used |-> s.used]
    BY DEF resize, Good, Shape
  <1>2. Entries(s) \subseteq Entry /\ \A e \in Entries(s) : e.key \in Keys
    BY EntriesOf DEF Good
  <1>3. t.size = n /\ t.used = s.used
        /\ \A b \in 0 .. (n - 1) : t.table[b] = {e \in Entries(s) : hash[e.key] % n = b}
    BY <1>1
  <1>4. Shape(t)
    <2>. HIDE DEF n
    <2>1. [b \in 0 .. (n - 1) |-> {e \in Entries(s) : hash[e.key] % n = b}]
             \in [0 .. (n - 1) -> SUBSET Entry]
      BY <1>2
    <2>. QED BY <2>1, <1>0, <1>1 DEF Shape
  <1>5. Placed(t)
    BY <1>3 DEF Placed
  <1>6. \A e \in Entries(s) : hash[e.key] % n \in 0 .. (n - 1)
    BY <1>0, <1>2, Remainder, HashAssumption
  <1>7. Entries(t) = Entries(s)
    <2>. HIDE DEF n, t
    <2>. QED BY <1>3, <1>4, <1>6, EntriesOf
  <1>. QED
    BY <1>3, <1>4, <1>5, <1>7 DEF Good, Unique, Counted

\* Making room keeps the entries.
LEMMA RoomGood ==
    ASSUME NEW s, Good(s)
    PROVE  Good(MakeRoom(s)) /\ Entries(MakeRoom(s)) = Entries(s)
  BY ResizeGood DEF MakeRoom

\* Replacing an entry by one of the same key.
LEMMA ReplaceGood ==
    ASSUME NEW s, Good(s), NEW e \in Entries(s), NEW f \in Entry, f.key = e.key
    PROVE  /\ Good(Replace(s, e, f))
           /\ Entries(Replace(s, e, f)) = (Entries(s) \ {e}) \cup {f}
  <1>. DEFINE t == Replace(s, e, f)
              b == bucket(s, e.key)
  <1>1. /\ Shape(s) /\ Placed(s) /\ Unique(s) /\ Counted(s)
        /\ e \in Entry /\ e.key \in Keys /\ b \in 0 .. (s.size - 1)
    BY EntriesOf, BucketRange DEF Good
  <1>2. /\ t.size = s.size /\ t.used = s.used
        /\ \A c \in 0 .. (s.size - 1) :
              t.table[c] = IF c = b THEN (s.table[c] \ {e}) \cup {f} ELSE s.table[c]
    BY <1>1 DEF Replace, Shape
  <1>3. Shape(t)
    BY <1>1 DEF Replace, Shape
  <1>4. Placed(t)
    <2>. SUFFICES ASSUME NEW c \in 0 .. (s.size - 1), NEW x \in t.table[c]
                  PROVE  hash[x.key] % s.size = c
      BY <1>2 DEF Placed
    <2>1. CASE x \in s.table[c]
      BY <1>1, <2>1 DEF Placed
    <2>2. CASE c = b /\ x = f
      BY <2>2 DEF bucket
    <2>. QED BY <1>2, <2>1, <2>2
  <1>5. \A c \in 0 .. (s.size - 1) : e \in s.table[c] => c = b
    BY <1>1 DEF Placed, bucket
  <1>6. Entries(t) = (Entries(s) \ {e}) \cup {f}
    <2>. HIDE DEF t, b
    <2>1. \A x : x \in Entries(t) <=> \E c \in 0 .. (s.size - 1) : x \in t.table[c]
      BY <1>2, <1>3, EntriesOf
    <2>2. \A x : x \in Entries(s) <=> \E c \in 0 .. (s.size - 1) : x \in s.table[c]
      BY <1>1, EntriesOf
    <2>3. ASSUME NEW x PROVE x \in Entries(t) <=> x \in (Entries(s) \ {e}) \cup {f}
      BY <1>1, <1>2, <1>5, <2>1, <2>2
    <2>. QED BY <2>3
  <1>7. Unique(t)
    BY <1>1, <1>6 DEF Unique
  <1>8. Counted(t)
    <2>1. f \notin Entries(s) \ {e}
      BY <1>1 DEF Unique
    <2>2. IsFiniteSet(Entries(s) \ {e}) /\ Cardinality(Entries(s) \ {e}) = s.used - 1
      BY <1>1, FS_RemoveElement DEF Counted
    <2>3. IsFiniteSet(Entries(t)) /\ Cardinality(Entries(t)) = (s.used - 1) + 1
      BY <1>6, <2>1, <2>2, FS_AddElement
    <2>. QED BY <1>1, <1>2, <2>3 DEF Counted, Shape
  <1>. QED BY <1>3, <1>4, <1>6, <1>7, <1>8 DEF Good

\* Putting an entry for a new key on the front of its chain.
LEMMA InsertGood ==
    ASSUME NEW s, Good(s), NEW f \in Entry, ~Has(s, f.key)
    PROVE  Good(Insert(s, f)) /\ Entries(Insert(s, f)) = Entries(s) \cup {f}
  <1>. DEFINE t == Insert(s, f)
              b == bucket(s, f.key)
  <1>1. /\ Shape(s) /\ Placed(s) /\ Unique(s) /\ Counted(s)
        /\ f.key \in Keys /\ b \in 0 .. (s.size - 1)
    BY BucketRange DEF Good, Entry
  <1>2. /\ t.size = s.size /\ t.used = s.used + 1
        /\ \A c \in 0 .. (s.size - 1) :
              t.table[c] = IF c = b THEN s.table[c] \cup {f} ELSE s.table[c]
    BY <1>1 DEF Insert, Shape
  <1>3. Shape(t)
    BY <1>1 DEF Insert, Shape
  <1>4. Placed(t)
    <2>. SUFFICES ASSUME NEW c \in 0 .. (s.size - 1), NEW x \in t.table[c]
                  PROVE  hash[x.key] % s.size = c
      BY <1>2 DEF Placed
    <2>1. CASE x \in s.table[c]
      BY <1>1, <2>1 DEF Placed
    <2>2. CASE c = b /\ x = f
      BY <2>2 DEF bucket
    <2>. QED BY <1>2, <2>1, <2>2
  <1>5. Entries(t) = Entries(s) \cup {f}
    <2>. HIDE DEF t, b
    <2>1. \A x : x \in Entries(t) <=> \E c \in 0 .. (s.size - 1) : x \in t.table[c]
      BY <1>2, <1>3, EntriesOf
    <2>2. \A x : x \in Entries(s) <=> \E c \in 0 .. (s.size - 1) : x \in s.table[c]
      BY <1>1, EntriesOf
    <2>3. ASSUME NEW x PROVE x \in Entries(t) <=> x \in Entries(s) \cup {f}
      BY <1>1, <1>2, <2>1, <2>2
    <2>. QED BY <2>3
  <1>6. \A e \in Entries(s) : e.key # f.key
    BY <1>1, Lookup
  <1>7. Unique(t)
    BY <1>1, <1>5, <1>6 DEF Unique
  <1>8. Counted(t)
    <2>1. IsFiniteSet(Entries(t)) /\ Cardinality(Entries(t)) = Cardinality(Entries(s)) + 1
      BY <1>1, <1>5, <1>6, FS_AddElement DEF Counted
    <2>. QED BY <1>1, <1>2, <2>1 DEF Counted
  <1>. QED BY <1>3, <1>4, <1>5, <1>7, <1>8 DEF Good

\* clearExpired unlinks exactly what has expired by the clock in seconds.
LEMMA ClearGood ==
    ASSUME NEW s, Good(s)
    PROVE  /\ Good(clearExpired(s))
           /\ Entries(clearExpired(s)) =
                {e \in Entries(s) : ~(e.expiry # 0 /\ e.expiry < now \div MsPerSec)}
  <1>. DEFINE gone(e) == e.expiry # 0 /\ e.expiry < now \div MsPerSec
              t == clearExpired(s)
              G == {e \in Entries(s) : gone(e)}
              R == {e \in Entries(s) : ~gone(e)}
  <1>1. Shape(s) /\ Placed(s) /\ Unique(s) /\ Counted(s)
    BY DEF Good
  <1>2. t = [table |-> [b \in 0 .. (s.size - 1) |-> {e \in s.table[b] : ~gone(e)}],
             size |-> s.size, used |-> s.used - Cardinality(G)]
    BY DEF clearExpired
  <1>. HIDE DEF t, gone
  <1>3. /\ t.size = s.size /\ t.used = s.used - Cardinality(G)
        /\ \A b \in 0 .. (s.size - 1) : t.table[b] = {e \in s.table[b] : ~gone(e)}
    BY <1>2
  <1>4. /\ IsFiniteSet(G) /\ IsFiniteSet(R)
        /\ Cardinality(G) \in Nat /\ Cardinality(R) \in Nat
        /\ Cardinality(R) = s.used - Cardinality(G)
    <2>1. IsFiniteSet(G) /\ IsFiniteSet(R)
      BY <1>1, FS_Subset DEF Counted
    <2>2. G \cap R = {} /\ G \cup R = Entries(s)
      OBVIOUS
    <2>3. Cardinality(G \cup R) = Cardinality(G) + Cardinality(R) - Cardinality({})
      BY <2>1, <2>2, FS_Union
    <2>4. Cardinality(G) \in Nat /\ Cardinality(R) \in Nat
      BY <2>1, FS_CardinalityType
    <2>5. Cardinality({}) = 0
      BY FS_EmptySet
    <2>6. s.used = Cardinality(G \cup R)
      BY <1>1, <2>2 DEF Counted
    <2>. HIDE DEF G, R
    <2>. QED BY <2>1, <2>3, <2>4, <2>5, <2>6
  <1>5. Shape(t)
    <2>1. [b \in 0 .. (s.size - 1) |-> {e \in s.table[b] : ~gone(e)}]
             \in [0 .. (s.size - 1) -> SUBSET Entry]
      BY <1>1 DEF Shape
    <2>. QED BY <1>1, <1>2, <1>4, <2>1 DEF Shape
  <1>6. Placed(t)
    BY <1>1, <1>3 DEF Placed
  <1>7. Entries(t) = R
    BY <1>1, <1>3, <1>5, EntriesOf
  <1>8. Unique(t) /\ Counted(t)
    BY <1>1, <1>3, <1>4, <1>7 DEF Unique, Counted
  <1>. QED BY <1>5, <1>6, <1>7, <1>8 DEF Good, gone, t

-----------------------------------------------------------------------------
(* What each operation does to the entries that lookups return *)

\* Every key but k is looked up in t as in s.
Others(s, t, k) ==
    \A j \in Keys \ {k} : (Has(t, j) <=> Has(s, j)) /\ (Has(s, j) => Get(t, j) = Get(s, j))

\* Stores with the same entries under all keys but k agree on those keys.
LEMMA OthersAgree ==
    ASSUME NEW s, NEW t, Good(s), Good(t), NEW k \in Keys,
           \A e : e.key # k => (e \in Entries(s) <=> e \in Entries(t))
    PROVE  Others(s, t, k)
  <1>. SUFFICES ASSUME NEW j \in Keys \ {k}
                PROVE  (Has(t, j) <=> Has(s, j)) /\ (Has(s, j) => Get(t, j) = Get(s, j))
    BY DEF Others
  <1>1. Has(s, j) => Get(s, j) \in Entries(t) /\ Get(s, j).key = j
    BY Lookup
  <1>2. Has(t, j) => Get(t, j) \in Entries(s) /\ Get(t, j).key = j
    BY Lookup
  <1>. QED BY <1>1, <1>2, Lookup

\* The entry a write leaves behind.
StringEntry(k, v, e) == [key |-> k, type |-> "string", value |-> v, expiry |-> e]

\* storeSet writes its key, keeps its expiry, and touches no other key.
LEMMA SetGood ==
    ASSUME NEW s, Good(s), NEW k \in Keys, NEW v \in Strings
    PROVE  LET t == storeSet(s, k, v)
           IN  /\ Good(t) /\ Has(t, k) /\ Others(s, t, k)
               /\ Get(t, k) = StringEntry(k, v, IF Has(s, k) THEN Get(s, k).expiry ELSE 0)
  <1>. DEFINE r == MakeRoom(s)
              t == storeSet(s, k, v)
              f == StringEntry(k, v, IF Has(s, k) THEN Get(s, k).expiry ELSE 0)
  <1>1. Good(r) /\ Entries(r) = Entries(s)
    BY RoomGood
  <1>2. (Has(r, k) <=> Has(s, k)) /\ (Has(s, k) => Get(r, k) = Get(s, k))
    BY <1>1, Lookup
  <1>3. f \in Entry /\ f.key = k
    <2>1. Has(s, k) => Get(s, k).expiry \in Times
      BY Lookup, EntriesOf DEF Good, Entry
    <2>. QED BY <2>1 DEF StringEntry, Entry, Times
  <1>4. t = IF Has(r, k) THEN Replace(r, Get(r, k), f) ELSE Insert(r, f)
    BY <1>2 DEF storeSet, StringEntry
  <1>5. CASE Has(s, k)
    <2>1. /\ Good(t) /\ Entries(t) = (Entries(s) \ {Get(s, k)}) \cup {f}
          /\ Get(s, k).key = k
      BY <1>1, <1>2, <1>3, <1>4, <1>5, Lookup, ReplaceGood
    <2>2. Has(t, k) /\ Get(t, k) = f
      BY <1>3, <2>1, Lookup
    <2>3. Others(s, t, k)
      BY <1>3, <2>1, OthersAgree
    <2>. QED BY <2>1, <2>2, <2>3
  <1>6. CASE ~Has(s, k)
    <2>1. Good(t) /\ Entries(t) = Entries(s) \cup {f}
      BY <1>1, <1>2, <1>3, <1>4, <1>6, InsertGood
    <2>2. Has(t, k) /\ Get(t, k) = f
      BY <1>3, <2>1, Lookup
    <2>3. Others(s, t, k)
      BY <1>3, <2>1, OthersAgree
    <2>. QED BY <2>1, <2>2, <2>3
  <1>. QED BY <1>5, <1>6

\* setExpiry changes the expiry of its key and nothing else.
LEMMA ExpiryGood ==
    ASSUME NEW s, Good(s), NEW k \in Keys, Has(s, k), NEW x \in Times
    PROVE  LET t == setExpiry(s, k, x)
           IN  /\ Good(t) /\ Has(t, k) /\ Others(s, t, k)
               /\ Get(t, k) = [Get(s, k) EXCEPT !.expiry = x]
  <1>. DEFINE t == setExpiry(s, k, x)
              e == Get(s, k)
              f == [Get(s, k) EXCEPT !.expiry = x]
  <1>1. e \in Entries(s) /\ e.key = k /\ e \in Entry
    BY Lookup, EntriesOf DEF Good
  <1>2. f \in Entry /\ f.key = k
    <2>. HIDE DEF e
    <2>1. f = [e EXCEPT !.expiry = x]
      BY DEF e
    <2>. QED BY <1>1, <2>1 DEF Entry
  <1>3. Good(t) /\ Entries(t) = (Entries(s) \ {e}) \cup {f}
    <2>1. t = Replace(s, e, f)
      BY DEF setExpiry
    <2>. HIDE DEF e, f, t
    <2>. QED BY <1>1, <1>2, <2>1, ReplaceGood
  <1>4. Has(t, k) /\ Get(t, k) = f
    BY <1>2, <1>3, Lookup
  <1>5. Others(s, t, k)
    <2>. HIDE DEF e, f, t
    <2>. QED BY <1>1, <1>2, <1>3, OthersAgree
  <1>. QED BY <1>3, <1>4, <1>5

\* storeStreamAdd counts its stream up, or makes one, and touches no other key.
LEMMA StreamGood ==
    ASSUME NEW s, Good(s), NEW k \in Keys, NEW g \in Garbage, NEW a \in {0, 1},
           Has(s, k) => Get(s, k).type = "stream" /\ Get(s, k).value + a <= MaxStream
    PROVE  LET t == storeStreamAdd(s, k, g, a)
           IN  /\ Good(t) /\ Has(t, k) /\ Others(s, t, k)
               /\ Get(t, k) = IF Has(s, k) THEN [Get(s, k) EXCEPT !.value = @ + a]
                              ELSE [key |-> k, type |-> "stream", value |-> a, expiry |-> g]
  <1>. DEFINE t == storeStreamAdd(s, k, g, a)
  <1>1. CASE Has(s, k)
    <2>. DEFINE e == Get(s, k)
                f == [Get(s, k) EXCEPT !.value = @ + a]
    <2>1. e \in Entries(s) /\ e.key = k /\ e \in Entry
      BY <1>1, Lookup, EntriesOf DEF Good
    <2>2. f \in Entry /\ f.key = k
      <3>1. e.type = "stream" /\ e.value + a <= MaxStream /\ f = [e EXCEPT !.value = @ + a]
        BY <1>1
      <3>. HIDE DEF e, f
      <3>. QED BY <2>1, <3>1, MaxStreamAssumption DEF Entry
    <2>3. Good(t) /\ Entries(t) = (Entries(s) \ {e}) \cup {f}
      <3>1. t = Replace(s, e, f)
        BY <1>1 DEF storeStreamAdd
      <3>. HIDE DEF e, f, t
      <3>. QED BY <2>1, <2>2, <3>1, ReplaceGood
    <2>4. Has(t, k) /\ Get(t, k) = f
      <3>. HIDE DEF e, f, t
      <3>. QED BY <2>2, <2>3, Lookup
    <2>5. Others(s, t, k)
      <3>. HIDE DEF e, f, t
      <3>. QED BY <2>1, <2>2, <2>3, OthersAgree
    <2>. QED BY <1>1, <2>3, <2>4, <2>5
  <1>2. CASE ~Has(s, k)
    <2>. DEFINE f == [key |-> k, type |-> "stream", value |-> a, expiry |-> g]
    <2>1. f \in Entry /\ f.key = k
      BY MaxStreamAssumption DEF Entry, Times
    <2>2. Good(t) /\ Entries(t) = Entries(s) \cup {f}
      BY <1>2, <2>1, InsertGood DEF storeStreamAdd
    <2>3. Has(t, k) /\ Get(t, k) = f
      BY <2>1, <2>2, Lookup
    <2>4. Others(s, t, k)
      <3>. HIDE DEF f, t
      <3>. QED BY <2>1, <2>2, OthersAgree
    <2>. QED BY <1>2, <2>2, <2>3, <2>4
  <1>. QED BY <1>1, <1>2

-----------------------------------------------------------------------------
(* The inductive invariant *)

IInv ==
    /\ Good(store)
    /\ now \in StartTime .. EndTime
    /\ alive \in BOOLEAN
    /\ wrote \in [key : Keys, value : Strings] \cup {Nothing}

\* The empty table is well-formed.
LEMMA CreateGood == Good(createStore) /\ Entries(createStore) = {}
  <1>1. Shape(createStore)
    BY SizeAssumption DEF createStore, Shape
  <1>2. Entries(createStore) = {}
    BY <1>1, EntriesOf DEF createStore, Shape
  <1>3. Placed(createStore) /\ Unique(createStore)
    BY <1>2 DEF createStore, Placed, Unique
  <1>4. Counted(createStore)
    BY <1>2, FS_EmptySet DEF createStore, Counted
  <1>. QED BY <1>1, <1>2, <1>3, <1>4 DEF Good

\* The strings that INCR writes are numbers of the width the code has.
LEMMA SuccType ==
    ASSUME NEW v \in Strings, v # Text
    PROVE  Succ64(v) \in Strings
  BY MaxIntAssumption DEF Strings, Succ64, MinInt

\* A string is one of the values that can be written.
LEMMA StringType ==
    ASSUME NEW s, Good(s), NEW k \in Keys, Has(s, k), Get(s, k).type = "string"
    PROVE  Get(s, k).value \in Strings
  BY Lookup, EntriesOf DEF Good, Entry

\* SET and INCR keep the invariant; the clock, the crash and the rest do too.
LEMMA IInvStep == IInv /\ [Next]_vars => IInv'
  <1>. SUFFICES ASSUME IInv, [Next]_vars PROVE IInv'
    OBVIOUS
  <1>. USE DEF IInv
  <1>1. ASSUME NEW k \in Keys, NEW v \in Strings, NEW ttl \in Ttls \cup {0},
               handleSet(k, v, ttl)
        PROVE  IInv'
    <2>1. Good(store')
      <3>1. CASE ttl > 0
        <4>1. now + ttl \in Times
          BY <3>1 DEF Times
        <4>. QED BY <1>1, <3>1, <4>1, SetGood, ExpiryGood DEF handleSet
      <3>2. CASE ~(ttl > 0)
        BY <1>1, <3>2, SetGood DEF handleSet
      <3>. QED BY <3>1, <3>2
    <2>. QED BY <1>1, <2>1 DEF handleSet
  <1>2. ASSUME NEW k \in Keys, handleIncrement(k)
        PROVE  IInv'
    <2>. DEFINE v == IF Readable(store, k) THEN Succ64(storeGet(store, k)) ELSE 1
    <2>1. v \in Strings
      BY <1>2, StringType, SuccType, MaxIntAssumption
      DEF handleIncrement, Readable, storeGet, Strings, MinInt
    <2>2. store' = storeSet(store, k, v) /\ wrote' = [key |-> k, value |-> v]
          /\ UNCHANGED <<now, alive>>
      BY <1>2 DEF handleIncrement
    <2>. HIDE DEF v
    <2>. QED BY <2>1, <2>2, SetGood
  <1>3. ASSUME NEW k \in Keys, NEW g \in Garbage, NEW a \in {0, 1}, handleXadd(k, g, a)
        PROVE  IInv'
    <2>1. CASE UNCHANGED store
      BY <1>3, <2>1 DEF handleXadd
    <2>2. CASE /\ Has(store, k) => /\ Get(store, k).type = "stream"
                                  /\ Get(store, k).value + a <= MaxStream
               /\ store' = storeStreamAdd(store, k, g, a)
      <3>1. Good(store')
        BY <2>2, StreamGood
      <3>. QED BY <1>3, <3>1 DEF handleXadd
    <2>. QED BY <1>3, <2>1, <2>2 DEF handleXadd
  <1>4. CASE serverCron
    BY <1>4, ClearGood DEF serverCron
  <1>5. CASE Tick
    BY <1>5, TimeAssumption DEF Tick
  <1>6. CASE UNCHANGED vars
    BY <1>6 DEF vars
  <1>. QED BY <1>1, <1>2, <1>3, <1>4, <1>5, <1>6 DEF Next

\* The invariant holds at the start.  The clock has to start before its end.
LEMMA IInvInit == Init => IInv
  BY CreateGood, TimeAssumption DEF Init, IInv

-----------------------------------------------------------------------------
(* The theorems about reachable states *)

\* The invariant holds in every reachable state.
THEOREM Invariance == Spec => []IInv
  BY IInvInit, IInvStep, PTL DEF Spec

\* Every variable keeps its type: the table has size chains of well-typed
\* entries, and used, which clearExpired counts down, never falls below zero.
THEOREM TypeCorrect == Spec => []TypeOK
  <1>1. IInv => TypeOK
    BY DEF IInv, Good, Shape, TypeOK
  <1>. QED BY <1>1, Invariance, PTL

\* Every entry can be found, through any number of growths and whichever keys
\* share a chain: it is where its hash leads and the only one of its key.
THEOREM AlwaysFindable == Spec => []KeyFindable
  <1>1. IInv => KeyFindable
    BY DEF IInv, Good, Placed, Unique, KeyFindable, bucket
  <1>. QED BY <1>1, Invariance, PTL

\* used, which decides when the table grows, is always exact.
THEOREM UsedExact == Spec => []UsedIsCount
  <1>1. IInv => UsedIsCount
    BY DEF IInv, Good, Counted, UsedIsCount
  <1>. QED BY <1>1, Invariance, PTL

-----------------------------------------------------------------------------
(* Refinement of KeyMap *)

\* What a store holds under a key, and the map that it stands for.
Item(s, k) ==
    IF ~Has(s, k) THEN [type |-> "none"]
    ELSE [type |-> Get(s, k).type, value |-> Get(s, k).value, expiry |-> Get(s, k).expiry]

Abs(s) == [k \in Keys |-> Item(s, k)]

\* An entry's type is never that of an absent key.
LEMMA ItemType ==
    ASSUME NEW s, Good(s), NEW k \in Keys
    PROVE  /\ Has(s, k) => Get(s, k).type \in {"string", "stream"}
           /\ Item(s, k) = [type |-> "none"] <=> ~Has(s, k)
  <1>1. Has(s, k) => Get(s, k).type \in {"string", "stream"}
    BY Lookup, EntriesOf DEF Good, Entry
  <1>. QED BY <1>1 DEF Item

\* An operation on one key changes the map at that key.
LEMMA AbsChange ==
    ASSUME NEW s, NEW t, NEW k \in Keys, Others(s, t, k)
    PROVE  Abs(t) = [Abs(s) EXCEPT ![k] = Item(t, k)]
  <1>1. \A j \in Keys \ {k} : Item(t, j) = Item(s, j)
    BY DEF Others, Item
  <1>. QED BY <1>1 DEF Abs

\* What a write without, and with, a time to live leaves under its key.
LEMMA ItemWritten ==
    ASSUME NEW s, Good(s), NEW k \in Keys, NEW t, NEW v, NEW ttl \in Nat, Has(t, k),
           Get(t, k) = StringEntry(k, v, IF ttl > 0 THEN now + ttl
                                    ELSE IF Has(s, k) THEN Get(s, k).expiry ELSE 0)
    PROVE  Item(t, k) = Map!Written(Item(s, k), v, ttl)
  <1>1. Item(s, k) = Map!Absent <=> ~Has(s, k)
    BY ItemType DEF Map!Absent
  <1>2. Has(s, k) => Item(s, k).expiry = Get(s, k).expiry
    BY DEF Item
  <1>3. Item(t, k) = [type |-> "string", value |-> v,
                      expiry |-> IF ttl > 0 THEN now + ttl
                                 ELSE IF Has(s, k) THEN Get(s, k).expiry ELSE 0]
    BY DEF Item, StringEntry
  <1>. QED BY <1>1, <1>2, <1>3 DEF Map!Written

\* storeGet finds in the table what the map shows.
LEMMA SameVisible ==
    ASSUME NEW s, Good(s), NEW k \in Keys
    PROVE  /\ Readable(s, k) <=> Map!Visible(Item(s, k), now)
           /\ Readable(s, k) => storeGet(s, k) = Item(s, k).value
  BY DEF Readable, storeGet, Item, Map!Visible

\* Every step of the hash table is a step of the map, or leaves it alone: this
\* is so for the growth of the table and for the crash.
LEMMA MapStep == IInv /\ [Next]_vars => [Map!MapNext]_(Map!mapVars)
  <1>. SUFFICES ASSUME IInv, [Next]_vars PROVE [Map!MapNext]_(Map!mapVars)
    OBVIOUS
  <1>0. Good(store) /\ now \in StartTime .. EndTime
    BY DEF IInv
  <1>1. ASSUME NEW k \in Keys, NEW v \in Strings, NEW ttl \in Ttls \cup {0},
               Others(store, store', k), Has(store', k), UNCHANGED now,
               Get(store', k) = StringEntry(k, v, IF ttl > 0 THEN now + ttl
                                  ELSE IF Has(store, k) THEN Get(store, k).expiry ELSE 0)
        PROVE  Map!Put(k, v, ttl)
    <2>1. Abs(store') = [Abs(store) EXCEPT ![k] = Item(store', k)]
      BY <1>1, AbsChange
    <2>2. Item(store', k) = Map!Written(Item(store, k), v, ttl)
      BY <1>0, <1>1, ItemWritten, TtlsAssumption
    <2>3. Abs(store') = [Abs(store) EXCEPT ![k] = Map!Written(@, v, ttl)]
      BY <2>1, <2>2 DEF Abs
    <2>. QED BY <1>1, <2>3 DEF Map!Put, Abs, Item
  <1>2. ASSUME NEW k \in Keys, NEW v \in Strings, NEW ttl \in Ttls \cup {0},
               handleSet(k, v, ttl)
        PROVE  Map!Put(k, v, ttl)
    <2>. DEFINE s == storeSet(store, k, v)
    <2>1. /\ Good(s) /\ Has(s, k) /\ Others(store, s, k)
          /\ Get(s, k) = StringEntry(k, v, IF Has(store, k) THEN Get(store, k).expiry ELSE 0)
      BY <1>0, SetGood
    <2>2. store' = (IF ttl > 0 THEN setExpiry(s, k, now + ttl) ELSE s) /\ UNCHANGED now
      BY <1>2 DEF handleSet
    <2>. HIDE DEF s
    <2>3. CASE ttl > 0
      <3>1. now + ttl \in Times
        BY <1>0, <2>3 DEF Times
      <3>2. /\ Has(store', k) /\ Others(s, store', k)
            /\ Get(store', k) = [Get(s, k) EXCEPT !.expiry = now + ttl]
        BY <2>1, <2>2, <2>3, <3>1, ExpiryGood
      <3>3. Get(store', k) = StringEntry(k, v, now + ttl)
        BY <2>1, <3>2 DEF StringEntry
      <3>4. Others(store, store', k)
        BY <2>1, <3>2 DEF Others
      <3>. QED BY <1>1, <2>2, <2>3, <3>2, <3>3, <3>4
    <2>4. CASE ~(ttl > 0)
      BY <1>1, <2>1, <2>2, <2>4
    <2>. QED BY <2>3, <2>4
  <1>3. ASSUME NEW k \in Keys, handleIncrement(k)
        PROVE  Map!Count(k)
    <2>. DEFINE v == IF Readable(store, k) THEN Succ64(storeGet(store, k)) ELSE 1
    <2>1. v \in Strings
      BY <1>0, <1>3, StringType, SuccType, MaxIntAssumption
      DEF handleIncrement, Readable, storeGet, Strings, MinInt
    <2>2. store' = storeSet(store, k, v) /\ UNCHANGED now
          /\ (Readable(store, k) => storeGet(store, k) # Text)
      BY <1>3 DEF handleIncrement
    <2>3. Map!Put(k, v, 0)
      <3>. HIDE DEF v
      <3>. QED BY <1>0, <1>1, <2>1, <2>2, SetGood
    <2>4. /\ Readable(store, k) <=> Map!Visible(Item(store, k), now)
          /\ Readable(store, k) => storeGet(store, k) = Item(store, k).value
      BY <1>0, SameVisible
    <2>5. Abs(store)[k] = Item(store, k)
      BY DEF Abs
    <2>6. CASE Readable(store, k)
      <3>1. Map!Visible(Abs(store)[k], now) /\ Abs(store)[k].value # Text
        BY <2>2, <2>4, <2>5, <2>6
      <3>2. v = Map!Succ64(Abs(store)[k].value)
        BY <2>4, <2>5, <2>6 DEF Succ64, Map!Succ64, MinInt, Map!MinInt
      <3>3. Map!Put(k, Map!Succ64(Abs(store)[k].value), 0)
        BY <2>3, <3>2
      <3>. QED BY <3>1, <3>3 DEF Map!Count, Abs, Item
    <2>7. CASE ~Readable(store, k)
      <3>1. ~Map!Visible(Abs(store)[k], now) /\ Map!Put(k, 1, 0)
        BY <2>3, <2>4, <2>5, <2>7
      <3>. QED BY <3>1 DEF Map!Count, Abs, Item
    <2>. QED BY <2>6, <2>7
  <1>4. ASSUME NEW k \in Keys, NEW g \in Garbage, NEW a \in {0, 1}, handleXadd(k, g, a),
               store' # store
        PROVE  Map!Extend(k, g, a)
    <2>1. /\ Has(store, k) => Get(store, k).type = "stream" /\ Get(store, k).value + a <= MaxStream
          /\ store' = storeStreamAdd(store, k, g, a) /\ UNCHANGED now
      BY <1>4 DEF handleXadd
    <2>2. /\ Has(store', k) /\ Others(store, store', k)
          /\ Get(store', k) = IF Has(store, k) THEN [Get(store, k) EXCEPT !.value = @ + a]
                   ELSE [key |-> k, type |-> "stream", value |-> a, expiry |-> g]
      BY <1>0, <2>1, StreamGood
    <2>3. Abs(store') = [Abs(store) EXCEPT ![k] = Item(store', k)]
      BY <2>2, AbsChange
    <2>4. Item(store, k) = Map!Absent <=> ~Has(store, k)
      BY <1>0, ItemType DEF Map!Absent
    <2>5. Item(store, k).type # "string"
      BY <2>1 DEF Item
    <2>6. Item(store', k) = Map!Extended(Item(store, k), g, a)
      <3>1. Has(store, k) => Get(store, k) \in Entry
        BY <1>0, Lookup, EntriesOf DEF Good
      <3>2. Has(store, k) => /\ Get(store', k).type = Get(store, k).type
                             /\ Get(store', k).value = Get(store, k).value + a
                             /\ Get(store', k).expiry = Get(store, k).expiry
        BY <2>2, <3>1 DEF Entry
      <3>. QED BY <2>2, <2>4, <3>2 DEF Item, Map!Extended
    <2>7. Abs(store)[k].type # "string"
      BY <2>5 DEF Abs
    <2>8. Abs(store') = [Abs(store) EXCEPT ![k] = Map!Extended(@, g, a)]
      BY <2>3, <2>6 DEF Abs
    <2>. QED BY <2>1, <2>7, <2>8 DEF Map!Extend, Abs, Item
  <1>5. CASE serverCron
    <2>1. store' = clearExpired(store) /\ UNCHANGED now
      BY <1>5 DEF serverCron
    <2>2. /\ Good(store')
          /\ Entries(store') = {e \in Entries(store) :
                                  ~(e.expiry # 0 /\ e.expiry < now \div MsPerSec)}
      BY <1>0, <2>1, ClearGood
    <2>3. \A k \in Keys : Item(store', k) = IF Map!Purged(Item(store, k)) THEN Map!Absent
                                           ELSE Item(store, k)
      <3>. SUFFICES ASSUME NEW k \in Keys
                    PROVE  Item(store', k) = IF Map!Purged(Item(store, k)) THEN Map!Absent
                                             ELSE Item(store, k)
        OBVIOUS
      <3>1. Item(store, k) = Map!Absent <=> ~Has(store, k)
        BY <1>0, ItemType DEF Map!Absent
      <3>2. Has(store', k) => Has(store, k) /\ Get(store', k) = Get(store, k)
        BY <1>0, <2>2, Lookup
      <3>3. Has(store, k) => (Has(store', k) <=> ~Map!Purged(Item(store, k)))
        BY <1>0, <2>2, <3>1, <3>2, Lookup DEF Map!Purged, Item
      <3>. QED BY <3>1, <3>2, <3>3 DEF Item, Map!Absent, Map!Purged
    <2>. QED BY <2>1, <2>3 DEF Map!MapNext, Map!Purge, Item
  <1>6. CASE Tick
    BY <1>6 DEF Tick, Map!MapNext, Map!Pass
  <1>7. CASE UNCHANGED <<store, now>>
    BY <1>7 DEF Map!mapVars
  <1>8. CASE \E k \in Keys, v \in Strings, ttl \in Ttls \cup {0} : handleSet(k, v, ttl)
    BY <1>2, <1>8 DEF Map!MapNext, Map!Strings, Strings, Map!MinInt, MinInt
  <1>9. CASE \E k \in Keys : handleIncrement(k)
    BY <1>3, <1>9 DEF Map!MapNext
  <1>10. CASE \E k \in Keys, g \in Garbage, a \in {0, 1} : handleXadd(k, g, a)
    <2>. PICK k \in Keys, g \in Garbage, a \in {0, 1} : handleXadd(k, g, a)
      BY <1>10
    <2>1. CASE store' = store
      BY <1>7, <2>1 DEF handleXadd
    <2>2. CASE store' # store
      BY <1>4, <2>2 DEF Map!MapNext
    <2>. QED BY <2>1, <2>2
  <1>. QED BY <1>5, <1>6, <1>7, <1>8, <1>9, <1>10 DEF Next, vars

\* The hash table with its chains, growth and two clocks implements the plain
\* map: no key is lost, mixed up with another or changed by a growth.
THEOREM Refinement == Spec => ImplementsKeyMap
  <1>1. Init => Map!MapInit
    <2>1. \A k \in Keys : ~Has(createStore, k)
      BY CreateGood, Lookup
    <2>. QED BY <2>1 DEF Init, Map!MapInit, Map!Absent
  <1>. QED BY <1>1, MapStep, Invariance, PTL DEF Spec, ImplementsKeyMap, Map!MapSpec

-----------------------------------------------------------------------------
(* What storeGet can come to find *)

\* Expiry times are numbers.
LEMMA TimesInt == Times \subseteq Int
  <1>. SUFFICES ASSUME NEW x \in Times PROVE x \in Int
    OBVIOUS
  <1>1. CASE x \in {0} \cup Garbage
    BY <1>1, GarbageAssumption
  <1>2. CASE x \in {t + d : t \in StartTime .. EndTime, d \in Ttls}
    <2>1. PICK t \in StartTime .. EndTime, d \in Ttls : x = t + d
      BY <1>2
    <2>. QED BY <2>1, TimeAssumption, TtlsAssumption
  <1>. QED BY <1>1, <1>2 DEF Times

\* A step makes storeGet find a value for a key only if it wrote it there.
LEMMA AnswerStep ==
    ASSUME IInv, IInv', [Next]_vars, NEW k \in Keys,
           Readable(store, k)',
           ~(Readable(store, k) /\ storeGet(store, k) = storeGet(store, k)')
    PROVE  wrote' = [key |-> k, value |-> storeGet(store, k)']
  <1>0. Good(store) /\ Good(store') /\ now \in StartTime .. EndTime
    BY DEF IInv
  <1>1. /\ Has(store', k) /\ Get(store', k).type = "string"
        /\ Get(store', k).expiry = 0 \/ Get(store', k).expiry > now'
        /\ storeGet(store, k)' = Get(store', k).value
    BY DEF Readable, storeGet
  <1>2. ~(Has(store, k) /\ Get(store, k) = Get(store', k) /\ now' = now)
    BY <1>1 DEF Readable, storeGet
  <1>3. ASSUME NEW j \in Keys, Others(store, store', j), UNCHANGED now
        PROVE  j = k
    BY <1>1, <1>2, <1>3 DEF Others
  <1>4. ASSUME NEW j \in Keys, NEW v \in Strings, NEW ttl \in Ttls \cup {0},
               handleSet(j, v, ttl)
        PROVE  wrote' = [key |-> k, value |-> storeGet(store, k)']
    <2>. DEFINE s == storeSet(store, j, v)
    <2>1. /\ Good(s) /\ Has(s, j) /\ Others(store, s, j) /\ Get(s, j).value = v
          /\ Get(s, j) = StringEntry(j, v, IF Has(store, j) THEN Get(store, j).expiry ELSE 0)
      BY <1>0, SetGood DEF StringEntry
    <2>2. store' = (IF ttl > 0 THEN setExpiry(s, j, now + ttl) ELSE s) /\ UNCHANGED now
          /\ wrote' = [key |-> j, value |-> v]
      BY <1>4 DEF handleSet
    <2>. HIDE DEF s
    <2>3. Others(store, store', j) /\ Get(store', j).value = v
      <3>1. CASE ttl > 0
        <4>1. now + ttl \in Times
          BY <1>0, <3>1 DEF Times
        <4>2. Others(s, store', j) /\ Get(store', j) = [Get(s, j) EXCEPT !.expiry = now + ttl]
          BY <2>1, <2>2, <3>1, <4>1, ExpiryGood
        <4>3. Get(store', j) = StringEntry(j, v, now + ttl)
          BY <2>1, <4>2 DEF StringEntry
        <4>. QED BY <2>1, <4>2, <4>3 DEF Others, StringEntry
      <3>2. CASE ~(ttl > 0)
        BY <2>1, <2>2, <3>2
      <3>. QED BY <3>1, <3>2
    <2>. QED BY <1>1, <1>3, <2>2, <2>3
  <1>5. ASSUME NEW j \in Keys, handleIncrement(j)
        PROVE  wrote' = [key |-> k, value |-> storeGet(store, k)']
    <2>. DEFINE v == IF Readable(store, j) THEN Succ64(storeGet(store, j)) ELSE 1
    <2>1. v \in Strings
      BY <1>0, <1>5, StringType, SuccType, MaxIntAssumption
      DEF handleIncrement, Readable, storeGet, Strings, MinInt
    <2>2. store' = storeSet(store, j, v) /\ UNCHANGED now /\ wrote' = [key |-> j, value |-> v]
      BY <1>5 DEF handleIncrement
    <2>. HIDE DEF v
    <2>3. Others(store, store', j) /\ Get(store', j).value = v
      BY <1>0, <2>1, <2>2, SetGood DEF StringEntry
    <2>. QED BY <1>1, <1>3, <2>2, <2>3
  <1>6. ASSUME NEW j \in Keys, NEW g \in Garbage, NEW a \in {0, 1}, handleXadd(j, g, a)
        PROVE  FALSE
    <2>1. CASE UNCHANGED store
      BY <1>1, <1>2, <1>6, <2>1 DEF handleXadd
    <2>2. CASE /\ Has(store, j) => /\ Get(store, j).type = "stream"
                                  /\ Get(store, j).value + a <= MaxStream
               /\ store' = storeStreamAdd(store, j, g, a)
      <3>1. /\ Others(store, store', j)
            /\ Get(store', j) = IF Has(store, j) THEN [Get(store, j) EXCEPT !.value = @ + a]
                     ELSE [key |-> j, type |-> "stream", value |-> a, expiry |-> g]
        BY <1>0, <2>2, StreamGood
      <3>2. Has(store, j) => Get(store, j) \in Entry
        BY <1>0, Lookup, EntriesOf DEF Good
      <3>3. Get(store', j).type = "stream"
        BY <2>2, <3>1, <3>2 DEF Entry
      <3>. QED BY <1>1, <1>3, <1>6, <3>1, <3>3 DEF handleXadd
    <2>. QED BY <1>6, <2>1, <2>2 DEF handleXadd
  <1>7. CASE serverCron
    <2>1. /\ UNCHANGED now
          /\ Entries(store') = {e \in Entries(store) :
                                  ~(e.expiry # 0 /\ e.expiry < now \div MsPerSec)}
      BY <1>0, <1>7, ClearGood DEF serverCron
    <2>2. Get(store', k) \in Entries(store) /\ Get(store', k).key = k
      BY <1>0, <1>1, <2>1, Lookup
    <2>. QED BY <1>0, <1>2, <2>1, <2>2, Lookup
  <1>8. CASE Tick
    <2>1. store' = store /\ now' = now + 1
      BY <1>8 DEF Tick
    <2>2. Get(store, k) \in Entry
      BY <1>0, <1>1, <2>1, Lookup, EntriesOf DEF Good
    <2>3. Get(store, k).expiry \in Int
      <3>1. Get(store, k).expiry \in Times
        BY <2>2 DEF Entry
      <3>. QED BY <3>1, TimesInt
    <2>4. Readable(store, k) /\ storeGet(store, k) = storeGet(store, k)'
      BY <1>0, <1>1, <2>1, <2>3, TimeAssumption DEF Readable, storeGet
    <2>. QED BY <2>4
  <1>9. CASE UNCHANGED vars
    BY <1>1, <1>2, <1>9 DEF vars
  <1>. QED BY <1>4, <1>5, <1>6, <1>7, <1>8, <1>9 DEF Next

\* A quotient of naturals is at most the dividend.
LEMMA QuotientBelow ==
    ASSUME NEW n \in Nat, NEW m \in Nat \ {0}
    PROVE  n \div m \in Nat /\ n \div m <= n
  OBVIOUS

\* A step makes storeGet find nothing any more only if the clock reaches the
\* expiry: a write leaves the key an expiry that is still to come, and
\* clearExpired, which divides the clock, is later than storeGet.
LEMMA VanishStep ==
    ASSUME IInv, IInv', [Next]_vars, NEW k \in Keys,
           Readable(store, k), ~Readable(store, k)'
    PROVE  Get(store, k).expiry \in 1..now'
  <1>0. /\ Good(store) /\ Good(store') /\ now \in StartTime .. EndTime
        /\ now \in Nat /\ now' \in Nat
    BY TimeAssumption DEF IInv
  <1>1. /\ Has(store, k) /\ Get(store, k).type = "string"
        /\ Get(store, k).expiry = 0 \/ Get(store, k).expiry > now
    BY DEF Readable
  <1>2. Get(store, k) \in Entries(store) /\ Get(store, k).key = k
    BY <1>0, <1>1, Lookup
  <1>3. Get(store, k).expiry \in Int
    <2>1. Get(store, k) \in Entry
      BY <1>0, <1>2, EntriesOf DEF Good
    <2>2. Get(store, k).expiry \in Times
      BY <2>1 DEF Entry
    <2>. QED BY <2>2, TimesInt
  <1>4. ~(/\ Has(store', k) /\ Get(store', k).type = "string"
          /\ Get(store', k).expiry = 0 \/ Get(store', k).expiry > now')
    BY DEF Readable
  <1>5. ASSUME NEW j \in Keys, Others(store, store', j), UNCHANGED now
        PROVE  j = k
    BY <1>1, <1>4, <1>5 DEF Others
  <1>6. ASSUME NEW j \in Keys, NEW v \in Strings, NEW ttl \in Ttls \cup {0},
               handleSet(j, v, ttl)
        PROVE  FALSE
    <2>. DEFINE s == storeSet(store, j, v)
    <2>1. /\ Good(s) /\ Has(s, j) /\ Others(store, s, j)
          /\ Get(s, j) = StringEntry(j, v, IF Has(store, j) THEN Get(store, j).expiry ELSE 0)
      BY <1>0, SetGood
    <2>2. store' = (IF ttl > 0 THEN setExpiry(s, j, now + ttl) ELSE s) /\ UNCHANGED now
      BY <1>6 DEF handleSet
    <2>. HIDE DEF s
    <2>3. CASE ttl > 0
      <3>1. now + ttl \in Times /\ now + ttl > now
        BY <1>0, <2>3, TtlsAssumption DEF Times
      <3>2. /\ Has(store', j) /\ Others(s, store', j)
            /\ Get(store', j) = [Get(s, j) EXCEPT !.expiry = now + ttl]
        BY <2>1, <2>2, <2>3, <3>1, ExpiryGood
      <3>3. Get(store', j) = StringEntry(j, v, now + ttl)
        BY <2>1, <3>2 DEF StringEntry
      <3>4. Others(store, store', j)
        BY <2>1, <3>2 DEF Others
      <3>. QED BY <1>4, <1>5, <2>2, <3>1, <3>2, <3>3, <3>4 DEF StringEntry
    <2>4. CASE ~(ttl > 0)
      <3>1. store' = s
        BY <2>2, <2>4
      <3>2. j = k
        BY <1>5, <2>1, <2>2, <3>1
      <3>. QED BY <1>1, <1>4, <2>1, <2>2, <3>1, <3>2 DEF StringEntry
    <2>. QED BY <2>3, <2>4
  <1>7. ASSUME NEW j \in Keys, handleIncrement(j)
        PROVE  FALSE
    <2>. DEFINE v == IF Readable(store, j) THEN Succ64(storeGet(store, j)) ELSE 1
    <2>1. v \in Strings
      BY <1>0, <1>7, StringType, SuccType, MaxIntAssumption
      DEF handleIncrement, Readable, storeGet, Strings, MinInt
    <2>2. store' = storeSet(store, j, v) /\ UNCHANGED now
      BY <1>7 DEF handleIncrement
    <2>. HIDE DEF v
    <2>3. /\ Has(store', j) /\ Others(store, store', j)
          /\ Get(store', j) =
                StringEntry(j, v, IF Has(store, j) THEN Get(store, j).expiry ELSE 0)
      BY <1>0, <2>1, <2>2, SetGood
    <2>4. j = k
      BY <1>5, <2>2, <2>3
    <2>. QED BY <1>1, <1>4, <2>2, <2>3, <2>4 DEF StringEntry
  <1>8. ASSUME NEW j \in Keys, NEW g \in Garbage, NEW a \in {0, 1}, handleXadd(j, g, a)
        PROVE  FALSE
    <2>1. CASE UNCHANGED store
      BY <1>1, <1>4, <1>8, <2>1 DEF handleXadd
    <2>2. CASE /\ Has(store, j) => /\ Get(store, j).type = "stream"
                                  /\ Get(store, j).value + a <= MaxStream
               /\ store' = storeStreamAdd(store, j, g, a)
      <3>1. Others(store, store', j)
        BY <1>0, <2>2, StreamGood
      <3>2. j = k
        BY <1>5, <1>8, <3>1 DEF handleXadd
      <3>. QED BY <1>1, <2>2, <3>2
    <2>. QED BY <1>8, <2>1, <2>2 DEF handleXadd
  <1>9. ASSUME serverCron PROVE FALSE
    <2>1. /\ UNCHANGED now
          /\ Entries(store') = {e \in Entries(store) :
                                  ~(e.expiry # 0 /\ e.expiry < now \div MsPerSec)}
      BY <1>0, <1>9, ClearGood DEF serverCron
    <2>2. now \div MsPerSec \in Nat /\ now \div MsPerSec <= now
      BY <1>0, QuotientBelow, TimeAssumption
    <2>3. ~(Get(store, k).expiry # 0 /\ Get(store, k).expiry < now \div MsPerSec)
      BY <1>0, <1>1, <1>3, <2>2
    <2>4. Get(store, k) \in Entries(store')
      BY <1>2, <2>1, <2>3
    <2>5. Has(store', k) /\ Get(store', k) = Get(store, k)
      BY <1>0, <1>2, <2>4, Lookup
    <2>. QED BY <1>1, <1>4, <2>1, <2>5
  <1>10. CASE Tick
    <2>1. store' = store
      BY <1>10 DEF Tick
    <2>2. Get(store, k).expiry # 0 /\ ~(Get(store, k).expiry > now')
      BY <1>1, <1>4, <2>1
    <2>. QED BY <1>0, <1>1, <1>3, <2>2
  <1>11. ASSUME UNCHANGED vars PROVE FALSE
    BY <1>1, <1>4, <1>11 DEF vars
  <1>. QED BY <1>6, <1>7, <1>8, <1>9, <1>10, <1>11 DEF Next

\* What storeGet finds for a key changes only by a write to that key or by the
\* clock reaching its expiry: what has expired stays gone, and no other key,
\* growth or clearExpired brings a value about or takes one away.
THEOREM StoreGetExplained == Spec => StoreGetOnlyByWriteOrExpiry
  <1>1. IInv /\ IInv' /\ [Next]_vars =>
          [\A k \in Keys :
             /\ /\ Readable(store, k)'
                /\ ~(Readable(store, k) /\ storeGet(store, k) = storeGet(store, k)')
                => wrote' = [key |-> k, value |-> storeGet(store, k)']
             /\ Readable(store, k) /\ ~Readable(store, k)'
                => Get(store, k).expiry \in 1..now']_vars
    BY AnswerStep, VanishStep
  <1>. QED BY <1>1, Invariance, PTL DEF Spec, StoreGetOnlyByWriteOrExpiry

\* What storeGet finds in memory has the type string for getValueType, however
\* small the unit in which that reads the clock makes its number.
THEOREM TypeAgreesWithStoreGet == Spec => []StoreGetImpliesType
  <1>1. ASSUME IInv, NEW k \in Keys, Readable(store, k)
        PROVE  getValueType(store, k) = "string"
    <2>1. /\ Has(store, k) /\ Get(store, k).type = "string"
          /\ Get(store, k).expiry = 0 \/ Get(store, k).expiry > now
      BY <1>1 DEF Readable
    <2>2. Get(store, k).expiry \in Int
      <3>1. Get(store, k) \in Entry
        BY <1>1, <2>1, Lookup, EntriesOf DEF IInv, Good
      <3>2. Get(store, k).expiry \in Times
        BY <3>1 DEF Entry
      <3>. QED BY <3>2, TimesInt
    <2>3. now \in Nat
      BY <1>1, TimeAssumption DEF IInv
    <2>4. now \div MsPerSec \in Nat /\ now \div MsPerSec <= now
      BY <2>3, QuotientBelow, TimeAssumption
    <2>5. ~(Get(store, k).expiry # 0 /\ Get(store, k).expiry < now \div MsPerSec)
      BY <2>1, <2>2, <2>3, <2>4
    <2>. QED BY <2>1, <2>5 DEF getValueType
  <1>2. IInv => StoreGetImpliesType
    BY <1>1 DEF StoreGetImpliesType
  <1>. QED BY <1>2, Invariance, PTL

=============================================================================
