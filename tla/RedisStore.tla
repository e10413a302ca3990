----------------------------- MODULE RedisStore -----------------------------
(***************************************************************************)
(* app/redis_store.c under the commands of app/command.c that use it, one  *)
(* command at a time: a hash table with chained buckets that doubles when  *)
(* it is three quarters full, entries that expire by being ignored, and    *)
(* two clocks, milliseconds for storeGet and seconds for getValueType and  *)
(* clearExpired.  What GET makes of a key that storeGet does not find (it  *)
(* looks into the RDB file) is in module Commands.                         *)
(*                                                                         *)
(* A bucket is the set of the entries on its chain.  The order of a chain  *)
(* shows only if a key is on it twice, which KeyFindable excludes.         *)
(***************************************************************************)
EXTENDS StoreTypes, FiniteSets

CONSTANTS hash,               \* the function hash(), before the modulus
          INITIAL_STORE_SIZE

ASSUME HashAssumption == hash \in [Keys -> Nat]
ASSUME SizeAssumption == INITIAL_STORE_SIZE \in Nat \ {0}

VARIABLES store,  \* the RedisStore: table, size, used
          now,    \* CLOCK_REALTIME in milliseconds
          alive,  \* FALSE once the server has crashed
          wrote   \* the last string written, until time passes

vars == <<store, now, alive, wrote>>

Entry == [key : Keys, type : {"string"}, value : Strings, expiry : Times]
           \cup [key : Keys, type : {"stream"}, value : 0..MaxStream, expiry : Times]

Nothing == [key |-> "none"]

createStore == [table |-> [b \in 0 .. (INITIAL_STORE_SIZE - 1) |-> {}],
                size |-> INITIAL_STORE_SIZE, used |-> 0]

Init ==
    /\ store = createStore
    /\ now = StartTime
    /\ alive = TRUE
    /\ wrote = Nothing

-----------------------------------------------------------------------------
(* redis_store.c *)

Entries(s) == UNION {s.table[b] : b \in 0 .. (s.size - 1)}

bucket(s, k) == hash[k] % s.size

\* Mutant: any entry of the bucket is taken for the key's.
Found_AnyKey(s, k) == s.table[bucket(s, k)]

\* The walk along the chain with strcmp.
Found(s, k) == {e \in s.table[bucket(s, k)] : e.key = k}

Has(s, k) == Found(s, k) # {}
Get(s, k) == CHOOSE e \in Found(s, k) : TRUE

\* Mutant: entries keep the bucket they had.
resize_OldModulus(s) ==
    [table |-> [b \in 0 .. (2 * s.size - 1) |->
                  {e \in Entries(s) : hash[e.key] % s.size = b}],
     size |-> 2 * s.size, used |-> s.used]

resize(s) ==
    [table |-> [b \in 0 .. (2 * s.size - 1) |->
                  {e \in Entries(s) : hash[e.key] % (2 * s.size) = b}],
     size |-> 2 * s.size, used |-> s.used]

\* used / size > LOAD_FACTOR_THRESHOLD, tested before the key is looked up.
MakeRoom(s) == IF 4 * s.used > 3 * s.size THEN resize(s) ELSE s

Replace(s, e, f) ==
    [table |-> [s.table EXCEPT ![bucket(s, e.key)] = (@ \ {e}) \cup {f}],
     size |-> s.size, used |-> s.used]

\* Mutant: the number of entries is not kept up.
Insert_NoCount(s, e) ==
    [table |-> [s.table EXCEPT ![bucket(s, e.key)] = @ \cup {e}],
     size |-> s.size, used |-> s.used]

Insert(s, e) ==
    [table |-> [s.table EXCEPT ![bucket(s, e.key)] = @ \cup {e}],
     size |-> s.size, used |-> s.used + 1]

\* Mutant: the bucket was computed before the table grew.
storeSet_OldBucket(s0, k, v) ==
    LET s == MakeRoom(s0)
        b == bucket(s0, k)
        old == {e \in s.table[b] : e.key = k}
        new(e) == [key |-> k, type |-> "string", value |-> v, expiry |-> e]
    IN  IF old # {} THEN [s EXCEPT !.table[b] = (@ \ old) \cup {new(e.expiry) : e \in old}]
        ELSE [s EXCEPT !.table[b] = @ \cup {new(0)}, !.used = @ + 1]

\* An existing entry becomes a string and keeps its expiry.
storeSet(s0, k, v) ==
    LET s == MakeRoom(s0)
        new(e) == [key |-> k, type |-> "string", value |-> v, expiry |-> e]
    IN  IF Has(s, k) THEN Replace(s, Get(s, k), new(Get(s, k).expiry))
        ELSE Insert(s, new(0))

\* storeGet finds a string in memory that has not expired.
Readable(s, k) ==
    /\ Has(s, k)
    /\ Get(s, k).expiry = 0 \/ Get(s, k).expiry > now
    /\ Get(s, k).type = "string"

storeGet(s, k) == Get(s, k).value

\* Mutant: the comparison is the wrong way round.
getValueType_Reversed(s, k) ==
    IF ~Has(s, k) THEN "none"
    ELSE IF Get(s, k).expiry # 0 /\ Get(s, k).expiry > now \div MsPerSec THEN "none"
    ELSE Get(s, k).type

\* An expiry in milliseconds is compared with time(NULL).
getValueType(s, k) ==
    IF ~Has(s, k) THEN "none"
    ELSE IF Get(s, k).expiry # 0 /\ Get(s, k).expiry < now \div MsPerSec THEN "none"
    ELSE Get(s, k).type

setExpiry(s, k, e) ==
    IF Has(s, k) THEN Replace(s, Get(s, k), [Get(s, k) EXCEPT !.expiry = e]) ELSE s

\* Unlinks what has expired by time(NULL), bucket by bucket.
clearExpired(s) ==
    LET gone(e) == e.expiry # 0 /\ e.expiry < now \div MsPerSec
    IN  [table |-> [b \in 0 .. (s.size - 1) |-> {e \in s.table[b] : ~gone(e)}],
         size |-> s.size,
         used |-> s.used - Cardinality({e \in Entries(s) : gone(e)})]

\* A new stream's expiry is whatever malloc returned; the table never grows
\* here.  added says whether streamAdd accepts the id.
storeStreamAdd(s, k, garbage, added) ==
    IF Has(s, k)
    THEN Replace(s, Get(s, k), [Get(s, k) EXCEPT !.value = @ + added])
    ELSE Insert(s, [key |-> k, type |-> "stream", value |-> added, expiry |-> garbage])

-----------------------------------------------------------------------------
(* The commands *)

\* SET k v [PX ttl]; ttl = 0 stands for no PX.
handleSet(k, v, ttl) ==
    /\ alive
    /\ LET s == storeSet(store, k, v)
       IN  store' = IF ttl > 0 THEN setExpiry(s, k, now + ttl) ELSE s
    /\ wrote' = [key |-> k, value |-> v]
    /\ UNCHANGED <<now, alive>>

\* INCR k: what storeGet does not find counts as absent, also if it has
\* expired.
handleIncrement(k) ==
    /\ alive
    /\ LET v == IF Readable(store, k) THEN Succ64(storeGet(store, k)) ELSE 1
       IN  /\ Readable(store, k) => storeGet(store, k) # Text
           /\ store' = storeSet(store, k, v)
           /\ wrote' = [key |-> k, value |-> v]
    /\ UNCHANGED <<now, alive>>

\* XADD k.  The value of a string is taken for a Stream without a test of the
\* type: the server is lost.
handleXadd(k, garbage, added) ==
    /\ alive
    /\ \/ /\ Has(store, k) /\ Get(store, k).type = "string"
          /\ alive' = FALSE
          /\ UNCHANGED store
       \/ /\ Has(store, k) => /\ Get(store, k).type = "stream"
                              /\ Get(store, k).value + added <= MaxStream
          /\ store' = storeStreamAdd(store, k, garbage, added)
          /\ UNCHANGED alive
    /\ wrote' = Nothing
    /\ UNCHANGED now

\* serverCron, which nothing calls: the model lets it happen at any time, so
\* that what is shown holds with and without it.
serverCron ==
    /\ alive
    /\ store' = clearExpired(store)
    /\ wrote' = Nothing
    /\ UNCHANGED <<now, alive>>

Tick ==
    /\ alive
    /\ now < EndTime
    /\ now' = now + 1
    /\ wrote' = Nothing
    /\ UNCHANGED <<store, alive>>

Next ==
    \/ \E k \in Keys, v \in Strings, ttl \in Ttls \cup {0} : handleSet(k, v, ttl)
    \/ \E k \in Keys : handleIncrement(k)
    \/ \E k \in Keys, garbage \in Garbage, added \in {0, 1} : handleXadd(k, garbage, added)
    \/ serverCron
    \/ Tick

Spec == Init /\ [][Next]_vars

-----------------------------------------------------------------------------
(* Properties *)

\* The table has as many buckets as size says, with well-typed entries.
TypeOK ==
    /\ store \in [table : [0 .. (store.size - 1) -> SUBSET Entry],
                  size : Nat \ {0}, used : Nat]
    /\ now \in StartTime .. EndTime
    /\ alive \in BOOLEAN
    /\ wrote \in [key : Keys, value : Strings] \cup {Nothing}

\* Every entry can be found: it is on the chain its hash leads to, at the
\* present size of the table, and it is the only one for its key.
KeyFindable ==
    /\ \A b \in 0 .. (store.size - 1) :
          \A e \in store.table[b] : bucket(store, e.key) = b
    /\ \A e, f \in Entries(store) : e.key = f.key => e = f

\* used, which decides when the table grows, is the number of entries.
UsedIsCount == store.used = Cardinality(Entries(store))

\* The hash table implements the map of module KeyMap: growing and sharing a
\* bucket change no key.  (KeyMap records what the store does at present, the
\* kept expiry included; whether that is what SET should do is the question of
\* WrittenIsReadable.)
Map == INSTANCE KeyMap WITH
    map <- [k \in Keys |->
              IF ~Has(store, k) THEN [type |-> "none"]
              ELSE [type |-> Get(store, k).type, value |-> Get(store, k).value,
                    expiry |-> Get(store, k).expiry]]

ImplementsKeyMap == Map!MapSpec

\* A value that storeGet finds has the type string for getValueType, although
\* that compares the expiry with a clock in seconds: TYPE never says none of a
\* key that is in memory and readable.  (For a key of the RDB file, which GET
\* looks for when storeGet finds nothing, TYPE does say none.)
StoreGetImpliesType ==
    \A k \in Keys : Readable(store, k) => getValueType(store, k) = "string"

\* What storeGet finds for a key changes to a value only by a write of that
\* value to that key, and to nothing only when the clock reaches its expiry:
\* another key in its bucket, a growth or clearExpired neither brings a value
\* about nor takes one away, and what has expired stays gone.
StoreGetOnlyByWriteOrExpiry ==
    [][\A k \in Keys :
          /\ /\ Readable(store, k)'
             /\ ~(Readable(store, k) /\ storeGet(store, k) = storeGet(store, k)')
             => wrote' = [key |-> k, value |-> storeGet(store, k)']
          /\ Readable(store, k) /\ ~Readable(store, k)'
             => Get(store, k).expiry \in 1..now']_vars

\* After SET or INCR, storeGet finds what was written.
WrittenIsReadable ==
    wrote # Nothing =>
        Readable(store, wrote.key) /\ storeGet(store, wrote.key) = wrote.value

=============================================================================
