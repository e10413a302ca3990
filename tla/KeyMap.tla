------------------------------- MODULE KeyMap -------------------------------
(***************************************************************************)
(* What the key-value store does at present, seen from outside: a map from *)
(* keys to strings and streams with an optional expiry time, without       *)
(* buckets, chains or resizing.  Module RedisStore shows that              *)
(* app/redis_store.c implements this.  It is not all a promise: that a     *)
(* write keeps an expiry which has passed is the defect that the run       *)
(* store_ttl reports, and is here because the code does it.                *)
(***************************************************************************)
EXTENDS StoreTypes

\* An absent key; a string; a stream, by its number of entries.
Absent == [type |-> "none"]

VARIABLES map, now

mapVars == <<map, now>>

MapInit ==
    /\ map = [k \in Keys |-> Absent]
    /\ now = StartTime

\* storeGet finds the item.
Visible(item, t) ==
    /\ item.type = "string"
    /\ item.expiry = 0 \/ item.expiry > t

\* A write keeps the expiry that the key had, unless it brings its own: the
\* present behaviour, also where that expiry has passed.
Written(item, v, ttl) ==
    [type |-> "string", value |-> v,
     expiry |-> IF ttl > 0 THEN now + ttl
                ELSE IF item = Absent THEN 0 ELSE item.expiry]

Put(k, v, ttl) ==
    /\ map' = [map EXCEPT ![k] = Written(@, v, ttl)]
    /\ UNCHANGED now

\* INCR counts a visible number up, and starts with 1 where storeGet finds
\* nothing.
Count(k) ==
    \/ /\ Visible(map[k], now) /\ map[k].value # Text
       /\ Put(k, Succ64(map[k].value), 0)
    \/ /\ ~Visible(map[k], now)
       /\ Put(k, 1, 0)

\* XADD on an absent key makes a stream, whose expiry is undefined, even if
\* the entry is then refused; on a stream it may add an entry.
Extended(item, e, added) ==
    IF item = Absent THEN [type |-> "stream", value |-> added, expiry |-> e]
    ELSE [item EXCEPT !.value = @ + added]

Extend(k, e, added) ==
    /\ map[k].type # "string"
    /\ map' = [map EXCEPT ![k] = Extended(@, e, added)]
    /\ UNCHANGED now

\* clearExpired compares milliseconds with seconds.
Purged(item) == item # Absent /\ item.expiry # 0 /\ item.expiry < now \div MsPerSec

Purge ==
    /\ map' = [k \in Keys |-> IF Purged(map[k]) THEN Absent ELSE map[k]]
    /\ UNCHANGED now

Pass ==
    /\ now < EndTime
    /\ now' = now + 1
    /\ UNCHANGED map

MapNext ==
    \/ \E k \in Keys : \/ \E v \in Strings, ttl \in Ttls \cup {0} : Put(k, v, ttl)
                       \/ Count(k)
                       \/ \E e \in Garbage, added \in {0, 1} : Extend(k, e, added)
    \/ Purge
    \/ Pass

MapSpec == MapInit /\ [][MapNext]_mapVars

=============================================================================
