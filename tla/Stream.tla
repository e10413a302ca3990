------------------------------- MODULE Stream -------------------------------
(***************************************************************************)
(* One stream of app/stream.c as clients see it when their commands do not *)
(* overlap: XADD with every form of id and a wall clock that may jump, and *)
(* a client that follows the stream by XREAD with the last id it was sent. *)
(* (Module XStream models commands that do overlap.)                       *)
(***************************************************************************)
EXTENDS StreamId

CONSTANT MaxEntries   \* bound: how many entries the stream may get
ASSUME MaxEntriesAssumption == MaxEntries \in Nat

VARIABLES entries,  \* head to tail: the id stored and the id that was meant
          alive,    \* FALSE once the server has crashed
          cursor,   \* the id the following client sends with its next XREAD
          seen      \* positions of the entries that client has been sent

vars == <<entries, alive, cursor, seen>>

Entry == [id : StreamID, full : StreamID]

Init ==
    /\ entries = <<>>
    /\ alive = TRUE
    /\ cursor = ZeroID
    /\ seen = <<>>

tail == entries[Len(entries)].id

-----------------------------------------------------------------------------
(* XADD *)

\* Mutant: the sequence number is not advanced.
getNextSequence_NoAdvance(ms) ==
    IF entries = <<>> THEN IF ms = 0 THEN 1 ELSE 0
    ELSE IF tail.ms = ms THEN tail.seq ELSE 0

\* Mutant: lastId.seq + 1 is kept in a wider type.
getNextSequence_Wider(ms) ==
    IF entries = <<>> THEN IF ms = 0 THEN 1 ELSE 0
    ELSE IF tail.ms = ms THEN tail.seq + 1 ELSE 0

\* lastId.seq + 1 is a uint64_t.
getNextSequence(ms) ==
    IF entries = <<>> THEN IF ms = 0 THEN 1 ELSE 0
    ELSE IF tail.ms = ms THEN (tail.seq + 1) % (IdMax + 1) ELSE 0

\* Mutant: an id equal to the top item is let through.
isValidNextID_AllowEqual(newId) ==
    /\ newId # ZeroID
    /\ entries # <<>> =>
          /\ newId.ms >= tail.ms
          /\ ~(newId.ms = tail.ms /\ newId.seq < tail.seq)

isValidNextID(newId) ==
    /\ newId # ZeroID
    /\ entries # <<>> =>
          /\ newId.ms >= tail.ms
          /\ ~(newId.ms = tail.ms /\ newId.seq <= tail.seq)

\* The id streamAdd works with: an automatic sequence number is filled in.
NewID(a, now) ==
    LET p == parseStreamID(a, now)
    IN  IF p.seq = IdMax THEN [p EXCEPT !.seq = getNextSequence(p.ms)] ELSE p

\* streamAdd appends the entry under the printed id, or answers with an error
\* and leaves the stream as it is.
XAdd(a, now) ==
    /\ alive
    /\ Len(entries) < MaxEntries
    /\ a.kind # "malformed"
    /\ LET id == NewID(a, now)
       IN  entries' = IF isValidNextID(id)
                      THEN Append(entries, [id |-> generateStreamID(id), full |-> id])
                      ELSE entries
    /\ UNCHANGED <<alive, cursor, seen>>

\* streamAdd returns NULL for an id it cannot parse, and handleXadd reads
\* result[0]: the server dies.
XAddMalformed(a) ==
    /\ alive
    /\ a.kind = "malformed"
    /\ alive' = FALSE
    /\ UNCHANGED <<entries, cursor, seen>>

-----------------------------------------------------------------------------
(* XRANGE and XREAD; a result is the set of its entries' positions *)

streamRange(start, end) ==
    {i \in 1..Len(entries) : isIdInRange(entries[i].id, start, end)}

streamRead(id) ==
    {i \in 1..Len(entries) : compareStreamIDs(entries[i].id, id) > 0}

\* Mutant: the reply carries the last new entry.
createXreadResponse_Last(found) ==
    CHOOSE i \in found : \A j \in found : j <= i

\* The reply to XREAD carries the first entry that streamRead found, only.
createXreadResponse(found) ==
    CHOOSE i \in found : \A j \in found : i <= j

\* The following client asks for what comes after the last id it was sent.
XRead ==
    /\ alive
    /\ streamRead(cursor) # {}
    /\ LET i == createXreadResponse(streamRead(cursor))
       IN  /\ seen' = Append(seen, i)
           /\ cursor' = entries[i].id
    /\ UNCHANGED <<entries, alive>>

-----------------------------------------------------------------------------

Next ==
    \/ \E a \in IdArg : XAddMalformed(a) \/ \E now \in UInt : XAdd(a, now)
    \/ XRead

Spec == Init /\ [][Next]_vars

\* The following client keeps asking.
FairSpec == Spec /\ WF_vars(XRead)

-----------------------------------------------------------------------------
(* Properties *)

\* Stored and meant ids are pairs of uint64_t, and the following client was
\* sent entries of the stream.
TypeOK ==
    /\ entries \in Seq(Entry) /\ Len(entries) <= MaxEntries
    /\ alive \in BOOLEAN
    /\ cursor \in StreamID
    /\ seen \in Seq(1..Len(entries))

\* Every id so far fitted generateStreamID's buffer.
NoneCut == \A i \in 1..Len(entries) : entries[i].id = entries[i].full

\* As long as no id was cut, ids strictly increase along the stream, whatever
\* mix of automatic and explicit ids was sent and however the clock jumped.
IdsIncrease ==
    NoneCut => \A i, j \in 1..Len(entries) :
                  i < j => compareStreamIDs(entries[i].id, entries[j].id) = -1

\* XADD * is refused only if the clock is behind the top item, or the top
\* item's sequence number is exhausted.
AutoIdAccepted ==
    \A now \in UInt :
        \/ isValidNextID(NewID([kind |-> "*"], now))
        \/ entries # <<>> /\ now < tail.ms
        \/ entries # <<>> /\ now = tail.ms /\ tail.seq = IdMax

\* XRANGE and XREAD, which compare ids by different code, agree: a range is
\* what XREAD finds from its start on, the start itself included, without
\* what XREAD finds after its end.
RangeAgreesWithRead ==
    \A start, end \in StreamID :
        streamRange(start, end) =
            ({i \in 1..Len(entries) : entries[i].id = start} \cup streamRead(start))
                \ streamRead(end)

\* A client that follows the stream by its last id is sent every entry once
\* and in order, although each reply carries one entry only.
FollowerSeesPrefix ==
    NoneCut => seen = [i \in 1..Len(seen) |-> i]

\* The following client catches up with the stream again and again.
FollowerCatchesUp ==
    []<>(Len(seen) = Len(entries) \/ ~NoneCut \/ ~alive)

=============================================================================
