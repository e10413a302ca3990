------------------------------ MODULE XStream -------------------------------
(***************************************************************************)
(* XADD and XREAD [BLOCK] on one key, run by several worker threads at the *)
(* same time: storeStreamAdd and storeGetStream of app/redis_store.c, the  *)
(* linked list and the blocking protocol of app/stream.c and handleXread   *)
(* of app/command.c.  None of this code takes the store's lock; only the   *)
(* condition variable of stream_block_state has a mutex, held for single   *)
(* steps.  (Its flag has_new_data is written and never read.)              *)
(*                                                                         *)
(* An entry is a node of the heap, numbered in order of allocation; 0 is   *)
(* NULL.  An id is a number: module Stream shows that ids are totally      *)
(* ordered.  A thread is in the condition variable's wait set exactly when *)
(* its rpc is "wait".                                                      *)
(***************************************************************************)
EXTENDS Integers, Sequences, FiniteSets, FiniteSetsExt

CONSTANTS Writers,   \* threads that run XADD
          Readers,   \* threads that run XREAD
          MaxNodes,  \* bound: entries ever allocated
          MaxId      \* bound: the largest explicit id

ASSUME WritersAssumption == IsFiniteSet(Writers)
ASSUME BoundsAssumption == MaxNodes \in Nat /\ MaxId \in Nat

VARIABLES streams,   \* the Stream objects: head and tail
          current,   \* the one storeGetStream finds, or 0
          node,      \* the entries: id and next
          crashed,   \* a NULL pointer was dereferenced
          acked,     \* entries whose id was returned by XADD
          wpc, wstream, wid, wnode,             \* of a writer
          rpc, mode, rstream, rid, sleptAt,     \* of a reader
          seen       \* the entries each reader's client has been sent

storeVars == <<streams, current, node, crashed>>
writerVars == <<wpc, wstream, wid, wnode>>
requestVars == <<mode, rstream, rid>>
readerVars == <<rpc, requestVars, sleptAt, seen>>
vars == <<storeVars, acked, writerVars, readerVars>>

NULL == 0

Init ==
    /\ streams = <<>> /\ current = NULL /\ node = <<>>
    /\ crashed = FALSE /\ acked = {}
    /\ wpc = [w \in Writers |-> "idle"]
    /\ wstream = [w \in Writers |-> NULL]
    /\ wid = [w \in Writers |-> 0]
    /\ wnode = [w \in Writers |-> NULL]
    /\ rpc = [r \in Readers |-> "idle"]
    /\ mode = [r \in Readers |-> "poll"]
    /\ rstream = [r \in Readers |-> NULL]
    /\ rid = [r \in Readers |-> 0]
    /\ sleptAt = [r \in Readers |-> 0]
    /\ seen = [r \in Readers |-> <<>>]

-----------------------------------------------------------------------------
(* The linked list *)

\* The k-th entry that a walk over s meets, or NULL.
Walk(s) ==
    LET at[k \in 1..MaxNodes] ==
            IF k = 1 THEN streams[s].head
            ELSE LET before == at[k-1]
                 IN  IF before = NULL THEN NULL ELSE node[before].next
    IN  at

\* The entries a walk over s meets, in order.
List(s) ==
    IF s = NULL THEN <<>>
    ELSE LET walk == Walk(s)
         IN  [k \in 1..Cardinality({j \in 1..MaxNodes : walk[j] # NULL}) |-> walk[k]]

TailId(s) == IF streams[s].tail = NULL THEN 0 ELSE node[streams[s].tail].id

\* streamRead: the places on the list of the entries whose id is above the
\* given one.
streamRead(s, id) == LET l == List(s) IN {k \in 1..Len(l) : node[l[k]].id > id}

-----------------------------------------------------------------------------
(* XADD: handleXadd, storeStreamAdd, streamAdd *)

Busy == {w \in Writers : wpc[w] # "idle"}

\* The walk over the bucket in storeStreamAdd.
AddLookup(w) ==
    /\ ~crashed /\ wpc[w] = "idle"
    /\ Len(node) + Cardinality(Busy) < MaxNodes
    /\ wstream' = [wstream EXCEPT ![w] = current]
    /\ wpc' = [wpc EXCEPT ![w] = IF current = NULL THEN "create" ELSE "parse"]
    /\ UNCHANGED <<storeVars, acked, wid, wnode, readerVars>>

\* The key was not found: a new entry goes to the front of its bucket, where
\* it hides one that another thread put there meanwhile.
AddCreate(w) ==
    /\ ~crashed /\ wpc[w] = "create"
    /\ streams' = Append(streams, [head |-> NULL, tail |-> NULL])
    /\ current' = Len(streams')
    /\ wstream' = [wstream EXCEPT ![w] = Len(streams')]
    /\ wpc' = [wpc EXCEPT ![w] = "parse"]
    /\ UNCHANGED <<node, crashed, acked, wid, wnode, readerVars>>

\* parseStreamID, and getNextSequence for an automatic id.
AddParse(w) ==
    /\ ~crashed /\ wpc[w] = "parse"
    /\ \E id \in (1..MaxId) \cup {TailId(wstream[w]) + 1} :
          wid' = [wid EXCEPT ![w] = id]
    /\ wpc' = [wpc EXCEPT ![w] = "check"]
    /\ UNCHANGED <<storeVars, acked, wstream, wnode, readerVars>>

\* XADD is over: its id, or the error, is returned.
AddReturns(w) ==
    /\ wpc' = [wpc EXCEPT ![w] = "idle"]
    /\ wstream' = [wstream EXCEPT ![w] = NULL]
    /\ wid' = [wid EXCEPT ![w] = 0]
    /\ wnode' = [wnode EXCEPT ![w] = NULL]

\* Mutant: entry->next is not initialised.
AddCheck_NextUnset(w) ==
    /\ ~crashed /\ wpc[w] = "check"
    /\ wid[w] > TailId(wstream[w])
    /\ node' = Append(node, [id |-> wid[w], next |-> -1])
    /\ wnode' = [wnode EXCEPT ![w] = Len(node')]
    /\ wpc' = [wpc EXCEPT ![w] = "link"]
    /\ UNCHANGED <<streams, current, crashed, acked, wstream, wid, readerVars>>

\* isValidNextID; then the entry is allocated and filled in.
AddCheck(w) ==
    /\ ~crashed /\ wpc[w] = "check"
    /\ \/ /\ wid[w] > TailId(wstream[w])
          /\ node' = Append(node, [id |-> wid[w], next |-> NULL])
          /\ wnode' = [wnode EXCEPT ![w] = Len(node')]
          /\ wpc' = [wpc EXCEPT ![w] = "link"]
          /\ UNCHANGED <<wstream, wid>>
       \/ /\ wid[w] <= TailId(wstream[w])
          /\ AddReturns(w)
          /\ UNCHANGED node
    /\ UNCHANGED <<streams, current, crashed, acked, readerVars>>

\* if (!stream->head): another thread may set the head after this test.
AddTest(w) ==
    /\ ~crashed /\ wpc[w] = "link"
    /\ wpc' = [wpc EXCEPT ![w] = IF streams[wstream[w]].head = NULL THEN "head" ELSE "next"]
    /\ UNCHANGED <<storeVars, acked, wstream, wid, wnode, readerVars>>

\* stream->head = entry, or else stream->tail->next = entry, which crashes if
\* another thread has set the head and not yet the tail.
AddLink(w) ==
    /\ ~crashed
    /\ \/ /\ wpc[w] = "head"
          /\ streams' = [streams EXCEPT ![wstream[w]].head = wnode[w]]
          /\ UNCHANGED <<node, crashed>>
       \/ /\ wpc[w] = "next"
          /\ LET t == streams[wstream[w]].tail IN
             /\ node' = IF t = NULL THEN node ELSE [node EXCEPT ![t].next = wnode[w]]
             /\ crashed' = (t = NULL)
          /\ UNCHANGED streams
    /\ wpc' = [wpc EXCEPT ![w] = "tail"]
    /\ UNCHANGED <<current, acked, wstream, wid, wnode, readerVars>>

\* Mutant: the tail is left where it is once it is set.
AddTail_Once(w) ==
    /\ ~crashed /\ wpc[w] = "tail"
    /\ streams' = [streams EXCEPT ![wstream[w]].tail = IF @ = NULL THEN wnode[w] ELSE @]
    /\ wpc' = [wpc EXCEPT ![w] = "notify"]
    /\ UNCHANGED <<current, node, crashed, acked, wstream, wid, wnode, readerVars>>

\* stream->tail = entry.
AddTail(w) ==
    /\ ~crashed /\ wpc[w] = "tail"
    /\ streams' = [streams EXCEPT ![wstream[w]].tail = wnode[w]]
    /\ wpc' = [wpc EXCEPT ![w] = "notify"]
    /\ UNCHANGED <<current, node, crashed, acked, wstream, wid, wnode, readerVars>>

\* Mutant: pthread_cond_signal in place of the broadcast.
AddNotify_Signal(w) ==
    /\ ~crashed /\ wpc[w] = "notify"
    /\ LET asleep == {r \in Readers : rpc[r] = "wait"} IN
       rpc' = IF asleep = {} THEN rpc
              ELSE [rpc EXCEPT ![CHOOSE r \in asleep : TRUE] = "recheck"]
    /\ acked' = acked \cup {wnode[w]}
    /\ AddReturns(w)
    /\ UNCHANGED <<storeVars, requestVars, sleptAt, seen>>

\* The broadcast under stream_block_state.mutex wakes every reader, whatever
\* stream it waits for; then the id is returned.
AddNotify(w) ==
    /\ ~crashed /\ wpc[w] = "notify"
    /\ rpc' = [r \in Readers |-> IF rpc[r] = "wait" THEN "recheck" ELSE rpc[r]]
    /\ acked' = acked \cup {wnode[w]}
    /\ AddReturns(w)
    /\ UNCHANGED <<storeVars, requestVars, sleptAt, seen>>

-----------------------------------------------------------------------------
(* XREAD: handleXread *)

\* The last id a reader's client was sent.
Cursor(r) == IF seen[r] = <<>> THEN 0 ELSE node[seen[r][Len(seen[r])]].id

\* parseXreadArgs and setupXreadStreams: the stream is looked up once, and "$"
\* becomes the id of its last entry.  The client sends the last id it knows,
\* or "$" while it knows none; it does not block, or blocks with BLOCK 0, or
\* with a time limit.
ReadLookup(r) ==
    /\ ~crashed /\ rpc[r] = "idle"
    /\ \E m \in {"poll", "timed", "forever"} : mode' = [mode EXCEPT ![r] = m]
    /\ rstream' = [rstream EXCEPT ![r] = current]
    /\ \/ rid' = [rid EXCEPT ![r] = Cursor(r)]
       \/ /\ seen[r] = <<>>
          /\ rid' = [rid EXCEPT ![r] = IF current = NULL THEN 0 ELSE TailId(current)]
    /\ rpc' = [rpc EXCEPT ![r] = "read"]
    /\ UNCHANGED <<storeVars, acked, writerVars, sleptAt, seen>>

\* The command is over and its XreadArgs are freed.
Answered(r) ==
    /\ rpc' = [rpc EXCEPT ![r] = "idle"]
    /\ mode' = [mode EXCEPT ![r] = "poll"]
    /\ rstream' = [rstream EXCEPT ![r] = NULL]
    /\ rid' = [rid EXCEPT ![r] = 0]
    /\ sleptAt' = [sleptAt EXCEPT ![r] = 0]

\* createXreadResponse: the first entry found, or an empty array.
Reply(r, found) ==
    /\ seen' = [seen EXCEPT ![r] =
          IF found = {} THEN @ ELSE Append(@, List(rstream[r])[Min(found)])]
    /\ Answered(r)

\* processStreamReads: answer, or go and wait.
ReadFirst(r) ==
    /\ ~crashed /\ rpc[r] = "read"
    /\ LET found == streamRead(rstream[r], rid[r]) IN
       \/ /\ found # {} \/ mode[r] = "poll"
          /\ Reply(r, found)
       \/ /\ found = {} /\ mode[r] # "poll"
          /\ rpc' = [rpc EXCEPT ![r] = "enter"]
          /\ UNCHANGED <<requestVars, sleptAt, seen>>
    /\ UNCHANGED <<storeVars, acked, writerVars>>

\* pthread_cond_wait or pthread_cond_timedwait, without a second look at the
\* stream.  (sleptAt remembers how long the list was.)
ReadSleep(r) ==
    /\ ~crashed /\ rpc[r] = "enter"
    /\ rpc' = [rpc EXCEPT ![r] = "wait"]
    /\ sleptAt' = [sleptAt EXCEPT ![r] = Len(List(rstream[r]))]
    /\ UNCHANGED <<storeVars, acked, writerVars, requestVars, seen>>

\* waitForStreamData adds milliseconds to tv_nsec without a carry: the time
\* limit may be invalid, and EINVAL counts as data.
ReadInvalidTime(r) ==
    /\ ~crashed /\ rpc[r] = "enter" /\ mode[r] = "timed"
    /\ rpc' = [rpc EXCEPT ![r] = "recheck"]
    /\ UNCHANGED <<storeVars, acked, writerVars, requestVars, sleptAt, seen>>

\* A wake-up without a broadcast; nothing is tested after it.
ReadSpurious(r) ==
    /\ ~crashed /\ rpc[r] = "wait"
    /\ rpc' = [rpc EXCEPT ![r] = "recheck"]
    /\ UNCHANGED <<storeVars, acked, writerVars, requestVars, sleptAt, seen>>

\* Mutant: after ETIMEDOUT the wait is started again.
ReadTimeout_Retry(r) ==
    /\ ~crashed /\ rpc[r] = "wait" /\ mode[r] = "timed"
    /\ rpc' = [rpc EXCEPT ![r] = "enter"]
    /\ UNCHANGED <<storeVars, acked, writerVars, requestVars, sleptAt, seen>>

\* ETIMEDOUT: the null reply.
ReadTimeout(r) ==
    /\ ~crashed /\ rpc[r] = "wait" /\ mode[r] = "timed"
    /\ Answered(r)
    /\ UNCHANGED <<storeVars, acked, writerVars, seen>>

\* Mutant: the walk starts at the requested id itself.
ReadAgain_Inclusive(r) ==
    /\ ~crashed /\ rpc[r] = "recheck"
    /\ Reply(r, {k \in 1..Len(List(rstream[r])) : node[List(rstream[r])[k]].id >= rid[r]})
    /\ UNCHANGED <<storeVars, acked, writerVars>>

\* recheckStreams, on the Stream pointer looked up before the wait.
ReadAgain(r) ==
    /\ ~crashed /\ rpc[r] = "recheck"
    /\ Reply(r, streamRead(rstream[r], rid[r]))
    /\ UNCHANGED <<storeVars, acked, writerVars>>

-----------------------------------------------------------------------------

AddStep(w) ==
    \/ AddCreate(w) \/ AddParse(w) \/ AddCheck(w)
    \/ AddTest(w) \/ AddLink(w) \/ AddTail(w) \/ AddNotify(w)

ReadStep(r) ==
    \/ ReadFirst(r) \/ ReadSleep(r) \/ ReadInvalidTime(r)
    \/ ReadTimeout(r) \/ ReadAgain(r)

Next ==
    \/ \E w \in Writers : AddLookup(w) \/ AddStep(w)
    \/ \E r \in Readers : ReadLookup(r) \/ ReadStep(r) \/ ReadSpurious(r)

Spec == Init /\ [][Next]_vars

\* A command that was started goes on, and a time limit ends.  Nobody has to
\* send a command, and no spurious wake-up has to come.
FairSpec ==
    /\ Spec
    /\ \A w \in Writers : WF_vars(AddStep(w))
    /\ \A r \in Readers : WF_vars(ReadStep(r))

-----------------------------------------------------------------------------
(* Properties *)

Nodes == 1..Len(node)
Pointers == Nodes \cup {NULL}

\* Every pointer is NULL or leads to an allocated entry or stream.
TypeOK ==
    /\ streams \in Seq([head : Pointers, tail : Pointers])
    /\ current \in 0..Len(streams)
    /\ node \in Seq([id : Nat, next : Pointers]) /\ Len(node) <= MaxNodes
    /\ crashed \in BOOLEAN /\ acked \subseteq Nodes
    /\ wpc \in [Writers -> {"idle", "create", "parse", "check", "link", "head", "next",
                           "tail", "notify"}]
    /\ wstream \in [Writers -> 0..Len(streams)]
    /\ wid \in [Writers -> Nat] /\ wnode \in [Writers -> Pointers]
    /\ rpc \in [Readers -> {"idle", "read", "enter", "wait", "recheck"}]
    /\ mode \in [Readers -> {"poll", "timed", "forever"}]
    /\ rstream \in [Readers -> 0..Len(streams)]
    /\ rid \in [Readers -> Nat] /\ sleptAt \in [Readers -> 0..MaxNodes]
    /\ seen \in [Readers -> Seq(Nodes)]

Elements(s) == {s[i] : i \in 1..Len(s)}

\* An XADD that was answered with an id can be read: its entry is on the list
\* that storeGetStream finds.  True of a single writer; two XADDs at a time
\* lose entries, since neither storeStreamAdd nor streamAdd takes a lock.
AckedReadable == acked \subseteq Elements(List(current))

\* A client that follows the stream by its last id is sent neighbours on the
\* list, each once, whether a reply came at once, after a wake-up or after an
\* empty or null reply.
FollowerSkipsNothing ==
    \A r \in Readers :
        LET l == List(current)
        IN  \A i \in 1..(Len(seen[r]) - 1) :
               \E k \in 1..(Len(l) - 1) : l[k] = seen[r][i] /\ l[k+1] = seen[r][i+1]

\* What clients see: the entries that can be read, those whose ids were
\* returned and those that were sent, each with its id.
View(n) == [entry |-> n, id |-> node[n].id]
Views(s) == [k \in 1..Len(s) |-> View(s[k])]
Readable == Views(List(current))
Returned == {View(n) : n \in acked}
Sent == [r \in Readers |-> Views(seen[r])]

Log == INSTANCE StreamLog WITH log <- Readable, returned <- Returned, sent <- Sent

\* To its clients the stream is a log in the order of the ids: an entry that
\* can be read stays what and where it is, though the list is built in several
\* steps, without a lock, under the readers' eyes.  True of a single writer.
ImplementsLog == Log!LogSpec

\* No broadcast is lost: a reader that sleeps although its stream has grown
\* since it fell asleep will be woken by an XADD that has not yet sent its
\* broadcast, also when several writers spoil each other's links.
NoSleeperForgotten ==
    \A r \in Readers :
        rpc[r] = "wait" /\ Len(List(rstream[r])) > sleptAt[r]
            => \E w \in Writers : wpc[w] \in {"tail", "notify"}

\* XREAD with a time limit is always answered.
TimedReadReturns ==
    \A r \in Readers : mode[r] = "timed" ~> (rpc[r] = "idle" \/ crashed)

\* A reader that was asleep when an entry was added to its stream is answered,
\* with BLOCK 0 too, and however many readers sleep.
SleeperAnswered ==
    \A r \in Readers :
        (rpc[r] = "wait" /\ Len(List(rstream[r])) > sleptAt[r])
            ~> (rpc[r] = "idle" \/ crashed)

=============================================================================
