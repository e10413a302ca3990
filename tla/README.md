# Verification of FastKey

FastKey (`src/`) is a Redis clone in C: a main thread accepts connections and hands
them to a pool of workers; a worker reads RESP commands from its client and executes
them on a shared hash table and on streams; a server may be the replica of another.
This directory holds TLA+ modules that model its parts, TLC configurations that check
them on small instances, and TLAPS proofs for every value of the constants.

`PROJECT.json` lists components, runs, the source lines behind each definition, the
hazards of the code, and the theorems. To repeat a check: `tlc -workers 2 -config
MCStream.cfg MCStream`; to repeat a proof: `tlapm StreamProofs.tla`.

## 1. Inventory

| Part | Source | State | Operations |
|---|---|---|---|
| Thread pool, accept loop, signals | `thread_pool.c`, `main.c` | `tasks[]` used as a stack, `running`, one mutex, `not_empty`, `not_full` | `worker`, `threadPoolAdd`, `threadPoolDestroy`, accept, `signal_handler` |
| Key-value store | `redis_store.c` | buckets of chained entries, `size`, `used`, a rwlock, expiry per entry | `storeSet`, `storeGet`, `setExpiry`, `getValueType`, `clearExpired`, `resize`, `storeStreamAdd`, `storeGetStream` |
| Streams | `stream.c` | linked list `head`..`tail` of entries with ids | `streamAdd`, `streamRange`, `streamRead`, id parsing, completion, validation, printing |
| Blocking reads | `stream.c`, `command.c` | `stream_block_state`: one mutex and one condition for all streams | `handleXread`, `waitForStreamData(Infinite)`, `recheckStreams`, the broadcast in `streamAdd` |
| WAIT | `command.c` | `wait_state`: two counters, a mutex, a condition, shared by all clients | `handleWait`, `REPLCONF ACK` |
| Commands and transactions | `command.c`, `command_queue.c` | `in_transaction` and a queue per client | dispatch, `MULTI`, `EXEC`, `DISCARD`, the data commands |
| Replication, master side | `replicas.c`, `command.c` | replica list, `repl_offset` | `PSYNC`, `propagateCommand`, `addReplica`, `removeReplica` |
| Replication, replica side | `handshake.c`, `server.c` | connection to the master, `repl_offset` | `startReplication`, `handleReplicationCommands` |
| Client connections | `client_handler.c` | descriptor, receive buffer, transaction state | `handleClientConnection`, `handleClientData` |
| RESP | `resp.c` | growing buffer | incremental parser, serializers |
| RDB reader | `rdb.c` | a file position | scan for the database section, `GET`/`KEYS` from the file |
| Networking, configuration, logging | `networking.c`, `config.c`, `logger.c` | none of the protocol | socket calls, arguments, log output |

How they interact.  The accept loop gives each connection to the pool; the worker that
takes it stays with it until the client leaves, so at most eight clients are served at a
time.  All workers call the command handlers, which share the store, the streams, the
replica list and `wait_state`.  `storeSet` and `storeGet` take the store's rwlock; the
other store functions and the streams take no lock.  A write is propagated to the
replicas by the worker that executed it.  Acknowledgements of replicas arrive on the
replicas' own connections, hence in other workers, and reach `handleWait` through
`wait_state`.  Connections, workers and the replica list know each other by descriptor
number only, and any of them may close a number that the others still use.  A key that is
not in memory is looked for in the RDB file, which is read anew by each command.

What is hard here: wake-ups through condition variables (pool, XREAD, WAIT), a signal
handler that runs shutdown on the interrupted thread, unlocked insertion into linked
lists, state read before a wait and used after it, counters shared by commands of
different clients, read-modify-write commands in two locked calls, a replica list walked
while others change it, descriptor numbers used again after a close, writes that fail or
are short, commands cut in two, expiry by two clocks of different units, 64-bit ids with
wrap-around and a fixed print buffer, and a file reader that does not notice the end of its
file.  `PROJECT.json` lists 38 such places under `hazards`, with the
properties that watch them; where the code does go wrong, and a property can only say how far
it holds, a note names that property instead.

What makes each part correct:

* *Pool*: no connection is lost or served twice, no wake-up is lost, the stack never
  overflows, shutdown reaches every worker.
* *Store*: every key is found where its hash leads, whatever the growth; what is read was
  written; the count that decides growth is exact.
* *Streams*: ids increase; XRANGE and XREAD agree; a client that follows a stream misses
  and repeats nothing; sleepers are woken.
* *WAIT*: it is always answered, with no more replicas than answered it.
* *Commands and transactions*: what was queued is executed once, in order and not after
  DISCARD; a read-modify-write command loses nothing but to an overlapping write; every
  command is answered.
* *Replication*: a registered replica gets the writes, each once, a client's in order, and
  executes them; handshakes and propagation end whatever fails.
* *RDB*: GET and KEYS answer what the file holds, agree with each other, and end.

## 2. Modules

| Module | Models | Extends / instantiates |
|---|---|---|
| `TaskPool` | what the pool promises: a bounded stack, each connection to one worker | - |
| `ThreadPool` | `thread_pool.c` and the accept loop and signal handler of `main.c` | instance of `TaskPool` |
| `ThreadPoolProofs` | theorems about `ThreadPool` | `ThreadPool` |
| `StreamId` | stream ids: parse, compare, print | - |
| `Stream` | XADD, XRANGE, XREAD on one stream, commands one at a time | `StreamId` |
| `StreamProofs` | theorems about `StreamId` and `Stream` | `Stream` |
| `StreamLog` | what a stream promises its clients: a growing log, each client's piece without a gap | - |
| `XStream` | XADD and XREAD [BLOCK] of several threads, step by step | instance of `StreamLog` |
| `XStreamProofs` | theorems about `XStream` | `XStream` |
| `Values` | keys, string values and the 64-bit increment | - |
| `StoreTypes` | entries and clock of the store | `Values` |
| `KeyMap` | what the store does at present, seen as a plain map with expiry | `StoreTypes` |
| `RedisStore` | the hash table under SET, INCR, XADD, clearExpired | `StoreTypes`, instance of `KeyMap` |
| `RedisStoreProofs` | theorems about `RedisStore` | `RedisStore` |
| `Commands` | SET, SET PX, GET, INCR, MULTI, EXEC, DISCARD of several clients | `Values` |
| `CommandsProofs` | theorems about `Commands` | `Commands` |
| `WaitAck` | WAIT and REPLCONF ACK | - |
| `WaitAckProofs` | theorems about `WaitAck` | `WaitAck` |
| `Replication` | replica list, PSYNC, propagation, handshake, replica's command loop, descriptors | - |
| `ReplicationProofs` | theorems about `Replication` | `Replication` |
| `Rdb` | GET and KEYS from an RDB file, byte by byte | - |
| `RdbProofs` | theorems about `Rdb` | `Rdb` |
| `MC*` | the instances that TLC checks | the module they name |

Definitions named `<Operation>_<Change>` are deliberate faults: each is an operation as
it would be after a plausible mistake (a dropped signal, a missing reset), and stands
directly before the operation.  They are part of no specification; substituting one for
its operation must make TLC report the property that `PROJECT.json` pairs it with.

### ThreadPool

State: `tasks` (`pool->tasks[0..task_count-1]`), `running`, `lock` (owner of the mutex),
`pc` and `arg` per thread.  Thread 0 is the main thread, the others run `worker`.  A
critical section is two steps: taking the mutex, and the body up to the unlock or the
`pthread_cond_wait`; in between the code touches only what the mutex protects.
`while (pool->running)` is read without the mutex and is a step of its own.  A thread is
in a wait set exactly when its `pc` is `"wait"`; `SpuriousWakeup` takes it out without a
signal.  `Signal` interrupts the main thread at any of its points and runs
`threadPoolDestroy` there; if the main thread holds the mutex then, the handler waits for
its own thread (`DestroyLock` never becomes possible).  Connection numbers are
descriptors: a number is used again after its client left.

### StreamId and Stream

An id is a pair of numbers up to `IdMax` (`UINT64_MAX`)..  `generateStreamID` prints into 32
bytes, too few for two 20-digit numbers: what is stored and returned then lacks the last digits
of the sequence number..  The model keeps for each entry the id stored and the id that was meant;
that ids increase and that a follower misses nothing is stated for streams in which the two
agree (`NoneCut`), the other properties for all. `parseStreamID` marks an automatic sequence
number by `UINT64_MAX`, so an explicit one of that value is automatic too..  The clock of `XADD
*` is any number at any time..  A malformed id makes `handleXadd` read through NULL; the model
ends there..  The following client (`cursor`, `seen`) sends XREAD with the last id it was sent.

### XStream

The steps of `storeStreamAdd` and `streamAdd` (lookup, create, parse, check, test of the head,
link, tail, notify) and of `handleXread` (lookup, read, wait, recheck) with no lock between
them, as in the code..  The list is a heap of nodes with `next` pointers, so that lost links and
a NULL tail show..  `current` is the stream a lookup finds: a second stream created for the same
key hides the first..  Ids are plain numbers, since `Stream` has shown that they are totally
ordered..  The time limit of `waitForStreamData` may be invalid (`tv_nsec` without carry):
`ReadInvalidTime`.

`StreamLog` knows neither threads nor pointers, only the entries that clients see: one is added
behind all others, its id is returned once it can be read, and it is sent to a client after the
one before it.  `ImplementsLog` says that one writer and any readers implement it, with the list
that a look-up finds as the log.  It includes `AckedReadable`, which `xstream_race` violates.

### RedisStore and KeyMap

A bucket is the set of the entries on its chain.  `storeSet` grows the table before it
looks up its key, and keeps the expiry of an entry it overwrites.  `storeGet` compares
the expiry with milliseconds, `getValueType` and `clearExpired` compare the same number
with seconds; both are in the model.  The expiry of a new stream is uninitialised memory:
any member of `Garbage`.  INCR wraps at `MaxInt` as the build does.  XADD on a string
uses the string as a stream: the model ends (`alive = FALSE`).  Nothing calls `serverCron`; the
model lets it happen at any time.  The properties are about `storeGet`, that is, about what is
in memory.  GET's look into the RDB file when `storeGet` finds nothing is in `Commands` and
`Rdb`: there GET may answer a value after an expiry, and TYPE does not know the key.

`KeyMap` has no buckets; `ImplementsKeyMap` says that `RedisStore` behaves like it, so that
growth and shared chains do not show.  It records what the store does, not what it should do:
that a write keeps an expiry which has passed is in it, and is what `store_ttl` reports.

### WaitAck

`handleWait` writes GETACK to each replica (one step each), resets the counters under the
mutex, waits once on the condition, and sleeps out its time with the mutex held.  The
mutex is a variable because of that sleep; every other section is one step.  A GETACK and
its ACK carry the number of the WAIT that asked, which no action reads: the properties
use it to tell a late answer from a fresh one.  Replicas register (`addReplica`) at any time,
also while a WAIT walks their list; `repl_offset` is 0 until something was written to one of
them.  `ReplicaAnswers` is external: a replica of another make that answers GETACK.  The one of
this program throws GETACK away like every other command (finding 4).

### Commands

`storeSet` and `storeGet` hold the rwlock for the whole call and are one step each;
`setExpiry` takes no lock and is a step of its own.  INCR is therefore a read and a write
(`IncrRead`, `IncrWrite`), SET PX a write and an expiry (`handleSet`, `SetExpiry`), and EXEC a
loop whose commands other clients' steps go between.  `cur` is the command that
`executeCommand` runs, `pos` the index of EXEC's loop.  `handleExec` leaves the transaction
before it runs the queue, which is why its commands are not queued again.  EXEC hands the
answers to `parseResponseToRespValue`, which dereferences NULL for a command that answers
nothing and leaves the value of a nil uninitialised: the first ends the server, the second may
(`Answer`).  `queued`, `ran`, `dropped` and `overlapped` are history: no action reads them,
except that `queued` bounds the run.  A client's leaving inside a transaction is `handleDiscard`.

### Replication

`desc` is the master's descriptor table; a worker (`fd`), the replica list (`slots`,
`replica_count`) and the propagation loop (`shut`) hold numbers, and a number that was closed
is given to the next connection (`Connect` takes the lowest free one, as the kernel does).
`freeClientState` closes its number and leaves it on the replica list; a failed write makes
`propagateCommand` close a number that belongs to another worker.  All the misdeliveries that
follow are in the model.  The workers' steps are those between which another thread may see a
difference: `addReplica` reads the count (`RecvPsync`) and writes slot and count later;
`propagateCommand` is one step per replica and one more between a failed write and the
removal; the array behind the list keeps its old contents, since an `addReplica` under way may
use them.  A command is two units, so that a short write or a `recv` may cut it; what
`parseArray` then frees is uninitialised, so that the replica crashes or goes on
(`ReceiveHeader`, `ReceiveCrash`).  The sockets of the master are non-blocking, those of the
replica blocking (`readLine`, `writeExactly`).  A write to a peer that has gone may raise
SIGPIPE, which ends the master (`BrokenPipe`).  `calm` is history: it holds until a replica
leaves, a write fails or is short, or two PSYNCs overlap.

### Rdb

`content` is what a file was made from, `file` its bytes as Redis writes them (external: the
format), possibly with the end lost.  The reader sees only `file` and `pos`.  GET runs first,
then KEYS, each through the same header check, scan and entry loop, one turn per step.  A
coded string counts as length 0 and its bytes are read as what comes next; the byte after the
database number is consumed whether or not it announces table sizes; `readUint32` turns the
bytes of the file round, `readUint64` does not; at the end of the file every byte is 0.  Magic
and version have one byte each, and integers two, so that a number read at a wrong place is
still small.  A `Plain` file, of which `AnswersPlain` speaks, has strings short enough for a
length of one byte, none of them coded and no value empty, each key once, and expiries in
milliseconds.

## 3. Runs

| Run | Configuration | What it shows |
|---|---|---|
| `thread_pool` | `MCThreadPool.cfg` | two workers, accept loop, spurious wake-ups, a signal anywhere: `NoLostWakeup`, `SleepsOnlyWhenFull`, `OneOwner`, refinement of `TaskPool`, and liveness (`ServingNeverStops`, `AcceptResumes`, `ShutdownCompletes`) |
| `stream` | `MCStream.cfg` | every mix of id forms, a jumping clock, exhausted and cut ids: `IdsIncrease`, `AutoIdAccepted`, `RangeAgreesWithRead`, `FollowerSeesPrefix`, `FollowerCatchesUp` |
| `xstream` | `MCXStream.cfg` | one writer, two blocking readers: the list is sound at every step of an insertion (refinement of `StreamLog`, `FollowerSkipsNothing`), every sleeper is woken and answered (`NoSleeperForgotten`, `TimedReadReturns`, `SleeperAnswered`) |
| `xstream_race` | `MCXStreamRace.cfg` | *violation*: two XADDs at a time lose an acknowledged entry |
| `store` | `MCRedisStore.cfg` | two keys in one bucket, two growths, expiry, `clearExpired`: `KeyFindable`, `UsedIsCount`, `StoreGetImpliesType`, `StoreGetOnlyByWriteOrExpiry`, refinement of `KeyMap` |
| `store_ttl` | `MCRedisStoreTtl.cfg` | *violation*: SET after the key's time to live has run out stores a value that `storeGet` does not find |
| `wait` | `MCWaitAck.cfg` | two clients, two replicas that register at any time, late or missing answers: `CountsOwnReplicas`, `WaitReturns`, `AcksHandled` |
| `wait_signal` | `MCWaitAckSignal.cfg` | *violation*: WAIT 2 is signalled after one acknowledgement |
| `commands` | `MCCommands.cfg` | two clients, transactions and single commands interleaved: `ExecExactlyOnce`, `IncrAddsOne`, `EveryCommandAnswered` |
| `replication` | `MCReplication.cfg` | registrations, writes and every kind of fault interleaved: `StreamFaithful` while nothing fails, `HandshakeEnds` and `PropagationEnds` whatever fails |
| `replication_applied` | `MCReplicationApplied.cfg` | *violation*: a replica parses the commands it is sent and executes none |
| `rdb` | `MCRdb.cfg` | some 5,000 files, plain, odd and cut off: `AnswersPlain`, `GetImpliesKeys`, `CommandsReturn` |

### Bounds

* `thread_pool`: two workers are the fewest for one to steal what the other was woken
  for; the stack then has four slots.  Five connections are enough for four queued and one
  in the accept loop's hand, so that it waits, and for two served with three queued.  The
  proofs lift this to any number.
* `stream`: numbers up to 4, printed in base 2, of which five characters are kept.  So
  sequence numbers are exhausted, ids are cut, and a cut id has entries on both sides
  within three entries.
* `xstream`: three entries let a reader fall behind by more than one reply; two readers
  are needed to tell a broadcast from a signal.  What the single writer hides of
  `TypeOK` and `NoSleeperForgotten` is left to their proofs, which hold for any number.
* `store`: a table of one bucket grows twice with two keys (and XADD, which inserts
  without growing, takes it over the threshold); numbers have two bits; a time to live of
  one tick runs out before the clock stops.
* `wait`: two WAITs overlap or follow each other; `CountMod = 8` is above the four
  answers that can come, so only `remaining_count` wraps, as in the code.
* `commands`: one key is enough for every conflict, as commands on different keys share
  nothing; the first client queues two commands, in one transaction or in two, the other one,
  and both send any number of single ones; numbers have two bits, so INCR wraps.
* `replication`: three descriptors are enough for all peers of a cast at once, and a fault
  frees one.  One cast has two writers, whose loops may meet the same lost replica, and one
  fault of any kind; the other has two replicas, whose registrations may overlap with each
  other and with a loop under way, and none.  Two writes are the fewest that can change places.
* `rdb`: two keys show whether a wrong position after the first is noticed at the second; the
  expiries are chosen so that their bytes give a different number in the other order; one
  family of files is cut at every byte.

### Fairness

* `thread_pool`: a thread that can take its next step does (the scheduler); a mutex that
  is released again and again is acquired in the end (strong fairness on the lock steps;
  without it endless spurious wake-ups of others could starve a thread).  Nobody has to connect,
  no signal has to come, and no worker has to come back from its client: the code does not see
  to that, since `handleClientData` never tests `running` and XREAD BLOCK 0 or the scan of a
  damaged RDB file outlast even the client.  That workers do come back (`HandlersReturn`) is
  a premise of `ServingNeverStops`, `AcceptResumes` and of the second half of
  `ShutdownCompletes`, that the process exits.  The first half has no premise: once `running`
  is 0, every worker that is not in a handler ends, whatever the others do.
* `stream`: the following client keeps polling.
* `xstream`: a command that was started goes on and a time limit ends.  Nobody has to send
  a command, and `BLOCK 0` alone never ends a wait.
* `wait`: a WAIT goes on, its timeout ends its wait and its sleep, and an acknowledgement
  that arrived is handled when the mutex is free.  Weak fairness is enough, since each
  WAIT takes the mutex for its sleep only once.  Replicas need not answer.
* `commands`: a command that was started goes on; no step here waits for another client for
  longer than a locked call.  Nobody has to send a command.
* `replication`: the master takes steps as long as one of its workers can, and so do the
  replicas.  That is less than fairness to each thread, and enough: commands, peers and faults
  are finite, so only an endless loop could keep the others from their turn.  Nobody has to
  connect, to send or to fail.
* `rdb`: the worker that reads goes on.

`CHECK_DEADLOCK FALSE` is set where the system may stop: after exit or a handler that waits
for its own thread (pool), after a crash (streams, store, commands, a killed master), when all
readers sleep, when all WAITs or both RDB commands are answered, when clients and replicas
have nothing more to say.

## 4. Proofs

All theorems hold for every value of the constants under the named `ASSUME`s of the
modules, which TLC evaluates on the instances above.

**ThreadPoolProofs** (any number of workers and connections).  `NoLostWakeup` is not
inductive as it stands: the inductive invariant adds which threads have a connection in hand
(`HandsOK`) and that the pool runs until the handler stops it (`RunningOK`), and the argument
is about the cardinality of the set of contending workers: a push adds a task and either
wakes a sleeper, who joins them, or finds none; a pop removes a task and a contender.  From it:
`TypeCorrect`, `WakeupsKept`, `AcceptSleepsOnlyWhenFull`, `SingleOwnership`, and
`Refinement`: every step maps to a step of `TaskPool` or to a stutter.

**StreamProofs** (numbers of any width, any base and buffer).  `compareStreamIDs` is a total
order and `isIdInRange` is its interval (`RangeIsInterval`), from which
`RangeAlwaysAgreesWithRead` follows.  A cut id is a number of the same width, since cutting
takes digits away (`TypeCorrect`).  The invariant adds to `IdsIncrease` that the follower's
cursor is the id of the last entry it was sent, from which `FollowerMissesNothing` follows.
`AutomaticIdsWork` needs no more than types and holds behind cut ids too.

**RedisStoreProofs** (any keys, hash function, initial size, clock and bounds).  The
invariant `Good(store)` says that every entry is placed where its hash leads, a key has one
entry, and `used` is the cardinality of all entries.  `Placed` is what makes a lookup, which
walks one chain, find what is in the whole table; growth changes the chains and keeps the
set of entries, so from there on the argument is about that set.  Theorems: `TypeCorrect`,
`AlwaysFindable`, `UsedExact`, `Refinement` of `KeyMap`, `TypeAgreesWithStoreGet`, and
`StoreGetExplained`: what `storeGet` finds comes about by a write of it, and goes away only when
the clock reaches its expiry.  For the second half (`VanishStep`) a write to the key leaves a
string whose expiry is the old one or still to come, other keys' commands leave the entry alone,
and `clearExpired`, which counts in seconds, takes nothing that is readable.

**XStreamProofs** (any number of readers and entries).  `TypeCorrect` holds for any number of
writers: a pointer that some step follows is NULL or leads to an allocated entry.  So does
`BroadcastsReach`: a reader that sleeps although its list has grown has a broadcast to come.
`NoSleeperForgotten` is inductive with the types; what has to be shown is that a list changes
only by the link of a writer, which has then still to notify, and that new streams and entries
that are not linked leave every walk as it is.  Everything
else is about one writer at a time, as two lose entries (`xstream_race`).  The invariant
(`ChainOK`) says that the entries form a chain in the order of their allocation and of their
ids, all of them linked but the one that the writer has just allocated, with the tail one
behind between the two assignments of `streamAdd`, and that what the writer's test of the head
found is still so when it links; and that each client has been sent
neighbours of that chain (`FollowOK`).  From it: `OneWriterReadable`, `OneWriterFollowed`,
`OneWriterNoCrash`.  What a walk over the list meets is a recursive function; its facts are
proved by the least place at which they would fail.  `Refinement`: under the same invariant the
log of `StreamLog` is the chain, each entry with its id.  The link of an entry is the step
`Add`, the return of its id `Acknowledge`, a reply with an entry `Send`, and all others are
stutters; that a client's next entry is the neighbour of its last one is `FollowOK`.

**CommandsProofs** (any clients, keys, values and number of transactions).  Each queued
command has a number.  The invariant says that the queue holds the last numbers given, in
order, and that `ran` and `dropped` share out the others (`NumbersOK`), together with where a
client is in EXEC's loop (`PlaceOK`): `TransactionsExact`.  That what INCR has read is still
stored unless another client wrote the key (`ReadOK`) gives `IncrCounts`, an action property.

**WaitAckProofs** (any number of clients, replicas and WAITs, any width of the counters)..  A
WAIT that nothing disturbs is alone, each of its requests or answers exists once
(`NumbersDiffer`, `AskedOnce`, `NotYetAsked`, whether or not the list has grown under its
loop), and `acks_received` is at most the number of replicas whose answer it has got, which
have nothing under way any more (`QuietOK`): `CountsOwn`.

**ReplicationProofs** (any number of replicas, clients, descriptors, commands and faults).
`TypeCorrect` includes that the propagation loop and `addReplica` stay inside the list,
whatever is closed and used again.  `StreamsFaithful` is about a master that is `calm`; calm
never comes back, so its invariant has to be kept by the steps that keep calm.  Its parts: each
worker has its own connection (`DescOK`); the list has one place for each registered replica
(`SlotsOK`); a replica that shakes hands and its worker have one request or one answer between
them (`HandshakeOK`); a loop under way propagates the last write of its client (`LoopsOK`); and
a replica gets, from its registration on, each write that no loop has still to bring it, and
none from a loop that has not passed its place (`StreamsOK`).  The last is what makes loops of
several workers, which overtake each other, harmless to the order of each one's writes.

**RdbProofs** (files of any bytes and any length).  GET and KEYS never run at the same time,
so their positions cannot be compared state by state.  The proof gives each reader a place (its
step, position, type and key) and follows KEYS from place to place.  A place is reachable from
another if it is in every set that holds the other and that KEYS does not leave.  While GET
runs, it is at a place that KEYS can reach from the start; when it finds its key, that place is
kept, and KEYS is always before it or has listed the key.  KEYS ends only at a place with
nothing behind it: `GetFindsWhatKeysLists`.

`PlainFilesAreRead` is about files made from any number of entries, keys and values of any
length below the one-byte limit and integers of any number of bytes.  `Layout` says what lies
where in such a file, cut behind its entries or not; `PlainOK` says, for each stage of a reader,
before which entry it is and that it has met exactly the keys of those before.  Each step reads
what `Layout` puts under it and comes to the next entry, or to the end behind the last one; GET
stops before that at its key, which is there once.  Two inductions are below this: `FileBytes`
joins the entries from the last to the first, and `LittleEndian` splits a number by quotients
that the reader puts together again (`RoundTrip`).  The provers take no induction rule over
predicates, so both use `Induction`, the same rule for the set of the numbers that satisfy one,
and `Recursion`, which gives a recursive function its defining equation.

Only model-checked:

* Liveness, which is out of the prover's reach: `ServingNeverStops`, `AcceptResumes`,
  `ShutdownCompletes`, `FollowerCatchesUp`, `TimedReadReturns`, `SleeperAnswered`,
  `WaitReturns`, `AcksHandled`, `EveryCommandAnswered`, `HandshakeEnds`, `PropagationEnds`,
  `CommandsReturn`.
* The properties that the code violates, in the runs that show it.

## 5. Findings

1. `xstream_race`: `storeStreamAdd` and `streamAdd` take no lock, although the repository's
   README speaks of thread-safe access by read-write locks: of two XADDs that create a key,
   one is answered with an id and its entry is gone.
2. `store_ttl`: `storeSet` keeps an expiry that has passed; a later SET answers OK and its
   value cannot be read.
3. `wait_signal`: the ACK handler compares the counter that goes up with the one that goes
   down, so "Required ACKs received" is announced half way; WAIT then sleeps with the mutex
   held and does not count the answers that arrive meanwhile.

4. `replication_applied`: the replica executes a command only if its name is a simple string,
   and the parser makes bulk strings: replication transports every write and applies none.

The models also contain, without a run of their own:

* the signal handler that waits for its own thread's mutex, and the `pthread_join` that waits for
  a worker which stays with its client (both excluded in the premises of `ShutdownCompletes`);
* the crash of XADD with a malformed id or on a string; the XREAD that misses an entry added
  between its read and its wait;
* an ACK that arrives between GETACK and the reset and is wiped out, and the late ACK that
  counts for a later WAIT;
* the INCR lost to an overlapping write, the expiry of SET PX that falls on another client's
  value, and the crash of EXEC on a nil or a missing answer;
* the replica registered before FULLRESYNC is sent, which ends when a write overtakes it;
  commands written to a client that has got a lost replica's number; a replica that spins on a
  stray reply or reads on at the wrong place after a short write; a master killed by SIGPIPE;
* the scan of an RDB file cut off before its database section, which never ends
  (excluded in the premise of `CommandsReturn`).

## 6. Not modelled

* Undefined behaviour without a bounded set of outcomes: the unlocked walk of the table during
  a growth, the use of the replica array while another thread moves it with `realloc`.
* Allocation failure; a second signal during shutdown; a wall clock set back between store
  commands; the `MAX_CLIENTS` limit; the write-only fields `has_new_data` and `completed`;
  `readEncodedString`, which has no caller.
* XREAD of several streams, and SET or INCR that replaces a stream under a blocked reader:
  they multiply the states of `XStream` beyond the time of a run.
* The load of `stream->tail` and the store to `tail->next`, which `XStream` takes as one step.
* XADD, XREAD, WAIT and KEYS inside a transaction.
* A replica that leaves the list during a WAIT, and a list that has become empty again (there
  `handleWait` asks fewer replicas and runs out its time); `Replication` has replicas that leave.
* In `Replication`, a client's request that `recv` cuts at the master (on the replica's side,
  where the same parser runs, it is modelled), and a reply that `send` writes in part.
* INCR at `LLONG_MAX` is undefined in C.  `Succ64` wraps, as the build does: the number is only
  incremented and printed, so nothing is concluded from it.
* Clients of a replica.  (A replica has no replica list, and INCR or XADD there passes NULL to
  `propagateCommand`.)
* The byte layout of RESP; a command is two units.  RDB lengths of 14 and 32 bits are read, but
  no file of the run is long enough to need one.
* Socket set-up, command-line arguments and logging: I/O without protocol state.

## 7. Plan

Every safety property of the passing runs, and every refinement they check, is proved.  What
is left:

1. *Replication*: which parts of the invariant survive the loss of a replica, so that
   `StreamFaithful` can be stated for the replicas that a fault does not touch.
2. *XStream*: XREAD of several streams, and SET of a key that a reader waits for, at bounds
   that TLC can still do.
3. *Commands*: XADD and WAIT inside a transaction.
