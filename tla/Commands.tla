------------------------------ MODULE Commands ------------------------------
(***************************************************************************)
(* executeCommand of app/command.c for several clients at once: SET, INCR  *)
(* and GET as the steps between which the store's lock is free, and MULTI, *)
(* EXEC and DISCARD with the queue of app/command_queue.c.                 *)
(*                                                                         *)
(* storeSet and storeGet hold the rwlock and are one step each; setExpiry  *)
(* takes no lock and is a step of its own.  A command that is unknown or   *)
(* has a wrong number of arguments is answered with an error and leaves    *)
(* no trace, inside a transaction too.  Propagation to replicas, which     *)
(* follows a write, is in module Replication.                              *)
(***************************************************************************)
EXTENDS Values, Sequences, SequencesExt

CONSTANTS Clients,
          None,        \* no value
          SetValues,   \* the strings that clients send with SET
          FileKeys,    \* keys that the RDB file holds
          MaxQueued    \* bound: how often each client is told QUEUED

ASSUME NoneAssumption == None \notin Strings
ASSUME SetValuesAssumption == SetValues \subseteq Strings
ASSUME FileKeysAssumption == FileKeys \subseteq Keys
ASSUME MaxQueuedAssumption == MaxQueued \in [Clients -> Nat]

VARIABLES db,          \* key -> value and expiry in memory
          in_transaction, queue,  \* ClientState
          pc,          \* where the client's worker is
          cur,         \* the command that executeCommand runs
          pos,         \* the index in EXEC's loop plus one, 0 outside EXEC
          read,        \* what INCR has read
          alive,       \* FALSE once the server has crashed
          queued,      \* how often the client was told QUEUED
          ran,         \* numbers of the queued commands that EXEC has run
          dropped,     \* numbers of the queued commands thrown away
          overlapped   \* another client wrote the key since INCR read it

history == <<queued, ran, dropped>>
connVars == <<in_transaction, queue>>
vars == <<db, connVars, pc, cur, pos, read, alive, history, overlapped>>

Command == [op : {"SET", "SETPX"}, key : Keys, val : SetValues]
             \cup [op : {"INCR", "GET", "ACK"}, key : Keys, val : {None}]

Init ==
    /\ db = [k \in Keys |-> [value |-> None, expiry |-> "never"]]
    /\ in_transaction = [c \in Clients |-> FALSE]
    /\ queue = [c \in Clients |-> <<>>]
    /\ pc = [c \in Clients |-> "idle"]
    /\ cur \in [Clients -> {None}]
    /\ pos = [c \in Clients |-> 0]
    /\ read = [c \in Clients |-> None]
    /\ alive = TRUE
    /\ queued = [c \in Clients |-> 0]
    /\ ran = [c \in Clients |-> <<>>]
    /\ dropped = [c \in Clients |-> {}]
    /\ overlapped = [c \in Clients |-> FALSE]

-----------------------------------------------------------------------------
(* The store, one locked call *)

\* storeGet finds a value that has not expired.
Visible(k) == db[k].value # None /\ db[k].expiry # "past"

\* storeSet keeps the expiry of the entry.
storeSet(c, k, v) ==
    /\ db' = [db EXCEPT ![k] = [value |-> v, expiry |-> db[k].expiry]]
    /\ overlapped' = [d \in Clients |->
          d # c /\ (overlapped[d] \/ (pc[d] = "incr" /\ cur[d].key = k))]

\* The time of an expiry passes.
Expire(k) ==
    /\ db[k].expiry = "later"
    /\ db' = [db EXCEPT ![k] = [value |-> db[k].value, expiry |-> "past"]]
    /\ UNCHANGED <<connVars, pc, cur, pos, read, alive, history, overlapped>>

-----------------------------------------------------------------------------
(* Transactions *)

\* The command is cloned into the queue.
queueCommand(c, cmd) ==
    /\ queued' = [queued EXCEPT ![c] = @ + 1]
    /\ queue' = [queue EXCEPT ![c] =
          Append(@, [op |-> cmd.op, key |-> cmd.key, val |-> cmd.val, tag |-> queued'[c]])]

clearCommandQueue(c) == queue' = [queue EXCEPT ![c] = <<>>]

\* The queue is cleared without running it.  A client that leaves inside a
\* transaction has the same effect: freeClientState frees the queue, and its
\* next connection starts without one.
handleDiscard(c) ==
    /\ pc[c] = "idle" /\ in_transaction[c]
    /\ in_transaction' = [in_transaction EXCEPT ![c] = FALSE]
    /\ clearCommandQueue(c)
    /\ dropped' = [dropped EXCEPT ![c] = @ \cup {queue[c][i].tag : i \in 1..Len(queue[c])}]
    /\ UNCHANGED <<db, pc, cur, pos, read, alive, queued, ran, overlapped>>

\* MULTI inside a transaction answers OK and changes nothing.
handleMulti(c) ==
    /\ pc[c] = "idle" /\ ~in_transaction[c]
    /\ in_transaction' = [in_transaction EXCEPT ![c] = TRUE]
    /\ UNCHANGED <<db, queue, pc, cur, pos, read, alive, history, overlapped>>

\* EXEC: from here executeCommand runs commands instead of queueing them.
handleExec(c) ==
    /\ pc[c] = "idle" /\ in_transaction[c]
    /\ in_transaction' = [in_transaction EXCEPT ![c] = FALSE]
    /\ pos' = [pos EXCEPT ![c] = 1]
    /\ pc' = [pc EXCEPT ![c] = "exec"]
    /\ UNCHANGED <<db, queue, cur, read, alive, history, overlapped>>

\* The head of EXEC's loop.
ExecNext(c) ==
    /\ pc[c] = "exec" /\ pos[c] <= Len(queue[c])
    /\ cur' = [cur EXCEPT ![c] = queue[c][pos[c]]]
    /\ pc' = [pc EXCEPT ![c] = "run"]
    /\ UNCHANGED <<db, connVars, pos, read, alive, history, overlapped>>

\* Mutant: the queue survives EXEC.
ExecEnd_KeepQueue(c) ==
    /\ pc[c] = "exec" /\ pos[c] > Len(queue[c])
    /\ pos' = [pos EXCEPT ![c] = 0]
    /\ pc' = [pc EXCEPT ![c] = "idle"]
    /\ UNCHANGED <<db, connVars, cur, read, alive, history, overlapped>>

\* The array of answers is sent and the queue cleared.
ExecEnd(c) ==
    /\ pc[c] = "exec" /\ pos[c] > Len(queue[c])
    /\ pos' = [pos EXCEPT ![c] = 0]
    /\ clearCommandQueue(c)
    /\ pc' = [pc EXCEPT ![c] = "idle"]
    /\ UNCHANGED <<db, in_transaction, cur, read, alive, history, overlapped>>

-----------------------------------------------------------------------------
(* executeCommand *)

\* A client's command is queued or run.
executeCommand(c) ==
    /\ pc[c] = "idle"
    /\ \E cmd \in Command :
          \/ /\ in_transaction[c] /\ queued[c] < MaxQueued[c]
             /\ queueCommand(c, cmd)
             /\ UNCHANGED <<pc, cur>>
          \/ /\ ~in_transaction[c]
             /\ cur' = [cur EXCEPT ![c] = cmd]
             /\ pc' = [pc EXCEPT ![c] = "run"]
             /\ UNCHANGED <<queue, queued>>
    /\ UNCHANGED <<db, in_transaction, pos, read, alive, ran, dropped, overlapped>>

\* The handler returns its answer.  EXEC passes it to parseResponseToRespValue,
\* which reads through NULL for a command without one, and which leaves the
\* value uninitialised for a nil: what createRespArrayFromElements makes of
\* that may be a nil or a crash.
Answer(c, kind) ==
    \/ /\ pos[c] = 0
       /\ pc' = [pc EXCEPT ![c] = "idle"]
       /\ cur' = [cur EXCEPT ![c] = None]
       /\ UNCHANGED <<pos, ran, alive>>
    \/ /\ pos[c] > 0 /\ kind # "nothing"
       /\ pc' = [pc EXCEPT ![c] = "exec"]
       /\ cur' = [cur EXCEPT ![c] = None]
       /\ pos' = [pos EXCEPT ![c] = @ + 1]
       /\ ran' = [ran EXCEPT ![c] = Append(@, cur[c].tag)]
       /\ UNCHANGED alive
    \/ /\ pos[c] > 0 /\ kind \in {"nil", "nothing"}
       /\ alive' = FALSE
       /\ UNCHANGED <<pc, cur, pos, ran>>

\* SET; with PX the expiry is still to be set.
handleSet(c) ==
    /\ pc[c] = "run" /\ cur[c].op \in {"SET", "SETPX"}
    /\ storeSet(c, cur[c].key, cur[c].val)
    /\ \/ /\ cur[c].op = "SET"
          /\ Answer(c, "ok")
       \/ /\ cur[c].op = "SETPX"
          /\ pc' = [pc EXCEPT ![c] = "px"]
          /\ UNCHANGED <<cur, pos, ran, alive>>
    /\ UNCHANGED <<connVars, read, queued, dropped>>

\* The second half of SET PX.
SetExpiry(c) ==
    /\ pc[c] = "px"
    /\ db' = [db EXCEPT ![cur[c].key] = [value |-> @.value, expiry |-> "later"]]
    /\ Answer(c, "ok")
    /\ UNCHANGED <<connVars, read, queued, dropped, overlapped>>

\* GET: memory first, then the RDB file, also for a key that has expired in
\* memory.
handleGet(c) ==
    /\ pc[c] = "run" /\ cur[c].op = "GET"
    /\ LET k == cur[c].key
       IN  Answer(c, IF Visible(k) \/ k \in FileKeys THEN "value" ELSE "nil")
    /\ UNCHANGED <<db, connVars, read, queued, dropped, overlapped>>

\* REPLCONF ACK stands for the commands that answer nothing.
handleReplConfAck(c) ==
    /\ pc[c] = "run" /\ cur[c].op = "ACK"
    /\ Answer(c, "nothing")
    /\ UNCHANGED <<db, connVars, read, queued, dropped, overlapped>>

\* Mutant: a string that is not a number gets no answer.
IncrRead_NoError(c) ==
    /\ pc[c] = "run" /\ cur[c].op = "INCR"
    /\ LET k == cur[c].key
       IN  /\ Visible(k) => db[k].value # Text
           /\ read' = [read EXCEPT ![c] = IF Visible(k) THEN db[k].value ELSE None]
           /\ overlapped' = [overlapped EXCEPT ![c] = FALSE]
           /\ pc' = [pc EXCEPT ![c] = "incr"]
    /\ UNCHANGED <<db, connVars, cur, pos, alive, history>>

\* Mutant: the digits are not looked at.
IncrRead_NoCheck(c) ==
    /\ pc[c] = "run" /\ cur[c].op = "INCR"
    /\ LET k == cur[c].key
       IN  /\ read' = [read EXCEPT ![c] = IF Visible(k) THEN db[k].value ELSE None]
           /\ overlapped' = [overlapped EXCEPT ![c] = FALSE]
           /\ pc' = [pc EXCEPT ![c] = "incr"]
    /\ UNCHANGED <<db, connVars, cur, pos, alive, history>>

\* INCR reads; a string that is not a number is an error.
IncrRead(c) ==
    /\ pc[c] = "run" /\ cur[c].op = "INCR"
    /\ LET k == cur[c].key
       IN  \/ /\ Visible(k) /\ db[k].value = Text
              /\ Answer(c, "error")
              /\ UNCHANGED <<read, overlapped>>
           \/ /\ Visible(k) => db[k].value # Text
              /\ read' = [read EXCEPT ![c] = IF Visible(k) THEN db[k].value ELSE None]
              /\ overlapped' = [overlapped EXCEPT ![c] = FALSE]
              /\ pc' = [pc EXCEPT ![c] = "incr"]
              /\ UNCHANGED <<cur, pos, ran, alive>>
    /\ UNCHANGED <<db, connVars, queued, dropped>>

\* Mutant: the number is written back as it was read.
IncrWrite_NoAdd(c) ==
    /\ pc[c] = "incr"
    /\ storeSet(c, cur[c].key, IF read[c] = None THEN 1 ELSE read[c])
    /\ read' = [read EXCEPT ![c] = None]
    /\ Answer(c, "integer")
    /\ UNCHANGED <<connVars, queued, dropped>>

\* INCR writes what it has read plus one, or "1".
IncrWrite(c) ==
    /\ pc[c] = "incr"
    /\ storeSet(c, cur[c].key, IF read[c] = None THEN 1 ELSE Succ64(read[c]))
    /\ read' = [read EXCEPT ![c] = None]
    /\ Answer(c, "integer")
    /\ UNCHANGED <<connVars, queued, dropped>>

-----------------------------------------------------------------------------

ClientStep(c) ==
    \/ executeCommand(c) \/ handleMulti(c) \/ handleExec(c) \/ handleDiscard(c)

WorkerStep(c) ==
    \/ ExecNext(c) \/ ExecEnd(c)
    \/ handleSet(c) \/ SetExpiry(c) \/ handleGet(c) \/ handleReplConfAck(c)
    \/ IncrRead(c) \/ IncrWrite(c)

Next ==
    /\ alive
    /\ \/ \E c \in Clients : ClientStep(c) \/ WorkerStep(c)
       \/ \E k \in Keys : Expire(k)

Spec == Init /\ [][Next]_vars

\* A command that was started goes on: nothing a worker does here waits for
\* another client longer than one locked call.  Nobody has to send a command.
FairSpec == Spec /\ \A c \in Clients : WF_vars(alive /\ WorkerStep(c))

-----------------------------------------------------------------------------
(* Properties *)

Tagged == [op : {"SET", "SETPX", "INCR", "GET", "ACK"}, key : Keys,
           val : SetValues \cup {None}, tag : Nat \ {0}]

\* What ClientState, the store and the worker hold.
TypeOK ==
    /\ db \in [Keys -> [value : Strings \cup {None}, expiry : {"never", "later", "past"}]]
    /\ in_transaction \in [Clients -> BOOLEAN]
    /\ queue \in [Clients -> Seq(Tagged)]
    /\ pc \in [Clients -> {"idle", "exec", "run", "px", "incr"}]
    /\ cur \in [Clients -> Command \cup Tagged \cup {None}]
    /\ pos \in [Clients -> Nat]
    /\ read \in [Clients -> (Strings \ {Text}) \cup {None}]
    /\ alive \in BOOLEAN
    /\ queued \in [Clients -> Nat]
    /\ ran \in [Clients -> Seq(Nat)]
    /\ dropped \in [Clients -> SUBSET Nat]
    /\ overlapped \in [Clients -> BOOLEAN]

\* Whatever a client was told is QUEUED is run by its EXEC once, in the order
\* of sending, or never if it was discarded, and nothing of it is left over
\* for a later transaction; across any number of transactions, with the
\* commands of other clients in between.
ExecExactlyOnce ==
    \A c \in Clients :
        /\ \A i, j \in DOMAIN ran[c] : i < j => ran[c][i] < ran[c][j]
        /\ Range(ran[c]) \cap dropped[c] = {}
        /\ pc[c] = "idle" /\ ~in_transaction[c]
              => Range(ran[c]) \cup dropped[c] = 1 .. queued[c]

\* INCR reads and writes in two locked calls.  It still raises the number that
\* is stored by one, unless another client wrote the key in between: a lost
\* INCR needs an overlap.
IncrAddsOne ==
    [][\A c \in Clients :
          /\ pc[c] = "incr" /\ pc'[c] # "incr"
          /\ ~overlapped[c]
          => db'[cur[c].key].value =
                IF read[c] = None THEN 1 ELSE Succ64(db[cur[c].key].value)]_vars

\* Every command is answered, EXEC after all that it runs, unless the server
\* crashes.
EveryCommandAnswered ==
    \A c \in Clients : pc[c] # "idle" ~> (pc[c] = "idle" \/ ~alive)

=============================================================================
