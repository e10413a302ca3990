---------------------------- MODULE Replication -----------------------------
(***************************************************************************)
(* A master with its replica list (app/replicas.c), the workers that serve *)
(* its connections (app/client_handler.c), and the replicas' side: the     *)
(* handshake (app/handshake.c) and the command loop (app/server.c).        *)
(*                                                                         *)
(* Everything on the master goes by descriptor number: a worker keeps the  *)
(* number of its connection, the replica list holds numbers, and a number  *)
(* that was closed is given to the next connection.  A command travels as  *)
(* two units, its array header and its elements, so that a short write or  *)
(* a receive may cut it in two; a reply is one unit.  No module of the     *)
(* code restarts a replica: a new process is another member of Replicas.   *)
(*                                                                         *)
(* Covered: peers that leave at any time, write() that fails or writes     *)
(* less than asked (the sockets are non-blocking), SIGPIPE, descriptors    *)
(* used again, commands cut in two.  Left out: GETACK (module WaitAck),    *)
(* and the instruction-level race of the list's realloc.                   *)
(***************************************************************************)
EXTENDS Integers, Sequences, SequencesExt

CONSTANTS Replicas,    \* replica processes
          Writers,     \* clients that send SET to the master
          Closed,      \* the table entry of a descriptor that is not open
          NumFds,      \* descriptors
          Casts        \* the bounds: who takes part, how many commands clients send
                       \* in all, and how many faults there are, which are writes
                       \* that fail or are short and peers that leave or crash

Peers == Replicas \cup Writers
Fds == 1 .. NumFds

ASSUME PeersAssumption == Replicas \cap Writers = {} /\ Closed \notin Peers
ASSUME NumFdsAssumption == NumFds \in Nat \ {0}
ASSUME CastsAssumption == Casts \subseteq [peers : SUBSET Peers, writes : Nat, faults : Nat]

VARIABLES desc,        \* the master's descriptor table
          slots, replica_count,   \* the replica list: its array and its length
          repl_offset, \* the master's
          alive,       \* the master runs
          peer,        \* the peer's end of a connection: "new", "up", "gone",
                       \* or "absent" for one that takes no part
          up, down,    \* what is under way to the master and from it
          fd,          \* ClientState.fd: the number a connection's worker uses
          wpc,         \* where that worker is
          num,         \* the number of the write it propagates
          idx,         \* an index: of the propagation loop, or addReplica's
          shut,        \* the number that the propagation loop is about to close
          rpc,         \* where the replica is
          head,        \* the header at the front of its RESP buffer, 0 if none
          received,    \* commands it has parsed
          applied,     \* commands it has executed
          since,       \* how many writes there were when it was put on the list
          writes, by,  \* commands executed, and by whom
          unsent, faults,  \* commands and faults that are still to come
          calm         \* no replica has left, no write failed, no PSYNCs overlapped

listVars == <<slots, replica_count, repl_offset>>
linkVars == <<peer, up, down>>
workerVars == <<fd, wpc, num, idx, shut>>
replicaVars == <<rpc, head, received, applied>>
countVars == <<writes, by, unsent, faults, since>>
vars == <<desc, listVars, alive, linkVars, workerVars, replicaVars, countVars, calm>>

Reply(v) == [kind |-> "reply", what |-> v]
Header(n) == [kind |-> "head", what |-> n]
Elements(n) == [kind |-> "body", what |-> n]

Init ==
    /\ desc = [f \in Fds |-> Closed]
    /\ slots = <<>> /\ replica_count = 0 /\ repl_offset = 0
    /\ alive = TRUE
    /\ \E c \in Casts :
          /\ peer = [x \in Peers |-> IF x \in c.peers THEN "new" ELSE "absent"]
          /\ unsent = c.writes /\ faults = c.faults
    /\ up = [x \in Peers |-> <<>>] /\ down = [x \in Peers |-> <<>>]
    /\ fd = [x \in Peers |-> 0]
    /\ wpc = [x \in Peers |-> "none"]
    /\ num = [x \in Peers |-> 0] /\ idx = [x \in Peers |-> 0]
    /\ shut = [x \in Peers |-> 0]
    /\ rpc = [r \in Replicas |-> "new"]
    /\ head = [r \in Replicas |-> 0]
    /\ received = [r \in Replicas |-> <<>>] /\ applied = [r \in Replicas |-> <<>>]
    /\ since = [x \in Peers |-> -1]
    /\ writes = 0 /\ by = <<>>
    /\ calm = TRUE

-----------------------------------------------------------------------------
(* Connections *)

\* connectToHost or a client's connect, and acceptClient, which gets the lowest
\* free number; a worker of the pool takes the connection.  A replica starts
\* with PING.
Connect(x) ==
    /\ peer[x] = "new"
    /\ \E f \in Fds :
          /\ desc[f] = Closed
          /\ \A g \in 1 .. (f - 1) : desc[g] # Closed
          /\ desc' = [desc EXCEPT ![f] = x]
          /\ fd' = [fd EXCEPT ![x] = f]
    /\ peer' = [peer EXCEPT ![x] = "up"]
    /\ wpc' = [wpc EXCEPT ![x] = "recv"]
    /\ \/ /\ x \in Replicas
          /\ up' = [up EXCEPT ![x] = <<"PING">>]
          /\ rpc' = [rpc EXCEPT ![x] = "ping"]
       \/ /\ x \in Writers
          /\ UNCHANGED <<up, rpc>>
    /\ UNCHANGED <<listVars, alive, down, num, idx, shut, head, received, applied,
                   countVars, calm>>

\* A client sends a write; it need not wait for the answer to the last one.
SendWrite(w) ==
    /\ peer[w] = "up" /\ unsent > 0
    /\ unsent' = unsent - 1
    /\ up' = [up EXCEPT ![w] = Append(@, "SET")]
    /\ UNCHANGED <<desc, listVars, alive, peer, down, workerVars, replicaVars,
                   writes, by, faults, since, calm>>

\* A client closes its connection.
Leave(w) ==
    /\ peer[w] = "up" /\ faults > 0
    /\ faults' = faults - 1
    /\ peer' = [peer EXCEPT ![w] = "gone"]
    /\ down' = [down EXCEPT ![w] = <<>>]
    /\ UNCHANGED <<desc, listVars, alive, up, workerVars, replicaVars, unsent, writes, by,
                   since, calm>>

\* What is written to a peer that has gone is lost.
Deliver(y, units) ==
    down' = [down EXCEPT ![y] = IF peer[y] = "up" THEN @ \o units ELSE @]

-----------------------------------------------------------------------------
(* The master: handleClientData and executeCommand *)

\* The connection that the worker of x reads and writes now.
Conn(x) == desc[fd[x]]

\* A write is executed here, and gets its number; it is then propagated.
RecvWrite(x, y) ==
    /\ Head(up[y]) = "SET"
    /\ writes' = writes + 1
    /\ by' = Append(by, y)
    /\ num' = [num EXCEPT ![x] = writes']
    /\ idx' = [idx EXCEPT ![x] = 1]
    /\ wpc' = [wpc EXCEPT ![x] = "walk"]
    /\ UNCHANGED calm

\* PING and REPLCONF change nothing.
RecvGreeting(x, y) ==
    /\ Head(up[y]) \in {"PING", "REPLCONF"}
    /\ wpc' = [wpc EXCEPT ![x] = IF Head(up[y]) = "PING" THEN "pong" ELSE "answer"]
    /\ UNCHANGED <<writes, by, num, idx, calm>>

\* PSYNC makes its answer; addReplica looks up where to put the descriptor.
RecvPsync(x, y) ==
    /\ Head(up[y]) = "PSYNC"
    /\ idx' = [idx EXCEPT ![x] = replica_count + 1]
    /\ wpc' = [wpc EXCEPT ![x] = "add"]
    /\ calm' = (calm /\ \A z \in Peers : wpc[z] # "add")
    /\ UNCHANGED <<writes, by, num>>

\* recv returns a request, which arrived in one piece.
Recv(x) ==
    /\ wpc[x] = "recv" /\ Conn(x) # Closed /\ up[Conn(x)] # <<>>
    /\ \/ RecvWrite(x, Conn(x))
       \/ RecvGreeting(x, Conn(x))
       \/ RecvPsync(x, Conn(x))
    /\ up' = [up EXCEPT ![Conn(x)] = Tail(@)]
    /\ UNCHANGED <<desc, listVars, alive, peer, down, fd, shut, replicaVars, unsent,
                   faults, since>>

\* recv returns 0 because the peer has gone, or fails with EBADF.
RecvEnd(x) ==
    /\ wpc[x] = "recv"
    /\ Conn(x) # Closed => peer[Conn(x)] = "gone" /\ up[Conn(x)] = <<>>
    /\ wpc' = [wpc EXCEPT ![x] = "close"]
    /\ UNCHANGED <<desc, listVars, alive, linkVars, fd, num, idx, shut, replicaVars,
                   countVars, calm>>

\* freeClientState closes the number, whatever it stands for by now, and
\* leaves it in the replica list.
freeClientState(x) ==
    /\ wpc[x] = "close"
    /\ desc' = [desc EXCEPT ![fd[x]] = Closed]
    /\ wpc' = [wpc EXCEPT ![x] = "done"]
    /\ UNCHANGED <<listVars, alive, linkVars, fd, num, idx, shut, replicaVars, countVars, calm>>

\* addReplica stores the descriptor and the new count.  The answer to PSYNC is
\* still to be sent.
addReplica(x) ==
    /\ wpc[x] = "add"
    /\ slots' = IF idx[x] <= Len(slots) THEN [slots EXCEPT ![idx[x]] = fd[x]]
                ELSE Append(slots, fd[x])
    /\ replica_count' = idx[x]
    /\ wpc' = [wpc EXCEPT ![x] = "synced"]
    /\ since' = [since EXCEPT ![x] = writes]
    /\ UNCHANGED <<desc, repl_offset, alive, linkVars, fd, num, idx, shut, replicaVars,
                   unsent, writes, by, faults, calm>>

Answers == [pong |-> "PONG", answer |-> "OK", synced |-> "FULLRESYNC"]

\* sendReply: one send; for PSYNC, with the size of the RDB file and the file.
\* It fails on a closed number, and when the send buffer is full of what the
\* peer has not read yet.  Nobody looks at its result.  (That it may also be cut
\* short is left out.)
sendReply(x) ==
    /\ wpc[x] \in DOMAIN Answers
    /\ \/ Conn(x) = Closed /\ UNCHANGED <<down, faults, calm>>
       \/ /\ Conn(x) # Closed
          /\ Deliver(Conn(x), <<Reply(Answers[wpc[x]])>>)
          /\ UNCHANGED <<faults, calm>>
       \/ /\ Conn(x) # Closed /\ down[Conn(x)] # <<>> /\ faults > 0
          /\ faults' = faults - 1 /\ calm' = FALSE
          /\ UNCHANGED down
    /\ wpc' = [wpc EXCEPT ![x] = "recv"]
    /\ num' = [num EXCEPT ![x] = 0] /\ idx' = [idx EXCEPT ![x] = 0]
    /\ UNCHANGED <<desc, listVars, alive, peer, up, fd, shut, replicaVars, unsent, writes,
                   by, since>>

-----------------------------------------------------------------------------
(* The master: propagateCommand *)

\* Mutant: the loop leaves out the last replica.
WalkEnd_OneShort(x) ==
    /\ wpc[x] = "walk" /\ idx[x] >= replica_count
    /\ wpc' = [wpc EXCEPT ![x] = "answer"]
    /\ UNCHANGED <<desc, listVars, alive, linkVars, fd, num, idx, shut, replicaVars,
                   countVars, calm>>

\* The end of the list: the client gets its answer.
WalkEnd(x) ==
    /\ wpc[x] = "walk" /\ idx[x] > replica_count
    /\ wpc' = [wpc EXCEPT ![x] = "answer"]
    /\ UNCHANGED <<desc, listVars, alive, linkVars, fd, num, idx, shut, replicaVars,
                   countVars, calm>>

Walking(x) == wpc[x] = "walk" /\ idx[x] <= replica_count

\* write() takes the whole command, or, on an open connection whose send buffer
\* is nearly full, a part of it; both count as done.
WalkWrite(x) ==
    /\ Walking(x)
    /\ LET y == desc[slots[idx[x]]]
       IN  /\ y # Closed
           /\ \/ /\ Deliver(y, <<Header(num[x]), Elements(num[x])>>)
                 /\ repl_offset' = repl_offset + 2
                 /\ UNCHANGED <<faults, calm>>
              \/ /\ peer[y] = "up" /\ faults > 0
                 /\ Deliver(y, <<Header(num[x])>>)
                 /\ repl_offset' = repl_offset + 1
                 /\ faults' = faults - 1 /\ calm' = FALSE
    /\ idx' = [idx EXCEPT ![x] = @ + 1]
    /\ UNCHANGED <<desc, slots, replica_count, alive, peer, up, fd, wpc, num,
                   shut, replicaVars, unsent, writes, by, since>>

\* write() fails: the number is closed already, the peer has gone, or the send
\* buffer is full.
WalkFail(x) ==
    /\ Walking(x)
    /\ LET y == desc[slots[idx[x]]]
       IN  \/ y = Closed /\ UNCHANGED faults
           \/ y # Closed /\ peer[y] = "gone" /\ UNCHANGED faults
           \/ y # Closed /\ peer[y] = "up" /\ faults > 0 /\ faults' = faults - 1
    /\ shut' = [shut EXCEPT ![x] = slots[idx[x]]]
    /\ wpc' = [wpc EXCEPT ![x] = "shut"]
    /\ calm' = FALSE
    /\ UNCHANGED <<desc, listVars, alive, linkVars, fd, num, idx, replicaVars, unsent,
                   writes, by, since>>

\* Mutant: the count goes down although the number was not on the list.
removeReplica_Always(f) ==
    /\ replica_count' = replica_count - 1
    /\ UNCHANGED slots

\* The first slot with number f, if there is one, is taken out; the array keeps
\* what was behind the others, for an addReplica that has read the old count.
removeReplica(f) ==
    LET hits == {i \in 1 .. replica_count : slots[i] = f}
    IN  \/ hits = {} /\ UNCHANGED <<slots, replica_count>>
        \/ /\ hits # {}
           /\ slots' = RemoveAt(SubSeq(slots, 1, replica_count), Min(hits))
                          \o SubSeq(slots, replica_count, Len(slots))
           /\ replica_count' = replica_count - 1

\* Mutant: the replica stays on the list, and the loop tries it again.
WalkShut_StaysListed(x) ==
    /\ wpc[x] = "shut"
    /\ desc' = [desc EXCEPT ![shut[x]] = Closed]
    /\ shut' = [shut EXCEPT ![x] = 0]
    /\ wpc' = [wpc EXCEPT ![x] = "walk"]
    /\ UNCHANGED <<listVars, alive, linkVars, fd, num, idx, replicaVars, countVars, calm>>

\* The replica is taken off the list and its number is closed, whatever it
\* stands for by now.  In general that is the connection of another worker,
\* which goes on with the number.  The -1 of the failed write is added to the
\* offset; the loop's index goes back by one and forth again.
WalkShut(x) ==
    /\ wpc[x] = "shut"
    /\ removeReplica(shut[x])
    /\ desc' = [desc EXCEPT ![shut[x]] = Closed]
    /\ repl_offset' = repl_offset - 1
    /\ shut' = [shut EXCEPT ![x] = 0]
    /\ wpc' = [wpc EXCEPT ![x] = "walk"]
    /\ UNCHANGED <<alive, linkVars, fd, num, idx, replicaVars, countVars, calm>>

\* The descriptor that the worker is about to write to.
Target(x) ==
    IF Walking(x) THEN slots[idx[x]]
    ELSE IF wpc[x] \in DOMAIN Answers THEN fd[x] ELSE 0

\* write() or send() to a peer that has gone may raise SIGPIPE, which main does
\* not handle: the master ends.
BrokenPipe(x) ==
    /\ Target(x) # 0
    /\ desc[Target(x)] # Closed /\ peer[desc[Target(x)]] = "gone"
    /\ alive' = FALSE
    /\ desc' = [f \in Fds |-> Closed]
    /\ UNCHANGED <<listVars, linkVars, workerVars, replicaVars, countVars, calm>>

-----------------------------------------------------------------------------
(* The replica: startReplication, then handleReplicationCommands *)

phases == <<"ping", "port", "capa", "psync", "stream">>
Requests == [port |-> "REPLCONF", capa |-> "REPLCONF", psync |-> "PSYNC"]
Expected == [ping |-> "PONG", port |-> "OK", capa |-> "OK", psync |-> "FULLRESYNC"]

Shaking(r) == rpc[r] \in DOMAIN Expected

\* The replica's process ends, and with it its connection.
End(r, how) ==
    /\ rpc' = [rpc EXCEPT ![r] = how]
    /\ peer' = [peer EXCEPT ![r] = "gone"]
    /\ down' = [down EXCEPT ![r] = <<>>]
    /\ calm' = FALSE

\* The replica reads a line and writes a request, waiting as long as it takes:
\* its socket is a blocking one.
readLine(r) == Head(down[r])

writeExactly(r, request) == up' = [up EXCEPT ![r] = Append(@, request)]

\* The line read is the one expected: the next request goes out, or, after
\* FULLRESYNC and the RDB file, the replication thread starts.
HandshakeStep(r) ==
    /\ Shaking(r) /\ down[r] # <<>> /\ readLine(r) = Reply(Expected[rpc[r]])
    /\ LET next == phases[(CHOOSE i \in DOMAIN phases : phases[i] = rpc[r]) + 1]
       IN  /\ rpc' = [rpc EXCEPT ![r] = next]
           /\ \/ next \in DOMAIN Requests /\ writeExactly(r, Requests[next])
              \/ next \notin DOMAIN Requests /\ UNCHANGED up
    /\ down' = [down EXCEPT ![r] = Tail(@)]
    /\ UNCHANGED <<desc, listVars, alive, peer, workerVars, head, received, applied,
                   countVars, calm>>

\* The master's end of the connection is closed.
Eof(r) == down[r] = <<>> /\ \A f \in Fds : desc[f] # r

\* Mutant: readLine's error is taken for "try again".
HandshakeFail_NoEof(r) ==
    /\ Shaking(r) /\ down[r] # <<>> /\ readLine(r) # Reply(Expected[rpc[r]])
    /\ End(r, "exited")
    /\ UNCHANGED <<desc, listVars, alive, up, workerVars, head, received, applied,
                   countVars>>

\* Any other line, a command that was propagated before FULLRESYNC was sent
\* among them, or the end of the connection: initServer fails and the process
\* ends.
HandshakeFail(r) ==
    /\ Shaking(r)
    /\ \/ Eof(r)
       \/ down[r] # <<>> /\ readLine(r) # Reply(Expected[rpc[r]])
    /\ End(r, "exited")
    /\ UNCHANGED <<desc, listVars, alive, up, workerVars, head, received, applied,
                   countVars>>

\* A replica is killed.
ReplicaDies(r) ==
    /\ peer[r] = "up" /\ faults > 0
    /\ faults' = faults - 1
    /\ End(r, "dead")
    /\ UNCHANGED <<desc, listVars, alive, up, workerVars, head, received, applied,
                   unsent, writes, by, since>>

\* The type that the parser gives to an element of a command ...
createRespString == "RespTypeBulk"

\* ... and the type that the replica wants.
isValidCommand == createRespString = "RespTypeString"

\* Both units of a command are in the buffer: it is taken out, and executed if
\* it is valid.
ReceiveCommand(r, n) ==
    /\ head' = [head EXCEPT ![r] = 0]
    /\ received' = [received EXCEPT ![r] = Append(@, n)]
    /\ applied' = IF isValidCommand THEN [applied EXCEPT ![r] = Append(@, n)] ELSE applied
    /\ UNCHANGED rpc

\* Header and elements come in one recv.
ReceiveWhole(r) ==
    /\ rpc[r] = "stream" /\ head[r] = 0 /\ Len(down[r]) >= 2
    /\ \E n \in 1 .. writes : SubSeq(down[r], 1, 2) = <<Header(n), Elements(n)>>
    /\ ReceiveCommand(r, down[r][1].what)
    /\ down' = [down EXCEPT ![r] = Tail(Tail(@))]
    /\ UNCHANGED <<desc, listVars, alive, peer, up, workerVars, countVars, calm>>

\* recv returns a header alone: parseResp finds the command incomplete, and it
\* waits in the buffer.
ReceiveHeader(r) ==
    /\ rpc[r] = "stream" /\ head[r] = 0
    /\ down[r] # <<>> /\ Head(down[r]).kind = "head"
    /\ head' = [head EXCEPT ![r] = Head(down[r]).what]
    /\ down' = [down EXCEPT ![r] = Tail(@)]
    /\ UNCHANGED <<desc, listVars, alive, peer, up, workerVars, rpc, received, applied,
                   countVars, calm>>

\* The other outcome of the same call: parseArray has freed elements that it
\* never set, which ends the process unless that memory happens to be zero.
ReceiveCrash(r) ==
    /\ rpc[r] = "stream" /\ head[r] = 0 /\ faults > 0
    /\ down[r] # <<>> /\ Head(down[r]).kind = "head"
    /\ faults' = faults - 1
    /\ End(r, "crashed")
    /\ UNCHANGED <<desc, listVars, alive, up, workerVars, head, received, applied, unsent,
                   writes, by, since>>

\* The elements come after their header.
ReceiveElements(r) ==
    /\ rpc[r] = "stream" /\ head[r] # 0
    /\ down[r] # <<>> /\ Head(down[r]) = Elements(head[r])
    /\ ReceiveCommand(r, head[r])
    /\ down' = [down EXCEPT ![r] = Tail(@)]
    /\ UNCHANGED <<desc, listVars, alive, peer, up, workerVars, countVars, calm>>

\* What comes is no part of the command in the buffer.  A reply in front makes
\* parseResp fail for good, and the loop never reads on.  Behind a header that
\* a short write has left alone, it is taken for elements, and what follows is
\* read at the wrong place.
ReceiveStray(r) ==
    /\ rpc[r] = "stream" /\ down[r] # <<>>
    /\ \/ /\ head[r] = 0 /\ Head(down[r]).kind = "reply"
          /\ rpc' = [rpc EXCEPT ![r] = "spin"]
       \/ /\ head[r] # 0 /\ Head(down[r]) # Elements(head[r])
          /\ rpc' = [rpc EXCEPT ![r] = "garbled"]
    /\ down' = [down EXCEPT ![r] = Tail(@)]
    /\ UNCHANGED <<desc, listVars, alive, peer, up, workerVars, head, received, applied,
                   countVars, calm>>

\* recv returns 0: the thread ends, the process stays.
ReceiveEnd(r) ==
    /\ rpc[r] = "stream" /\ Eof(r)
    /\ rpc' = [rpc EXCEPT ![r] = "ended"]
    /\ UNCHANGED <<desc, listVars, alive, linkVars, workerVars, head, received, applied,
                   countVars, calm>>

-----------------------------------------------------------------------------
WorkerStep(x) ==
    \/ Recv(x) \/ RecvEnd(x) \/ freeClientState(x) \/ addReplica(x) \/ sendReply(x)
    \/ WalkEnd(x) \/ WalkWrite(x) \/ WalkFail(x) \/ WalkShut(x) \/ BrokenPipe(x)

ReplicaStep(r) ==
    \/ HandshakeStep(r) \/ HandshakeFail(r)
    \/ ReceiveWhole(r) \/ ReceiveHeader(r) \/ ReceiveCrash(r) \/ ReceiveElements(r)
    \/ ReceiveStray(r) \/ ReceiveEnd(r)

Next ==
    \/ alive /\ \E x \in Peers : Connect(x) \/ WorkerStep(x)
    \/ alive /\ \E w \in Writers : SendWrite(w) \/ Leave(w)
    \/ \E r \in Replicas : ReplicaStep(r) \/ ReplicaDies(r)

Spec == Init /\ [][Next]_vars

\* The master runs while one of its workers can, and so do the replicas.  Nobody
\* has to connect, to send, to leave or to die.  That no worker or replica is
\* passed over for ever need not be assumed: between two commands of a client
\* the others can take only so many steps.
FairSpec ==
    /\ Spec
    /\ WF_vars(alive /\ \E x \in Peers : WorkerStep(x))
    /\ WF_vars(\E r \in Replicas : ReplicaStep(r))

-----------------------------------------------------------------------------
(* Properties *)

\* The type invariant.
TypeOK ==
    /\ desc \in [Fds -> Peers \cup {Closed}]
    /\ slots \in Seq(Fds) /\ replica_count \in 0 .. Len(slots)
    /\ repl_offset \in Int /\ alive \in BOOLEAN /\ calm \in BOOLEAN
    /\ peer \in [Peers -> {"absent", "new", "up", "gone"}]
    /\ up \in [Peers -> Seq({"PING", "REPLCONF", "PSYNC", "SET"})]
    /\ \A x \in Peers : \A i \in DOMAIN down[x] :
          down[x][i].kind \in {"reply", "head", "body"}
    /\ fd \in [Peers -> 0 .. NumFds] /\ shut \in [Peers -> 0 .. NumFds]
    /\ wpc \in [Peers -> {"none", "recv", "add", "walk", "shut", "close", "done"}
                           \cup DOMAIN Answers]
    /\ num \in [Peers -> Nat] /\ idx \in [Peers -> Nat]
    /\ rpc \in [Replicas -> {"new", "exited", "dead", "crashed", "spin", "garbled",
                               "ended"} \cup Range(phases)]
    /\ head \in [Replicas -> Nat]
    /\ received \in [Replicas -> Seq(Nat)]
    /\ applied \in [Replicas -> Seq(Nat)]
    /\ since \in [Peers -> Int]
    /\ writes \in Nat /\ by \in [1 .. writes -> Peers]
    /\ unsent \in Nat /\ faults \in Nat

\* The header in a replica's buffer and the units under way to it.
Flow(r) == (IF head[r] = 0 THEN <<>> ELSE <<Header(head[r])>>) \o down[r]

\* What a replica has got and what is on the way to it: the commands that it
\* has parsed, then the rest.
CommandStream(r) ==
    [i \in 1 .. Len(received[r]) |-> Elements(received[r][i])] \o Flow(r)

Propagated(n) == \A x \in Peers : num[x] = n => wpc[x] = "answer"

\* As long as no replica leaves, no write fails and no two PSYNCs overlap, a
\* replica on the list gets every write that was executed after it was put
\* there, each once, those of one client in the client's order, and in a form
\* that it can parse: whatever the interleaving of the workers, of another
\* replica's registration with the loops under way, and of writers leaving.
StreamFaithful ==
    calm => \A r \in Replicas : since[r] >= 0 =>
        LET s == CommandStream(r)
            commands == {i \in DOMAIN s : s[i].kind = "body"}
        IN  /\ \A n \in (since[r] + 1) .. writes :
                  Propagated(n) => \E i \in commands : s[i].what = n
            /\ \A i, j \in commands : i < j =>
                  /\ s[i].what # s[j].what
                  /\ by[s[i].what] = by[s[j].what] => s[i].what < s[j].what
            /\ rpc[r] \notin {"spin", "garbled"}

\* A replica that has connected comes to stream or gives up: whatever the
\* master does with its number, it does not wait for an answer for ever.  (Each
\* shakes hands once, so it is enough that time and again none does.)
HandshakeEnds == []<>(\A r \in Replicas : ~Shaking(r))

\* The propagation loops come to their ends although failed writes take the
\* index back, and other workers add to the list and remove from it under way.
\* (The commands are finitely many.)
PropagationEnds == []<>(alive => \A x \in Peers : wpc[x] \notin {"walk", "shut"})

\* What README.md promises of replication: a replica executes the commands
\* that it receives.
AppliedAsReceived == \A r \in Replicas : applied[r] = received[r]

=============================================================================
