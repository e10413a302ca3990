-------------------------- MODULE ReplicationProofs --------------------------
(***************************************************************************)
(* Proofs about module Replication, for any number of replicas, clients,   *)
(* descriptors, commands and faults: type correctness, and that a replica  *)
(* gets every write once and in order as long as nothing fails.            *)
(***************************************************************************)
EXTENDS Replication, SequenceTheorems, WellFoundedInduction, TLAPS

USE PeersAssumption, NumFdsAssumption, CastsAssumption DEF Fds

-----------------------------------------------------------------------------
(* The inductive invariants *)

Unit ==
    [kind : {"reply"}, what : {"PONG", "OK", "FULLRESYNC"}] \cup [kind : {"head", "body"}, what : Nat]

\* A worker has a number, an index that addReplica may write to, and one that
\* the loop may read.
WorkersOK ==
    \A x \in Peers :
        /\ wpc[x] # "none" => fd[x] \in Fds
        /\ wpc[x] = "add" => idx[x] \in 1 .. (Len(slots) + 1)
        /\ wpc[x] \in {"walk", "shut"} => idx[x] >= 1

TInv == TypeOK /\ down \in [Peers -> Seq(Unit)] /\ WorkersOK

\* Of a sequence of units: it has command n; its commands have numbers up to n;
\* they are all different, and those of one client are in order; headers and
\* elements come in pairs; there is no reply, one at most, nothing else.
Has(s, n) == \E i \in 1 .. Len(s) : s[i].kind = "body" /\ s[i].what = n
Within(s, n) == \A i \in 1 .. Len(s) : s[i].kind = "body" => s[i].what \in 1 .. n

InOrder(s, b) ==
    \A i, j \in 1 .. Len(s) :
        s[i].kind = "body" /\ s[j].kind = "body" /\ i < j =>
            /\ s[i].what # s[j].what
            /\ b[s[i].what] = b[s[j].what] => s[i].what < s[j].what

Paired(s) ==
    \A i \in 1 .. Len(s) :
        /\ s[i].kind = "head" => i + 1 <= Len(s) /\ s[i + 1] = Elements(s[i].what)
        /\ s[i].kind = "body" => 1 <= i - 1 /\ s[i - 1] = Header(s[i].what)

NoReply(s) == \A i \in 1 .. Len(s) : s[i].kind # "reply"
OneReply(s) == \A i, j \in 1 .. Len(s) : s[i].kind = "reply" /\ s[j].kind = "reply" => i = j
OnlyReplies(s) == \A i \in 1 .. Len(s) : s[i].kind = "reply"

\* Every worker has its own connection.
DescOK ==
    /\ alive => \A x \in Peers : wpc[x] \notin {"none", "done"} => desc[fd[x]] = x
    /\ \A x \in Peers : wpc[x] # "shut" /\ (peer[x] \in {"new", "absent"} => wpc[x] = "none")

\* The list has one place for every replica that has registered.
SlotsOK ==
    /\ replica_count = Len(slots)
    /\ \A p, q \in 1 .. Len(slots) : slots[p] = slots[q] => p = q
    /\ \A p \in 1 .. Len(slots) : \E r \in Replicas : since[r] >= 0 /\ slots[p] = fd[r]
    /\ \A r \in Replicas : since[r] >= 0 => \E p \in 1 .. Len(slots) : slots[p] = fd[r]
    /\ \A x, y \in Peers : wpc[x] = "add" /\ wpc[y] = "add" => x = y
    /\ \A x \in Peers : wpc[x] = "add" => idx[x] = Len(slots) + 1

\* A replica in stage rp and its worker in stage w have one request (on u) or
\* one answer (on d) between them until the replica streams, and none after.
Hand(rp, w, sn, u, d, pr, hd, rc, al) ==
    LET shaking == rp \in {"ping", "port", "capa", "psync"}
    IN  /\ rp \in {"new", "ping", "port", "capa", "psync", "stream", "ended"}
        /\ w \in {"none", "recv", "add", "pong", "answer", "synced"}
        /\ rp = "new" <=> w = "none"
        /\ rp = "new" => sn = -1 /\ u = <<>> /\ d = <<>>
        /\ rp # "new" => pr = "up"
        /\ rp = "ended" => ~al
        /\ w \notin {"none", "recv"} \/ u # <<>> => shaking /\ NoReply(d)
        /\ w \notin {"none", "recv"} => u = <<>>
        /\ u # <<>> => Len(u) = 1 /\ u[1] # "SET"
        /\ w \in {"add", "synced"} \/ (u # <<>> /\ u[1] = "PSYNC") => rp = "psync"
        /\ shaking \/ NoReply(d)
        /\ OneReply(d)
        /\ shaking \/ rp = "new" => hd = 0 /\ rc = <<>>
        /\ sn >= 0 => rp \in {"psync", "stream", "ended"} /\ u = <<>> /\ w \in {"synced", "recv"}

HandOK(r) ==
    Hand(rpc[r], wpc[r], since[r], up[r], down[r], peer[r], head[r], received[r], alive)

HandshakeOK == \A r \in Replicas : HandOK(r)

\* Only replicas send PSYNC.
ClientsOK ==
    \A w \in Writers : /\ \A i \in 1 .. Len(up[w]) : up[w][i] = "SET"
                       /\ wpc[w] \notin {"add", "synced", "pong"}

\* A loop under way propagates the last write of its client.
LoopOK(x) ==
    /\ num[x] \in 1 .. writes /\ by[num[x]] = x
    /\ \A m \in 1 .. writes : by[m] = x => m <= num[x]

LoopsOK == \A x \in Peers : wpc[x] = "walk" => LoopOK(x)

\* The loop of x has passed the place of r on the list, or has still to come
\* there.
Passed(x, r) == \E p \in 1 .. Len(slots) : p < idx[x] /\ slots[p] = fd[r]
Ahead(x, r) == \E p \in 1 .. Len(slots) : p >= idx[x] /\ slots[p] = fd[r]

\* What a replica has got or will get: what the loops have passed its place
\* with, and, from its registration on, all that no loop has still to bring.
StreamOK(r) ==
    /\ Paired(Flow(r)) /\ InOrder(CommandStream(r), by) /\ Within(CommandStream(r), writes)
    /\ since[r] < 0 => OnlyReplies(CommandStream(r))
    /\ \A x \in Peers : wpc[x] = "walk" /\ Has(CommandStream(r), num[x]) => Passed(x, r)
    /\ since[r] >= 0 =>
          \A n \in (since[r] + 1) .. writes :
              Has(CommandStream(r), n)
                \/ \E x \in Peers : wpc[x] = "walk" /\ num[x] = n /\ Ahead(x, r)

StreamsOK == \A r \in Replicas : StreamOK(r)

CalmOK == DescOK /\ SlotsOK /\ HandshakeOK /\ ClientsOK /\ LoopsOK /\ StreamsOK

-----------------------------------------------------------------------------
(* Sequences *)

\* The first slot with a number is one of the slots.
LEMMA MinFound ==
    ASSUME NEW T \in SUBSET Nat, T # {}
    PROVE  Min(T) \in T
<1> DEFINE Less == {p \in Nat \X Nat : p[1] < p[2]}
<1>1. IsWellFoundedOn(Less, Nat)
  BY NatLessThanWellFounded, Zenon DEF OpToRel
<1> HIDE DEF Less
<1>2. PICK n \in T : \A m \in T : <<m, n>> \notin Less
  BY <1>1, WFMin
<1>3. \A m \in T : <<m, n>> \in Nat \X Nat /\ <<m, n>>[1] = m /\ <<m, n>>[2] = n
  OBVIOUS
<1>4. \A m \in T : ~(m < n)
  BY <1>2, <1>3, Zenon DEF Less
<1>5. \E k \in T : \A m \in T : k <= m
  BY <1>4
<1> QED
  BY <1>5, Zenon DEF Min

\* The front of a queue and what is behind it.
LEMMA TailOf ==
    ASSUME NEW S, NEW q \in Seq(S), q # <<>>
    PROVE  /\ Len(q) \in Nat /\ Len(q) >= 1 /\ Head(q) = q[1] /\ Head(q) \in S
           /\ Tail(q) \in Seq(S) /\ Len(Tail(q)) = Len(q) - 1
           /\ \A i \in 1 .. (Len(q) - 1) : Tail(q)[i] = q[i + 1]
  BY HeadTailProperties, EmptySeq, LenProperties

\* Two units taken from the front.
LEMMA TwoOff ==
    ASSUME NEW S, NEW q \in Seq(S), Len(q) >= 2
    PROVE  /\ Tail(Tail(q)) \in Seq(S) /\ Len(Tail(Tail(q))) = Len(q) - 2
           /\ \A i \in 1 .. (Len(q) - 2) : Tail(Tail(q))[i] = q[i + 2]
<1> DEFINE t == Tail(q)
           n == Len(q)
<1>1. n \in Nat /\ n >= 2 /\ q # <<>>
  BY LenProperties, EmptySeq
<1>2. t \in Seq(S) /\ Len(t) = n - 1 /\ \A i \in 1 .. (n - 1) : t[i] = q[i + 1]
  BY <1>1, TailOf
<1> HIDE DEF t, n
<1>3. Len(t) # 0
  BY <1>1, <1>2
<1>4. t # <<>>
  BY <1>3, EmptySeq
<1>5. Tail(t) \in Seq(S) /\ Len(Tail(t)) = n - 2 /\ \A i \in 1 .. (n - 2) : Tail(t)[i] = t[i + 1]
  <2>1. /\ Tail(t) \in Seq(S) /\ Len(Tail(t)) = Len(t) - 1
        /\ \A i \in 1 .. (Len(t) - 1) : Tail(t)[i] = t[i + 1]
    BY <1>2, <1>4, TailOf
  <2>2. Len(t) - 1 = n - 2
    BY <1>1, <1>2
  <2> QED
    BY <2>1, <2>2
<1>6. ASSUME NEW i \in 1 .. (n - 2) PROVE Tail(t)[i] = q[i + 2]
  <2>1. i + 1 \in 1 .. (n - 1) /\ (i + 1) + 1 = i + 2
    BY <1>1
  <2>2. t[i + 1] = q[i + 2]
    BY <1>2, <2>1
  <2> QED
    BY <1>5, <2>2
<1> QED
  BY <1>5, <1>6 DEF t, n

-----------------------------------------------------------------------------
(* Types *)

Requested == {"PING", "REPLCONF", "PSYNC", "SET"}
Stages == {"none", "recv", "add", "walk", "shut", "close", "done", "pong", "answer", "synced"}
Places == {"new", "exited", "dead", "crashed", "spin", "garbled", "ended",
           "ping", "port", "capa", "psync", "stream"}

MasterT ==
    /\ desc \in [Fds -> Peers \cup {Closed}]
    /\ slots \in Seq(Fds) /\ replica_count \in 0 .. Len(slots)
    /\ repl_offset \in Int /\ alive \in BOOLEAN /\ calm \in BOOLEAN

PeerT ==
    /\ peer \in [Peers -> {"absent", "new", "up", "gone"}]
    /\ up \in [Peers -> Seq(Requested)] /\ down \in [Peers -> Seq(Unit)]

WorkerT ==
    /\ fd \in [Peers -> 0 .. NumFds] /\ shut \in [Peers -> 0 .. NumFds]
    /\ wpc \in [Peers -> Stages]
    /\ num \in [Peers -> Nat] /\ idx \in [Peers -> Nat]

ReplicaT ==
    /\ rpc \in [Replicas -> Places] /\ head \in [Replicas -> Nat]
    /\ received \in [Replicas -> Seq(Nat)] /\ applied \in [Replicas -> Seq(Nat)]

CountT ==
    /\ since \in [Peers -> Int] /\ writes \in Nat /\ by \in [1 .. writes -> Peers]
    /\ unsent \in Nat /\ faults \in Nat

Parts == MasterT /\ PeerT /\ WorkerT /\ ReplicaT /\ CountT /\ WorkersOK

LEMMA Literals ==
    /\ DOMAIN Answers = {"pong", "answer", "synced"}
    /\ Answers["pong"] = "PONG" /\ Answers["answer"] = "OK" /\ Answers["synced"] = "FULLRESYNC"
    /\ DOMAIN Expected = {"ping", "port", "capa", "psync"}
    /\ DOMAIN Requests = {"port", "capa", "psync"}
    /\ Requests["port"] = "REPLCONF" /\ Requests["capa"] = "REPLCONF"
    /\ Requests["psync"] = "PSYNC"
    /\ Range(phases) = {"ping", "port", "capa", "psync", "stream"}
<1>1. /\ DOMAIN Answers = {"pong", "answer", "synced"}
      /\ Answers["pong"] = "PONG" /\ Answers["answer"] = "OK" /\ Answers["synced"] = "FULLRESYNC"
  BY DEF Answers
<1>2. DOMAIN Expected = {"ping", "port", "capa", "psync"}
  BY DEF Expected
<1>3. /\ DOMAIN Requests = {"port", "capa", "psync"}
      /\ Requests["port"] = "REPLCONF" /\ Requests["capa"] = "REPLCONF"
      /\ Requests["psync"] = "PSYNC"
  BY DEF Requests
<1>4. Range(phases) = {"ping", "port", "capa", "psync", "stream"}
  <2>1. /\ DOMAIN phases = 1 .. 5 /\ phases[1] = "ping" /\ phases[2] = "port"
        /\ phases[3] = "capa" /\ phases[4] = "psync" /\ phases[5] = "stream"
    BY DEF phases
  <2> HIDE DEF phases
  <2>2. \A i \in 1 .. 5 : i = 1 \/ i = 2 \/ i = 3 \/ i = 4 \/ i = 5
    OBVIOUS
  <2>3. \A i \in DOMAIN phases : phases[i] \in {"ping", "port", "capa", "psync", "stream"}
    BY <2>1, <2>2
  <2>4. 1 \in DOMAIN phases /\ 2 \in DOMAIN phases /\ 3 \in DOMAIN phases
        /\ 4 \in DOMAIN phases /\ 5 \in DOMAIN phases
    BY <2>1
  <2> QED
    BY <2>1, <2>3, <2>4 DEF Range
<1> QED
  BY <1>1, <1>2, <1>3, <1>4

\* The parts are the invariant, before a step and after it.
LEMMA PartsOfT == TInv => Parts
  BY Literals DEF TInv, TypeOK, Parts, MasterT, PeerT, WorkerT, ReplicaT, CountT, Requested,
     Stages, Places

LEMMA UnitKinds == \A u \in Unit : u.kind \in {"reply", "head", "body"}
  BY DEF Unit

LEMMA WholeT == ASSUME Parts PROVE TInv
<1>1. ASSUME NEW x \in Peers, NEW i \in DOMAIN down[x]
      PROVE  down[x][i].kind \in {"reply", "head", "body"}
  <2>1. down[x] \in Seq(Unit)
    BY DEF Parts, PeerT
  <2>2. down[x][i] \in Unit
    BY <2>1
  <2> QED
    BY <2>2, UnitKinds
<1>2. TypeOK
  BY <1>1, Literals DEF TypeOK, Parts, MasterT, PeerT, WorkerT, ReplicaT, CountT,
     Requested, Stages, Places
<1> QED
  BY <1>2 DEF TInv, Parts, PeerT

LEMMA WholeTNext == Parts' => TInv'
<1>1. Parts => TInv
  BY WholeT
<1> QED
  BY <1>1, PTL

\* The parts that a step leaves alone.
LEMMA KeptPeers == PeerT /\ UNCHANGED <<peer, up, down>> => PeerT'
  BY DEF PeerT

LEMMA KeptReplicas == ReplicaT /\ UNCHANGED <<rpc, head, received, applied>> => ReplicaT'
  BY DEF ReplicaT

LEMMA KeptWorkers ==
    ASSUME WorkerT, WorkersOK, UNCHANGED <<fd, wpc, num, idx, shut>>, slots' = slots
    PROVE  WorkerT' /\ WorkersOK'
  BY DEF WorkerT, WorkersOK

LEMMA KeptCounts ==
    CountT /\ UNCHANGED <<writes, by, since>> /\ unsent' \in Nat /\ faults' \in Nat => CountT'
  BY DEF CountT

LEMMA KeptMaster ==
    ASSUME MasterT, UNCHANGED <<slots, replica_count>>, repl_offset' \in Int,
           desc' \in [Fds -> Peers \cup {Closed}], alive' \in BOOLEAN, calm' \in BOOLEAN
    PROVE  MasterT'
  BY DEF MasterT

\* A connection that is up is that of a peer.
LEMMA ConnType ==
    ASSUME Parts, NEW x \in Peers, wpc[x] # "none"
    PROVE  fd[x] \in Fds /\ Conn(x) \in Peers \cup {Closed}
  BY DEF Parts, WorkersOK, MasterT, Conn

LEMMA ConnectT == ASSUME Parts, NEW x \in Peers, Connect(x) PROVE Parts'
<1>1. PICK f \in Fds : desc' = [desc EXCEPT ![f] = x] /\ fd' = [fd EXCEPT ![x] = f]
  BY DEF Connect
<1>2. /\ peer' = [peer EXCEPT ![x] = "up"] /\ wpc' = [wpc EXCEPT ![x] = "recv"]
      /\ UNCHANGED <<slots, replica_count, repl_offset, alive, down, num, idx, shut, head>>
      /\ UNCHANGED <<received, applied, writes, by, unsent, faults, since, calm>>
  BY DEF Connect, listVars, countVars
<1>3. MasterT'
  BY <1>1, <1>2, KeptMaster DEF Parts, MasterT
<1>4. up' \in [Peers -> Seq(Requested)] /\ rpc' \in [Replicas -> Places]
  <2>1. CASE /\ x \in Replicas /\ up' = [up EXCEPT ![x] = <<"PING">>]
             /\ rpc' = [rpc EXCEPT ![x] = "ping"]
    <3>1. <<"PING">> \in Seq(Requested)
      BY DEF Requested
    <3> QED
      BY <2>1, <3>1 DEF Parts, PeerT, ReplicaT, Places
  <2>2. CASE UNCHANGED <<up, rpc>>
    BY <2>2 DEF Parts, PeerT, ReplicaT
  <2> QED
    BY <2>1, <2>2 DEF Connect
<1>5. PeerT' /\ ReplicaT'
  BY <1>2, <1>4 DEF Parts, PeerT, ReplicaT
<1>6. WorkerT' /\ WorkersOK'
  BY <1>1, <1>2 DEF Parts, WorkerT, WorkersOK, Stages
<1>7. CountT'
  BY <1>2, KeptCounts DEF Parts, CountT
<1> QED
  BY <1>3, <1>5, <1>6, <1>7 DEF Parts

LEMMA ClientT ==
    ASSUME Parts, NEW w \in Writers, SendWrite(w) \/ Leave(w)
    PROVE  Parts'
<1> USE DEF listVars, workerVars, replicaVars
<1>0. w \in Peers /\ "SET" \in Requested
  BY DEF Peers, Requested
<1>1. CASE SendWrite(w)
  <2>1. up' \in [Peers -> Seq(Requested)]
    BY <1>0, <1>1 DEF Parts, PeerT, SendWrite
  <2>2. PeerT' /\ CountT'
    BY <1>1, <2>1 DEF Parts, PeerT, CountT, SendWrite
  <2> QED
    BY <1>1, <2>2, KeptMaster, KeptWorkers, KeptReplicas DEF Parts, MasterT, SendWrite
<1>2. CASE Leave(w)
  <2>1. <<>> \in Seq(Unit)
    OBVIOUS
  <2>2. PeerT' /\ CountT'
    BY <1>0, <1>2, <2>1 DEF Parts, PeerT, CountT, Leave
  <2> QED
    BY <1>2, <2>2, KeptMaster, KeptWorkers, KeptReplicas DEF Parts, MasterT, Leave
<1> QED
  BY <1>1, <1>2

LEMMA RecvT == ASSUME Parts, NEW x \in Peers, Recv(x) PROVE Parts'
<1> DEFINE y == Conn(x)
<1>1. /\ wpc[x] = "recv" /\ y # Closed /\ up[y] # <<>>
      /\ up' = [up EXCEPT ![y] = Tail(@)]
      /\ UNCHANGED <<desc, slots, replica_count, repl_offset, alive, peer, down, fd, shut>>
      /\ UNCHANGED <<rpc, head, received, applied, unsent, faults, since>>
  BY DEF Recv, listVars, replicaVars
<1>2. y \in Peers
  BY <1>1, ConnType
<1> HIDE DEF y
<1>3. PeerT'
  <2>1. up[y] \in Seq(Requested)
    BY <1>2 DEF Parts, PeerT
  <2>2. Tail(up[y]) \in Seq(Requested)
    BY <1>1, <2>1, TailOf
  <2> QED
    BY <1>1, <2>2 DEF Parts, PeerT
<1>4. calm' \in BOOLEAN
  BY DEF Recv, RecvWrite, RecvGreeting, RecvPsync, Parts, MasterT
<1>5. MasterT' /\ ReplicaT'
  BY <1>1, <1>4, KeptMaster, KeptReplicas DEF Parts, MasterT
<1>6. Len(slots) \in Nat /\ replica_count \in Nat /\ replica_count <= Len(slots) /\ writes \in Nat
  BY LenProperties DEF Parts, MasterT, CountT
<1>7. CASE RecvWrite(x, y)
  <2>1. CountT'
    <3>1. by \in Seq(Peers) /\ Len(by) = writes
      BY DEF Parts, CountT
    <3>2. Append(by, y) \in Seq(Peers) /\ Len(Append(by, y)) = writes + 1
      BY <1>2, <3>1, AppendProperties
    <3>3. by' \in Seq(Peers) /\ Len(by') = writes'
      BY <1>7, <3>2 DEF RecvWrite
    <3>4. by' \in [1 .. writes' -> Peers]
      BY <3>3, LenProperties
    <3> QED
      BY <1>1, <1>6, <1>7, <3>4 DEF Parts, CountT, RecvWrite
  <2>2. WorkerT' /\ WorkersOK'
    BY <1>1, <1>6, <1>7 DEF Parts, WorkerT, WorkersOK, Stages, RecvWrite
  <2> QED
    BY <1>3, <1>5, <2>1, <2>2 DEF Parts
<1>8. CASE RecvGreeting(x, y)
  <2>1. WorkerT' /\ WorkersOK'
    BY <1>1, <1>8 DEF Parts, WorkerT, WorkersOK, Stages, RecvGreeting
  <2> QED
    BY <1>1, <1>3, <1>5, <1>8, <2>1, KeptCounts DEF Parts, CountT, RecvGreeting
<1>9. CASE RecvPsync(x, y)
  <2>1. WorkerT' /\ WorkersOK'
    BY <1>1, <1>6, <1>9 DEF Parts, WorkerT, WorkersOK, Stages, RecvPsync
  <2> QED
    BY <1>1, <1>3, <1>5, <1>9, <2>1, KeptCounts DEF Parts, CountT, RecvPsync
<1> QED
  BY <1>7, <1>8, <1>9 DEF Recv, y

\* A worker goes to another stage, and perhaps resets its number and index.
LEMMA StageT ==
    ASSUME Parts, NEW x \in Peers, NEW stage \in {"recv", "close", "done", "answer"},
           wpc' = [wpc EXCEPT ![x] = stage], wpc[x] # "none",
           UNCHANGED <<slots, fd, shut>>,
           num' = num \/ num' = [num EXCEPT ![x] = 0],
           idx' = idx \/ idx' = [idx EXCEPT ![x] = 0]
    PROVE  WorkerT' /\ WorkersOK'
  BY DEF Parts, WorkerT, WorkersOK, Stages

\* What is delivered to a peer are units.
LEMMA DeliverT ==
    ASSUME Parts, NEW y \in Peers, NEW units \in Seq(Unit), Deliver(y, units)
    PROVE  down' \in [Peers -> Seq(Unit)]
<1>1. down[y] \in Seq(Unit)
  BY DEF Parts, PeerT
<1>2. down[y] \o units \in Seq(Unit)
  BY <1>1, ConcatProperties
<1> QED
  BY <1>1, <1>2 DEF Parts, PeerT, Deliver

LEMMA sendReplyT == ASSUME Parts, NEW x \in Peers, sendReply(x) PROVE Parts'
<1>1. /\ wpc[x] \in DOMAIN Answers /\ wpc' = [wpc EXCEPT ![x] = "recv"]
      /\ num' = [num EXCEPT ![x] = 0] /\ idx' = [idx EXCEPT ![x] = 0]
      /\ UNCHANGED <<desc, slots, replica_count, repl_offset, alive, peer, up, fd, shut>>
      /\ UNCHANGED <<rpc, head, received, applied, unsent, writes, by, since>>
  BY DEF sendReply, listVars, replicaVars
<1>2. wpc[x] # "none"
  BY <1>1, Literals
<1>3. faults' \in Nat /\ calm' \in BOOLEAN
  <2>1. UNCHANGED <<faults, calm>> \/ (faults > 0 /\ faults' = faults - 1 /\ calm' = FALSE)
    BY DEF sendReply
  <2>2. faults \in Nat /\ calm \in BOOLEAN
    BY DEF Parts, CountT, MasterT
  <2>3. faults' \in Nat
    BY <2>1, <2>2
  <2>4. calm' \in BOOLEAN
    BY <2>1, <2>2, Zenon
  <2> QED
    BY <2>3, <2>4
<1>4. down' \in [Peers -> Seq(Unit)]
  <2>1. CASE UNCHANGED down
    BY <2>1 DEF Parts, PeerT
  <2>2. CASE Conn(x) # Closed /\ Deliver(Conn(x), <<Reply(Answers[wpc[x]])>>)
    <3>1. Conn(x) \in Peers
      BY <1>2, <2>2, ConnType
    <3>2. Answers[wpc[x]] \in {"PONG", "OK", "FULLRESYNC"}
      BY <1>1, Literals
    <3>3. Reply(Answers[wpc[x]]) \in Unit
      BY <3>2 DEF Reply, Unit
    <3>4. <<Reply(Answers[wpc[x]])>> \in Seq(Unit)
      BY <3>3
    <3> QED
      BY <2>2, <3>1, <3>4, DeliverT
  <2> QED
    BY <2>1, <2>2 DEF sendReply
<1>5. WorkerT' /\ WorkersOK'
  BY <1>1, <1>2, StageT
<1>6. PeerT'
  BY <1>1, <1>4 DEF Parts, PeerT
<1> QED
  BY <1>1, <1>3, <1>5, <1>6, KeptMaster, KeptReplicas, KeptCounts DEF Parts, MasterT, CountT

LEMMA WalkEndT ==
    ASSUME Parts, NEW x \in Peers, RecvEnd(x) \/ WalkEnd(x) \/ freeClientState(x)
    PROVE  Parts'
<1> USE DEF listVars, linkVars, replicaVars, countVars
<1>1. CASE RecvEnd(x) \/ WalkEnd(x)
  <2>1. WorkerT' /\ WorkersOK'
    BY <1>1, StageT DEF RecvEnd, WalkEnd
  <2> QED
    BY <1>1, <2>1, KeptMaster, KeptPeers, KeptReplicas, KeptCounts
       DEF Parts, MasterT, CountT, RecvEnd, WalkEnd
<1>2. CASE freeClientState(x)
  <2>1. WorkerT' /\ WorkersOK'
    BY <1>2, StageT DEF freeClientState
  <2>2. MasterT'
    BY <1>2, KeptMaster DEF Parts, MasterT, freeClientState
  <2> QED
    BY <1>2, <2>1, <2>2, KeptPeers, KeptReplicas, KeptCounts DEF Parts, CountT, freeClientState
<1> QED
  BY <1>1, <1>2

LEMMA addReplicaT == ASSUME Parts, NEW x \in Peers, addReplica(x) PROVE Parts'
<1> USE DEF linkVars, replicaVars
<1>1. /\ wpc[x] = "add" /\ replica_count' = idx[x] /\ wpc' = [wpc EXCEPT ![x] = "synced"]
      /\ slots' = IF idx[x] <= Len(slots) THEN [slots EXCEPT ![idx[x]] = fd[x]]
                  ELSE Append(slots, fd[x])
      /\ since' = [since EXCEPT ![x] = writes]
      /\ UNCHANGED <<desc, repl_offset, alive, peer, up, down, fd, num, idx, shut>>
      /\ UNCHANGED <<rpc, head, received, applied, unsent, writes, by, faults, calm>>
  BY DEF addReplica
<1>2. /\ fd[x] \in Fds /\ idx[x] \in 1 .. (Len(slots) + 1) /\ slots \in Seq(Fds)
      /\ Len(slots) \in Nat
  BY <1>1, LenProperties DEF Parts, WorkersOK, MasterT
<1>3. slots' \in Seq(Fds) /\ Len(slots') \in Nat /\ Len(slots) <= Len(slots') /\ idx[x] \in 0 .. Len(slots')
  <2>1. CASE idx[x] <= Len(slots)
    <3>1. slots' = [slots EXCEPT ![idx[x]] = fd[x]] /\ idx[x] \in 1 .. Len(slots)
      BY <1>1, <1>2, <2>1
    <3>2. slots' \in Seq(Fds) /\ Len(slots') = Len(slots)
      BY <1>2, <3>1, ExceptSeq
    <3> QED
      BY <1>2, <2>1, <3>2
  <2>2. CASE ~(idx[x] <= Len(slots))
    <3>1. slots' \in Seq(Fds) /\ Len(slots') = Len(slots) + 1
      BY <1>1, <1>2, <2>2, AppendProperties
    <3> QED
      BY <1>2, <2>2, <3>1
  <2> QED
    BY <2>1, <2>2
<1>4. MasterT'
  BY <1>1, <1>3 DEF Parts, MasterT
<1>5. WorkerT' /\ WorkersOK'
  <2>1. WorkerT'
    BY <1>1 DEF Parts, WorkerT, Stages
  <2>2. 1 .. (Len(slots) + 1) \subseteq 1 .. (Len(slots') + 1)
    BY <1>2, <1>3
  <2>3. \A z \in Peers : wpc'[z] = wpc[z] \/ (z = x /\ wpc'[z] = "synced")
    BY <1>1 DEF Parts, WorkerT
  <2> QED
    BY <1>1, <1>2, <2>1, <2>2, <2>3 DEF Parts, WorkersOK
<1>6. CountT'
  BY <1>1 DEF Parts, CountT
<1> QED
  BY <1>1, <1>4, <1>5, <1>6, KeptPeers, KeptReplicas DEF Parts

\* The loop reads a number from the list.
LEMMA SlotType ==
    ASSUME Parts, NEW x \in Peers, Walking(x)
    PROVE  /\ idx[x] \in 1 .. Len(slots) /\ slots[idx[x]] \in Fds
           /\ desc[slots[idx[x]]] \in Peers \cup {Closed}
<1>1. idx[x] >= 1 /\ idx[x] <= replica_count /\ idx[x] \in Nat
  BY DEF Walking, Parts, WorkersOK, WorkerT
<1>2. slots \in Seq(Fds) /\ replica_count \in 0 .. Len(slots) /\ Len(slots) \in Nat
  BY LenProperties DEF Parts, MasterT
<1>3. idx[x] \in 1 .. Len(slots)
  BY <1>1, <1>2
<1>4. slots[idx[x]] \in Fds
  BY <1>2, <1>3, ElementOfSeq
<1> QED
  BY <1>3, <1>4 DEF Parts, MasterT

LEMMA WalkWriteT == ASSUME Parts, NEW x \in Peers, WalkWrite(x) PROVE Parts'
<1> DEFINE y == desc[slots[idx[x]]]
<1>1. /\ Walking(x) /\ y # Closed /\ idx' = [idx EXCEPT ![x] = @ + 1]
      /\ UNCHANGED <<desc, slots, replica_count, alive, peer, up, fd, wpc, num, shut>>
      /\ UNCHANGED <<rpc, head, received, applied, unsent, writes, by, since>>
  BY DEF WalkWrite, replicaVars
<1>2. y \in Peers
  BY <1>1, SlotType
<1>3. num[x] \in Nat
  BY DEF Parts, WorkerT
<1>4. Header(num[x]) \in Unit /\ Elements(num[x]) \in Unit
  BY <1>3 DEF Header, Elements, Unit
<1>5. \/ /\ Deliver(y, <<Header(num[x]), Elements(num[x])>>)
         /\ repl_offset' = repl_offset + 2 /\ UNCHANGED <<faults, calm>>
      \/ /\ faults > 0 /\ Deliver(y, <<Header(num[x])>>)
         /\ repl_offset' = repl_offset + 1
         /\ faults' = faults - 1 /\ calm' = FALSE
  BY DEF WalkWrite
<1> HIDE DEF y
<1>6. down' \in [Peers -> Seq(Unit)]
  <2>1. <<Header(num[x]), Elements(num[x])>> \in Seq(Unit) /\ <<Header(num[x])>> \in Seq(Unit)
    BY <1>4
  <2> QED
    BY <1>2, <1>5, <2>1, DeliverT
<1>7. repl_offset' \in Int /\ faults' \in Nat /\ calm' \in BOOLEAN
  <2>1. repl_offset \in Int /\ faults \in Nat /\ calm \in BOOLEAN
    BY DEF Parts, MasterT, CountT
  <2>2. repl_offset' = repl_offset + 2 \/ repl_offset' = repl_offset + 1
    BY <1>5
  <2>3. UNCHANGED <<faults, calm>> \/ (faults > 0 /\ faults' = faults - 1 /\ calm' = FALSE)
    BY <1>5
  <2>4. calm' \in BOOLEAN
    BY <2>1, <2>3, Zenon
  <2> QED
    BY <2>1, <2>2, <2>3, <2>4
<1>8. WorkerT' /\ WorkersOK'
  BY <1>1 DEF Parts, WorkerT, WorkersOK, Walking
<1>9. PeerT' /\ MasterT'
  BY <1>1, <1>6, <1>7, KeptMaster DEF Parts, PeerT, MasterT
<1> QED
  BY <1>1, <1>7, <1>8, <1>9, KeptReplicas, KeptCounts DEF Parts, CountT

LEMMA WalkFailT == ASSUME Parts, NEW x \in Peers, WalkFail(x) PROVE Parts'
<1>1. /\ Walking(x) /\ shut' = [shut EXCEPT ![x] = slots[idx[x]]]
      /\ wpc' = [wpc EXCEPT ![x] = "shut"] /\ calm' = FALSE
      /\ UNCHANGED <<desc, slots, replica_count, repl_offset, alive, peer, up, down, fd, num>>
      /\ UNCHANGED <<idx, rpc, head, received, applied, unsent, writes, by, since>>
  BY DEF WalkFail, listVars, linkVars, replicaVars
<1>2. faults' \in Nat
  <2>1. faults' = faults \/ (faults > 0 /\ faults' = faults - 1)
    BY DEF WalkFail
  <2> QED
    BY <2>1 DEF Parts, CountT
<1>3. slots[idx[x]] \in 0 .. NumFds
  BY <1>1, SlotType
<1>4. WorkerT' /\ WorkersOK'
  BY <1>1, <1>3 DEF Parts, WorkerT, WorkersOK, Stages, Walking
<1> QED
  BY <1>1, <1>2, <1>4, KeptMaster, KeptPeers, KeptReplicas, KeptCounts DEF Parts, MasterT, CountT

\* Taking a number off the list shortens the list and not its array.
LEMMA removeReplicaT ==
    ASSUME MasterT, NEW f, removeReplica(f)
    PROVE  slots' \in Seq(Fds) /\ Len(slots') = Len(slots) /\ replica_count' \in 0 .. Len(slots)
<1> DEFINE hits == {i \in 1 .. replica_count : slots[i] = f}
           n == replica_count
           m == Min(hits)
<1>1. slots \in Seq(Fds) /\ Len(slots) \in Nat /\ n \in 0 .. Len(slots)
  BY LenProperties DEF MasterT
<1>2. CASE hits = {} /\ UNCHANGED <<slots, replica_count>>
  BY <1>1, <1>2
<1>3. CASE /\ hits # {}
           /\ slots' = RemoveAt(SubSeq(slots, 1, n), m) \o SubSeq(slots, n, Len(slots))
           /\ replica_count' = n - 1
  <2>1. m \in 1 .. n
    <3>1. hits \in SUBSET Nat
      OBVIOUS
    <3>2. m \in hits
      BY <1>3, <3>1, MinFound
    <3> QED
      BY <3>2
  <2> HIDE DEF hits, m
  <2>2. n \in 1 .. Len(slots)
    BY <1>1, <2>1
  <2> DEFINE a == SubSeq(slots, 1, n)
             b == SubSeq(a, 1, m - 1)
             c == SubSeq(a, m + 1, n)
             d == SubSeq(slots, n, Len(slots))
  <2>3. a \in Seq(Fds) /\ Len(a) = n
    BY <1>1, <2>2, SubSeqProperties
  <2>4. d \in Seq(Fds) /\ Len(d) = Len(slots) - n + 1
    BY <1>1, <2>2, SubSeqProperties
  <2> HIDE DEF a, d
  <2>5. b \in Seq(Fds) /\ Len(b) = m - 1
    BY <1>1, <2>1, <2>3, SubSeqProperties
  <2>6. c \in Seq(Fds) /\ Len(c) = n - m
    BY <1>1, <2>1, <2>3, SubSeqProperties
  <2>7. RemoveAt(a, m) = b \o c
    BY <2>3 DEF RemoveAt
  <2> HIDE DEF b, c
  <2>8. b \o c \in Seq(Fds) /\ Len(b \o c) = n - 1
    <3>1. b \o c \in Seq(Fds) /\ Len(b \o c) = Len(b) + Len(c)
      BY <2>5, <2>6, ConcatProperties
    <3>2. Len(b) + Len(c) = n - 1
      BY <1>1, <2>1, <2>5, <2>6
    <3> QED
      BY <3>1, <3>2
  <2>9. slots' = (b \o c) \o d
    BY <1>3, <2>7 DEF a, d
  <2>10. (b \o c) \o d \in Seq(Fds) /\ Len((b \o c) \o d) = Len(b \o c) + Len(d)
    BY <2>4, <2>8, ConcatProperties
  <2>11. Len(b \o c) + Len(d) = Len(slots) /\ n - 1 \in 0 .. Len(slots)
    BY <1>1, <2>2, <2>4, <2>8
  <2> QED
    BY <1>3, <2>9, <2>10, <2>11
<1> QED
  BY <1>2, <1>3 DEF removeReplica

LEMMA WalkShutT == ASSUME Parts, NEW x \in Peers, WalkShut(x) PROVE Parts'
<1>1. /\ wpc[x] = "shut" /\ removeReplica(shut[x])
      /\ desc' = [desc EXCEPT ![shut[x]] = Closed] /\ repl_offset' = repl_offset - 1
      /\ shut' = [shut EXCEPT ![x] = 0] /\ wpc' = [wpc EXCEPT ![x] = "walk"]
      /\ UNCHANGED <<alive, peer, up, down, fd, num, idx, rpc, head, received, applied>>
      /\ UNCHANGED <<writes, by, unsent, faults, since, calm>>
  BY DEF WalkShut, linkVars, replicaVars, countVars
<1>2. slots' \in Seq(Fds) /\ Len(slots') = Len(slots) /\ replica_count' \in 0 .. Len(slots)
  BY <1>1, removeReplicaT DEF Parts
<1>3. MasterT'
  <2>1. desc \in [Fds -> Peers \cup {Closed}] /\ repl_offset \in Int
    BY DEF Parts, MasterT
  <2>2. desc' \in [Fds -> Peers \cup {Closed}]
    BY <1>1, <2>1, Zenon
  <2>3. repl_offset' \in Int
    BY <1>1, <2>1
  <2> QED
    BY <1>1, <1>2, <2>2, <2>3 DEF Parts, MasterT
<1>4. WorkerT' /\ WorkersOK'
  BY <1>1, <1>2 DEF Parts, WorkerT, WorkersOK, Stages
<1> QED
  BY <1>1, <1>3, <1>4, KeptPeers, KeptReplicas, KeptCounts DEF Parts, CountT

LEMMA BrokenPipeT == ASSUME Parts, NEW x \in Peers, BrokenPipe(x) PROVE Parts'
<1>1. /\ alive' = FALSE /\ desc' = [f \in Fds |-> Closed]
      /\ UNCHANGED <<slots, replica_count, repl_offset, peer, up, down, fd, wpc, num, idx, shut>>
      /\ UNCHANGED <<rpc, head, received, applied, writes, by, unsent, faults, since, calm>>
  BY DEF BrokenPipe, listVars, linkVars, workerVars, replicaVars, countVars
<1> QED
  BY <1>1, KeptMaster, KeptWorkers, KeptPeers, KeptReplicas, KeptCounts
     DEF Parts, MasterT, CountT

\* The replica's process ends.
LEMMA EndT ==
    ASSUME Parts, NEW r \in Replicas, NEW how \in Places, End(r, how),
           UNCHANGED <<desc, slots, replica_count, repl_offset, alive, up>>,
           UNCHANGED <<fd, wpc, num, idx, shut, head, received, applied>>,
           UNCHANGED <<writes, by, unsent, since>>, faults' \in Nat
    PROVE  Parts'
<1>1. r \in Peers /\ <<>> \in Seq(Unit)
  BY DEF Peers
<1>2. /\ rpc' = [rpc EXCEPT ![r] = how] /\ peer' = [peer EXCEPT ![r] = "gone"]
      /\ down' = [down EXCEPT ![r] = <<>>] /\ calm' = FALSE
  BY DEF End
<1>3. PeerT' /\ ReplicaT'
  BY <1>1, <1>2 DEF Parts, PeerT, ReplicaT
<1> QED
  BY <1>2, <1>3, KeptMaster, KeptWorkers, KeptCounts DEF Parts, MasterT, CountT

\* The replica reads from the front of its connection.
LEMMA ReadT ==
    ASSUME Parts, NEW r \in Replicas,
           rpc' \in [Replicas -> Places], head' \in [Replicas -> Nat],
           received' \in [Replicas -> Seq(Nat)], applied' \in [Replicas -> Seq(Nat)],
           up' \in [Peers -> Seq(Requested)],
           down' = down \/ \E q \in Seq(Unit) : down' = [down EXCEPT ![r] = q],
           UNCHANGED <<desc, slots, replica_count, repl_offset, alive, calm, peer>>,
           UNCHANGED <<fd, wpc, num, idx, shut, writes, by, unsent, faults, since>>
    PROVE  Parts'
<1>1. r \in Peers
  BY DEF Peers
<1>2. PeerT' /\ ReplicaT'
  BY <1>1, ZenonT(60) DEF Parts, PeerT, ReplicaT
<1> QED
  BY <1>2, KeptMaster, KeptWorkers, KeptCounts DEF Parts, MasterT, CountT

\* The phases of the handshake follow each other.
LEMMA NextPhase ==
    ASSUME NEW phase \in DOMAIN Expected
    PROVE  LET next == phases[(CHOOSE i \in DOMAIN phases : phases[i] = phase) + 1]
           IN  /\ phase = "ping" => next = "port"
               /\ phase = "port" => next = "capa"
               /\ phase = "capa" => next = "psync"
               /\ phase = "psync" => next = "stream"
<1>1. /\ DOMAIN phases = 1 .. 5 /\ phases[1] = "ping" /\ phases[2] = "port"
      /\ phases[3] = "capa" /\ phases[4] = "psync" /\ phases[5] = "stream"
  BY DEF phases
<1> HIDE DEF phases
<1>2. \A i \in 1 .. 5 : i = 1 \/ i = 2 \/ i = 3 \/ i = 4 \/ i = 5
  OBVIOUS
<1> DEFINE k == CHOOSE i \in DOMAIN phases : phases[i] = phase
<1>3. \E i \in DOMAIN phases : phases[i] = phase
  <2>1. 1 \in DOMAIN phases /\ 2 \in DOMAIN phases /\ 3 \in DOMAIN phases /\ 4 \in DOMAIN phases
    BY <1>1
  <2>2. phase = "ping" \/ phase = "port" \/ phase = "capa" \/ phase = "psync"
    BY Literals
  <2> QED
    BY <1>1, <2>1, <2>2
<1>4. k \in DOMAIN phases /\ phases[k] = phase
  BY <1>3
<1> HIDE DEF k
<1>5. /\ phase = "ping" => k = 1
      /\ phase = "port" => k = 2
      /\ phase = "capa" => k = 3
      /\ phase = "psync" => k = 4
  BY <1>1, <1>2, <1>4
<1>6. /\ phase = "ping" => phases[k + 1] = "port"
      /\ phase = "port" => phases[k + 1] = "capa"
      /\ phase = "capa" => phases[k + 1] = "psync"
      /\ phase = "psync" => phases[k + 1] = "stream"
  BY <1>1, <1>5
<1> QED
  BY <1>6 DEF k

LEMMA HandshakeStepT == ASSUME Parts, NEW r \in Replicas, HandshakeStep(r) PROVE Parts'
<1> DEFINE next == phases[(CHOOSE i \in DOMAIN phases : phases[i] = rpc[r]) + 1]
<1>1. /\ rpc[r] \in DOMAIN Expected /\ down[r] # <<>> /\ rpc' = [rpc EXCEPT ![r] = next]
      /\ \/ next \in DOMAIN Requests /\ writeExactly(r, Requests[next])
         \/ next \notin DOMAIN Requests /\ UNCHANGED up
      /\ down' = [down EXCEPT ![r] = Tail(@)]
      /\ UNCHANGED <<desc, slots, replica_count, repl_offset, alive, calm, peer>>
      /\ UNCHANGED <<fd, wpc, num, idx, shut, head, received, applied>>
      /\ UNCHANGED <<writes, by, unsent, faults, since>>
  BY DEF HandshakeStep, Shaking, listVars, workerVars, countVars
<1>2. next \in {"port", "capa", "psync", "stream"}
  BY <1>1, NextPhase, Literals
<1> HIDE DEF next
<1>3. r \in Peers
  BY DEF Peers
<1>4. rpc' \in [Replicas -> Places]
  BY <1>1, <1>2 DEF Parts, ReplicaT, Places
<1>5. up' \in [Peers -> Seq(Requested)]
  <2>1. CASE next \in DOMAIN Requests /\ writeExactly(r, Requests[next])
    <3>1. Requests[next] \in Requested
      BY <2>1, Literals DEF Requested
    <3> QED
      BY <1>3, <2>1, <3>1 DEF Parts, PeerT, writeExactly
  <2>2. CASE UNCHANGED up
    BY <2>2 DEF Parts, PeerT
  <2> QED
    BY <1>1, <2>1, <2>2
<1>6. \E q \in Seq(Unit) : down' = [down EXCEPT ![r] = q]
  <2>1. Tail(down[r]) \in Seq(Unit)
    BY <1>1, <1>3, TailOf DEF Parts, PeerT
  <2> QED
    BY <1>1, <2>1
<1>7. ReplicaT
  BY DEF Parts
<1> QED
  BY <1>1, <1>4, <1>5, <1>6, <1>7, ReadT DEF ReplicaT

\* A command is parsed; it has a number.
LEMMA ReceiveCommandT ==
    ASSUME ReplicaT, NEW r \in Replicas, NEW n \in Nat, ReceiveCommand(r, n)
    PROVE  ReplicaT'
<1>1. Append(received[r], n) \in Seq(Nat) /\ Append(applied[r], n) \in Seq(Nat)
  BY AppendProperties DEF ReplicaT
<1>2. /\ head' = [head EXCEPT ![r] = 0]
      /\ received' = [received EXCEPT ![r] = Append(received[r], n)] /\ UNCHANGED rpc
      /\ applied' = applied \/ applied' = [applied EXCEPT ![r] = Append(applied[r], n)]
  BY DEF ReceiveCommand
<1> QED
  BY <1>1, <1>2 DEF ReplicaT

LEMMA ReceiveT ==
    ASSUME Parts, NEW r \in Replicas,
           ReceiveWhole(r) \/ ReceiveHeader(r) \/ ReceiveElements(r) \/ ReceiveStray(r)
    PROVE  Parts'
<1>0. r \in Peers /\ down[r] \in Seq(Unit) /\ up \in [Peers -> Seq(Requested)]
  BY DEF Parts, PeerT, Peers
<1>1. /\ UNCHANGED <<desc, slots, replica_count, repl_offset, alive, calm, peer, up>>
      /\ UNCHANGED <<fd, wpc, num, idx, shut, writes, by, unsent, faults, since>>
  BY DEF ReceiveWhole, ReceiveHeader, ReceiveElements, ReceiveStray, listVars, workerVars,
     countVars
<1>2. CASE ReceiveWhole(r)
  <2>1. Len(down[r]) >= 2 /\ down' = [down EXCEPT ![r] = Tail(Tail(@))]
    BY <1>2 DEF ReceiveWhole
  <2>2. Tail(Tail(down[r])) \in Seq(Unit)
    BY <1>0, <2>1, TwoOff
  <2>3. down[r][1].what \in Nat
    <3>1. PICK n \in 1 .. writes : SubSeq(down[r], 1, 2) = <<Header(n), Elements(n)>>
      BY <1>2 DEF ReceiveWhole
    <3>2. SubSeq(down[r], 1, 2)[1] = down[r][1]
      BY <1>0, <2>1, LenProperties, SubSeqProperties
    <3>3. down[r][1] = Header(n)
      <4>1. <<Header(n), Elements(n)>>[1] = Header(n)
        OBVIOUS
      <4> QED
        BY <3>1, <3>2, <4>1
    <3> QED
      BY <3>3 DEF Header
  <2>4. ReplicaT'
    BY <1>2, <2>3, ReceiveCommandT DEF Parts, ReceiveWhole
  <2> QED
    BY <1>0, <1>1, <2>1, <2>2, <2>4, ReadT DEF ReplicaT
<1>3. CASE ReceiveHeader(r)
  <2>1. down[r] # <<>> /\ down' = [down EXCEPT ![r] = Tail(@)]
    BY <1>3 DEF ReceiveHeader
  <2>2. Tail(down[r]) \in Seq(Unit) /\ Head(down[r]) \in Unit
    BY <1>0, <2>1, TailOf
  <2>3. Head(down[r]).what \in Nat
    BY <1>3, <2>2 DEF ReceiveHeader, Unit
  <2>4. ReplicaT'
    BY <1>3, <2>3 DEF Parts, ReplicaT, ReceiveHeader
  <2> QED
    BY <1>0, <1>1, <2>1, <2>2, <2>4, ReadT DEF ReplicaT
<1>4. CASE ReceiveElements(r)
  <2>1. down[r] # <<>> /\ down' = [down EXCEPT ![r] = Tail(@)]
    BY <1>4 DEF ReceiveElements
  <2>2. Tail(down[r]) \in Seq(Unit)
    BY <1>0, <2>1, TailOf
  <2>3. head[r] \in Nat
    BY DEF Parts, ReplicaT
  <2>4. ReplicaT'
    BY <1>4, <2>3, ReceiveCommandT DEF Parts, ReceiveElements
  <2> QED
    BY <1>0, <1>1, <2>1, <2>2, <2>4, ReadT DEF ReplicaT
<1>5. CASE ReceiveStray(r)
  <2>1. down[r] # <<>> /\ down' = [down EXCEPT ![r] = Tail(@)]
    BY <1>5 DEF ReceiveStray
  <2>2. Tail(down[r]) \in Seq(Unit)
    BY <1>0, <2>1, TailOf
  <2>3. ReplicaT'
    BY <1>5 DEF Parts, ReplicaT, ReceiveStray, Places
  <2> QED
    BY <1>0, <1>1, <2>1, <2>2, <2>3, ReadT DEF ReplicaT
<1> QED
  BY <1>2, <1>3, <1>4, <1>5

LEMMA ReplicaStepT ==
    ASSUME Parts, NEW r \in Replicas, ReplicaStep(r) \/ ReplicaDies(r)
    PROVE  Parts'
<1> USE DEF listVars, workerVars, countVars, linkVars
<1>1. CASE HandshakeFail(r)
  <2>1. faults \in Nat
    BY DEF Parts, CountT
  <2> QED
    BY <1>1, <2>1, EndT DEF HandshakeFail, Places
<1>2. CASE ReceiveCrash(r) \/ ReplicaDies(r)
  <2>1. faults' \in Nat
    BY <1>2 DEF ReceiveCrash, ReplicaDies, Parts, CountT
  <2>2. \E how \in Places : End(r, how)
    BY <1>2 DEF ReceiveCrash, ReplicaDies, Places
  <2> QED
    BY <1>2, <2>1, <2>2, EndT DEF ReceiveCrash, ReplicaDies
<1>3. CASE ReceiveEnd(r)
  <2>1. ReplicaT'
    BY <1>3 DEF Parts, ReplicaT, ReceiveEnd, Places
  <2> QED
    BY <1>3, <2>1, KeptMaster, KeptWorkers, KeptPeers, KeptCounts
       DEF Parts, MasterT, CountT, ReceiveEnd
<1> QED
  BY <1>1, <1>2, <1>3, HandshakeStepT, ReceiveT DEF ReplicaStep

-----------------------------------------------------------------------------
LEMMA InitT == Init => Parts
<1> SUFFICES ASSUME Init PROVE Parts
  OBVIOUS
<1>1. PICK c \in Casts : /\ peer = [x \in Peers |-> IF x \in c.peers THEN "new" ELSE "absent"]
                         /\ unsent = c.writes /\ faults = c.faults
  BY DEF Init
<1>2. unsent \in Nat /\ faults \in Nat
  BY <1>1
<1>3. MasterT
  BY DEF Init, MasterT
<1>4. PeerT
  BY <1>1 DEF Init, PeerT
<1>5. WorkerT /\ WorkersOK
  BY DEF Init, WorkerT, WorkersOK, Stages
<1>6. ReplicaT
  BY DEF Init, ReplicaT, Places
<1>7. CountT
  BY <1>2 DEF Init, CountT
<1> QED
  BY <1>3, <1>4, <1>5, <1>6, <1>7 DEF Parts

LEMMA NextT == Parts /\ [Next]_vars => Parts'
<1> SUFFICES ASSUME Parts, [Next]_vars PROVE Parts'
  OBVIOUS
<1>1. ASSUME NEW x \in Peers, Connect(x) \/ WorkerStep(x) PROVE Parts'
  BY <1>1, ConnectT, RecvT, WalkEndT, addReplicaT, sendReplyT, WalkWriteT, WalkFailT,
     WalkShutT, BrokenPipeT DEF WorkerStep
<1>2. ASSUME NEW w \in Writers, SendWrite(w) \/ Leave(w) PROVE Parts'
  BY <1>2, ClientT
<1>3. ASSUME NEW r \in Replicas, ReplicaStep(r) \/ ReplicaDies(r) PROVE Parts'
  BY <1>3, ReplicaStepT
<1>4. CASE UNCHANGED vars
  BY <1>4, KeptMaster, KeptWorkers, KeptPeers, KeptReplicas, KeptCounts
     DEF Parts, MasterT, CountT, vars, listVars, linkVars, workerVars, replicaVars, countVars
<1> QED
  BY <1>1, <1>2, <1>3, <1>4 DEF Next

\* For any number of peers, descriptors, commands and faults, whatever numbers
\* are closed and used again: the loop never reads behind the list, addReplica
\* never writes behind its end, and every connection carries what it may.
THEOREM TypeCorrect == Spec => []TypeOK
<1>1. Parts => TypeOK
  BY WholeT DEF TInv
<1> QED
  BY <1>1, InitT, NextT, PTL DEF Spec

-----------------------------------------------------------------------------
(* Sequences of units *)

LEMMA UnitFacts ==
    ASSUME NEW n \in Nat
    PROVE  /\ Header(n) \in Unit /\ Elements(n) \in Unit
           /\ Header(n).kind = "head" /\ Elements(n).kind = "body"
           /\ Header(n).what = n /\ Elements(n).what = n
  BY DEF Header, Elements, Unit

\* A reply at the end.
LEMMA AddReply ==
    ASSUME NEW s \in Seq(Unit), NEW u \in Unit, u.kind = "reply"
    PROVE  /\ \A n : Has(s \o <<u>>, n) <=> Has(s, n)
           /\ \A n : Within(s, n) => Within(s \o <<u>>, n)
           /\ \A b : InOrder(s, b) => InOrder(s \o <<u>>, b)
           /\ Paired(s) => Paired(s \o <<u>>)
           /\ OnlyReplies(s) => OnlyReplies(s \o <<u>>)
           /\ NoReply(s) => OneReply(s \o <<u>>)
<1> DEFINE t == s \o <<u>>
           L == Len(s)
<1>1. L \in Nat /\ Len(<<u>>) = 1 /\ <<u>> \in Seq(Unit) /\ <<u>>[1] = u
  BY LenProperties
<1>2. Len(t) = L + 1 /\ (\A i \in 1 .. L : t[i] = s[i]) /\ t[L + 1] = u
  <2>1. /\ Len(t) = L + Len(<<u>>)
        /\ \A i \in 1 .. Len(t) : t[i] = IF i <= L THEN s[i] ELSE <<u>>[i - L]
    BY <1>1, ConcatProperties
  <2> HIDE DEF t, L
  <2>2. Len(t) = L + 1
    BY <1>1, <2>1
  <2>3. t[L + 1] = <<u>>[(L + 1) - L] /\ (L + 1) - L = 1
    BY <1>1, <2>1, <2>2
  <2> QED
    BY <1>1, <2>1, <2>2, <2>3
<1> HIDE DEF t, L
<1>3. \A i \in 1 .. (L + 1) : i \in 1 .. L \/ (i = L + 1 /\ t[i].kind = "reply")
  BY <1>1, <1>2
<1>4. 1 .. L \subseteq 1 .. (L + 1) /\ \A i \in 1 .. L : i < L + 1
  BY <1>1
<1>5. ASSUME NEW n PROVE Has(t, n) <=> Has(s, n)
  BY <1>2, <1>3, <1>4 DEF Has, L
<1>6. ASSUME NEW n, Within(s, n) PROVE Within(t, n)
  BY <1>2, <1>3, <1>6 DEF Within, L
<1>7. ASSUME NEW b, InOrder(s, b) PROVE InOrder(t, b)
  BY <1>2, <1>3, <1>7 DEF InOrder, L
<1>8. ASSUME Paired(s) PROVE Paired(t)
  <2>1. ASSUME NEW i \in 1 .. L, t[i].kind = "head"
        PROVE  i + 1 <= L + 1 /\ t[i + 1] = Elements(t[i].what)
    <3>1. i + 1 <= L /\ s[i + 1] = Elements(s[i].what)
      BY <1>2, <1>8, <2>1 DEF Paired, L
    <3>2. i + 1 \in 1 .. L
      BY <1>1, <3>1
    <3> QED
      BY <1>1, <1>2, <3>1, <3>2
  <2>2. ASSUME NEW i \in 1 .. L, t[i].kind = "body"
        PROVE  1 <= i - 1 /\ t[i - 1] = Header(t[i].what)
    <3>1. 1 <= i - 1 /\ s[i - 1] = Header(s[i].what)
      BY <1>2, <1>8, <2>2 DEF Paired, L
    <3>2. i - 1 \in 1 .. L
      BY <1>1, <3>1
    <3> QED
      BY <1>2, <3>1, <3>2
  <2> QED
    BY <1>2, <1>3, <2>1, <2>2 DEF Paired
<1>9. OnlyReplies(s) => OnlyReplies(t)
  BY <1>2, <1>3 DEF OnlyReplies, L
<1>10. NoReply(s) => OneReply(t)
  BY <1>2, <1>3 DEF NoReply, OneReply, L
<1> QED
  BY <1>5, <1>6, <1>7, <1>8, <1>9, <1>10 DEF t

\* A command at the end.
LEMMA AddCommand ==
    ASSUME NEW s \in Seq(Unit), NEW n \in Nat
    PROVE  LET t == s \o <<Header(n), Elements(n)>>
           IN  /\ \A m : Has(t, m) <=> Has(s, m) \/ m = n
               /\ \A w \in Nat : Within(s, w) /\ n \in 1 .. w => Within(t, w)
               /\ \A b : InOrder(s, b) /\ ~Has(s, n) /\ (\A m : Has(s, m) /\ b[m] = b[n] => m < n)
                            => InOrder(t, b)
               /\ Paired(s) => Paired(t)
               /\ NoReply(s) => NoReply(t)
               /\ OneReply(s) => OneReply(t)
<1> DEFINE pair == <<Header(n), Elements(n)>>
           t == s \o pair
           L == Len(s)
<1>1. L \in Nat /\ Len(pair) = 2 /\ pair \in Seq(Unit) /\ pair[1] = Header(n) /\ pair[2] = Elements(n)
  BY LenProperties, UnitFacts
<1> HIDE DEF pair
<1>2. /\ Len(t) = L + 2 /\ (\A i \in 1 .. L : t[i] = s[i])
      /\ t[L + 1] = Header(n) /\ t[L + 2] = Elements(n)
  <2>1. /\ Len(t) = L + Len(pair)
        /\ \A i \in 1 .. Len(t) : t[i] = IF i <= L THEN s[i] ELSE pair[i - L]
    <3>1. ASSUME NEW q \in Seq(Unit)
          PROVE  /\ Len(s \o q) = Len(s) + Len(q)
                 /\ \A i \in 1 .. Len(s \o q) : (s \o q)[i] = IF i <= Len(s) THEN s[i] ELSE q[i - Len(s)]
      BY ConcatProperties
    <3> QED
      BY <1>1, <3>1
  <2> HIDE DEF t, L
  <2>2. Len(t) = L + 2
    BY <1>1, <2>1
  <2>3. (L + 1) - L = 1 /\ (L + 2) - L = 2 /\ ~(L + 1 <= L) /\ ~(L + 2 <= L)
        /\ L + 1 \in 1 .. (L + 2) /\ L + 2 \in 1 .. (L + 2) /\ 1 .. L \subseteq 1 .. (L + 2)
    BY <1>1
  <2>4. t[L + 1] = pair[1] /\ t[L + 2] = pair[2]
    BY <2>1, <2>2, <2>3
  <2>5. \A i \in 1 .. L : t[i] = s[i]
    BY <1>1, <2>1, <2>2, <2>3
  <2> QED
    BY <1>1, <2>2, <2>4, <2>5
<1>3. /\ t[L + 1].kind = "head" /\ t[L + 2].kind = "body"
      /\ t[L + 1].what = n /\ t[L + 2].what = n
  BY <1>2, UnitFacts
<1> HIDE DEF t, L
<1>4. \A i \in 1 .. (L + 2) : i \in 1 .. L \/ i = L + 1 \/ i = L + 2
  BY <1>1
<1>5. /\ 1 .. L \subseteq 1 .. (L + 2) /\ L + 2 \in 1 .. (L + 2)
      /\ \A i \in 1 .. L : i < L + 1 /\ i < L + 2 /\ ~(L + 2 < i)
      /\ ~(L + 2 < L + 2)
  BY <1>1
<1>6. ASSUME NEW m PROVE Has(t, m) <=> Has(s, m) \/ m = n
  BY <1>2, <1>3, <1>4, <1>5 DEF Has, L
<1>7. ASSUME NEW w \in Nat, Within(s, w), n \in 1 .. w PROVE Within(t, w)
  BY <1>2, <1>3, <1>4, <1>7 DEF Within, L
<1>8. ASSUME NEW b, InOrder(s, b), ~Has(s, n), \A m : Has(s, m) /\ b[m] = b[n] => m < n
      PROVE  InOrder(t, b)
  <2>1. SUFFICES ASSUME NEW i \in 1 .. (L + 2), NEW j \in 1 .. (L + 2),
                        t[i].kind = "body", t[j].kind = "body", i < j
                 PROVE  /\ t[i].what # t[j].what
                        /\ b[t[i].what] = b[t[j].what] => t[i].what < t[j].what
    BY <1>2 DEF InOrder
  <2>2. i # L + 1 /\ j # L + 1
    BY <1>3, <2>1
  <2>3. i \in 1 .. L
    BY <1>1, <1>4, <2>1, <2>2
  <2>4. CASE j \in 1 .. L
    BY <1>2, <1>8, <2>1, <2>3, <2>4 DEF InOrder, L
  <2>5. CASE j = L + 2
    <3>1. Has(s, t[i].what)
      BY <1>2, <2>1, <2>3 DEF Has, L
    <3> QED
      BY <1>3, <1>8, <2>5, <3>1
  <2> QED
    BY <1>4, <2>2, <2>4, <2>5
<1>9. ASSUME Paired(s) PROVE Paired(t)
  <2>1. ASSUME NEW i \in 1 .. L, t[i].kind = "head"
        PROVE  i + 1 <= L + 2 /\ t[i + 1] = Elements(t[i].what)
    <3>1. i + 1 <= L /\ s[i + 1] = Elements(s[i].what)
      BY <1>2, <1>9, <2>1 DEF Paired, L
    <3>2. i + 1 \in 1 .. L /\ i + 1 <= L + 2
      BY <1>1, <3>1
    <3> QED
      BY <1>2, <3>1, <3>2
  <2>2. ASSUME NEW i \in 1 .. L, t[i].kind = "body"
        PROVE  1 <= i - 1 /\ t[i - 1] = Header(t[i].what)
    <3>1. 1 <= i - 1 /\ s[i - 1] = Header(s[i].what)
      BY <1>2, <1>9, <2>2 DEF Paired, L
    <3>2. i - 1 \in 1 .. L
      BY <1>1, <3>1
    <3> QED
      BY <1>2, <3>1, <3>2
  <2>3. (L + 1) + 1 = L + 2 /\ (L + 2) - 1 = L + 1 /\ L + 2 <= L + 2 /\ 1 <= L + 1
    BY <1>1
  <2>4. ASSUME NEW i \in 1 .. (L + 2)
        PROVE  /\ t[i].kind = "head" => i + 1 <= L + 2 /\ t[i + 1] = Elements(t[i].what)
               /\ t[i].kind = "body" => 1 <= i - 1 /\ t[i - 1] = Header(t[i].what)
    <3>1. CASE i \in 1 .. L
      BY <2>1, <2>2, <3>1
    <3>2. CASE i = L + 1
      BY <1>2, <1>3, <2>3, <3>2
    <3>3. CASE i = L + 2
      BY <1>2, <1>3, <2>3, <3>3
    <3> QED
      BY <1>4, <3>1, <3>2, <3>3
  <2> QED
    BY <1>2, <2>4 DEF Paired
<1>10. NoReply(s) => NoReply(t)
  BY <1>2, <1>3, <1>4 DEF NoReply, L
<1>11. OneReply(s) => OneReply(t)
  BY <1>2, <1>3, <1>4 DEF OneReply, L
<1> QED
  BY <1>6, <1>7, <1>8, <1>9, <1>10, <1>11 DEF t, pair

\* A unit other than elements is taken out.
Dropped(s, t, k) ==
    /\ Len(s) \in Nat /\ k \in 1 .. Len(s) /\ s[k].kind # "body"
    /\ Len(t) = Len(s) - 1
    /\ \A i \in 1 .. Len(t) : t[i] = IF i < k THEN s[i] ELSE s[i + 1]

LEMMA DropUnit ==
    ASSUME NEW s, NEW t, NEW k, Dropped(s, t, k)
    PROVE  /\ \A n : Has(t, n) <=> Has(s, n)
           /\ \A n : Within(s, n) => Within(t, n)
           /\ \A b : InOrder(s, b) => InOrder(t, b)
           /\ OnlyReplies(s) => OnlyReplies(t)
<1> DEFINE L == Len(s)
           at(i) == IF i < k THEN i ELSE i + 1
<1>1. /\ L \in Nat /\ k \in 1 .. L /\ Len(t) = L - 1
      /\ \A i \in 1 .. (L - 1) : t[i] = s[at(i)]
      /\ s[k].kind # "body"
  BY DEF Dropped
<1>2. /\ \A i \in 1 .. (L - 1) : at(i) \in 1 .. L
      /\ \A i, j \in 1 .. (L - 1) : i < j => at(i) < at(j)
  BY <1>1
<1>3. \A j \in 1 .. L : j # k => \E i \in 1 .. (L - 1) : at(i) = j
  <2>1. SUFFICES ASSUME NEW j \in 1 .. L, j # k PROVE \E i \in 1 .. (L - 1) : at(i) = j
    OBVIOUS
  <2>2. CASE j < k
    <3>1. j \in 1 .. (L - 1) /\ at(j) = j
      BY <1>1, <2>2
    <3> QED
      BY <3>1
  <2>3. CASE ~(j < k)
    <3>1. j - 1 \in 1 .. (L - 1) /\ at(j - 1) = j
      BY <1>1, <2>1, <2>3
    <3> QED
      BY <3>1
  <2> QED
    BY <2>2, <2>3
<1> HIDE DEF at, L
<1>4. ASSUME NEW n PROVE Has(t, n) <=> Has(s, n)
  <2>1. Has(t, n) => Has(s, n)
    BY <1>1, <1>2 DEF Has, L
  <2>2. ASSUME NEW j \in 1 .. L, s[j].kind = "body", s[j].what = n PROVE Has(t, n)
    <3>1. PICK i \in 1 .. (L - 1) : at(i) = j
      BY <1>1, <1>3, <2>2
    <3> QED
      BY <1>1, <2>2, <3>1 DEF Has
  <2> QED
    BY <2>1, <2>2 DEF Has, L
<1>5. ASSUME NEW n, Within(s, n) PROVE Within(t, n)
  BY <1>1, <1>2, <1>5 DEF Within, L
<1>6. ASSUME NEW b, InOrder(s, b) PROVE InOrder(t, b)
  <2>1. SUFFICES ASSUME NEW i \in 1 .. (L - 1), NEW j \in 1 .. (L - 1),
                        t[i].kind = "body", t[j].kind = "body", i < j
                 PROVE  /\ t[i].what # t[j].what
                        /\ b[t[i].what] = b[t[j].what] => t[i].what < t[j].what
    BY <1>1 DEF InOrder
  <2>2. at(i) \in 1 .. L /\ at(j) \in 1 .. L /\ at(i) < at(j) /\ t[i] = s[at(i)] /\ t[j] = s[at(j)]
    BY <1>1, <1>2, <2>1
  <2> QED
    BY <1>6, <2>1, <2>2 DEF InOrder, L
<1>7. OnlyReplies(s) => OnlyReplies(t)
  BY <1>1, <1>2 DEF OnlyReplies, L
<1> QED
  BY <1>4, <1>5, <1>6, <1>7


\* Units taken from the front, up to one that is not a header.
LEMMA PairedRest ==
    ASSUME NEW q, NEW t, NEW k \in Nat, Len(q) \in Nat, k <= Len(q), k >= 1,
           q[k].kind # "head", Len(t) = Len(q) - k,
           \A i \in 1 .. Len(t) : t[i] = q[i + k], Paired(q)
    PROVE  Paired(t)
<1> DEFINE L == Len(q)
           M == Len(t)
<1>0. L \in Nat /\ M = L - k /\ M \in Int
  OBVIOUS
<1> HIDE DEF L, M
<1>1. ASSUME NEW i \in 1 .. M
      PROVE  /\ t[i].kind = "head" => i + 1 <= M /\ t[i + 1] = Elements(t[i].what)
             /\ t[i].kind = "body" => 1 <= i - 1 /\ t[i - 1] = Header(t[i].what)
  <2>1. i + k \in 1 .. L /\ t[i] = q[i + k]
    BY <1>0 DEF M
  <2>2. CASE t[i].kind = "head"
    <3>1. (i + k) + 1 <= L /\ q[(i + k) + 1] = Elements(q[i + k].what)
      BY <2>1, <2>2 DEF Paired, L
    <3>2. i + 1 \in 1 .. M /\ (i + k) + 1 = (i + 1) + k
      <4>1. i \in Int /\ i >= 1 /\ k \in Int /\ L \in Int
        BY <1>0
      <4>2. i + k + 1 <= L
        BY <3>1
      <4> QED
        BY <1>0, <4>1, <4>2
    <3>3. t[i + 1] = q[(i + 1) + k]
      BY <3>2 DEF M
    <3> QED
      BY <2>1, <2>2, <3>1, <3>2, <3>3
  <2>3. CASE t[i].kind = "body"
    <3>1. 1 <= (i + k) - 1 /\ q[(i + k) - 1] = Header(q[i + k].what)
      BY <2>1, <2>3 DEF Paired, L
    <3>2. i # 1
      <4>1. q[(i + k) - 1].kind = "head"
        BY <3>1 DEF Header
      <4>2. i = 1 => (i + k) - 1 = k
        OBVIOUS
      <4> QED
        BY <4>1, <4>2
    <3>3. i - 1 \in 1 .. M /\ (i + k) - 1 = (i - 1) + k
      BY <1>0, <3>2
    <3>4. t[i - 1] = q[(i - 1) + k]
      BY <3>3 DEF M
    <3> QED
      BY <2>1, <2>3, <3>1, <3>3, <3>4
  <2> QED
    BY <2>2, <2>3
<1> QED
  BY <1>1 DEF Paired, M

\* Nothing but replies is no command at all.
LEMMA NoCommand ==
    ASSUME NEW s, OnlyReplies(s)
    PROVE  /\ \A n : ~Has(s, n) /\ Within(s, n)
           /\ \A b : InOrder(s, b)
           /\ Paired(s)
<1>1. \A i \in 1 .. Len(s) : s[i].kind # "body" /\ s[i].kind # "head"
  BY DEF OnlyReplies
<1> QED
  BY <1>1 DEF Has, Within, InOrder, Paired

-----------------------------------------------------------------------------
(* The stream of a replica *)

Parsed(rc) == [i \in 1 .. Len(rc) |-> Elements(rc[i])]
Buffered(hd) == IF hd = 0 THEN <<>> ELSE <<Header(hd)>>

LEMMA PartsOfStream ==
    \A r \in Replicas : Flow(r) = Buffered(head[r]) \o down[r]
                         /\ CommandStream(r) = Parsed(received[r]) \o Flow(r)
  BY DEF Flow, CommandStream, Buffered, Parsed

LEMMA UnitConcat ==
    ASSUME NEW a \in Seq(Unit), NEW b \in Seq(Unit)
    PROVE  /\ a \o b \in Seq(Unit) /\ Len(a \o b) = Len(a) + Len(b)
           /\ \A i \in 1 .. (Len(a) + Len(b)) :
                 (a \o b)[i] = IF i <= Len(a) THEN a[i] ELSE b[i - Len(a)]
  BY ConcatProperties

LEMMA UnitAssociative ==
    \A a, b, c \in Seq(Unit) : (a \o b) \o c = a \o (b \o c)
<1>1. ASSUME NEW S, NEW a \in Seq(S), NEW b \in Seq(S), NEW c \in Seq(S)
      PROVE  (a \o b) \o c = a \o (b \o c)
  BY ConcatAssociative, SMTT(30)
<1> QED
  BY <1>1, SMTT(30)

LEMMA BufferedType ==
    ASSUME NEW hd \in Nat
    PROVE  /\ Buffered(hd) \in Seq(Unit)
           /\ hd = 0 => Buffered(hd) = <<>>
           /\ hd # 0 => Len(Buffered(hd)) = 1 /\ Buffered(hd)[1] = Header(hd)
<1>1. Header(hd) \in Unit
  BY UnitFacts
<1>2. <<>> \in Seq(Unit) /\ <<Header(hd)>> \in Seq(Unit)
  BY <1>1
<1> QED
  BY <1>2 DEF Buffered

LEMMA ParsedType ==
    ASSUME NEW rc \in Seq(Nat)
    PROVE  /\ Parsed(rc) \in Seq(Unit) /\ Len(Parsed(rc)) = Len(rc)
           /\ \A i \in 1 .. Len(rc) : Parsed(rc)[i] = Elements(rc[i])
<1>1. Len(rc) \in Nat
  BY LenProperties
<1>2. \A i \in 1 .. Len(rc) : Elements(rc[i]) \in Unit
  BY ElementOfSeq, UnitFacts
<1>3. Parsed(rc) \in [1 .. Len(rc) -> Unit]
  BY <1>2 DEF Parsed
<1>4. Parsed(rc) \in Seq(Unit) /\ Len(Parsed(rc)) = Len(rc)
  BY <1>1, <1>3
<1> QED
  BY <1>4 DEF Parsed

\* The types of the stream and its parts, and where the parts are.
LEMMA StreamShape ==
    Parts => \A r \in Replicas :
        /\ down[r] \in Seq(Unit) /\ Buffered(head[r]) \in Seq(Unit)
        /\ Parsed(received[r]) \in Seq(Unit) /\ Len(Parsed(received[r])) = Len(received[r])
        /\ Flow(r) \in Seq(Unit) /\ CommandStream(r) \in Seq(Unit)
        /\ Len(received[r]) \in Nat /\ Len(Flow(r)) \in Nat
        /\ Len(CommandStream(r)) = Len(received[r]) + Len(Flow(r))
        /\ \A i \in 1 .. (Len(received[r]) + Len(Flow(r))) :
              CommandStream(r)[i] = IF i <= Len(received[r]) THEN Parsed(received[r])[i]
                                    ELSE Flow(r)[i - Len(received[r])]
<1> SUFFICES ASSUME Parts, NEW r \in Replicas
             PROVE  /\ down[r] \in Seq(Unit) /\ Buffered(head[r]) \in Seq(Unit)
                    /\ Parsed(received[r]) \in Seq(Unit) /\ Len(Parsed(received[r])) = Len(received[r])
                    /\ Flow(r) \in Seq(Unit) /\ CommandStream(r) \in Seq(Unit)
                    /\ Len(received[r]) \in Nat /\ Len(Flow(r)) \in Nat
                    /\ Len(CommandStream(r)) = Len(received[r]) + Len(Flow(r))
                    /\ \A i \in 1 .. (Len(received[r]) + Len(Flow(r))) :
                          CommandStream(r)[i] = IF i <= Len(received[r]) THEN Parsed(received[r])[i]
                                                ELSE Flow(r)[i - Len(received[r])]
  OBVIOUS
<1>1. down[r] \in Seq(Unit) /\ head[r] \in Nat /\ received[r] \in Seq(Nat)
  BY DEF Parts, PeerT, ReplicaT, Peers
<1>2. Buffered(head[r]) \in Seq(Unit)
  BY <1>1, BufferedType
<1>3. Parsed(received[r]) \in Seq(Unit) /\ Len(Parsed(received[r])) = Len(received[r])
  BY <1>1, ParsedType
<1>4. Flow(r) \in Seq(Unit)
  BY <1>1, <1>2, UnitConcat, PartsOfStream
<1>5. Len(received[r]) \in Nat /\ Len(Flow(r)) \in Nat
  BY <1>1, <1>4, LenProperties
<1>6. /\ Parsed(received[r]) \o Flow(r) \in Seq(Unit)
      /\ Len(Parsed(received[r]) \o Flow(r)) = Len(Parsed(received[r])) + Len(Flow(r))
      /\ \A i \in 1 .. (Len(Parsed(received[r])) + Len(Flow(r))) :
            (Parsed(received[r]) \o Flow(r))[i] =
                IF i <= Len(Parsed(received[r])) THEN Parsed(received[r])[i]
                ELSE Flow(r)[i - Len(Parsed(received[r]))]
  BY <1>3, <1>4, UnitConcat
<1> QED
  BY <1>1, <1>2, <1>3, <1>4, <1>5, <1>6, PartsOfStream

\* A replica that has not registered has only replies before it.
LEMMA EarlyStream ==
    Parts => \A r \in Replicas :
        since[r] < 0 /\ OnlyReplies(CommandStream(r)) => StreamOK(r)
<1> SUFFICES ASSUME Parts, NEW r \in Replicas, since[r] < 0, OnlyReplies(CommandStream(r))
             PROVE  StreamOK(r)
  OBVIOUS
<1> DEFINE s == CommandStream(r)
           q == Flow(r)
           k == Len(received[r])
<1>1. /\ k \in Nat /\ Len(q) \in Nat /\ Len(s) = k + Len(q)
      /\ \A i \in 1 .. (k + Len(q)) : s[i] = IF i <= k THEN Parsed(received[r])[i] ELSE q[i - k]
  BY StreamShape
<1>2. OnlyReplies(s)
  OBVIOUS
<1> HIDE DEF s, q, k
<1>3. ASSUME NEW i \in 1 .. Len(q) PROVE q[i].kind = "reply"
  <2>1. i + k \in 1 .. (k + Len(q)) /\ ~(i + k <= k) /\ (i + k) - k = i
    BY <1>1
  <2>2. s[i + k] = q[i]
    BY <1>1, <2>1
  <2> QED
    BY <1>1, <1>2, <2>1, <2>2 DEF OnlyReplies
<1>4. Paired(q)
  BY <1>3, NoCommand DEF OnlyReplies
<1>5. (\A n : ~Has(s, n) /\ Within(s, n)) /\ InOrder(s, by)
  BY <1>2, NoCommand
<1>6. ~(since[r] >= 0)
  BY DEF Parts, CountT, Peers
<1> QED
  BY <1>2, <1>4, <1>5, <1>6 DEF StreamOK, s, q


LEMMA EarlyStreamNext ==
    Parts' => \A r \in Replicas :
        since'[r] < 0 /\ OnlyReplies(CommandStream(r)') => StreamOK(r)'
<1>1. (Parts => \A r \in Replicas :
           since[r] < 0 /\ OnlyReplies(CommandStream(r)) => StreamOK(r))'
  BY EarlyStream, PTL
<1> QED
  BY <1>1

-----------------------------------------------------------------------------
(* What a step leaves alone *)

SameLoops ==
    \A x \in Peers : /\ wpc'[x] = "walk" <=> wpc[x] = "walk"
                     /\ wpc[x] = "walk" => num'[x] = num[x] /\ idx'[x] = idx[x]

\* The list and the loops stay as they are; the stream of r keeps its commands.
LEMMA StreamKept ==
    ASSUME NEW r \in Replicas, StreamOK(r), SameLoops,
           Paired(Flow(r)'), InOrder(CommandStream(r)', by), Within(CommandStream(r)', writes),
           since[r] < 0 => OnlyReplies(CommandStream(r)'),
           \A n : Has(CommandStream(r)', n) <=> Has(CommandStream(r), n),
           since'[r] = since[r], fd'[r] = fd[r], UNCHANGED <<writes, by, slots>>
    PROVE  StreamOK(r)'
<1>1. \A x \in Peers : wpc[x] = "walk" => (Passed(x, r)' <=> Passed(x, r)) /\ (Ahead(x, r)' <=> Ahead(x, r))
  BY DEF Passed, Ahead, SameLoops
<1>2. ASSUME NEW x \in Peers, wpc'[x] = "walk", Has(CommandStream(r)', num'[x])
      PROVE  Passed(x, r)'
  BY <1>1, <1>2 DEF StreamOK, SameLoops
<1>3. ASSUME since'[r] >= 0, NEW n \in (since'[r] + 1) .. writes', ~Has(CommandStream(r)', n)
      PROVE  \E x \in Peers : wpc'[x] = "walk" /\ num'[x] = n /\ Ahead(x, r)'
  <2>1. PICK x \in Peers : wpc[x] = "walk" /\ num[x] = n /\ Ahead(x, r)
    BY <1>3 DEF StreamOK
  <2> QED
    BY <1>1, <2>1 DEF SameLoops
<1> QED
  BY <1>2, <1>3 DEF StreamOK

LEMMA StreamSame ==
    ASSUME NEW r \in Replicas, StreamOK(r), SameLoops,
           head'[r] = head[r], received'[r] = received[r], down'[r] = down[r],
           since'[r] = since[r], fd'[r] = fd[r], UNCHANGED <<writes, by, slots>>
    PROVE  StreamOK(r)'
<1>1. Flow(r)' = Flow(r) /\ CommandStream(r)' = CommandStream(r)
  BY DEF Flow, CommandStream
<1>2. /\ Paired(Flow(r)') /\ InOrder(CommandStream(r)', by) /\ Within(CommandStream(r)', writes)
      /\ since[r] < 0 => OnlyReplies(CommandStream(r)')
  BY <1>1 DEF StreamOK
<1> QED
  BY <1>1, <1>2, StreamKept

LEMMA HandSame ==
    ASSUME NEW r \in Replicas, HandOK(r), rpc'[r] = rpc[r], wpc'[r] = wpc[r], since'[r] = since[r],
           up'[r] = up[r], down'[r] = down[r], peer'[r] = peer[r], head'[r] = head[r],
           received'[r] = received[r], alive' = alive
    PROVE  HandOK(r)'
  BY DEF HandOK

LEMMA DescSame ==
    ASSUME DescOK, UNCHANGED <<alive, desc, wpc, fd>>,
           \A x \in Peers : peer'[x] \in {"new", "absent"} => peer[x] \in {"new", "absent"}
    PROVE  DescOK'
  BY DEF DescOK

LEMMA SlotsSame ==
    ASSUME SlotsOK, UNCHANGED <<replica_count, slots, since, fd>>,
           \A x \in Peers : wpc'[x] = "add" => wpc[x] = "add" /\ idx'[x] = idx[x]
    PROVE  SlotsOK'
  BY DEF SlotsOK

LEMMA LoopsSame ==
    ASSUME LoopsOK, UNCHANGED <<writes, by>>,
           \A x \in Peers : wpc'[x] = "walk" => wpc[x] = "walk" /\ num'[x] = num[x]
    PROVE  LoopsOK'
  BY DEF LoopsOK, LoopOK

-----------------------------------------------------------------------------
(* Connections *)

LEMMA ConnectC ==
    ASSUME Parts, Parts', CalmOK, alive, NEW x \in Peers, Connect(x)
    PROVE  CalmOK'
<1>1. PICK f \in Fds : /\ desc[f] = Closed /\ desc' = [desc EXCEPT ![f] = x]
                       /\ fd' = [fd EXCEPT ![x] = f]
  BY DEF Connect
<1>2. /\ peer[x] = "new" /\ peer' = [peer EXCEPT ![x] = "up"] /\ wpc' = [wpc EXCEPT ![x] = "recv"]
      /\ UNCHANGED <<slots, replica_count, repl_offset, alive, down, num, idx, shut, head>>
      /\ UNCHANGED <<received, applied, writes, by, unsent, faults, since, calm>>
      /\ \/ /\ x \in Replicas /\ up' = [up EXCEPT ![x] = <<"PING">>]
            /\ rpc' = [rpc EXCEPT ![x] = "ping"]
         \/ x \in Writers /\ UNCHANGED <<up, rpc>>
  BY DEF Connect, listVars, countVars
<1>3. DescOK /\ SlotsOK /\ HandshakeOK /\ ClientsOK /\ LoopsOK /\ StreamsOK
  BY DEF CalmOK
<1>4. WorkerT /\ PeerT /\ MasterT /\ ReplicaT /\ CountT /\ WorkersOK
  BY DEF Parts
<1>5. wpc[x] = "none"
  BY <1>2, <1>3 DEF DescOK
<1>6. x \in Replicas => since[x] = -1 /\ rpc[x] = "new" /\ down[x] = <<>>
  BY <1>3, <1>5 DEF HandshakeOK, HandOK, Hand
<1>7. DescOK'
  <2>1. ASSUME NEW z \in Peers, wpc'[z] \notin {"none", "done"} PROVE desc'[fd'[z]] = z
    <3>1. CASE z = x
      BY <1>1, <1>4, <3>1 DEF WorkerT, MasterT
    <3>2. CASE z # x
      <4>1. wpc'[z] = wpc[z] /\ fd'[z] = fd[z]
        BY <1>1, <1>2, <1>4, <3>2 DEF WorkerT
      <4>2. desc[fd[z]] = z /\ fd[z] \in Fds
        BY <1>3, <1>4, <2>1, <4>1 DEF DescOK, WorkersOK
      <4>3. fd[z] # f
        BY <1>1, <4>2
      <4> QED
        BY <1>1, <1>4, <4>1, <4>2, <4>3 DEF MasterT
    <3> QED
      BY <3>1, <3>2
  <2>2. ASSUME NEW z \in Peers
        PROVE  wpc'[z] # "shut" /\ (peer'[z] \in {"new", "absent"} => wpc'[z] = "none")
    BY <1>2, <1>3, <1>4 DEF DescOK, WorkerT, PeerT
  <2> QED
    BY <2>1, <2>2 DEF DescOK
<1>8. \A z \in Peers : z # x => fd'[z] = fd[z] /\ wpc'[z] = wpc[z]
  BY <1>1, <1>2, <1>4 DEF WorkerT
<1>9. wpc'[x] = "recv"
  BY <1>2, <1>4 DEF WorkerT
<1>10. \A r \in Replicas : since[r] >= 0 => r # x /\ fd'[r] = fd[r]
  BY <1>6, <1>8 DEF Peers
<1>11. SlotsOK'
  BY <1>2, <1>3, <1>8, <1>9, <1>10 DEF SlotsOK
<1>12. HandshakeOK'
  <2>1. ASSUME NEW r \in Replicas PROVE HandOK(r)'
    <3>1. CASE r # x
      <4>1. /\ rpc'[r] = rpc[r] /\ wpc'[r] = wpc[r] /\ since'[r] = since[r]
            /\ up'[r] = up[r] /\ down'[r] = down[r] /\ peer'[r] = peer[r] /\ head'[r] = head[r]
            /\ received'[r] = received[r] /\ alive' = alive
        BY <1>2, <1>4, <1>8, <3>1 DEF ReplicaT, PeerT, Peers
      <4> QED
        BY <1>3, <4>1, HandSame DEF HandshakeOK
    <3>2. CASE r = x
      <4>1. /\ rpc'[r] = "ping" /\ wpc'[r] = "recv" /\ since'[r] = -1
            /\ up'[r] = <<"PING">> /\ down'[r] = <<>> /\ peer'[r] = "up" /\ head'[r] = head[r]
            /\ received'[r] = received[r] /\ alive' = alive
        BY <1>2, <1>4, <1>6, <1>9, <3>2 DEF ReplicaT, PeerT, Peers
      <4>2. head[r] = 0 /\ received[r] = <<>>
        BY <1>3, <1>6, <3>2 DEF HandshakeOK, HandOK, Hand
      <4>3. NoReply(<<>>) /\ OneReply(<<>>)
        BY DEF NoReply, OneReply
      <4>4. Len(<<"PING">>) = 1 /\ <<"PING">>[1] = "PING" /\ <<"PING">> # <<>>
        OBVIOUS
      <4> QED
        BY <4>1, <4>2, <4>3, <4>4 DEF HandOK, Hand
    <3> QED
      BY <3>1, <3>2
  <2> QED
    BY <2>1 DEF HandshakeOK
<1>13. ClientsOK'
  <2>1. \A w \in Writers : up'[w] = up[w] /\ (wpc'[w] = wpc[w] \/ wpc'[w] = "recv")
    BY <1>2, <1>4, <1>8, <1>9 DEF PeerT, Peers
  <2> QED
    BY <1>3, <2>1 DEF ClientsOK
<1>14. LoopsOK'
  BY <1>2, <1>3, <1>5, <1>8, <1>9, LoopsSame
<1>15. StreamsOK'
  <2>1. SameLoops
    BY <1>2, <1>5, <1>8, <1>9 DEF SameLoops
  <2>2. ASSUME NEW r \in Replicas, r # x PROVE StreamOK(r)'
    <3>1. r \in Peers
      BY DEF Peers
    <3> QED
      BY <1>2, <1>3, <1>8, <2>1, <2>2, <3>1, StreamSame DEF StreamsOK
  <2>3. ASSUME x \in Replicas PROVE StreamOK(x)'
    <3>1. CommandStream(x)' = CommandStream(x)
      BY <1>2 DEF CommandStream, Flow
    <3>2. OnlyReplies(CommandStream(x))
      BY <1>3, <1>6, <2>3 DEF StreamsOK, StreamOK
    <3>3. since'[x] < 0
      BY <1>2, <1>6, <2>3
    <3> QED
      BY <2>3, <3>1, <3>2, <3>3, EarlyStreamNext
  <2> QED
    BY <2>2, <2>3 DEF StreamsOK
<1> QED
  BY <1>7, <1>11, <1>12, <1>13, <1>14, <1>15 DEF CalmOK


LEMMA ClientC ==
    ASSUME Parts, Parts', CalmOK, NEW w \in Writers, SendWrite(w) \/ Leave(w)
    PROVE  CalmOK'
<1>1. /\ peer[w] = "up"
      /\ UNCHANGED <<desc, slots, replica_count, repl_offset, alive, fd, wpc, num, idx, shut>>
      /\ UNCHANGED <<rpc, head, received, applied, writes, by, since, calm>>
  BY DEF SendWrite, Leave, listVars, workerVars, replicaVars
<1>2. /\ up' = up \/ up' = [up EXCEPT ![w] = Append(up[w], "SET")]
      /\ down' = down \/ down' = [down EXCEPT ![w] = <<>>]
      /\ peer' = peer \/ peer' = [peer EXCEPT ![w] = "gone"]
  BY DEF SendWrite, Leave
<1>3. DescOK /\ SlotsOK /\ HandshakeOK /\ ClientsOK /\ LoopsOK /\ StreamsOK
  BY DEF CalmOK
<1>4. PeerT /\ w \in Peers /\ w \notin Replicas
  BY DEF Parts, Peers
<1>5. \A r \in Replicas : r \in Peers /\ up'[r] = up[r] /\ down'[r] = down[r] /\ peer'[r] = peer[r]
  BY <1>2, <1>4 DEF PeerT, Peers
<1>6. DescOK' /\ SlotsOK' /\ LoopsOK'
  <2>1. \A x \in Peers : peer'[x] \in {"new", "absent"} => peer[x] \in {"new", "absent"}
    BY <1>2, <1>4 DEF PeerT
  <2> QED
    BY <1>1, <1>3, <2>1, DescSame, SlotsSame, LoopsSame
<1>7. HandshakeOK'
  BY <1>1, <1>3, <1>5, HandSame DEF HandshakeOK
<1>8. StreamsOK'
  <2>1. SameLoops
    BY <1>1 DEF SameLoops
  <2> QED
    BY <1>1, <1>3, <1>5, <2>1, StreamSame DEF StreamsOK
<1>9. ClientsOK'
  <2>1. up[w] \in Seq(Requested) /\ \A i \in 1 .. Len(up[w]) : up[w][i] = "SET"
    BY <1>3, <1>4 DEF ClientsOK, PeerT
  <2>2. \A i \in 1 .. Len(Append(up[w], "SET")) : Append(up[w], "SET")[i] = "SET"
    <3>1. /\ Len(Append(up[w], "SET")) = Len(up[w]) + 1 /\ Len(up[w]) \in Nat
          /\ Append(up[w], "SET")[Len(up[w]) + 1] = "SET"
          /\ \A i \in 1 .. Len(up[w]) : Append(up[w], "SET")[i] = up[w][i]
      <4>1. "SET" \in Requested
        BY DEF Requested
      <4> QED
        BY <2>1, <4>1, AppendProperties, LenProperties
    <3>2. \A i \in 1 .. (Len(up[w]) + 1) : i \in 1 .. Len(up[w]) \/ i = Len(up[w]) + 1
      BY <3>1
    <3> QED
      BY <2>1, <3>1, <3>2
  <2>3. \A v \in Writers : up'[v] = up[v] \/ up'[v] = Append(up[w], "SET")
    BY <1>2, <1>4 DEF PeerT, Peers
  <2>4. \A v \in Writers : \A i \in 1 .. Len(up'[v]) : up'[v][i] = "SET"
    BY <1>3, <2>2, <2>3 DEF ClientsOK
  <2> QED
    BY <1>1, <1>3, <2>4 DEF ClientsOK
<1> QED
  BY <1>6, <1>7, <1>8, <1>9 DEF CalmOK

-----------------------------------------------------------------------------
(* The workers *)

\* The stages of the workers: replicas do not propagate, clients do not
\* register, and every worker that runs has its own connection.
LEMMA StagesC ==
    ASSUME Parts, CalmOK, alive, NEW x \in Peers, wpc[x] \notin {"none", "done"}
    PROVE  /\ Conn(x) = x /\ x # Closed /\ fd[x] \in Fds
           /\ wpc[x] \in {"walk", "close"} => x \in Writers /\ x \notin Replicas
           /\ wpc[x] \in {"add", "synced", "pong"} => x \in Replicas
           /\ x \in Replicas => rpc[x] # "new" /\ peer[x] = "up"
<1>1. DescOK /\ HandshakeOK /\ ClientsOK
  BY DEF CalmOK
<1>2. Conn(x) = x /\ fd[x] \in Fds
  BY <1>1 DEF DescOK, Conn, Parts, WorkersOK
<1>3. ASSUME x \in Replicas
      PROVE wpc[x] \in {"none", "recv", "add", "pong", "answer", "synced"} /\ rpc[x] # "new" /\ peer[x] = "up"
  BY <1>1, <1>3 DEF HandshakeOK, HandOK, Hand
<1>4. x \in Writers => wpc[x] \notin {"add", "synced", "pong"}
  BY <1>1 DEF ClientsOK
<1>5. x \in Replicas \/ x \in Writers
  BY DEF Peers
<1> QED
  BY <1>2, <1>3, <1>4, <1>5

LEMMA EndC ==
    ASSUME Parts, Parts', CalmOK, alive, NEW x \in Peers, RecvEnd(x) \/ freeClientState(x)
    PROVE  CalmOK'
<1>1. /\ UNCHANGED <<slots, replica_count, repl_offset, alive, peer, up, down, fd, num, idx, shut>>
      /\ UNCHANGED <<rpc, head, received, applied, writes, by, unsent, faults, since, calm>>
      /\ \/ wpc[x] = "recv" /\ wpc' = [wpc EXCEPT ![x] = "close"] /\ UNCHANGED desc
         \/ /\ wpc[x] = "close" /\ wpc' = [wpc EXCEPT ![x] = "done"]
            /\ desc' = [desc EXCEPT ![fd[x]] = Closed]
  BY DEF RecvEnd, freeClientState, listVars, linkVars, replicaVars, countVars
<1>2. DescOK /\ SlotsOK /\ HandshakeOK /\ ClientsOK /\ LoopsOK /\ StreamsOK
  BY DEF CalmOK
<1>3. WorkerT /\ MasterT /\ WorkersOK
  BY DEF Parts
<1>4. x \in Writers /\ x \notin Replicas
  <2>1. CASE RecvEnd(x)
    <3>1. Conn(x) = x /\ x # Closed /\ (x \in Replicas => peer[x] = "up")
      BY <1>1, StagesC
    <3>2. peer[x] = "gone"
      BY <2>1, <3>1 DEF RecvEnd
    <3> QED
      BY <3>1, <3>2 DEF Peers
  <2>2. CASE freeClientState(x)
    <3>1. wpc[x] = "close"
      BY <2>2 DEF freeClientState
    <3> QED
      BY <3>1, StagesC
  <2> QED
    BY <2>1, <2>2
<1>5. \A z \in Peers : z # x => wpc'[z] = wpc[z]
  BY <1>1, <1>3 DEF WorkerT
<1>6. wpc'[x] \in {"close", "done"} /\ wpc[x] \in {"recv", "close"} /\ (wpc'[x] = "close" => desc' = desc)
  BY <1>1, <1>3 DEF WorkerT
<1>7. DescOK'
  <2>1. ASSUME NEW z \in Peers, wpc'[z] \notin {"none", "done"} PROVE desc'[fd'[z]] = z
    <3>1. wpc[z] \notin {"none", "done"} /\ (z = x => desc' = desc)
      BY <1>5, <1>6, <2>1
    <3>2. desc[fd[z]] = z /\ fd[z] \in Fds /\ desc[fd[x]] = x /\ fd[x] \in Fds
      BY <1>2, <1>3, <1>6, <3>1 DEF DescOK, WorkersOK
    <3> QED
      BY <1>1, <1>3, <3>1, <3>2 DEF MasterT
  <2>2. ASSUME NEW z \in Peers
        PROVE  wpc'[z] # "shut" /\ (peer'[z] \in {"new", "absent"} => wpc'[z] = "none")
    BY <1>1, <1>2, <1>5, <1>6 DEF DescOK
  <2> QED
    BY <2>1, <2>2 DEF DescOK
<1>8. SlotsOK' /\ LoopsOK'
  BY <1>1, <1>2, <1>5, <1>6, SlotsSame, LoopsSame
<1>9. \A r \in Replicas : wpc'[r] = wpc[r]
  BY <1>4, <1>5 DEF Peers
<1>10. HandshakeOK'
  BY <1>1, <1>2, <1>9, HandSame DEF HandshakeOK
<1>11. ClientsOK'
  BY <1>1, <1>2, <1>5, <1>6 DEF ClientsOK, Peers
<1>12. StreamsOK'
  <2>1. SameLoops
    BY <1>1, <1>5, <1>6 DEF SameLoops
  <2> QED
    BY <1>1, <1>2, <2>1, StreamSame DEF StreamsOK
<1> QED
  BY <1>7, <1>8, <1>10, <1>11, <1>12 DEF CalmOK


\* The front of what a peer has sent.
LEMMA FrontC ==
    ASSUME Parts, CalmOK, NEW x \in Peers, up[x] # <<>>
    PROVE  /\ x \in Writers => Head(up[x]) = "SET"
           /\ x \in Replicas => Head(up[x]) # "SET" /\ Tail(up[x]) = <<>> /\ Head(up[x]) = up[x][1]
           /\ \A i \in 1 .. Len(Tail(up[x])) : x \in Writers => Tail(up[x])[i] = "SET"
<1>1. up[x] \in Seq(Requested)
  BY DEF Parts, PeerT
<1>2. /\ Len(up[x]) \in Nat /\ Len(up[x]) >= 1 /\ Head(up[x]) = up[x][1]
      /\ Tail(up[x]) \in Seq(Requested) /\ Len(Tail(up[x])) = Len(up[x]) - 1
      /\ \A i \in 1 .. (Len(up[x]) - 1) : Tail(up[x])[i] = up[x][i + 1]
  BY <1>1, TailOf
<1>3. 1 \in 1 .. Len(up[x]) /\ \A i \in 1 .. (Len(up[x]) - 1) : i + 1 \in 1 .. Len(up[x])
  BY <1>2
<1>4. ASSUME x \in Writers
      PROVE  Head(up[x]) = "SET" /\ \A i \in 1 .. Len(Tail(up[x])) : Tail(up[x])[i] = "SET"
  <2>1. \A i \in 1 .. Len(up[x]) : up[x][i] = "SET"
    BY <1>4 DEF CalmOK, ClientsOK
  <2> QED
    BY <1>2, <1>3, <2>1
<1>5. ASSUME x \in Replicas
      PROVE  Head(up[x]) # "SET" /\ Tail(up[x]) = <<>>
  <2>1. Len(up[x]) = 1 /\ up[x][1] # "SET"
    BY <1>5 DEF CalmOK, HandshakeOK, HandOK, Hand
  <2>2. Len(Tail(up[x])) = 0
    BY <1>2, <2>1
  <2>3. Tail(up[x]) = <<>>
    BY <1>2, <2>2, EmptySeq
  <2> QED
    BY <1>2, <2>1, <2>3
<1> QED
  BY <1>2, <1>4, <1>5

\* A write is executed: no replica has its number yet, and every one on the
\* list is ahead of the loop.
LEMMA RecvWriteC ==
    ASSUME Parts, Parts', CalmOK, NEW x \in Writers, wpc[x] = "recv", RecvWrite(x, x),
           up[x] # <<>>, up' = [up EXCEPT ![x] = Tail(@)],
           UNCHANGED <<desc, slots, replica_count, alive, peer, down, fd>>,
           UNCHANGED <<rpc, head, received, since>>
    PROVE  CalmOK'
<1>1. /\ writes' = writes + 1 /\ by' = Append(by, x) /\ num' = [num EXCEPT ![x] = writes + 1]
      /\ idx' = [idx EXCEPT ![x] = 1] /\ wpc' = [wpc EXCEPT ![x] = "walk"]
  BY DEF RecvWrite
<1>2. DescOK /\ SlotsOK /\ HandshakeOK /\ ClientsOK /\ LoopsOK /\ StreamsOK
  BY DEF CalmOK
<1>3. WorkerT /\ PeerT /\ CountT /\ x \in Peers /\ x \notin Replicas /\ writes \in Nat
  BY DEF Parts, CountT, Peers
<1>4. \A z \in Peers : z # x => wpc'[z] = wpc[z] /\ num'[z] = num[z] /\ idx'[z] = idx[z]
  BY <1>1, <1>3 DEF WorkerT
<1>5. wpc'[x] = "walk" /\ num'[x] = writes + 1 /\ idx'[x] = 1
  BY <1>1, <1>3 DEF WorkerT
<1>6. (\A m \in 1 .. writes : by'[m] = by[m]) /\ by'[writes + 1] = x
  <2>1. by \in Seq(Peers) /\ Len(by) = writes
    BY <1>3 DEF CountT
  <2> QED
    BY <1>1, <1>3, <2>1, AppendProperties
<1>7. \A m \in 1 .. (writes + 1) : m \in 1 .. writes \/ m = writes + 1
  BY <1>3
<1>8. 1 .. writes \subseteq 1 .. (writes + 1) /\ writes + 1 \in 1 .. (writes + 1) /\ writes + 1 \notin 1 .. writes
  BY <1>3
<1>9. DescOK'
  <2>1. ASSUME NEW z \in Peers PROVE wpc'[z] \in {"none", "done"} <=> wpc[z] \in {"none", "done"}
    BY <1>4, <1>5
  <2>2. ASSUME NEW z \in Peers
        PROVE  wpc'[z] # "shut" /\ (peer'[z] \in {"new", "absent"} => wpc'[z] = "none")
    BY <1>2, <1>4, <1>5 DEF DescOK
  <2> QED
    BY <1>2, <2>1, <2>2 DEF DescOK
<1>10. SlotsOK'
  BY <1>2, <1>4, <1>5, SlotsSame
<1>11. \A r \in Replicas : r # x /\ r \in Peers /\ wpc'[r] = wpc[r] /\ up'[r] = up[r]
  BY <1>3, <1>4 DEF PeerT, Peers
<1>12. HandshakeOK'
  BY <1>2, <1>11, HandSame DEF HandshakeOK
<1>13. ClientsOK'
  <2>1. \A w \in Writers : w # x => up'[w] = up[w] /\ wpc'[w] = wpc[w]
    BY <1>3, <1>4 DEF PeerT, Peers
  <2>2. up'[x] = Tail(up[x])
    BY <1>3 DEF PeerT
  <2>3. \A i \in 1 .. Len(Tail(up[x])) : Tail(up[x])[i] = "SET"
    BY <1>3, FrontC
  <2> QED
    BY <1>2, <1>5, <2>1, <2>2, <2>3 DEF ClientsOK
<1>14. LoopsOK'
  <2>1. ASSUME NEW z \in Peers, z # x, wpc'[z] = "walk" PROVE LoopOK(z)'
    <3>1. LoopOK(z) /\ num'[z] = num[z]
      BY <1>2, <1>4, <2>1 DEF LoopsOK
    <3> QED
      BY <1>1, <1>6, <1>7, <1>8, <2>1, <3>1 DEF LoopOK
  <2>2. LoopOK(x)'
    <3>1. \A m \in 1 .. (writes + 1) : m <= writes + 1
      OBVIOUS
    <3> QED
      BY <1>1, <1>5, <1>6, <1>8, <3>1 DEF LoopOK
  <2> QED
    BY <2>1, <2>2 DEF LoopsOK
<1>15. ASSUME NEW r \in Replicas PROVE StreamOK(r)'
  <2> DEFINE s == CommandStream(r)
  <2>1. s' = s /\ Flow(r)' = Flow(r)
    BY DEF CommandStream, Flow
  <2>2. StreamOK(r)
    BY <1>2 DEF StreamsOK
  <2>3. Paired(Flow(r)) /\ InOrder(s, by) /\ Within(s, writes) /\ (since[r] < 0 => OnlyReplies(s))
    BY <2>2 DEF StreamOK
  <2> HIDE DEF s
  <2>4. Within(s, writes + 1) /\ ~Has(s, writes + 1)
    BY <1>8, <2>3 DEF Within, Has
  <2>5. InOrder(s, by')
    BY <1>6, <2>3 DEF InOrder, Within
  <2>6. ASSUME NEW z \in Peers, wpc'[z] = "walk", Has(s, num'[z]) PROVE Passed(z, r)'
    <3>1. z # x
      BY <1>5, <2>4, <2>6
    <3>2. Passed(z, r)
      BY <1>4, <2>2, <2>6, <3>1 DEF StreamOK, s
    <3> QED
      BY <1>4, <3>1, <3>2 DEF Passed
  <2>7. ASSUME since[r] >= 0, NEW n \in (since[r] + 1) .. (writes + 1), ~Has(s, n)
        PROVE  \E z \in Peers : wpc'[z] = "walk" /\ num'[z] = n /\ Ahead(z, r)'
    <3>0. since[r] \in Int
      BY <1>3, <1>11 DEF CountT
    <3>1. CASE n = writes + 1
      <4>1. PICK p \in 1 .. Len(slots) : slots[p] = fd[r]
        BY <1>2, <2>7 DEF SlotsOK
      <4>2. p >= 1
        OBVIOUS
      <4>3. Ahead(x, r)'
        BY <1>5, <4>1, <4>2 DEF Ahead
      <4> QED
        BY <1>3, <1>5, <3>1, <4>3
    <3>2. CASE n # writes + 1
      <4>1. n \in (since[r] + 1) .. writes
        BY <1>3, <3>0, <3>2
      <4>2. PICK z \in Peers : wpc[z] = "walk" /\ num[z] = n /\ Ahead(z, r)
        BY <2>2, <2>7, <4>1 DEF StreamOK, s
      <4>3. z # x
        BY <4>2
      <4>4. Ahead(z, r)'
        BY <1>4, <4>2, <4>3 DEF Ahead
      <4> QED
        BY <1>4, <4>2, <4>3, <4>4
    <3> QED
      BY <3>1, <3>2
  <2> QED
    BY <1>1, <2>1, <2>3, <2>4, <2>5, <2>6, <2>7 DEF StreamOK, s
<1> QED
  BY <1>9, <1>10, <1>12, <1>13, <1>14, <1>15 DEF CalmOK, StreamsOK

\* A request of the handshake is read: its answer is under way, or the place on
\* the list is.
LEMMA RecvRequestC ==
    ASSUME Parts, Parts', CalmOK, NEW x \in Replicas, wpc[x] = "recv", up[x] # <<>>,
           RecvGreeting(x, x) \/ RecvPsync(x, x), calm',
           up' = [up EXCEPT ![x] = Tail(@)],
           UNCHANGED <<desc, slots, replica_count, alive, peer, down, fd>>,
           UNCHANGED <<rpc, head, received, since>>
    PROVE  CalmOK'
<1>1. UNCHANGED <<writes, by, num>>
  BY DEF RecvGreeting, RecvPsync
<1>2. DescOK /\ SlotsOK /\ HandshakeOK /\ ClientsOK /\ LoopsOK /\ StreamsOK
  BY DEF CalmOK
<1>3. WorkerT /\ PeerT /\ CountT /\ x \in Peers /\ x \notin Writers
  BY DEF Parts, Peers
<1>4. \A z \in Peers : z # x => wpc'[z] = wpc[z] /\ idx'[z] = idx[z]
  BY <1>3 DEF WorkerT, RecvGreeting, RecvPsync
<1>5. \/ wpc'[x] \in {"pong", "answer"}
      \/ /\ wpc'[x] = "add" /\ idx'[x] = replica_count + 1 /\ Head(up[x]) = "PSYNC"
         /\ \A z \in Peers : wpc[z] # "add"
  BY <1>3 DEF WorkerT, RecvGreeting, RecvPsync
<1>6. DescOK'
  <2>1. ASSUME NEW z \in Peers PROVE wpc'[z] \in {"none", "done"} <=> wpc[z] \in {"none", "done"}
    BY <1>4, <1>5
  <2>2. ASSUME NEW z \in Peers
        PROVE  wpc'[z] # "shut" /\ (peer'[z] \in {"new", "absent"} => wpc'[z] = "none")
    BY <1>2, <1>4, <1>5 DEF DescOK
  <2> QED
    BY <1>2, <2>1, <2>2 DEF DescOK
<1>7. SlotsOK'
  <2>1. CASE wpc'[x] \in {"pong", "answer"}
    BY <1>2, <1>4, <2>1, SlotsSame
  <2>2. CASE /\ wpc'[x] = "add" /\ idx'[x] = replica_count + 1
             /\ \A z \in Peers : wpc[z] # "add"
    <3>1. \A z \in Peers : wpc'[z] = "add" => z = x
      BY <1>4, <2>2
    <3> QED
      BY <1>2, <2>2, <3>1 DEF SlotsOK
  <2> QED
    BY <1>5, <2>1, <2>2
<1>8. ASSUME NEW r \in Replicas PROVE HandOK(r)'
  <2>1. CASE r # x
    <3>1. wpc'[r] = wpc[r] /\ up'[r] = up[r]
      BY <1>3, <1>4, <2>1 DEF PeerT, Peers
    <3> QED
      BY <1>2, <3>1, HandSame DEF HandshakeOK
  <2>2. CASE r = x
    <3>1. Tail(up[x]) = <<>> /\ Head(up[x]) = up[x][1]
      BY <1>3, FrontC
    <3>2. up'[x] = <<>>
      BY <1>3, <3>1 DEF PeerT
    <3>3. HandOK(x)
      BY <1>2 DEF HandshakeOK
    <3>4. since[x] \in Int
      BY <1>3 DEF CountT
    <3> QED
      BY <1>5, <2>2, <3>1, <3>2, <3>3, <3>4 DEF HandOK, Hand
  <2> QED
    BY <2>1, <2>2
<1>9. ClientsOK'
  <2>1. \A w \in Writers : up'[w] = up[w] /\ wpc'[w] = wpc[w]
    BY <1>3, <1>4 DEF PeerT, Peers
  <2> QED
    BY <1>2, <2>1 DEF ClientsOK
<1>10. LoopsOK'
  BY <1>1, <1>2, <1>4, <1>5, LoopsSame
<1>11. StreamsOK'
  <2>1. SameLoops
    BY <1>1, <1>4, <1>5 DEF SameLoops
  <2> QED
    BY <1>1, <1>2, <2>1, StreamSame DEF StreamsOK
<1> QED
  BY <1>6, <1>7, <1>8, <1>9, <1>10, <1>11 DEF CalmOK, HandshakeOK

LEMMA RecvC ==
    ASSUME Parts, Parts', CalmOK, alive, NEW x \in Peers, Recv(x), calm'
    PROVE  CalmOK'
<1>1. wpc[x] = "recv"
  BY DEF Recv
<1>2. Conn(x) = x
  BY <1>1, StagesC
<1>3. /\ up[x] # <<>> /\ up' = [up EXCEPT ![x] = Tail(@)]
      /\ UNCHANGED <<desc, slots, replica_count, alive, peer, down, fd>>
      /\ UNCHANGED <<rpc, head, received, since>>
      /\ RecvWrite(x, x) \/ RecvGreeting(x, x) \/ RecvPsync(x, x)
  BY <1>2 DEF Recv, listVars, replicaVars
<1>4. /\ x \in Writers => Head(up[x]) = "SET"
      /\ x \in Replicas => Head(up[x]) # "SET"
  BY <1>3, FrontC
<1>5. CASE x \in Writers
  <2>1. RecvWrite(x, x)
    BY <1>3, <1>4, <1>5 DEF RecvGreeting, RecvPsync
  <2> QED
    BY <1>1, <1>3, <1>5, <2>1, RecvWriteC
<1>6. CASE x \in Replicas
  <2>1. RecvGreeting(x, x) \/ RecvPsync(x, x)
    BY <1>3, <1>4, <1>6 DEF RecvWrite
  <2> QED
    BY <1>1, <1>3, <1>6, <2>1, RecvRequestC
<1> QED
  BY <1>5, <1>6 DEF Peers


\* A replica on the list has its own number.
LEMMA OwnNumber ==
    ASSUME Parts, CalmOK, alive, NEW r \in Replicas, since[r] >= 0
    PROVE  desc[fd[r]] = r /\ fd[r] \in Fds /\ wpc[r] \in {"synced", "recv"}
<1>1. wpc[r] \in {"synced", "recv"}
  BY DEF CalmOK, HandshakeOK, HandOK, Hand
<1> QED
  BY <1>1 DEF CalmOK, DescOK, Parts, WorkersOK, Peers

\* A replica is put at the end of the list: nobody has passed its place, and
\* there is nothing before its registration that it has to get.
LEMMA addReplicaC ==
    ASSUME Parts, Parts', CalmOK, alive, NEW x \in Peers, addReplica(x)
    PROVE  CalmOK'
<1>1. /\ wpc[x] = "add" /\ replica_count' = idx[x] /\ wpc' = [wpc EXCEPT ![x] = "synced"]
      /\ slots' = IF idx[x] <= Len(slots) THEN [slots EXCEPT ![idx[x]] = fd[x]]
                  ELSE Append(slots, fd[x])
      /\ since' = [since EXCEPT ![x] = writes]
      /\ UNCHANGED <<desc, alive, peer, up, down, fd, num, idx, rpc, head, received, writes, by>>
  BY DEF addReplica, linkVars, replicaVars
<1>2. DescOK /\ SlotsOK /\ HandshakeOK /\ ClientsOK /\ LoopsOK /\ StreamsOK
  BY DEF CalmOK
<1>3. WorkerT /\ CountT /\ MasterT /\ writes \in Nat /\ since \in [Peers -> Int]
  BY DEF Parts, CountT
<1>4. Conn(x) = x /\ fd[x] \in Fds /\ x \in Replicas
  BY <1>1, StagesC
<1>5. x \notin Writers
  BY <1>4
<1>6. \A z \in Peers : z # x => wpc'[z] = wpc[z] /\ since'[z] = since[z]
  BY <1>1, <1>3 DEF WorkerT
<1>7. wpc'[x] = "synced" /\ since'[x] = writes
  BY <1>1, <1>3 DEF WorkerT
<1>8. idx[x] = Len(slots) + 1 /\ Len(slots) \in Nat /\ slots \in Seq(Fds)
  BY <1>1, <1>2, <1>3, LenProperties DEF SlotsOK, MasterT
<1>9. slots' = Append(slots, fd[x])
  BY <1>1, <1>8
<1>10. /\ Len(slots') = Len(slots) + 1 /\ slots'[Len(slots) + 1] = fd[x]
       /\ \A p \in 1 .. Len(slots) : slots'[p] = slots[p]
  BY <1>4, <1>8, <1>9, AppendProperties
<1>11. \A p \in 1 .. (Len(slots) + 1) : p \in 1 .. Len(slots) \/ p = Len(slots) + 1
  BY <1>8
<1>12. 1 .. Len(slots) \subseteq 1 .. (Len(slots) + 1) /\ Len(slots) + 1 \in 1 .. (Len(slots) + 1)
  BY <1>8
<1>13. ~(since[x] >= 0) /\ since[x] < 0
  <2>1. ~(since[x] >= 0)
    BY <1>1, <1>2, <1>4 DEF HandshakeOK, HandOK, Hand
  <2> QED
    BY <1>3, <2>1
<1>14. \A r \in Replicas : since[r] >= 0 => r # x /\ fd[r] # fd[x]
  <2>1. \A r \in Replicas : since[r] >= 0 => desc[fd[r]] = r
    BY OwnNumber
  <2> QED
    BY <1>4, <1>13, <2>1 DEF Conn
<1>15. \A p \in 1 .. Len(slots) : slots[p] # fd[x]
  BY <1>2, <1>14 DEF SlotsOK
<1>16. DescOK'
  <2>1. ASSUME NEW z \in Peers PROVE wpc'[z] \in {"none", "done"} <=> wpc[z] \in {"none", "done"}
    BY <1>1, <1>6, <1>7
  <2>2. ASSUME NEW z \in Peers
        PROVE  wpc'[z] # "shut" /\ (peer'[z] \in {"new", "absent"} => wpc'[z] = "none")
    BY <1>1, <1>2, <1>6, <1>7 DEF DescOK
  <2> QED
    BY <1>1, <1>2, <2>1, <2>2 DEF DescOK
<1>17. SlotsOK'
  <2>1. replica_count' = Len(slots')
    BY <1>1, <1>8, <1>10
  <2>2. \A p, q \in 1 .. Len(slots') : slots'[p] = slots'[q] => p = q
    BY <1>2, <1>10, <1>11, <1>15 DEF SlotsOK
  <2>3. ASSUME NEW p \in 1 .. Len(slots')
        PROVE  \E r \in Replicas : since'[r] >= 0 /\ slots'[p] = fd'[r]
    <3>1. CASE p \in 1 .. Len(slots)
      <4>1. PICK r \in Replicas : since[r] >= 0 /\ slots[p] = fd[r]
        BY <1>2, <3>1 DEF SlotsOK
      <4>2. since'[r] = since[r]
        BY <1>6, <1>14, <4>1 DEF Peers
      <4> QED
        BY <1>1, <1>10, <3>1, <4>1, <4>2
    <3>2. CASE p = Len(slots) + 1
      <4>1. since'[x] >= 0
        BY <1>3, <1>7
      <4> QED
        BY <1>1, <1>4, <1>10, <3>2, <4>1
    <3> QED
      BY <1>10, <1>11, <3>1, <3>2
  <2>4. ASSUME NEW r \in Replicas, since'[r] >= 0
        PROVE  \E p \in 1 .. Len(slots') : slots'[p] = fd'[r]
    <3>1. CASE r = x
      BY <1>1, <1>10, <1>12, <3>1
    <3>2. CASE r # x
      <4>1. since[r] >= 0
        BY <1>6, <2>4, <3>2 DEF Peers
      <4>2. PICK p \in 1 .. Len(slots) : slots[p] = fd[r]
        BY <1>2, <4>1 DEF SlotsOK
      <4> QED
        BY <1>1, <1>10, <1>12, <4>2
    <3> QED
      BY <3>1, <3>2
  <2>5. \A z \in Peers : wpc'[z] # "add"
    BY <1>1, <1>2, <1>6, <1>7 DEF SlotsOK
  <2> QED
    BY <2>1, <2>2, <2>3, <2>4, <2>5 DEF SlotsOK
<1>18. ASSUME NEW r \in Replicas PROVE HandOK(r)'
  <2>1. CASE r # x
    <3>1. wpc'[r] = wpc[r] /\ since'[r] = since[r]
      BY <1>6, <2>1 DEF Peers
    <3> QED
      BY <1>1, <1>2, <3>1, HandSame DEF HandshakeOK
  <2>2. CASE r = x
    <3>1. HandOK(x)
      BY <1>2, <1>4 DEF HandshakeOK
    <3>2. writes # -1
      BY <1>3
    <3> QED
      BY <1>1, <1>7, <2>2, <3>1, <3>2 DEF HandOK, Hand
  <2> QED
    BY <2>1, <2>2
<1>19. ClientsOK'
  <2>1. \A w \in Writers : wpc'[w] = wpc[w]
    BY <1>5, <1>6 DEF Peers
  <2> QED
    BY <1>1, <1>2, <2>1 DEF ClientsOK
<1>20. LoopsOK'
  BY <1>1, <1>2, <1>6, <1>7, LoopsSame
<1>21. ASSUME NEW r \in Replicas PROVE StreamOK(r)'
  <2>1. CommandStream(r)' = CommandStream(r) /\ Flow(r)' = Flow(r) /\ StreamOK(r)
    BY <1>1, <1>2 DEF CommandStream, Flow, StreamsOK
  <2>2. \A z \in Peers : wpc'[z] = "walk" <=> wpc[z] = "walk"
    BY <1>1, <1>6, <1>7
  <2>3. \A z \in Peers : (Passed(z, r) => Passed(z, r)') /\ (Ahead(z, r) => Ahead(z, r)')
    BY <1>1, <1>10, <1>12 DEF Passed, Ahead
  <2>4. CASE r # x
    <3>1. since'[r] = since[r]
      BY <1>6, <2>4 DEF Peers
    <3> QED
      BY <1>1, <2>1, <2>2, <2>3, <3>1 DEF StreamOK
  <2>5. CASE r = x
    <3>1. OnlyReplies(CommandStream(r))
      BY <1>13, <2>1, <2>5 DEF StreamOK
    <3>2. (\A n : ~Has(CommandStream(r), n) /\ Within(CommandStream(r), n))
          /\ InOrder(CommandStream(r), by)
      BY <3>1, NoCommand
    <3>3. \A n \in (since'[r] + 1) .. writes : FALSE
      BY <1>3, <1>7, <2>5
    <3>4. Paired(Flow(r))
      BY <2>1 DEF StreamOK
    <3> QED
      BY <1>1, <2>1, <3>1, <3>2, <3>3, <3>4 DEF StreamOK
  <2> QED
    BY <2>4, <2>5
<1> QED
  BY <1>16, <1>17, <1>18, <1>19, <1>20, <1>21 DEF CalmOK, HandshakeOK, StreamsOK


\* What is written to a replica is added to its stream.
LEMMA StreamAppend ==
    ASSUME Parts, NEW r \in Replicas, NEW u \in Seq(Unit), head'[r] = head[r],
           received'[r] = received[r], down'[r] = down[r] \o u
    PROVE  Flow(r)' = Flow(r) \o u /\ CommandStream(r)' = CommandStream(r) \o u
<1>1. /\ down[r] \in Seq(Unit) /\ Buffered(head[r]) \in Seq(Unit)
      /\ Parsed(received[r]) \in Seq(Unit) /\ Flow(r) \in Seq(Unit)
  BY StreamShape
<1>2. ASSUME NEW a \in Seq(Unit), NEW b \in Seq(Unit) PROVE (a \o b) \o u = a \o (b \o u)
  BY UnitAssociative
<1>3. Flow(r)' = Buffered(head[r]) \o (down[r] \o u)
  BY DEF Flow, Buffered
<1>4. Flow(r)' = Flow(r) \o u
  BY <1>1, <1>2, <1>3, PartsOfStream, ZenonT(60)
<1>5. CommandStream(r)' = Parsed(received[r]) \o Flow(r)'
  BY DEF CommandStream, Parsed
<1> QED
  BY <1>1, <1>2, <1>4, <1>5, PartsOfStream

\* A worker answers; the answer of a replica's is the one it waits for.
LEMMA sendReplyC ==
    ASSUME Parts, Parts', CalmOK, alive, NEW x \in Peers, sendReply(x), calm'
    PROVE  CalmOK'
<1>1. /\ wpc[x] \in {"pong", "answer", "synced"} /\ wpc' = [wpc EXCEPT ![x] = "recv"]
      /\ num' = [num EXCEPT ![x] = 0] /\ idx' = [idx EXCEPT ![x] = 0]
      /\ UNCHANGED <<desc, slots, replica_count, alive, peer, up, fd>>
      /\ UNCHANGED <<rpc, head, received, writes, by, since>>
  BY Literals DEF sendReply, listVars, replicaVars
<1>2. DescOK /\ SlotsOK /\ HandshakeOK /\ ClientsOK /\ LoopsOK /\ StreamsOK
  BY DEF CalmOK
<1>3. WorkerT /\ PeerT
  BY DEF Parts
<1>4. Conn(x) = x /\ x # Closed /\ (x \in Replicas => peer[x] = "up")
  BY <1>1, StagesC
<1> DEFINE u == Reply(Answers[wpc[x]])
<1>5. u \in Unit /\ u.kind = "reply"
  BY <1>1, Literals DEF Reply, Unit
<1>6. down' = [down EXCEPT ![x] = IF peer[x] = "up" THEN @ \o <<u>> ELSE @]
  BY <1>4 DEF sendReply, Deliver
<1> HIDE DEF u
<1>7. \A z \in Peers : z # x => wpc'[z] = wpc[z] /\ num'[z] = num[z] /\ idx'[z] = idx[z] /\ down'[z] = down[z]
  BY <1>1, <1>3, <1>6 DEF WorkerT, PeerT
<1>8. wpc'[x] = "recv" /\ (x \in Replicas => down'[x] = down[x] \o <<u>>)
  BY <1>1, <1>3, <1>4, <1>6 DEF WorkerT, PeerT
<1>9. DescOK'
  <2>1. ASSUME NEW z \in Peers PROVE wpc'[z] \in {"none", "done"} <=> wpc[z] \in {"none", "done"}
    BY <1>1, <1>7, <1>8
  <2>2. ASSUME NEW z \in Peers
        PROVE  wpc'[z] # "shut" /\ (peer'[z] \in {"new", "absent"} => wpc'[z] = "none")
    BY <1>1, <1>2, <1>7, <1>8 DEF DescOK
  <2> QED
    BY <1>1, <1>2, <2>1, <2>2 DEF DescOK
<1>10. SlotsOK' /\ LoopsOK'
  BY <1>1, <1>2, <1>7, <1>8, SlotsSame, LoopsSame
<1>11. ClientsOK'
  BY <1>1, <1>2, <1>7, <1>8 DEF ClientsOK, Peers
<1>12. ASSUME NEW r \in Replicas, r # x PROVE HandOK(r)'
  BY <1>1, <1>2, <1>7, <1>12, HandSame DEF HandshakeOK, Peers
<1>13. ASSUME x \in Replicas PROVE HandOK(x)'
  <2>1. HandOK(x)
    BY <1>2, <1>13 DEF HandshakeOK
  <2>2. rpc[x] \in {"ping", "port", "capa", "psync"} /\ NoReply(down[x]) /\ up[x] = <<>>
    BY <1>1, <2>1 DEF HandOK, Hand
  <2>3. down[x] \in Seq(Unit)
    BY <1>3 DEF PeerT
  <2>4. OneReply(down'[x])
    BY <1>5, <1>8, <1>13, <2>2, <2>3, AddReply
  <2> QED
    BY <1>1, <1>8, <2>1, <2>2, <2>4 DEF HandOK, Hand
<1>14. SameLoops
  BY <1>1, <1>7, <1>8 DEF SameLoops
<1>15. ASSUME NEW r \in Replicas, r # x PROVE StreamOK(r)'
  <2>1. down'[r] = down[r]
    BY <1>7, <1>15 DEF Peers
  <2> QED
    BY <1>1, <1>2, <1>14, <2>1, StreamSame DEF StreamsOK
<1>16. ASSUME x \in Replicas PROVE StreamOK(x)'
  <2>1. StreamOK(x) /\ Flow(x) \in Seq(Unit) /\ CommandStream(x) \in Seq(Unit)
    BY <1>2, <1>16, StreamShape DEF StreamsOK
  <2>2. <<u>> \in Seq(Unit)
    BY <1>5
  <2>3. Flow(x)' = Flow(x) \o <<u>> /\ CommandStream(x)' = CommandStream(x) \o <<u>>
    BY <1>1, <1>8, <1>16, <2>2, StreamAppend
  <2>4. Paired(Flow(x)')
    BY <1>5, <2>1, <2>3, AddReply DEF StreamOK
  <2>5. /\ InOrder(CommandStream(x)', by) /\ Within(CommandStream(x)', writes)
        /\ since[x] < 0 => OnlyReplies(CommandStream(x)')
    BY <1>5, <2>1, <2>3, AddReply DEF StreamOK
  <2>6. \A n : Has(CommandStream(x)', n) <=> Has(CommandStream(x), n)
    BY <1>5, <2>1, <2>3, AddReply
  <2> QED
    BY <1>1, <1>14, <1>16, <2>1, <2>4, <2>5, <2>6, StreamKept
<1> QED
  BY <1>9, <1>10, <1>11, <1>12, <1>13, <1>15, <1>16 DEF CalmOK, HandshakeOK, StreamsOK

\* The loop comes to the end: there is no replica ahead of it.
LEMMA WalkEndC ==
    ASSUME Parts, Parts', CalmOK, alive, NEW x \in Peers, WalkEnd(x)
    PROVE  CalmOK'
<1>1. /\ wpc[x] = "walk" /\ idx[x] > replica_count /\ wpc' = [wpc EXCEPT ![x] = "answer"]
      /\ UNCHANGED <<desc, slots, replica_count, alive, peer, up, down, fd, num, idx>>
      /\ UNCHANGED <<rpc, head, received, writes, by, since>>
  BY DEF WalkEnd, listVars, linkVars, replicaVars, countVars
<1>2. DescOK /\ SlotsOK /\ HandshakeOK /\ ClientsOK /\ LoopsOK /\ StreamsOK
  BY DEF CalmOK
<1>3. WorkerT /\ x \in Writers /\ x \notin Replicas
  BY <1>1, StagesC DEF Parts
<1>4. \A z \in Peers : z # x => wpc'[z] = wpc[z]
  BY <1>1, <1>3 DEF WorkerT
<1>5. wpc'[x] = "answer"
  BY <1>1, <1>3 DEF WorkerT
<1>6. DescOK'
  <2>1. ASSUME NEW z \in Peers PROVE wpc'[z] \in {"none", "done"} <=> wpc[z] \in {"none", "done"}
    BY <1>1, <1>4, <1>5
  <2>2. ASSUME NEW z \in Peers
        PROVE  wpc'[z] # "shut" /\ (peer'[z] \in {"new", "absent"} => wpc'[z] = "none")
    BY <1>1, <1>2, <1>4, <1>5 DEF DescOK
  <2> QED
    BY <1>1, <1>2, <2>1, <2>2 DEF DescOK
<1>7. SlotsOK' /\ LoopsOK'
  BY <1>1, <1>2, <1>4, <1>5, SlotsSame, LoopsSame
<1>8. ClientsOK'
  BY <1>1, <1>2, <1>4, <1>5 DEF ClientsOK, Peers
<1>9. HandshakeOK'
  <2>1. \A r \in Replicas : wpc'[r] = wpc[r]
    BY <1>3, <1>4 DEF Peers
  <2> QED
    BY <1>1, <1>2, <2>1, HandSame DEF HandshakeOK
<1>10. ASSUME NEW r \in Replicas PROVE StreamOK(r)'
  <2>1. CommandStream(r)' = CommandStream(r) /\ Flow(r)' = Flow(r) /\ StreamOK(r)
    BY <1>1, <1>2 DEF CommandStream, Flow, StreamsOK
  <2>2. ~Ahead(x, r)
    <3>1. replica_count = Len(slots) /\ Len(slots) \in Nat /\ idx[x] \in Nat
      BY <1>2, <1>3, LenProperties DEF SlotsOK, Parts, MasterT, WorkerT
    <3>2. \A p \in 1 .. Len(slots) : ~(p >= idx[x])
      BY <1>1, <3>1
    <3> QED
      BY <3>2 DEF Ahead
  <2>3. \A z \in Peers : (wpc[z] = "walk" /\ Ahead(z, r) => wpc'[z] = "walk") /\ (wpc'[z] = "walk" => wpc[z] = "walk")
    BY <1>4, <1>5, <2>2
  <2>4. \A z \in Peers : (Passed(z, r) => Passed(z, r)') /\ (Ahead(z, r) => Ahead(z, r)')
    BY <1>1 DEF Passed, Ahead
  <2> QED
    BY <1>1, <2>1, <2>3, <2>4 DEF StreamOK
<1> QED
  BY <1>6, <1>7, <1>8, <1>9, <1>10 DEF CalmOK, StreamsOK


\* The loop writes to the replica whose number it reads: that replica has not
\* got the command yet, and nothing later of the same client; the loop is then
\* past its place, and no nearer to that of another one.
LEMMA WalkWriteC ==
    ASSUME Parts, Parts', CalmOK, alive, NEW x \in Peers, WalkWrite(x), calm'
    PROVE  CalmOK'
<1>1. /\ Walking(x) /\ idx' = [idx EXCEPT ![x] = @ + 1]
      /\ Deliver(desc[slots[idx[x]]], <<Header(num[x]), Elements(num[x])>>)
      /\ UNCHANGED <<desc, slots, replica_count, alive, peer, up, fd, wpc, num>>
      /\ UNCHANGED <<rpc, head, received, writes, by, since>>
  BY DEF WalkWrite, replicaVars
<1>2. DescOK /\ SlotsOK /\ HandshakeOK /\ ClientsOK /\ LoopsOK /\ StreamsOK
  BY DEF CalmOK
<1>3. WorkerT /\ PeerT /\ wpc[x] = "walk"
  BY <1>1 DEF Parts, Walking
<1>4. x \in Writers /\ x \notin Replicas
  BY <1>3, StagesC
<1>5. idx[x] \in 1 .. Len(slots)
  BY <1>1, SlotType
<1>6. PICK t \in Replicas : since[t] >= 0 /\ slots[idx[x]] = fd[t]
  BY <1>2, <1>5 DEF SlotsOK
<1>7. t \in Peers /\ desc[slots[idx[x]]] = t
  BY <1>6, OwnNumber DEF Peers
<1>8. peer[t] = "up" /\ rpc[t] # "new"
  BY <1>2, <1>6 DEF HandshakeOK, HandOK, Hand
<1> DEFINE n == num[x]
           pair == <<Header(n), Elements(n)>>
<1>9. down'[t] = down[t] \o pair /\ \A r \in Replicas : r # t => down'[r] = down[r]
  BY <1>1, <1>3, <1>7, <1>8 DEF Deliver, PeerT, Peers
<1>10. /\ idx'[x] = idx[x] + 1 /\ idx[x] \in Nat /\ n \in Nat
       /\ \A z \in Peers : z # x => idx'[z] = idx[z]
  BY <1>1, <1>3 DEF WorkerT
<1>11. pair \in Seq(Unit)
  BY <1>10, UnitFacts
<1>12. DescOK' /\ SlotsOK' /\ LoopsOK' /\ ClientsOK'
  BY <1>1, <1>2, <1>3, <1>10, DescSame, SlotsSame, LoopsSame DEF ClientsOK
<1>13. ASSUME NEW r \in Replicas, r # t PROVE HandOK(r)'
  BY <1>1, <1>2, <1>9, <1>13, HandSame DEF HandshakeOK
<1>14. HandOK(t)'
  <2>1. HandOK(t) /\ down[t] \in Seq(Unit)
    BY <1>2, <1>3, <1>7 DEF HandshakeOK, PeerT
  <2>2. (NoReply(down[t]) => NoReply(down'[t])) /\ (OneReply(down[t]) => OneReply(down'[t]))
    BY <1>9, <1>10, <2>1, AddCommand
  <2> QED
    BY <1>1, <1>8, <2>1, <2>2 DEF HandOK, Hand
<1>15. \A r \in Replicas : since[r] >= 0 /\ r # t => fd[r] # fd[t]
  <2>1. \A r \in Replicas : since[r] >= 0 => desc[fd[r]] = r
    BY OwnNumber
  <2> QED
    BY <1>6, <2>1
<1>16. ASSUME NEW z \in Peers, NEW r \in Replicas
       PROVE  /\ Passed(z, r) => Passed(z, r)'
              /\ z # x /\ Ahead(z, r) => Ahead(z, r)'
              /\ since[r] >= 0 /\ r # t /\ Ahead(z, r) => Ahead(z, r)'
  <2>1. \A p \in 1 .. Len(slots) : p < idx[z] => p < idx'[z]
    <3>1. idx[z] \in Nat /\ (idx'[z] = idx[z] \/ idx'[z] = idx[z] + 1)
      BY <1>3, <1>10 DEF WorkerT
    <3> QED
      BY <3>1
  <2>2. Passed(z, r) => Passed(z, r)'
    BY <1>1, <2>1 DEF Passed
  <2>3. z # x /\ Ahead(z, r) => Ahead(z, r)'
    BY <1>1, <1>10 DEF Ahead
  <2>4. ASSUME since[r] >= 0, r # t, z = x, Ahead(x, r) PROVE Ahead(x, r)'
    <3>1. PICK p \in 1 .. Len(slots) : p >= idx[x] /\ slots[p] = fd[r]
      BY <2>4 DEF Ahead
    <3>2. p # idx[x]
      BY <1>6, <1>15, <2>4, <3>1
    <3>3. p >= idx'[x]
      BY <1>10, <3>1, <3>2
    <3> QED
      BY <1>1, <3>1, <3>3 DEF Ahead
  <2> QED
    BY <2>2, <2>3, <2>4
<1>17. ASSUME NEW r \in Replicas, r # t PROVE StreamOK(r)'
  <2>1. CommandStream(r)' = CommandStream(r) /\ Flow(r)' = Flow(r) /\ StreamOK(r)
    BY <1>1, <1>2, <1>9, <1>17 DEF CommandStream, Flow, StreamsOK
  <2> QED
    BY <1>1, <1>16, <1>17, <2>1 DEF StreamOK
<1>18. StreamOK(t)'
  <2> DEFINE s == CommandStream(t)
  <2>1. StreamOK(t) /\ Flow(t) \in Seq(Unit) /\ s \in Seq(Unit)
    BY <1>2, StreamShape DEF StreamsOK
  <2>2. Flow(t)' = Flow(t) \o pair /\ s' = s \o pair
    BY <1>1, <1>9, <1>11, StreamAppend
  <2>3. Paired(Flow(t)) /\ InOrder(s, by) /\ Within(s, writes)
    BY <2>1 DEF StreamOK
  <2>4. LoopOK(x)
    BY <1>2, <1>3 DEF LoopsOK
  <2>5. ~Has(s, n)
    <3>1. SUFFICES ASSUME Has(s, n) PROVE FALSE
      OBVIOUS
    <3>2. Passed(x, t)
      BY <1>3, <2>1, <3>1 DEF StreamOK
    <3>3. PICK p \in 1 .. Len(slots) : p < idx[x] /\ slots[p] = fd[t]
      BY <3>2 DEF Passed
    <3>4. p = idx[x]
      BY <1>2, <1>5, <1>6, <3>3 DEF SlotsOK
    <3> QED
      BY <1>10, <3>3, <3>4
  <2> HIDE DEF s
  <2>6. ASSUME NEW m, Has(s, m), by[m] = by[n] PROVE m < n
    <3>1. m \in 1 .. writes
      BY <2>3, <2>6 DEF Has, Within
    <3>2. m <= n
      BY <2>4, <2>6, <3>1 DEF LoopOK
    <3>3. m # n
      BY <2>5, <2>6
    <3> QED
      BY <1>10, <3>1, <3>2, <3>3
  <2>7. writes \in Nat /\ n \in 1 .. writes
    BY <2>4 DEF LoopOK, Parts, CountT
  <2> HIDE DEF n
  <2>8. /\ \A m : Has(s', m) <=> Has(s, m) \/ m = n
        /\ Within(s', writes) /\ InOrder(s', by)
    BY <1>10, <2>1, <2>2, <2>3, <2>5, <2>6, <2>7, AddCommand
  <2>9. Paired(Flow(t)')
    BY <1>10, <2>1, <2>2, <2>3, AddCommand
  <2>10. ASSUME NEW z \in Peers, wpc[z] = "walk", Has(s', num[z]) PROVE Passed(z, t)'
    <3>1. CASE z = x
      <4>1. idx[x] < idx'[x]
        BY <1>10
      <4> QED
        BY <1>1, <1>5, <1>6, <3>1, <4>1 DEF Passed
    <3>2. CASE z # x
      <4>1. num[z] # n
        <5>1. LoopOK(z)
          BY <1>2, <2>10 DEF LoopsOK
        <5> QED
          BY <2>4, <3>2, <5>1 DEF LoopOK, n
      <4>2. Has(s, num[z])
        BY <2>8, <2>10, <4>1
      <4> QED
        BY <1>16, <2>1, <2>10, <4>2 DEF StreamOK, s
    <3> QED
      BY <3>1, <3>2
  <2>11. ASSUME NEW m \in (since[t] + 1) .. writes, ~Has(s', m)
         PROVE  \E z \in Peers : wpc[z] = "walk" /\ num[z] = m /\ Ahead(z, t)'
    <3>1. ~Has(s, m) /\ m # n
      BY <2>8, <2>11
    <3>2. PICK z \in Peers : wpc[z] = "walk" /\ num[z] = m /\ Ahead(z, t)
      BY <1>6, <2>1, <2>11, <3>1 DEF StreamOK, s
    <3>3. z # x
      BY <3>1, <3>2 DEF n
    <3> QED
      BY <1>16, <3>2, <3>3
  <2>12. ~(since[t] < 0)
    BY <1>6, <1>7 DEF Parts, CountT
  <2> QED
    BY <1>1, <2>8, <2>9, <2>10, <2>11, <2>12 DEF StreamOK, s
<1> QED
  BY <1>12, <1>13, <1>14, <1>17, <1>18 DEF CalmOK, HandshakeOK, StreamsOK

LEMMA BrokenPipeC ==
    ASSUME Parts, CalmOK, NEW x \in Peers, BrokenPipe(x)
    PROVE  CalmOK'
<1>1. /\ alive' = FALSE
      /\ UNCHANGED <<slots, replica_count, peer, up, down, fd, wpc, num, idx>>
      /\ UNCHANGED <<rpc, head, received, writes, by, since>>
  BY DEF BrokenPipe, listVars, linkVars, workerVars, replicaVars, countVars
<1>2. DescOK /\ SlotsOK /\ HandshakeOK /\ ClientsOK /\ LoopsOK /\ StreamsOK
  BY DEF CalmOK
<1>3. DescOK'
  BY <1>1, <1>2 DEF DescOK
<1>4. SlotsOK' /\ LoopsOK' /\ ClientsOK'
  BY <1>1, <1>2, SlotsSame, LoopsSame DEF ClientsOK
<1>5. ASSUME NEW r \in Replicas PROVE HandOK(r)'
  <2>1. HandOK(r)
    BY <1>2 DEF HandshakeOK
  <2> QED
    BY <1>1, <2>1 DEF HandOK, Hand
<1>6. StreamsOK'
  <2>1. SameLoops
    BY <1>1 DEF SameLoops
  <2> QED
    BY <1>1, <1>2, <2>1, StreamSame DEF StreamsOK
<1> QED
  BY <1>3, <1>4, <1>5, <1>6 DEF CalmOK, HandshakeOK


-----------------------------------------------------------------------------
(* The replicas *)

\* A step of one replica leaves the master and the other replicas alone.
LEMMA ReplicaFrame ==
    ASSUME CalmOK, NEW r \in Replicas, HandOK(r)', StreamOK(r)',
           UNCHANGED <<desc, slots, replica_count, alive, peer, fd, wpc, num, idx>>,
           UNCHANGED <<writes, by, since>>,
           \A z \in Peers : z # r => up'[z] = up[z] /\ down'[z] = down[z],
           \A z \in Replicas : z # r => /\ rpc'[z] = rpc[z] /\ head'[z] = head[z]
                                        /\ received'[z] = received[z]
    PROVE  CalmOK'
<1>1. DescOK /\ SlotsOK /\ HandshakeOK /\ ClientsOK /\ LoopsOK /\ StreamsOK
  BY DEF CalmOK
<1>2. DescOK' /\ SlotsOK' /\ LoopsOK'
  BY <1>1, DescSame, SlotsSame, LoopsSame
<1>3. ClientsOK'
  <2>1. \A w \in Writers : up'[w] = up[w]
    BY DEF Peers
  <2> QED
    BY <1>1, <2>1 DEF ClientsOK
<1>4. SameLoops
  BY DEF SameLoops
<1>5. ASSUME NEW z \in Replicas, z # r PROVE HandOK(z)' /\ StreamOK(z)'
  <2>1. z \in Peers /\ HandOK(z) /\ StreamOK(z)
    BY <1>1 DEF Peers, HandshakeOK, StreamsOK
  <2>2. up'[z] = up[z] /\ down'[z] = down[z]
    BY <1>5, <2>1
  <2> QED
    BY <1>4, <1>5, <2>1, <2>2, HandSame, StreamSame
<1> QED
  BY <1>2, <1>3, <1>5 DEF CalmOK, HandshakeOK, StreamsOK

\* Without a header in the buffer the flow is what is under way.
LEMMA BareFlow ==
    Parts => \A r \in Replicas :
        /\ head[r] = 0 => Flow(r) = down[r]
        /\ received[r] = <<>> => CommandStream(r) = Flow(r)
<1> SUFFICES ASSUME Parts, NEW r \in Replicas
             PROVE  /\ head[r] = 0 => Flow(r) = down[r]
                    /\ received[r] = <<>> => CommandStream(r) = Flow(r)
  OBVIOUS
<1>1. down[r] \in Seq(Unit) /\ Flow(r) \in Seq(Unit) /\ Parsed(received[r]) \in Seq(Unit)
      /\ Len(Parsed(received[r])) = Len(received[r])
  BY StreamShape
<1>2. ASSUME NEW S, NEW q \in Seq(S) PROVE <<>> \o q = q
  BY ConcatEmptySeq
<1>3. head[r] = 0 => Buffered(head[r]) = <<>>
  BY DEF Buffered
<1>4. received[r] = <<>> => Parsed(received[r]) = <<>>
  <2>1. Len(<<>>) = 0
    OBVIOUS
  <2>2. received[r] = <<>> => Len(Parsed(received[r])) = 0
    BY <1>1, <2>1
  <2> QED
    BY <1>1, <2>2, EmptySeq
<1>5. head[r] = 0 => Flow(r) = down[r]
  BY <1>1, <1>2, <1>3, PartsOfStream
<1>6. received[r] = <<>> => CommandStream(r) = Flow(r)
  BY <1>1, <1>2, <1>4, PartsOfStream
<1> QED
  BY <1>5, <1>6

LEMMA BareFlowNext ==
    Parts' => \A r \in Replicas :
        /\ head'[r] = 0 => Flow(r)' = down'[r]
        /\ received'[r] = <<>> => CommandStream(r)' = Flow(r)'
<1>1. (Parts => \A r \in Replicas :
           /\ head[r] = 0 => Flow(r) = down[r]
           /\ received[r] = <<>> => CommandStream(r) = Flow(r))'
  BY BareFlow, PTL
<1> QED
  BY <1>1

LEMMA StreamShapeNext ==
    Parts' => \A r \in Replicas :
        /\ Flow(r)' \in Seq(Unit) /\ Len(received'[r]) \in Nat /\ Len(Flow(r)') \in Nat
        /\ Len(CommandStream(r)') = Len(received'[r]) + Len(Flow(r)')
        /\ \A i \in 1 .. (Len(received'[r]) + Len(Flow(r)')) :
              CommandStream(r)'[i] = IF i <= Len(received'[r]) THEN Parsed(received'[r])[i]
                                     ELSE Flow(r)'[i - Len(received'[r])]
<1>1. (Parts => \A r \in Replicas :
        /\ Flow(r) \in Seq(Unit) /\ Len(received[r]) \in Nat /\ Len(Flow(r)) \in Nat
        /\ Len(CommandStream(r)) = Len(received[r]) + Len(Flow(r))
        /\ \A i \in 1 .. (Len(received[r]) + Len(Flow(r))) :
              CommandStream(r)[i] = IF i <= Len(received[r]) THEN Parsed(received[r])[i]
                                    ELSE Flow(r)[i - Len(received[r])])'
  <2>1. Parts => \A r \in Replicas :
        /\ Flow(r) \in Seq(Unit) /\ Len(received[r]) \in Nat /\ Len(Flow(r)) \in Nat
        /\ Len(CommandStream(r)) = Len(received[r]) + Len(Flow(r))
        /\ \A i \in 1 .. (Len(received[r]) + Len(Flow(r))) :
              CommandStream(r)[i] = IF i <= Len(received[r]) THEN Parsed(received[r])[i]
                                    ELSE Flow(r)[i - Len(received[r])]
    BY StreamShape
  <2> QED
    BY <2>1, PTL
<1> QED
  BY <1>1

\* The answer in front is taken: what is behind it stays.
LEMMA HandshakeStepC ==
    ASSUME Parts, Parts', CalmOK, NEW r \in Replicas, HandshakeStep(r)
    PROVE  CalmOK'
<1> DEFINE next == phases[(CHOOSE i \in DOMAIN phases : phases[i] = rpc[r]) + 1]
<1>1. /\ rpc[r] \in DOMAIN Expected /\ down[r] # <<>> /\ rpc' = [rpc EXCEPT ![r] = next]
      /\ Head(down[r]) = Reply(Expected[rpc[r]])
      /\ \/ next \in DOMAIN Requests /\ up' = [up EXCEPT ![r] = Append(@, Requests[next])]
         \/ next \notin DOMAIN Requests /\ UNCHANGED up
      /\ down' = [down EXCEPT ![r] = Tail(@)]
      /\ UNCHANGED <<desc, slots, replica_count, alive, peer, fd, wpc, num, idx>>
      /\ UNCHANGED <<head, received, writes, by, since>>
  BY DEF HandshakeStep, Shaking, readLine, writeExactly, listVars, workerVars, countVars
<1>2. /\ rpc[r] = "ping" => next = "port"
      /\ rpc[r] = "port" => next = "capa"
      /\ rpc[r] = "capa" => next = "psync"
      /\ rpc[r] = "psync" => next = "stream"
  BY <1>1, NextPhase
<1> HIDE DEF next
<1>3. PeerT /\ ReplicaT /\ r \in Peers /\ rpc[r] \in {"ping", "port", "capa", "psync"}
  BY <1>1, Literals DEF Parts, Peers
<1>4. HandOK(r) /\ StreamOK(r)
  BY DEF CalmOK, HandshakeOK, StreamsOK
<1>5. /\ Len(down[r]) \in Nat /\ Len(down[r]) >= 1 /\ Head(down[r]) = down[r][1]
      /\ Tail(down[r]) \in Seq(Unit) /\ Len(Tail(down[r])) = Len(down[r]) - 1
      /\ \A i \in 1 .. (Len(down[r]) - 1) : Tail(down[r])[i] = down[r][i + 1]
  BY <1>1, <1>3, TailOf DEF PeerT
<1>6. down[r][1].kind = "reply"
  BY <1>1, <1>5 DEF Reply
<1>7. ~NoReply(down[r])
  BY <1>5, <1>6 DEF NoReply
<1>8. wpc[r] = "recv" /\ up[r] = <<>> /\ OneReply(down[r]) /\ head[r] = 0 /\ received[r] = <<>>
  BY <1>3, <1>4, <1>7 DEF HandOK, Hand
<1>9. down'[r] = Tail(down[r]) /\ rpc'[r] = next
  BY <1>1, <1>3 DEF PeerT, ReplicaT
<1>10. NoReply(down'[r]) /\ OneReply(down'[r])
  <2>1. ASSUME NEW i \in 1 .. Len(Tail(down[r])) PROVE Tail(down[r])[i].kind # "reply"
    <3>1. i + 1 \in 1 .. Len(down[r]) /\ i + 1 # 1 /\ 1 \in 1 .. Len(down[r])
      BY <1>5
    <3>2. down[r][i + 1].kind # "reply"
      BY <1>6, <1>8, <3>1 DEF OneReply
    <3> QED
      BY <1>5, <3>2
  <2> QED
    BY <1>9, <2>1 DEF NoReply, OneReply
<1>11. /\ next = "stream" => up'[r] = <<>>
       /\ next # "stream" => /\ up'[r] # <<>> /\ Len(up'[r]) = 1 /\ up'[r][1] # "SET"
                             /\ up'[r][1] = "PSYNC" => next = "psync"
  <2>1. ASSUME next \in DOMAIN Requests
        PROVE  /\ up'[r] # <<>> /\ Len(up'[r]) = 1 /\ up'[r][1] # "SET"
               /\ up'[r][1] = "PSYNC" => next = "psync"
    <3>1. up'[r] = Append(<<>>, Requests[next])
      BY <1>1, <1>3, <1>8, <2>1 DEF PeerT
    <3>2. up'[r] = <<Requests[next]>>
      BY <3>1
    <3>3. Len(up'[r]) = 1 /\ up'[r][1] = Requests[next] /\ up'[r] # <<>>
      BY <3>2
    <3> QED
      BY <2>1, <3>3, Literals
  <2>2. next # "stream" => next \in DOMAIN Requests
    BY <1>2, <1>3, Literals
  <2>3. next = "stream" => up'[r] = <<>>
    <3>1. next = "stream" => next \notin DOMAIN Requests
      BY Literals
    <3> QED
      BY <1>1, <1>8, <3>1
  <2> QED
    BY <2>1, <2>2, <2>3
<1>12. HandOK(r)'
  BY <1>1, <1>2, <1>3, <1>4, <1>8, <1>9, <1>10, <1>11 DEF HandOK, Hand
<1>13. StreamOK(r)'
  <2>1. /\ Flow(r) = down[r] /\ CommandStream(r) = down[r]
        /\ Flow(r)' = down'[r] /\ CommandStream(r)' = down'[r]
    BY <1>1, <1>8, BareFlow, BareFlowNext
  <2>2. Dropped(down[r], down'[r], 1)
    <3>1. \A i \in 1 .. Len(Tail(down[r])) : ~(i < 1)
      OBVIOUS
    <3> QED
      BY <1>5, <1>6, <1>9, <3>1 DEF Dropped
  <2>3. Paired(down[r]) /\ InOrder(down[r], by) /\ Within(down[r], writes)
        /\ (since[r] < 0 => OnlyReplies(down[r]))
    BY <1>4, <2>1 DEF StreamOK
  <2>4. Paired(down'[r])
    <3>1. Len(down'[r]) = Len(down[r]) - 1 /\ \A i \in 1 .. Len(down'[r]) : down'[r][i] = down[r][i + 1]
      BY <1>5, <1>9
    <3>2. 1 \in Nat /\ 1 >= 1 /\ Len(down[r]) \in Nat /\ 1 <= Len(down[r]) /\ down[r][1].kind # "head"
      BY <1>5, <1>6
    <3>3. Paired(down[r])
      BY <2>3
    <3> QED
      BY <3>1, <3>2, <3>3, PairedRest, Zenon
  <2>5. /\ \A n : Has(down'[r], n) <=> Has(down[r], n)
        /\ InOrder(down'[r], by) /\ Within(down'[r], writes)
        /\ since[r] < 0 => OnlyReplies(down'[r])
    BY <2>2, <2>3, DropUnit
  <2>6. SameLoops
    BY <1>1 DEF SameLoops
  <2> QED
    BY <1>1, <1>4, <2>1, <2>4, <2>5, <2>6, StreamKept
<1>14. /\ \A z \in Peers : z # r => up'[z] = up[z] /\ down'[z] = down[z]
       /\ \A z \in Replicas : z # r => rpc'[z] = rpc[z]
  BY <1>1, <1>3 DEF PeerT, ReplicaT
<1> QED
  BY <1>1, <1>12, <1>13, <1>14, ReplicaFrame


\* A replica that streams goes on streaming.
LEMMA StreamingHand ==
    ASSUME NEW r \in Replicas, HandOK(r), rpc[r] = "stream", rpc'[r] = "stream",
           UNCHANGED <<wpc, since, up, peer, alive>>, NoReply(down'[r])
    PROVE  HandOK(r)'
<1>1. OneReply(down'[r])
  BY DEF NoReply, OneReply
<1> QED
  BY <1>1 DEF HandOK, Hand

\* A header in the buffer is the front of the flow.
LEMMA HeadFlow ==
    Parts => \A r \in Replicas : head[r] # 0 =>
        /\ Len(Flow(r)) = Len(down[r]) + 1 /\ Flow(r)[1] = Header(head[r])
        /\ \A i \in 1 .. Len(down[r]) : Flow(r)[i + 1] = down[r][i]
<1> SUFFICES ASSUME Parts, NEW r \in Replicas, head[r] # 0
             PROVE  /\ Len(Flow(r)) = Len(down[r]) + 1 /\ Flow(r)[1] = Header(head[r])
                    /\ \A i \in 1 .. Len(down[r]) : Flow(r)[i + 1] = down[r][i]
  OBVIOUS
<1> DEFINE h == Buffered(head[r])
           d == down[r]
           q == Flow(r)
<1>1. /\ d \in Seq(Unit) /\ h \in Seq(Unit) /\ head[r] \in Nat /\ q = h \o d
  BY StreamShape, PartsOfStream DEF Parts, ReplicaT
<1>2. Len(h) = 1 /\ h[1] = Header(head[r])
  BY <1>1, BufferedType
<1> HIDE DEF h, d, q
<1>3. /\ Len(q) = Len(h) + Len(d) /\ Len(d) \in Nat
      /\ \A i \in 1 .. (Len(h) + Len(d)) : q[i] = IF i <= Len(h) THEN h[i] ELSE d[i - Len(h)]
  BY <1>1, UnitConcat, LenProperties
<1>4. Len(q) = Len(d) + 1 /\ q[1] = Header(head[r])
  BY <1>2, <1>3
<1>5. ASSUME NEW i \in 1 .. Len(d) PROVE q[i + 1] = d[i]
  <2>1. i + 1 \in 1 .. (1 + Len(d)) /\ ~(i + 1 <= 1) /\ (i + 1) - 1 = i
    BY <1>3
  <2> QED
    BY <1>2, <1>3, <2>1
<1> QED
  BY <1>4, <1>5 DEF d, q

LEMMA HeadFlowNext ==
    Parts' => \A r \in Replicas : head'[r] # 0 =>
        /\ Len(Flow(r)') = Len(down'[r]) + 1 /\ Flow(r)'[1] = Header(head'[r])
        /\ \A i \in 1 .. Len(down'[r]) : Flow(r)'[i + 1] = down'[r][i]
<1>1. (Parts => \A r \in Replicas : head[r] # 0 =>
        /\ Len(Flow(r)) = Len(down[r]) + 1 /\ Flow(r)[1] = Header(head[r])
        /\ \A i \in 1 .. Len(down[r]) : Flow(r)[i + 1] = down[r][i])'
  BY HeadFlow, PTL
<1> QED
  BY <1>1

\* A command leaves the flow and joins the commands received: in the stream,
\* only its header goes.
LEMMA ParsePair ==
    ASSUME Parts, Parts', NEW r \in Replicas, NEW n \in Nat, Len(Flow(r)) >= 2,
           Flow(r)[1] = Header(n), Flow(r)[2] = Elements(n),
           Len(Flow(r)') = Len(Flow(r)) - 2,
           \A i \in 1 .. (Len(Flow(r)) - 2) : Flow(r)'[i] = Flow(r)[i + 2],
           received'[r] = Append(received[r], n)
    PROVE  /\ Dropped(CommandStream(r), CommandStream(r)', Len(received[r]) + 1)
           /\ Paired(Flow(r)) => Paired(Flow(r)')
<1> DEFINE s == CommandStream(r)
           t == CommandStream(r)'
           q == Flow(r)
           v == Flow(r)'
           rc == received[r]
           k == Len(rc)
           Q == Len(q)
<1>1. rc \in Seq(Nat) /\ k \in Nat /\ Q \in Nat /\ Q >= 2
  BY StreamShape DEF Parts, ReplicaT
<1>2. /\ Len(Append(rc, n)) = k + 1 /\ Append(rc, n)[k + 1] = n /\ Append(rc, n) \in Seq(Nat)
      /\ \A i \in 1 .. k : Append(rc, n)[i] = rc[i]
  BY <1>1, AppendProperties
<1>3. /\ Len(s) = k + Q
      /\ \A i \in 1 .. (k + Q) : s[i] = IF i <= k THEN Parsed(rc)[i] ELSE q[i - k]
  BY StreamShape
<1>4. /\ Len(t) = (k + 1) + (Q - 2)
      /\ \A i \in 1 .. ((k + 1) + (Q - 2)) :
            t[i] = IF i <= k + 1 THEN Parsed(Append(rc, n))[i] ELSE v[i - (k + 1)]
  <2>1. /\ Len(t) = Len(received'[r]) + Len(v)
        /\ \A i \in 1 .. (Len(received'[r]) + Len(v)) :
              t[i] = IF i <= Len(received'[r]) THEN Parsed(received'[r])[i]
                     ELSE v[i - Len(received'[r])]
    BY StreamShapeNext
  <2>2. Len(received'[r]) = k + 1 /\ Len(v) = Q - 2 /\ received'[r] = Append(rc, n)
    BY <1>2
  <2> HIDE DEF t, v, k, Q, rc
  <2> QED
    BY <2>1, <2>2
<1>5. /\ \A i \in 1 .. k : Parsed(rc)[i] = Elements(rc[i])
      /\ \A i \in 1 .. (k + 1) : Parsed(Append(rc, n))[i] = Elements(Append(rc, n)[i])
  <2>1. \A c \in Seq(Nat) : \A i \in 1 .. Len(c) : Parsed(c)[i] = Elements(c[i])
    BY ParsedType
  <2> HIDE DEF rc
  <2> QED
    BY <1>1, <1>2, <2>1
<1>6. \A i \in 1 .. (Q - 2) : v[i] = q[i + 2]
  OBVIOUS
<1>7. q[1] = Header(n) /\ q[2] = Elements(n) /\ Len(v) = Q - 2
  OBVIOUS
<1> HIDE DEF s, t, q, v, k, Q, rc
<1>8. k + 1 \in 1 .. (k + Q) /\ s[k + 1] = Header(n)
  <2>1. k + 1 \in 1 .. (k + Q) /\ ~(k + 1 <= k) /\ (k + 1) - k = 1
    BY <1>1
  <2> QED
    BY <1>3, <1>7, <2>1
<1>9. ASSUME NEW i \in 1 .. ((k + 1) + (Q - 2))
      PROVE  t[i] = IF i < k + 1 THEN s[i] ELSE s[i + 1]
  <2>1. CASE i < k + 1
    <3>1. i \in 1 .. k /\ i <= k + 1 /\ i <= k /\ i \in 1 .. (k + 1) /\ i \in 1 .. (k + Q)
      BY <1>1, <2>1
    <3>2. t[i] = Parsed(Append(rc, n))[i] /\ s[i] = Parsed(rc)[i]
      BY <1>3, <1>4, <3>1
    <3>3. Parsed(Append(rc, n))[i] = Elements(rc[i]) /\ Parsed(rc)[i] = Elements(rc[i])
      BY <1>2, <1>5, <3>1
    <3> QED
      BY <2>1, <3>2, <3>3
  <2>2. CASE i = k + 1
    <3>1. /\ i <= k + 1 /\ i \in 1 .. (k + 1) /\ ~(i < k + 1)
          /\ k + 2 \in 1 .. (k + Q) /\ ~(k + 2 <= k) /\ (k + 2) - k = 2 /\ i + 1 = k + 2
      BY <1>1, <2>2
    <3>2. t[i] = Parsed(Append(rc, n))[i]
      BY <1>4, <3>1
    <3>3. t[i] = Elements(n)
      BY <1>2, <1>5, <2>2, <3>1, <3>2
    <3>4. s[k + 2] = q[2]
      BY <1>3, <3>1
    <3> QED
      BY <1>7, <3>1, <3>3, <3>4
  <2>3. CASE i > k + 1
    <3>1. /\ ~(i <= k + 1) /\ ~(i < k + 1) /\ i - (k + 1) \in 1 .. (Q - 2)
          /\ i + 1 \in 1 .. (k + Q) /\ ~(i + 1 <= k) /\ (i - (k + 1)) + 2 = (i + 1) - k
      BY <1>1, <2>3
    <3>2. t[i] = v[i - (k + 1)]
      BY <1>4, <3>1
    <3>3. v[i - (k + 1)] = q[(i - (k + 1)) + 2]
      BY <1>6, <3>1
    <3>4. s[i + 1] = q[(i + 1) - k]
      BY <1>3, <3>1
    <3> QED
      BY <3>1, <3>2, <3>3, <3>4
  <2> QED
    BY <1>1, <2>1, <2>2, <2>3
<1>10. Dropped(s, t, k + 1)
  <2>1. (k + 1) + (Q - 2) = (k + Q) - 1 /\ k + Q \in Nat
    BY <1>1
  <2>2. s[k + 1].kind # "body"
    BY <1>8, UnitFacts
  <2> QED
    BY <1>3, <1>4, <1>8, <1>9, <2>1, <2>2 DEF Dropped
<1>11. Paired(q) => Paired(v)
  <2>1. /\ 2 \in Nat /\ 2 >= 1 /\ Len(q) \in Nat /\ 2 <= Len(q) /\ q[2].kind # "head"
        /\ Len(v) = Len(q) - 2 /\ \A i \in 1 .. Len(v) : v[i] = q[i + 2]
    BY <1>1, <1>6, <1>7, UnitFacts DEF Q
  <2> QED
    BY <2>1, PairedRest, Zenon
<1> QED
  BY <1>10, <1>11 DEF s, t, q, v, k, rc


\* What every receive has in common.
LEMMA StreamingFacts ==
    ASSUME Parts, CalmOK, NEW r \in Replicas, rpc[r] = "stream"
    PROVE  /\ r \in Peers /\ HandOK(r) /\ StreamOK(r) /\ NoReply(down[r])
           /\ down[r] \in Seq(Unit) /\ head[r] \in Nat /\ received[r] \in Seq(Nat)
<1>1. HandOK(r) /\ StreamOK(r)
  BY DEF CalmOK, HandshakeOK, StreamsOK
<1>2. NoReply(down[r])
  BY <1>1 DEF HandOK, Hand
<1> QED
  BY <1>1, <1>2 DEF Parts, PeerT, ReplicaT, Peers

\* A command is parsed, in one piece or in two.
LEMMA CommandC ==
    ASSUME Parts, Parts', CalmOK, NEW r \in Replicas, NEW n \in Nat, rpc[r] = "stream",
           ReceiveCommand(r, n),
           NEW q \in Seq(Unit), down' = [down EXCEPT ![r] = q], NoReply(q),
           Len(Flow(r)) >= 2, Flow(r)[1] = Header(n), Flow(r)[2] = Elements(n),
           Len(q) = Len(Flow(r)) - 2,
           \A i \in 1 .. (Len(Flow(r)) - 2) : q[i] = Flow(r)[i + 2],
           UNCHANGED <<desc, slots, replica_count, alive, peer, up, fd, wpc, num, idx>>,
           UNCHANGED <<writes, by, since>>
    PROVE  CalmOK'
<1>1. r \in Peers /\ HandOK(r) /\ StreamOK(r) /\ PeerT /\ ReplicaT
  BY StreamingFacts DEF Parts
<1>2. down'[r] = q /\ \A z \in Peers : z # r => down'[z] = down[z]
  BY <1>1 DEF PeerT
<1>3. /\ head'[r] = 0 /\ received'[r] = Append(received[r], n) /\ rpc' = rpc
      /\ \A z \in Replicas : z # r => head'[z] = head[z] /\ received'[z] = received[z]
  BY <1>1 DEF ReceiveCommand, ReplicaT
<1>4. Flow(r)' = q
  BY <1>2, <1>3, BareFlowNext
<1>5. HandOK(r)'
  BY <1>1, <1>2, <1>3, StreamingHand
<1>6. /\ Dropped(CommandStream(r), CommandStream(r)', Len(received[r]) + 1)
      /\ Paired(Flow(r)) => Paired(Flow(r)')
  BY <1>3, <1>4, ParsePair
<1>7. /\ Paired(Flow(r)) /\ InOrder(CommandStream(r), by) /\ Within(CommandStream(r), writes)
      /\ since[r] < 0 => OnlyReplies(CommandStream(r))
  BY <1>1 DEF StreamOK
<1>8. /\ \A m : Has(CommandStream(r)', m) <=> Has(CommandStream(r), m)
      /\ InOrder(CommandStream(r)', by) /\ Within(CommandStream(r)', writes)
      /\ since[r] < 0 => OnlyReplies(CommandStream(r)')
  BY <1>6, <1>7, DropUnit
<1>9. SameLoops
  BY DEF SameLoops
<1>10. StreamOK(r)'
  BY <1>1, <1>6, <1>7, <1>8, <1>9, StreamKept
<1> QED
  BY <1>2, <1>3, <1>5, <1>10, ReplicaFrame

LEMMA ReceiveWholeC ==
    ASSUME Parts, Parts', CalmOK, NEW r \in Replicas, ReceiveWhole(r)
    PROVE  CalmOK'
<1>1. /\ rpc[r] = "stream" /\ head[r] = 0 /\ Len(down[r]) >= 2
      /\ ReceiveCommand(r, down[r][1].what)
      /\ down' = [down EXCEPT ![r] = Tail(Tail(@))]
      /\ UNCHANGED <<desc, slots, replica_count, alive, peer, up, fd, wpc, num, idx>>
      /\ UNCHANGED <<writes, by, since>>
  BY DEF ReceiveWhole, listVars, workerVars, countVars
<1>2. NoReply(down[r]) /\ down[r] \in Seq(Unit) /\ r \in Peers
  BY <1>1, StreamingFacts
<1>3. Flow(r) = down[r] /\ Len(down[r]) \in Nat
  BY <1>1, <1>2, BareFlow, LenProperties
<1>4. PICK n \in 1 .. writes : SubSeq(down[r], 1, 2) = <<Header(n), Elements(n)>>
  BY DEF ReceiveWhole
<1>5. n \in Nat
  BY DEF Parts, CountT
<1>6. down[r][1] = Header(n) /\ down[r][2] = Elements(n)
  <2>1. SubSeq(down[r], 1, 2)[1] = down[r][1] /\ SubSeq(down[r], 1, 2)[2] = down[r][2]
    BY <1>1, <1>2, LenProperties, SubSeqProperties
  <2>2. <<Header(n), Elements(n)>>[1] = Header(n) /\ <<Header(n), Elements(n)>>[2] = Elements(n)
    OBVIOUS
  <2> QED
    BY <1>4, <2>1, <2>2
<1>7. ReceiveCommand(r, n)
  BY <1>1, <1>5, <1>6, UnitFacts
<1> DEFINE q == Tail(Tail(down[r]))
<1>8. /\ q \in Seq(Unit) /\ Len(q) = Len(down[r]) - 2
      /\ \A i \in 1 .. (Len(down[r]) - 2) : q[i] = down[r][i + 2]
  BY <1>1, <1>2, TwoOff
<1>9. down' = [down EXCEPT ![r] = q]
  BY <1>1
<1> HIDE DEF q
<1>10. NoReply(q)
  <2>1. \A i \in 1 .. (Len(down[r]) - 2) : i + 2 \in 1 .. Len(down[r])
    BY <1>3
  <2> QED
    BY <1>2, <1>8, <2>1 DEF NoReply
<1>11. /\ Len(Flow(r)) >= 2 /\ Flow(r)[1] = Header(n) /\ Flow(r)[2] = Elements(n)
       /\ Len(q) = Len(Flow(r)) - 2 /\ \A i \in 1 .. (Len(Flow(r)) - 2) : q[i] = Flow(r)[i + 2]
  BY <1>1, <1>3, <1>6, <1>8
<1>12. /\ UNCHANGED <<desc, slots, replica_count, alive, peer, up, fd, wpc, num, idx>>
       /\ UNCHANGED <<writes, by, since>> /\ rpc[r] = "stream"
  BY <1>1
<1>13. q \in Seq(Unit)
  BY <1>8
<1> QED
  BY <1>5, <1>7, <1>9, <1>10, <1>11, <1>12, <1>13, CommandC

LEMMA ReceiveElementsC ==
    ASSUME Parts, Parts', CalmOK, NEW r \in Replicas, ReceiveElements(r)
    PROVE  CalmOK'
<1>1. /\ rpc[r] = "stream" /\ head[r] # 0 /\ down[r] # <<>> /\ Head(down[r]) = Elements(head[r])
      /\ ReceiveCommand(r, head[r])
      /\ down' = [down EXCEPT ![r] = Tail(@)]
      /\ UNCHANGED <<desc, slots, replica_count, alive, peer, up, fd, wpc, num, idx>>
      /\ UNCHANGED <<writes, by, since>>
  BY DEF ReceiveElements, listVars, workerVars, countVars
<1>2. NoReply(down[r]) /\ down[r] \in Seq(Unit) /\ r \in Peers /\ head[r] \in Nat
  BY <1>1, StreamingFacts
<1> DEFINE d == down[r]
           q == Tail(d)
           f == Flow(r)
<1>3. /\ Len(d) \in Nat /\ Len(d) >= 1 /\ Head(d) = d[1] /\ q \in Seq(Unit)
      /\ Len(q) = Len(d) - 1 /\ \A i \in 1 .. (Len(d) - 1) : q[i] = d[i + 1]
  BY <1>1, <1>2, TailOf
<1>4. /\ Len(f) = Len(d) + 1 /\ f[1] = Header(head[r])
      /\ \A i \in 1 .. Len(d) : f[i + 1] = d[i]
  BY <1>1, HeadFlow
<1>5. d[1] = Elements(head[r])
  BY <1>1, <1>3
<1>6. NoReply(d) /\ down' = [down EXCEPT ![r] = q]
  BY <1>1, <1>2
<1> HIDE DEF d, q, f
<1>7. Len(f) >= 2 /\ Len(q) = Len(f) - 2 /\ f[2] = Elements(head[r])
  <2>1. f[1 + 1] = d[1] /\ 1 + 1 = 2
    BY <1>3, <1>4
  <2> QED
    BY <1>3, <1>4, <1>5, <2>1
<1>8. ASSUME NEW i \in 1 .. (Len(f) - 2) PROVE q[i] = f[i + 2]
  <2>1. i \in 1 .. (Len(d) - 1) /\ i + 1 \in 1 .. Len(d) /\ (i + 1) + 1 = i + 2
    BY <1>3, <1>4
  <2> QED
    BY <1>3, <1>4, <2>1
<1>9. NoReply(q)
  <2>1. \A i \in 1 .. (Len(d) - 1) : i + 1 \in 1 .. Len(d)
    BY <1>3
  <2> QED
    BY <1>3, <1>6, <2>1 DEF NoReply
<1> QED
  BY <1>1, <1>2, <1>3, <1>4, <1>6, <1>7, <1>8, <1>9, CommandC DEF f


\* A header goes from the connection to the buffer: the flow stays.
LEMMA ReceiveHeaderC ==
    ASSUME Parts, Parts', CalmOK, NEW r \in Replicas, ReceiveHeader(r)
    PROVE  CalmOK'
<1> DEFINE d == down[r]
           q == Tail(d)
           u == Head(d)
<1>1. /\ rpc[r] = "stream" /\ head[r] = 0 /\ d # <<>> /\ u.kind = "head"
      /\ head' = [head EXCEPT ![r] = u.what]
      /\ down' = [down EXCEPT ![r] = q]
      /\ UNCHANGED <<desc, slots, replica_count, alive, peer, up, fd, wpc, num, idx>>
      /\ UNCHANGED <<rpc, received, writes, by, since>>
  BY DEF ReceiveHeader, listVars, workerVars, countVars
<1>2. /\ NoReply(d) /\ d \in Seq(Unit) /\ r \in Peers /\ PeerT /\ ReplicaT
      /\ HandOK(r) /\ StreamOK(r)
  BY <1>1, StreamingFacts DEF Parts
<1>3. /\ Len(d) \in Nat /\ Len(d) >= 1 /\ u = d[1] /\ u \in Unit /\ q \in Seq(Unit)
      /\ Len(q) = Len(d) - 1 /\ \A i \in 1 .. (Len(d) - 1) : q[i] = d[i + 1]
  BY <1>1, <1>2, TailOf
<1>4. Flow(r) = d
  BY <1>1, BareFlow
<1>5. /\ head'[r] = u.what /\ down'[r] = q
      /\ \A z \in Peers : z # r => down'[z] = down[z]
      /\ \A z \in Replicas : z # r => head'[z] = head[z]
  BY <1>1, <1>2 DEF PeerT, ReplicaT
<1>6. /\ Len(CommandStream(r)) = Len(received[r]) + Len(d) /\ Len(received[r]) \in Nat
      /\ \A i \in 1 .. (Len(received[r]) + Len(d)) :
            CommandStream(r)[i] = IF i <= Len(received[r]) THEN Parsed(received[r])[i]
                                  ELSE d[i - Len(received[r])]
  BY <1>4, StreamShape
<1>7. Paired(d) /\ Within(CommandStream(r), writes)
  BY <1>2, <1>4 DEF StreamOK
<1> DEFINE s == CommandStream(r)
           k == Len(received[r])
<1> HIDE DEF d, q, u, s, k
<1>8. u = Header(u.what) /\ u.what \in Nat
  BY <1>1, <1>3 DEF Unit, Header
<1>9. 1 \in 1 .. Len(d) /\ 1 + 1 <= Len(d) /\ d[2] = Elements(u.what)
  <2>1. 1 \in 1 .. Len(d) /\ 1 + 1 = 2
    BY <1>3
  <2>2. 1 + 1 <= Len(d) /\ d[1 + 1] = Elements(d[1].what)
    BY <1>1, <1>3, <1>7, <2>1 DEF Paired
  <2> QED
    BY <1>3, <2>1, <2>2
<1>10. u.what # 0
  <2>1. k + 2 \in 1 .. (k + Len(d)) /\ ~(k + 2 <= k) /\ (k + 2) - k = 2
    BY <1>3, <1>6, <1>9 DEF k
  <2>2. s[k + 2] = Elements(u.what)
    BY <1>6, <1>9, <2>1 DEF s, k
  <2>3. s[k + 2].kind = "body" /\ s[k + 2].what = u.what
    BY <1>8, <2>2, UnitFacts
  <2>4. u.what \in 1 .. writes
    BY <1>6, <1>7, <2>1, <2>3 DEF Within, s, k
  <2> QED
    BY <2>4
<1>11. Flow(r)' = d
  <2> DEFINE v == Flow(r)'
  <2>1. /\ v \in Seq(Unit) /\ Len(v) = Len(q) + 1 /\ v[1] = Header(u.what)
        /\ \A i \in 1 .. Len(q) : v[i + 1] = q[i]
    BY <1>5, <1>10, HeadFlowNext, StreamShapeNext
  <2> HIDE DEF v
  <2>2. Len(v) = Len(d)
    BY <1>3, <2>1
  <2>3. ASSUME NEW i \in 1 .. Len(d) PROVE v[i] = d[i]
    <3>1. CASE i = 1
      BY <1>3, <1>8, <2>1, <3>1
    <3>2. CASE i # 1
      <4>1. i - 1 \in 1 .. (Len(d) - 1) /\ (i - 1) + 1 = i
        BY <1>3, <3>2
      <4>2. v[(i - 1) + 1] = q[i - 1] /\ q[i - 1] = d[(i - 1) + 1]
        BY <1>3, <2>1, <4>1
      <4> QED
        BY <4>1, <4>2
    <3> QED
      BY <3>1, <3>2
  <2>4. d \in Seq(Unit)
    BY <1>2 DEF d
  <2>5. v = d
    BY <2>1, <2>2, <2>3, <2>4, SeqEqual
  <2> QED
    BY <2>5 DEF v
<1>12. CommandStream(r)' = CommandStream(r) /\ Flow(r)' = Flow(r)
  <2>1. CommandStream(r)' = Parsed(received[r]) \o Flow(r)'
    BY <1>1 DEF CommandStream, Parsed
  <2> QED
    BY <1>4, <1>11, <2>1, PartsOfStream DEF d
<1>13. SameLoops
  BY <1>1 DEF SameLoops
<1>14. StreamOK(r)'
  <2>1. /\ Paired(Flow(r)') /\ InOrder(CommandStream(r)', by) /\ Within(CommandStream(r)', writes)
        /\ since[r] < 0 => OnlyReplies(CommandStream(r)')
        /\ \A n : Has(CommandStream(r)', n) <=> Has(CommandStream(r), n)
    BY <1>2, <1>12 DEF StreamOK
  <2> QED
    BY <1>1, <1>2, <1>13, <2>1, StreamKept
<1>15. HandOK(r)'
  <2>1. NoReply(q)
    <3>1. NoReply(d) /\ \A i \in 1 .. (Len(d) - 1) : i + 1 \in 1 .. Len(d)
      BY <1>2, <1>3 DEF d
    <3> QED
      BY <1>3, <3>1 DEF NoReply
  <2> QED
    BY <1>1, <1>2, <1>5, <2>1, StreamingHand
<1> QED
  BY <1>1, <1>5, <1>14, <1>15, ReplicaFrame

\* Nothing stray comes: there is no reply behind the handshake, and behind a
\* header there are its elements.
LEMMA NoStrayC ==
    ASSUME Parts, CalmOK, NEW r \in Replicas, ReceiveStray(r)
    PROVE  FALSE
<1>1. /\ rpc[r] = "stream" /\ down[r] # <<>>
      /\ \/ head[r] = 0 /\ Head(down[r]).kind = "reply"
         \/ head[r] # 0 /\ Head(down[r]) # Elements(head[r])
  BY DEF ReceiveStray
<1>2. NoReply(down[r]) /\ StreamOK(r) /\ down[r] \in Seq(Unit) /\ head[r] \in Nat
  BY <1>1, StreamingFacts
<1>3. Len(down[r]) \in Nat /\ Len(down[r]) >= 1 /\ Head(down[r]) = down[r][1]
  BY <1>1, <1>2, TailOf
<1>4. Head(down[r]).kind # "reply"
  BY <1>2, <1>3 DEF NoReply
<1>5. head[r] # 0
  BY <1>1, <1>4
<1>6. /\ Len(Flow(r)) = Len(down[r]) + 1 /\ Flow(r)[1] = Header(head[r])
      /\ \A i \in 1 .. Len(down[r]) : Flow(r)[i + 1] = down[r][i]
  BY <1>5, HeadFlow
<1>7. Paired(Flow(r)) /\ 1 \in 1 .. Len(Flow(r))
  BY <1>2, <1>3, <1>6 DEF StreamOK
<1>8. Flow(r)[1 + 1] = Elements(head[r])
  BY <1>2, <1>6, <1>7, UnitFacts DEF Paired
<1>9. Flow(r)[1 + 1] = down[r][1]
  BY <1>3, <1>6
<1> QED
  BY <1>1, <1>3, <1>5, <1>8, <1>9

\* The connection of a replica ends only with the master.
LEMMA ReceiveEndC ==
    ASSUME Parts, CalmOK, NEW r \in Replicas, ReceiveEnd(r)
    PROVE  CalmOK'
<1>1. /\ rpc[r] = "stream" /\ (\A f \in Fds : desc[f] # r)
      /\ rpc' = [rpc EXCEPT ![r] = "ended"]
      /\ UNCHANGED <<desc, slots, replica_count, alive, peer, up, down, fd, wpc, num, idx>>
      /\ UNCHANGED <<head, received, writes, by, since>>
  BY DEF ReceiveEnd, Eof, listVars, linkVars, workerVars, countVars
<1>2. HandOK(r) /\ StreamOK(r) /\ r \in Peers /\ ReplicaT
  BY <1>1, StreamingFacts DEF Parts
<1>3. wpc[r] = "recv"
  BY <1>1, <1>2 DEF HandOK, Hand
<1>4. ~alive
  <2>1. fd[r] \in Fds
    BY <1>2, <1>3 DEF Parts, WorkersOK
  <2> QED
    BY <1>1, <1>2, <1>3, <2>1 DEF CalmOK, DescOK
<1>5. rpc'[r] = "ended" /\ \A z \in Replicas : z # r => rpc'[z] = rpc[z]
  BY <1>1, <1>2 DEF ReplicaT
<1>6. HandOK(r)'
  BY <1>1, <1>2, <1>4, <1>5 DEF HandOK, Hand
<1>7. StreamOK(r)'
  <2>1. SameLoops
    BY <1>1 DEF SameLoops
  <2> QED
    BY <1>1, <1>2, <2>1, StreamSame
<1> QED
  BY <1>1, <1>5, <1>6, <1>7, ReplicaFrame

-----------------------------------------------------------------------------
CalmInv == Parts /\ (calm => CalmOK)

LEMMA InitC == Init => CalmInv
<1> SUFFICES ASSUME Init PROVE CalmInv
  OBVIOUS
<1>1. Parts
  BY InitT
<1>2. /\ slots = <<>> /\ replica_count = 0 /\ by = <<>> /\ writes = 0 /\ Len(<<>>) = 0
      /\ up = [x \in Peers |-> <<>>] /\ down = [x \in Peers |-> <<>>]
      /\ wpc = [x \in Peers |-> "none"] /\ rpc = [r \in Replicas |-> "new"]
      /\ head = [r \in Replicas |-> 0] /\ received = [r \in Replicas |-> <<>>]
      /\ since = [x \in Peers |-> -1]
  BY DEF Init
<1>3. DescOK /\ LoopsOK
  BY <1>2 DEF DescOK, LoopsOK
<1>4. SlotsOK
  BY <1>2 DEF SlotsOK, Peers
<1>5. ClientsOK
  BY <1>2 DEF ClientsOK, Peers
<1>6. NoReply(<<>>) /\ OneReply(<<>>) /\ OnlyReplies(<<>>)
  BY DEF NoReply, OneReply, OnlyReplies
<1>7. ASSUME NEW r \in Replicas PROVE HandOK(r)
  <2>1. /\ rpc[r] = "new" /\ wpc[r] = "none" /\ since[r] = -1 /\ up[r] = <<>> /\ down[r] = <<>>
        /\ head[r] = 0 /\ received[r] = <<>>
    BY <1>2 DEF Peers
  <2> QED
    BY <1>6, <2>1 DEF HandOK, Hand
<1>8. ASSUME NEW r \in Replicas PROVE StreamOK(r)
  <2>1. since[r] = -1 /\ down[r] = <<>> /\ head[r] = 0 /\ received[r] = <<>>
    BY <1>2 DEF Peers
  <2>2. CommandStream(r) = <<>>
    BY <1>1, <2>1, BareFlow
  <2> QED
    BY <1>1, <1>6, <2>1, <2>2, EarlyStream
<1> QED
  BY <1>1, <1>3, <1>4, <1>5, <1>7, <1>8 DEF CalmInv, CalmOK, HandshakeOK, StreamsOK

\* Calm does not come back.
LEMMA NextC == CalmInv /\ [Next]_vars => CalmInv'
<1> SUFFICES ASSUME CalmInv, [Next]_vars PROVE CalmInv'
  OBVIOUS
<1>1. Parts /\ Parts'
  BY NextT DEF CalmInv
<1> SUFFICES ASSUME calm' PROVE CalmOK'
  BY <1>1 DEF CalmInv
<1>2. ASSUME NEW x \in Peers, alive, Connect(x) \/ WorkerStep(x) PROVE CalmOK'
  <2>1. calm
    <3>1. calm \in BOOLEAN
      BY <1>1 DEF Parts, MasterT
    <3> QED
      BY <1>2, <3>1 DEF Connect, WorkerStep, Recv, RecvWrite, RecvGreeting, RecvPsync, RecvEnd,
         freeClientState, addReplica, sendReply, WalkEnd, WalkWrite, WalkFail, WalkShut, BrokenPipe
  <2>2. CalmOK
    BY <2>1 DEF CalmInv
  <2>3. ~WalkFail(x) /\ ~WalkShut(x)
    BY <2>2 DEF WalkFail, WalkShut, CalmOK, DescOK
  <2> QED
    BY <1>1, <1>2, <2>2, <2>3, ConnectC, RecvC, EndC, addReplicaC, sendReplyC, WalkEndC,
       WalkWriteC, BrokenPipeC DEF WorkerStep
<1>3. ASSUME NEW w \in Writers, SendWrite(w) \/ Leave(w) PROVE CalmOK'
  <2>1. CalmOK
    BY <1>3 DEF CalmInv, SendWrite, Leave
  <2> QED
    BY <1>1, <1>3, <2>1, ClientC
<1>4. ASSUME NEW r \in Replicas, ReplicaStep(r) \/ ReplicaDies(r) PROVE CalmOK'
  <2>1. ~HandshakeFail(r) /\ ~ReceiveCrash(r) /\ ~ReplicaDies(r)
    BY DEF HandshakeFail, ReceiveCrash, ReplicaDies, End
  <2>2. \/ HandshakeStep(r) \/ ReceiveWhole(r) \/ ReceiveHeader(r) \/ ReceiveElements(r)
        \/ ReceiveStray(r) \/ ReceiveEnd(r)
    BY <1>4, <2>1 DEF ReplicaStep
  <2>3. CalmOK
    BY <2>2 DEF CalmInv, HandshakeStep, ReceiveWhole, ReceiveHeader, ReceiveElements,
       ReceiveStray, ReceiveEnd
  <2> QED
    BY <1>1, <2>2, <2>3, HandshakeStepC, ReceiveWholeC, ReceiveHeaderC, ReceiveElementsC,
       NoStrayC, ReceiveEndC
<1>5. CASE UNCHANGED vars
  <2>1. CalmOK
    BY <1>5 DEF CalmInv, vars
  <2>2. /\ UNCHANGED <<desc, slots, replica_count, alive, peer, up, down, fd, wpc, num, idx>>
        /\ UNCHANGED <<rpc, head, received, writes, by, since>>
    BY <1>5 DEF vars, listVars, linkVars, workerVars, replicaVars, countVars
  <2>3. DescOK' /\ SlotsOK' /\ LoopsOK' /\ ClientsOK'
    BY <2>1, <2>2, DescSame, SlotsSame, LoopsSame DEF CalmOK, ClientsOK
  <2>4. SameLoops
    BY <2>2 DEF SameLoops
  <2> QED
    BY <2>1, <2>2, <2>3, <2>4, HandSame, StreamSame DEF CalmOK, HandshakeOK, StreamsOK
<1> QED
  BY <1>2, <1>3, <1>4, <1>5 DEF Next

LEMMA CalmFaithful == CalmInv => StreamFaithful
<1> SUFFICES ASSUME CalmInv, calm, NEW r \in Replicas, since[r] >= 0
             PROVE  LET s == CommandStream(r)
                        commands == {i \in DOMAIN s : s[i].kind = "body"}
                    IN  /\ \A n \in (since[r] + 1) .. writes :
                              Propagated(n) => \E i \in commands : s[i].what = n
                        /\ \A i, j \in commands : i < j =>
                              /\ s[i].what # s[j].what
                              /\ by[s[i].what] = by[s[j].what] => s[i].what < s[j].what
                        /\ rpc[r] \notin {"spin", "garbled"}
  BY DEF StreamFaithful
<1> DEFINE s == CommandStream(r)
           commands == {i \in DOMAIN s : s[i].kind = "body"}
<1>1. HandOK(r) /\ StreamOK(r)
  BY DEF CalmInv, CalmOK, HandshakeOK, StreamsOK
<1>2. s \in Seq(Unit)
  BY StreamShape DEF CalmInv
<1> HIDE DEF s
<1>3. DOMAIN s = 1 .. Len(s)
  BY <1>2, LenProperties
<1>4. rpc[r] \notin {"spin", "garbled"}
  BY <1>1 DEF HandOK, Hand
<1>5. \A i, j \in commands : i < j =>
          /\ s[i].what # s[j].what
          /\ by[s[i].what] = by[s[j].what] => s[i].what < s[j].what
  BY <1>1, <1>3 DEF StreamOK, InOrder, s
<1>6. ASSUME NEW n \in (since[r] + 1) .. writes, Propagated(n)
      PROVE  \E i \in commands : s[i].what = n
  <2>1. \A x \in Peers : num[x] = n => wpc[x] # "walk"
    BY <1>6 DEF Propagated
  <2>2. Has(s, n)
    BY <1>1, <2>1 DEF StreamOK, s
  <2> QED
    BY <1>3, <2>2 DEF Has
<1> QED
  BY <1>4, <1>5, <1>6 DEF s

\* For any number of replicas, clients, descriptors and commands, as long as no
\* replica leaves, no write fails and no two PSYNCs overlap: a replica on the
\* list gets every write that was executed after it was put there, once, those
\* of one client in order, and cut or not, it can parse them.
THEOREM StreamsFaithful == Spec => []StreamFaithful
<1> QED
  BY InitC, NextC, CalmFaithful, PTL DEF Spec

=============================================================================
