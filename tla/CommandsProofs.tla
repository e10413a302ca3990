--------------------------- MODULE CommandsProofs ---------------------------
(***************************************************************************)
(* Proofs about module Commands, for any clients, keys, values and number  *)
(* of transactions, and any width of the integers.                         *)
(***************************************************************************)
EXTENDS Commands, SequenceTheorems, TLAPS

USE NoneAssumption, SetValuesAssumption, FileKeysAssumption, MaxQueuedAssumption,
    MaxIntAssumption, TextAssumption

-----------------------------------------------------------------------------
(* The inductive invariant *)

Running == {"run", "px", "incr"}

\* Where a client is in its transaction.  The command under way in EXEC is the
\* one at pos; outside a transaction and outside EXEC the queue is empty.
PlaceOK(c) ==
    /\ pos[c] \in 0 .. (Len(queue[c]) + 1)
    /\ pc[c] = "idle" => pos[c] = 0
    /\ pc[c] = "exec" => pos[c] > 0
    /\ in_transaction[c] => pc[c] = "idle"
    /\ ~in_transaction[c] /\ pos[c] = 0 => queue[c] = <<>>
    /\ pc[c] \in Running /\ pos[c] = 0 => cur[c] \in Command
    /\ pc[c] \in Running /\ pos[c] > 0 => pos[c] <= Len(queue[c]) /\ cur[c] = queue[c][pos[c]]

\* How many of the commands that were queued are accounted for: the ones of
\* earlier transactions, and those EXEC has run of this one.
Settled(c) ==
    queued[c] - Len(queue[c]) + (IF pos[c] = 0 THEN 0 ELSE pos[c] - 1)

\* The numbers of commands that were run or dropped, the ones run in order.
Account(run, drop, n) ==
    /\ \A i, j \in DOMAIN run : i < j => run[i] < run[j]
    /\ Range(run) \cap drop = {}
    /\ Range(run) \cup drop = 1 .. n

\* The queue holds the last numbers given, in order.
NumbersOK(c) ==
    /\ Len(queue[c]) <= queued[c]
    /\ \A i \in 1..Len(queue[c]) : queue[c][i].tag = queued[c] - Len(queue[c]) + i
    /\ Account(ran[c], dropped[c], Settled(c))

\* What INCR has read is still stored, unless another client wrote the key.
ReadOK(c) ==
    pc[c] = "incr" /\ ~overlapped[c] /\ read[c] # None
        => db[cur[c].key].value = read[c]

ConnType ==
    /\ in_transaction \in [Clients -> BOOLEAN]
    /\ queue \in [Clients -> Seq(Tagged)]
    /\ pc \in [Clients -> {"idle", "exec"} \cup Running]
    /\ cur \in [Clients -> Command \cup Tagged \cup {None}]
    /\ pos \in [Clients -> Nat]
    /\ alive \in BOOLEAN
    /\ queued \in [Clients -> Nat]
    /\ ran \in [Clients -> Seq(Nat)]
    /\ dropped \in [Clients -> SUBSET Nat]

StoreType ==
    /\ db \in [Keys -> [value : Strings \cup {None}, expiry : {"never", "later", "past"}]]
    /\ read \in [Clients -> (Strings \ {Text}) \cup {None}]
    /\ overlapped \in [Clients -> BOOLEAN]

ConnInv == ConnType /\ \A c \in Clients : PlaceOK(c) /\ NumbersOK(c)
StoreInv == StoreType /\ \A c \in Clients : ReadOK(c)
IInv == ConnInv /\ StoreInv

-----------------------------------------------------------------------------
(* The account of the queued commands *)

\* Running the next command keeps the account.
LEMMA AccountRun ==
    ASSUME NEW run \in Seq(Nat), NEW drop, NEW n \in Nat, Account(run, drop, n)
    PROVE  Account(Append(run, n + 1), drop, n + 1)
<1> DEFINE t == Append(run, n + 1)
           l == Len(run)
<1>1. /\ DOMAIN run = 1..l /\ DOMAIN t = 1..(l + 1) /\ l \in Nat
      /\ \A i \in 1..l : t[i] = run[i]
      /\ t[l + 1] = n + 1
  BY AppendProperties, LenProperties
<1> HIDE DEF t, l
<1>2. \A i \in 1..(l + 1) : i \in 1..l \/ i = l + 1
  BY <1>1
<1>3. Range(t) = Range(run) \cup {n + 1}
  <2>1. l + 1 \in 1..(l + 1) /\ \A i \in 1..l : i \in 1..(l + 1)
    BY <1>1
  <2> QED
    BY <1>1, <1>2, <2>1 DEF Range
<1>4. \A i \in 1..l : run[i] \in 1..n
  BY <1>1 DEF Account, Range
<1>5. ASSUME NEW i \in 1..(l + 1), NEW j \in 1..(l + 1), i < j PROVE t[i] < t[j]
  <2>1. i \in 1..l
    BY <1>1, <1>5
  <2>2. CASE j \in 1..l
    BY <1>1, <1>5, <2>1, <2>2 DEF Account
  <2>3. CASE j = l + 1
    BY <1>1, <1>4, <2>1, <2>3
  <2> QED
    BY <1>2, <2>2, <2>3
<1>6. n + 1 \notin drop
  <2>1. n + 1 \notin 1..n
    OBVIOUS
  <2> QED
    BY <2>1 DEF Account
<1>7. Range(t) \cup drop = 1..(n + 1)
  <2>1. 1..(n + 1) = (1..n) \cup {n + 1}
    OBVIOUS
  <2> QED
    BY <1>3, <2>1 DEF Account
<1>8. Range(t) \cap drop = {}
  BY <1>3, <1>6 DEF Account
<1>9. Account(t, drop, n + 1)
  BY <1>1, <1>5, <1>7, <1>8 DEF Account
<1> QED
  BY <1>9 DEF t

\* So does dropping the next ones.
LEMMA AccountDrop ==
    ASSUME NEW run, NEW drop, NEW n \in Nat, NEW m \in Nat, n <= m, Account(run, drop, n)
    PROVE  Account(run, drop \cup ((n + 1) .. m), m)
<1>1. Range(run) \subseteq 1..n /\ (1..n) \cap ((n + 1) .. m) = {}
  BY DEF Account
<1>2. 1..m = (1..n) \cup ((n + 1) .. m)
  OBVIOUS
<1> QED
  BY <1>1, <1>2 DEF Account

-----------------------------------------------------------------------------
(* The steps of a connection *)

\* What a step does not touch stays in order.
Same(d) ==
    /\ in_transaction'[d] = in_transaction[d] /\ queue'[d] = queue[d]
    /\ pc'[d] = pc[d] /\ cur'[d] = cur[d] /\ pos'[d] = pos[d]
    /\ queued'[d] = queued[d] /\ ran'[d] = ran[d] /\ dropped'[d] = dropped[d]

LEMMA SameOK ==
    ASSUME NEW d \in Clients, PlaceOK(d), NumbersOK(d), Same(d)
    PROVE  PlaceOK(d)' /\ NumbersOK(d)'
<1>1. Settled(d)' = Settled(d)
  BY DEF Same, Settled
<1>2. PlaceOK(d)'
  BY DEF Same, PlaceOK
<1> QED
  BY <1>1, <1>2 DEF Same, NumbersOK

\* The facts about one client that its steps use.
LEMMA ConnFacts ==
    ASSUME ConnInv, NEW c \in Clients
    PROVE  /\ in_transaction[c] \in BOOLEAN /\ queue[c] \in Seq(Tagged)
           /\ Len(queue[c]) \in Nat /\ pos[c] \in Nat /\ queued[c] \in Nat
           /\ ran[c] \in Seq(Nat) /\ dropped[c] \in SUBSET Nat
           /\ PlaceOK(c) /\ NumbersOK(c) /\ Settled(c) \in Nat
<1>1. /\ in_transaction[c] \in BOOLEAN /\ queue[c] \in Seq(Tagged)
      /\ pos[c] \in Nat /\ queued[c] \in Nat
      /\ ran[c] \in Seq(Nat) /\ dropped[c] \in SUBSET Nat
      /\ PlaceOK(c) /\ NumbersOK(c)
  BY DEF ConnInv, ConnType
<1>2. Len(queue[c]) \in Nat
  BY <1>1, LenProperties
<1>3. Settled(c) \in Nat
  BY <1>1, <1>2 DEF Settled, NumbersOK
<1> QED
  BY <1>1, <1>2, <1>3

LEMMA MultiConn == ASSUME ConnInv, NEW c \in Clients, handleMulti(c) PROVE ConnInv'
<1> USE DEF handleMulti, history
<1>1. ConnType'
  BY DEF ConnInv, ConnType
<1>2. \A d \in Clients : d # c => Same(d)
  BY DEF ConnInv, ConnType, Same
<1>3. PlaceOK(c)' /\ NumbersOK(c)'
  BY DEF ConnInv, ConnType, PlaceOK, NumbersOK, Settled
<1> QED
  BY <1>1, <1>2, <1>3, SameOK DEF ConnInv

\* DISCARD drops exactly the numbers that the queue holds.
LEMMA DiscardConn == ASSUME ConnInv, NEW c \in Clients, handleDiscard(c) PROVE ConnInv'
<1> DEFINE l == Len(queue[c])
           tags == {queue[c][i].tag : i \in 1..l}
<1>1. /\ pc[c] = "idle" /\ in_transaction[c]
      /\ in_transaction' = [in_transaction EXCEPT ![c] = FALSE]
      /\ queue' = [queue EXCEPT ![c] = <<>>]
      /\ dropped' = [dropped EXCEPT ![c] = @ \cup tags]
      /\ UNCHANGED <<pc, cur, pos, alive, queued, ran>>
  BY DEF handleDiscard, clearCommandQueue
<1>2. /\ l \in Nat /\ queued[c] \in Nat /\ l <= queued[c] /\ pos[c] = 0
      /\ dropped[c] \in SUBSET Nat
      /\ \A i \in 1..l : queue[c][i].tag = queued[c] - l + i
      /\ Account(ran[c], dropped[c], queued[c] - l)
  <2>1. /\ l \in Nat /\ queued[c] \in Nat /\ l <= queued[c] /\ pos[c] = 0
        /\ dropped[c] \in SUBSET Nat
        /\ \A i \in 1..l : queue[c][i].tag = queued[c] - l + i
        /\ Account(ran[c], dropped[c], Settled(c))
    BY <1>1, ConnFacts DEF PlaceOK, NumbersOK
  <2>2. Settled(c) = queued[c] - l
    BY <2>1 DEF Settled
  <2> QED
    BY <2>1, <2>2
<1> HIDE DEF l
<1>3. tags = (queued[c] - l + 1) .. queued[c]
  <2>1. ASSUME NEW n \in (queued[c] - l + 1) .. queued[c] PROVE n \in tags
    <3>1. n - (queued[c] - l) \in 1..l
      BY <1>2
    <3>2. queue[c][n - (queued[c] - l)].tag = queued[c] - l + (n - (queued[c] - l))
      BY <1>2, <3>1
    <3>3. queue[c][n - (queued[c] - l)].tag = n
      BY <1>2, <3>2
    <3> QED
      BY <3>1, <3>3
  <2>2. ASSUME NEW i \in 1..l PROVE queue[c][i].tag \in (queued[c] - l + 1) .. queued[c]
    BY <1>2
  <2> QED
    BY <2>1, <2>2
<1> HIDE DEF tags
<1>4. Account(ran[c], dropped[c] \cup tags, queued[c])
  <2>1. queued[c] - l \in Nat /\ queued[c] - l <= queued[c]
    BY <1>2
  <2> QED
    BY <1>2, <1>3, <2>1, AccountDrop
<1>5. <<>> \in Seq(Tagged) /\ Len(<<>>) = 0
  BY EmptySeq
<1>6. ConnType'
  <2>1. in_transaction' \in [Clients -> BOOLEAN]
    BY <1>1 DEF ConnInv, ConnType
  <2>2. queue' \in [Clients -> Seq(Tagged)]
    BY <1>1, <1>5 DEF ConnInv, ConnType
  <2>3. dropped' \in [Clients -> SUBSET Nat]
    BY <1>1, <1>2, <1>3 DEF ConnInv, ConnType
  <2> QED
    BY <1>1, <2>1, <2>2, <2>3 DEF ConnInv, ConnType
<1>7. \A d \in Clients : d # c => Same(d)
  BY <1>1 DEF ConnInv, ConnType, Same
<1>8. /\ queue'[c] = <<>> /\ dropped'[c] = dropped[c] \cup tags /\ ~in_transaction'[c]
      /\ pos'[c] = 0 /\ pc'[c] = "idle" /\ ran'[c] = ran[c] /\ queued'[c] = queued[c]
  BY <1>1, <1>2 DEF ConnInv, ConnType
<1>9. PlaceOK(c)'
  BY <1>5, <1>8 DEF PlaceOK, Running
<1>10. NumbersOK(c)'
  BY <1>2, <1>4, <1>5, <1>8 DEF NumbersOK, Settled
<1> QED
  BY <1>6, <1>7, <1>9, <1>10, SameOK DEF ConnInv

LEMMA ExecConn == ASSUME ConnInv, NEW c \in Clients, handleExec(c) PROVE ConnInv'
<1>1. /\ pc[c] = "idle" /\ in_transaction[c]
      /\ in_transaction' = [in_transaction EXCEPT ![c] = FALSE]
      /\ pos' = [pos EXCEPT ![c] = 1]
      /\ pc' = [pc EXCEPT ![c] = "exec"]
      /\ UNCHANGED <<queue, cur, alive, queued, ran, dropped>>
  BY DEF handleExec, history
<1>2. ConnType'
  BY <1>1 DEF ConnInv, ConnType
<1>3. \A d \in Clients : d # c => Same(d)
  BY <1>1 DEF ConnInv, ConnType, Same
<1>4. /\ ~in_transaction'[c] /\ pos'[c] = 1 /\ pc'[c] = "exec" /\ pos[c] = 0
      /\ queue'[c] = queue[c] /\ queued'[c] = queued[c] /\ ran'[c] = ran[c]
      /\ dropped'[c] = dropped[c] /\ Len(queue[c]) \in Nat
  BY <1>1, ConnFacts DEF ConnInv, ConnType, PlaceOK
<1>5. PlaceOK(c)'
  BY <1>4 DEF PlaceOK, Running
<1>6. Settled(c)' = Settled(c)
  BY <1>4, ConnFacts DEF Settled
<1>7. NumbersOK(c)'
  BY <1>4, <1>6, ConnFacts DEF NumbersOK
<1> QED
  BY <1>2, <1>3, <1>5, <1>7, SameOK DEF ConnInv

LEMMA NextConn == ASSUME ConnInv, NEW c \in Clients, ExecNext(c) PROVE ConnInv'
<1>1. /\ pc[c] = "exec" /\ pos[c] <= Len(queue[c])
      /\ cur' = [cur EXCEPT ![c] = queue[c][pos[c]]]
      /\ pc' = [pc EXCEPT ![c] = "run"]
      /\ UNCHANGED <<in_transaction, queue, pos, alive, queued, ran, dropped>>
  BY DEF ExecNext, connVars, history
<1>2. pos[c] \in 1..Len(queue[c]) /\ queue[c] \in Seq(Tagged) /\ ~in_transaction[c]
  BY <1>1, ConnFacts DEF PlaceOK
<1>3. queue[c][pos[c]] \in Tagged
  BY <1>2, ElementOfSeq
<1>4. ConnType'
  <2>1. cur' \in [Clients -> Command \cup Tagged \cup {None}]
    BY <1>1, <1>3 DEF ConnInv, ConnType
  <2> QED
    BY <1>1, <2>1 DEF ConnInv, ConnType, Running
<1>5. \A d \in Clients : d # c => Same(d)
  BY <1>1 DEF ConnInv, ConnType, Same
<1>6. pc'[c] = "run" /\ cur'[c] = queue[c][pos[c]]
  BY <1>1 DEF ConnInv, ConnType
<1>7. PlaceOK(c)'
  BY <1>1, <1>2, <1>6, ConnFacts DEF PlaceOK
<1>8. NumbersOK(c)'
  BY <1>1, ConnFacts DEF NumbersOK, Settled
<1> QED
  BY <1>4, <1>5, <1>7, <1>8, SameOK DEF ConnInv

\* The queue is cleared when all its commands are accounted for.
LEMMA EndConn == ASSUME ConnInv, NEW c \in Clients, ExecEnd(c) PROVE ConnInv'
<1>1. /\ pc[c] = "exec" /\ pos[c] > Len(queue[c])
      /\ pos' = [pos EXCEPT ![c] = 0]
      /\ queue' = [queue EXCEPT ![c] = <<>>]
      /\ pc' = [pc EXCEPT ![c] = "idle"]
      /\ UNCHANGED <<in_transaction, cur, alive, queued, ran, dropped>>
  BY DEF ExecEnd, clearCommandQueue, history
<1>2. /\ pos[c] = Len(queue[c]) + 1 /\ Len(queue[c]) \in Nat /\ queued[c] \in Nat
      /\ ~in_transaction[c]
  BY <1>1, ConnFacts DEF PlaceOK
<1>3. <<>> \in Seq(Tagged) /\ Len(<<>>) = 0
  BY EmptySeq
<1>4. ConnType'
  <2>1. queue' \in [Clients -> Seq(Tagged)]
    BY <1>1, <1>3 DEF ConnInv, ConnType
  <2> QED
    BY <1>1, <2>1 DEF ConnInv, ConnType
<1>5. \A d \in Clients : d # c => Same(d)
  BY <1>1 DEF ConnInv, ConnType, Same
<1>6. pc'[c] = "idle" /\ pos'[c] = 0 /\ queue'[c] = <<>>
  BY <1>1 DEF ConnInv, ConnType
<1>7. PlaceOK(c)'
  BY <1>1, <1>2, <1>3, <1>6 DEF PlaceOK, Running
<1>8. Settled(c) = queued[c] /\ Settled(c)' = queued[c]
  BY <1>1, <1>2, <1>3, <1>6 DEF Settled
<1>9. NumbersOK(c)'
  BY <1>1, <1>2, <1>3, <1>6, <1>8, ConnFacts DEF NumbersOK
<1> QED
  BY <1>4, <1>5, <1>7, <1>9, SameOK DEF ConnInv

\* A command is queued under the next number.
LEMMA QueueConn ==
    ASSUME ConnInv, NEW c \in Clients, NEW cmd \in Command,
           pc[c] = "idle", in_transaction[c], queueCommand(c, cmd),
           UNCHANGED <<in_transaction, pc, cur, pos, alive, ran, dropped>>
    PROVE  ConnInv'
<1> DEFINE l == Len(queue[c])
           new == [op |-> cmd.op, key |-> cmd.key, val |-> cmd.val, tag |-> queued[c] + 1]
           t == Append(queue[c], new)
<1>1. /\ queue[c] \in Seq(Tagged) /\ l \in Nat /\ queued[c] \in Nat /\ pos[c] = 0
      /\ l <= queued[c] /\ \A i \in 1..l : queue[c][i].tag = queued[c] - l + i
      /\ Account(ran[c], dropped[c], Settled(c))
  BY ConnFacts DEF PlaceOK, NumbersOK
<1>2. queued' = [queued EXCEPT ![c] = queued[c] + 1] /\ queue' = [queue EXCEPT ![c] = t]
  BY DEF queueCommand, ConnInv, ConnType
<1>3. new \in Tagged /\ new.tag = queued[c] + 1
  BY <1>1 DEF Command, Tagged
<1> HIDE DEF new
<1>4. /\ t \in Seq(Tagged) /\ Len(t) = l + 1 /\ t[l + 1] = new
      /\ \A i \in 1..l : t[i] = queue[c][i]
  BY <1>1, <1>3, AppendProperties
<1> HIDE DEF t, l
<1>5. ConnType'
  <2>1. queue' \in [Clients -> Seq(Tagged)]
    BY <1>2, <1>4 DEF ConnInv, ConnType
  <2> QED
    BY <1>1, <1>2, <2>1 DEF ConnInv, ConnType
<1>6. \A d \in Clients : d # c => Same(d)
  BY <1>2 DEF ConnInv, ConnType, Same
<1>7. queue'[c] = t /\ queued'[c] = queued[c] + 1 /\ pos'[c] = 0 /\ in_transaction'[c]
  BY <1>1, <1>2 DEF ConnInv, ConnType
<1>8. PlaceOK(c)'
  BY <1>1, <1>4, <1>7 DEF PlaceOK, Running
<1>9. NumbersOK(c)'
  <2>1. Settled(c)' = Settled(c)
    BY <1>1, <1>4, <1>7 DEF Settled, l
  <2>2. \A i \in 1..Len(t) : t[i].tag = queued[c] + 1 - Len(t) + i
    <3>1. \A i \in 1..(l + 1) : i \in 1..l \/ i = l + 1
      BY <1>1
    <3>2. ASSUME NEW i \in 1..l PROVE t[i].tag = queued[c] + 1 - (l + 1) + i
      <4>1. t[i].tag = queued[c] - l + i
        BY <1>1, <1>4
      <4> QED
        BY <1>1, <4>1
    <3>3. t[l + 1].tag = queued[c] + 1 - (l + 1) + (l + 1)
      BY <1>1, <1>3, <1>4
    <3> QED
      BY <1>4, <3>1, <3>2, <3>3
  <2>3. Len(t) <= queued[c] + 1
    BY <1>1, <1>4
  <2> QED
    BY <1>1, <1>7, <2>1, <2>2, <2>3 DEF NumbersOK
<1> QED
  BY <1>5, <1>6, <1>8, <1>9, SameOK DEF ConnInv

LEMMA CommandConn == ASSUME ConnInv, NEW c \in Clients, executeCommand(c) PROVE ConnInv'
<1>1. PICK cmd \in Command :
          \/ /\ in_transaction[c] /\ queued[c] < MaxQueued[c]
             /\ queueCommand(c, cmd)
             /\ UNCHANGED <<pc, cur>>
          \/ /\ ~in_transaction[c]
             /\ cur' = [cur EXCEPT ![c] = cmd]
             /\ pc' = [pc EXCEPT ![c] = "run"]
             /\ UNCHANGED <<queue, queued>>
  BY DEF executeCommand
<1>2. pc[c] = "idle" /\ UNCHANGED <<in_transaction, pos, alive, ran, dropped>>
  BY DEF executeCommand
<1>3. CASE in_transaction[c]
  BY <1>1, <1>2, <1>3, QueueConn
<1>4. CASE ~in_transaction[c]
  <2>1. /\ cur' = [cur EXCEPT ![c] = cmd] /\ pc' = [pc EXCEPT ![c] = "run"]
        /\ UNCHANGED <<in_transaction, queue, pos, alive, queued, ran, dropped>>
    BY <1>1, <1>2, <1>4
  <2>2. ConnType'
    BY <2>1 DEF ConnInv, ConnType, Running
  <2>3. \A d \in Clients : d # c => Same(d)
    BY <2>1 DEF ConnInv, ConnType, Same
  <2>4. pc'[c] = "run" /\ cur'[c] = cmd /\ pos[c] = 0
    BY <1>2, <2>1, ConnFacts DEF ConnInv, ConnType, PlaceOK
  <2>5. PlaceOK(c)'
    BY <1>4, <2>1, <2>4, ConnFacts DEF PlaceOK
  <2>6. NumbersOK(c)'
    BY <2>1, ConnFacts DEF NumbersOK, Settled
  <2> QED
    BY <2>2, <2>3, <2>5, <2>6, SameOK DEF ConnInv
<1> QED
  BY <1>3, <1>4

\* The command under way is answered: alone, as one of EXEC's, or never,
\* because the server crashes.
LEMMA AnswerConn ==
    ASSUME ConnInv, NEW c \in Clients, NEW kind, pc[c] \in Running, Answer(c, kind),
           UNCHANGED <<in_transaction, queue, queued, dropped>>
    PROVE  ConnInv'
<1>1. CASE /\ pos[c] = 0
           /\ pc' = [pc EXCEPT ![c] = "idle"]
           /\ cur' = [cur EXCEPT ![c] = None]
           /\ UNCHANGED <<pos, ran, alive>>
  <2>1. ConnType'
    BY <1>1 DEF ConnInv, ConnType
  <2>2. \A d \in Clients : d # c => Same(d)
    BY <1>1 DEF ConnInv, ConnType, Same
  <2>3. pc'[c] = "idle"
    BY <1>1 DEF ConnInv, ConnType
  <2>4. PlaceOK(c)'
    BY <1>1, <2>3, ConnFacts DEF PlaceOK, Running
  <2>5. NumbersOK(c)'
    BY <1>1, ConnFacts DEF NumbersOK, Settled
  <2> QED
    BY <2>1, <2>2, <2>4, <2>5, SameOK DEF ConnInv
<1>2. CASE /\ pos[c] > 0
           /\ pc' = [pc EXCEPT ![c] = "exec"]
           /\ cur' = [cur EXCEPT ![c] = None]
           /\ pos' = [pos EXCEPT ![c] = @ + 1]
           /\ ran' = [ran EXCEPT ![c] = Append(@, cur[c].tag)]
           /\ UNCHANGED alive
  <2> DEFINE n == queued[c] - Len(queue[c]) + (pos[c] - 1)
  <2>1. /\ pos[c] \in 1..Len(queue[c]) /\ cur[c] = queue[c][pos[c]]
        /\ Len(queue[c]) \in Nat /\ queued[c] \in Nat /\ Len(queue[c]) <= queued[c]
        /\ ran[c] \in Seq(Nat) /\ ~in_transaction[c]
    BY <1>2, ConnFacts DEF PlaceOK, NumbersOK, Running
  <2>2. n \in Nat /\ Settled(c) = n
    BY <2>1, SMTT(30) DEF Settled
  <2>3. cur[c].tag = n + 1
    <3>1. cur[c].tag = queued[c] - Len(queue[c]) + pos[c]
      BY <2>1, ConnFacts DEF NumbersOK
    <3> QED
      BY <2>1, <3>1
  <2>4. Account(Append(ran[c], n + 1), dropped[c], n + 1)
    BY <2>1, <2>2, AccountRun, ConnFacts DEF NumbersOK
  <2>5. /\ pc'[c] = "exec" /\ pos'[c] = pos[c] + 1
        /\ ran'[c] = Append(ran[c], n + 1)
    BY <1>2, <2>3 DEF ConnInv, ConnType
  <2>6. Settled(c)' = n + 1
    <3>1. Settled(c)' = queued[c] - Len(queue[c]) + (pos[c] + 1 - 1)
      BY <2>1, <2>5, SMTT(30) DEF Settled
    <3>2. ASSUME NEW a \in Nat, NEW b \in Nat, NEW p \in Nat
          PROVE  a - b + (p + 1 - 1) = a - b + (p - 1) + 1
      OBVIOUS
    <3>3. pos[c] \in Nat
      BY <2>1
    <3> QED
      BY <2>1, <3>1, <3>2, <3>3, ZenonT(60)
  <2> HIDE DEF n
  <2>7. ConnType'
    <3>1. ran' \in [Clients -> Seq(Nat)]
      <4>1. Append(ran[c], n + 1) \in Seq(Nat)
        BY <2>1, <2>2, AppendProperties
      <4> QED
        BY <1>2, <2>3, <4>1 DEF ConnInv, ConnType
    <3> QED
      BY <1>2, <3>1 DEF ConnInv, ConnType
  <2>8. \A d \in Clients : d # c => Same(d)
    BY <1>2 DEF ConnInv, ConnType, Same
  <2>9. PlaceOK(c)'
    BY <2>1, <2>5 DEF PlaceOK, Running
  <2>10. NumbersOK(c)'
    BY <2>4, <2>5, <2>6, ConnFacts DEF NumbersOK
  <2> QED
    BY <2>7, <2>8, <2>9, <2>10, SameOK DEF ConnInv
<1>3. CASE alive' = FALSE /\ UNCHANGED <<pc, cur, pos, ran>>
  <2>1. ConnType'
    BY <1>3 DEF ConnInv, ConnType
  <2>2. \A d \in Clients : Same(d)
    BY <1>3 DEF Same
  <2> QED
    BY <2>1, <2>2, SameOK DEF ConnInv
<1> QED
  BY <1>1, <1>2, <1>3 DEF Answer

\* A handler goes on to its second half.
LEMMA HalfConn ==
    ASSUME ConnInv, NEW c \in Clients, NEW half \in Running, pc[c] \in Running,
           pc' = [pc EXCEPT ![c] = half],
           UNCHANGED <<in_transaction, queue, cur, pos, alive, queued, ran, dropped>>
    PROVE  ConnInv'
<1>1. ConnType'
  BY DEF ConnInv, ConnType
<1>2. \A d \in Clients : d # c => Same(d)
  BY DEF ConnInv, ConnType, Same
<1>3. pc'[c] = half
  BY DEF ConnInv, ConnType
<1>4. PlaceOK(c)'
  BY <1>3, ConnFacts DEF PlaceOK, Running
<1>5. NumbersOK(c)'
  BY ConnFacts DEF NumbersOK, Settled
<1> QED
  BY <1>1, <1>2, <1>4, <1>5, SameOK DEF ConnInv

-----------------------------------------------------------------------------
(* The steps on the store *)

\* The command under way names a key, and a value where it stores one.
LEMMA Under ==
    ASSUME ConnInv, NEW c \in Clients, pc[c] \in Running
    PROVE  cur[c].key \in Keys /\ cur[c].val \in Strings \cup {None}
<1>1. CASE pos[c] = 0
  BY <1>1, ConnFacts DEF PlaceOK, Command
<1>2. CASE pos[c] > 0
  <2>1. /\ pos[c] \in 1..Len(queue[c]) /\ queue[c] \in Seq(Tagged)
        /\ cur[c] = queue[c][pos[c]]
    BY <1>2, ConnFacts DEF PlaceOK
  <2>2. cur[c] \in Tagged
    BY <2>1, ElementOfSeq
  <2> QED
    BY <2>2 DEF Tagged
<1> QED
  BY <1>1, <1>2, ConnFacts

\* What an answer does to the places of the clients.
LEMMA Answered ==
    ASSUME ConnInv, NEW c \in Clients, NEW kind, Answer(c, kind)
    PROVE  /\ \A d \in Clients : d # c => pc'[d] = pc[d] /\ cur'[d] = cur[d]
           /\ \/ pc'[c] \in {"idle", "exec"}
              \/ kind \in {"nil", "nothing"} /\ pc'[c] = pc[c]
  BY DEF Answer, ConnInv, ConnType

\* A step that stores nothing keeps what the INCRs have read.
LEMMA NoWrite ==
    ASSUME StoreInv, NEW c \in Clients, UNCHANGED <<read, overlapped>>,
           db' \in [Keys -> [value : Strings \cup {None}, expiry : {"never", "later", "past"}]],
           \A k \in Keys : db'[k].value = db[k].value,
           \A d \in Clients : pc[d] = "incr" => cur[d].key \in Keys,
           \A d \in Clients : d # c => pc'[d] = pc[d] /\ cur'[d] = cur[d],
           pc'[c] # "incr" \/ (pc'[c] = pc[c] /\ cur'[c] = cur[c])
    PROVE  StoreInv'
<1>1. StoreType'
  BY DEF StoreInv, StoreType
<1>2. ASSUME NEW d \in Clients PROVE ReadOK(d)'
  BY DEF StoreInv, ReadOK
<1> QED
  BY <1>1, <1>2 DEF StoreInv

\* storeSet marks the INCRs of other clients that have read the key.
LEMMA Write ==
    ASSUME ConnInv, StoreInv, NEW c \in Clients, NEW k \in Keys,
           NEW v \in Strings \cup {None}, storeSet(c, k, v),
           read' \in [Clients -> (Strings \ {Text}) \cup {None}],
           \A d \in Clients : d # c => read'[d] = read[d] /\ pc'[d] = pc[d] /\ cur'[d] = cur[d],
           pc'[c] # "incr"
    PROVE  StoreInv'
<1>1. /\ db' = [db EXCEPT ![k] = [value |-> v, expiry |-> db[k].expiry]]
      /\ overlapped' = [d \in Clients |->
            d # c /\ (overlapped[d] \/ (pc[d] = "incr" /\ cur[d].key = k))]
  BY DEF storeSet
<1>2. StoreType'
  <2>1. db' \in [Keys -> [value : Strings \cup {None}, expiry : {"never", "later", "past"}]]
    BY <1>1 DEF StoreInv, StoreType
  <2>2. overlapped' \in [Clients -> BOOLEAN]
    BY <1>1, Zenon
  <2> QED
    BY <2>1, <2>2 DEF StoreType
<1>3. ASSUME NEW d \in Clients PROVE ReadOK(d)'
  <2>1. SUFFICES ASSUME pc'[d] = "incr", ~overlapped'[d], read'[d] # None
                 PROVE  db'[cur'[d].key].value = read'[d]
    BY DEF ReadOK
  <2>2. d # c /\ pc[d] = "incr" /\ read[d] # None /\ cur'[d] = cur[d] /\ read'[d] = read[d]
    BY <2>1
  <2>3. ~overlapped[d] /\ cur[d].key # k
    <3>1. overlapped'[d] = (d # c /\ (overlapped[d] \/ (pc[d] = "incr" /\ cur[d].key = k)))
      BY <1>1
    <3> QED
      BY <2>1, <2>2, <3>1
  <2>4. cur[d].key \in Keys
    BY <2>2, Under DEF Running
  <2>5. db[cur[d].key].value = read[d]
    BY <2>2, <2>3 DEF StoreInv, ReadOK
  <2>6. db'[cur[d].key] = db[cur[d].key]
    BY <1>1, <2>3, <2>4 DEF StoreInv, StoreType
  <2> QED
    BY <2>2, <2>5, <2>6
<1> QED
  BY <1>2, <1>3 DEF StoreInv

LEMMA SetStep == ASSUME IInv, NEW c \in Clients, handleSet(c) PROVE IInv'
<1>1. /\ ConnInv /\ StoreInv /\ pc[c] \in Running
      /\ pc[c] = "run" /\ storeSet(c, cur[c].key, cur[c].val)
      /\ UNCHANGED <<in_transaction, queue, read, queued, dropped>>
  BY DEF IInv, handleSet, connVars, Running
<1>2. read' \in [Clients -> (Strings \ {Text}) \cup {None}] /\ read' = read
  BY <1>1 DEF StoreInv, StoreType
<1>3. CASE Answer(c, "ok")
  <2>1. ConnInv'
    BY <1>1, <1>3, AnswerConn
  <2>2. /\ \A d \in Clients : d # c => pc'[d] = pc[d] /\ cur'[d] = cur[d]
        /\ pc'[c] # "incr"
    BY <1>1, <1>3, Answered
  <2>3. StoreInv'
    BY <1>1, <1>2, <2>2, Write, Under
  <2> QED
    BY <2>1, <2>3 DEF IInv
<1>4. CASE pc' = [pc EXCEPT ![c] = "px"] /\ UNCHANGED <<cur, pos, ran, alive>>
  <2>1. ConnInv'
    BY <1>1, <1>4, HalfConn DEF Running
  <2>2. /\ \A d \in Clients : d # c => pc'[d] = pc[d] /\ cur'[d] = cur[d]
        /\ pc'[c] # "incr"
    BY <1>1, <1>4 DEF ConnInv, ConnType
  <2>3. StoreInv'
    BY <1>1, <1>2, <2>2, Write, Under
  <2> QED
    BY <2>1, <2>3 DEF IInv
<1> QED
  BY <1>3, <1>4 DEF handleSet

LEMMA ExpiryStep == ASSUME IInv, NEW c \in Clients, SetExpiry(c) PROVE IInv'
<1> DEFINE k == cur[c].key
<1>1. /\ ConnInv /\ StoreInv /\ pc[c] \in Running
      /\ db' = [db EXCEPT ![k] = [value |-> @.value, expiry |-> "later"]]
      /\ Answer(c, "ok")
      /\ UNCHANGED <<in_transaction, queue, read, overlapped, queued, dropped>>
  BY DEF IInv, SetExpiry, connVars, Running
<1>2. ConnInv'
  BY <1>1, AnswerConn
<1>3. /\ \A d \in Clients : d # c => pc'[d] = pc[d] /\ cur'[d] = cur[d]
      /\ pc'[c] # "incr"
  BY <1>1, Answered
<1>4. \A d \in Clients : pc[d] = "incr" => cur[d].key \in Keys
  BY <1>1, Under DEF Running
<1>5. /\ db' \in [Keys -> [value : Strings \cup {None}, expiry : {"never", "later", "past"}]]
      /\ \A j \in Keys : db'[j].value = db[j].value
  BY <1>1, Under DEF StoreInv, StoreType
<1>6. StoreInv'
  BY <1>1, <1>3, <1>4, <1>5, NoWrite
<1> QED
  BY <1>2, <1>6 DEF IInv

\* The commands that leave the store alone.
LEMMA AnswerStep ==
    ASSUME IInv, NEW c \in Clients, NEW kind, pc[c] = "run", Answer(c, kind),
           UNCHANGED <<db, in_transaction, queue, read, queued, dropped, overlapped>>
    PROVE  IInv'
<1>1. ConnInv /\ StoreInv /\ pc[c] \in Running
  BY DEF IInv, Running
<1>2. ConnInv'
  BY <1>1, AnswerConn
<1>3. /\ \A d \in Clients : d # c => pc'[d] = pc[d] /\ cur'[d] = cur[d]
      /\ pc'[c] # "incr"
  BY <1>1, Answered
<1>4. \A d \in Clients : pc[d] = "incr" => cur[d].key \in Keys
  BY <1>1, Under DEF Running
<1>5. db' \in [Keys -> [value : Strings \cup {None}, expiry : {"never", "later", "past"}]]
  BY <1>1 DEF StoreInv, StoreType
<1>6. StoreInv'
  BY <1>1, <1>3, <1>4, <1>5, NoWrite
<1> QED
  BY <1>2, <1>6 DEF IInv

\* INCR reads the number it will add to.
LEMMA ReadStep == ASSUME IInv, NEW c \in Clients, IncrRead(c) PROVE IInv'
<1> DEFINE k == cur[c].key
<1>1. pc[c] = "run" /\ UNCHANGED <<db, in_transaction, queue, queued, dropped>>
  BY DEF IncrRead, connVars
<1>2. CASE Answer(c, "error") /\ UNCHANGED <<read, overlapped>>
  BY <1>1, <1>2, AnswerStep
<1>3. CASE /\ Visible(k) => db[k].value # Text
           /\ read' = [read EXCEPT ![c] = IF Visible(k) THEN db[k].value ELSE None]
           /\ overlapped' = [overlapped EXCEPT ![c] = FALSE]
           /\ pc' = [pc EXCEPT ![c] = "incr"]
           /\ UNCHANGED <<cur, pos, ran, alive>>
  <2>1. ConnInv /\ StoreInv /\ k \in Keys
    BY <1>1, Under DEF IInv, Running
  <2>2. ConnInv'
    BY <1>1, <1>3, <2>1, HalfConn DEF Running
  <2>3. StoreType'
    <3>1. (IF Visible(k) THEN db[k].value ELSE None) \in (Strings \ {Text}) \cup {None}
      BY <1>3, <2>1 DEF StoreInv, StoreType
    <3>2. read' \in [Clients -> (Strings \ {Text}) \cup {None}]
      BY <1>3, <2>1, <3>1 DEF StoreInv, StoreType
    <3>3. overlapped' \in [Clients -> BOOLEAN]
      BY <1>3, <2>1 DEF StoreInv, StoreType
    <3> QED
      BY <1>1, <2>1, <3>2, <3>3 DEF StoreInv, StoreType
  <2>4. ASSUME NEW d \in Clients, d # c PROVE ReadOK(d)'
    <3>1. /\ pc'[d] = pc[d] /\ read'[d] = read[d] /\ overlapped'[d] = overlapped[d]
          /\ cur'[d] = cur[d] /\ db' = db
      BY <1>1, <1>3, <2>1, <2>4 DEF ConnInv, ConnType, StoreInv, StoreType
    <3> QED
      BY <2>1, <3>1 DEF StoreInv, ReadOK
  <2>5. ReadOK(c)'
    <3>1. read'[c] = (IF Visible(k) THEN db[k].value ELSE None)
      BY <1>3, <2>1 DEF StoreInv, StoreType
    <3> QED
      BY <1>1, <1>3, <3>1 DEF ReadOK
  <2> QED
    BY <2>2, <2>3, <2>4, <2>5 DEF IInv, StoreInv
<1> QED
  BY <1>2, <1>3 DEF IncrRead

\* The number after a 64-bit number is one.
LEMMA SuccString == ASSUME NEW n \in Strings \ {Text} PROVE Succ64(n) \in Strings
  BY DEF Succ64, Strings, MinInt

LEMMA WriteStep == ASSUME IInv, NEW c \in Clients, IncrWrite(c) PROVE IInv'
<1> DEFINE v == IF read[c] = None THEN 1 ELSE Succ64(read[c])
<1>1. /\ ConnInv /\ StoreInv /\ pc[c] \in Running
      /\ storeSet(c, cur[c].key, v)
      /\ read' = [read EXCEPT ![c] = None]
      /\ Answer(c, "integer")
      /\ UNCHANGED <<in_transaction, queue, queued, dropped>>
  BY DEF IInv, IncrWrite, connVars, Running
<1>2. v \in Strings \cup {None}
  <2>1. read[c] \in (Strings \ {Text}) \cup {None}
    BY <1>1 DEF StoreInv, StoreType
  <2>2. 1 \in Strings
    BY DEF Strings, MinInt
  <2> QED
    BY <2>1, <2>2, SuccString
<1> HIDE DEF v
<1>3. ConnInv'
  BY <1>1, AnswerConn
<1>4. /\ \A d \in Clients : d # c => pc'[d] = pc[d] /\ cur'[d] = cur[d]
      /\ pc'[c] # "incr"
  BY <1>1, Answered
<1>5. /\ read' \in [Clients -> (Strings \ {Text}) \cup {None}]
      /\ \A d \in Clients : d # c => read'[d] = read[d]
  BY <1>1 DEF StoreInv, StoreType
<1>6. StoreInv'
  BY <1>1, <1>2, <1>4, <1>5, Write, Under
<1> QED
  BY <1>3, <1>6 DEF IInv

\* The steps that touch only the connection.
LEMMA ConnStep ==
    ASSUME IInv, NEW c \in Clients, ClientStep(c) \/ ExecNext(c) \/ ExecEnd(c)
    PROVE  IInv'
<1>1. ConnInv /\ StoreInv
  BY DEF IInv
<1>2. ConnInv'
  BY <1>1, CommandConn, MultiConn, ExecConn, DiscardConn, NextConn, EndConn DEF ClientStep
<1>3. UNCHANGED <<db, read, overlapped>>
  BY DEF ClientStep, executeCommand, handleMulti, handleExec, handleDiscard, ExecNext, ExecEnd
<1>4. /\ \A d \in Clients : d # c => pc'[d] = pc[d] /\ cur'[d] = cur[d]
      /\ pc'[c] # "incr" \/ (pc'[c] = pc[c] /\ cur'[c] = cur[c])
  BY <1>1 DEF ClientStep, executeCommand, handleMulti, handleExec, handleDiscard, ExecNext, ExecEnd,
              ConnInv, ConnType
<1>5. \A d \in Clients : pc[d] = "incr" => cur[d].key \in Keys
  BY <1>1, Under DEF Running
<1>6. db' \in [Keys -> [value : Strings \cup {None}, expiry : {"never", "later", "past"}]]
  BY <1>1, <1>3 DEF StoreInv, StoreType
<1>7. StoreInv'
  BY <1>1, <1>3, <1>4, <1>5, <1>6, NoWrite
<1> QED
  BY <1>2, <1>7 DEF IInv

\* The passing of time hides a value and keeps it.
LEMMA ExpireStep == ASSUME IInv, NEW k \in Keys, Expire(k) PROVE IInv'
<1>1. /\ db' = [db EXCEPT ![k] = [value |-> db[k].value, expiry |-> "past"]]
      /\ UNCHANGED <<in_transaction, queue, pc, cur, pos, read, alive, queued, ran, dropped,
                     overlapped>>
  BY DEF Expire, connVars, history
<1>2. ConnInv'
  <2>1. ConnType'
    BY <1>1 DEF IInv, ConnInv, ConnType
  <2>2. \A d \in Clients : Same(d)
    BY <1>1 DEF Same
  <2> QED
    BY <2>1, <2>2, SameOK DEF IInv, ConnInv
<1>3. StoreInv'
  <2>1. \A j \in Keys : db'[j].value = db[j].value
    BY <1>1 DEF IInv, StoreInv, StoreType
  <2>2. db' \in [Keys -> [value : Strings \cup {None}, expiry : {"never", "later", "past"}]]
    BY <1>1 DEF IInv, StoreInv, StoreType
  <2>3. StoreType'
    BY <1>1, <2>2 DEF IInv, StoreInv, StoreType
  <2>4. \A d \in Clients : pc[d] = "incr" => cur[d].key \in Keys
    BY Under DEF IInv, Running
  <2> QED
    BY <1>1, <2>1, <2>3, <2>4 DEF IInv, StoreInv, ReadOK
<1> QED
  BY <1>2, <1>3 DEF IInv

-----------------------------------------------------------------------------
(* Theorems *)

LEMMA InitOK == Init => IInv
<1> SUFFICES ASSUME Init PROVE IInv
  OBVIOUS
<1>1. <<>> \in Seq(Tagged) /\ <<>> \in Seq(Nat) /\ Len(<<>>) = 0
  BY EmptySeq
<1>2. ConnType
  <2>1. queue \in [Clients -> Seq(Tagged)] /\ ran \in [Clients -> Seq(Nat)]
    BY <1>1 DEF Init
  <2>2. cur \in [Clients -> Command \cup Tagged \cup {None}]
    BY DEF Init
  <2> QED
    BY <2>1, <2>2 DEF Init, ConnType
<1>3. ASSUME NEW c \in Clients PROVE PlaceOK(c) /\ NumbersOK(c) /\ ReadOK(c)
  <2>1. PlaceOK(c)
    BY <1>1 DEF Init, PlaceOK, Running
  <2>2. ReadOK(c)
    BY DEF Init, ReadOK
  <2>3. Settled(c) = 0
    BY <1>1 DEF Init, Settled
  <2>4. Account(<<>>, {}, 0)
    BY DEF Account, Range
  <2> QED
    BY <1>1, <2>1, <2>2, <2>3, <2>4 DEF Init, NumbersOK
<1>4. StoreType
  BY DEF Init, StoreType
<1> QED
  BY <1>2, <1>3, <1>4 DEF IInv, ConnInv, StoreInv

LEMMA NextOK == IInv /\ [Next]_vars => IInv'
<1> SUFFICES ASSUME IInv, [Next]_vars PROVE IInv'
  OBVIOUS
<1>1. ASSUME NEW c \in Clients, ClientStep(c) PROVE IInv'
  BY <1>1, ConnStep
<1>2. ASSUME NEW c \in Clients, WorkerStep(c) PROVE IInv'
  <2>1. CASE ExecNext(c) \/ ExecEnd(c)
    BY <2>1, ConnStep
  <2>2. CASE handleGet(c) \/ handleReplConfAck(c)
    BY <2>2, AnswerStep DEF handleGet, handleReplConfAck, connVars
  <2> QED
    BY <1>2, <2>1, <2>2, SetStep, ExpiryStep, ReadStep, WriteStep DEF WorkerStep
<1>3. ASSUME NEW k \in Keys, Expire(k) PROVE IInv'
  BY <1>3, ExpireStep
<1>4. CASE UNCHANGED vars
  <2> USE <1>4 DEF vars, connVars, history
  <2>1. ConnInv'
    <3>1. ConnType'
      BY DEF IInv, ConnInv, ConnType
    <3>2. \A d \in Clients : Same(d)
      BY DEF Same
    <3> QED
      BY <3>1, <3>2, SameOK DEF IInv, ConnInv
  <2>2. StoreInv'
    BY DEF IInv, StoreInv, StoreType, ReadOK
  <2> QED
    BY <2>1, <2>2 DEF IInv
<1> QED
  BY <1>1, <1>2, <1>3, <1>4 DEF Next

LEMMA Invariance == Spec => []IInv
<1> QED
  BY InitOK, NextOK, PTL DEF Spec

\* ClientState, the store and the workers keep their types; in particular INCR
\* never gets hold of a string that is not a number.
THEOREM TypeCorrect == Spec => []TypeOK
<1>1. IInv => TypeOK
  BY DEF IInv, ConnInv, StoreInv, ConnType, StoreType, TypeOK, Running
<1> QED
  BY <1>1, Invariance, PTL

\* EXEC runs what was queued once and in order, or DISCARD drops it, for any
\* number of clients and transactions.
THEOREM TransactionsExact == Spec => []ExecExactlyOnce
<1>1. ASSUME IInv PROVE ExecExactlyOnce
  <2>1. SUFFICES ASSUME NEW c \in Clients
                 PROVE  /\ \A i, j \in DOMAIN ran[c] : i < j => ran[c][i] < ran[c][j]
                        /\ Range(ran[c]) \cap dropped[c] = {}
                        /\ pc[c] = "idle" /\ ~in_transaction[c]
                              => Range(ran[c]) \cup dropped[c] = 1 .. queued[c]
    BY DEF ExecExactlyOnce
  <2>2. /\ Account(ran[c], dropped[c], Settled(c)) /\ queued[c] \in Nat /\ PlaceOK(c)
    BY <1>1, ConnFacts DEF IInv, NumbersOK
  <2>3. ASSUME pc[c] = "idle", ~in_transaction[c] PROVE Settled(c) = queued[c]
    <3>1. pos[c] = 0 /\ queue[c] = <<>>
      BY <2>2, <2>3 DEF PlaceOK
    <3>2. Len(queue[c]) = 0
      BY <3>1, EmptySeq
    <3> QED
      BY <2>2, <3>1, <3>2 DEF Settled
  <2> QED
    BY <2>2, <2>3 DEF Account
<1> QED
  BY <1>1, Invariance, PTL

\* INCR adds one to what is stored when it writes, unless another client wrote
\* the key since it read: the only way to lose an INCR.
THEOREM IncrCounts == Spec => IncrAddsOne
<1> DEFINE Adds ==
      \A c \in Clients :
          /\ pc[c] = "incr" /\ pc'[c] # "incr"
          /\ ~overlapped[c]
          => db'[cur[c].key].value =
                IF read[c] = None THEN 1 ELSE Succ64(db[cur[c].key].value)
<1>1. IInv /\ [Next]_vars => [Adds]_vars
  <2>1. SUFFICES ASSUME IInv, Next, NEW c \in Clients, pc[c] = "incr", pc'[c] # "incr",
                        ~overlapped[c]
                 PROVE  db'[cur[c].key].value =
                           IF read[c] = None THEN 1 ELSE Succ64(db[cur[c].key].value)
    OBVIOUS
  <2>2. IncrWrite(c)
    <3>1. ASSUME NEW d \in Clients, ClientStep(d) \/ ExecNext(d) \/ ExecEnd(d) PROVE FALSE
      BY <2>1, <3>1 DEF IInv, ConnInv, ConnType, ClientStep, executeCommand, handleMulti,
                        handleExec, handleDiscard, ExecNext, ExecEnd
    <3>2. ASSUME NEW d \in Clients, NEW kind, Answer(d, kind), pc[d] # "incr" PROVE FALSE
      BY <2>1, <3>2, Answered DEF IInv
    <3>3. ASSUME NEW d \in Clients, handleSet(d) PROVE FALSE
      BY <2>1, <3>2, <3>3 DEF handleSet, IInv, ConnInv, ConnType
    <3>4. ASSUME NEW d \in Clients, SetExpiry(d) \/ handleGet(d) \/ handleReplConfAck(d)
          PROVE  FALSE
      BY <3>2, <3>4 DEF SetExpiry, handleGet, handleReplConfAck
    <3>5. ASSUME NEW d \in Clients, IncrRead(d) PROVE FALSE
      BY <2>1, <3>2, <3>5 DEF IncrRead, IInv, ConnInv, ConnType
    <3>6. ASSUME NEW d \in Clients, IncrWrite(d) PROVE d = c
      BY <2>1, <3>6, Answered DEF IncrWrite, IInv
    <3>7. ASSUME NEW k \in Keys, Expire(k) PROVE FALSE
      BY <2>1, <3>7 DEF Expire
    <3> QED
      BY <2>1, <3>1, <3>3, <3>4, <3>5, <3>6, <3>7 DEF Next, WorkerStep
  <2>3. cur[c].key \in Keys
    BY <2>1, Under DEF IInv, Running
  <2>4. db'[cur[c].key].value = IF read[c] = None THEN 1 ELSE Succ64(read[c])
    BY <2>1, <2>2, <2>3 DEF IncrWrite, storeSet, IInv, StoreInv, StoreType
  <2>5. read[c] # None => db[cur[c].key].value = read[c]
    BY <2>1 DEF IInv, StoreInv, ReadOK
  <2> QED
    BY <2>4, <2>5
<1> QED
  BY <1>1, Invariance, PTL DEF Spec, IncrAddsOne

=============================================================================
