--------------------------- MODULE WaitAckProofs ----------------------------
(***************************************************************************)
(* Proofs about module WaitAck, for any number of clients, replicas and    *)
(* WAITs and any width of the counters.                                    *)
(***************************************************************************)
EXTENDS WaitAck, SequenceTheorems, FiniteSetTheorems, TLAPS

USE NumReplicasAssumption, CountAssumption, MaxWaitsAssumption, FreeAssumption
    DEF Free, Replicas

-----------------------------------------------------------------------------
(* The inductive invariant *)

\* A call has a number and a place in its loop; only a client that waits or
\* sleeps may be quiet, and only a quiet one has a list of answers.
CallsOK ==
    \A c \in Clients :
        /\ pc[c] = "idle" => req[c] = 0 /\ sent[c] = 0
        /\ pc[c] # "idle" => req[c] \in 1 .. waits
        /\ quiet[c] => pc[c] \in {"wait", "relock", "sleep"}
        /\ ~quiet[c] => own[c] = {}

\* No two WAITs under way have the same number.
NumbersDiffer ==
    \A c, d \in Clients : c # d /\ pc[c] # "idle" => req[c] # req[d]

\* A WAIT asks each replica once: its number is nowhere on the way to or from
\* a replica twice, and not at all before its loop gets there.
Once(asked, answered) ==
    /\ \A i, j \in 1..Len(asked) : asked[i] = asked[j] => i = j
    /\ \A i, j \in 1..Len(answered) : answered[i] = answered[j] => i = j
    /\ \A i \in 1..Len(asked) : \A j \in 1..Len(answered) : asked[i] # answered[j]

AskedOnce == \A r \in Replicas : Once(getacks[r], acks[r])

NotYetAsked ==
    \A c \in Clients : \A r \in Replicas :
        pc[c] = "send" /\ r > sent[c] =>
            /\ \A i \in 1..Len(getacks[r]) : getacks[r][i] # req[c]
            /\ \A i \in 1..Len(acks[r]) : acks[r][i] # req[c]

\* A quiet client is alone, the replicas whose answers it has got have nothing
\* under way any more, and acks_received counts no more than these.
QuietOK ==
    \A c \in Clients : quiet[c] =>
        /\ Alone(c)
        /\ \A r \in own[c] : getacks[r] = <<>> /\ acks[r] = <<>>
        /\ acks_received <= Cardinality(own[c])

Inv == CallsOK /\ NumbersDiffer /\ AskedOnce /\ NotYetAsked /\ QuietOK

IInv == TypeOK /\ Inv

-----------------------------------------------------------------------------
(* The steps of handleWait *)

\* What is on the way carries the number of a WAIT that was sent.
LEMMA Numbered ==
    ASSUME TypeOK, NEW r \in Replicas
    PROVE  /\ getacks[r] \in Seq(1 .. waits) /\ acks[r] \in Seq(1 .. waits)
           /\ \A i \in 1..Len(getacks[r]) : getacks[r][i] \in 1 .. waits
           /\ \A i \in 1..Len(acks[r]) : acks[r][i] \in 1 .. waits
<1>1. getacks[r] \in Seq(1 .. waits) /\ acks[r] \in Seq(1 .. waits)
  BY DEF TypeOK
<1> QED
  BY <1>1, ElementOfSeq

\* Asking for a number that is nowhere on the way keeps the numbers apart.
LEMMA OnceAsked ==
    ASSUME NEW S, NEW q \in Seq(S), NEW a, NEW n \in S, Once(q, a),
           \A i \in 1..Len(q) : q[i] # n,
           \A i \in 1..Len(a) : a[i] # n
    PROVE  Once(Append(q, n), a)
<1> DEFINE p == Append(q, n)
<1>1. /\ Len(p) = Len(q) + 1 /\ Len(q) \in Nat
      /\ \A i \in 1..Len(q) : p[i] = q[i]
      /\ p[Len(q) + 1] = n
  BY AppendProperties, LenProperties
<1> HIDE DEF p
<1>2. \A i \in 1..Len(p) : i \in 1..Len(q) \/ i = Len(q) + 1
  BY <1>1
<1>3. \A i, j \in 1..Len(p) : p[i] = p[j] => i = j
  BY <1>1, <1>2 DEF Once
<1>4. \A i \in 1..Len(p) : \A j \in 1..Len(a) : p[i] # a[j]
  BY <1>1, <1>2 DEF Once
<1>5. Once(p, a)
  BY <1>3, <1>4 DEF Once
<1> QED
  BY <1>5 DEF p

\* The tail of a queue: one element shorter, each element one place on.
LEMMA Behind ==
    ASSUME NEW S, NEW q \in Seq(S), q # <<>>
    PROVE  /\ Tail(q) \in Seq(S) /\ Head(q) \in S /\ Head(q) = q[1]
           /\ Len(q) \in Nat /\ Len(q) >= 1 /\ Len(Tail(q)) = Len(q) - 1
           /\ \A i \in 1..Len(Tail(q)) : i + 1 \in 1..Len(q) /\ Tail(q)[i] = q[i + 1]
<1>1. Len(q) \in Nat /\ Len(q) >= 1 /\ Head(q) = q[1] /\ 1 \in 1..Len(q)
  BY EmptySeq, LenProperties, HeadTailProperties
<1>2. Tail(q) \in Seq(S) /\ Head(q) \in S /\ Len(Tail(q)) = Len(q) - 1
  BY HeadTailProperties
<1>3. \A i \in 1..Len(Tail(q)) : Tail(q)[i] = q[i + 1]
  BY HeadTailProperties
<1> QED
  BY <1>1, <1>2, <1>3

\* A number that is asked for and answered changes sides; its place is free.
LEMMA OnceAnswered ==
    ASSUME NEW S, NEW q \in Seq(S), NEW a \in Seq(S), q # <<>>, Once(q, a)
    PROVE  Once(Tail(q), Append(a, Head(q)))
<1> DEFINE t == Tail(q)
<1>1. /\ t \in Seq(S) /\ Head(q) \in S /\ Head(q) = q[1] /\ 1 \in 1..Len(q)
      /\ Len(q) \in Nat /\ Len(t) = Len(q) - 1
      /\ \A i \in 1..Len(t) : i + 1 \in 1..Len(q) /\ t[i] = q[i + 1]
  BY Behind
<1> HIDE DEF t
<1>2. \A i \in 1..Len(t) : t[i] # q[1]
  BY <1>1 DEF Once
<1>3. \A i \in 1..Len(a) : a[i] # q[1]
  BY <1>1 DEF Once
<1>4. Once(a, t)
  <2>1. \A i, j \in 1..Len(t) : t[i] = t[j] => i = j
    <3>1. SUFFICES ASSUME NEW i \in 1..Len(t), NEW j \in 1..Len(t), t[i] = t[j]
                   PROVE  i = j
      OBVIOUS
    <3>2. q[i + 1] = q[j + 1] /\ i + 1 \in 1..Len(q) /\ j + 1 \in 1..Len(q)
      BY <1>1, <3>1
    <3>3. i + 1 = j + 1
      BY <3>2 DEF Once
    <3> QED
      BY <1>1, <3>3
  <2>2. ASSUME NEW i \in 1..Len(t), NEW j \in 1..Len(a) PROVE a[j] # t[i]
    <3>1. i + 1 \in 1..Len(q) /\ t[i] = q[i + 1]
      BY <1>1
    <3> QED
      BY <3>1 DEF Once
  <2> QED
    BY <2>1, <2>2 DEF Once
<1>5. Once(Append(a, q[1]), t)
  BY <1>1, <1>2, <1>3, <1>4, OnceAsked
<1>6. Once(t, Append(a, q[1]))
  BY <1>5 DEF Once
<1> QED
  BY <1>1, <1>6 DEF t

LEMMA OnceHandled ==
    ASSUME NEW S, NEW q, NEW a \in Seq(S), a # <<>>, Once(q, a)
    PROVE  Once(q, Tail(a))
<1> DEFINE t == Tail(a)
<1>1. /\ Len(a) \in Nat /\ Len(t) = Len(a) - 1
      /\ \A i \in 1..Len(t) : i + 1 \in 1..Len(a) /\ t[i] = a[i + 1]
  BY Behind
<1> HIDE DEF t
<1>2. Once(q, t)
  BY <1>1 DEF Once
<1> QED
  BY <1>2 DEF t

\* A registration and the first write touch nothing that the invariant is about.
LEMMA PropagateStep == ASSUME IInv, addReplica \/ Propagate PROVE IInv'
<1>1. UNCHANGED <<remaining_count, acks_received, lock, waits, pc, numreplicas, req, sent,
                  getacks, acks, own, quiet>>
  BY DEF addReplica, Propagate, stateVars, clientVars, linkVars
<1>2. written' \in BOOLEAN /\ replica_count' \in 0 .. NumReplicas
  <2>1. written \in BOOLEAN /\ replica_count \in 0 .. NumReplicas
    BY DEF IInv, TypeOK
  <2>2. CASE addReplica
    <3>1. replica_count' \in 0 .. NumReplicas
      BY <2>1, <2>2 DEF addReplica
    <3> QED
      BY <2>1, <2>2, <3>1, Zenon DEF addReplica
  <2>3. CASE Propagate
    BY <2>1, <2>3, Zenon DEF Propagate
  <2> QED
    BY <2>2, <2>3
<1>3. TypeOK'
  BY <1>1, <1>2 DEF IInv, TypeOK
<1>4. CallsOK' /\ NumbersDiffer' /\ AskedOnce' /\ NotYetAsked'
  BY <1>1 DEF IInv, Inv, CallsOK, NumbersDiffer, AskedOnce, NotYetAsked
<1>5. QuietOK'
  BY <1>1 DEF IInv, Inv, QuietOK, Alone
<1> QED
  BY <1>3, <1>4, <1>5 DEF IInv, Inv

\* A new number is nowhere on the way.
LEMMA StartStep == ASSUME IInv, NEW c \in Clients, WaitStart(c) PROVE IInv'
<1> USE DEF WaitStart, stateVars, masterVars
<1>1. waits' = waits + 1 /\ waits \in Nat /\ waits' \in 0 .. MaxWaits
  BY DEF IInv, TypeOK
<1>2. /\ pc' = [pc EXCEPT ![c] = "send"] /\ req' = [req EXCEPT ![c] = waits + 1]
      /\ quiet' = [d \in Clients |-> FALSE] /\ own' = [d \in Clients |-> {}]
      /\ UNCHANGED <<getacks, acks, sent>>
  BY <1>1
<1>3. TypeOK'
  <2>1. numreplicas' \in [Clients -> Wanted \cup {0}]
    BY DEF IInv, TypeOK
  <2>2. /\ getacks' \in [Replicas -> Seq(1 .. waits')]
        /\ acks' \in [Replicas -> Seq(1 .. waits')]
    <3>1. ASSUME NEW q \in Seq(1 .. waits) PROVE q \in Seq(1 .. waits')
      BY <1>1, SeqMonotonic
    <3> QED
      BY <1>2, <3>1 DEF IInv, TypeOK
  <2>3. req' \in [Clients -> 0 .. waits']
    BY <1>1, <1>2 DEF IInv, TypeOK
  <2> QED
    BY <1>1, <1>2, <2>1, <2>2, <2>3 DEF IInv, TypeOK
<1> DEFINE Same(d) == pc'[d] = pc[d] /\ req'[d] = req[d]
<1>4. \A d \in Clients : d # c => Same(d)
  BY <1>2 DEF IInv, TypeOK
<1>5. pc'[c] = "send" /\ req'[c] = waits + 1 /\ sent[c] = 0
  BY <1>2 DEF IInv, Inv, TypeOK, CallsOK
<1>6. CallsOK'
  BY <1>1, <1>2, <1>4, <1>5 DEF IInv, Inv, CallsOK
<1>7. NumbersDiffer'
  <2>1. \A d \in Clients : req[d] <= waits /\ req[d] \in Nat
    BY <1>1 DEF IInv, TypeOK
  <2> QED
    BY <1>1, <1>2, <2>1, SMTT(30) DEF IInv, Inv, TypeOK, NumbersDiffer
<1>8. AskedOnce'
  BY <1>2 DEF IInv, Inv, AskedOnce
<1>9. NotYetAsked'
  <2>1. \A r \in Replicas : /\ \A i \in 1..Len(getacks[r]) : getacks[r][i] # waits + 1
                            /\ \A i \in 1..Len(acks[r]) : acks[r][i] # waits + 1
    <3>1. waits + 1 \notin 1 .. waits
      BY <1>1
    <3> QED
      BY <3>1, Numbered DEF IInv
  <2>2. SUFFICES ASSUME NEW d \in Clients, NEW r \in Replicas, pc'[d] = "send", r > sent[d]
                 PROVE  /\ \A i \in 1..Len(getacks[r]) : getacks[r][i] # req'[d]
                        /\ \A i \in 1..Len(acks[r]) : acks[r][i] # req'[d]
    BY <1>2 DEF NotYetAsked
  <2>3. CASE d = c
    BY <1>5, <2>1, <2>3
  <2>4. CASE d # c
    BY <1>4, <2>2, <2>4 DEF IInv, Inv, NotYetAsked
  <2> QED
    BY <2>3, <2>4
<1>10. QuietOK'
  BY <1>2 DEF QuietOK
<1> QED
  BY <1>3, <1>6, <1>7, <1>8, <1>9, <1>10 DEF IInv, Inv

\* GETACK goes to a replica that has not got one of this WAIT yet.
LEMMA SendStep == ASSUME IInv, NEW c \in Clients, WaitSend(c) PROVE IInv'
<1> USE DEF WaitSend, stateVars, masterVars
<1> DEFINE r == sent[c] + 1
           q == getacks[r]
<1>1. /\ r \in Replicas /\ req[c] \in 1 .. waits /\ sent[c] \in Nat
      /\ pc[c] = "send" /\ waits \in Nat
  BY SMTT(30) DEF IInv, Inv, TypeOK, CallsOK
<1>2. /\ sent' = [sent EXCEPT ![c] = r]
      /\ getacks' = [getacks EXCEPT ![r] = Append(q, req[c])]
      /\ UNCHANGED <<waits, pc, req, acks, own, quiet, acks_received>>
  BY DEF IInv, TypeOK
<1>3. q \in Seq(1 .. waits)
  BY <1>1 DEF IInv, TypeOK
<1>4. /\ Append(q, req[c]) \in Seq(1 .. waits)
      /\ Len(Append(q, req[c])) = Len(q) + 1 /\ Len(q) \in Nat
      /\ \A i \in 1..Len(q) : Append(q, req[c])[i] = q[i]
      /\ Append(q, req[c])[Len(q) + 1] = req[c]
  BY <1>1, <1>3, AppendProperties, LenProperties
<1>5. /\ getacks'[r] = Append(q, req[c])
      /\ \A s \in Replicas : s # r => getacks'[s] = getacks[s]
  BY <1>1, <1>2 DEF IInv, TypeOK
<1>6. /\ \A i \in 1..Len(q) : q[i] # req[c]
      /\ \A i \in 1..Len(acks[r]) : acks[r][i] # req[c]
  BY <1>1, SMTT(30) DEF IInv, Inv, NotYetAsked
<1>7. \A d \in Clients : ~quiet[d]
  BY <1>1 DEF IInv, Inv, CallsOK, QuietOK, Alone
<1> HIDE DEF q
<1>8. TypeOK'
  <2>1. getacks' \in [Replicas -> Seq(1 .. waits)]
    BY <1>1, <1>2, <1>4 DEF IInv, TypeOK
  <2>2. sent' \in [Clients -> 0 .. NumReplicas]
    BY <1>1, <1>2, SMTT(30) DEF IInv, TypeOK
  <2> QED
    BY <1>2, <2>1, <2>2 DEF IInv, TypeOK
<1>9. CallsOK'
  <2>1. \A d \in Clients : d # c => pc'[d] = pc[d] /\ sent'[d] = sent[d]
    BY <1>2 DEF IInv, TypeOK
  <2> QED
    BY <1>1, <1>2, <1>7, <2>1 DEF IInv, Inv, CallsOK
<1>10. NumbersDiffer'
  BY <1>1, <1>2 DEF IInv, Inv, TypeOK, NumbersDiffer
<1>11. AskedOnce'
  <2>1. ASSUME NEW s \in Replicas, s # r PROVE Once(getacks'[s], acks'[s])
    <3>1. getacks'[s] = getacks[s] /\ acks'[s] = acks[s]
      BY <1>2, <1>5, <2>1
    <3> QED
      BY <3>1 DEF IInv, Inv, AskedOnce
  <2>2. Once(q, acks[r])
    BY <1>1 DEF IInv, Inv, AskedOnce, q
  <2>3. Once(Append(q, req[c]), acks[r])
    BY <1>1, <1>3, <1>6, <2>2, OnceAsked
  <2>4. Once(getacks'[r], acks'[r])
    <3>1. getacks'[r] = Append(q, req[c]) /\ acks'[r] = acks[r]
      BY <1>2, <1>5
    <3> QED
      BY <2>3, <3>1
  <2> QED
    BY <2>1, <2>4 DEF AskedOnce
<1>12. NotYetAsked'
  <2>1. SUFFICES ASSUME NEW d \in Clients, NEW s \in Replicas, pc'[d] = "send", s > sent'[d]
                 PROVE  /\ \A i \in 1..Len(getacks'[s]) : getacks'[s][i] # req[d]
                        /\ \A i \in 1..Len(acks[s]) : acks[s][i] # req[d]
    BY <1>2 DEF NotYetAsked
  <2>2. pc[d] = "send" /\ s > sent[d]
    BY <1>1, <1>2, <2>1, SMTT(30) DEF IInv, TypeOK
  <2>3. /\ \A i \in 1..Len(getacks[s]) : getacks[s][i] # req[d]
        /\ \A i \in 1..Len(acks[s]) : acks[s][i] # req[d]
    BY <2>2 DEF IInv, Inv, NotYetAsked
  <2>4. CASE s # r
    BY <1>5, <2>3, <2>4
  <2>5. CASE s = r
    <3>1. d # c
      BY <1>1, <1>2, <2>1, <2>5 DEF IInv, TypeOK
    <3>2. req[d] # req[c]
      BY <2>2, <3>1 DEF IInv, Inv, NumbersDiffer
    <3>3. \A i \in 1..(Len(q) + 1) : i \in 1..Len(q) \/ i = Len(q) + 1
      BY <1>4
    <3> QED
      BY <1>4, <1>5, <2>3, <2>5, <3>2, <3>3 DEF q
  <2> QED
    BY <2>4, <2>5
<1>13. QuietOK'
  BY <1>2, <1>7 DEF QuietOK
<1> QED
  BY <1>8, <1>9, <1>10, <1>11, <1>12, <1>13 DEF IInv, Inv

\* The end of the loop changes the client's pc only.
LEMMA SentStep == ASSUME IInv, NEW c \in Clients, WaitSent(c) PROVE IInv'
<1>1. /\ pc[c] = "send" /\ pc' = [pc EXCEPT ![c] = "reset"]
      /\ UNCHANGED <<remaining_count, acks_received, lock, written, replica_count, waits,
                     numreplicas, req, sent, getacks, acks, own, quiet>>
  BY DEF WaitSent, stateVars, masterVars, clientVars, linkVars
<1>2. /\ \A d \in Clients : d # c => pc'[d] = pc[d]
      /\ pc'[c] = "reset"
  BY <1>1 DEF IInv, TypeOK
<1>3. TypeOK'
  <2>1. pc' \in [Clients -> {"idle", "send", "reset", "wait", "relock", "sleep"}]
    BY <1>1 DEF IInv, TypeOK
  <2> QED
    BY <1>1, <2>1 DEF IInv, TypeOK
<1>4. CallsOK'
  BY <1>1, <1>2 DEF IInv, Inv, CallsOK
<1>5. NumbersDiffer' /\ AskedOnce' /\ NotYetAsked'
  BY <1>1, <1>2 DEF IInv, Inv, NumbersDiffer, AskedOnce, NotYetAsked
<1>6. QuietOK'
  <2>1. ASSUME NEW d \in Clients, Alone(d) PROVE Alone(d)'
    BY <1>1, <1>2, <2>1 DEF Alone
  <2> QED
    BY <1>1, <2>1 DEF IInv, Inv, QuietOK
<1> QED
  BY <1>3, <1>4, <1>5, <1>6 DEF IInv, Inv

\* The count starts at 0, and starts quiet only if nothing else is under way.
LEMMA ResetStep == ASSUME IInv, NEW c \in Clients, WaitReset(c) PROVE IInv'
<1> USE DEF WaitReset, masterVars, clientVars, linkVars
<1>1. /\ pc[c] = "reset" /\ ~quiet[c] /\ own[c] = {}
      /\ pc' = [pc EXCEPT ![c] = "wait"] /\ quiet' = [quiet EXCEPT ![c] = Alone(c)]
      /\ acks_received' = 0
      /\ UNCHANGED <<waits, req, sent, getacks, acks, own>>
  BY DEF IInv, Inv, CallsOK
<1>2. Alone(c) \in BOOLEAN
  BY DEF Alone
<1>3. TypeOK'
  <2>1. remaining_count' \in 0 .. (CountMod - 1)
    BY DEF IInv, TypeOK
  <2>2. quiet' \in [Clients -> BOOLEAN]
    BY <1>1, <1>2, Zenon DEF IInv, TypeOK
  <2>3. pc' \in [Clients -> {"idle", "send", "reset", "wait", "relock", "sleep"}]
    BY <1>1 DEF IInv, TypeOK
  <2> QED
    BY <1>1, <2>1, <2>2, <2>3 DEF IInv, TypeOK
<1>4. \A d \in Clients : d # c => ~quiet[d] /\ ~quiet'[d] /\ pc'[d] = pc[d]
  BY <1>1 DEF IInv, Inv, TypeOK, QuietOK, Alone
<1>5. pc'[c] = "wait" /\ (quiet'[c] <=> Alone(c))
  BY <1>1, <1>2, Zenon DEF IInv, TypeOK
<1>6. CallsOK'
  BY <1>1, <1>4, <1>5 DEF IInv, Inv, CallsOK
<1>7. NumbersDiffer'
  BY <1>1, <1>4 DEF IInv, Inv, NumbersDiffer
<1>8. AskedOnce'
  BY <1>1 DEF IInv, Inv, AskedOnce
<1>9. NotYetAsked'
  BY <1>1, <1>4, <1>5 DEF IInv, Inv, NotYetAsked
<1>10. QuietOK'
  <2>1. SUFFICES ASSUME Alone(c)
                 PROVE  /\ Alone(c)'
                        /\ \A r \in own[c] : getacks[r] = <<>> /\ acks[r] = <<>>
                        /\ 0 <= Cardinality(own[c])
    BY <1>1, <1>4, <1>5 DEF QuietOK
  <2>2. Cardinality(own[c]) = 0
    BY <1>1, FS_EmptySet
  <2>3. Alone(c)'
    BY <1>1, <1>4, <2>1 DEF Alone
  <2> QED
    BY <1>1, <2>2, <2>3
<1> QED
  BY <1>3, <1>6, <1>7, <1>8, <1>9, <1>10 DEF IInv, Inv

\* The end of the wait and the mutex change the client's pc only.
LEMMA WakesStep ==
    ASSUME IInv, NEW c \in Clients, WaitWakes(c) \/ WaitRelock(c)
    PROVE  IInv'
<1> DEFINE awake == IF pc[c] = "wait" THEN "relock" ELSE "sleep"
<1>1. /\ pc[c] \in {"wait", "relock"} /\ pc' = [pc EXCEPT ![c] = awake]
      /\ UNCHANGED <<remaining_count, acks_received, written, replica_count, waits,
                     numreplicas, req, sent, getacks, acks, own, quiet>>
      /\ lock' \in {lock, c}
  BY DEF WaitWakes, WaitRelock, stateVars, masterVars, clientVars, linkVars
<1>2. /\ \A d \in Clients : d # c => pc'[d] = pc[d]
      /\ pc[c] \in {"wait", "relock"} /\ pc'[c] \in {"relock", "sleep"}
  BY <1>1 DEF IInv, TypeOK
<1>3. TypeOK'
  <2>1. pc' \in [Clients -> {"idle", "send", "reset", "wait", "relock", "sleep"}]
    BY <1>1 DEF IInv, TypeOK
  <2> QED
    BY <1>1, <2>1 DEF IInv, TypeOK
<1>4. CallsOK'
  BY <1>1, <1>2 DEF IInv, Inv, CallsOK
<1>5. NumbersDiffer' /\ AskedOnce' /\ NotYetAsked'
  BY <1>1, <1>2 DEF IInv, Inv, NumbersDiffer, AskedOnce, NotYetAsked
<1>6. QuietOK'
  <2>1. ASSUME NEW d \in Clients, Alone(d) PROVE Alone(d)'
    BY <1>1, <1>2, <2>1 DEF Alone
  <2> QED
    BY <1>1, <2>1 DEF IInv, Inv, QuietOK
<1> QED
  BY <1>3, <1>4, <1>5, <1>6 DEF IInv, Inv

\* The answer is sent: the call is forgotten.
LEMMA ReturnStep == ASSUME IInv, NEW c \in Clients, WaitReturn(c) PROVE IInv'
<1> USE DEF WaitReturn, WaitOver, masterVars
<1>1. /\ pc[c] = "sleep" /\ pc' = [pc EXCEPT ![c] = "idle"]
      /\ req' = [req EXCEPT ![c] = 0] /\ sent' = [sent EXCEPT ![c] = 0]
      /\ own' = [own EXCEPT ![c] = {}] /\ quiet' = [quiet EXCEPT ![c] = FALSE]
      /\ UNCHANGED <<acks_received, waits, getacks, acks>>
  OBVIOUS
<1>2. \A d \in Clients : d # c => /\ pc'[d] = pc[d] /\ req'[d] = req[d] /\ sent'[d] = sent[d]
                                  /\ own'[d] = own[d] /\ quiet'[d] = quiet[d]
  BY <1>1 DEF IInv, TypeOK
<1>3. pc'[c] = "idle" /\ req'[c] = 0 /\ sent'[c] = 0 /\ own'[c] = {} /\ ~quiet'[c]
  BY <1>1 DEF IInv, TypeOK
<1>4. \A d \in Clients : d # c => ~quiet[d]
  BY <1>1 DEF IInv, Inv, QuietOK, Alone
<1>5. TypeOK'
  <2>1. pc' \in [Clients -> {"idle", "send", "reset", "wait", "relock", "sleep"}]
    BY <1>1 DEF IInv, TypeOK
  <2>2. /\ req' \in [Clients -> 0 .. waits] /\ sent' \in [Clients -> 0 .. NumReplicas]
        /\ numreplicas' \in [Clients -> Wanted \cup {0}]
    BY <1>1 DEF IInv, TypeOK
  <2>3. own' \in [Clients -> SUBSET Replicas]
    BY <1>1 DEF IInv, TypeOK
  <2>4. quiet' \in [Clients -> BOOLEAN]
    BY <1>1 DEF IInv, TypeOK
  <2> QED
    BY <1>1, <2>1, <2>2, <2>3, <2>4 DEF IInv, TypeOK
<1>6. CallsOK'
  BY <1>1, <1>2, <1>3 DEF IInv, Inv, CallsOK
<1>7. NumbersDiffer'
  <2>1. SUFFICES ASSUME NEW d \in Clients, NEW e \in Clients, d # e, pc'[d] # "idle"
                 PROVE  req'[d] # req'[e]
    BY DEF NumbersDiffer
  <2>2. d # c /\ pc[d] # "idle" /\ req'[d] = req[d] /\ req[d] \in 1 .. waits
    BY <1>2, <1>3, <2>1 DEF IInv, Inv, CallsOK
  <2>3. CASE e = c
    BY <1>3, <2>2, <2>3
  <2>4. CASE e # c
    BY <1>2, <2>1, <2>2, <2>4 DEF IInv, Inv, NumbersDiffer
  <2> QED
    BY <2>3, <2>4
<1>8. AskedOnce' /\ NotYetAsked'
  BY <1>1, <1>2, <1>3 DEF IInv, Inv, AskedOnce, NotYetAsked
<1>9. QuietOK'
  BY <1>2, <1>3, <1>4 DEF QuietOK
<1> QED
  BY <1>5, <1>6, <1>7, <1>8, <1>9 DEF IInv, Inv

-----------------------------------------------------------------------------
(* The replicas' steps *)

\* What is on the way after an answer was given was on the way before.
LEMMA AnswersStep == ASSUME IInv, NEW r \in Replicas, ReplicaAnswers(r) PROVE IInv'
<1> DEFINE q == getacks[r]
           a == acks[r]
<1>1. q # <<>> /\ q \in Seq(1 .. waits) /\ a \in Seq(1 .. waits)
  BY DEF IInv, TypeOK, ReplicaAnswers
<1>2. /\ getacks'[r] = Tail(q) /\ acks'[r] = Append(a, Head(q))
      /\ \A s \in Replicas : s # r => getacks'[s] = getacks[s] /\ acks'[s] = acks[s]
      /\ UNCHANGED <<remaining_count, acks_received, lock, written, replica_count, waits, pc,
                     numreplicas, req, sent, own, quiet>>
  BY DEF IInv, TypeOK, ReplicaAnswers, stateVars, masterVars, clientVars
<1>3. /\ Tail(q) \in Seq(1 .. waits) /\ Head(q) \in 1 .. waits /\ Head(q) = q[1]
      /\ Len(q) \in Nat /\ Len(q) >= 1
      /\ \A i \in 1..Len(Tail(q)) : i + 1 \in 1..Len(q) /\ Tail(q)[i] = q[i + 1]
  BY <1>1, Behind
<1>4. /\ Append(a, Head(q)) \in Seq(1 .. waits)
      /\ Len(Append(a, Head(q))) = Len(a) + 1 /\ Len(a) \in Nat
      /\ \A i \in 1..Len(a) : Append(a, Head(q))[i] = a[i]
      /\ Append(a, Head(q))[Len(a) + 1] = Head(q)
  BY <1>1, <1>3, AppendProperties, LenProperties
<1>5. TypeOK'
  <2>1. getacks' \in [Replicas -> Seq(1 .. waits)] /\ acks' \in [Replicas -> Seq(1 .. waits)]
    BY <1>3, <1>4 DEF IInv, TypeOK, ReplicaAnswers
  <2> QED
    BY <1>2, <2>1 DEF IInv, TypeOK
<1>6. Once(Tail(q), Append(a, Head(q)))
  <2>1. Once(q, a)
    BY DEF IInv, Inv, AskedOnce
  <2> QED
    BY <1>1, <2>1, OnceAnswered
<1>7. AskedOnce'
  <2>1. ASSUME NEW s \in Replicas, s # r PROVE Once(getacks'[s], acks'[s])
    <3>1. getacks'[s] = getacks[s] /\ acks'[s] = acks[s]
      BY <1>2, <2>1
    <3> QED
      BY <3>1 DEF IInv, Inv, AskedOnce
  <2>2. Once(getacks'[r], acks'[r])
    BY <1>2, <1>6
  <2> QED
    BY <2>1, <2>2 DEF AskedOnce
<1>8. ASSUME NEW s \in Replicas
      PROVE  /\ \A i \in 1..Len(getacks'[s]) :
                   \E j \in 1..Len(getacks[s]) : getacks'[s][i] = getacks[s][j]
             /\ \A i \in 1..Len(acks'[s]) :
                   \/ \E j \in 1..Len(acks[s]) : acks'[s][i] = acks[s][j]
                   \/ \E j \in 1..Len(getacks[s]) : acks'[s][i] = getacks[s][j]
  <2>1. CASE s # r
    BY <1>2, <2>1
  <2>2. CASE s = r
    <3>1. \A i \in 1..(Len(a) + 1) : i \in 1..Len(a) \/ i = Len(a) + 1
      BY <1>4
    <3>2. \A i \in 1..Len(Tail(q)) : \E j \in 1..Len(q) : Tail(q)[i] = q[j]
      BY <1>3
    <3>3. \A i \in 1..Len(Append(a, Head(q))) :
             \/ \E j \in 1..Len(a) : Append(a, Head(q))[i] = a[j]
             \/ \E j \in 1..Len(q) : Append(a, Head(q))[i] = q[j]
      <4>1. 1 \in 1..Len(q)
        BY <1>3
      <4> QED
        BY <1>3, <1>4, <3>1, <4>1
    <3>4. getacks'[s] = Tail(q) /\ acks'[s] = Append(a, Head(q)) /\ getacks[s] = q /\ acks[s] = a
      BY <1>2, <2>2
    <3> QED
      BY <3>2, <3>3, <3>4, SMTT(30)
  <2> QED
    BY <2>1, <2>2
<1> HIDE DEF q, a
<1>9. CallsOK' /\ NumbersDiffer'
  BY <1>2 DEF IInv, Inv, CallsOK, NumbersDiffer
<1>10. NotYetAsked'
  <2>1. SUFFICES ASSUME NEW c \in Clients, NEW s \in Replicas, pc[c] = "send", s > sent[c]
                 PROVE  /\ \A i \in 1..Len(getacks'[s]) : getacks'[s][i] # req[c]
                        /\ \A i \in 1..Len(acks'[s]) : acks'[s][i] # req[c]
    BY <1>2 DEF NotYetAsked
  <2>2. /\ \A i \in 1..Len(getacks[s]) : getacks[s][i] # req[c]
        /\ \A i \in 1..Len(acks[s]) : acks[s][i] # req[c]
    BY <2>1 DEF IInv, Inv, NotYetAsked
  <2>3. ASSUME NEW i \in 1..Len(getacks'[s]) PROVE getacks'[s][i] # req[c]
    <3>1. PICK j \in 1..Len(getacks[s]) : getacks'[s][i] = getacks[s][j]
      BY <1>8, Zenon
    <3> QED
      BY <2>2, <3>1
  <2>4. ASSUME NEW i \in 1..Len(acks'[s]) PROVE acks'[s][i] # req[c]
    <3>1. \/ \E j \in 1..Len(acks[s]) : acks'[s][i] = acks[s][j]
          \/ \E j \in 1..Len(getacks[s]) : acks'[s][i] = getacks[s][j]
      BY <1>8, Zenon
    <3> QED
      BY <2>2, <3>1
  <2> QED
    BY <2>3, <2>4
<1>11. QuietOK'
  <2>1. SUFFICES ASSUME NEW c \in Clients, quiet[c]
                 PROVE  /\ Alone(c)'
                        /\ \A s \in own[c] : getacks'[s] = <<>> /\ acks'[s] = <<>>
                        /\ acks_received <= Cardinality(own[c])
    BY <1>2 DEF QuietOK
  <2>2. /\ Alone(c) /\ acks_received <= Cardinality(own[c])
        /\ \A s \in own[c] : getacks[s] = <<>> /\ acks[s] = <<>>
    BY <2>1 DEF IInv, Inv, QuietOK
  <2>3. Alone(c)'
    <3>1. ASSUME NEW s \in Replicas
          PROVE  /\ \A i \in 1..Len(getacks'[s]) : getacks'[s][i] = req[c]
                 /\ \A i \in 1..Len(acks'[s]) : acks'[s][i] = req[c]
      <4>1. /\ \A i \in 1..Len(getacks[s]) : getacks[s][i] = req[c]
            /\ \A i \in 1..Len(acks[s]) : acks[s][i] = req[c]
        BY <2>2 DEF Alone
      <4>2. ASSUME NEW i \in 1..Len(getacks'[s]) PROVE getacks'[s][i] = req[c]
        <5>1. PICK j \in 1..Len(getacks[s]) : getacks'[s][i] = getacks[s][j]
          BY <1>8, Zenon
        <5> QED
          BY <4>1, <5>1
      <4>3. ASSUME NEW i \in 1..Len(acks'[s]) PROVE acks'[s][i] = req[c]
        <5>1. \/ \E j \in 1..Len(acks[s]) : acks'[s][i] = acks[s][j]
              \/ \E j \in 1..Len(getacks[s]) : acks'[s][i] = getacks[s][j]
          BY <1>8, Zenon
        <5> QED
          BY <4>1, <5>1
      <4> QED
        BY <4>2, <4>3
    <3> QED
      BY <1>2, <2>2, <3>1 DEF Alone
  <2>4. \A s \in own[c] : s \in Replicas /\ s # r
    BY <1>1, <2>2 DEF IInv, TypeOK, q
  <2> QED
    BY <1>2, <2>2, <2>3, <2>4
<1> QED
  BY <1>5, <1>7, <1>9, <1>10, <1>11 DEF IInv, Inv

\* An acknowledgement that a quiet client counts is the only one of its
\* replica, and the replica was not counted before.
LEMMA AckStep == ASSUME IInv, NEW r \in Replicas, HandleAck(r) PROVE IInv'
<1> DEFINE a == acks[r]
<1>1. a # <<>> /\ a \in Seq(1 .. waits)
  BY DEF IInv, TypeOK, HandleAck
<1>2. /\ acks'[r] = Tail(a)
      /\ \A s \in Replicas : s # r => acks'[s] = acks[s]
      /\ UNCHANGED <<lock, written, replica_count, waits, numreplicas, req, sent, getacks,
                     quiet>>
      /\ acks_received' = (acks_received + 1) % CountMod
      /\ remaining_count' = (remaining_count - 1) % CountMod
      /\ own' = [c \in Clients |-> IF quiet[c] /\ req[c] = Head(a) THEN own[c] \cup {r} ELSE own[c]]
  BY DEF IInv, TypeOK, HandleAck, masterVars, clientVars
<1>3. /\ Tail(a) \in Seq(1 .. waits) /\ Head(a) \in 1 .. waits /\ Head(a) = a[1]
      /\ Len(a) \in Nat /\ Len(a) >= 1 /\ Len(Tail(a)) = Len(a) - 1
      /\ \A i \in 1..Len(Tail(a)) : i + 1 \in 1..Len(a) /\ Tail(a)[i] = a[i + 1]
  BY <1>1, Behind
<1>4. \A d \in Clients : pc'[d] = pc[d] \/ (pc[d] = "wait" /\ pc'[d] = "relock")
  BY DEF HandleAck, Sleepers, IInv, TypeOK
<1>5. TypeOK'
  <2>1. pc' \in [Clients -> {"idle", "send", "reset", "wait", "relock", "sleep"}]
    <3>1. CASE UNCHANGED pc
      BY <3>1 DEF IInv, TypeOK
    <3>2. CASE \E c \in Sleepers : pc' = [pc EXCEPT ![c] = "relock"]
      BY <3>2 DEF IInv, TypeOK
    <3> QED
      BY <3>1, <3>2 DEF HandleAck
  <2>2. /\ (acks_received + 1) % CountMod \in 0 .. (CountMod - 1)
        /\ (remaining_count - 1) % CountMod \in 0 .. (CountMod - 1)
    <3>1. acks_received + 1 \in Int /\ remaining_count - 1 \in Int
      BY DEF IInv, TypeOK
    <3> QED
      BY <3>1
  <2>3. acks' \in [Replicas -> Seq(1 .. waits)]
    BY <1>3 DEF IInv, TypeOK, HandleAck
  <2>4. own' \in [Clients -> SUBSET Replicas]
    BY <1>2 DEF IInv, TypeOK
  <2> QED
    BY <1>2, <2>1, <2>2, <2>3, <2>4 DEF IInv, TypeOK
<1>6. AskedOnce'
  <2>1. ASSUME NEW s \in Replicas, s # r PROVE Once(getacks'[s], acks'[s])
    <3>1. getacks'[s] = getacks[s] /\ acks'[s] = acks[s]
      BY <1>2, <2>1
    <3> QED
      BY <3>1 DEF IInv, Inv, AskedOnce
  <2>2. Once(getacks[r], Tail(a))
    <3>1. Once(getacks[r], a)
      BY DEF IInv, Inv, AskedOnce
    <3> QED
      BY <1>1, <3>1, OnceHandled
  <2>3. getacks'[r] = getacks[r] /\ acks'[r] = Tail(a)
    BY <1>2
  <2>4. Once(getacks'[r], acks'[r])
    BY <2>2, <2>3
  <2> QED
    BY <2>1, <2>4 DEF AskedOnce
<1>7. ASSUME NEW s \in Replicas
      PROVE  \A i \in 1..Len(acks'[s]) : \E j \in 1..Len(acks[s]) : acks'[s][i] = acks[s][j]
  <2>1. CASE s # r
    BY <1>2, <2>1
  <2>2. CASE s = r
    BY <1>2, <1>3, <2>2
  <2> QED
    BY <2>1, <2>2
<1>8. ASSUME NEW c \in Clients, quiet[c]
      PROVE  /\ req[c] = Head(a) /\ own'[c] = own[c] \cup {r} /\ r \notin own[c]
             /\ getacks[r] = <<>> /\ Tail(a) = <<>>
             /\ own[c] \in SUBSET Replicas
  <2>1. /\ \A i \in 1..Len(getacks[r]) : getacks[r][i] = req[c]
        /\ \A i \in 1..Len(a) : a[i] = req[c]
        /\ \A s \in own[c] : acks[s] = <<>>
    BY <1>8 DEF IInv, Inv, QuietOK, Alone
  <2>2. 1 \in 1..Len(a) /\ req[c] = a[1]
    BY <1>3, <2>1
  <2>3. Once(getacks[r], a)
    BY DEF IInv, Inv, AskedOnce
  <2>4. getacks[r] \in Seq(1 .. waits) /\ Len(getacks[r]) \in Nat
    BY LenProperties DEF IInv, TypeOK
  <2>5. Len(getacks[r]) = 0
    <3>1. 1 \notin 1..Len(getacks[r])
      BY <2>1, <2>2, <2>3 DEF Once
    <3> QED
      BY <2>4, <3>1
  <2>6. Len(Tail(a)) = 0
    <3>1. 2 \notin 1..Len(a)
      <4>1. SUFFICES ASSUME 2 \in 1..Len(a) PROVE FALSE
        OBVIOUS
      <4>2. a[2] = a[1]
        BY <2>1, <2>2, <4>1
      <4>3. 2 = 1
        BY <2>2, <2>3, <4>1, <4>2 DEF Once
      <4> QED
        BY <4>3
    <3>2. Len(a) \in Nat /\ Len(a) >= 1 /\ Len(Tail(a)) = Len(a) - 1
      BY <1>3
    <3>3. ASSUME NEW n \in Nat, n >= 1, 2 \notin 1..n PROVE n = 1
      BY <3>3
    <3>4. Len(a) = 1
      BY <3>1, <3>2, <3>3, Zenon
    <3> QED
      BY <3>2, <3>4
  <2>7. getacks[r] = <<>> /\ Tail(a) = <<>>
    BY <1>3, <2>4, <2>5, <2>6, EmptySeq
  <2>8. r \notin own[c]
    BY <1>1, <2>1
  <2>9. own'[c] = own[c] \cup {r}
    BY <1>2, <1>3, <1>8, <2>2
  <2> QED
    BY <1>3, <2>2, <2>7, <2>8, <2>9 DEF IInv, TypeOK
<1>9. ASSUME NEW c \in Clients, ~quiet[c] PROVE own'[c] = own[c]
  BY <1>2, <1>9
<1>10. CallsOK'
  BY <1>2, <1>4, <1>9 DEF IInv, Inv, CallsOK
<1>11. NumbersDiffer'
  BY <1>2, <1>4 DEF IInv, Inv, NumbersDiffer
<1>12. NotYetAsked'
  <2>1. SUFFICES ASSUME NEW c \in Clients, NEW s \in Replicas, pc[c] = "send", s > sent[c]
                 PROVE  /\ \A i \in 1..Len(getacks[s]) : getacks[s][i] # req[c]
                        /\ \A i \in 1..Len(acks'[s]) : acks'[s][i] # req[c]
    BY <1>2, <1>4 DEF NotYetAsked
  <2>2. /\ \A i \in 1..Len(getacks[s]) : getacks[s][i] # req[c]
        /\ \A i \in 1..Len(acks[s]) : acks[s][i] # req[c]
    BY <2>1 DEF IInv, Inv, NotYetAsked
  <2>3. ASSUME NEW i \in 1..Len(acks'[s]) PROVE acks'[s][i] # req[c]
    <3>1. PICK j \in 1..Len(acks[s]) : acks'[s][i] = acks[s][j]
      BY <1>7, <2>3
    <3> QED
      BY <2>2, <3>1, Zenon
  <2> QED
    BY <2>2, <2>3, Zenon
<1>13. QuietOK'
  <2>1. SUFFICES ASSUME NEW c \in Clients, quiet[c]
                 PROVE  /\ Alone(c)'
                        /\ \A s \in own'[c] : getacks[s] = <<>> /\ acks'[s] = <<>>
                        /\ acks_received' <= Cardinality(own'[c])
    BY <1>2 DEF QuietOK
  <2>2. /\ Alone(c) /\ acks_received <= Cardinality(own[c])
        /\ \A s \in own[c] : getacks[s] = <<>> /\ acks[s] = <<>>
    BY <2>1 DEF IInv, Inv, QuietOK
  <2>3. Alone(c)'
    BY <1>2, <1>4, <1>7, <2>2 DEF Alone
  <2>4. \A s \in own'[c] : getacks[s] = <<>> /\ acks'[s] = <<>>
    <3>1. own'[c] = own[c] \cup {r} /\ r \notin own[c] /\ own[c] \in SUBSET Replicas
      BY <1>8, <2>1
    <3>2. getacks[r] = <<>> /\ acks'[r] = <<>>
      BY <1>2, <1>8, <2>1
    <3> QED
      BY <1>2, <2>2, <3>1, <3>2
  <2>5. Cardinality(own'[c]) = Cardinality(own[c]) + 1 /\ Cardinality(own[c]) \in Nat
    <3>1. IsFiniteSet(own[c])
      <4>1. IsFiniteSet(1 .. NumReplicas)
        BY FS_Interval
      <4>2. own[c] \in SUBSET (1 .. NumReplicas)
        BY <1>8, <2>1
      <4> QED
        BY <4>1, <4>2, FS_Subset
    <3> QED
      BY <1>8, <2>1, <3>1, FS_AddElement, FS_CardinalityType
  <2>6. acks_received \in Nat /\ (acks_received + 1) % CountMod <= acks_received + 1
    <3>1. acks_received \in Nat /\ acks_received < CountMod
      BY DEF IInv, TypeOK
    <3>2. CASE acks_received + 1 = CountMod
      <4>1. (acks_received + 1) % CountMod = 0
        BY <3>2
      <4> QED
        BY <3>1, <4>1
    <3>3. CASE acks_received + 1 # CountMod
      <4>1. (acks_received + 1) % CountMod = acks_received + 1
        BY <3>1, <3>3
      <4> QED
        BY <3>1, <4>1
    <3> QED
      BY <3>2, <3>3
  <2> QED
    BY <1>2, <2>2, <2>3, <2>4, <2>5, <2>6
<1> QED
  BY <1>5, <1>6, <1>10, <1>11, <1>12, <1>13 DEF IInv, Inv

-----------------------------------------------------------------------------
(* Theorems *)

LEMMA InitOK == Init => IInv
<1> SUFFICES ASSUME Init PROVE IInv
  OBVIOUS
<1>1. \A r \in Replicas : getacks[r] = <<>> /\ acks[r] = <<>>
  BY DEF Init
<1>2. TypeOK
  <2>1. <<>> \in Seq(1 .. waits)
    BY EmptySeq
  <2>2. quiet \in [Clients -> BOOLEAN]
    BY DEF Init
  <2>3. /\ getacks \in [Replicas -> Seq(1 .. waits)] /\ acks \in [Replicas -> Seq(1 .. waits)]
        /\ own \in [Clients -> SUBSET Replicas]
    BY <2>1 DEF Init
  <2>4. /\ remaining_count \in 0 .. (CountMod - 1) /\ acks_received \in 0 .. (CountMod - 1)
        /\ lock \in Clients \cup {Free} /\ written \in BOOLEAN
        /\ replica_count \in 0 .. NumReplicas /\ waits \in 0 .. MaxWaits
    <3>1. 0 \in 0 .. (CountMod - 1) /\ 0 \in 0 .. MaxWaits /\ 0 \in 0 .. NumReplicas
      OBVIOUS
    <3> QED
      BY <3>1, Zenon DEF Init
  <2> QED
    BY <2>2, <2>3, <2>4 DEF Init, TypeOK
<1>3. CallsOK /\ NumbersDiffer /\ NotYetAsked /\ QuietOK
  BY DEF Init, CallsOK, NumbersDiffer, NotYetAsked, QuietOK
<1>4. AskedOnce
  BY <1>1, EmptySeq DEF AskedOnce, Once
<1> QED
  BY <1>2, <1>3, <1>4 DEF IInv, Inv

LEMMA NextOK == IInv /\ [Next]_vars => IInv'
<1> SUFFICES ASSUME IInv, [Next]_vars PROVE IInv'
  OBVIOUS
<1>1. CASE addReplica \/ Propagate
  BY <1>1, PropagateStep
<1>2. ASSUME NEW c \in Clients, WaitStart(c) PROVE IInv'
  BY <1>2, StartStep
<1>3. ASSUME NEW c \in Clients, WaitStep(c) PROVE IInv'
  BY <1>3, SendStep, SentStep, ResetStep, WakesStep, ReturnStep DEF WaitStep
<1>4. ASSUME NEW r \in Replicas, ReplicaAnswers(r) \/ HandleAck(r) PROVE IInv'
  BY <1>4, AnswersStep, AckStep
<1>5. CASE UNCHANGED vars
  <2> USE <1>5 DEF vars, stateVars, masterVars, clientVars, linkVars
  <2>1. TypeOK'
    BY DEF IInv, TypeOK
  <2>2. CallsOK' /\ NumbersDiffer' /\ AskedOnce' /\ NotYetAsked'
    BY DEF IInv, Inv, CallsOK, NumbersDiffer, AskedOnce, NotYetAsked
  <2>3. QuietOK'
    BY DEF IInv, Inv, QuietOK, Alone
  <2> QED
    BY <2>1, <2>2, <2>3 DEF IInv, Inv
<1> QED
  BY <1>1, <1>2, <1>3, <1>4, <1>5 DEF Next

LEMMA Invariance == Spec => []IInv
<1> QED
  BY InitOK, NextOK, PTL DEF Spec

\* The counters stay size_t, the mutex has one owner at most, and the numbers
\* that the messages carry are those of WAITs that were sent.
THEOREM TypeCorrect == Spec => []TypeOK
<1>1. IInv => TypeOK
  BY DEF IInv
<1> QED
  BY <1>1, Invariance, PTL

\* A WAIT that nothing overlaps reports no more than the replicas that
\* answered it: handleReplConf counts no acknowledgement twice and none that
\* the WAIT did not ask for.
THEOREM CountsOwn == Spec => []CountsOwnReplicas
<1>1. IInv => CountsOwnReplicas
  BY DEF IInv, Inv, QuietOK, CountsOwnReplicas
<1> QED
  BY <1>1, Invariance, PTL

=============================================================================
