-------------------------- MODULE ThreadPoolProofs --------------------------
(***************************************************************************)
(* Proofs about module ThreadPool, for any number of workers and any set   *)
(* of connections.                                                         *)
(***************************************************************************)
EXTENDS ThreadPool, TLAPS, FiniteSetTheorems

\* What each thread has in its hand follows from where it is.  The main
\* thread's hand does not matter once its signal handler runs.
HandsOK ==
    /\ \A w \in Workers : arg[w] \in Conns <=> pc[w] = "run"
    /\ pc[Main] \in {"lock", "add", "full", "wait", "relock"}
          => arg[Main] \in Conns

\* The pool runs until the signal handler stops it.
RunningOK == running <=> pc[Main] \notin {"sig_join", "exited"}

\* The part of the inductive invariant the other parts rest on.
BaseInv == TypeOK /\ HandsOK /\ RunningOK

\* The inductive invariant.
IInv == BaseInv /\ NoLostWakeup /\ SleepsOnlyWhenFull /\ OneOwner

USE DEF Main, Workers, Threads, Free, task_capacity

-----------------------------------------------------------------------------
(* The stack *)

\* What tasks[--task_count] leaves on the stack.
LEMMA PopProperties ==
    ASSUME NEW S, NEW s \in Seq(S), s # <<>>
    PROVE  LET p == SubSeq(s, 1, Len(s) - 1) IN
           /\ Len(s) \in Nat \ {0}
           /\ p \in Seq(S)
           /\ Len(p) = Len(s) - 1
           /\ \A i \in 1..Len(p) : p[i] = s[i]
           /\ s[Len(s)] \in S
<1>1. Len(s) \in Nat \ {0}
  OBVIOUS
<1>2. \A i \in 1..(Len(s) - 1) : s[i] \in S
  OBVIOUS
<1>3. s[Len(s)] \in S
  BY <1>1
<1> DEFINE n == Len(s) - 1
           p == SubSeq(s, 1, n)
<1>4. n \in Nat
  BY <1>1
<1> HIDE DEF n
<1>5. \A i \in 1..n : s[i] \in S
  BY <1>2 DEF n
<1>6. /\ p \in Seq(S)
      /\ Len(p) = n
      /\ \A i \in 1..n : p[i] = s[i]
  BY <1>4, <1>5
<1> QED
  BY <1>1, <1>3, <1>6 DEF n

\* What tasks[task_count++] = task puts on it.
LEMMA PushProperties ==
    ASSUME NEW S, NEW s \in Seq(S), NEW c \in S
    PROVE  LET p == Append(s, c) IN
           /\ p \in Seq(S)
           /\ Len(p) = Len(s) + 1
           /\ \A i \in 1..Len(s) : p[i] = s[i]
           /\ p[Len(s) + 1] = c
OBVIOUS

-----------------------------------------------------------------------------
(* Types, hands and the running flag *)

\* createThreadPool establishes the types and the hands.
LEMMA BaseInit == Init => BaseInv
<1> SUFFICES ASSUME Init PROVE BaseInv
  OBVIOUS
<1>1. TypeOK
  BY NumThreadsAssumption DEF Init, TypeOK, WorkerPC, MainPC
<1>2. HandsOK /\ RunningOK
  BY NumThreadsAssumption, NoConnAssumption DEF Init, HandsOK, RunningOK
<1> QED
  BY <1>1, <1>2 DEF BaseInv

\* Every step of the accept loop, the workers and the handler keeps them.
LEMMA BaseStep == BaseInv /\ [Next]_vars => BaseInv'
<1> SUFFICES ASSUME BaseInv, [Next]_vars PROVE BaseInv'
  OBVIOUS
<1> USE NumThreadsAssumption, NoConnAssumption
        DEF BaseInv, TypeOK, HandsOK, RunningOK, WorkerPC, MainPC
<1>1. ASSUME NEW w \in Workers, WorkerCheck(w) PROVE BaseInv'
  BY <1>1 DEF WorkerCheck
<1>2. ASSUME NEW w \in Workers, WorkerLock(w) PROVE BaseInv'
  BY <1>2 DEF WorkerLock
<1>3. ASSUME NEW w \in Workers, WorkerSleep(w) PROVE BaseInv'
  BY <1>3 DEF WorkerSleep
<1>4. ASSUME NEW w \in Workers, WorkerQuit(w) PROVE BaseInv'
  BY <1>4 DEF WorkerQuit
<1>5. ASSUME NEW w \in Workers, WorkerTake(w) PROVE BaseInv'
  <2>1. /\ tasks' \in Seq(Conns) /\ Len(tasks') <= task_capacity
        /\ tasks[Len(tasks)] \in Conns
    BY <1>5, PopProperties DEF WorkerTake
  <2>2. TypeOK'
    <3>1. /\ running' \in BOOLEAN
          /\ lock' \in Threads \cup {Free}
          /\ arg' \in [Threads -> Conns \cup {NoConn}]
      BY <1>5, <2>1 DEF WorkerTake
    <3>2. /\ pc' \in [Threads -> WorkerPC \cup MainPC]
          /\ pc'[Main] \in MainPC
          /\ \A v \in Workers : pc'[v] \in WorkerPC
      <4>1. CASE pc[Main] = "wait"
        <5>1. pc' = [pc EXCEPT ![w] = "run", ![Main] = "relock"]
          BY <1>5, <4>1 DEF WorkerTake
        <5> QED
          BY <5>1, SMTT(30)
      <4>2. CASE pc[Main] # "wait"
        <5>1. pc' = [pc EXCEPT ![w] = "run"]
          BY <1>5, <4>2 DEF WorkerTake
        <5> QED
          BY <5>1
      <4> QED
        BY <4>1, <4>2
    <3> QED
      BY <2>1, <3>1, <3>2
  <2>3. HandsOK'
    BY <1>5, <2>1 DEF WorkerTake
  <2>4. RunningOK'
    BY <1>5 DEF WorkerTake
  <2> QED
    BY <2>2, <2>3, <2>4
<1>6. ASSUME NEW w \in Workers, WorkerDone(w) PROVE BaseInv'
  BY <1>6 DEF WorkerDone
<1>7. CASE MainAccept
  BY <1>7 DEF MainAccept
<1>8. CASE MainLock
  BY <1>8 DEF MainLock
<1>9. CASE MainCheckRunning
  BY <1>9 DEF MainCheckRunning
<1>10. CASE MainSleep
  BY <1>10 DEF MainSleep
<1>11. CASE MainPush
  <2>1. /\ tasks' \in Seq(Conns)
        /\ Len(tasks') <= task_capacity
    BY <1>11, PushProperties DEF MainPush
  <2>2. CASE Waiting = {} /\ pc' = [pc EXCEPT ![Main] = "accept"]
    BY <1>11, <2>1, <2>2 DEF MainPush
  <2>3. ASSUME NEW w \in Waiting,
               pc' = [pc EXCEPT ![Main] = "accept", ![w] = "lock"]
        PROVE  BaseInv'
    BY <1>11, <2>1, <2>3 DEF MainPush, Waiting
  <2> QED
    BY <1>11, <2>2, <2>3 DEF MainPush
<1>12. CASE Signal
  BY <1>12 DEF Signal, HandlerPC
<1>13. CASE DestroyLock
  BY <1>13 DEF DestroyLock
<1>14. CASE DestroyStop
  BY <1>14 DEF DestroyStop, Waiting
<1>15. CASE DestroyJoin
  BY <1>15 DEF DestroyJoin
<1>16. ASSUME NEW t \in Threads, SpuriousWakeup(t) PROVE BaseInv'
  BY <1>16 DEF SpuriousWakeup
<1>17. CASE UNCHANGED vars
  BY <1>17 DEF vars
<1> QED
  BY <1>1, <1>2, <1>3, <1>4, <1>5, <1>6, <1>7, <1>8, <1>9, <1>10, <1>11,
     <1>12, <1>13, <1>14, <1>15, <1>16, <1>17
     DEF Next, WorkerStep, AddStep, DestroyStep

-----------------------------------------------------------------------------
(* No lost wake-up *)

\* The sets of sleeping and of contending workers are finite.
LEMMA WorkerSets ==
    ASSUME NEW S \in SUBSET Workers, NEW T \in SUBSET Workers
    PROVE  /\ IsFiniteSet(S)
           /\ Cardinality(S) \in Nat
           /\ S \subseteq T => Cardinality(S) <= Cardinality(T)
<1>1. IsFiniteSet(Workers)
  BY NumThreadsAssumption, FS_Interval
<1>2. IsFiniteSet(S) /\ IsFiniteSet(T)
  BY <1>1, FS_Subset
<1>3. Cardinality(S) \in Nat
  BY <1>2, FS_CardinalityType
<1>4. S \subseteq T => Cardinality(S) <= Cardinality(T)
  BY <1>2, FS_Subset
<1> QED
  BY <1>2, <1>3, <1>4

\* A step that touches neither the stack nor the flag, puts no worker to
\* sleep and takes no worker away from the mutex loses no wake-up.
LEMMA NothingLost ==
    ASSUME NoLostWakeup, tasks \in Seq(Conns),
           tasks' = tasks, running' = running,
           Waiting' \subseteq Waiting, Contending \subseteq Contending'
    PROVE  NoLostWakeup'
<1>1. /\ Cardinality(Contending) <= Cardinality(Contending')
      /\ Cardinality(Contending) \in Nat
      /\ Cardinality(Contending') \in Nat
  BY WorkerSets DEF Contending
<1> QED
  BY <1>1 DEF NoLostWakeup

\* No step loses a wake-up: a push wakes a sleeper or finds none, and a worker
\* that stops contending takes a task with it or finds the stack empty.
LEMMA WakeupStep == BaseInv /\ NoLostWakeup /\ [Next]_vars => NoLostWakeup'
<1> SUFFICES ASSUME BaseInv, NoLostWakeup, [Next]_vars PROVE NoLostWakeup'
  OBVIOUS
<1> USE NumThreadsAssumption DEF BaseInv, TypeOK
<1>1. ASSUME NEW w \in Workers, WorkerCheck(w) PROVE NoLostWakeup'
  <2>1. CASE running
    BY <1>1, <2>1, NothingLost DEF WorkerCheck, Waiting, Contending
  <2>2. CASE ~running
    BY <1>1, <2>2 DEF WorkerCheck, NoLostWakeup, Waiting
  <2> QED
    BY <2>1, <2>2
<1>2. ASSUME NEW w \in Workers, WorkerLock(w) PROVE NoLostWakeup'
  BY <1>2, NothingLost DEF WorkerLock, Waiting, Contending
<1>3. ASSUME NEW w \in Workers, WorkerSleep(w) PROVE NoLostWakeup'
  <2>1. Cardinality(Contending') \in Nat
    BY WorkerSets DEF Contending
  <2> QED
    BY <1>3, <2>1 DEF WorkerSleep, NoLostWakeup
<1>4. ASSUME NEW w \in Workers, WorkerQuit(w) PROVE NoLostWakeup'
  BY <1>4 DEF WorkerQuit, NoLostWakeup, Waiting
<1>5. ASSUME NEW w \in Workers, WorkerTake(w) PROVE NoLostWakeup'
  <2>1. /\ Len(tasks') = Len(tasks) - 1
        /\ Len(tasks) \in Nat
    BY <1>5, PopProperties DEF WorkerTake
  <2>2. \A v \in Workers : pc'[v] = IF v = w THEN "run" ELSE pc[v]
    BY <1>5 DEF WorkerTake
  <2>3. Waiting' = Waiting /\ Contending' = Contending \ {w} /\ w \in Contending
    BY <1>5, <2>2 DEF WorkerTake, Waiting, Contending
  <2>4. /\ Cardinality(Contending') = Cardinality(Contending) - 1
        /\ Cardinality(Contending) \in Nat
    <3>1. IsFiniteSet(Contending) /\ Cardinality(Contending) \in Nat
      BY WorkerSets DEF Contending
    <3> QED
      BY <2>3, <3>1, FS_RemoveElement
  <2> QED
    BY <1>5, <2>1, <2>3, <2>4 DEF WorkerTake, NoLostWakeup
<1>6. ASSUME NEW w \in Workers, WorkerDone(w) PROVE NoLostWakeup'
  BY <1>6, NothingLost DEF WorkerDone, Waiting, Contending
<1>7. CASE MainAccept
  BY <1>7, NothingLost DEF MainAccept, Waiting, Contending
<1>8. CASE MainLock
  BY <1>8, NothingLost DEF MainLock, Waiting, Contending
<1>9. CASE MainCheckRunning
  BY <1>9, NothingLost DEF MainCheckRunning, Waiting, Contending
<1>10. CASE MainSleep
  BY <1>10, NothingLost DEF MainSleep, Waiting, Contending
<1>11. CASE MainPush
  <2>1. CASE Waiting = {} /\ pc' = [pc EXCEPT ![Main] = "accept"]
    BY <2>1 DEF NoLostWakeup, Waiting
  <2>2. ASSUME NEW w \in Waiting,
               pc' = [pc EXCEPT ![Main] = "accept", ![w] = "lock"]
        PROVE  NoLostWakeup'
    <3>1. /\ Len(tasks') = Len(tasks) + 1
          /\ Len(tasks) \in Nat
      BY <1>11 DEF MainPush
    <3>2. Contending' = Contending \cup {w} /\ w \notin Contending
      BY <2>2 DEF Waiting, Contending
    <3>3. /\ Cardinality(Contending') = Cardinality(Contending) + 1
          /\ Cardinality(Contending) \in Nat
      BY <3>2, WorkerSets, FS_AddElement DEF Contending
    <3> QED
      BY <1>11, <2>2, <3>1, <3>3 DEF MainPush, NoLostWakeup
  <2> QED
    BY <1>11, <2>1, <2>2 DEF MainPush
<1>12. CASE Signal
  BY <1>12, NothingLost DEF Signal, Waiting, Contending
<1>13. CASE DestroyLock
  BY <1>13, NothingLost DEF DestroyLock, Waiting, Contending
<1>14. CASE DestroyStop
  BY <1>14 DEF DestroyStop, Waiting, NoLostWakeup
<1>15. CASE DestroyJoin
  BY <1>15, NothingLost DEF DestroyJoin, Waiting, Contending
<1>16. ASSUME NEW t \in Threads, SpuriousWakeup(t) PROVE NoLostWakeup'
  BY <1>16, NothingLost DEF SpuriousWakeup, Waiting, Contending
<1>17. CASE UNCHANGED vars
  BY <1>17, NothingLost DEF vars, Waiting, Contending
<1> QED
  BY <1>1, <1>2, <1>3, <1>4, <1>5, <1>6, <1>7, <1>8, <1>9, <1>10, <1>11,
     <1>12, <1>13, <1>14, <1>15, <1>16, <1>17
     DEF Next, WorkerStep, AddStep, DestroyStep

-----------------------------------------------------------------------------
(* The accept loop's wait *)

\* The accept loop falls asleep on a full stack, and whoever frees a slot wakes it.
LEMMA FullStep ==
    BaseInv /\ SleepsOnlyWhenFull /\ [Next]_vars => SleepsOnlyWhenFull'
<1> SUFFICES ASSUME BaseInv, SleepsOnlyWhenFull, [Next]_vars
             PROVE  SleepsOnlyWhenFull'
  OBVIOUS
<1> USE NumThreadsAssumption DEF BaseInv, TypeOK, SleepsOnlyWhenFull
<1>1. ASSUME NEW w \in Workers,
             WorkerCheck(w) \/ WorkerLock(w) \/ WorkerSleep(w) \/ WorkerQuit(w)
               \/ WorkerDone(w)
      PROVE  SleepsOnlyWhenFull'
  BY <1>1 DEF WorkerCheck, WorkerLock, WorkerSleep, WorkerQuit, WorkerDone
<1>2. ASSUME NEW w \in Workers, WorkerTake(w) PROVE SleepsOnlyWhenFull'
  <2>1. pc'[Main] # "wait"
    BY <1>2 DEF WorkerTake
  <2> QED
    BY <2>1
<1>3. CASE MainAccept \/ MainLock \/ MainCheckRunning
  BY <1>3 DEF MainAccept, MainLock, MainCheckRunning
<1>4. CASE MainSleep
  BY <1>4 DEF MainSleep
<1>5. CASE MainPush
  <2>1. pc'[Main] # "wait"
    BY <1>5 DEF MainPush, Waiting
  <2> QED
    BY <2>1
<1>6. CASE Signal \/ DestroyStep
  BY <1>6 DEF Signal, DestroyStep, DestroyLock, DestroyStop, DestroyJoin
<1>7. ASSUME NEW t \in Threads, SpuriousWakeup(t) PROVE SleepsOnlyWhenFull'
  BY <1>7 DEF SpuriousWakeup
<1>8. CASE UNCHANGED vars
  BY <1>8 DEF vars
<1> QED
  BY <1>1, <1>2, <1>3, <1>4, <1>5, <1>6, <1>7, <1>8
     DEF Next, WorkerStep, AddStep

-----------------------------------------------------------------------------
(* One owner per connection *)

\* A connection changes hands and is never copied.
LEMMA OwnerStep == BaseInv /\ OneOwner /\ [Next]_vars => OneOwner'
<1> SUFFICES ASSUME BaseInv, OneOwner, [Next]_vars PROVE OneOwner'
  OBVIOUS
<1> USE NumThreadsAssumption, NoConnAssumption DEF BaseInv, TypeOK
\* Steps that move no connection.
<1>1. ASSUME UNCHANGED <<tasks, arg>> PROVE OneOwner'
  BY <1>1 DEF OneOwner
\* Steps that drop one.
<1>2. ASSUME NEW t \in Threads, UNCHANGED tasks,
             arg' = [arg EXCEPT ![t] = NoConn]
      PROVE  OneOwner'
  BY <1>2 DEF OneOwner
<1>3. ASSUME NEW w \in Workers, WorkerTake(w) PROVE OneOwner'
  <2>1. /\ Len(tasks) \in Nat \ {0}
        /\ tasks[Len(tasks)] \in Conns
        /\ Len(tasks') = Len(tasks) - 1
        /\ \A i \in 1..Len(tasks') : tasks'[i] = tasks[i]
    BY <1>3, PopProperties DEF WorkerTake
  <2>2. arg' = [arg EXCEPT ![w] = tasks[Len(tasks)]]
    BY <1>3 DEF WorkerTake
  <2>3. \A i, j \in 1..Len(tasks') : tasks'[i] = tasks'[j] => i = j
    BY <2>1 DEF OneOwner
  <2>4. \A t \in Threads, i \in 1..Len(tasks') : arg'[t] # tasks'[i]
    BY <2>1, <2>2 DEF OneOwner
  <2>5. \A t, u \in Threads : arg'[t] = arg'[u] /\ arg'[t] # NoConn => t = u
    BY <2>1, <2>2 DEF OneOwner
  <2> QED
    BY <2>3, <2>4, <2>5 DEF OneOwner
<1>4. CASE MainAccept
  <2>1. PICK c \in Conns : ~InUse(c) /\ arg' = [arg EXCEPT ![Main] = c]
    BY <1>4 DEF MainAccept
  <2> QED
    BY <1>4, <2>1 DEF MainAccept, InUse, OneOwner
<1>5. CASE MainPush
  <2>1. arg[Main] \in Conns
    BY <1>5 DEF MainPush, HandsOK
  <2>2. /\ Len(tasks) \in Nat
        /\ Len(tasks') = Len(tasks) + 1
        /\ \A i \in 1..Len(tasks) : tasks'[i] = tasks[i]
        /\ tasks'[Len(tasks) + 1] = arg[Main]
    BY <1>5, <2>1, PushProperties DEF MainPush
  <2>3. arg' = [arg EXCEPT ![Main] = NoConn]
    BY <1>5 DEF MainPush
  <2>4. \A i \in 1..Len(tasks') : i \in 1..Len(tasks) \/ i = Len(tasks) + 1
    BY <2>2
  <2>5. \A i, j \in 1..Len(tasks') : tasks'[i] = tasks'[j] => i = j
    BY <2>2, <2>4 DEF OneOwner
  <2>6. \A i \in 1..Len(tasks') : tasks'[i] \in Conns
    BY <2>1, <2>2, <2>4
  <2>7. \A t \in Threads, i \in 1..Len(tasks') : arg'[t] # tasks'[i]
    BY <2>1, <2>2, <2>3, <2>4, <2>6 DEF OneOwner
  <2>8. \A t, u \in Threads : arg'[t] = arg'[u] /\ arg'[t] # NoConn => t = u
    BY <2>3 DEF OneOwner
  <2> QED
    BY <2>5, <2>7, <2>8 DEF OneOwner
<1>6. ASSUME NEW w \in Workers, WorkerDone(w) PROVE OneOwner'
  <2>1. w \in Threads
    OBVIOUS
  <2> QED
    BY <1>2, <1>6, <2>1 DEF WorkerDone
<1>7. CASE MainCheckRunning
  BY <1>1, <1>2, <1>7 DEF MainCheckRunning
<1>8. ASSUME NEW w \in Workers,
             WorkerCheck(w) \/ WorkerLock(w) \/ WorkerSleep(w) \/ WorkerQuit(w)
      PROVE  OneOwner'
  BY <1>1, <1>8 DEF WorkerCheck, WorkerLock, WorkerSleep, WorkerQuit
<1>9. CASE MainLock \/ MainSleep \/ Signal \/ DestroyStep
  BY <1>1, <1>9 DEF MainLock, MainSleep, Signal, DestroyStep,
                    DestroyLock, DestroyStop, DestroyJoin
<1>10. ASSUME NEW t \in Threads, SpuriousWakeup(t) PROVE OneOwner'
  BY <1>1, <1>10 DEF SpuriousWakeup
<1>11. CASE UNCHANGED vars
  BY <1>1, <1>11 DEF vars
<1> QED
  BY <1>3, <1>4, <1>5, <1>6, <1>7, <1>8, <1>9, <1>10, <1>11
     DEF Next, WorkerStep, AddStep

-----------------------------------------------------------------------------
(* The theorems *)

\* A new pool satisfies the whole invariant.
LEMMA InvariantInit == Init => IInv
<1> SUFFICES ASSUME Init PROVE IInv
  OBVIOUS
<1>1. BaseInv
  BY BaseInit
<1>2. NoLostWakeup
  BY DEF Init, NoLostWakeup, Waiting
<1>3. SleepsOnlyWhenFull
  BY NumThreadsAssumption DEF Init, SleepsOnlyWhenFull
<1>4. OneOwner
  BY DEF Init, OneOwner
<1> QED
  BY <1>1, <1>2, <1>3, <1>4 DEF IInv

\* The inductive invariant holds in every reachable state of the pool.
THEOREM Invariance == Spec => []IInv
<1>1. IInv /\ [Next]_vars => IInv'
  BY BaseStep, WakeupStep, FullStep, OwnerStep DEF IInv
<1> QED
  BY <1>1, InvariantInit, PTL DEF Spec

\* tasks[] never overflows and every variable keeps its type.
THEOREM TypeCorrect == Spec => []TypeOK
<1>1. IInv => TypeOK
  BY DEF IInv, BaseInv
<1> QED
  BY <1>1, Invariance, PTL

\* threadPoolAdd's single signal and threadPoolDestroy's broadcast wake
\* enough workers, for any number of them.
THEOREM WakeupsKept == Spec => []NoLostWakeup
<1>1. IInv => NoLostWakeup
  BY DEF IInv
<1> QED
  BY <1>1, Invariance, PTL

\* The accept loop never sleeps beside a free slot.
THEOREM AcceptSleepsOnlyWhenFull == Spec => []SleepsOnlyWhenFull
<1>1. IInv => SleepsOnlyWhenFull
  BY DEF IInv
<1> QED
  BY <1>1, Invariance, PTL

\* A connection is never with two threads, or queued and with a thread.
THEOREM SingleOwnership == Spec => []OneOwner
<1>1. IInv => OneOwner
  BY DEF IInv
<1> QED
  BY <1>1, Invariance, PTL

-----------------------------------------------------------------------------
(* Refinement *)

\* Every step is a step of TaskPool or leaves stack, workers' hands and the flag
\* alone.
LEMMA PoolStep == BaseInv /\ [Next]_vars => [Pool!PoolNext]_(Pool!poolVars)
<1> SUFFICES ASSUME BaseInv, [Next]_vars
             PROVE  Pool!PoolNext \/ UNCHANGED Pool!poolVars
  OBVIOUS
<1> USE NumThreadsAssumption, NoConnAssumption DEF BaseInv, TypeOK, HandsOK
<1> DEFINE held == [w \in Workers |-> arg[w]]
\* Steps that touch neither the stack, nor a worker's hand, nor the flag.
<1>1. ASSUME UNCHANGED <<tasks, running>>, \A w \in Workers : arg'[w] = arg[w]
      PROVE  UNCHANGED Pool!poolVars
  BY <1>1 DEF Pool!poolVars
<1>2. ASSUME NEW w \in Workers, WorkerTake(w) PROVE Pool!Start(w)
  <2>1. arg[w] = NoConn
    BY <1>2 DEF WorkerTake
  <2>2. held' = [held EXCEPT ![w] = tasks[Len(tasks)]]
    <3>1. arg' = [arg EXCEPT ![w] = tasks[Len(tasks)]]
      BY <1>2 DEF WorkerTake
    <3>2. \A v \in Workers : arg'[v] = IF v = w THEN tasks[Len(tasks)] ELSE arg[v]
      BY <3>1
    <3> QED
      BY <3>2
  <2> QED
    BY <1>2, <2>1, <2>2 DEF WorkerTake, Pool!Start
<1>3. ASSUME NEW w \in Workers, WorkerDone(w) PROVE Pool!Finish(w)
  <2>1. arg[w] # NoConn
    BY <1>3 DEF WorkerDone
  <2>2. held' = [held EXCEPT ![w] = NoConn]
    <3>1. arg' = [arg EXCEPT ![w] = NoConn]
      BY <1>3 DEF WorkerDone
    <3>2. \A v \in Workers : arg'[v] = IF v = w THEN NoConn ELSE arg[v]
      BY <3>1
    <3> QED
      BY <3>2
  <2> QED
    BY <1>3, <2>1, <2>2 DEF WorkerDone, Pool!Finish
<1>4. CASE MainPush
  <2>1. arg[Main] \in Conns /\ running /\ Len(tasks) < task_capacity
    BY <1>4 DEF MainPush, RunningOK
  <2>2. held' = held
    BY <1>4 DEF MainPush
  <2>3. Pool!Submit(arg[Main])
    BY <1>4, <2>1, <2>2 DEF MainPush, Pool!Submit
  <2> QED
    BY <2>1, <2>3 DEF Pool!PoolNext
<1>5. CASE DestroyStop
  <2>1. running
    BY <1>5 DEF DestroyStop, RunningOK
  <2>2. held' = held
    BY <1>5 DEF DestroyStop
  <2>3. Pool!Stop
    BY <1>5, <2>1, <2>2 DEF DestroyStop, Pool!Stop
  <2> QED
    BY <2>3 DEF Pool!PoolNext
<1>6. ASSUME NEW w \in Workers,
             WorkerCheck(w) \/ WorkerLock(w) \/ WorkerSleep(w) \/ WorkerQuit(w)
      PROVE  UNCHANGED Pool!poolVars
  BY <1>1, <1>6 DEF WorkerCheck, WorkerLock, WorkerSleep, WorkerQuit
<1>7. CASE MainAccept \/ MainCheckRunning
  BY <1>1, <1>7 DEF MainAccept, MainCheckRunning
<1>8. CASE MainLock \/ MainSleep \/ Signal \/ DestroyLock \/ DestroyJoin
  BY <1>1, <1>8 DEF MainLock, MainSleep, Signal, DestroyLock, DestroyJoin
<1>9. ASSUME NEW t \in Threads, SpuriousWakeup(t) PROVE UNCHANGED Pool!poolVars
  BY <1>1, <1>9 DEF SpuriousWakeup
<1>10. CASE UNCHANGED vars
  BY <1>1, <1>10 DEF vars
<1> QED
  BY <1>2, <1>3, <1>4, <1>5, <1>6, <1>7, <1>8, <1>9, <1>10
     DEF Next, WorkerStep, AddStep, DestroyStep, Pool!PoolNext

\* thread_pool.c implements the plain bounded stack of module TaskPool.
THEOREM Refinement == Spec => ImplementsTaskPool
<1>1. Init => Pool!PoolInit
  BY NumThreadsAssumption DEF Init, Pool!PoolInit
<1>2. IInv => BaseInv
  BY DEF IInv
<1> QED
  BY <1>1, <1>2, Invariance, PoolStep, PTL
     DEF Spec, ImplementsTaskPool, Pool!PoolSpec

=============================================================================
