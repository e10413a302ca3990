----------------------------- MODULE ThreadPool -----------------------------
(***************************************************************************)
(* app/thread_pool.c and the accept loop and signal handler of app/main.c  *)
(* that drive it.                                                          *)
(*                                                                         *)
(* Thread 0 is the main thread: it accepts a connection, hands it to       *)
(* threadPoolAdd and goes back to accepting.  Threads 1..NumThreads run    *)
(* worker().  The pool is one mutex, two condition variables, a stack of   *)
(* tasks and the flag running.  The first SIGINT or SIGTERM interrupts the *)
(* main thread (to which Linux hands a signal sent to the process) at ANY  *)
(* of its points, also inside threadPoolAdd, and runs threadPoolDestroy    *)
(* there; the handler ends in exit(0) and never returns.                   *)
(*                                                                         *)
(* A thread is in a condition variable's wait set exactly when its pc is   *)
(* "wait": workers wait for not_empty, the main thread for not_full.       *)
(* Between the lock and the unlock of a critical section the code touches  *)
(* only state the mutex protects, so a section is two steps: taking the    *)
(* mutex, and the body with its unlock (or its cond_wait).                 *)
(***************************************************************************)
EXTENDS Integers, Sequences, FiniteSets

CONSTANTS NumThreads,  \* createThreadPool's argument (8 in main.c)
          Conns,       \* connections; a number is reused after its client left
          NoConn       \* "no connection"

ASSUME NumThreadsAssumption == NumThreads \in Nat \ {0}
ASSUME NoConnAssumption == NoConn \notin Conns

VARIABLES tasks,    \* pool->tasks[0 .. task_count-1]
          running,  \* pool->running
          lock,     \* owner of pool->lock, or Free
          pc,       \* where each thread is
          arg       \* the connection each thread has in hand

vars == <<tasks, running, lock, pc, arg>>

Main == 0
Workers == 1 .. NumThreads
Threads == 0 .. NumThreads
Free == -1

task_capacity == NumThreads * 2

WorkerPC == {"check", "lock", "test", "wait", "run", "done"}
MainPC == {"accept", "lock", "add", "full", "wait", "relock",
           "sig_lock", "sig_stop", "sig_join", "exited"}
HandlerPC == {"sig_lock", "sig_stop", "sig_join", "exited"}

Waiting == {w \in Workers : pc[w] = "wait"}

\* Once exit(0) has been called no thread takes another step.
Alive == pc[Main] # "exited"

Init ==
    /\ tasks = <<>>
    /\ running = TRUE
    /\ lock = Free
    /\ pc = [t \in Threads |-> IF t = Main THEN "accept" ELSE "check"]
    /\ arg = [t \in Threads |-> NoConn]

-----------------------------------------------------------------------------
(* worker() *)

\* while (pool->running): read without the mutex.
WorkerCheck(w) ==
    /\ Alive
    /\ pc[w] = "check"
    /\ pc' = [pc EXCEPT ![w] = IF running THEN "lock" ELSE "done"]
    /\ UNCHANGED <<tasks, running, lock, arg>>

\* pthread_mutex_lock, or the relock at the end of pthread_cond_wait.
WorkerLock(w) ==
    /\ Alive
    /\ pc[w] = "lock"
    /\ lock = Free
    /\ lock' = w
    /\ pc' = [pc EXCEPT ![w] = "test"]
    /\ UNCHANGED <<tasks, running, arg>>

\* Nothing to do: pthread_cond_wait(&not_empty) gives the mutex back.
WorkerSleep(w) ==
    /\ Alive
    /\ pc[w] = "test"
    /\ tasks = <<>> /\ running
    /\ lock' = Free
    /\ pc' = [pc EXCEPT ![w] = "wait"]
    /\ UNCHANGED <<tasks, running, arg>>

\* if (!pool->running) break.
WorkerQuit(w) ==
    /\ Alive
    /\ pc[w] = "test"
    /\ ~running
    /\ lock' = Free
    /\ pc' = [pc EXCEPT ![w] = "done"]
    /\ UNCHANGED <<tasks, running, arg>>

\* Mutant: the worker forgets to signal not_full.
WorkerTake_NoSignal(w) ==
    /\ Alive
    /\ pc[w] = "test"
    /\ tasks # <<>> /\ running
    /\ arg' = [arg EXCEPT ![w] = tasks[Len(tasks)]]
    /\ tasks' = SubSeq(tasks, 1, Len(tasks) - 1)
    /\ lock' = Free
    /\ pc' = [pc EXCEPT ![w] = "run"]
    /\ UNCHANGED running

\* Mutant: tasks[task_count - 1] is read and task_count not decremented.
WorkerTake_Peek(w) ==
    /\ Alive
    /\ pc[w] = "test"
    /\ tasks # <<>> /\ running
    /\ arg' = [arg EXCEPT ![w] = tasks[Len(tasks)]]
    /\ lock' = Free
    /\ pc' = [pc EXCEPT ![w] = "run",
                        ![Main] = IF @ = "wait" THEN "relock" ELSE @]
    /\ UNCHANGED <<tasks, running>>

\* Mutant: no test of running between the wait and the pop.
WorkerTake_IgnoresStop(w) ==
    /\ Alive
    /\ pc[w] = "test"
    /\ tasks # <<>>
    /\ arg' = [arg EXCEPT ![w] = tasks[Len(tasks)]]
    /\ tasks' = SubSeq(tasks, 1, Len(tasks) - 1)
    /\ lock' = Free
    /\ pc' = [pc EXCEPT ![w] = "run",
                        ![Main] = IF @ = "wait" THEN "relock" ELSE @]
    /\ UNCHANGED running

\* tasks[--task_count], signal(&not_full), unlock.
WorkerTake(w) ==
    /\ Alive
    /\ pc[w] = "test"
    /\ tasks # <<>> /\ running
    /\ arg' = [arg EXCEPT ![w] = tasks[Len(tasks)]]
    /\ tasks' = SubSeq(tasks, 1, Len(tasks) - 1)
    /\ lock' = Free
    /\ pc' = [pc EXCEPT ![w] = "run",
                        ![Main] = IF @ = "wait" THEN "relock" ELSE @]
    /\ UNCHANGED running

\* task.task(task.arg) returns: the client left, its descriptor is free again.
WorkerDone(w) ==
    /\ Alive
    /\ pc[w] = "run"
    /\ arg' = [arg EXCEPT ![w] = NoConn]
    /\ pc' = [pc EXCEPT ![w] = "check"]
    /\ UNCHANGED <<tasks, running, lock>>

-----------------------------------------------------------------------------
(* main()'s accept loop and threadPoolAdd() *)

InUse(c) == c \in {arg[t] : t \in Threads} \/ \E i \in 1..Len(tasks) : tasks[i] = c

\* acceptClient: the kernel gives a descriptor that is not open.
MainAccept ==
    /\ pc[Main] = "accept"
    /\ \E c \in Conns :
          /\ ~InUse(c)
          /\ arg' = [arg EXCEPT ![Main] = c]
    /\ pc' = [pc EXCEPT ![Main] = "lock"]
    /\ UNCHANGED <<tasks, running, lock>>

\* pthread_mutex_lock at the top, and the relock inside cond_wait(&not_full).
MainLock ==
    /\ pc[Main] \in {"lock", "relock"}
    /\ lock = Free
    /\ lock' = Main
    /\ pc' = [pc EXCEPT ![Main] = IF @ = "lock" THEN "add" ELSE "full"]
    /\ UNCHANGED <<tasks, running, arg>>

\* if (!pool->running) return -1: main closes the descriptor.  Tested once,
\* not again after the wait for a slot.
MainCheckRunning ==
    /\ pc[Main] = "add"
    /\ pc' = [pc EXCEPT ![Main] = IF running THEN "full" ELSE "accept"]
    /\ lock' = IF running THEN lock ELSE Free
    /\ arg' = IF running THEN arg ELSE [arg EXCEPT ![Main] = NoConn]
    /\ UNCHANGED <<tasks, running>>

\* while (task_count == task_capacity) cond_wait(&not_full).
MainSleep ==
    /\ pc[Main] = "full"
    /\ Len(tasks) = task_capacity
    /\ lock' = Free
    /\ pc' = [pc EXCEPT ![Main] = "wait"]
    /\ UNCHANGED <<tasks, running, arg>>

\* Mutant: threadPoolAdd does not signal not_empty.
MainPush_NoSignal ==
    /\ pc[Main] = "full"
    /\ Len(tasks) # task_capacity
    /\ tasks' = Append(tasks, arg[Main])
    /\ arg' = [arg EXCEPT ![Main] = NoConn]
    /\ lock' = Free
    /\ pc' = [pc EXCEPT ![Main] = "accept"]
    /\ UNCHANGED running

\* Mutant: the full stack is tested with "if", not again after the wake-up.
MainPush_NoRetest ==
    /\ pc[Main] = "full"
    /\ tasks' = Append(tasks, arg[Main])
    /\ arg' = [arg EXCEPT ![Main] = NoConn]
    /\ lock' = Free
    /\ pc' = [pc EXCEPT ![Main] = "accept"]
    /\ UNCHANGED running

\* tasks[task_count++] = task, signal(&not_empty), unlock, return 0.
MainPush ==
    /\ pc[Main] = "full"
    /\ Len(tasks) # task_capacity
    /\ tasks' = Append(tasks, arg[Main])
    /\ arg' = [arg EXCEPT ![Main] = NoConn]
    /\ lock' = Free
    /\ \/ /\ Waiting = {}
          /\ pc' = [pc EXCEPT ![Main] = "accept"]
       \/ \E w \in Waiting :
             pc' = [pc EXCEPT ![Main] = "accept", ![w] = "lock"]
    /\ UNCHANGED running

-----------------------------------------------------------------------------
(* signal_handler(), cleanup_resources() and threadPoolDestroy() *)

\* The signal interrupts the main thread wherever it is.
Signal ==
    /\ pc[Main] \notin HandlerPC
    /\ pc' = [pc EXCEPT ![Main] = "sig_lock"]
    /\ UNCHANGED <<tasks, running, lock, arg>>

\* pthread_mutex_lock in the handler.  The mutex is not recursive: if the
\* interrupted code holds it, this step never becomes possible.
DestroyLock ==
    /\ pc[Main] = "sig_lock"
    /\ lock = Free
    /\ lock' = Main
    /\ pc' = [pc EXCEPT ![Main] = "sig_stop"]
    /\ UNCHANGED <<tasks, running, arg>>

\* Mutant: the sleeping workers are not told.
DestroyStop_NoBroadcast ==
    /\ pc[Main] = "sig_stop"
    /\ running' = FALSE
    /\ lock' = Free
    /\ pc' = [pc EXCEPT ![Main] = "sig_join"]
    /\ UNCHANGED <<tasks, arg>>

\* running = 0, broadcast(&not_empty), unlock.
DestroyStop ==
    /\ pc[Main] = "sig_stop"
    /\ running' = FALSE
    /\ lock' = Free
    /\ pc' = [t \in Threads |-> CASE t = Main -> "sig_join"
                                  [] t \in Waiting -> "lock"
                                  [] OTHER -> pc[t]]
    /\ UNCHANGED <<tasks, arg>>

\* pthread_join on every worker, then the pool is freed, exit(0).
DestroyJoin ==
    /\ pc[Main] = "sig_join"
    /\ \A w \in Workers : pc[w] = "done"
    /\ pc' = [pc EXCEPT ![Main] = "exited"]
    /\ UNCHANGED <<tasks, running, lock, arg>>

-----------------------------------------------------------------------------

\* POSIX allows pthread_cond_wait to return without a signal.
SpuriousWakeup(t) ==
    /\ Alive
    /\ pc[t] = "wait"
    /\ pc' = [pc EXCEPT ![t] = IF t = Main THEN "relock" ELSE "lock"]
    /\ UNCHANGED <<tasks, running, lock, arg>>

WorkerStep(w) ==
    \/ WorkerCheck(w) \/ WorkerLock(w) \/ WorkerSleep(w)
    \/ WorkerQuit(w) \/ WorkerTake(w)

AddStep == MainLock \/ MainCheckRunning \/ MainSleep \/ MainPush
DestroyStep == DestroyLock \/ DestroyStop \/ DestroyJoin

Next ==
    \/ \E w \in Workers : WorkerStep(w) \/ WorkerDone(w)
    \/ MainAccept \/ AddStep
    \/ Signal \/ DestroyStep
    \/ \E t \in Threads : SpuriousWakeup(t)

Spec == Init /\ [][Next]_vars

\* A thread that can take its next step does so; one that waits for a mutex
\* that is released again and again gets it in the end (without this, endless
\* spurious wake-ups of others could starve it).  Nobody has to connect or to
\* leave, no handler has to return, and no signal has to come.
Fairness ==
    /\ \A w \in Workers : WF_vars(WorkerStep(w)) /\ SF_vars(WorkerLock(w))
    /\ WF_vars(AddStep) /\ SF_vars(MainLock)
    /\ WF_vars(DestroyStep) /\ SF_vars(DestroyLock)

FairSpec == Spec /\ Fairness

-----------------------------------------------------------------------------
(* Properties *)

\* Every variable has its type: a stack of connections that tasks[] can hold, a
\* mutex with at most one owner, a program point of its own code per thread.
TypeOK ==
    /\ tasks \in Seq(Conns) /\ Len(tasks) <= task_capacity
    /\ running \in BOOLEAN
    /\ lock \in Threads \cup {Free}
    /\ pc \in [Threads -> WorkerPC \cup MainPC]
    /\ pc[Main] \in MainPC
    /\ \A w \in Workers : pc[w] \in WorkerPC
    /\ arg \in [Threads -> Conns \cup {NoConn}]

\* Workers that are about to look at the stack.
Contending == {w \in Workers : pc[w] \in {"lock", "test"}}

\* No wake-up is lost: while a worker sleeps in cond_wait(&not_empty), every
\* queued connection has an awake worker on its way to the mutex to take it,
\* and nobody sleeps through threadPoolDestroy's broadcast.  This is what the
\* single pthread_cond_signal per threadPoolAdd has to achieve.
NoLostWakeup ==
    Waiting # {} => running /\ Len(tasks) <= Cardinality(Contending)

\* The accept loop sleeps in cond_wait(&not_full) only while the stack is
\* full: whoever frees a slot wakes it.
SleepsOnlyWhenFull ==
    pc[Main] = "wait" => Len(tasks) = task_capacity

\* A connection has one owner: it is in the main thread's hand, in one slot of
\* the stack or with one worker.  Two owners would read the same socket and
\* close the same descriptor twice.
OneOwner ==
    /\ \A i, j \in 1..Len(tasks) : tasks[i] = tasks[j] => i = j
    /\ \A t \in Threads, i \in 1..Len(tasks) : arg[t] # tasks[i]
    /\ \A t, u \in Threads : arg[t] = arg[u] /\ arg[t] # NoConn => t = u

\* The mutex, the two condition variables and the hand-over inside the signal
\* handler implement the plain bounded stack of module TaskPool.
Pool == INSTANCE TaskPool WITH
    Workers <- Workers, Conns <- Conns, NoConn <- NoConn,
    Capacity <- task_capacity,
    stack <- tasks, held <- [w \in Workers |-> arg[w]], open <- running

ImplementsTaskPool == Pool!PoolSpec

\* Every worker comes back from every client.  The code does not see to this:
\* handleClientData never tests running and serves a client until it leaves,
\* and XREAD BLOCK 0 or the scan of a damaged RDB file outlast even that.
HandlersReturn == \A w \in Workers : []<>(pc[w] # "run")

\* While clients leave and no command hangs, connections keep being served: the
\* stack empties again and again, or connections leave it again and again, or
\* a signal has come.
ServingNeverStops ==
    HandlersReturn =>
        \/ []<>(tasks = <<>> \/ pc[Main] \in HandlerPC)
        \/ []<><<Len(tasks') < Len(tasks)>>_vars

\* While clients leave and no command hangs, an accept loop that found the
\* stack full gets its slot and goes back to accepting, unless a signal ends
\* the process first.
AcceptResumes ==
    HandlersReturn =>
        (pc[Main] = "wait" ~> pc[Main] \in {"accept"} \cup HandlerPC)

\* Once running is 0, every worker that is not in a client's handler ends,
\* whether it sleeps, waits for the mutex or is just before a test of running,
\* whatever the others do.  If the clients that are being served leave and none
\* of their commands hangs, threadPoolDestroy returns and the process exits.
\* Two things make it wait for ever and are excluded: a worker that stays with
\* its client, which pthread_join waits for, and a signal that hit the main
\* thread while it held pool->lock itself.
ShutdownCompletes ==
    /\ \A w \in Workers : (~running /\ pc[w] # "run") ~> pc[w] = "done"
    /\ HandlersReturn =>
          ((pc[Main] = "sig_lock" /\ lock # Main) ~> pc[Main] = "exited")

=============================================================================
