------------------------------ MODULE TaskPool ------------------------------
(***************************************************************************)
(* What the thread pool promises its caller: a bounded stack of client     *)
(* connections, each handed to exactly one worker, until the pool is       *)
(* closed.  There is no mutex, no condition variable and no waiting here:  *)
(* module ThreadPool shows that thread_pool.c implements this.             *)
(***************************************************************************)
EXTENDS Naturals, Sequences

CONSTANTS Workers,   \* the pool's threads
          Conns,     \* client connections
          NoConn,    \* "no connection"
          Capacity   \* how many connections may be queued

VARIABLES stack,     \* queued connections, the next one to serve last
          held,      \* the connection each worker is serving
          open       \* FALSE once the pool has been told to stop

poolVars == <<stack, held, open>>

PoolInit ==
    /\ stack = <<>>
    /\ held = [w \in Workers |-> NoConn]
    /\ open = TRUE

\* A connection is queued; only an open pool with a free slot takes it.
Submit(c) ==
    /\ open
    /\ Len(stack) < Capacity
    /\ stack' = Append(stack, c)
    /\ UNCHANGED <<held, open>>

\* A free worker of an open pool takes the newest queued connection.
Start(w) ==
    /\ open
    /\ stack # <<>>
    /\ held[w] = NoConn
    /\ held' = [held EXCEPT ![w] = stack[Len(stack)]]
    /\ stack' = SubSeq(stack, 1, Len(stack) - 1)
    /\ UNCHANGED open

\* The worker's client is gone.
Finish(w) ==
    /\ held[w] # NoConn
    /\ held' = [held EXCEPT ![w] = NoConn]
    /\ UNCHANGED <<stack, open>>

\* The pool is closed: what is queued stays queued, for good.
Stop ==
    /\ open
    /\ open' = FALSE
    /\ UNCHANGED <<stack, held>>

PoolNext ==
    \/ \E c \in Conns : Submit(c)
    \/ \E w \in Workers : Start(w) \/ Finish(w)
    \/ Stop

PoolSpec == PoolInit /\ [][PoolNext]_poolVars

=============================================================================
