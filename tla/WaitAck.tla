------------------------------ MODULE WaitAck -------------------------------
(***************************************************************************)
(* WAIT and REPLCONF ACK of app/command.c: clients that run handleWait, the*)
(* replicas' connections on which acknowledgements arrive, and the one     *)
(* wait_state (counters, mutex, condition variable) that they all share.   *)
(*                                                                         *)
(* A GETACK and its ACK carry no number in the code; here they carry the   *)
(* number of the WAIT that asked, which no action looks at: it is what the *)
(* properties need to tell a late answer from a fresh one.  A client is in *)
(* the condition's wait set exactly when its pc is "wait".  A section that *)
(* the mutex protects is one step, except the nanosleep that handleWait    *)
(* does with the mutex held.                                               *)
(***************************************************************************)
EXTENDS Integers, Sequences, FiniteSets

CONSTANTS Clients,      \* threads whose client sends WAIT
          NumReplicas,  \* how many replicas there are to register
          Wanted,       \* values of numreplicas that clients send
          CountMod,     \* 2^64: the counters are size_t
          MaxWaits      \* bound: how many WAITs are sent in all

ASSUME NumReplicasAssumption == NumReplicas \in Nat
ASSUME CountAssumption == CountMod \in Nat \ {0} /\ Wanted \subseteq 0 .. (CountMod - 1)
ASSUME MaxWaitsAssumption == MaxWaits \in Nat
ASSUME FreeAssumption == "free" \notin Clients

VARIABLES remaining_count, acks_received,  \* wait_state
          lock,       \* owner of wait_state.mutex (ACK handlers hold it for one step)
          written,    \* repl_offset # 0
          replica_count,  \* replicas 1 .. replica_count are registered
          waits,      \* how many WAITs were sent so far
          pc, numreplicas, req, sent,      \* of a client
          getacks, acks,  \* per replica: requests and answers under way
          quiet,      \* no other WAIT, or trace of one, since the client's reset
          own         \* while quiet: replicas whose answer to the client was handled

stateVars == <<remaining_count, acks_received, lock>>
masterVars == <<written, replica_count>>
clientVars == <<numreplicas, req, sent>>
linkVars == <<getacks, acks, own>>
vars == <<stateVars, masterVars, waits, pc, clientVars, linkVars, quiet>>

Free == "free"
Replicas == 1 .. NumReplicas
Sleepers == {c \in Clients : pc[c] = "wait"}

Init ==
    /\ remaining_count = 0 /\ acks_received = 0 /\ lock = Free
    /\ written = FALSE /\ replica_count = 0 /\ waits = 0
    /\ pc = [c \in Clients |-> "idle"]
    /\ numreplicas = [c \in Clients |-> 0]
    /\ req = [c \in Clients |-> 0]
    /\ sent = [c \in Clients |-> 0]
    /\ getacks = [r \in Replicas |-> <<>>] /\ acks = [r \in Replicas |-> <<>>]
    /\ own = [c \in Clients |-> {}]
    /\ quiet = [c \in Clients |-> FALSE]

\* PSYNC: a replica is put at the end of the list, also while a WAIT walks it.
\* (No replica leaves it here: that is in module Replication.)
addReplica ==
    /\ replica_count < NumReplicas
    /\ replica_count' = replica_count + 1
    /\ UNCHANGED <<stateVars, written, waits, pc, clientVars, linkVars, quiet>>

\* propagateCommand adds what it wrote to a replica to repl_offset, which from
\* now on is not 0.
Propagate ==
    /\ ~written /\ replica_count > 0
    /\ written' = TRUE
    /\ UNCHANGED <<stateVars, replica_count, waits, pc, clientVars, linkVars, quiet>>

-----------------------------------------------------------------------------
(* handleWait *)

\* While repl_offset is 0 WAIT answers replica_count at once and leaves no
\* trace; afterwards it goes on to ask the replicas.
WaitStart(c) ==
    /\ pc[c] = "idle" /\ written
    /\ waits < MaxWaits
    /\ \E n \in Wanted : numreplicas' = [numreplicas EXCEPT ![c] = n]
    /\ waits' = waits + 1
    /\ req' = [req EXCEPT ![c] = waits']
    /\ quiet' = [d \in Clients |-> FALSE]
    /\ own' = [d \in Clients |-> {}]
    /\ pc' = [pc EXCEPT ![c] = "send"]
    /\ UNCHANGED <<stateVars, masterVars, sent, getacks, acks>>

\* The loop that writes GETACK to one replica after the other, unlocked; it
\* reads replica_count in every turn.
WaitSend(c) ==
    /\ pc[c] = "send" /\ sent[c] < replica_count
    /\ sent' = [sent EXCEPT ![c] = @ + 1]
    /\ getacks' = [getacks EXCEPT ![sent'[c]] = Append(@, req[c])]
    /\ UNCHANGED <<stateVars, masterVars, waits, pc, numreplicas, req, acks, own, quiet>>

\* The end of the list.
WaitSent(c) ==
    /\ pc[c] = "send" /\ sent[c] >= replica_count
    /\ pc' = [pc EXCEPT ![c] = "reset"]
    /\ UNCHANGED <<stateVars, masterVars, waits, clientVars, linkVars, quiet>>

\* Only requests of c are on the way, and no other client is in a WAIT.
Alone(c) ==
    /\ \A d \in Clients \ {c} : pc[d] = "idle"
    /\ \A r \in Replicas : \A i \in 1..Len(getacks[r]) : getacks[r][i] = req[c]
    /\ \A r \in Replicas : \A i \in 1..Len(acks[r]) : acks[r][i] = req[c]

\* Mutant: acks_received keeps the count of the WAIT before.
WaitReset_KeepCount(c) ==
    /\ pc[c] = "reset" /\ lock = Free
    /\ remaining_count' = numreplicas[c]
    /\ quiet' = [quiet EXCEPT ![c] = Alone(c)]
    /\ pc' = [pc EXCEPT ![c] = "wait"]
    /\ UNCHANGED <<acks_received, lock, masterVars, waits, clientVars, linkVars>>

\* Mutex, counters, deadline, pthread_cond_timedwait, which gives the mutex
\* back.
WaitReset(c) ==
    /\ pc[c] = "reset" /\ lock = Free
    /\ remaining_count' = numreplicas[c]
    /\ acks_received' = 0
    /\ quiet' = [quiet EXCEPT ![c] = Alone(c)]
    /\ pc' = [pc EXCEPT ![c] = "wait"]
    /\ UNCHANGED <<lock, masterVars, waits, clientVars, linkVars>>

\* ETIMEDOUT, or a wake-up without a signal: the code does not ask which.
WaitWakes(c) ==
    /\ pc[c] = "wait"
    /\ pc' = [pc EXCEPT ![c] = "relock"]
    /\ UNCHANGED <<stateVars, masterVars, waits, clientVars, linkVars, quiet>>

\* pthread_cond_timedwait takes the mutex again before it returns.
WaitRelock(c) ==
    /\ pc[c] = "relock" /\ lock = Free
    /\ lock' = c
    /\ pc' = [pc EXCEPT ![c] = "sleep"]
    /\ UNCHANGED <<remaining_count, acks_received, masterVars, waits, clientVars,
                   linkVars, quiet>>

\* The answer is sent; the call's variables are gone.
WaitOver(c) ==
    /\ pc' = [pc EXCEPT ![c] = "idle"]
    /\ numreplicas' = [numreplicas EXCEPT ![c] = 0]
    /\ req' = [req EXCEPT ![c] = 0]
    /\ sent' = [sent EXCEPT ![c] = 0]
    /\ own' = [own EXCEPT ![c] = {}]
    /\ quiet' = [quiet EXCEPT ![c] = FALSE]

\* Mutant: handleWait stays until it has got enough, with the mutex held.
WaitReturn_Enough(c) ==
    /\ pc[c] = "sleep"
    /\ acks_received >= numreplicas[c]
    /\ lock' = Free
    /\ WaitOver(c)
    /\ UNCHANGED <<remaining_count, acks_received, masterVars, waits, getacks, acks>>

\* Mutant: the return after the sleep leaves the mutex locked.
WaitReturn_NoUnlock(c) ==
    /\ pc[c] = "sleep"
    /\ WaitOver(c)
    /\ UNCHANGED <<stateVars, masterVars, waits, getacks, acks>>

\* The nanosleep over what is left of the timeout, with the mutex held, is over:
\* acks_received is the answer.
WaitReturn(c) ==
    /\ pc[c] = "sleep"
    /\ lock' = Free
    /\ WaitOver(c)
    /\ UNCHANGED <<remaining_count, acks_received, masterVars, waits, getacks, acks>>

-----------------------------------------------------------------------------
(* The replicas and handleReplConf *)

\* A replica reads a GETACK and answers it.  That is a replica of another make:
\* the one of this program throws the GETACK away with all other commands (run
\* replication_applied).
ReplicaAnswers(r) ==
    /\ getacks[r] # <<>>
    /\ getacks' = [getacks EXCEPT ![r] = Tail(@)]
    /\ acks' = [acks EXCEPT ![r] = Append(@, Head(getacks[r]))]
    /\ UNCHANGED <<stateVars, masterVars, waits, pc, clientVars, own, quiet>>

\* Mutant: remaining_count is counted down in a signed type.
HandleAck_Wider(r) ==
    /\ acks[r] # <<>> /\ lock = Free
    /\ acks_received' = acks_received + 1
    /\ remaining_count' = remaining_count - 1
    /\ acks' = [acks EXCEPT ![r] = Tail(@)]
    /\ UNCHANGED <<lock, masterVars, waits, pc, clientVars, getacks, own, quiet>>

\* REPLCONF ACK: one counter up, the other down, and a signal to one waiting
\* client if the first has reached the second.
HandleAck(r) ==
    /\ acks[r] # <<>> /\ lock = Free
    /\ acks_received' = (acks_received + 1) % CountMod
    /\ remaining_count' = (remaining_count - 1) % CountMod
    /\ LET signal == acks_received' >= remaining_count'
       IN  \/ /\ ~signal \/ Sleepers = {}
              /\ UNCHANGED pc
           \/ /\ signal
              /\ \E c \in Sleepers : pc' = [pc EXCEPT ![c] = "relock"]
    /\ own' = [c \in Clients |->
                IF quiet[c] /\ req[c] = Head(acks[r]) THEN own[c] \cup {r} ELSE own[c]]
    /\ acks' = [acks EXCEPT ![r] = Tail(@)]
    /\ UNCHANGED <<lock, masterVars, waits, clientVars, getacks, quiet>>

-----------------------------------------------------------------------------

WaitStep(c) ==
    \/ WaitSend(c) \/ WaitSent(c) \/ WaitReset(c)
    \/ WaitWakes(c) \/ WaitRelock(c) \/ WaitReturn(c)

Next ==
    \/ addReplica \/ Propagate
    \/ \E c \in Clients : WaitStart(c) \/ WaitStep(c)
    \/ \E r \in Replicas : ReplicaAnswers(r) \/ HandleAck(r)

Spec == Init /\ [][Next]_vars

\* A WAIT goes on, and its timeout ends both its wait and its sleep; an
\* acknowledgement that arrived is handled when the mutex is free.  Weak
\* fairness is enough, since each WAIT takes the mutex for its sleep only once.
\* No replica has to answer, and nobody has to send a WAIT.
FairSpec ==
    /\ Spec
    /\ \A c \in Clients : WF_vars(WaitStep(c))
    /\ \A r \in Replicas : WF_vars(HandleAck(r))

-----------------------------------------------------------------------------
(* Properties *)

\* Counters are size_t, the mutex has one owner, requests are numbered.
TypeOK ==
    /\ remaining_count \in 0 .. (CountMod - 1)
    /\ acks_received \in 0 .. (CountMod - 1)
    /\ lock \in Clients \cup {Free}
    /\ written \in BOOLEAN /\ replica_count \in 0 .. NumReplicas /\ waits \in 0 .. MaxWaits
    /\ pc \in [Clients -> {"idle", "send", "reset", "wait", "relock", "sleep"}]
    /\ numreplicas \in [Clients -> Wanted \cup {0}]
    /\ req \in [Clients -> 0 .. waits]
    /\ sent \in [Clients -> 0 .. NumReplicas]
    /\ getacks \in [Replicas -> Seq(1 .. waits)]
    /\ acks \in [Replicas -> Seq(1 .. waits)]
    /\ own \in [Clients -> SUBSET Replicas]
    /\ quiet \in [Clients -> BOOLEAN]

\* A WAIT that no other WAIT overlaps and that starts counting with no old
\* request under way never reports more than the replicas that answered it,
\* although the counters and the acknowledgements name no WAIT.  (A late
\* answer to an earlier WAIT does count otherwise.)
CountsOwnReplicas ==
    \A c \in Clients :
        quiet[c] => acks_received <= Cardinality(own[c])

\* Every WAIT is answered, whether or not the replicas answer, although each
\* one sleeps out its timeout with the mutex that the others need.
WaitReturns == \A c \in Clients : pc[c] = "send" ~> pc[c] = "idle"

\* Every acknowledgement that arrives is handled in the end, so that the
\* replica's connection goes on to its next command.
AcksHandled == \A r \in Replicas : []<>(acks[r] = <<>>)

\* The number of acknowledgements the last reset asked for.
Required == (acks_received + remaining_count) % CountMod

\* "Required ACKs received, signaling condition": the signal is sent when as
\* many acknowledgements have come as WAIT asked for.  The code compares the
\* counter that goes up with the one that goes down, so it is sent half way.
SignalMeansEnough ==
    [][\A c \in Clients :
          /\ acks_received' # acks_received
          /\ pc[c] = "wait" /\ pc'[c] = "relock"
          => acks_received' >= Required]_vars

=============================================================================
