----------------------------- MODULE StreamLog ------------------------------
(***************************************************************************)
(* What a stream promises its clients: a log of entries that only grows,   *)
(* in the order of their ids, of which every client that follows it gets a *)
(* piece without a gap.  There are no threads, pointers or wake-ups here:  *)
(* module XStream shows that XADD and XREAD implement this while one       *)
(* thread at a time adds entries.                                          *)
(***************************************************************************)
EXTENDS Integers, Sequences

CONSTANT Readers

VARIABLES log,       \* the entries that can be read: content and id
          returned,  \* those whose id XADD has returned
          sent       \* those sent to each client

logVars == <<log, returned, sent>>

LogInit == log = <<>> /\ returned = {} /\ sent = [r \in Readers |-> <<>>]

\* An entry can be read, behind all others.
Add(e) ==
    /\ \A k \in 1..Len(log) : log[k].id < e.id
    /\ log' = Append(log, e)
    /\ UNCHANGED <<returned, sent>>

\* Its id is returned: it can be read by then.
Acknowledge(k) ==
    /\ returned' = returned \cup {log[k]}
    /\ UNCHANGED <<log, sent>>

\* A client gets the entry behind the last one it got, the first time any.
Send(r, k) ==
    /\ sent[r] # <<>> => k > 1 /\ sent[r][Len(sent[r])] = log[k - 1]
    /\ sent' = [sent EXCEPT ![r] = Append(@, log[k])]
    /\ UNCHANGED <<log, returned>>

LogNext ==
    \/ \E k \in 1..Len(log') : Add(log'[k])
    \/ \E k \in 1..Len(log) : Acknowledge(k) \/ \E r \in Readers : Send(r, k)

LogSpec == LogInit /\ [][LogNext]_logVars

=============================================================================
