---------------------------- MODULE MCReplication ----------------------------
(***************************************************************************)
(* Two instances in one run: one replica and two clients that write, with  *)
(* one fault of any kind, so that descriptor numbers are used again and    *)
(* two propagation loops meet the same lost replica; and two replicas with *)
(* one client and no fault, so that registrations overlap with each other  *)
(* and with a loop.                                                        *)
(***************************************************************************)
EXTENDS Replication

CONSTANTS r1, r2, w1, w2

MCCasts == {[peers |-> {r1, w1, w2}, writes |-> 2, faults |-> 1],
            [peers |-> {r1, r2, w1}, writes |-> 2, faults |-> 0]}

=============================================================================
