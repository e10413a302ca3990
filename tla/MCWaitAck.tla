----------------------------- MODULE MCWaitAck ------------------------------
(***************************************************************************)
(* Two clients, two replicas, which register at any time, and two WAITs:   *)
(* they overlap or follow each other, with the answers to the first        *)
(* reaching the second in time, late or never.  CountMod = 8 is above the  *)
(* four answers that can come, and remaining_count wraps to 7 below        *)
(* zero.  MCWaitAckSignal.cfg: one client that asks for both replicas.     *)
(***************************************************************************)
EXTENDS WaitAck

=============================================================================
