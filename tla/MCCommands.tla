----------------------------- MODULE MCCommands -----------------------------
(***************************************************************************)
(* Two clients and one key that the RDB file lacks.  c1 queues up to two   *)
(* commands, in one transaction or in two, c2 one, and both send any       *)
(* number of others; numbers have two bits, so that INCR wraps.            *)
(***************************************************************************)
EXTENDS Commands

CONSTANTS c1, c2

MCMaxQueued == [c \in {c1, c2} |-> IF c = c1 THEN 2 ELSE 1]

=============================================================================
