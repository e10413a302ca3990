----------------------------- MODULE MCXStream ------------------------------
(***************************************************************************)
(* MCXStream.cfg: one writer and two readers, so that one broadcast has    *)
(* two sleepers to wake; three entries, so that a reader can fall behind   *)
(* by more than one reply.  MCXStreamRace.cfg: two writers at a time.      *)
(* MaxId = 1 makes the explicit id 1 valid at first and refused later.     *)
(***************************************************************************)
EXTENDS XStream

=============================================================================
