------------------------------ MODULE MCStream ------------------------------
(***************************************************************************)
(* Numbers up to 4 printed in binary, so ids of up to seven characters of  *)
(* which five are kept: 3-4 (11-100) is stored as 3-2 (11-10), below a 3-3 *)
(* that went before.  Three entries are enough for an exhausted sequence   *)
(* number, for a cut id with entries on both sides of it, and for a        *)
(* follower that is several entries behind.                                *)
(***************************************************************************)
EXTENDS Stream

=============================================================================
