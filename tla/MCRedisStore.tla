---------------------------- MODULE MCRedisStore ----------------------------
(***************************************************************************)
(* Two keys and a table of one bucket, which grows to two and to four: the *)
(* keys share a bucket until the second growth parts them.  Numbers have   *)
(* two bits, so INCR wraps around; a time to live of one millisecond runs  *)
(* out before the clock stops; an uninitialised expiry is zero or so small *)
(* that clearExpired finds it.  The clock starts high enough for every     *)
(* expiry that PX sets to lie above its value in seconds.                  *)
(***************************************************************************)
EXTENDS RedisStore, TLC

CONSTANTS k1, k2

MCKeys == {k1, k2}
MCHash == k1 :> 1 @@ k2 :> 3

=============================================================================
