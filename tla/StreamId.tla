------------------------------ MODULE StreamId ------------------------------
(***************************************************************************)
(* Stream ids of app/stream.c: how XADD's argument is parsed, completed,   *)
(* validated and printed, and how ids are compared.                        *)
(*                                                                         *)
(* An id is a pair of uint64_t.  IdMax stands for UINT64_MAX, Base for ten *)
(* and IdChars for the 31 characters that generateStreamID's buffer holds: *)
(* two 20-digit numbers and a dash need 41, so a long id is stored and     *)
(* returned without the last digits of its sequence number.                *)
(***************************************************************************)
EXTENDS Integers, Sequences

CONSTANTS IdMax,    \* UINT64_MAX
          Base,     \* of the printed numbers
          IdChars   \* how many characters of an id are kept

ASSUME IdMaxAssumption == IdMax \in Nat \ {0}
ASSUME BaseAssumption == Base \in Nat \ {0, 1}

UInt == 0 .. IdMax
StreamID == [ms : UInt, seq : UInt]

\* 0-0, the start of "-" and of a reader that has seen nothing.
ZeroID == [ms |-> 0, seq |-> 0]

\* compareStreamIDs(id1, id2) as -1, 0 or 1.
compareStreamIDs(id1, id2) ==
    IF id1.ms # id2.ms THEN IF id1.ms > id2.ms THEN 1 ELSE -1
    ELSE IF id1.seq # id2.seq THEN IF id1.seq > id2.seq THEN 1 ELSE -1
    ELSE 0

\* Mutant: the sequence number of the end is ignored.
isIdInRange_OpenEnd(id, start, end) ==
    /\ id.ms >= start.ms /\ id.ms <= end.ms
    /\ ~(id.ms = start.ms /\ id.seq < start.seq)

isIdInRange(id, start, end) ==
    /\ id.ms >= start.ms /\ id.ms <= end.ms
    /\ ~(id.ms = start.ms /\ id.seq < start.seq)
    /\ ~(id.ms = end.ms /\ id.seq > end.seq)

-----------------------------------------------------------------------------
(* Printing *)

\* The smallest number of n + 1 digits.
Power[n \in 0..(IdMax + 1)] == IF n = 0 THEN 1 ELSE Base * Power[n - 1]

\* How many characters "%lu" prints.
Digits(n) == CHOOSE d \in 1..(IdMax + 1) :
                /\ n < Power[d]
                /\ d = 1 \/ n >= Power[d - 1]

\* The milliseconds and the dash always fit (20 + 1 < 31).
ASSUME IdCharsAssumption == IdChars \in Nat /\ IdChars >= Digits(IdMax) + 2

\* snprintf(id, 32, "%lu-%lu", ms, seq), as read back by parseStreamID.
generateStreamID(id) ==
    LET room == IdChars - Digits(id.ms) - 1
        over == Digits(id.seq) - room
    IN  [id EXCEPT !.seq = IF over > 0 THEN @ \div Power[over] ELSE @]

-----------------------------------------------------------------------------
(* XADD's argument *)

\* "*", "<ms>-*", "<ms>-<seq>", and what parseStreamID rejects.
IdArg == [kind : {"*"}] \cup [kind : {"ms-*"}, ms : UInt]
           \cup [kind : {"explicit"}, id : StreamID]
           \cup [kind : {"malformed"}]

\* parseStreamID: both "*" forms are marked by the sequence number IdMax, and
\* so is an explicit one that is (or saturates to) UINT64_MAX.
parseStreamID(a, now) ==
    CASE a.kind = "*" -> [ms |-> now, seq |-> IdMax]
      [] a.kind = "ms-*" -> [ms |-> a.ms, seq |-> IdMax]
      [] a.kind = "explicit" -> a.id

=============================================================================
