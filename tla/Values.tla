------------------------------- MODULE Values -------------------------------
(***************************************************************************)
(* The keys and the string values of the store.  A string that INCR can    *)
(* read is a signed 64-bit number.                                         *)
(***************************************************************************)
EXTENDS Integers

CONSTANTS Keys,
          Text,        \* a string that is not a number
          MaxInt       \* LLONG_MAX

ASSUME MaxIntAssumption == MaxInt \in Nat \ {0}
ASSUME TextAssumption == Text \notin Int

MinInt == -(MaxInt + 1)
Strings == (MinInt .. MaxInt) \cup {Text}

\* The number after n in a signed 64-bit integer.  Going past LLONG_MAX is
\* undefined in C; here numValue is only incremented and printed, for which the
\* build adds in a 64-bit register and wraps.
Succ64(n) == IF n = MaxInt THEN MinInt ELSE n + 1

=============================================================================
