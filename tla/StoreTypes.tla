----------------------------- MODULE StoreTypes -----------------------------
(***************************************************************************)
(* The expiry times and the clock that the key-value store and its         *)
(* abstract specification have in common.                                  *)
(***************************************************************************)
EXTENDS Values

CONSTANTS Ttls,        \* times to live that clients send with PX
          Garbage,     \* what an uninitialised expiry field may hold
          MsPerSec,    \* milliseconds in a second
          StartTime,   \* the clock when the server starts, in milliseconds
          EndTime,     \* bound: the clock when observation ends
          MaxStream    \* bound: entries per stream

ASSUME TtlsAssumption == Ttls \subseteq Nat \ {0}
ASSUME GarbageAssumption == Garbage \subseteq Nat
ASSUME TimeAssumption ==
    StartTime \in Nat /\ EndTime \in Nat /\ StartTime <= EndTime /\ MsPerSec \in Nat \ {0}
ASSUME MaxStreamAssumption == MaxStream \in Nat \ {0}

\* An expiry of zero means that there is none.
Times == {0} \cup Garbage \cup {t + d : t \in StartTime .. EndTime, d \in Ttls}

=============================================================================
