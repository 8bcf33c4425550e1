----------------------------- MODULE MCUserGuard -----------------------------
(* Small instances of UserGuard for TLC. *)
EXTENDS UserGuard

CONSTANTS r3, i1, i2, k1

\* Two requests on one instance and one on another.
MCInstanceOf == [r \in Requests |-> IF r = r3 THEN i2 ELSE i1]
\* Two user ids that truncate to the same int32.
MCSameKey == [a \in Accounts |-> k1]
=============================================================================
