------------------------------ MODULE MCTickler ------------------------------
(* Small instances of Tickler for TLC. *)
EXTENDS Tickler, TLC

\* Rows and requests are told apart by nothing but their identity.
Alike == Permutations(Requests) \cup Permutations(TodoIds) \cup Permutations(PatternIds)
=============================================================================
