------------------------------ MODULE MCFiling ------------------------------
(* Small instances of Filing for TLC. *)
EXTENDS Filing, TLC

\* Ids, names and requests are told apart by nothing but their identity.
Alike == Permutations(Requests) \cup Permutations(ContextIds) \cup Permutations(ProjectIds)
         \cup Permutations(ItemIds) \cup Permutations(Names)
=============================================================================
