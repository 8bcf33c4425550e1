---------------------------- MODULE MCBelongings ----------------------------
(* Small instances of Belongings for TLC. *)
EXTENDS Belongings, TLC

\* Ids, stored names, tags and requests are told apart by nothing but their identity.
Alike == Permutations(Requests) \cup Permutations(TodoIds) \cup Permutations(Files)
         \cup Permutations(TagNames)
=============================================================================
