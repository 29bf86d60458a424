-------------------------- MODULE MCDarwinConnection --------------------------
(* DarwinConnection with interchangeable objects. *)
EXTENDS DarwinConnection, TLC

Symmetry ==
  Permutations(Queries) \cup Permutations(ResultSets) \cup Permutations(Statements)
=============================================================================
