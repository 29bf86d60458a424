--------------------------- MODULE MCDarwinDatabase ---------------------------
(* DarwinDatabase with interchangeable isolates. *)
EXTENDS DarwinDatabase, TLC

Symmetry == Permutations(Clients)
=============================================================================
