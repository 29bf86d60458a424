--------------------------- MODULE MCNativeDatabase ---------------------------
(* TLC instances of NativeDatabase. *)
EXTENDS NativeDatabase, TLC

ClientSymmetry == Permutations(Clients)
=============================================================================
