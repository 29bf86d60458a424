--------------------------- MODULE MCDatabaseFactory ---------------------------
(* TLC instances of DatabaseFactory. *)
EXTENDS DatabaseFactory, TLC

CONSTANTS c1, c2, p1, p2

OneIsolate == c1 :> p1
TwoPaths == c1 :> p1 @@ c2 :> p2
=============================================================================
