-------------------------- MODULE MCSqfliteDatabase --------------------------
(* TLC instances of SqfliteDatabase. *)
EXTENDS SqfliteDatabase

CONSTANTS c1, c2, c3, db1, db2, db3

(* One Database object, and one for each caller. *)
OneDatabase == [c \in Callers |-> db1]
OwnDatabase == [c \in Callers |-> CASE c = c1 -> db1
                                    [] c = c2 -> db2
                                    [] OTHER -> db3]
=============================================================================
