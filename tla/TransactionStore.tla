--------------------------- MODULE TransactionStore ---------------------------
(***************************************************************************)
(* What one native database promises to the isolates that share it: a      *)
(* store with at most one transaction at a time.  What is written in it    *)
(* stays apart until its COMMIT makes all of it durable at once, or its    *)
(* ROLLBACK none of it; what is written outside of it is durable at once,  *)
(* and never while a transaction is active.                                *)
(*                                                                         *)
(* A write is represented by the id of the transaction it was made under.  *)
(***************************************************************************)
EXTENDS Integers

CONSTANTS Ids, NoTransaction

VARIABLES active, pending, durable

vars == <<active, pending, durable>>

Init == active = NoTransaction /\ pending = {} /\ durable = {}

Begin ==
  /\ active = NoTransaction
  /\ active' \in Ids /\ active' \notin durable
  /\ UNCHANGED <<pending, durable>>

WriteInTransaction ==
  /\ active # NoTransaction
  /\ pending' = {active}
  /\ UNCHANGED <<active, durable>>

WriteOutside ==
  /\ active = NoTransaction
  /\ durable' = durable \cup {NoTransaction}
  /\ UNCHANGED <<active, pending>>

Commit ==
  /\ active # NoTransaction
  /\ durable' = durable \cup pending
  /\ active' = NoTransaction /\ pending' = {}

Rollback ==
  /\ active # NoTransaction
  /\ active' = NoTransaction /\ pending' = {}
  /\ UNCHANGED durable

Next ==
  \/ Begin \/ WriteInTransaction \/ WriteOutside
  \/ Commit \/ Rollback

Spec == Init /\ [][Next]_vars
=============================================================================
