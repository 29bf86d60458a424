--------------------------- MODULE DarwinResultSets ---------------------------
(***************************************************************************)
(* What the headers SqfliteDarwinDatabase.h, SqfliteDarwinResultSet.h and  *)
(* SqfliteDarwinDatabaseAdditions.h declare of a connection: it is opened  *)
(* and closed, begins and ends transactions, and returns result sets, each *)
(* of which moves by itself through its rows until it is closed.  The      *)
(* plugin may keep one as a cursor, of which the connection then no longer *)
(* knows (resultSetDidClose, declared where the plugin uses it).           *)
(***************************************************************************)
EXTENDS Naturals

CONSTANTS
  ResultSets,         \* result set objects
  MaxRows             \* the most rows a statement returns

VARIABLES
  isOpen,
  isInTransaction,
  state,              \* of a result set: "none", "open" or "closed"
  row,                \* the rows next has retrieved since the last restart
  prepared,           \* the open result sets that come from prepare
  kept                \* those that are kept as cursors

results == <<state, row, prepared, kept>>
vars == <<isOpen, isInTransaction, results>>

(* The initializers return a database that is not open. *)
Init ==
  /\ isOpen = FALSE
  /\ isInTransaction = FALSE
  /\ state = [r \in ResultSets |-> "none"]
  /\ row = [r \in ResultSets |-> 0]
  /\ prepared = {} /\ kept = {}

(* open, openWithFlags: YES if successful, NO on error. *)
Open ==
  /\ isOpen' = TRUE
  /\ UNCHANGED <<isInTransaction, results>>

(* close: the open result sets are closed with the database, except those  *)
(* it does not know of.                                                    *)
Close ==
  /\ isOpen' = FALSE
  /\ isInTransaction' = FALSE
  /\ state' = [r \in ResultSets |->
                 IF state[r] = "open" /\ r \notin kept THEN "closed" ELSE state[r]]
  /\ row' = [r \in ResultSets |-> IF r \in kept THEN row[r] ELSE 0]
  /\ prepared' = {} /\ UNCHANGED kept

(* A new result set, after n rows. *)
New(r, n) ==
  /\ isOpen
  /\ state[r] = "none"
  /\ state' = [state EXCEPT ![r] = "open"]
  /\ row' = [row EXCEPT ![r] = n]
  /\ UNCHANGED <<isOpen, isInTransaction, kept>>

(* executeQuery: a result set, or nil upon failure. *)
ExecuteQuery(r) == New(r, 0) /\ UNCHANGED prepared

Prepare(r) == New(r, 0) /\ prepared' = prepared \cup {r}

(* executeUpdate: nothing is left but what it wrote, unless the statement  *)
(* returns a row; then its result set waits to be released.                *)
ExecuteUpdate(r) ==
  \/ isOpen /\ UNCHANGED vars
  \/ New(r, 1) /\ UNCHANGED prepared

(* intForQuery, stringForQuery, ...: the result set does not outlive them. *)
ValueForQuery == isOpen /\ UNCHANGED vars

(* A result set that is closed, or gone. *)
End(r, as) ==
  /\ state' = [state EXCEPT ![r] = as]
  /\ row' = [row EXCEPT ![r] = 0]
  /\ prepared' = prepared \ {r} /\ kept' = kept \ {r}
  /\ UNCHANGED <<isOpen, isInTransaction>>

(* next and step: a row; or the end, which closes a result set and         *)
(* restarts a prepared one.                                                *)
Step(r) ==
  /\ state[r] = "open"
  /\ \/ /\ row[r] < MaxRows
        /\ row' = [row EXCEPT ![r] = @ + 1]
        /\ UNCHANGED <<isOpen, isInTransaction, state, prepared, kept>>
     \/ r \notin prepared /\ End(r, "closed")
     \/ /\ r \in prepared
        /\ row' = [row EXCEPT ![r] = 0]
        /\ UNCHANGED <<isOpen, isInTransaction, state, prepared, kept>>

(* bindWithArray, bindWithDictionary: a prepared statement starts again. *)
Bind(r) ==
  /\ r \in prepared
  /\ row' = [row EXCEPT ![r] = 0]
  /\ UNCHANGED <<isOpen, isInTransaction, state, prepared, kept>>

(* The plugin keeps a result set that has another row, and tells the con-  *)
(* nection that it has closed.                                             *)
KeepCursor(r) ==
  /\ state[r] = "open" /\ row[r] > 0 /\ r \notin prepared
  /\ kept' = kept \cup {r}
  /\ UNCHANGED <<isOpen, isInTransaction, state, row, prepared>>

(* close of a result set. *)
CloseResultSet(r) == state[r] = "open" /\ End(r, "closed")

(* Its last reference is given up. *)
Dealloc(r) == state[r] # "none" /\ End(r, "none")

(* beginTransaction and its variants: YES on success. *)
Begin ==
  /\ isOpen /\ ~isInTransaction
  /\ isInTransaction' = TRUE
  /\ UNCHANGED <<isOpen, results>>

(* commit, rollback *)
EndTransaction ==
  /\ isInTransaction
  /\ isInTransaction' = FALSE
  /\ UNCHANGED <<isOpen, results>>

Next ==
  \/ Open \/ Close \/ Begin \/ EndTransaction \/ ValueForQuery
  \/ \E r \in ResultSets :
       \/ ExecuteQuery(r) \/ Prepare(r) \/ ExecuteUpdate(r)
       \/ Step(r) \/ Bind(r) \/ KeepCursor(r) \/ CloseResultSet(r) \/ Dealloc(r)

Spec == Init /\ [][Next]_vars
=============================================================================
