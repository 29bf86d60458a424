--------------------------- MODULE DarwinConnection ---------------------------
(***************************************************************************)
(* One SqfliteDarwinDatabase: the connection, its statements with their    *)
(* cache, and the result sets that read them (SqfliteDarwinDatabase.m,     *)
(* SqfliteDarwinResultSet.m).  It is used from one serial queue, so that   *)
(* each method is a step.  An object nobody refers to is deallocated at    *)
(* once; a result set is referred to until its user gives it up (Dealloc). *)
(* A call that fails to prepare or to bind a new statement leaves nothing  *)
(* behind, and is no step; one that fails to bind a statement that the     *)
(* cache or a result set holds finalizes it all the same.                  *)
(***************************************************************************)
EXTENDS Naturals, Functions

CONSTANTS
  Queries,            \* SQL texts
  ResultSets,         \* SqfliteDarwinResultSet objects
  Statements,         \* SqfliteDarwinStatement objects
  None,               \* nil
  MaxRows,            \* the most rows a statement returns
  Misuses             \* what callers do although the code goes wrong on it

(* "rebindCached": bindWithArray on a statement that is in the cache.      *)
(* "closeInTransaction": close inside of a transaction.                    *)
ASSUME ConnectionAssumption ==
  /\ None \notin Statements
  /\ MaxRows \in Nat \ {0}
  /\ Misuses \subseteq {"rebindCached", "closeInTransaction"}

VARIABLES
  handle,             \* _db: "nil", "open", or "failed" to open
  openTx,             \* SQLite is in a transaction
  isInTransaction,    \* _isInTransaction
  shouldCacheStatements,
  cachedStatements,   \* the statements cached for each query
  openResultSets,     \* _openResultSets
  pointer,            \* of a statement: "free" (no such object), "nil",
                      \* "live", or "finalized" behind its back
  inUse,              \* the statements flagged so
  position,           \* the rows a statement has returned
  statement,          \* of a result set, nil when it is closed
  shouldAutoClose,    \* the open result sets that close at their end
  referenced,         \* the result sets somebody refers to
  undefined           \* a finalized sqlite3_stmt has been used

connectionVars == <<handle, openTx, isInTransaction>>
cacheVars == <<shouldCacheStatements, cachedStatements>>
statementVars == <<pointer, inUse, position, undefined>>
resultSetVars == <<statement, shouldAutoClose, referenced, openResultSets>>
vars == <<connectionVars, cacheVars, statementVars, resultSetVars>>

Init ==
  /\ handle = "nil" /\ openTx = FALSE /\ isInTransaction = FALSE
  /\ shouldCacheStatements = FALSE
  /\ cachedStatements = [q \in Queries |-> {}]
  /\ pointer = [s \in Statements |-> "free"]
  /\ position = [s \in Statements |-> 0]
  /\ inUse = {} /\ undefined = FALSE
  /\ statement = [r \in ResultSets |-> None]
  /\ shouldAutoClose = {} /\ referenced = {} /\ openResultSets = {}

-----------------------------------------------------------------------------
(* Statements. *)

Cached == UNION Range(cachedStatements)
Read == Range(statement) \ {None}

(* A method leaves the pointers as p and has reset the statements in reset *)
(* and closed those that p makes nil.  Statements nobody retains are       *)
(* deallocated, which finalizes them.  Any of this is undefined for a      *)
(* finalized one.                                                          *)
Settle(p, reset) ==
  LET retained == Cached' \cup Read'
      gone == reset \cup (Statements \ retained)
  IN  /\ pointer' = [s \in Statements |-> IF s \in retained THEN p[s] ELSE "free"]
      /\ position' = [s \in Statements |-> IF s \in gone THEN 0 ELSE position[s]]
      /\ inUse' = {s \in inUse \ gone : p[s] # "nil"}
      /\ undefined' = (\/ undefined
                       \/ \E s \in Statements : /\ pointer[s] = "finalized"
                                                /\ s \in gone \/ p[s] = "nil")

(* Fault injected: the statement may be in use. *)
CachedStatementInAnyUse(q) == cachedStatements[q]

(* cachedStatementForQuery returns one of these, or nil. *)
CachedStatement(q) == cachedStatements[q] \ inUse

(* executeQuery steps a cached statement, or one it prepares and may cache. *)
StatementFor(q, s) ==
  /\ IF CachedStatement(q) # {} THEN s \in CachedStatement(q)
                                ELSE pointer[s] = "free"
  /\ cachedStatements' = IF shouldCacheStatements
                           THEN [cachedStatements EXCEPT ![q] = @ \cup {s}]
                           ELSE cachedStatements
  /\ undefined' = (undefined \/ pointer[s] = "finalized")
  /\ UNCHANGED shouldCacheStatements

ClosedCache ==
  [s \in Statements |-> IF s \in Cached THEN "nil" ELSE pointer[s]]

(* clearCachedStatements: also those in use. *)
ClearCachedStatements ==
  /\ cachedStatements' = [q \in Queries |-> {}]
  /\ UNCHANGED <<connectionVars, shouldCacheStatements, resultSetVars>>
  /\ Settle(ClosedCache, {})

(* setShouldCacheStatements: without a cache its statements are forgotten. *)
SetShouldCacheStatements ==
  /\ shouldCacheStatements' = ~shouldCacheStatements
  /\ cachedStatements' = [q \in Queries |-> {}]
  /\ UNCHANGED <<connectionVars, resultSetVars>>
  /\ Settle(pointer, {})

-----------------------------------------------------------------------------
(* The connection. *)

(* openWithFlags, after closing what an open that failed has left. *)
Open ==
  /\ handle # "open"
  /\ handle' \in {"open", "failed"}
  /\ UNCHANGED <<openTx, isInTransaction, cacheVars, statementVars, resultSetVars>>

(* close: the cached statements, then the open result sets; SQLite refuses *)
(* to close with statements left, which are then finalized by hand.        *)
Close ==
  /\ handle # "nil"
  /\ openTx => "closeInTransaction" \in Misuses
  /\ handle' = "nil" /\ openTx' = FALSE
  /\ cachedStatements' = [q \in Queries |-> {}]
  /\ statement' = [r \in ResultSets |-> IF r \in openResultSets THEN None
                                                                ELSE statement[r]]
  /\ shouldAutoClose' = shouldAutoClose \ openResultSets
  /\ openResultSets' = {}
  /\ UNCHANGED <<isInTransaction, shouldCacheStatements, referenced>>
  /\ Settle([s \in Statements |->
               IF s \in Read' \ Cached THEN "finalized" ELSE ClosedCache[s]],
            {statement[r] : r \in openResultSets})

(* executeQuery with a result set r, of which n rows have been read. *)
NewResultSet(r, q, n) ==
  /\ handle = "open"
  /\ r \notin referenced
  /\ \E s \in Statements :
       /\ StatementFor(q, s)
       /\ pointer' = [pointer EXCEPT ![s] = IF @ = "free" THEN "live" ELSE @]
       /\ position' = [position EXCEPT ![s] = n]
       /\ inUse' = inUse \cup {s}
       /\ statement' = [statement EXCEPT ![r] = s]
  /\ referenced' = referenced \cup {r}
  /\ openResultSets' = openResultSets \cup {r}
  /\ UNCHANGED connectionVars

ExecuteQuery(r, q) ==
  /\ NewResultSet(r, q, 0)
  /\ shouldAutoClose' = shouldAutoClose \cup {r}

Prepare(r, q) ==
  /\ NewResultSet(r, q, 0)
  /\ UNCHANGED shouldAutoClose

(* bindStatement fails: the sqlite3_stmt is finalized, its object, which   *)
(* has been reset, is not told.                                            *)
BindFailed(s) ==
  /\ UNCHANGED <<connectionVars, cacheVars, resultSetVars>>
  /\ Settle([pointer EXCEPT ![s] = "finalized"], {s})

(* executeQuery, for any of its callers, on a cached statement. *)
ExecuteQueryFails(q) ==
  /\ handle = "open"
  /\ \E s \in CachedStatement(q) : BindFailed(s)

(* A statement is executed with a result set that ends with the method: at *)
(* most the statement stays, in the cache.                                 *)
RunToEnd(q) ==
  /\ handle = "open"
  /\ \E s \in Statements :
       /\ StatementFor(q, s)
       /\ pointer' = IF shouldCacheStatements /\ pointer[s] = "free"
                       THEN [pointer EXCEPT ![s] = "live"] ELSE pointer
  /\ UNCHANGED <<position, inUse, resultSetVars>>

(* executeUpdate: a statement that returns a row, which counts as failure, *)
(* leaves its result set to the autorelease pool.                          *)
ExecuteUpdate(r, q) ==
  \/ RunToEnd(q) /\ UNCHANGED connectionVars
  \/ /\ NewResultSet(r, q, 1)
     /\ shouldAutoClose' = shouldAutoClose \cup {r}

(* intForQuery and so on: the first row, then close. *)
ValueForQuery(q) == RunToEnd(q) /\ UNCHANGED connectionVars

(* beginTransaction and its variants: the flag is set on success. *)
Begin(q) ==
  /\ RunToEnd(q)
  /\ ~openTx /\ openTx' = TRUE /\ isInTransaction' = TRUE
  /\ UNCHANGED handle

(* commit, rollback *)
EndTransaction(q) ==
  /\ RunToEnd(q)
  /\ openTx /\ openTx' = FALSE /\ isInTransaction' = FALSE
  /\ UNCHANGED handle

-----------------------------------------------------------------------------
(* Result sets. *)

(* Fault injected: the connection is not told, resultSetDidClose. *)
CloseStatementUntold(r) ==
  /\ statement' = [statement EXCEPT ![r] = None]
  /\ shouldAutoClose' = shouldAutoClose \ {r}
  /\ UNCHANGED <<openResultSets, connectionVars, cacheVars>>
  /\ Settle(pointer, {statement[r]} \ {None})

(* close: the statement is reset and given up. *)
CloseStatement(r) ==
  /\ statement' = [statement EXCEPT ![r] = None]
  /\ shouldAutoClose' = shouldAutoClose \ {r}
  /\ openResultSets' = openResultSets \ {r}
  /\ UNCHANGED <<connectionVars, cacheVars>>
  /\ Settle(pointer, {statement[r]} \ {None})

CloseResultSet(r) ==
  /\ statement[r] # None
  /\ CloseStatement(r)
  /\ UNCHANGED referenced

(* The last reference to a result set is given up. *)
Dealloc(r) ==
  /\ r \in referenced
  /\ referenced' = referenced \ {r}
  /\ CloseStatement(r)

(* sqlite3_step returns a row. *)
StepRow(r) ==
  /\ statement[r] # None
  /\ pointer[statement[r]] = "live" /\ position[statement[r]] < MaxRows
  /\ position' = [position EXCEPT ![statement[r]] = @ + 1]
  /\ UNCHANGED <<connectionVars, cacheVars, resultSetVars, pointer, inUse, undefined>>

(* Fault injected: every statement starts again after its end. *)
StepEndRestarts(r) ==
  /\ statement[r] # None
  /\ pointer[statement[r]] = "live"
  /\ position' = [position EXCEPT ![statement[r]] = 0]
  /\ UNCHANGED <<connectionVars, cacheVars, resultSetVars, pointer, inUse, undefined>>

(* sqlite3_step returns anything else: the end, an error, or misuse of a   *)
(* nil pointer; of a finalized one it is undefined.  A prepared statement  *)
(* starts again at the next step.                                          *)
StepEnd(r) ==
  /\ statement[r] # None
  /\ IF r \in shouldAutoClose
       THEN CloseStatement(r) /\ UNCHANGED referenced
       ELSE /\ pointer[statement[r]] # "nil"
            /\ position' = [position EXCEPT ![statement[r]] = 0]
            /\ undefined' = (undefined \/ pointer[statement[r]] = "finalized")
            /\ UNCHANGED <<connectionVars, cacheVars, resultSetVars,
                           pointer, inUse>>

(* bindWithArray: reset, which clears inUse, and bind. *)
Bind(r) ==
  /\ statement[r] # None /\ r \notin shouldAutoClose
  /\ statement[r] \in Cached => "rebindCached" \in Misuses
  /\ UNCHANGED <<connectionVars, cacheVars, resultSetVars>>
  /\ Settle(pointer, {statement[r]})

BindFails(r) ==
  /\ statement[r] # None /\ r \notin shouldAutoClose
  /\ statement[r] \in Cached => "rebindCached" \in Misuses
  /\ pointer[statement[r]] # "nil"
  /\ BindFailed(statement[r])

(* Fault injected: the statement of a cursor is no longer in use. *)
KeepCursorUnused(r) ==
  /\ r \in openResultSets /\ r \in shouldAutoClose
  /\ position[statement[r]] > 0
  /\ openResultSets' = openResultSets \ {r}
  /\ inUse' = inUse \ {statement[r]}
  /\ UNCHANGED <<connectionVars, cacheVars, pointer, position, undefined,
                 statement, shouldAutoClose, referenced>>

(* resultSetDidClose, called by the plugin on a result set that is not     *)
(* closed but kept as a cursor: it hasAnotherRow.                          *)
KeepCursor(r) ==
  /\ r \in openResultSets /\ r \in shouldAutoClose
  /\ position[statement[r]] > 0
  /\ openResultSets' = openResultSets \ {r}
  /\ UNCHANGED <<connectionVars, cacheVars, statementVars, statement,
                 shouldAutoClose, referenced>>

-----------------------------------------------------------------------------
Connection ==
  \/ Open \/ Close \/ ClearCachedStatements \/ SetShouldCacheStatements
  \/ \E q \in Queries : \/ ValueForQuery(q) \/ ExecuteQueryFails(q)
                       \/ Begin(q) \/ EndTransaction(q)

ResultSet(r) ==
  \/ \E q \in Queries :
       ExecuteQuery(r, q) \/ Prepare(r, q) \/ ExecuteUpdate(r, q)
  \/ StepRow(r) \/ StepEnd(r) \/ Bind(r) \/ BindFails(r) \/ KeepCursor(r)
  \/ CloseResultSet(r) \/ Dealloc(r)

(* What follows the use of a finalized sqlite3_stmt is anybody's guess.    *)
Next ==
  /\ ~undefined
  /\ Connection \/ \E r \in ResultSets : ResultSet(r)

Spec == Init /\ [][Next]_vars
-----------------------------------------------------------------------------
(* Types of the variables.  The pointers of openResultSets retain nothing: *)
(* each must be that of an object that exists and is open.                 *)
TypeOK ==
  /\ handle \in {"nil", "open", "failed"}
  /\ openTx \in BOOLEAN
  /\ isInTransaction \in BOOLEAN
  /\ shouldCacheStatements \in BOOLEAN
  /\ cachedStatements \in [Queries -> SUBSET Statements]
  /\ pointer \in [Statements -> {"free", "nil", "live", "finalized"}]
  /\ inUse \subseteq Statements
  /\ position \in [Statements -> 0..MaxRows]
  /\ statement \in [ResultSets -> Statements \cup {None}]
  /\ shouldAutoClose \subseteq ResultSets
  /\ openResultSets \subseteq {r \in referenced : statement[r] # None}
  /\ referenced \subseteq ResultSets
  /\ undefined \in BOOLEAN

(* Two result sets never read one statement, cached or not: a row that one *)
(* retrieves is not lost to the other.                                     *)
StatementsNotShared ==
  \A r1, r2 \in ResultSets :
    statement[r1] = statement[r2] /\ statement[r1] # None => r1 = r2

(* The sqlite3_stmt that a result set reads is finalized behind its back   *)
(* only if its own bind fails, or if the connection is closed while it is  *)
(* hidden as a cursor: never by a bind that fails for another query, never *)
(* by clearing the cache, nor by closing what the connection knows of.     *)
StatementsKept ==
  [][\A r \in ResultSets :
       /\ statement[r] # None /\ statement'[r] = statement[r]
       /\ pointer[statement[r]] = "live" /\ pointer'[statement[r]] = "finalized"
       => \/ BindFails(r)
          \/ handle' = "nil" /\ r \notin openResultSets]_vars

(* "the statement gets closed in rs's dealloc or [rs close]" (SqfliteDar-  *)
(* winDatabase.m:904), and close does "Close all open result sets"         *)
(* (SqfliteDarwinDatabase.h:815): no method steps, resets or finalizes an  *)
(* sqlite3_stmt that has been finalized.                                   *)
NoUseAfterFinalize == ~undefined

(* The connection keeps what its headers promise, until a finalized state- *)
(* ment is used.                                                           *)
Promise == INSTANCE DarwinResultSets WITH
  isOpen <- handle = "open",
  state <- [r \in ResultSets |-> IF r \notin referenced THEN "none"
                                 ELSE IF statement[r] = None THEN "closed"
                                                             ELSE "open"],
  row <- [r \in ResultSets |-> IF statement[r] = None THEN 0
                                                      ELSE position[statement[r]]],
  prepared <- {r \in ResultSets : statement[r] # None} \ shouldAutoClose,
  kept <- {r \in ResultSets : statement[r] # None} \ openResultSets

ImplementsResultSets == Promise!Spec
=============================================================================
