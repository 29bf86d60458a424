------------------------ MODULE DarwinConnectionProofs ------------------------
(* Theorems about DarwinConnection, for any sets of queries, statements and *)
(* result sets; the last one that it implements what its headers declare,   *)
(* DarwinResultSets, as long as callers do not misuse it.                   *)
EXTENDS DarwinConnection, TLAPS

Pointers == {"free", "nil", "live", "finalized"}

(* Membership in the statements that are cached, and in those read. *)
LEMMA InCached ==
  ASSUME TypeOK
  PROVE  \A s : s \in Cached <=> \E q \in Queries : s \in cachedStatements[q]
BY DEF Cached, Range, TypeOK

LEMMA InRead ==
  ASSUME TypeOK
  PROVE  \A s : s \in Read <=> s # None /\ \E r \in ResultSets : statement[r] = s
BY DEF Read, Range, TypeOK

LEMMA StatementsOnly ==
  ASSUME TypeOK
  PROVE  Cached \subseteq Statements /\ Read \subseteq Statements
<1>1. Cached \subseteq Statements
  BY InCached DEF TypeOK
<1>2. Read \subseteq Statements
  BY InRead DEF TypeOK
<1>. QED
  BY <1>1, <1>2
-----------------------------------------------------------------------------
(* What a method leaves of the statements has its type. *)
LEMMA SettleTyped ==
  ASSUME TypeOK, NEW p \in [Statements -> Pointers], NEW reset, Settle(p, reset)
  PROVE  /\ pointer' \in [Statements -> Pointers]
         /\ position' \in [Statements -> 0..MaxRows]
         /\ inUse' \subseteq Statements
         /\ undefined' \in BOOLEAN
<1>1. 0 \in 0..MaxRows
  BY ConnectionAssumption
<1>. QED
  BY <1>1 DEF Settle, TypeOK, Pointers

LEMMA ClosedCacheTyped ==
  ASSUME TypeOK
  PROVE  ClosedCache \in [Statements -> Pointers]
BY DEF ClosedCache, TypeOK, Pointers

(* What executing a statement leaves of the cache. *)
LEMMA StatementForTyped ==
  ASSUME TypeOK, NEW q \in Queries, NEW s \in Statements, StatementFor(q, s)
  PROVE  /\ cachedStatements' \in [Queries -> SUBSET Statements]
         /\ undefined' \in BOOLEAN
         /\ shouldCacheStatements' = shouldCacheStatements
BY DEF StatementFor, TypeOK

LEMMA NewResultSetTyped ==
  ASSUME TypeOK, NEW r \in ResultSets, NEW q \in Queries, NEW n \in 0..MaxRows,
         NewResultSet(r, q, n), shouldAutoClose' \subseteq ResultSets
  PROVE  TypeOK'
<1>1. PICK s \in Statements :
        /\ StatementFor(q, s)
        /\ pointer' = [pointer EXCEPT ![s] = IF @ = "free" THEN "live" ELSE @]
        /\ position' = [position EXCEPT ![s] = n]
        /\ inUse' = inUse \cup {s}
        /\ statement' = [statement EXCEPT ![r] = s]
  BY DEF NewResultSet
<1>2. /\ cachedStatements' \in [Queries -> SUBSET Statements]
      /\ undefined' \in BOOLEAN /\ shouldCacheStatements' \in BOOLEAN
  BY <1>1, StatementForTyped DEF TypeOK
<1>3. pointer' \in [Statements -> {"free", "nil", "live", "finalized"}]
  BY <1>1 DEF TypeOK
<1>4. position' \in [Statements -> 0..MaxRows] /\ inUse' \subseteq Statements
  BY <1>1 DEF TypeOK
<1>5. statement' \in [ResultSets -> Statements \cup {None}]
  BY <1>1 DEF TypeOK
<1>6. openResultSets' \subseteq {x \in referenced' : statement'[x] # None}
  <2>1. statement'[r] = s /\ s # None
    BY <1>1, ConnectionAssumption DEF TypeOK
  <2>2. \A x \in openResultSets : x \in referenced /\ x # r /\ statement'[x] # None
    BY <1>1 DEF TypeOK, NewResultSet
  <2>. QED
    BY <2>1, <2>2 DEF NewResultSet
<1>7. /\ referenced' \subseteq ResultSets
      /\ UNCHANGED <<handle, openTx, isInTransaction>>
  BY DEF NewResultSet, TypeOK, connectionVars
<1>. QED
  BY <1>2, <1>3, <1>4, <1>5, <1>6, <1>7 DEF TypeOK

LEMMA RunToEndTyped ==
  ASSUME TypeOK, NEW q \in Queries, RunToEnd(q), UNCHANGED handle,
         openTx' \in BOOLEAN, isInTransaction' \in BOOLEAN
  PROVE  TypeOK'
<1>1. PICK s \in Statements :
        /\ StatementFor(q, s)
        /\ pointer' = IF shouldCacheStatements /\ pointer[s] = "free"
                        THEN [pointer EXCEPT ![s] = "live"] ELSE pointer
  BY DEF RunToEnd
<1>2. /\ cachedStatements' \in [Queries -> SUBSET Statements]
      /\ undefined' \in BOOLEAN /\ shouldCacheStatements' \in BOOLEAN
  BY <1>1, StatementForTyped DEF TypeOK
<1>3. pointer' \in [Statements -> {"free", "nil", "live", "finalized"}]
  BY <1>1 DEF TypeOK
<1>4. UNCHANGED <<position, inUse, statement, shouldAutoClose, referenced,
                  openResultSets>>
  BY DEF RunToEnd, resultSetVars
<1>. QED
  BY <1>2, <1>3, <1>4 DEF TypeOK

LEMMA CloseStatementTyped ==
  ASSUME TypeOK, NEW r \in ResultSets, CloseStatement(r),
         referenced' \in {referenced, referenced \ {r}}
  PROVE  TypeOK'
<1>1. /\ pointer' \in [Statements -> Pointers]
      /\ position' \in [Statements -> 0..MaxRows]
      /\ inUse' \subseteq Statements /\ undefined' \in BOOLEAN
  BY SettleTyped DEF CloseStatement, TypeOK, Pointers
<1>2. /\ statement' = [statement EXCEPT ![r] = None]
      /\ shouldAutoClose' = shouldAutoClose \ {r}
      /\ openResultSets' = openResultSets \ {r}
      /\ UNCHANGED <<handle, openTx, isInTransaction, shouldCacheStatements,
                     cachedStatements>>
  BY DEF CloseStatement, connectionVars, cacheVars
<1>3. openResultSets' \subseteq {x \in referenced' : statement'[x] # None}
  BY <1>2 DEF TypeOK
<1>4. /\ statement' \in [ResultSets -> Statements \cup {None}]
      /\ shouldAutoClose' \subseteq ResultSets /\ referenced' \subseteq ResultSets
  BY <1>2 DEF TypeOK
<1>. QED
  BY <1>1, <1>2, <1>3, <1>4 DEF TypeOK, Pointers

LEMMA BindFailedTyped ==
  ASSUME TypeOK, NEW s \in Statements, BindFailed(s)
  PROVE  TypeOK'
<1>. PICK p : p = [pointer EXCEPT ![s] = "finalized"]
  OBVIOUS
<1>1. p \in [Statements -> Pointers]
  BY DEF TypeOK, Pointers
<1>2. Settle(p, {s}) /\ UNCHANGED <<connectionVars, cacheVars, resultSetVars>>
  BY DEF BindFailed
<1>3. /\ pointer' \in [Statements -> Pointers]
      /\ position' \in [Statements -> 0..MaxRows]
      /\ inUse' \subseteq Statements /\ undefined' \in BOOLEAN
  BY <1>1, <1>2, SettleTyped
<1>. QED
  BY <1>2, <1>3 DEF TypeOK, Pointers, connectionVars, cacheVars, resultSetVars

(* Every step keeps the types. *)
LEMMA TypeStep == TypeOK /\ [Next]_vars => TypeOK'
<1>. SUFFICES ASSUME TypeOK, [Next]_vars PROVE TypeOK'
  OBVIOUS
<1>0. 0 \in 0..MaxRows /\ 1 \in 0..MaxRows /\ MaxRows \in Nat
  BY ConnectionAssumption
<1>1. CASE Open
  BY <1>1 DEF Open, TypeOK, cacheVars, statementVars, resultSetVars
<1>2. CASE Close
  <2>. DEFINE p == [s \in Statements |->
                      IF s \in Read' \ Cached THEN "finalized" ELSE ClosedCache[s]]
  <2>1. p \in [Statements -> Pointers]
    BY ClosedCacheTyped DEF Pointers
  <2>2. Settle(p, {statement[r] : r \in openResultSets})
    BY <1>2 DEF Close
  <2>. HIDE DEF p
  <2>3. /\ pointer' \in [Statements -> Pointers]
        /\ position' \in [Statements -> 0..MaxRows]
        /\ inUse' \subseteq Statements /\ undefined' \in BOOLEAN
    BY <2>1, <2>2, SettleTyped
  <2>4. /\ handle' = "nil" /\ openTx' = FALSE /\ openResultSets' = {}
        /\ cachedStatements' \in [Queries -> SUBSET Statements]
        /\ UNCHANGED <<isInTransaction, shouldCacheStatements, referenced>>
    BY <1>2 DEF Close
  <2>5. /\ statement' \in [ResultSets -> Statements \cup {None}]
        /\ shouldAutoClose' \subseteq ResultSets
    BY <1>2 DEF Close, TypeOK
  <2>. QED
    BY <2>3, <2>4, <2>5 DEF TypeOK, Pointers
<1>3. CASE ClearCachedStatements
  <2>1. /\ pointer' \in [Statements -> Pointers]
        /\ position' \in [Statements -> 0..MaxRows]
        /\ inUse' \subseteq Statements /\ undefined' \in BOOLEAN
    BY <1>3, ClosedCacheTyped, SettleTyped DEF ClearCachedStatements
  <2>. QED
    BY <1>3, <2>1 DEF ClearCachedStatements, TypeOK, Pointers, connectionVars,
       resultSetVars
<1>4. CASE SetShouldCacheStatements
  <2>1. /\ pointer' \in [Statements -> Pointers]
        /\ position' \in [Statements -> 0..MaxRows]
        /\ inUse' \subseteq Statements /\ undefined' \in BOOLEAN
    BY <1>4, SettleTyped DEF SetShouldCacheStatements, TypeOK, Pointers
  <2>. QED
    BY <1>4, <2>1 DEF SetShouldCacheStatements, TypeOK, Pointers, connectionVars,
       resultSetVars
<1>5. ASSUME NEW q \in Queries, ValueForQuery(q) PROVE TypeOK'
  BY <1>5, RunToEndTyped DEF ValueForQuery, connectionVars, TypeOK
<1>6. ASSUME NEW q \in Queries, Begin(q) PROVE TypeOK'
  BY <1>6, RunToEndTyped DEF Begin
<1>7. ASSUME NEW q \in Queries, EndTransaction(q) PROVE TypeOK'
  BY <1>7, RunToEndTyped DEF EndTransaction
<1>8. ASSUME NEW r \in ResultSets, NEW q \in Queries,
             ExecuteQuery(r, q) \/ Prepare(r, q)
      PROVE  TypeOK'
  <2>1. NewResultSet(r, q, 0) /\ shouldAutoClose' \subseteq ResultSets
    BY <1>8 DEF ExecuteQuery, Prepare, TypeOK
  <2>. QED
    BY <1>0, <2>1, NewResultSetTyped
<1>9. ASSUME NEW r \in ResultSets, NEW q \in Queries, ExecuteUpdate(r, q)
      PROVE  TypeOK'
  <2>1. CASE RunToEnd(q) /\ UNCHANGED connectionVars
    BY <2>1, RunToEndTyped DEF connectionVars, TypeOK
  <2>2. CASE NewResultSet(r, q, 1) /\ shouldAutoClose' = shouldAutoClose \cup {r}
    BY <1>0, <2>2, NewResultSetTyped DEF TypeOK
  <2>. QED
    BY <1>9, <2>1, <2>2 DEF ExecuteUpdate
<1>10. ASSUME NEW r \in ResultSets, StepRow(r) PROVE TypeOK'
  <2>1. position' \in [Statements -> 0..MaxRows]
    BY <1>0, <1>10 DEF StepRow, TypeOK
  <2>. QED
    BY <1>10, <2>1 DEF StepRow, TypeOK, connectionVars, cacheVars, resultSetVars
<1>11. ASSUME NEW r \in ResultSets, StepEnd(r) PROVE TypeOK'
  <2>1. CASE r \in shouldAutoClose
    BY <1>11, <2>1, CloseStatementTyped DEF StepEnd
  <2>2. CASE r \notin shouldAutoClose
    <3>1. position' \in [Statements -> 0..MaxRows]
      BY <1>0, <1>11, <2>2 DEF StepEnd, TypeOK
    <3>. QED
      BY <1>11, <2>2, <3>1 DEF StepEnd, TypeOK, connectionVars, cacheVars,
         resultSetVars
  <2>. QED
    BY <2>1, <2>2
<1>12. ASSUME NEW r \in ResultSets, Bind(r) PROVE TypeOK'
  <2>1. /\ pointer' \in [Statements -> Pointers]
        /\ position' \in [Statements -> 0..MaxRows]
        /\ inUse' \subseteq Statements /\ undefined' \in BOOLEAN
    BY <1>12, SettleTyped DEF Bind, TypeOK, Pointers
  <2>. QED
    BY <1>12, <2>1 DEF Bind, TypeOK, Pointers, connectionVars, cacheVars, resultSetVars
<1>13. ASSUME NEW r \in ResultSets, KeepCursor(r) PROVE TypeOK'
  BY <1>13 DEF KeepCursor, TypeOK, connectionVars, cacheVars, statementVars
<1>14. ASSUME NEW r \in ResultSets, CloseResultSet(r) \/ Dealloc(r) PROVE TypeOK'
  BY <1>14, CloseStatementTyped DEF CloseResultSet, Dealloc
<1>15. ASSUME NEW q \in Queries, ExecuteQueryFails(q) PROVE TypeOK'
  BY <1>15, BindFailedTyped DEF ExecuteQueryFails, CachedStatement, TypeOK
<1>16. ASSUME NEW r \in ResultSets, BindFails(r) PROVE TypeOK'
  BY <1>16, BindFailedTyped DEF BindFails, TypeOK
<1>17. CASE UNCHANGED vars
  BY <1>17 DEF vars, TypeOK, connectionVars, cacheVars, statementVars, resultSetVars
<1>. QED
  BY <1>1, <1>2, <1>3, <1>4, <1>5, <1>6, <1>7, <1>8, <1>9, <1>10, <1>11, <1>12,
     <1>13, <1>14, <1>15, <1>16, <1>17 DEF Next, Connection, ResultSet

LEMMA InitTyped == Init => TypeOK
<1>. SUFFICES ASSUME Init PROVE TypeOK
  OBVIOUS
<1>1. position \in [Statements -> 0..MaxRows]
  BY ConnectionAssumption DEF Init
<1>2. /\ statement \in [ResultSets -> Statements \cup {None}]
      /\ cachedStatements \in [Queries -> SUBSET Statements]
      /\ pointer \in [Statements -> {"free", "nil", "live", "finalized"}]
  BY DEF Init
<1>3. openResultSets \subseteq {r \in referenced : statement[r] # None}
  BY DEF Init
<1>. QED
  BY <1>1, <1>2, <1>3 DEF Init, TypeOK

(* The variables keep their types; a pointer in openResultSets is that of  *)
(* a result set that exists and is open, in whatever order they are        *)
(* closed and released.                                                    *)
THEOREM TypeCorrect == Spec => []TypeOK
BY InitTyped, TypeStep, PTL DEF Spec
-----------------------------------------------------------------------------
(* Statements are not shared.                                              *)

LEMMA CachedOf ==
  ASSUME NEW f \in [Queries -> SUBSET Statements]
  PROVE  \A s : s \in UNION Range(f) <=> \E q \in Queries : s \in f[q]
BY DEF Range

LEMMA ReadOf ==
  ASSUME NEW f \in [ResultSets -> Statements \cup {None}]
  PROVE  \A s : s \in Range(f) \ {None} <=> s # None /\ \E r \in ResultSets : f[r] = s
BY DEF Range

(* A cached statement has its sqlite3_stmt, a statement that is read is an *)
(* object, and the flag inUse tells which of the cached ones are read.     *)
CacheInvariant ==
  /\ StatementsNotShared
  /\ \A s \in Cached : pointer[s] \notin {"free", "nil"}
  /\ \A s \in Read : pointer[s] # "free"
  /\ Read \cap Cached \subseteq inUse

(* executeQuery finds a statement that nobody reads. *)
LEMMA StatementForIsUnread ==
  ASSUME TypeOK, CacheInvariant, NEW q \in Queries, NEW s \in Statements,
         StatementFor(q, s)
  PROVE  s \notin Read
<1>1. CASE s \in CachedStatement(q)
  <2>1. s \in Cached /\ s \notin inUse
    BY <1>1, InCached DEF CachedStatement
  <2>. QED
    BY <2>1 DEF CacheInvariant
<1>2. CASE pointer[s] = "free"
  BY <1>2 DEF CacheInvariant
<1>. QED
  BY <1>1, <1>2 DEF StatementFor

LEMMA StatementForCaches ==
  ASSUME TypeOK, NEW q \in Queries, NEW s \in Statements, StatementFor(q, s)
  PROVE  /\ ~shouldCacheStatements => Cached' = Cached
         /\ shouldCacheStatements => Cached' = Cached \cup {s}
         /\ pointer[s] = "free" \/ s \in Cached
<1>1. cachedStatements' \in [Queries -> SUBSET Statements]
  BY StatementForTyped
<1>2. \A x : x \in Cached' <=> \E y \in Queries : x \in cachedStatements'[y]
  BY <1>1, CachedOf DEF Cached
<1>3. CASE shouldCacheStatements
  <2>1. \A y \in Queries : cachedStatements'[y] =
          IF y = q THEN cachedStatements[y] \cup {s} ELSE cachedStatements[y]
    BY <1>3 DEF StatementFor, TypeOK
  <2>2. \A x : x \in Cached' <=> x \in Cached \cup {s}
    BY <1>2, <2>1, InCached
  <2>. QED
    BY <1>3, <2>2, InCached DEF StatementFor, CachedStatement
<1>4. CASE ~shouldCacheStatements
  BY <1>4, InCached DEF StatementFor, CachedStatement, Cached
<1>. QED
  BY <1>3, <1>4

LEMMA NewResultSetKeepsCache ==
  ASSUME TypeOK, TypeOK', CacheInvariant, NEW r \in ResultSets, NEW q \in Queries,
         NEW n, NewResultSet(r, q, n)
  PROVE  CacheInvariant'
<1>1. PICK s \in Statements :
        /\ StatementFor(q, s)
        /\ pointer' = [pointer EXCEPT ![s] = IF @ = "free" THEN "live" ELSE @]
        /\ inUse' = inUse \cup {s}
        /\ statement' = [statement EXCEPT ![r] = s]
  BY DEF NewResultSet
<1>2. s \notin Read /\ s # None
  BY <1>1, StatementForIsUnread, ConnectionAssumption
<1>3. Cached' \subseteq Cached \cup {s} /\ (pointer[s] = "free" \/ s \in Cached)
  BY <1>1, StatementForCaches
<1>4. Read' \subseteq Read \cup {s}
  <2>1. \A x : x \in Read' <=> x # None /\ \E y \in ResultSets : statement'[y] = x
    BY ReadOf DEF Read, TypeOK
  <2>. QED
    BY <1>1, <2>1, InRead DEF TypeOK
<1>5. StatementsNotShared'
  <2>1. \A x \in ResultSets : x # r => statement'[x] = statement[x]
                                       /\ statement[x] # s
    BY <1>1, <1>2, InRead DEF TypeOK
  <2>2. statement'[r] = s
    BY <1>1 DEF TypeOK
  <2>. QED
    BY <2>1, <2>2 DEF CacheInvariant, StatementsNotShared
<1>6. \A x \in Cached' : pointer'[x] \notin {"free", "nil"}
  BY <1>1, <1>3 DEF CacheInvariant, TypeOK
<1>7. \A x \in Read' : pointer'[x] # "free"
  BY <1>1, <1>4 DEF CacheInvariant, TypeOK
<1>8. Read' \cap Cached' \subseteq inUse'
  BY <1>1, <1>3, <1>4 DEF CacheInvariant
<1>. QED
  BY <1>5, <1>6, <1>7, <1>8 DEF CacheInvariant

LEMMA RunToEndKeepsCache ==
  ASSUME TypeOK, CacheInvariant, NEW q \in Queries, RunToEnd(q)
  PROVE  CacheInvariant'
<1>1. PICK s \in Statements :
        /\ StatementFor(q, s)
        /\ pointer' = IF shouldCacheStatements /\ pointer[s] = "free"
                        THEN [pointer EXCEPT ![s] = "live"] ELSE pointer
  BY DEF RunToEnd
<1>2. s \notin Read
  BY <1>1, StatementForIsUnread
<1>3. /\ ~shouldCacheStatements => Cached' = Cached
      /\ shouldCacheStatements => Cached' = Cached \cup {s}
      /\ pointer[s] = "free" \/ s \in Cached
  BY <1>1, StatementForCaches
<1>4. statement' = statement /\ inUse' = inUse /\ Read' = Read
  BY DEF RunToEnd, resultSetVars, Read
<1>5. StatementsNotShared'
  BY <1>4 DEF CacheInvariant, StatementsNotShared
<1>6. \A x \in Cached' : pointer'[x] \notin {"free", "nil"}
  BY <1>1, <1>3 DEF CacheInvariant, TypeOK
<1>7. \A x \in Read' : pointer'[x] # "free"
  BY <1>1, <1>2, <1>4 DEF CacheInvariant, TypeOK
<1>8. Read' \cap Cached' \subseteq inUse'
  BY <1>2, <1>3, <1>4 DEF CacheInvariant
<1>. QED
  BY <1>5, <1>6, <1>7, <1>8 DEF CacheInvariant

(* A method that empties the cache. *)
LEMMA EmptyCacheKeeps ==
  ASSUME TypeOK, TypeOK', CacheInvariant, NEW p, NEW reset, Settle(p, reset),
         cachedStatements' = [q \in Queries |-> {}],
         \A s \in Read : p[s] # "free",
         \A r \in ResultSets : statement'[r] \in {statement[r], None}
  PROVE  CacheInvariant'
<1>1. Cached' = {}
  BY CachedOf DEF Cached, TypeOK
<1>2. Read' \subseteq Read /\ Read' \subseteq Statements
  <2>1. \A x : x \in Read' <=> x # None /\ \E y \in ResultSets : statement'[y] = x
    BY ReadOf DEF Read, TypeOK
  <2>. QED
    BY <2>1, InRead DEF TypeOK
<1>3. StatementsNotShared'
  BY DEF CacheInvariant, StatementsNotShared
<1>4. \A x \in Read' : pointer'[x] # "free"
  BY <1>2 DEF Settle
<1>. QED
  BY <1>1, <1>3, <1>4 DEF CacheInvariant

(* A statement that is reset is read by nobody else. *)
LEMMA CloseStatementKeepsCache ==
  ASSUME TypeOK, TypeOK', CacheInvariant, NEW r \in ResultSets, CloseStatement(r)
  PROVE  CacheInvariant'
<1>1. /\ Settle(pointer, {statement[r]} \ {None})
      /\ statement' = [statement EXCEPT ![r] = None]
  BY DEF CloseStatement
<1>2. Cached' = Cached /\ Cached \subseteq Statements
  BY StatementsOnly DEF CloseStatement, cacheVars, Cached
<1>3. \A x : x \in Read' <=> x # None /\ \E y \in ResultSets : statement'[y] = x
  BY ReadOf DEF Read, TypeOK
<1>4. Read' \subseteq Read /\ Read' \subseteq Statements
  BY <1>1, <1>3, InRead DEF TypeOK
<1>5. statement[r] \notin Read'
  <2>. SUFFICES ASSUME statement[r] \in Read' PROVE FALSE
    OBVIOUS
  <2>1. PICK y \in ResultSets : statement'[y] = statement[r]
    BY <1>3
  <2>2. statement[r] # None
    BY <1>3
  <2>3. y # r /\ statement[y] = statement[r]
    BY <1>1, <2>1, <2>2 DEF TypeOK
  <2>. QED
    BY <2>2, <2>3 DEF CacheInvariant, StatementsNotShared
<1>6. StatementsNotShared'
  BY <1>1 DEF CacheInvariant, StatementsNotShared, TypeOK
<1>7. \A x \in Cached' : pointer'[x] \notin {"free", "nil"}
  BY <1>1, <1>2 DEF Settle, CacheInvariant
<1>8. \A x \in Read' : pointer'[x] # "free"
  BY <1>1, <1>4 DEF Settle, CacheInvariant
<1>9. Read' \cap Cached' \subseteq inUse'
  <2>. SUFFICES ASSUME NEW x \in Read', x \in Cached' PROVE x \in inUse'
    OBVIOUS
  <2>1. x \in inUse /\ pointer[x] # "nil" /\ x # statement[r]
    BY <1>2, <1>4, <1>5 DEF CacheInvariant
  <2>. QED
    BY <1>1, <2>1 DEF Settle
<1>. QED
  BY <1>6, <1>7, <1>8, <1>9 DEF CacheInvariant

(* bindWithArray resets a statement that is not in the cache. *)
LEMMA BindKeepsCache ==
  ASSUME TypeOK, CacheInvariant, "rebindCached" \notin Misuses,
         NEW r \in ResultSets, Bind(r)
  PROVE  CacheInvariant'
<1>1. Settle(pointer, {statement[r]}) /\ statement[r] \notin Cached
  BY DEF Bind
<1>2. /\ Cached' = Cached /\ Read' = Read
      /\ Cached \subseteq Statements /\ Read \subseteq Statements
  BY StatementsOnly DEF Bind, cacheVars, resultSetVars, Cached, Read
<1>3. StatementsNotShared'
  BY DEF Bind, resultSetVars, CacheInvariant, StatementsNotShared
<1>4. \A x \in Cached' : pointer'[x] \notin {"free", "nil"}
  BY <1>1, <1>2 DEF Settle, CacheInvariant
<1>5. \A x \in Read' : pointer'[x] # "free"
  BY <1>1, <1>2 DEF Settle, CacheInvariant
<1>6. Read' \cap Cached' \subseteq inUse'
  <2>. SUFFICES ASSUME NEW x \in Read', x \in Cached' PROVE x \in inUse'
    OBVIOUS
  <2>1. x \in inUse /\ pointer[x] # "nil" /\ x # statement[r]
    BY <1>1, <1>2 DEF CacheInvariant
  <2>. QED
    BY <1>1, <1>2, <2>1 DEF Settle
<1>. QED
  BY <1>3, <1>4, <1>5, <1>6 DEF CacheInvariant

(* A statement whose bind fails is read by nobody else. *)
LEMMA BindFailedKeepsCache ==
  ASSUME TypeOK, CacheInvariant, NEW s \in Statements, BindFailed(s),
         s \in Read => s \notin Cached
  PROVE  CacheInvariant'
<1>. PICK p : p = [pointer EXCEPT ![s] = "finalized"]
  OBVIOUS
<1>0. /\ \A x \in Statements : p[x] = IF x = s THEN "finalized" ELSE pointer[x]
      /\ Settle(p, {s})
  BY DEF BindFailed, TypeOK
<1>1. /\ Cached' = Cached /\ Read' = Read
      /\ Cached \subseteq Statements /\ Read \subseteq Statements
  BY StatementsOnly DEF BindFailed, cacheVars, resultSetVars, Cached, Read
<1>2. StatementsNotShared'
  BY DEF BindFailed, resultSetVars, CacheInvariant, StatementsNotShared
<1>3. \A x \in Cached' : pointer'[x] \notin {"free", "nil"}
  BY <1>0, <1>1 DEF Settle, CacheInvariant
<1>4. \A x \in Read' : pointer'[x] # "free"
  BY <1>0, <1>1 DEF Settle, CacheInvariant
<1>5. Read' \cap Cached' \subseteq inUse'
  <2>. SUFFICES ASSUME NEW x \in Read', x \in Cached' PROVE x \in inUse'
    OBVIOUS
  <2>1. x \in inUse /\ pointer[x] # "nil" /\ x # s
    BY <1>1 DEF CacheInvariant
  <2>. QED
    BY <1>0, <1>1, <2>1 DEF Settle
<1>. QED
  BY <1>2, <1>3, <1>4, <1>5 DEF CacheInvariant

LEMMA CacheStep ==
  ASSUME TypeOK, CacheInvariant, "rebindCached" \notin Misuses, [Next]_vars
  PROVE  CacheInvariant'
<1>0. TypeOK'
  BY TypeStep
<1>a. \A s \in Read : s \in Statements /\ pointer[s] # "free"
  BY StatementsOnly DEF CacheInvariant
<1>b. ASSUME UNCHANGED <<cachedStatements, statement, pointer, inUse>>
      PROVE  CacheInvariant'
  BY <1>b DEF CacheInvariant, StatementsNotShared, Cached, Read
<1>1. CASE Open
  BY <1>1, <1>b DEF Open, cacheVars, statementVars, resultSetVars
<1>2. CASE Close
  <2>. DEFINE p == [s \in Statements |->
                      IF s \in Read' \ Cached THEN "finalized" ELSE ClosedCache[s]]
  <2>1. Settle(p, {statement[r] : r \in openResultSets})
    BY <1>2 DEF Close
  <2>2. \A s \in Read : p[s] # "free"
    BY <1>a DEF ClosedCache
  <2>. HIDE DEF p
  <2>. QED
    BY <1>0, <1>2, <2>1, <2>2, EmptyCacheKeeps DEF Close
<1>3. CASE ClearCachedStatements
  <2>1. \A s \in Read : ClosedCache[s] # "free"
    BY <1>a DEF ClosedCache
  <2>. QED
    BY <1>0, <1>3, <2>1, EmptyCacheKeeps DEF ClearCachedStatements, resultSetVars
<1>4. CASE SetShouldCacheStatements
  BY <1>0, <1>4, <1>a, EmptyCacheKeeps DEF SetShouldCacheStatements, resultSetVars
<1>5. ASSUME NEW q \in Queries, ValueForQuery(q) \/ Begin(q) \/ EndTransaction(q)
      PROVE  CacheInvariant'
  BY <1>5, RunToEndKeepsCache DEF ValueForQuery, Begin, EndTransaction
<1>6. ASSUME NEW r \in ResultSets, NEW q \in Queries,
             ExecuteQuery(r, q) \/ Prepare(r, q) \/ ExecuteUpdate(r, q)
      PROVE  CacheInvariant'
  BY <1>0, <1>6, RunToEndKeepsCache, NewResultSetKeepsCache
     DEF ExecuteQuery, Prepare, ExecuteUpdate
<1>7. ASSUME NEW r \in ResultSets, StepRow(r) \/ KeepCursor(r)
      PROVE  CacheInvariant'
  BY <1>7, <1>b DEF StepRow, KeepCursor, cacheVars, statementVars, resultSetVars
<1>8. ASSUME NEW r \in ResultSets, StepEnd(r) PROVE CacheInvariant'
  <2>1. CASE r \in shouldAutoClose
    BY <1>0, <1>8, <2>1, CloseStatementKeepsCache DEF StepEnd
  <2>2. CASE r \notin shouldAutoClose
    BY <1>8, <1>b, <2>2 DEF StepEnd, cacheVars, resultSetVars
  <2>. QED
    BY <2>1, <2>2
<1>9. ASSUME NEW r \in ResultSets, Bind(r) PROVE CacheInvariant'
  BY <1>9, BindKeepsCache
<1>10. ASSUME NEW r \in ResultSets, CloseResultSet(r) \/ Dealloc(r)
       PROVE  CacheInvariant'
  BY <1>0, <1>10, CloseStatementKeepsCache DEF CloseResultSet, Dealloc
<1>11. ASSUME NEW q \in Queries, ExecuteQueryFails(q) PROVE CacheInvariant'
  <2>1. PICK s \in CachedStatement(q) : BindFailed(s)
    BY <1>11 DEF ExecuteQueryFails
  <2>2. s \in Statements /\ s \in Cached /\ s \notin inUse
    BY InCached DEF CachedStatement, TypeOK
  <2>3. s \notin Read
    BY <2>2 DEF CacheInvariant
  <2>. QED
    BY <2>1, <2>2, <2>3, BindFailedKeepsCache
<1>12. ASSUME NEW r \in ResultSets, BindFails(r) PROVE CacheInvariant'
  BY <1>12, BindFailedKeepsCache DEF BindFails, TypeOK
<1>13. CASE UNCHANGED vars
  BY <1>13, <1>b DEF vars, cacheVars, statementVars, resultSetVars
<1>. QED
  BY <1>1, <1>2, <1>3, <1>4, <1>5, <1>6, <1>7, <1>8, <1>9, <1>10, <1>11, <1>12, <1>13
     DEF Next, Connection, ResultSet

LEMMA InitCache == Init => CacheInvariant
<1>. SUFFICES ASSUME Init PROVE CacheInvariant
  OBVIOUS
<1>1. Cached = {} /\ Read = {}
  BY DEF Init, Cached, Read, Range
<1>. QED
  BY <1>1 DEF Init, CacheInvariant, StatementsNotShared

(* As long as no statement of the cache is bound again, which clears its   *)
(* flag inUse, no two result sets read one statement.                      *)
THEOREM NotShared ==
  ASSUME "rebindCached" \notin Misuses
  PROVE  Spec => []StatementsNotShared
<1>1. Init => CacheInvariant
  BY InitCache
<1>2. TypeOK /\ CacheInvariant /\ [Next]_vars => CacheInvariant'
  BY CacheStep
<1>3. CacheInvariant => StatementsNotShared
  BY DEF CacheInvariant
<1>. QED
  BY <1>1, <1>2, <1>3, TypeCorrect, PTL DEF Spec
-----------------------------------------------------------------------------
(* Who finalizes a statement that is read.                                 *)
StatementKept(r) ==
  /\ statement[r] # None /\ statement'[r] = statement[r]
  /\ pointer[statement[r]] = "live" /\ pointer'[statement[r]] = "finalized"
  => \/ BindFails(r)
     \/ handle' = "nil" /\ r \notin openResultSets

(* A method that leaves the pointers alone, or makes them nil or free. *)
LEMMA SettleFinalizesNone ==
  ASSUME TypeOK, NEW p, NEW reset, Settle(p, reset), NEW r \in ResultSets,
         statement[r] # None => p[statement[r]] # "finalized" \/ pointer[statement[r]] = "finalized"
  PROVE  StatementKept(r)
<1>1. statement[r] # None => statement[r] \in Statements
  BY DEF TypeOK
<1>. QED
  BY <1>1 DEF Settle, StatementKept

LEMMA KeptStep ==
  ASSUME TypeOK, CacheInvariant, [Next]_vars, NEW r \in ResultSets
  PROVE  StatementKept(r)
<1>0. statement[r] # None => statement[r] \in Statements /\ statement[r] \in Read
  BY InRead DEF TypeOK
<1>a. ASSUME UNCHANGED pointer PROVE StatementKept(r)
  BY <1>a DEF StatementKept
<1>b. ASSUME NEW x, CloseStatement(x) PROVE StatementKept(r)
  BY <1>b, SettleFinalizesNone DEF CloseStatement
<1>1. CASE Open
  BY <1>1, <1>a DEF Open, statementVars
<1>2. CASE Close
  <2>1. handle' = "nil" /\ statement'[r] = IF r \in openResultSets THEN None
                                                                  ELSE statement[r]
    BY <1>2 DEF Close
  <2>. QED
    BY <2>1 DEF StatementKept
<1>3. CASE ClearCachedStatements
  <2>1. \A s \in Statements : ClosedCache[s] \in {"nil", pointer[s]}
    BY DEF ClosedCache
  <2>. QED
    BY <1>0, <1>3, <2>1, SettleFinalizesNone DEF ClearCachedStatements
<1>4. CASE SetShouldCacheStatements
  BY <1>4, SettleFinalizesNone DEF SetShouldCacheStatements
<1>c. ASSUME NEW q, RunToEnd(q) PROVE StatementKept(r)
  BY <1>0, <1>c DEF RunToEnd, StatementKept, TypeOK
<1>d. ASSUME NEW x, NEW q, NEW n, NewResultSet(x, q, n) PROVE StatementKept(r)
  BY <1>0, <1>d DEF NewResultSet, StatementKept, TypeOK
<1>5. ASSUME NEW q \in Queries, ValueForQuery(q) \/ Begin(q) \/ EndTransaction(q)
      PROVE  StatementKept(r)
  BY <1>5, <1>c DEF ValueForQuery, Begin, EndTransaction
<1>6. ASSUME NEW x \in ResultSets, NEW q \in Queries,
             ExecuteQuery(x, q) \/ Prepare(x, q) \/ ExecuteUpdate(x, q)
      PROVE  StatementKept(r)
  BY <1>6, <1>c, <1>d DEF ExecuteQuery, Prepare, ExecuteUpdate
<1>7. ASSUME NEW x \in ResultSets, StepRow(x) \/ KeepCursor(x) PROVE StatementKept(r)
  BY <1>7, <1>a DEF StepRow, KeepCursor, statementVars
<1>8. ASSUME NEW x \in ResultSets, StepEnd(x) PROVE StatementKept(r)
  BY <1>8, <1>a, <1>b DEF StepEnd
<1>9. ASSUME NEW x \in ResultSets, Bind(x) PROVE StatementKept(r)
  BY <1>9, SettleFinalizesNone DEF Bind
<1>10. ASSUME NEW x \in ResultSets, CloseResultSet(x) \/ Dealloc(x) PROVE StatementKept(r)
  BY <1>10, <1>b DEF CloseResultSet, Dealloc
<1>e. ASSUME NEW s \in Statements, BindFailed(s), statement[r] # s PROVE StatementKept(r)
  <2>. PICK p : p = [pointer EXCEPT ![s] = "finalized"]
    OBVIOUS
  <2>1. statement[r] # None => p[statement[r]] = pointer[statement[r]]
    BY <1>0, <1>e DEF TypeOK
  <2>2. Settle(p, {s})
    BY <1>e DEF BindFailed
  <2>. QED
    BY <2>1, <2>2, SettleFinalizesNone
<1>11. ASSUME NEW q \in Queries, ExecuteQueryFails(q) PROVE StatementKept(r)
  <2>1. PICK s \in CachedStatement(q) : BindFailed(s)
    BY <1>11 DEF ExecuteQueryFails
  <2>2. s \in Statements /\ s \in Cached /\ s \notin inUse /\ s # None
    BY InCached, ConnectionAssumption DEF CachedStatement, TypeOK
  <2>3. statement[r] # s
    BY <1>0, <2>2 DEF CacheInvariant
  <2>. QED
    BY <1>e, <2>1, <2>2, <2>3
<1>12. ASSUME NEW x \in ResultSets, BindFails(x) PROVE StatementKept(r)
  <2>1. CASE x = r
    BY <1>12, <2>1 DEF StatementKept
  <2>2. CASE x # r
    <3>1. statement[x] \in Statements /\ statement[r] # statement[x] /\ BindFailed(statement[x])
      BY <1>12, <2>2 DEF BindFails, CacheInvariant, StatementsNotShared, TypeOK
    <3>. QED
      BY <1>e, <3>1
  <2>. QED
    BY <2>1, <2>2
<1>13. CASE UNCHANGED vars
  BY <1>13, <1>a DEF vars, statementVars
<1>. QED
  BY <1>1, <1>2, <1>3, <1>4, <1>5, <1>6, <1>7, <1>8, <1>9, <1>10, <1>11, <1>12, <1>13
     DEF Next, Connection, ResultSet

(* As long as no statement of the cache is bound again, a bind that fails  *)
(* for one query and the closing of connection, cache and result sets      *)
(* never finalize the statement another result set reads, except that of a *)
(* cursor the connection no longer knows of.                               *)
THEOREM OthersKeepStatements ==
  ASSUME "rebindCached" \notin Misuses
  PROVE  Spec => StatementsKept
<1>1. Init => CacheInvariant
  BY InitCache
<1>2. TypeOK /\ CacheInvariant /\ [Next]_vars => CacheInvariant'
  BY CacheStep
<1>3. TypeOK /\ CacheInvariant /\ [Next]_vars =>
        [\A r \in ResultSets :
           /\ statement[r] # None /\ statement'[r] = statement[r]
           /\ pointer[statement[r]] = "live" /\ pointer'[statement[r]] = "finalized"
           => \/ BindFails(r)
              \/ handle' = "nil" /\ r \notin openResultSets]_vars
  BY KeptStep DEF StatementKept
<1>. QED
  BY <1>1, <1>2, <1>3, TypeCorrect, PTL DEF Spec, StatementsKept
-----------------------------------------------------------------------------
(* The abstract result sets, by the names they have in DarwinResultSets.    *)
State == [r \in ResultSets |-> IF r \notin referenced THEN "none"
                               ELSE IF statement[r] = None THEN "closed"
                                                           ELSE "open"]
Row == [r \in ResultSets |-> IF statement[r] = None THEN 0
                                                    ELSE position[statement[r]]]
Prepared == {r \in ResultSets : statement[r] # None} \ shouldAutoClose
Kept == {r \in ResultSets : statement[r] # None} \ openResultSets

(* A result set that reads a statement is referred to, one that closes at  *)
(* its end reads a statement, a prepared one is known to the connection,   *)
(* and the flag of a transaction is right.                                 *)
LifeInvariant ==
  /\ \A r \in ResultSets : statement[r] # None => r \in referenced
  /\ \A r \in shouldAutoClose : statement[r] # None
  /\ \A r \in ResultSets :
       statement[r] # None => r \in shouldAutoClose \/ r \in openResultSets
  /\ isInTransaction = openTx

LEMMA LifeStep ==
  ASSUME TypeOK, LifeInvariant, "closeInTransaction" \notin Misuses, [Next]_vars
  PROVE  LifeInvariant'
<1>a. ASSUME NEW q, RunToEnd(q), isInTransaction' = openTx' PROVE LifeInvariant'
  BY <1>a DEF RunToEnd, resultSetVars, LifeInvariant
<1>b. ASSUME NEW r \in ResultSets, NEW q \in Queries, NEW n, NewResultSet(r, q, n),
             shouldAutoClose' \in {shouldAutoClose, shouldAutoClose \cup {r}}
      PROVE  LifeInvariant'
  <2>1. PICK s \in Statements : statement' = [statement EXCEPT ![r] = s]
    BY <1>b DEF NewResultSet
  <2>2. s # None
    BY ConnectionAssumption
  <2>3. /\ referenced' = referenced \cup {r}
        /\ openResultSets' = openResultSets \cup {r}
        /\ UNCHANGED connectionVars
    BY <1>b DEF NewResultSet
  <2>. QED
    BY <1>b, <2>1, <2>2, <2>3 DEF connectionVars, LifeInvariant, TypeOK
<1>c. ASSUME NEW r \in ResultSets, CloseStatement(r),
             referenced' \in {referenced, referenced \ {r}}
      PROVE  LifeInvariant'
  BY <1>c DEF CloseStatement, connectionVars, LifeInvariant, TypeOK
<1>d. ASSUME UNCHANGED <<statement, referenced, shouldAutoClose,
                     openResultSets>>,
             isInTransaction' = openTx'
      PROVE  LifeInvariant'
  BY <1>d DEF LifeInvariant
<1>1. CASE Open
  BY <1>1, <1>d DEF Open, resultSetVars, LifeInvariant
<1>2. CASE Close
  <2>1. ~openTx /\ ~isInTransaction
    BY <1>2 DEF Close, LifeInvariant, TypeOK
  <2>2. /\ statement' = [r \in ResultSets |-> IF r \in openResultSets THEN None
                                                                      ELSE statement[r]]
        /\ shouldAutoClose' = shouldAutoClose \ openResultSets
        /\ openTx' = FALSE
        /\ UNCHANGED <<isInTransaction, referenced>>
    BY <1>2 DEF Close
  <2>3. \A r \in ResultSets : statement'[r] # None => r \in referenced'
    BY <2>2 DEF LifeInvariant
  <2>4. \A r \in shouldAutoClose' : statement'[r] # None
    BY <2>2 DEF LifeInvariant, TypeOK
  <2>5. isInTransaction' = openTx'
    BY <2>1, <2>2 DEF TypeOK
  <2>6. \A r \in ResultSets : statement'[r] # None => r \in shouldAutoClose'
    BY <2>2 DEF LifeInvariant
  <2>. QED
    BY <2>3, <2>4, <2>5, <2>6 DEF LifeInvariant
<1>3. CASE ClearCachedStatements
  BY <1>3, <1>d DEF ClearCachedStatements, connectionVars, resultSetVars, LifeInvariant
<1>4. CASE SetShouldCacheStatements
  BY <1>4, <1>d DEF SetShouldCacheStatements, connectionVars, resultSetVars, LifeInvariant
<1>5. ASSUME NEW q \in Queries, ValueForQuery(q) \/ Begin(q) \/ EndTransaction(q)
      PROVE  LifeInvariant'
  BY <1>5, <1>a DEF ValueForQuery, Begin, EndTransaction, connectionVars, LifeInvariant
<1>6. ASSUME NEW r \in ResultSets, NEW q \in Queries, ExecuteQuery(r, q) \/ Prepare(r, q)
      PROVE  LifeInvariant'
  BY <1>6, <1>b DEF ExecuteQuery, Prepare
<1>7. ASSUME NEW r \in ResultSets, NEW q \in Queries, ExecuteUpdate(r, q)
      PROVE  LifeInvariant'
  BY <1>7, <1>a, <1>b DEF ExecuteUpdate, connectionVars, LifeInvariant
<1>8. ASSUME NEW r \in ResultSets, StepRow(r) \/ Bind(r) PROVE LifeInvariant'
  BY <1>8, <1>d DEF StepRow, Bind, connectionVars, resultSetVars, LifeInvariant
<1>9. ASSUME NEW r \in ResultSets, StepEnd(r) PROVE LifeInvariant'
  BY <1>9, <1>c, <1>d DEF StepEnd, connectionVars, resultSetVars, LifeInvariant
<1>10. ASSUME NEW r \in ResultSets, CloseResultSet(r) \/ Dealloc(r)
       PROVE  LifeInvariant'
  BY <1>10, <1>c DEF CloseResultSet, Dealloc
<1>11. ASSUME NEW s, BindFailed(s) PROVE LifeInvariant'
  BY <1>11, <1>d DEF BindFailed, connectionVars, resultSetVars, LifeInvariant
<1>12. ASSUME NEW r \in ResultSets, KeepCursor(r) PROVE LifeInvariant'
  BY <1>12 DEF KeepCursor, connectionVars, LifeInvariant
<1>13. CASE UNCHANGED vars
  BY <1>13, <1>d DEF vars, connectionVars, resultSetVars, LifeInvariant
<1>. QED
  BY <1>1, <1>2, <1>3, <1>4, <1>5, <1>6, <1>7, <1>8, <1>9, <1>10, <1>11, <1>12, <1>13
     DEF Next, Connection, ResultSet, ExecuteQueryFails, BindFails
-----------------------------------------------------------------------------
(* What the methods do to the abstract result sets. *)

LEMMA Unmoved ==
  ASSUME TypeOK, UNCHANGED <<statement, referenced, shouldAutoClose,
                     openResultSets>>,
         \A s \in Read : position'[s] = position[s]
  PROVE  UNCHANGED <<State, Row, Prepared, Kept>>
<1>1. \A r \in ResultSets : statement[r] # None => position'[statement[r]] = position[statement[r]]
  BY InRead
<1>2. Row' = Row
  BY <1>1 DEF Row
<1>. QED
  BY <1>2 DEF State, Prepared, Kept

LEMMA NewMoves ==
  ASSUME TypeOK, CacheInvariant, LifeInvariant, NEW r \in ResultSets,
         NEW q \in Queries, NEW n \in Nat, NewResultSet(r, q, n)
  PROVE  /\ State[r] = "none"
         /\ State' = [State EXCEPT ![r] = "open"]
         /\ Row' = [Row EXCEPT ![r] = n]
         /\ r \notin shouldAutoClose /\ Kept' = Kept
         /\ shouldAutoClose' = shouldAutoClose => Prepared' = Prepared \cup {r}
         /\ shouldAutoClose' = shouldAutoClose \cup {r} => Prepared' = Prepared
<1>1. PICK s \in Statements :
        /\ StatementFor(q, s)
        /\ position' = [position EXCEPT ![s] = n]
        /\ statement' = [statement EXCEPT ![r] = s]
  BY DEF NewResultSet
<1>2. s \notin Read /\ s # None
  BY <1>1, StatementForIsUnread, ConnectionAssumption
<1>3. r \notin referenced /\ referenced' = referenced \cup {r}
  BY DEF NewResultSet
<1>4. statement[r] = None /\ r \notin shouldAutoClose
  BY <1>3 DEF LifeInvariant
<1>5. statement'[r] = s /\ \A x \in ResultSets \ {r} : statement'[x] = statement[x]
  BY <1>1 DEF TypeOK
<1>6. State' = [State EXCEPT ![r] = "open"]
  BY <1>2, <1>3, <1>5 DEF State
<1>7. Row' = [Row EXCEPT ![r] = n]
  <2>1. position'[s] = n /\ \A y \in Statements \ {s} : position'[y] = position[y]
    BY <1>1 DEF TypeOK
  <2>2. \A x \in ResultSets \ {r} : statement[x] # None =>
          statement[x] \in Statements \ {s}
    BY <1>2, InRead DEF TypeOK
  <2>. QED
    BY <1>2, <1>5, <2>1, <2>2 DEF Row
<1>8. State[r] = "none"
  BY <1>3 DEF State
<1>9. \A x \in ResultSets : statement'[x] # None <=> (x = r \/ statement[x] # None)
  BY <1>2, <1>5
<1>10. shouldAutoClose' = shouldAutoClose => Prepared' = Prepared \cup {r}
  BY <1>4, <1>9 DEF Prepared
<1>11. shouldAutoClose' = shouldAutoClose \cup {r} => Prepared' = Prepared
  BY <1>4, <1>9 DEF Prepared
<1>12. Kept' = Kept
  <2>1. openResultSets' = openResultSets \cup {r}
    BY DEF NewResultSet
  <2>. QED
    BY <1>4, <1>9, <2>1 DEF Kept
<1>. QED
  BY <1>4, <1>6, <1>7, <1>8, <1>10, <1>11, <1>12

(* Others keep their rows when the statement of r is reset. *)
LEMMA OthersUnmoved ==
  ASSUME TypeOK, CacheInvariant, NEW r \in ResultSets, statement[r] # None, NEW p,
         Settle(p, {statement[r]}), statement' \in [ResultSets -> Statements \cup {None}],
         NEW x \in ResultSets \ {r}, statement[x] # None, statement'[x] = statement[x]
  PROVE  position'[statement[x]] = position[statement[x]]
<1>1. statement[x] # statement[r] /\ statement[x] \in Statements
  BY DEF CacheInvariant, StatementsNotShared, TypeOK
<1>2. statement[x] \in Read'
  BY ReadOf DEF Read
<1>. QED
  BY <1>1, <1>2 DEF Settle

LEMMA EndMoves ==
  ASSUME TypeOK, TypeOK', CacheInvariant, LifeInvariant, NEW r \in ResultSets,
         CloseStatement(r)
  PROVE  /\ Row' = [Row EXCEPT ![r] = 0]
         /\ Prepared' = Prepared \ {r}
         /\ Kept' = Kept \ {r}
<1>1. statement' = [statement EXCEPT ![r] = None]
  BY DEF CloseStatement
<1>2. statement'[r] = None /\ \A x \in ResultSets \ {r} : statement'[x] = statement[x]
  BY <1>1 DEF TypeOK
<1>3. \A x \in ResultSets \ {r} : statement[x] # None =>
        position'[statement[x]] = position[statement[x]]
  <2>1. CASE statement[r] # None
    <3>1. Settle(pointer, {statement[r]})
      <4>1. {statement[r]} \ {None} = {statement[r]}
        BY <2>1
      <4>. QED
        BY <4>1 DEF CloseStatement
    <3>. QED
      BY <1>2, <2>1, <3>1, OthersUnmoved DEF TypeOK
  <2>2. CASE statement[r] = None
    <3>. SUFFICES ASSUME NEW x \in ResultSets \ {r}, statement[x] # None
                  PROVE  position'[statement[x]] = position[statement[x]]
      OBVIOUS
    <3>1. statement[x] \in Statements /\ statement[x] \in Read'
      BY <1>2, ReadOf DEF Read, TypeOK
    <3>2. Settle(pointer, {statement[r]} \ {None}) /\ {statement[r]} \ {None} = {}
      BY <2>2 DEF CloseStatement
    <3>. QED
      BY <3>1, <3>2 DEF Settle
  <2>. QED
    BY <2>1, <2>2
<1>4. Row' = [Row EXCEPT ![r] = 0]
  BY <1>2, <1>3 DEF Row
<1>5. Prepared' = Prepared \ {r} /\ Kept' = Kept \ {r}
  BY <1>2 DEF CloseStatement, Prepared, Kept
<1>. QED
  BY <1>4, <1>5

(* A bind, done or failed: the statement starts again.                     *)
LEMMA BindMoves ==
  ASSUME TypeOK, CacheInvariant, LifeInvariant, NEW r \in ResultSets,
         Bind(r) \/ BindFails(r)
  PROVE  /\ r \in Prepared
         /\ Row' = [Row EXCEPT ![r] = 0]
         /\ UNCHANGED <<State, Prepared, Kept>>
<1>1. /\ statement[r] # None /\ r \notin shouldAutoClose
      /\ UNCHANGED <<statement, referenced, shouldAutoClose, openResultSets>>
  BY DEF Bind, BindFails, BindFailed, resultSetVars
<1>a. PICK p : Settle(p, {statement[r]})
  BY DEF Bind, BindFails, BindFailed
<1>2. \A x \in ResultSets \ {r} : statement[x] # None =>
        position'[statement[x]] = position[statement[x]]
  BY <1>1, <1>a, OthersUnmoved DEF TypeOK
<1>3. position'[statement[r]] = 0
  BY <1>1, <1>a DEF Settle, TypeOK
<1>4. Row' = [Row EXCEPT ![r] = 0]
  BY <1>1, <1>2, <1>3 DEF Row
<1>. QED
  BY <1>1, <1>4 DEF State, Prepared, Kept

(* A bind that fails for a query resets a statement nobody reads.          *)
LEMMA ExecuteQueryFailsUnmoved ==
  ASSUME TypeOK, CacheInvariant, NEW q \in Queries, ExecuteQueryFails(q)
  PROVE  UNCHANGED <<State, Row, Prepared, Kept>> /\ UNCHANGED connectionVars
<1>1. PICK s \in CachedStatement(q) : BindFailed(s)
  BY DEF ExecuteQueryFails
<1>2. s \notin Read
  BY InCached DEF CachedStatement, CacheInvariant, TypeOK
<1>3. Settle([pointer EXCEPT ![s] = "finalized"], {s})
      /\ UNCHANGED <<connectionVars, resultSetVars>>
  BY <1>1 DEF BindFailed
<1>4. Read' = Read /\ Read \subseteq Statements
  BY <1>3, StatementsOnly DEF Read, resultSetVars
<1>5. \A x \in Read : position'[x] = position[x]
  BY <1>2, <1>3, <1>4 DEF Settle
<1>. QED
  BY <1>3, <1>5, Unmoved DEF resultSetVars

(* A row, or a prepared statement that starts again. *)
LEMMA RowMoves ==
  ASSUME TypeOK, CacheInvariant, NEW r \in ResultSets, statement[r] # None, NEW n,
         position' = [position EXCEPT ![statement[r]] = n],
         UNCHANGED <<statement, referenced, shouldAutoClose,
                     openResultSets>>
  PROVE  /\ Row' = [Row EXCEPT ![r] = n]
         /\ UNCHANGED <<State, Prepared, Kept>>
<1>1. \A x \in ResultSets \ {r} : statement[x] # None =>
        /\ statement[x] \in Statements
        /\ statement[x] # statement[r]
  BY DEF CacheInvariant, StatementsNotShared, TypeOK
<1>2. statement[r] \in Statements
  BY DEF TypeOK
<1>3. Row' = [Row EXCEPT ![r] = n]
  BY <1>1, <1>2 DEF Row, TypeOK
<1>. QED
  BY <1>3 DEF State, Prepared, Kept

(* A method that resets nothing and takes no statement from a result set.  *)
LEMMA SettleUnmoved ==
  ASSUME TypeOK, NEW p, Settle(p, {}),
         UNCHANGED <<statement, referenced, shouldAutoClose,
                     openResultSets>>
  PROVE  UNCHANGED <<State, Row, Prepared, Kept>>
<1>1. Read' = Read /\ Read \subseteq Statements
  BY StatementsOnly DEF Read
<1>2. \A s \in Read : position'[s] = position[s]
  BY <1>1 DEF Settle
<1>. QED
  BY <1>2, Unmoved

LEMMA RunToEndUnmoved ==
  ASSUME TypeOK, NEW q, RunToEnd(q)
  PROVE  UNCHANGED <<State, Row, Prepared, Kept>> /\ handle = "open"
BY Unmoved DEF RunToEnd, resultSetVars

(* Closing the connection closes the result sets it knows of, and leaves   *)
(* those that are kept where they are.                                     *)
LEMMA CloseMoves ==
  ASSUME TypeOK, CacheInvariant, LifeInvariant, "closeInTransaction" \notin Misuses,
         Close
  PROVE  /\ State' = [r \in ResultSets |->
                        IF State[r] = "open" /\ r \notin Kept THEN "closed"
                                                             ELSE State[r]]
         /\ Row' = [r \in ResultSets |-> IF r \in Kept THEN Row[r] ELSE 0]
         /\ Prepared' = {} /\ Kept' = Kept
         /\ isInTransaction' = FALSE
<1>1. /\ ~openTx
      /\ statement' = [r \in ResultSets |-> IF r \in openResultSets THEN None
                                                                    ELSE statement[r]]
      /\ shouldAutoClose' = shouldAutoClose \ openResultSets
      /\ openResultSets' = {}
      /\ UNCHANGED <<isInTransaction, referenced>>
  BY DEF Close
<1>2. PICK p : Settle(p, {statement[r] : r \in openResultSets})
  BY DEF Close
<1>3. \A r \in ResultSets : statement'[r] = IF r \in Kept THEN statement[r] ELSE None
  BY <1>1 DEF Kept
<1>4. ASSUME NEW r \in Kept
      PROVE  position'[statement[r]] = position[statement[r]]
  <2>1. r \in ResultSets /\ statement[r] \in Statements /\ r \notin openResultSets
    BY DEF Kept, TypeOK
  <2>2. statement[r] \in Read'
    <3>1. statement' \in [ResultSets -> Statements \cup {None}]
      BY <1>1 DEF TypeOK
    <3>2. statement'[r] = statement[r] /\ statement[r] # None
      BY <1>3, <2>1, ConnectionAssumption
    <3>. QED
      BY <2>1, <3>1, <3>2, ReadOf DEF Read
  <2>3. statement[r] \notin {statement[x] : x \in openResultSets}
    BY <2>1, ConnectionAssumption DEF CacheInvariant, StatementsNotShared, TypeOK
  <2>. QED
    BY <1>2, <2>1, <2>2, <2>3 DEF Settle
<1>5. State' = [r \in ResultSets |->
                  IF State[r] = "open" /\ r \notin Kept THEN "closed" ELSE State[r]]
  BY <1>1, <1>3 DEF State, Kept, LifeInvariant
<1>6. Row' = [r \in ResultSets |-> IF r \in Kept THEN Row[r] ELSE 0]
  BY <1>3, <1>4 DEF Row, Kept
<1>7. Prepared' = {}
  BY <1>1, <1>3 DEF Prepared, Kept, LifeInvariant
<1>8. Kept' = Kept
  BY <1>1, <1>3 DEF Kept
<1>. QED
  BY <1>1, <1>5, <1>6, <1>7, <1>8 DEF LifeInvariant, TypeOK
-----------------------------------------------------------------------------
(* Every step is a step of DarwinResultSets or changes nothing of it. *)
LEMMA StepMaps ==
  ASSUME TypeOK, CacheInvariant, LifeInvariant,
         "closeInTransaction" \notin Misuses, [Next]_vars
  PROVE  [Promise!Next]_Promise!vars
<1>0. TypeOK' /\ MaxRows \in Nat
  BY TypeStep, ConnectionAssumption
<1>. USE DEF Promise!Next, Promise!vars, Promise!results
<1>a. ASSUME UNCHANGED <<State, Row, Prepared, Kept>>, UNCHANGED connectionVars
      PROVE  UNCHANGED Promise!vars
  BY <1>a DEF connectionVars, State, Row, Prepared, Kept
<1>1. CASE Open
  <2>1. UNCHANGED <<State, Row, Prepared, Kept, isInTransaction>>
    BY <1>1 DEF Open, statementVars, resultSetVars, State, Row, Prepared, Kept
  <2>2. CASE handle' = "open"
    BY <2>1, <2>2 DEF Promise!Open, State, Row, Prepared, Kept
  <2>3. CASE handle' = "failed"
    BY <1>1, <2>1, <2>3 DEF Open, State, Row, Prepared, Kept
  <2>. QED
    BY <1>1, <2>2, <2>3 DEF Open
<1>2. CASE Close
  <2>1. handle' = "nil"
    BY <1>2 DEF Close
  <2>. QED
    BY <1>2, <2>1, CloseMoves DEF Promise!Close, State, Row, Prepared, Kept
<1>3. CASE ClearCachedStatements
  <2>1. UNCHANGED <<State, Row, Prepared, Kept>> /\ UNCHANGED connectionVars
    BY <1>3, SettleUnmoved DEF ClearCachedStatements, resultSetVars
  <2>. QED
    BY <1>a, <2>1
<1>4. CASE SetShouldCacheStatements
  <2>1. UNCHANGED <<State, Row, Prepared, Kept>> /\ UNCHANGED connectionVars
    BY <1>4, SettleUnmoved DEF SetShouldCacheStatements, resultSetVars
  <2>. QED
    BY <1>a, <2>1
<1>5. ASSUME NEW q \in Queries, ValueForQuery(q) PROVE UNCHANGED Promise!vars
  BY <1>5, <1>a, RunToEndUnmoved DEF ValueForQuery
<1>6. ASSUME NEW q \in Queries, Begin(q) PROVE Promise!Begin
  <2>1. /\ UNCHANGED <<State, Row, Prepared, Kept>> /\ UNCHANGED handle
        /\ handle = "open" /\ ~isInTransaction /\ isInTransaction' = TRUE
    BY <1>6, RunToEndUnmoved DEF Begin, LifeInvariant
  <2>. QED
    BY <2>1 DEF Promise!Begin, State, Row, Prepared, Kept
<1>7. ASSUME NEW q \in Queries, EndTransaction(q) PROVE Promise!EndTransaction
  <2>1. /\ UNCHANGED <<State, Row, Prepared, Kept>> /\ UNCHANGED handle
        /\ isInTransaction /\ isInTransaction' = FALSE
    BY <1>7, RunToEndUnmoved DEF EndTransaction, LifeInvariant
  <2>. QED
    BY <2>1 DEF Promise!EndTransaction, State, Row, Prepared, Kept
<1>8. ASSUME NEW r \in ResultSets, NEW q \in Queries, ExecuteQuery(r, q)
      PROVE  Promise!ExecuteQuery(r)
  <2>1. NewResultSet(r, q, 0) /\ shouldAutoClose' = shouldAutoClose \cup {r}
    BY <1>8 DEF ExecuteQuery
  <2>2. /\ State[r] = "none" /\ State' = [State EXCEPT ![r] = "open"]
        /\ Row' = [Row EXCEPT ![r] = 0] /\ Prepared' = Prepared /\ Kept' = Kept
    BY <2>1, NewMoves
  <2>3. handle = "open" /\ UNCHANGED connectionVars
    BY <2>1 DEF NewResultSet
  <2>. QED
    BY <2>2, <2>3 DEF Promise!ExecuteQuery, Promise!New, State, Row, Prepared, Kept,
       connectionVars
<1>9. ASSUME NEW r \in ResultSets, NEW q \in Queries, Prepare(r, q)
      PROVE  Promise!Prepare(r)
  <2>1. NewResultSet(r, q, 0) /\ shouldAutoClose' = shouldAutoClose
    BY <1>9 DEF Prepare
  <2>2. /\ State[r] = "none" /\ State' = [State EXCEPT ![r] = "open"]
        /\ Row' = [Row EXCEPT ![r] = 0] /\ Prepared' = Prepared \cup {r} /\ Kept' = Kept
    BY <2>1, NewMoves
  <2>3. handle = "open" /\ UNCHANGED connectionVars
    BY <2>1 DEF NewResultSet
  <2>. QED
    BY <2>2, <2>3 DEF Promise!Prepare, Promise!New, State, Row, Prepared, Kept, connectionVars
<1>10. ASSUME NEW r \in ResultSets, NEW q \in Queries, ExecuteUpdate(r, q)
       PROVE  Promise!ExecuteUpdate(r) \/ UNCHANGED Promise!vars
  <2>1. CASE RunToEnd(q) /\ UNCHANGED connectionVars
    BY <1>a, <2>1, RunToEndUnmoved
  <2>2. CASE NewResultSet(r, q, 1) /\ shouldAutoClose' = shouldAutoClose \cup {r}
    <3>1. /\ State[r] = "none" /\ State' = [State EXCEPT ![r] = "open"]
          /\ Row' = [Row EXCEPT ![r] = 1] /\ Prepared' = Prepared /\ Kept' = Kept
      BY <2>2, NewMoves
    <3>2. handle = "open" /\ UNCHANGED connectionVars
      BY <2>2 DEF NewResultSet
    <3>. QED
      BY <3>1, <3>2 DEF Promise!ExecuteUpdate, Promise!New, State, Row, Prepared, Kept,
         connectionVars
  <2>. QED
    BY <1>10, <2>1, <2>2 DEF ExecuteUpdate
<1>11. ASSUME NEW r \in ResultSets, StepRow(r) PROVE Promise!Step(r)
  <2>1. /\ State[r] = "open" /\ Row[r] < MaxRows
        /\ Row' = [Row EXCEPT ![r] = @ + 1] /\ UNCHANGED <<State, Prepared, Kept>>
    <3>1. /\ statement[r] # None /\ r \in referenced
          /\ Row[r] = position[statement[r]] /\ Row[r] < MaxRows
      BY <1>11 DEF StepRow, LifeInvariant, Row
    <3>2. position' = [position EXCEPT ![statement[r]] = Row[r] + 1]
      BY <1>11, <3>1 DEF StepRow
    <3>3. Row' = [Row EXCEPT ![r] = Row[r] + 1] /\ UNCHANGED <<State, Prepared, Kept>>
      BY <1>11, <3>1, <3>2, RowMoves DEF StepRow, resultSetVars
    <3>. QED
      BY <3>1, <3>3 DEF State
  <2>2. UNCHANGED connectionVars
    BY <1>11 DEF StepRow
  <2>. QED
    BY <2>1, <2>2 DEF Promise!Step, State, Row, Prepared, Kept, connectionVars
<1>12. ASSUME NEW r \in ResultSets, StepEnd(r) PROVE Promise!Step(r)
  <2>1. State[r] = "open" /\ statement[r] # None
    BY <1>12 DEF StepEnd, LifeInvariant, State
  <2>2. CASE r \in shouldAutoClose
    <3>1. CloseStatement(r) /\ UNCHANGED referenced /\ UNCHANGED connectionVars
      BY <1>12, <2>2 DEF StepEnd, CloseStatement
    <3>2. /\ Row' = [Row EXCEPT ![r] = 0]
          /\ Prepared' = Prepared \ {r} /\ Kept' = Kept \ {r}
      BY <1>0, <3>1, EndMoves
    <3>3. State' = [State EXCEPT ![r] = "closed"] /\ r \notin Prepared
      BY <2>1, <2>2, <3>1 DEF CloseStatement, State, Prepared, LifeInvariant, TypeOK
    <3>. QED
      BY <2>1, <3>1, <3>2, <3>3 DEF Promise!Step, Promise!End, State, Row, Prepared, Kept,
         connectionVars
  <2>3. CASE r \notin shouldAutoClose
    <3>1. /\ position' = [position EXCEPT ![statement[r]] = 0]
          /\ UNCHANGED <<connectionVars, resultSetVars>>
      BY <1>12, <2>3 DEF StepEnd
    <3>2. Row' = [Row EXCEPT ![r] = 0] /\ UNCHANGED <<State, Prepared, Kept>>
      BY <2>1, <3>1, RowMoves DEF resultSetVars
    <3>3. r \in Prepared
      BY <2>1, <2>3 DEF Prepared
    <3>. QED
      BY <2>1, <3>1, <3>2, <3>3 DEF Promise!Step, State, Row, Prepared, Kept, connectionVars
  <2>. QED
    BY <2>2, <2>3
<1>13. ASSUME NEW r \in ResultSets, Bind(r) \/ BindFails(r) PROVE Promise!Bind(r)
  <2>1. /\ r \in Prepared /\ Row' = [Row EXCEPT ![r] = 0]
        /\ UNCHANGED <<State, Prepared, Kept>>
    BY <1>13, BindMoves
  <2>2. UNCHANGED connectionVars
    BY <1>13 DEF Bind, BindFails, BindFailed
  <2>. QED
    BY <2>1, <2>2 DEF Promise!Bind, State, Row, Prepared, Kept, connectionVars
<1>14. ASSUME NEW r \in ResultSets, KeepCursor(r) PROVE Promise!KeepCursor(r)
  <2>1. /\ r \in referenced /\ statement[r] # None /\ r \in shouldAutoClose
        /\ position[statement[r]] > 0
        /\ openResultSets' = openResultSets \ {r}
        /\ UNCHANGED <<connectionVars, position, statement, shouldAutoClose, referenced>>
    BY <1>14 DEF KeepCursor, statementVars, LifeInvariant
  <2>2. State[r] = "open" /\ Row[r] > 0 /\ r \notin Prepared
    BY <2>1 DEF State, Row, Prepared
  <2>3. Kept' = Kept \cup {r} /\ UNCHANGED <<State, Row, Prepared>>
    BY <2>1 DEF State, Row, Prepared, Kept
  <2>. QED
    BY <2>1, <2>2, <2>3 DEF Promise!KeepCursor, State, Row, Prepared, Kept, connectionVars
<1>15. ASSUME NEW r \in ResultSets, CloseResultSet(r) PROVE Promise!CloseResultSet(r)
  <2>1. /\ CloseStatement(r) /\ UNCHANGED referenced /\ UNCHANGED connectionVars
        /\ State[r] = "open"
    BY <1>15 DEF CloseResultSet, CloseStatement, LifeInvariant, State
  <2>2. /\ Row' = [Row EXCEPT ![r] = 0]
        /\ Prepared' = Prepared \ {r} /\ Kept' = Kept \ {r}
    BY <1>0, <2>1, EndMoves
  <2>3. State' = [State EXCEPT ![r] = "closed"]
    BY <2>1 DEF CloseStatement, State, TypeOK
  <2>. QED
    BY <2>1, <2>2, <2>3 DEF Promise!CloseResultSet, Promise!End, State, Row, Prepared, Kept,
       connectionVars
<1>16. ASSUME NEW r \in ResultSets, Dealloc(r) PROVE Promise!Dealloc(r)
  <2>1. /\ CloseStatement(r) /\ UNCHANGED connectionVars
        /\ r \in referenced /\ referenced' = referenced \ {r}
    BY <1>16 DEF Dealloc, CloseStatement
  <2>2. /\ Row' = [Row EXCEPT ![r] = 0]
        /\ Prepared' = Prepared \ {r} /\ Kept' = Kept \ {r}
    BY <1>0, <2>1, EndMoves
  <2>3. State[r] # "none" /\ State' = [State EXCEPT ![r] = "none"]
    BY <2>1 DEF CloseStatement, State, TypeOK
  <2>. QED
    BY <2>1, <2>2, <2>3 DEF Promise!Dealloc, Promise!End, State, Row, Prepared, Kept,
       connectionVars
<1>17. ASSUME NEW q \in Queries, ExecuteQueryFails(q) PROVE UNCHANGED Promise!vars
  BY <1>17, <1>a, ExecuteQueryFailsUnmoved
<1>18. CASE UNCHANGED vars
  BY <1>18, <1>a DEF vars, resultSetVars, statementVars, State, Row, Prepared, Kept
<1>. QED
  BY <1>1, <1>2, <1>3, <1>4, <1>5, <1>6, <1>7, <1>8, <1>9, <1>10, <1>11, <1>12,
     <1>13, <1>14, <1>15, <1>16, <1>17, <1>18
     DEF Next, Connection, ResultSet

LEMMA InitMaps == Init => Promise!Init
BY DEF Init, Promise!Init

(* The connection, its statement cache and its result sets behave as the   *)
(* headers declare: each result set moves by itself through its rows and   *)
(* closes once, closing the connection closes them all, and isInTransaction *)
(* is what begin, commit and rollback have made it; for any number of      *)
(* queries, statements and result sets.                                    *)
THEOREM Implements ==
  ASSUME "rebindCached" \notin Misuses, "closeInTransaction" \notin Misuses
  PROVE  Spec => ImplementsResultSets
<1>. DEFINE Inv == TypeOK /\ CacheInvariant /\ LifeInvariant
<1>1. Init => Inv
  <2>1. Init => CacheInvariant
    BY InitCache
  <2>2. Init => LifeInvariant
    BY DEF Init, LifeInvariant
  <2>. QED
    BY <2>1, <2>2, InitTyped
<1>2. Inv /\ [Next]_vars => Inv'
  BY TypeStep, CacheStep, LifeStep
<1>3. Inv /\ [Next]_vars => [Promise!Next]_Promise!vars
  BY StepMaps
<1>. HIDE DEF Inv
<1>. QED
  BY <1>1, <1>2, <1>3, InitMaps, PTL DEF Spec, ImplementsResultSets, Promise!Spec
=============================================================================
