---------------------------- MODULE CatalogProofs ----------------------------
(***************************************************************************)
(* Theorems about module Catalog, for any number of calls, sessions and    *)
(* names and any cap.                                                      *)
(*                                                                         *)
(* CallInv says which phase a call can be in and when it has the migration *)
(* lock; Classified and OnlyCommits say which steps matter for rows and    *)
(* tables.                                                                 *)
(*                                                                         *)
(* CatalogConsistent is not inductive: CapInv and OwnInv say what a create *)
(* past its count or its INSERT still knows of the committed rows when it  *)
(* commits.                                                                *)
(***************************************************************************)
EXTENDS Catalog, FiniteSetTheorems, TLAPS

\* Time for the provers: a leaf that names no method of its own gets these.
USE SMTT(30), ZenonT(30)

-----------------------------------------------------------------------------
(* Rows and tables, and the steps that they depend on. *)

\* The create's row is in its transaction, and not committed yet.
Inserted(c) == pc[c] \in {"tables", "commit"}

\* Rows have tables of their own, every table has its row or is a stray, and a create that
\* has inserted its row takes a table no row and no other such create has.
OwnInv ==
    /\ \A m, n \in rows : TableOf[m] = TableOf[n] => m = n
    /\ \A t \in tables : t \in strays \/ \E n \in rows : TableOf[n] = t
    /\ \A c \in Creates : Inserted(c) =>
         /\ \A n \in rows : TableOf[n] # Table(c)
         /\ \A o \in Creates : Inserted(o) /\ Table(o) = Table(c) => o = c

\* The catalog does not change, and no create inserts its row.
Still ==
    /\ UNCHANGED catalog
    /\ \A o \in Creates : Inserted(o)' => Inserted(o) /\ Table(o)' = Table(o)

\* A row is inserted: no other row, and no open insert, uses its tables.
Inserts(c) ==
    /\ UNCHANGED catalog
    /\ \A n \in rows : TableOf[n] # Table(c)
    /\ \A o \in Creates \ {c} : Inserted(o) => Table(o) # Table(c)

\* The row and its tables are committed.
Created(c) ==
    /\ c \in Creates /\ Inserted(c) /\ ~Inserted(c)'
    /\ rows' = rows \cup {name[c]} /\ tables' = tables \cup {Table(c)}
    /\ strays' = strays \ {Table(c)}

\* A delete is committed: row and tables go, or one of them only.
Deleted(c) ==
    /\ c \notin Creates
    /\ \/ rows' = rows /\ strays \ {Table(c)} \subseteq strays' /\ tables' = tables \ {Table(c)}
       \/ rows' = rows /\ strays' = strays /\ tables' = tables
       \/ rows' = rows \ {name[c]} /\ strays \ {Table(c)} \subseteq strays' /\ tables' = tables \ {Table(c)}
       \/ rows' = rows \ {name[c]} /\ strays' = strays \cup ({Table(c)} \cap tables) /\ tables' = tables

\* The other calls do not move, and no call changes its queue.
Alone(c) == \A o \in Creates : Table(o)' = Table(o) /\ (o # c => pc'[o] = pc[o])

\* UNIQUE (table_name) keeps two creates from one table (createQueueMetadata), and a delete
\* that removes a row whose tables it did not drop leaves strays (executeDelete).
LEMMA OwnInvStep ==
    ASSUME OwnInv, Still \/ \E c \in Calls : Alone(c) /\ (Inserts(c) \/ Created(c) \/ Deleted(c))
    PROVE  OwnInv'
<1>1. Still => OwnInv'
  BY DEF Still, OwnInv, catalog
<1>2. ASSUME NEW c, Alone(c), Inserts(c) PROVE OwnInv'
  BY <1>2 DEF Inserts, Alone, OwnInv, Inserted, catalog
<1>3. ASSUME NEW c, Alone(c), Created(c) PROVE OwnInv'
  <2> USE <1>3 DEF Created
  <2>1. \A m, n \in rows' : TableOf[m] = TableOf[n] => m = n
    BY DEF OwnInv, Table
  <2>2. \A t \in tables' : t \in strays' \/ \E n \in rows' : TableOf[n] = t
    BY DEF OwnInv, Table
  <2>3. \A o \in Creates : Inserted(o)' => o # c /\ Inserted(o) /\ Table(o)' = Table(o)
    BY DEF Alone, Inserted
  <2>4. ASSUME NEW o \in Creates, Inserted(o)', NEW n \in rows' PROVE TableOf[n] # Table(o)
    BY <2>3, <2>4 DEF OwnInv, Table
  <2> QED BY <2>1, <2>2, <2>3, <2>4 DEF OwnInv
<1>4. ASSUME NEW c, Alone(c), Deleted(c) PROVE OwnInv'
  <2>1. rows' \subseteq rows /\ \A o \in Creates : (Inserted(o)' <=> Inserted(o)) /\ Table(o)' = Table(o)
    BY <1>4 DEF Alone, Deleted, Inserted
  <2>2. \A t \in tables' : t \in strays' \/ \E n \in rows' : TableOf[n] = t
    BY <1>4 DEF Deleted, OwnInv, Table
  <2> QED BY <2>1, <2>2 DEF OwnInv
<1> QED BY <1>1, <1>2, <1>3, <1>4, Zenon

-----------------------------------------------------------------------------
(* The calls. *)

Phases == {"never", "idle", "check", "store", "table", "begin", "count", "insert",
           "tables", "drop", "delete", "invalidate", "commit", "cleanup", "returned"}

\* The types the proof needs of module Catalog's own variables.
CallTypes ==
    /\ pc \in [Calls -> Phases]
    /\ name \in [Calls -> Names \cup {NoName}]
    /\ maxQueues \in Nat

\* Phases of a call, and the migration lock: a transaction that will change the catalog
\* shares it, and nobody shares it while a session holds it.
CallRoles ==
    /\ \A c \in Calls :
         /\ pc[c] \notin {"never", "idle"} => name[c] \in Names
         /\ pc[c] \in {"table", "count", "insert", "tables"} => c \in Creates
         /\ pc[c] \in {"drop", "delete", "invalidate", "cleanup"} => c \in Deletes
         /\ pc[c] \in {"begin", "commit"} => c \in Creates \cup Deletes
         /\ pc[c] \in {"count", "insert", "tables", "drop", "delete", "invalidate", "commit"} => c \in shared
    /\ holder # Nobody => shared = {}

CallRows == rows \subseteq Names /\ IsFiniteSet(rows)

CallInv == CallTypes /\ CallRoles /\ CallRows

-----------------------------------------------------------------------------
(* The steps that matter. *)

\* Steps of the sessions touch nothing of the calls, and take the lock when nobody shares it.
SessionStep ==
    /\ UNCHANGED <<admin, pc, name, victim, shared>>
    /\ holder' = Nobody \/ holder # Nobody \/ shared = {}

\* InitSchema and RepairIndexes leave the calls and what they read alone, and take the
\* migration lock only when no transaction shares it (acquireMigrationLock).
LEMMA SessionsSteps ==
    ASSUME NEW s \in Sessions, Migrate(s) \/ ((InitSchema(s) \/ SessionFails(s)) /\ UNCHANGED <<admin, pc, name, victim, cache>>)
    PROVE  SessionStep
<1> USE SchemaAssumption DEF SessionStep, Sessions
<1>1. CASE Migrate(s)
  <2>0. UNCHANGED <<admin, pc, name, victim>>
    BY <1>1 DEF Migrate
  <2>1. CASE acquireMigrationLock(s)
    BY <2>0, <2>1 DEF acquireMigrationLock
  <2>2. CASE loadSchemaVersion(s)
    BY <2>0, <2>2 DEF loadSchemaVersion, Finish
  <2>3. CASE applyNonTx(s)
    BY <2>0, <2>3 DEF applyNonTx
  <2>4. CASE applyMigration(s)
    BY <2>0, <2>4 DEF applyMigration
  <2>5. CASE repairIndexesAfterMigrations(s)
    BY <2>0, <2>5 DEF repairIndexesAfterMigrations
  <2>6. CASE findInvalidIndexes(s)
    BY <2>0, <2>6 DEF findInvalidIndexes
  <2>7. ASSUME NEW v \in Versions, recreateIndexDrops(s, v) PROVE SessionStep
    BY <2>0, <2>7 DEF recreateIndexDrops
  <2>8. CASE recreateIndexCreates(s)
    BY <2>0, <2>8 DEF recreateIndexCreates
  <2>9. CASE repairInvalidIndexes(s)
    BY <2>0, <2>9 DEF repairInvalidIndexes, Finish
  <2> QED BY <1>1, <2>1, <2>2, <2>3, <2>4, <2>5, <2>6, <2>7, <2>8, <2>9 DEF Migrate, runMigrations
<1>2. CASE InitSchema(s) /\ UNCHANGED <<admin, pc, name, victim, cache>>
  BY <1>2 DEF InitSchema
<1>3. CASE SessionFails(s) /\ UNCHANGED <<admin, pc, name, victim, cache>>
  BY <1>3 DEF SessionFails, Finish
<1> QED BY <1>1, <1>2, <1>3

-----------------------------------------------------------------------------
(* CallInv is inductive. *)

\* No call has begun and nobody has the lock when the process starts.
LEMMA CallInvInit == Init => CallInv
<1> SUFFICES ASSUME Init PROVE CallInv
  OBVIOUS
<1> USE CatalogAssumption DEF Init, SchemaInit
<1>1. CallTypes
  BY DEF CallTypes, Phases, Untouched
<1>2. CallRoles
  BY DEF CallRoles
<1>3. CallRows
  BY FS_EmptySet DEF CallRows
<1> QED BY <1>1, <1>2, <1>3 DEF CallInv

\* Every step keeps the variables of the calls in their types.
LEMMA CallTypesStep == CallInv /\ [Next]_vars => CallTypes'
<1> SUFFICES ASSUME CallInv, [Next]_vars PROVE CallTypes'
  OBVIOUS
<1> USE CatalogAssumption DEF CallInv, CallTypes, Phases, Calls, admin, catalog
<1>1. New => CallTypes'
  BY DEF New, schemaVars
<1>2. ASSUME NEW c \in Calls, Step(c) PROVE CallTypes'
  <2>1. getQueueMetadata(c) => CallTypes'
    BY DEF getQueueMetadata, Goes, schemaVars
  <2>2. set(c) => CallTypes'
    BY DEF set, Goes, schemaVars
  <2>3. checkTableNameNotExists(c) => CallTypes'
    BY DEF checkTableNameNotExists, Goes, schemaVars
  <2>4. createQueueInTx(c) => CallTypes'
    BY DEF createQueueInTx, SharedLockFree, Goes
  <2>5. enforceMaxQueues(c) => CallTypes'
    BY DEF enforceMaxQueues, Goes, EndTx, schemaVars
  <2>6. createQueueMetadata(c) \/ createQueueTables(c) => CallTypes'
    BY DEF createQueueMetadata, createQueueTables, Goes, EndTx, schemaVars
  <2>7. createCommits(c) => CallTypes'
    BY DEF createCommits, Goes, EndTx
  <2>8. executeDelete(c) \/ executeDrops(c) \/ deleteQueueMetadata(c) => CallTypes'
    BY DEF executeDelete, executeDrops, deleteQueueMetadata, SharedLockFree, Goes, schemaVars
  <2>9. invalidateQueueCaches(c) => CallTypes'
    BY DEF invalidateQueueCaches, Goes, schemaVars
  <2>10. deleteCommits(c) => CallTypes'
    BY DEF deleteCommits, Goes, EndTx, Untouched
  <2>11. deleteCleansUp(c) => CallTypes'
    BY DEF deleteCleansUp, Goes, schemaVars
  <2> QED BY <1>2, <2>1, <2>2, <2>3, <2>4, <2>5, <2>6, <2>7, <2>8, <2>9, <2>10, <2>11 DEF Step
<1>3. ASSUME NEW c \in Calls, CallFails(c) PROVE CallTypes'
  BY <1>3 DEF CallFails, EndTx, Untouched
<1>4. ASSUME NEW c \in Calls, NEW n \in Names, Begin(c, n) PROVE CallTypes'
  BY <1>4 DEF Begin, schemaVars
<1>5. ASSUME NEW n \in Names, evict(n) PROVE CallTypes'
  BY <1>5 DEF evict, schemaVars
<1>6. SessionStep \/ (ConnectionCloses /\ UNCHANGED <<admin, pc, name, victim, cache>>) => CallTypes'
  BY DEF SessionStep, ConnectionCloses
<1>7. UNCHANGED vars => CallTypes'
  BY DEF vars, schemaVars
<1> QED BY <1>1, <1>2, <1>3, <1>4, <1>5, <1>6, <1>7, SessionsSteps DEF Next

\* Every step keeps the phases in order and the migration lock shared or exclusive:
\* createQueue and deleteQueue take it shared before they touch the catalog.
LEMMA CallRolesStep == CallInv /\ [Next]_vars => CallRoles'
<1> SUFFICES ASSUME CallInv, [Next]_vars PROVE CallRoles'
  OBVIOUS
<1> USE CatalogAssumption DEF CallInv, CallTypes, CallRoles, Calls, admin, catalog
<1>1. New => CallRoles'
  BY SMTT(30) DEF New, schemaVars
<1>2. ASSUME NEW c \in Calls, Step(c) PROVE CallRoles'
  <2>1. getQueueMetadata(c) => CallRoles'
    BY DEF getQueueMetadata, Goes, schemaVars
  <2>2. set(c) => CallRoles'
    BY DEF set, Goes, schemaVars
  <2>3. checkTableNameNotExists(c) => CallRoles'
    BY DEF checkTableNameNotExists, Goes, schemaVars
  <2>4. createQueueInTx(c) => CallRoles'
    BY DEF createQueueInTx, SharedLockFree, Goes
  <2>5. enforceMaxQueues(c) => CallRoles'
    BY DEF enforceMaxQueues, Goes, EndTx, schemaVars
  <2>6. createQueueMetadata(c) \/ createQueueTables(c) => CallRoles'
    BY DEF createQueueMetadata, createQueueTables, Goes, EndTx, schemaVars
  <2>7. createCommits(c) => CallRoles'
    BY DEF createCommits, Goes, EndTx
  <2>8. executeDelete(c) \/ executeDrops(c) \/ deleteQueueMetadata(c) => CallRoles'
    BY DEF executeDelete, executeDrops, deleteQueueMetadata, SharedLockFree, Goes, schemaVars
  <2>9. invalidateQueueCaches(c) => CallRoles'
    BY DEF invalidateQueueCaches, Goes, schemaVars
  <2>10. deleteCommits(c) => CallRoles'
    BY DEF deleteCommits, Goes, EndTx, Untouched
  <2>11. deleteCleansUp(c) => CallRoles'
    BY DEF deleteCleansUp, Goes, schemaVars
  <2> QED BY <1>2, <2>1, <2>2, <2>3, <2>4, <2>5, <2>6, <2>7, <2>8, <2>9, <2>10, <2>11, ZenonT(30) DEF Step
<1>3. ASSUME NEW c \in Calls, CallFails(c) PROVE CallRoles'
  BY <1>3 DEF CallFails, EndTx, Untouched
<1>4. ASSUME NEW c \in Calls, NEW n \in Names, Begin(c, n) PROVE CallRoles'
  BY <1>4 DEF Begin, schemaVars
<1>5. ASSUME NEW n \in Names, evict(n) PROVE CallRoles'
  BY <1>5 DEF evict, schemaVars
<1>6. SessionStep \/ (ConnectionCloses /\ UNCHANGED <<admin, pc, name, victim, cache>>) => CallRoles'
  BY DEF SessionStep, ConnectionCloses
<1>7. UNCHANGED vars => CallRoles'
  BY DEF vars, schemaVars
<1> QED BY <1>1, <1>2, <1>3, <1>4, <1>5, <1>6, <1>7, SessionsSteps DEF Next

-----------------------------------------------------------------------------
(* What the invariants on rows and tables have to be checked against. *)

\* The step commits nothing, and no create comes past its count or its INSERT.
Quiet ==
    /\ UNCHANGED <<catalog, maxQueues>>
    /\ \A c \in Creates :
         /\ pc'[c] \in {"insert", "tables", "commit"} => pc[c] \in {"insert", "tables", "commit"}
         /\ pc'[c] \in {"tables", "commit"} => pc[c] \in {"tables", "commit"} /\ name'[c] = name[c]

Advance(c) ==
    createQueueInTx(c) \/ enforceMaxQueues(c) \/ createQueueMetadata(c) \/ createCommits(c) \/ deleteCommits(c)

\* Every step but five is quiet: only createQueue's transaction up to its INSERT and the
\* commits matter.
LEMMA Classified == CallInv /\ [Next]_vars => Quiet \/ \E c \in Calls : Advance(c)
<1> SUFFICES ASSUME CallInv, [Next]_vars PROVE Quiet \/ \E c \in Calls : Advance(c)
  OBVIOUS
<1> USE CatalogAssumption DEF CallInv, CallTypes, CallRoles, Calls, admin, catalog, Quiet
<1>1. New => Quiet
  BY SMTT(30) DEF New
<1>2. ASSUME NEW c \in Calls, Step(c) PROVE Quiet \/ Advance(c)
  <2>1. getQueueMetadata(c) => Quiet
    BY DEF getQueueMetadata, Goes
  <2>2. set(c) => Quiet
    BY DEF set, Goes
  <2>3. checkTableNameNotExists(c) => Quiet
    BY DEF checkTableNameNotExists, Goes
  <2>4. createQueueTables(c) => Quiet
    BY DEF createQueueTables, Goes
  <2>5. executeDelete(c) \/ executeDrops(c) \/ deleteQueueMetadata(c) => Quiet
    BY DEF executeDelete, executeDrops, deleteQueueMetadata, Goes
  <2>6. invalidateQueueCaches(c) \/ deleteCleansUp(c) => Quiet
    BY DEF invalidateQueueCaches, deleteCleansUp, Goes
  <2> QED BY <1>2, <2>1, <2>2, <2>3, <2>4, <2>5, <2>6, ZenonT(30) DEF Step, Advance
<1>3. ASSUME NEW c \in Calls, CallFails(c) PROVE Quiet
  BY <1>3 DEF CallFails
<1>4. ASSUME NEW c \in Calls, NEW n \in Names, Begin(c, n) PROVE Quiet
  BY <1>4 DEF Begin
<1>5. ASSUME NEW n \in Names, evict(n) PROVE Quiet
  BY <1>5 DEF evict
<1>6. SessionStep \/ UNCHANGED <<admin, pc, name, victim, cache>> => Quiet
  BY DEF SessionStep
<1>7. UNCHANGED vars => Quiet
  BY SMTT(30) DEF vars
<1> QED BY <1>1, <1>2, <1>3, <1>4, <1>5, <1>6, <1>7, SessionsSteps DEF Next

\* Only the commits of createQueue and deleteQueue change the catalog.
LEMMA OnlyCommits ==
    CallInv /\ [Next]_vars =>
        UNCHANGED <<rows, tables>> \/ \E c \in Calls : createCommits(c) \/ deleteCommits(c)
BY Classified, ZenonT(30) DEF Quiet, Advance, createQueueInTx, enforceMaxQueues, createQueueMetadata,
   admin, catalog

\* CallInv is kept by every step; the rows stay finitely many names.
LEMMA CallInvStep == CallInv /\ [Next]_vars => CallInv'
<1> SUFFICES ASSUME CallInv, [Next]_vars PROVE CallInv'
  OBVIOUS
<1>1. UNCHANGED <<rows, tables>> => CallRows'
  BY Zenon DEF CallInv, CallRows
<1>2. ASSUME NEW c \in Calls, createCommits(c) \/ deleteCommits(c) PROVE CallRows'
  <2>1. IsFiniteSet(rows \cup {name[c]}) /\ IsFiniteSet(rows \ {name[c]})
    BY FS_AddElement, FS_RemoveElement DEF CallInv, CallRows
  <2>2. pc[c] = "commit" /\ name[c] \in Names
    BY <1>2 DEF createCommits, deleteCommits, Goes, CallInv, CallRoles
  <2> QED BY <1>2, <2>1, <2>2 DEF createCommits, deleteCommits, CallInv, CallRows
<1> QED BY <1>1, <1>2, OnlyCommits, CallTypesStep, CallRolesStep, Zenon DEF CallInv

-----------------------------------------------------------------------------
(* Rows and tables depend on no other step. *)

\* Rows and tables depend on three statements of createQueue's and deleteQueue's transactions.
LEMMA Classed ==
    ASSUME CallInv, [Next]_vars
    PROVE  Still \/ \E c \in Calls : Alone(c) /\ (Inserts(c) \/ Created(c) \/ Deleted(c))
<1>0. pc \in [Calls -> Phases] /\ Creates \subseteq Calls /\ Creates \cap Deletes = {}
  BY CatalogAssumption DEF CallInv, CallTypes, Calls
<1>1. Quiet => Still
  BY Zenon DEF Quiet, Still, Inserted, Table
<1>2. ASSUME NEW c \in Calls, NEW p, pc' = [pc EXCEPT ![c] = p], UNCHANGED name PROVE Alone(c)
  BY <1>0, <1>2 DEF Alone, Table
<1>3. ASSUME NEW c \in Calls, NEW p, pc' = [pc EXCEPT ![c] = p], UNCHANGED <<catalog, name>>, p \notin {"tables", "commit"}
      PROVE  Still
  BY <1>0, <1>3 DEF Still, Inserted, Table
<1>4. ASSUME NEW c \in Calls, createQueueInTx(c) \/ enforceMaxQueues(c) PROVE Still
  <2>1. /\ UNCHANGED <<catalog, name>>
        /\ \E p \in {"insert", "count", "returned"} : pc' = [pc EXCEPT ![c] = p]
    BY <1>4, Zenon DEF createQueueInTx, enforceMaxQueues, Goes, admin
  <2> QED BY <1>3, <2>1, Zenon
<1>5. ASSUME NEW c \in Calls, createQueueMetadata(c) PROVE Still \/ (Alone(c) /\ Inserts(c))
  <2>1. UNCHANGED <<catalog, name>> /\ ~RowLocked(Table(c), c)
        /\ \/ pc' = [pc EXCEPT ![c] = "returned"]
           \/ pc' = [pc EXCEPT ![c] = "tables"] /\ \A n \in rows : TableOf[n] # Table(c)
    BY <1>5, Zenon DEF createQueueMetadata, Goes, admin
  <2>2. CASE pc' = [pc EXCEPT ![c] = "returned"]
    <3>1. "returned" \notin {"tables", "commit"} /\ UNCHANGED <<catalog, name>>
      BY <2>1
    <3> QED BY <1>3, <2>2, <3>1, Zenon
  <2>3. CASE pc' = [pc EXCEPT ![c] = "tables"] /\ \A n \in rows : TableOf[n] # Table(c)
    <3>1. Inserts(c)
      BY <2>1, <2>3, Zenon DEF Inserts, RowLocked, Inserted
    <3> QED BY <1>2, <2>1, <2>3, <3>1, Zenon
  <2> QED BY <2>1, <2>2, <2>3
<1>6. ASSUME NEW c \in Calls, createCommits(c) PROVE Alone(c) /\ Created(c)
  BY <1>0, <1>2, <1>6, Zenon DEF createCommits, Goes, Created, Inserted
<1>7. ASSUME NEW c \in Calls, deleteCommits(c) PROVE Alone(c) /\ Deleted(c)
  <2>1. Alone(c)
    BY <1>0, <1>2, <1>7 DEF deleteCommits, Goes
  <2>2. Deleted(c)
    BY <1>0, <1>7 DEF deleteCommits, Deleted
  <2> QED BY <2>1, <2>2
<1> QED BY <1>1, <1>4, <1>5, <1>6, <1>7, Classified, Zenon DEF Advance

-----------------------------------------------------------------------------
(* The cap. *)

\* With a cap, one create at a time is past the count, and there is still room for it.
CapInv ==
    maxQueues > 0 =>
        /\ Cardinality(rows) <= maxQueues
        /\ \A c \in Creates : pc[c] \in {"insert", "tables", "commit"} =>
              /\ Cardinality(rows) < maxQueues
              /\ \A o \in Creates \ {c} : pc[o] \notin {"insert", "tables", "commit"}

CatalogInv == CallInv /\ CapInv /\ OwnInv

\* What adding or removing one row does to the count enforceMaxQueues takes.
LEMMA CountSteps ==
    ASSUME NEW S, NEW x, IsFiniteSet(S)
    PROVE  /\ Cardinality(S) \in Nat
           /\ Cardinality(S \cup {x}) \in Nat /\ Cardinality(S \cup {x}) <= Cardinality(S) + 1
           /\ Cardinality(S \ {x}) \in Nat /\ Cardinality(S \ {x}) <= Cardinality(S)
<1>1. Cardinality(S) \in Nat
  BY FS_CardinalityType
<1>2. Cardinality(S \cup {x}) = IF x \in S THEN Cardinality(S) ELSE Cardinality(S) + 1
  BY FS_AddElement
<1>3. /\ IsFiniteSet(S \ {x})
      /\ Cardinality(S \ {x}) = IF x \in S THEN Cardinality(S) - 1 ELSE Cardinality(S)
  BY FS_RemoveElement
<1>4. Cardinality(S \ {x}) \in Nat
  BY <1>3, FS_CardinalityType
<1> QED BY <1>1, <1>2, <1>3, <1>4

\* The cap is kept: the creation lock is held from the count to the commit
\* (enforceMaxQueues), and a delete can only make room.
LEMMA CapInvStep == CatalogInv /\ [Next]_vars => CapInv'
<1> SUFFICES ASSUME CatalogInv, [Next]_vars, (maxQueues > 0)' PROVE CapInv'
  BY DEF CapInv
<1>0. /\ CallInv /\ CapInv /\ IsFiniteSet(rows) /\ maxQueues \in Nat
      /\ pc \in [Calls -> Phases] /\ Creates \subseteq Calls
  BY DEF CatalogInv, CallInv, CallTypes, CallRows, Calls
<1>1. Quiet => CapInv'
  BY <1>0 DEF Quiet, CapInv, catalog
<1>2. ASSUME NEW c \in Calls, Advance(c) PROVE CapInv'
  <2> USE <1>0 DEF CapInv, catalog
  <2>1. createQueueInTx(c) => CapInv'
    BY DEF createQueueInTx, Goes, admin
  <2>2. enforceMaxQueues(c) => CapInv'
    BY DEF enforceMaxQueues, Goes, admin
  <2>3. createQueueMetadata(c) => CapInv'
    BY DEF createQueueMetadata, Goes, admin
  <2>4. CASE createCommits(c)
    <3>1. /\ Cardinality(rows) \in Nat
          /\ Cardinality(rows \cup {name[c]}) \in Nat
          /\ Cardinality(rows \cup {name[c]}) <= Cardinality(rows) + 1
      BY CountSteps, ZenonT(30)
    <3> QED BY <2>4, <3>1 DEF createCommits, Goes
  <2>5. CASE deleteCommits(c)
    <3>1. /\ Cardinality(rows) \in Nat
          /\ Cardinality(rows \ {name[c]}) \in Nat
          /\ Cardinality(rows \ {name[c]}) <= Cardinality(rows)
      BY CountSteps, ZenonT(30)
    <3>2. (rows' = rows \/ rows' = rows \ {name[c]}) /\ maxQueues' = maxQueues
      BY <2>5, Zenon DEF deleteCommits
    <3>3. \A o \in Creates : pc'[o] = pc[o]
      BY <2>5, CatalogAssumption DEF deleteCommits, Goes
    <3> QED BY <3>1, <3>2, <3>3
  <2> QED BY <1>2, <2>1, <2>2, <2>3, <2>4, <2>5, Zenon DEF Advance
<1> QED BY <1>0, <1>1, <1>2, Classified, Zenon

-----------------------------------------------------------------------------
(* The theorems. *)

\* The cap holds, no two queues use the same tables and no table is without its queue but
\* the strays of a delete whose DROP and DELETE saw different catalogs, for any number of concurrent CreateChannel, DeleteChannel and InitSchema calls in any
\* number of processes, any cap and any sanitizeTableName.
THEOREM CatalogAlwaysConsistent == Spec => []CatalogConsistent
<1>1. Init => CatalogInv
  <2> SUFFICES ASSUME Init PROVE CatalogInv
    OBVIOUS
  <2>1. CapInv
    BY CatalogAssumption, FS_EmptySet DEF Init, CapInv, Calls
  <2>2. OwnInv
    BY CatalogAssumption DEF Init, OwnInv, Inserted, Calls
  <2> QED BY <2>1, <2>2, CallInvInit DEF CatalogInv
<1>2. CatalogInv /\ [Next]_vars => CatalogInv'
  BY CallInvStep, CapInvStep, Classed, OwnInvStep, Zenon DEF CatalogInv
<1>3. CatalogInv => CatalogConsistent
  BY DEF CatalogInv, CapInv, OwnInv, CatalogConsistent
<1> QED BY <1>1, <1>2, <1>3, PTL DEF Spec

\* While InitSchema or RepairIndexes holds the migration lock no CreateChannel or
\* DeleteChannel commits, for any number of them (acquireMigrationLock's lock is exclusive,
\* theirs shared).
THEOREM CatalogAlwaysStill == Spec => CatalogStill
<1>1. CallInv /\ [Next]_vars => [holder # Nobody => UNCHANGED <<rows, tables>>]_vars
  <2> SUFFICES ASSUME CallInv, [Next]_vars, holder # Nobody PROVE UNCHANGED <<rows, tables>>
    OBVIOUS
  <2>1. ASSUME NEW c \in Calls PROVE pc[c] # "commit"
    BY DEF CallInv, CallRoles
  <2> QED BY Zenon, <2>1, OnlyCommits DEF createCommits, deleteCommits, Goes
<1> QED BY <1>1, CallInvInit, CallInvStep, PTL DEF Spec, CatalogStill

-----------------------------------------------------------------------------
(* The metadata cache. *)

\* CacheForgets needs no help but the types: a lookup that stores what it read, the two
\* invalidations of deleteQueue and both kinds of commit each keep it.
LEMMA CacheStep ==
    ASSUME CallInv, [Next]_vars, CacheForgets
    PROVE  CacheForgets'
<1>0. pc \in [Calls -> Phases] /\ name \in [Calls -> Names \cup {NoName}] /\ Deletes \subseteq Calls
  BY DEF CallInv, CallTypes, Calls
<1>1. ASSUME UNCHANGED <<rows, cached, excused, name>>,
             \A d \in Deletes : pc[d] = "cleanup" => pc'[d] = "cleanup"
      PROVE  CacheForgets'
  BY <1>1, Zenon DEF CacheForgets, CleaningUp
<1>2. ASSUME NEW c \in Calls, set(c) PROVE CacheForgets'
  <2>1. UNCHANGED <<rows, name>> /\ \A d \in Deletes : pc[d] = "cleanup" => pc'[d] = "cleanup"
    BY <1>0, <1>2 DEF set, Goes, admin, catalog
  <2>2. \A n : CleaningUp(n) => CleaningUp(n)'
    BY <2>1, Zenon DEF CleaningUp
  <2> QED BY <1>2, <2>1, <2>2 DEF set, cache, CacheForgets
<1>3. ASSUME NEW c \in Calls, createCommits(c) PROVE CacheForgets'
  <2>1. UNCHANGED name /\ \A d \in Deletes : pc[d] = "cleanup" => pc'[d] = "cleanup"
    BY <1>0, <1>3 DEF createCommits, Goes
  <2>2. \A n : CleaningUp(n) => CleaningUp(n)'
    BY <2>1, Zenon DEF CleaningUp
  <2> QED BY <1>3, <2>2 DEF createCommits, CacheForgets
<1>4. ASSUME NEW c \in Calls, deleteCommits(c) PROVE CacheForgets'
  <2>1. UNCHANGED name /\ \A d \in Deletes : pc[d] = "cleanup" => pc'[d] = "cleanup"
    BY <1>0, <1>4 DEF deleteCommits, Goes
  <2>2. \A n : CleaningUp(n) => CleaningUp(n)'
    BY <2>1, Zenon DEF CleaningUp
  <2>3. ASSUME NEW n \in cached, n = name[c] PROVE n \in excused' \/ CleaningUp(n)'
    BY <1>0, <1>4, <2>1, <2>3 DEF deleteCommits, Goes, CleaningUp
  <2>4. cached' = cached /\ excused \subseteq excused' /\ rows \ {name[c]} \subseteq rows'
    BY Zenon, <1>4 DEF deleteCommits
  <2>5. ASSUME NEW n \in cached, n # name[c] PROVE n \in rows' \/ n \in excused' \/ CleaningUp(n)'
    BY <2>2, <2>4, <2>5, Zenon DEF CacheForgets
  <2> QED BY <2>3, <2>4, <2>5, Zenon DEF CacheForgets
<1>5. ASSUME NEW c \in Calls, invalidateQueueCaches(c) \/ deleteCleansUp(c) PROVE CacheForgets'
  <2>1. UNCHANGED <<rows, name>> /\ \A d \in Deletes \ {c} : pc[d] = "cleanup" => pc'[d] = "cleanup"
    BY <1>0, <1>5 DEF invalidateQueueCaches, deleteCleansUp, Goes, admin, catalog
  <2>2. /\ \A n : n # name[c] /\ CleaningUp(n) => CleaningUp(n)'
        /\ c \in Remote => \A n : CleaningUp(n) => CleaningUp(n)'
    BY <2>1, Zenon DEF CleaningUp
  <2> QED BY Zenon, <1>5, <2>1, <2>2 DEF invalidateQueueCaches, deleteCleansUp, Invalidated, cache, CacheForgets
<1>6. ASSUME NEW n \in Names, evict(n) PROVE CacheForgets'
  BY <1>6 DEF evict, CacheForgets, CleaningUp, admin, catalog
<1>7. ASSUME NEW c \in Calls, CallFails(c) \/ \E n \in Names : Begin(c, n) PROVE CacheForgets'
  <2>1. UNCHANGED <<rows, cached, excused>>
    BY <1>7 DEF CallFails, Begin, admin, catalog, cache
  <2>2. \A d \in Deletes : pc[d] = "cleanup" => pc'[d] = "cleanup" /\ name'[d] = name[d]
    BY <1>0, <1>7 DEF CallFails, Begin
  <2>3. \A n : CleaningUp(n) => CleaningUp(n)'
    BY <2>2 DEF CleaningUp
  <2> QED BY <2>1, <2>3, Zenon DEF CacheForgets
<1>8. ASSUME NEW c \in Calls,
             \/ getQueueMetadata(c) \/ checkTableNameNotExists(c) \/ createQueueInTx(c)
             \/ enforceMaxQueues(c) \/ createQueueMetadata(c) \/ createQueueTables(c)
             \/ executeDelete(c) \/ executeDrops(c) \/ deleteQueueMetadata(c)
      PROVE  CacheForgets'
  <2>1. UNCHANGED <<rows, cached, excused, name>>
    BY Zenon, <1>8 DEF getQueueMetadata, checkTableNameNotExists, createQueueInTx, enforceMaxQueues,
       createQueueMetadata, createQueueTables, executeDelete, executeDrops, deleteQueueMetadata,
       admin, catalog, cache
  <2>2. \A d \in Deletes : pc[d] = "cleanup" => pc'[d] = "cleanup"
    BY Zenon, <1>0, <1>8 DEF getQueueMetadata, checkTableNameNotExists, createQueueInTx, enforceMaxQueues,
       createQueueMetadata, createQueueTables, executeDelete, executeDrops, deleteQueueMetadata, Goes
  <2> QED BY <1>1, <2>1, <2>2
<1>9. ASSUME NEW c \in Calls, Step(c) PROVE CacheForgets'
  BY <1>2, <1>3, <1>4, <1>5, <1>8, <1>9, Zenon DEF Step
<1>10. ASSUME UNCHANGED <<admin, pc, name, cache>> PROVE CacheForgets'
  BY <1>1, <1>10 DEF admin, catalog, cache
<1>11. CASE New
  BY <1>1, <1>11 DEF New, catalog, cache
<1>12. CASE UNCHANGED vars
  BY <1>10, <1>12 DEF vars
<1> QED BY <1>6, <1>7, <1>9, <1>10, <1>11, <1>12, Zenon DEF Next, Migrate

\* After a local DeleteChannel has returned nil, no number of lookups, creates and deletes
\* beside it, here or in other processes, leaves a stale entry other than the excused ones.
THEOREM CacheAlwaysForgets == Spec => []CacheForgets
<1>1. Init => CacheForgets
  BY DEF Init, CacheForgets
<1>2. CallInv /\ CacheForgets /\ [Next]_vars => CallInv' /\ CacheForgets'
  BY CacheStep, CallInvStep
<1> QED BY <1>1, <1>2, CallInvInit, PTL DEF Spec
=============================================================================
