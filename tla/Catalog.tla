------------------------------ MODULE Catalog -------------------------------
(***************************************************************************)
(* Queue administration: createQueue and deleteQueue of src/pgqueue.go on  *)
(* pgqueue_metadata and the per-queue tables, the lookups of the other     *)
(* operations, and the metadata cache of one process                       *)
(* (src/metadatacache.go), beside the migrations of module Schema.         *)
(*                                                                         *)
(* A name stands for a queue type and a queue name.  Several names can be  *)
(* sanitized to one table name.  What a transaction did becomes visible at *)
(* its commit; the rows and tables it changed are locked until then, and   *)
(* each of its statements sees what was committed when it began (READ      *)
(* COMMITTED).  The message, dead-letter and subscription tables of a      *)
(* queue count as one.  The age of a cache entry is left out: it may       *)
(* expire at any moment.                                                   *)
(***************************************************************************)
EXTENDS Schema, Functions

CONSTANTS
    Names,          \* queue types and names, as members of Mixes
    TableOf,        \* sanitizeTableName, per name
    Creates,        \* calls of CreateChannel and CreateTopic
    Deletes,        \* calls of DeleteChannel and DeleteTopic
    Lookups,        \* calls that resolve a queue: publish, receive, ack, stats...
    Remote,         \* the calls made in another process
    Caps,           \* values of WithMaxQueues; 0 is no cap
    NoName

ASSUME CatalogAssumption ==
    /\ Remote \subseteq Creates \cup Deletes \cup Lookups
    /\ Caps \subseteq Nat
    /\ Creates \cap Deletes = {} /\ (Creates \cup Deletes) \cap Lookups = {}

VARIABLES
    rows,           \* names with a committed row in pgqueue_metadata
    tables,         \* committed per-queue tables
    opened,         \* New returned a Queue
    maxQueues,      \* the cap every process is configured with
    pc,             \* calls: where they are
    name,           \* calls: the queue they are about
    victim,         \* deletes: the row and the tables their transaction removed
    strays,         \* ghost: tables a delete did not find when it dropped, but whose row
                    \* it found when it deleted
    cached,         \* the process's metadata cache: names with an entry
    excused         \* ghost: stale entries deleteQueue's invalidations do not cover

Calls == Creates \cup Deletes \cup Lookups
Untouched == [row |-> FALSE, table |-> FALSE]
Table(c) == TableOf[name[c]]

catalog == <<rows, tables, strays>>
admin == <<catalog, opened, maxQueues>>
cache == <<cached, excused>>
vars == <<schemaVars, admin, pc, name, victim, cache>>

TypeOK ==
    /\ SchemaTypeOK
    /\ shared \subseteq Calls
    /\ rows \subseteq Names /\ tables \subseteq Range(TableOf) /\ strays \subseteq tables
    /\ opened \in BOOLEAN /\ maxQueues \in Caps
    /\ pc \in [Calls -> {"never", "idle", "check", "store", "table", "begin", "count", "insert",
                         "tables", "drop", "delete", "invalidate", "commit", "cleanup", "returned"}]
    /\ name \in [Calls -> Names \cup {NoName}]
    /\ victim \in [Deletes -> [row: BOOLEAN, table: BOOLEAN]]
    /\ cached \subseteq Names /\ excused \subseteq Names

Init ==
    /\ SchemaInit
    /\ rows = {} /\ tables = {} /\ strays = {} /\ opened = FALSE
    /\ maxQueues \in Caps
    /\ pc = [c \in Calls |-> IF c \in mix THEN "idle" ELSE "never"]
    /\ name = [c \in Calls |-> NoName]
    /\ victim = [d \in Deletes |-> Untouched]
    /\ cached = {} /\ excused = {}

-----------------------------------------------------------------------------
(* Building blocks. *)

\* A shared request waits for the exclusive holder and behind an exclusive waiter.
SharedLockFree == holder = Nobody /\ \A s \in Sessions : at[s] # "waiting"

Goes(c, from, to) ==
    /\ pc[c] = from
    /\ pc' = [pc EXCEPT ![c] = to]

\* Transaction c ends: its locks are released.
EndTx(c) ==
    /\ shared' = shared \ {c}
    /\ UNCHANGED <<mix, holder, versions, index, session, failed>>

\* New: refuse a database that is behind or ahead of this build.
New ==
    /\ ~opened /\ schemaVersion = SchemaVersion
    /\ opened' = TRUE
    /\ UNCHANGED <<schemaVars, catalog, maxQueues, pc, name, victim, cache>>

\* A call begins; cachedTableName is content with an entry that has not expired.
Begin(c, n) ==
    /\ opened /\ pc[c] = "idle" /\ n \in mix
    /\ name' = [name EXCEPT ![c] = n]
    /\ \/ pc' = [pc EXCEPT ![c] = "check"]
       \/ c \in Lookups \ Remote /\ n \in cached /\ pc' = [pc EXCEPT ![c] = "returned"]
    /\ UNCHANGED <<schemaVars, admin, victim, cache>>

\* The SELECT of getQueueMetadata.
getQueueMetadata(c) ==
    /\ \/ name[c] \in rows /\ Goes(c, "check", "store")
       \/ name[c] \notin rows /\ Goes(c, "check", IF c \in Creates THEN "table" ELSE "returned")
    /\ UNCHANGED <<schemaVars, admin, name, victim, cache>>

\* A delete of n whose invalidation after the commit is still to come.
CleaningUp(n) == \E d \in Deletes \ Remote : name[d] = n /\ pc[d] = "cleanup"

\* The rest of getQueueMetadata: store what was read.  A create finds the queue exists.
set(c) ==
    /\ Goes(c, "store", IF c \in Deletes THEN "begin" ELSE "returned")
    /\ IF c \in Remote
         THEN UNCHANGED cache
         ELSE /\ cached' = cached \cup {name[c]}
              /\ excused' = IF name[c] \in rows \/ CleaningUp(name[c])
                              THEN excused \ {name[c]} ELSE excused \cup {name[c]}
    /\ UNCHANGED <<schemaVars, admin, name, victim>>

\* The TTL in get, the collector's sweep, and eviction at capacity.
evict(n) ==
    /\ n \in cached
    /\ cached' = cached \ {n} /\ excused' = excused \ {n}
    /\ UNCHANGED <<schemaVars, admin, pc, name, victim>>

-----------------------------------------------------------------------------
(* createQueue. *)

checkTableNameNotExists(c) ==
    /\ Goes(c, "table", IF \E n \in rows : TableOf[n] = Table(c) THEN "returned" ELSE "begin")
    /\ UNCHANGED <<schemaVars, admin, name, victim, cache>>

\* Open the transaction and share the migration lock.
createQueueInTx(c) ==
    /\ c \in Creates /\ SharedLockFree
    /\ Goes(c, "begin", IF maxQueues = 0 THEN "insert" ELSE "count")
    /\ shared' = shared \cup {c}
    /\ UNCHANGED <<mix, holder, versions, index, session, failed, admin, name, victim, cache>>

\* Fault: the count is taken without the queue-creation lock.
enforceMaxQueuesUnlocked(c) ==
    /\ \/ Cardinality(rows) < maxQueues /\ Goes(c, "count", "insert") /\ UNCHANGED schemaVars
       \/ Cardinality(rows) >= maxQueues /\ Goes(c, "count", "returned") /\ EndTx(c)
    /\ UNCHANGED <<admin, name, victim, cache>>

\* Take the queue-creation lock, which is kept to the end of the transaction, and count.
enforceMaxQueues(c) ==
    /\ \A o \in Creates \ {c} : pc[o] \notin {"insert", "tables", "commit"}
    /\ \/ Cardinality(rows) < maxQueues /\ Goes(c, "count", "insert") /\ UNCHANGED schemaVars
       \/ Cardinality(rows) >= maxQueues /\ Goes(c, "count", "returned") /\ EndTx(c)
    /\ UNCHANGED <<admin, name, victim, cache>>

\* An open transaction inserted or deleted a row that uses the table.
RowLocked(t, c) ==
    \/ \E o \in Creates \ {c} : pc[o] \in {"tables", "commit"} /\ Table(o) = t
    \/ \E d \in Deletes : pc[d] \in {"invalidate", "commit"} /\ Table(d) = t /\ victim[d].row

\* An open transaction dropped the table, or adopted a committed one.
TableLocked(t, c) ==
    \/ \E d \in Deletes \ {c} :
          pc[d] \in {"delete", "invalidate", "commit"} /\ Table(d) = t /\ victim[d].table
    \/ t \in tables /\ \E o \in Creates \ {c} : pc[o] = "commit" /\ Table(o) = t

\* INSERT the row, unless UNIQUE (type, name) or UNIQUE (table_name) objects.
createQueueMetadata(c) ==
    /\ pc[c] = "insert" /\ ~RowLocked(Table(c), c)
    /\ \/ /\ \E n \in rows : TableOf[n] = Table(c)
          /\ Goes(c, "insert", "returned") /\ EndTx(c)
       \/ /\ \A n \in rows : TableOf[n] # Table(c)
          /\ Goes(c, "insert", "tables") /\ UNCHANGED schemaVars
    /\ UNCHANGED <<admin, name, victim, cache>>

\* CREATE TABLE IF NOT EXISTS, which adopts tables that are there, and their indexes.
\* Tables an open delete has dropped are still there for the first statement, and then
\* the CREATE INDEX fails on them.
createQueueTables(c) ==
    /\ pc[c] = "tables"
    /\ IF TableLocked(Table(c), c)
         THEN Goes(c, "tables", "returned") /\ EndTx(c)
         ELSE Goes(c, "tables", "commit") /\ UNCHANGED schemaVars
    /\ UNCHANGED <<admin, name, victim, cache>>

createCommits(c) ==
    /\ c \in Creates /\ Goes(c, "commit", "returned") /\ EndTx(c)
    /\ rows' = rows \cup {name[c]} /\ tables' = tables \cup {Table(c)}
    /\ strays' = strays \ {Table(c)}
    /\ excused' = excused \ {name[c]}
    /\ UNCHANGED <<opened, maxQueues, name, victim, cached>>

-----------------------------------------------------------------------------
(* deleteQueue. *)

\* Fault: the transaction does not share the migration lock.
executeDeleteUnlocked(c) ==
    /\ c \in Deletes /\ Goes(c, "begin", "drop")
    /\ UNCHANGED <<schemaVars, admin, name, victim, cache>>

\* Open the transaction and share the migration lock.
executeDelete(c) ==
    /\ c \in Deletes /\ SharedLockFree /\ Goes(c, "begin", "drop")
    /\ shared' = shared \cup {c}
    /\ UNCHANGED <<mix, holder, versions, index, session, failed, admin, name, victim, cache>>

\* DROP TABLE IF EXISTS: passes over tables of a create that has not committed.
executeDrops(c) ==
    /\ Goes(c, "drop", "delete") /\ ~TableLocked(Table(c), c)
    /\ victim' = [victim EXCEPT ![c] = [row |-> FALSE, table |-> Table(c) \in tables]]
    /\ UNCHANGED <<schemaVars, admin, name, cache>>

\* DELETE the row if it is there; wait for another delete that took it.
deleteQueueMetadata(c) ==
    /\ Goes(c, "delete", "invalidate")
    /\ \A d \in Deletes \ {c} :
          pc[d] \in {"invalidate", "commit"} /\ name[d] = name[c] => ~victim[d].row
    /\ victim' = [victim EXCEPT ![c].row = name[c] \in rows]
    /\ UNCHANGED <<schemaVars, admin, name, cache>>

Invalidated(c) ==
    IF c \in Remote THEN UNCHANGED cache
    ELSE cached' = cached \ {name[c]} /\ excused' = excused \ {name[c]}

\* The first of the two invalidations, inside the transaction.
invalidateQueueCaches(c) ==
    /\ Goes(c, "invalidate", "commit") /\ Invalidated(c)
    /\ UNCHANGED <<schemaVars, admin, name, victim>>

\* Commit.  It may be done and still be reported as an error, and then, as in another
\* process, no invalidation follows.
deleteCommits(c) ==
    /\ c \in Deletes /\ pc[c] = "commit" /\ EndTx(c)
    /\ rows' = IF victim[c].row THEN rows \ {name[c]} ELSE rows
    /\ tables' = IF victim[c].table THEN tables \ {Table(c)} ELSE tables
    /\ strays' = IF victim[c].table THEN strays \ {Table(c)}
                 ELSE IF victim[c].row THEN strays \cup ({Table(c)} \cap tables) ELSE strays
    /\ victim' = [victim EXCEPT ![c] = Untouched]
    /\ \/ c \notin Remote /\ Goes(c, "commit", "cleanup") /\ UNCHANGED excused
       \/ /\ c \in Remote \/ Faults \in mix
          /\ Goes(c, "commit", "returned")
          /\ excused' = excused \cup ({name[c]} \cap cached)
    /\ UNCHANGED <<opened, maxQueues, name, cached>>

\* Fault: the entry is dropped only before the commit.
deleteCleansUpNothing(c) ==
    /\ Goes(c, "cleanup", "returned")
    /\ UNCHANGED <<schemaVars, admin, name, victim, cache>>

\* The invalidation after the commit.
deleteCleansUp(c) ==
    /\ Goes(c, "cleanup", "returned") /\ Invalidated(c)
    /\ UNCHANGED <<schemaVars, admin, name, victim>>

\* A statement fails or the context ends: the transaction is rolled back.
CallFails(c) ==
    /\ Faults \in mix
    /\ pc[c] \in {"check", "table", "begin", "count", "insert", "tables", "drop", "delete",
                 "invalidate", "commit"}
    /\ pc' = [pc EXCEPT ![c] = "returned"]
    /\ victim' = IF c \in Deletes THEN [victim EXCEPT ![c] = Untouched] ELSE victim
    /\ EndTx(c)
    /\ UNCHANGED <<admin, name, cache>>

-----------------------------------------------------------------------------
Step(c) ==
    \/ getQueueMetadata(c) \/ set(c)
    \/ checkTableNameNotExists(c) \/ createQueueInTx(c) \/ enforceMaxQueues(c)
    \/ createQueueMetadata(c) \/ createQueueTables(c) \/ createCommits(c)
    \/ executeDelete(c) \/ executeDrops(c) \/ deleteQueueMetadata(c)
    \/ invalidateQueueCaches(c) \/ deleteCommits(c) \/ deleteCleansUp(c)

Migrate(s) == runMigrations(s) /\ UNCHANGED <<admin, pc, name, victim, cache>>

Next ==
    \/ New
    \/ \E c \in Calls : Step(c) \/ CallFails(c) \/ \E n \in Names : Begin(c, n)
    \/ \E n \in Names : evict(n)
    \/ \E s \in Sessions : Migrate(s)
    \/ \E s \in Sessions : (InitSchema(s) \/ SessionFails(s)) /\ UNCHANGED <<admin, pc, name, victim, cache>>
    \/ ConnectionCloses /\ UNCHANGED <<admin, pc, name, victim, cache>>

Spec == Init /\ [][Next]_vars

\* Statements return, and somebody who can go on does.  That is enough for everybody: a
\* call takes finitely many steps.
FairSpec ==
    /\ Spec
    /\ WF_vars(\E c \in Calls : Step(c))
    /\ WF_vars(\E s \in Sessions : Migrate(s))

-----------------------------------------------------------------------------
(* Properties. *)

\* The catalog never holds more queues than the cap, no two of them use the same tables,
\* and tables are left without a queue in one way only: a delete whose DROP came before the
\* queue was created again and whose DELETE came after (enforceMaxQueues, UNIQUE
\* (table_name), executeDelete's statements in one transaction but not in one snapshot).
CatalogConsistent ==
    /\ maxQueues > 0 => Cardinality(rows) <= maxQueues
    /\ \A m, n \in rows : TableOf[m] = TableOf[n] => m = n
    /\ tables \subseteq {TableOf[n] : n \in rows} \cup strays

\* While a migration or an index repair holds the migration lock, the set of queues and
\* their tables stand still, so that a fan-out over pgqueue_metadata misses none.
CatalogStill == [][holder # Nobody => UNCHANGED <<rows, tables>>]_vars

\* After a local delete has returned nil its process has no entry for the queue, although
\* lookups ran beside it, unless one had read the row before the commit and stored it after
\* the last invalidation (deleteQueue's invalidation before and after the commit).
CacheForgets == \A n \in cached : n \in rows \/ n \in excused \/ CleaningUp(n)

\* InitSchema and RepairIndexes come to an end, whichever sessions failed before them and
\* whichever creates and deletes hold the lock shared, unless an unlock failed and its
\* connection is kept in a pool with the lock (acquireMigrationLock's release).
InitReturns == \A s \in Sessions : at[s] = "waiting" ~> at[s] = "returned" \/ holder = Pool

\* What every operation on a queue relies on once its lookup succeeded, and what
\* DeleteChannel documents (it deletes a channel and its own resources): a queue in the
\* catalog has its tables.
QueueHasTables == \A n \in rows : TableOf[n] \in tables

=============================================================================
