------------------------------- MODULE Schema -------------------------------
(***************************************************************************)
(* Schema migrations and index repair (src/migrations.go and               *)
(* src/index_repair.go): sessions that run InitSchema or RepairIndexes on  *)
(* a connection of their own, under the migration advisory lock, while     *)
(* builds of two schema versions are deployed side by side.                *)
(*                                                                         *)
(* A step is one statement or transaction.  Version v stands for one       *)
(* migration and for the index it brings: built in the transaction that    *)
(* records the version or, for v in NonTx, by an applyNonTx phase that     *)
(* runs CREATE INDEX CONCURRENTLY IF NOT EXISTS before it.                 *)
(***************************************************************************)
EXTENDS Naturals, FiniteSets, FiniteSetsExt

CONSTANTS
    SchemaVersion,  \* the version this build knows
    Migrators,      \* calls of InitSchema by this build
    Newer,          \* calls of InitSchema by the next build, one version ahead
    Repairers,      \* calls of RepairIndexes
    NonTx,          \* versions with an applyNonTx phase
    Faults,         \* failing statements and crashes, as a member of Mixes
    Mixes,          \* bound: the sets of actors, and queues, that meet
    Nobody,         \* the lock is free
    Pool            \* the lock is left with an idle connection of the pool

ASSUME SchemaAssumption ==
    /\ SchemaVersion \in Nat \ {0}
    /\ NonTx \subseteq 1..(SchemaVersion + 1)
    /\ Nobody # Pool /\ {Nobody, Pool} \cap (Migrators \cup Newer \cup Repairers) = {}
    /\ Repairers \cap (Migrators \cup Newer) = {}

VARIABLES
    mix,            \* the actors and queues of this behaviour
    holder,         \* who has the migration lock, exclusively
    shared,         \* transactions with the migration lock, shared
    versions,       \* rows of pgqueue_schema_version
    index,          \* pg_index: absent, invalid, valid
    at,             \* sessions: where they are
    next,           \* sessions: the migration the loop is at
    bad,            \* sessions: invalid indexes still to repair
    redo,           \* sessions: index dropped and not recreated yet
    outcome,        \* sessions: what the call returned
    failed          \* ghost: indexes reported in Failed, or dropped by a session that died

Sessions == Migrators \cup Newer \cup Repairers
Versions == 1..(SchemaVersion + 1)
Known(s) == IF s \in Newer THEN SchemaVersion + 1 ELSE SchemaVersion
NoVersion == 0

session == <<at, next, bad, redo, outcome>>
schemaVars == <<mix, holder, shared, versions, index, session, failed>>

SchemaTypeOK ==
    /\ mix \in Mixes
    /\ holder \in Sessions \cup {Nobody, Pool}
    /\ versions \subseteq Versions
    /\ index \in [Versions -> {"absent", "invalid", "valid"}]
    /\ at \in [Sessions -> {"never", "idle", "waiting", "load", "apply", "record", "find",
                            "repair", "recreate", "returned"}]
    /\ next \in [Sessions -> 0..(SchemaVersion + 2)]
    /\ bad \in [Sessions -> SUBSET Versions]
    /\ redo \in [Sessions -> Versions \cup {NoVersion}]
    /\ outcome \in [Sessions -> {"none", "nil", "error"}]
    /\ failed \subseteq Versions

\* A database that was never initialized, or one this build has migrated.
SchemaInit ==
    /\ mix \in Mixes
    /\ holder = Nobody /\ shared = {}
    /\ versions \in {{}, 1..SchemaVersion}
    /\ index = [v \in Versions |-> IF v \in versions THEN "valid" ELSE "absent"]
    /\ at = [s \in Sessions |-> IF s \in mix THEN "idle" ELSE "never"]
    /\ next = [s \in Sessions |-> 0]
    /\ bad = [s \in Sessions |-> {}]
    /\ redo = [s \in Sessions |-> NoVersion]
    /\ outcome = [s \in Sessions |-> "none"]
    /\ failed = {}

-----------------------------------------------------------------------------
schemaVersion == Max(versions \cup {0})

\* Session s moves on and touches nothing else of its own.
Goto(s, from, to) ==
    /\ at[s] = from
    /\ at' = [at EXCEPT ![s] = to]

\* Fault: an error return forgets the deferred unlock.
FinishUnreleased(s, result) ==
    /\ at' = [at EXCEPT ![s] = "returned"]
    /\ outcome' = [outcome EXCEPT ![s] = result]
    /\ holder' = IF result = "nil" THEN Nobody ELSE holder
    /\ UNCHANGED <<mix, shared, next, bad, redo>>

\* The deferred unlock runs on every way out, and a session that dies loses its locks.
\* An unlock that fails is only logged, and the connection goes back to the pool with the
\* lock.
Finish(s, result) ==
    /\ at' = [at EXCEPT ![s] = "returned"]
    /\ outcome' = [outcome EXCEPT ![s] = result]
    /\ \/ holder' = IF holder = s THEN Nobody ELSE holder
       \/ Faults \in mix /\ holder = s /\ holder' = Pool
    /\ UNCHANGED <<mix, shared, next, bad, redo>>

\* The pool closes the connection that still has the lock, or its process ends.
ConnectionCloses ==
    /\ holder = Pool /\ holder' = Nobody
    /\ UNCHANGED <<mix, shared, versions, index, session, failed>>

\* The dedicated connection asks for the lock.
InitSchema(s) ==
    /\ Goto(s, "idle", "waiting")
    /\ UNCHANGED <<mix, holder, shared, versions, index, next, bad, redo, outcome, failed>>

acquireMigrationLock(s) ==
    /\ holder = Nobody /\ shared = {}
    /\ Goto(s, "waiting", IF s \in Repairers THEN "find" ELSE "load")
    /\ holder' = s
    /\ UNCHANGED <<mix, shared, versions, index, next, bad, redo, outcome, failed>>

\* A database newer than the build is refused.
loadSchemaVersion(s) ==
    /\ at[s] = "load"
    /\ IF schemaVersion > Known(s)
         THEN Finish(s, "error")
         ELSE /\ Goto(s, "load", "apply")
              /\ next' = [next EXCEPT ![s] = schemaVersion + 1]
              /\ UNCHANGED <<mix, holder, shared, bad, redo, outcome>>
    /\ UNCHANGED <<versions, index, failed>>

\* CREATE INDEX CONCURRENTLY IF NOT EXISTS: skips whatever has the name.
createIndexConcurrently(v) ==
    index' = IF index[v] = "absent" THEN [index EXCEPT ![v] = "valid"] ELSE index

\* The first phase of the next migration, outside any transaction.
applyNonTx(s) ==
    /\ next[s] <= Known(s)
    /\ Goto(s, "apply", "record")
    /\ IF next[s] \in NonTx THEN createIndexConcurrently(next[s]) ELSE UNCHANGED index
    /\ UNCHANGED <<mix, holder, shared, versions, next, bad, redo, outcome, failed>>

\* The second phase and the version row, in one transaction.
applyMigration(s) ==
    /\ Goto(s, "record", "apply") /\ next[s] \notin versions
    /\ versions' = versions \cup {next[s]}
    /\ index' = IF next[s] \in NonTx THEN index ELSE [index EXCEPT ![next[s]] = "valid"]
    /\ next' = [next EXCEPT ![s] = @ + 1]
    /\ UNCHANGED <<mix, holder, shared, bad, redo, outcome, failed>>

\* Fault: invalid indexes are left to an explicit RepairIndexes.
repairSkipped(s) ==
    /\ at[s] = "apply" /\ next[s] > Known(s)
    /\ Finish(s, "nil")
    /\ UNCHANGED <<versions, index, failed>>

\* Nothing is left to apply; the repair pass runs on every call.
repairIndexesAfterMigrations(s) ==
    /\ next[s] > Known(s)
    /\ Goto(s, "apply", "find")
    /\ UNCHANGED <<mix, holder, shared, next, bad, redo, outcome, versions, index, failed>>

findInvalidIndexes(s) ==
    /\ Goto(s, "find", "repair")
    /\ bad' = [bad EXCEPT ![s] = {v \in Versions : index[v] = "invalid"}]
    /\ UNCHANGED <<mix, holder, shared, versions, index, next, redo, outcome, failed>>

\* recreateIndex, first statement.  A failed DROP leaves the index as it was.
recreateIndexDrops(s, v) ==
    /\ at[s] = "repair" /\ v \in bad[s]
    /\ bad' = [bad EXCEPT ![s] = @ \ {v}]
    /\ \/ /\ Goto(s, "repair", "recreate")
          /\ index' = [index EXCEPT ![v] = "absent"]
          /\ redo' = [redo EXCEPT ![s] = v]
          /\ UNCHANGED failed
       \/ /\ Faults \in mix
          /\ failed' = failed \cup {v}
          /\ UNCHANGED <<at, index, redo>>
    /\ UNCHANGED <<mix, holder, shared, versions, next, outcome>>

\* recreateIndex, second statement.  A failed CREATE is reported in Failed.
recreateIndexCreates(s) ==
    /\ Goto(s, "recreate", "repair")
    /\ \/ /\ index' = [index EXCEPT ![redo[s]] = "valid"]
          /\ UNCHANGED failed
       \/ /\ Faults \in mix
          /\ failed' = failed \cup {redo[s]}
          /\ UNCHANGED index
    /\ redo' = [redo EXCEPT ![s] = NoVersion]
    /\ UNCHANGED <<mix, holder, shared, versions, next, bad, outcome>>

repairInvalidIndexes(s) ==
    /\ at[s] = "repair" /\ bad[s] = {}
    /\ Finish(s, "nil")
    /\ UNCHANGED <<versions, index, failed>>

\* A statement fails, the context ends or the process dies.  The transaction is rolled
\* back; an interrupted concurrent build stays behind as an invalid index.
SessionFails(s) ==
    /\ Faults \in mix /\ at[s] \notin {"never", "idle", "returned"}
    /\ Finish(s, "error")
    /\ \/ UNCHANGED index
       \/ /\ at[s] = "apply" /\ next[s] \in NonTx /\ next[s] <= Known(s)
          /\ index[next[s]] = "absent"
          /\ index' = [index EXCEPT ![next[s]] = "invalid"]
    /\ failed' = IF at[s] = "recreate" THEN failed \cup {redo[s]} ELSE failed
    /\ UNCHANGED versions

runMigrations(s) ==
    \/ acquireMigrationLock(s) \/ loadSchemaVersion(s) \/ applyNonTx(s) \/ applyMigration(s)
    \/ repairIndexesAfterMigrations(s) \/ findInvalidIndexes(s)
    \/ (\E v \in Versions : recreateIndexDrops(s, v)) \/ recreateIndexCreates(s)
    \/ repairInvalidIndexes(s)

-----------------------------------------------------------------------------
(* Properties. *)

\* An InitSchema that returned nil leaves its schema complete: every version up to its own
\* recorded, and each index valid, although the attempt before it crashed inside an
\* applyNonTx build whose leftover IF NOT EXISTS skips.  Excepted are indexes whose
\* repair failed (migrations are resumed, then the repair pass runs).
InitHeals ==
    \A s \in Migrators \cup Newer : outcome[s] = "nil" =>
        \A v \in 1..Known(s) : v \in versions /\ (index[v] = "valid" \/ v \in failed)

=============================================================================
