---------------------------- MODULE SchemaProofs ----------------------------
(***************************************************************************)
(* InitSchema leaves a complete schema: what holds at every statement of   *)
(* a migrating session, one lemma for each of them, and the theorem that   *)
(* an InitSchema that returned nil healed what earlier crashes left.       *)
(***************************************************************************)
EXTENDS Catalog, TLAPS

\* Time for the provers: a leaf that names no method of its own gets these.
USE SMTT(30), ZenonT(30)

-----------------------------------------------------------------------------
(* Migrations and index repair.  InitHeals is not inductive: SessionInv    *)
(* says what a session that holds the migration lock knows at each place,  *)
(* and Missing who accounts for an index that is not there.                *)

Repairing == {"find", "repair", "recreate"}
Active == {"load", "apply", "record"} \cup Repairing

Prefix == \E k \in 0..(SchemaVersion + 1) : versions = 1..k

SessionInv(s) ==
    /\ at[s] \in Active => holder = s
    /\ at[s] \in {"apply", "record"} => next[s] \in 1..(Known(s) + 1) /\ versions = 1..(next[s] - 1)
    /\ at[s] = "record" => next[s] <= Known(s) /\ (next[s] \in NonTx => index[next[s]] # "absent")
    /\ at[s] \in Repairing /\ s \notin Repairers => 1..Known(s) \subseteq versions
    /\ at[s] \in {"repair", "recreate"} =>
         /\ \A v \in bad[s] : index[v] = "invalid"
         /\ \A v \in versions : \/ index[v] = "valid" \/ v \in failed \/ v \in bad[s]
                                \/ at[s] = "recreate" /\ v = redo[s]
    /\ at[s] = "recreate" => redo[s] \in Versions /\ index[redo[s]] = "absent"

Missing ==
    \A v \in versions : index[v] = "absent" =>
        v \in failed \/ \E s \in Sessions : at[s] = "recreate" /\ redo[s] = v

HealInv == SchemaTypeOK /\ Prefix /\ (\A s \in Sessions : SessionInv(s)) /\ Missing /\ InitHeals

\* What a build can know, as numbers.
LEMMA KnownType ==
    /\ SchemaVersion \in Nat /\ SchemaVersion > 0
    /\ \A s : Known(s) \in Versions /\ Known(s) + 1 \in 1..(SchemaVersion + 2)
BY SchemaAssumption DEF Known, Versions

\* loadSchemaVersion's MAX over version rows without a gap.
LEMMA VersionOf ==
    ASSUME NEW k \in Nat, versions = 1..k
    PROVE  schemaVersion = k
<1>1. k \in versions \cup {0} /\ \A y \in versions \cup {0} : k >= y
  OBVIOUS
<1>2. \A x \in versions \cup {0} : (\A y \in versions \cup {0} : x >= y) => x = k
  BY <1>1
<1> QED BY <1>1, <1>2 DEF schemaVersion, Max

\* Nothing takes a complete schema apart: versions and reports stay, and a valid index is
\* never touched again.
LEMMA HealsStays ==
    ASSUME InitHeals, versions \subseteq versions', failed \subseteq failed',
           \A v \in Versions : index[v] = "valid" => index'[v] = "valid",
           \A s \in Sessions : outcome'[s] = "nil" => outcome[s] = "nil"
    PROVE  InitHeals'
<1>1. ASSUME NEW s \in Migrators \cup Newer, outcome'[s] = "nil", NEW v \in 1..Known(s)
      PROVE  v \in versions' /\ (index'[v] = "valid" \/ v \in failed')
  <2>1. v \in Versions
    BY KnownType DEF Versions
  <2> QED BY <1>1, <2>1 DEF InitHeals, Sessions
<1> QED BY <1>1, Zenon DEF InitHeals, Known

\* The session that holds the migration lock is the only one past acquireMigrationLock.
LEMMA HolderAlone ==
    ASSUME HealInv, NEW s \in Sessions, at[s] \in Active \/ holder = Nobody
    PROVE  \A t \in Sessions \ {s} : at[t] \notin Active
<1>1. Nobody \notin Sessions
  BY SchemaAssumption DEF Sessions
<1> QED BY <1>1 DEF HealInv, SessionInv

\* A step of one session preserves the invariant when it preserves the session's own part.
LEMMA HealByOne ==
    ASSUME HealInv, NEW s \in Sessions, SchemaTypeOK', Prefix', SessionInv(s)', Missing', InitHeals',
           at[s] \in Active \/ holder = Nobody,
           \A t \in Sessions \ {s} : at'[t] = at[t]
    PROVE  HealInv'
<1>1. ASSUME NEW t \in Sessions \ {s} PROVE SessionInv(t)'
  <2>1. at'[t] \notin Active
    BY HolderAlone
  <2>2. at'[t] \notin {"load", "apply", "record", "find", "repair", "recreate"}
    BY <2>1 DEF Active, Repairing
  <2> QED BY <2>2 DEF SessionInv, Active, Repairing
<1> QED BY <1>1, Zenon DEF HealInv

\* recreateIndex, the DROP: the index is the session's to recreate, or reported as failed.
LEMMA HealDrop ==
    ASSUME HealInv, NEW s \in Sessions, NEW v \in Versions, recreateIndexDrops(s, v)
    PROVE  HealInv'
<1>1. /\ at[s] = "repair" /\ v \in bad[s] /\ bad'[s] = bad[s] \ {v}
      /\ UNCHANGED <<mix, holder, versions, next, outcome>>
      /\ failed \subseteq failed' /\ failed' \subseteq failed \cup {v}
      /\ \A t \in Sessions \ {s} : at'[t] = at[t]
      /\ \A w \in Versions \ {v} : index'[w] = index[w]
      /\ \/ at'[s] = "recreate" /\ redo'[s] = v /\ index'[v] = "absent"
         \/ at'[s] = "repair" /\ index'[v] = index[v] /\ v \in failed'
  BY DEF recreateIndexDrops, Goto, HealInv, SchemaTypeOK
<1>2. /\ holder = s /\ (s \notin Repairers => 1..Known(s) \subseteq versions)
      /\ \A w \in bad[s] : index[w] = "invalid" /\ w \in Versions
      /\ \A w \in versions : w \in Versions /\ (index[w] = "valid" \/ w \in failed \/ w \in bad[s])
  BY <1>1 DEF HealInv, SessionInv, SchemaTypeOK, Active, Repairing
<1>3. SchemaTypeOK'
  <2>1. failed' \subseteq Versions
    BY <1>1 DEF HealInv, SchemaTypeOK
  <2> QED BY <2>1 DEF recreateIndexDrops, Goto, HealInv, SchemaTypeOK
<1>4. SessionInv(s)'
  <2>1. \A w \in bad'[s] : index'[w] = "invalid"
    BY <1>1, <1>2
  <2>2. \A w \in versions : \/ index'[w] = "valid" \/ w \in failed' \/ w \in bad'[s]
                            \/ at'[s] = "recreate" /\ w = redo'[s]
    BY <1>1, <1>2
  <2> QED BY Zenon, <1>1, <1>2, <2>1, <2>2 DEF SessionInv, Known
<1>5. Missing'
  <2> SUFFICES ASSUME NEW w \in versions, index'[w] = "absent", w \notin failed'
               PROVE  at'[s] = "recreate" /\ redo'[s] = w
    BY <1>1 DEF Missing
  <2>1. CASE w = v
    BY <1>1, <1>2, <2>1
  <2>2. CASE w # v
    BY <1>1, <1>2, <2>2
  <2> QED BY <2>1, <2>2
<1>6. InitHeals'
  <2>1. \A w \in Versions : index[w] = "valid" => index'[w] = "valid"
    BY <1>1, <1>2
  <2> QED BY <1>1, <2>1, HealsStays DEF HealInv
<1>7. Prefix'
  BY <1>1 DEF HealInv, Prefix
<1> QED BY <1>1, <1>3, <1>4, <1>5, <1>6, <1>7, HealByOne DEF Active, Repairing

\* recreateIndex, the CREATE: the index is valid again, or reported as failed.
LEMMA HealCreate ==
    ASSUME HealInv, NEW s \in Sessions, recreateIndexCreates(s)
    PROVE  HealInv'
<1> DEFINE v == redo[s]
<1>0. at[s] = "recreate"
  BY DEF recreateIndexCreates, Goto
<1>2. /\ holder = s /\ (s \notin Repairers => 1..Known(s) \subseteq versions)
      /\ v \in Versions /\ index[v] = "absent"
      /\ \A w \in bad[s] : index[w] = "invalid" /\ w \in Versions
      /\ \A w \in versions : /\ w \in Versions
                             /\ index[w] = "valid" \/ w \in failed \/ w \in bad[s] \/ w = v
  BY <1>0 DEF HealInv, SessionInv, SchemaTypeOK, Active, Repairing
<1>1. /\ at'[s] = "repair" /\ \A t \in Sessions \ {s} : at'[t] = at[t]
      /\ UNCHANGED <<mix, holder, versions, next, bad, outcome>>
      /\ failed \subseteq failed' /\ failed' \subseteq failed \cup {v}
      /\ \A w \in Versions \ {v} : index'[w] = index[w]
      /\ \/ index'[v] = "valid"
         \/ index'[v] = index[v] /\ v \in failed'
  BY <1>2 DEF recreateIndexCreates, Goto, HealInv, SchemaTypeOK
<1>3. SchemaTypeOK'
  <2>1. failed' \subseteq Versions
    BY <1>1, <1>2 DEF HealInv, SchemaTypeOK
  <2> QED BY <1>2, <2>1 DEF recreateIndexCreates, Goto, HealInv, SchemaTypeOK
<1> HIDE DEF v
<1>4. SessionInv(s)'
  <2>1. \A w \in bad'[s] : index'[w] = "invalid"
    BY <1>1, <1>2
  <2>2. \A w \in versions : index'[w] = "valid" \/ w \in failed' \/ w \in bad'[s]
    BY <1>1, <1>2
  <2> QED BY Zenon, <1>1, <1>2, <2>1, <2>2 DEF SessionInv, Known
<1>5. Missing'
  <2> SUFFICES ASSUME NEW w \in versions, index'[w] = "absent" PROVE w \in failed'
    BY <1>1 DEF Missing
  <2>1. w \in Versions /\ (w # v => index[w] = "absent")
    BY <1>1, <1>2
  <2> QED BY <1>1, <1>2, <2>1
<1>6. InitHeals'
  <2>1. \A w \in Versions : index[w] = "valid" => index'[w] = "valid"
    BY <1>1, <1>2
  <2> QED BY <1>1, <2>1, HealsStays DEF HealInv
<1>7. Prefix'
  BY <1>1 DEF HealInv, Prefix
<1> QED BY <1>0, <1>1, <1>3, <1>4, <1>5, <1>6, <1>7, HealByOne DEF Active, Repairing

\* Nothing is left to apply, or the invalid indexes are listed: the tables stand still.
LEMMA HealFind ==
    ASSUME HealInv, NEW s \in Sessions, repairIndexesAfterMigrations(s) \/ findInvalidIndexes(s)
    PROVE  HealInv'
<1>1. /\ UNCHANGED <<mix, holder, versions, index, next, redo, outcome, failed>>
      /\ at[s] \in {"apply", "find"} /\ \A t \in Sessions \ {s} : at'[t] = at[t]
  BY DEF repairIndexesAfterMigrations, findInvalidIndexes, Goto, HealInv, SchemaTypeOK
<1>2. holder = s /\ \A t \in Sessions : at[t] # "recreate"
  BY <1>1, HolderAlone DEF HealInv, SessionInv, Active, Repairing
<1>3. SchemaTypeOK'
  <2>1. CASE repairIndexesAfterMigrations(s)
    BY <2>1 DEF repairIndexesAfterMigrations, Goto, HealInv, SchemaTypeOK
  <2>2. CASE findInvalidIndexes(s)
    BY <2>2 DEF findInvalidIndexes, Goto, HealInv, SchemaTypeOK
  <2> QED BY <2>1, <2>2
<1>4. SessionInv(s)'
  <2>1. CASE repairIndexesAfterMigrations(s)
    <3>1. at[s] = "apply" /\ at'[s] = "find" /\ next[s] > Known(s)
      BY <2>1 DEF repairIndexesAfterMigrations, Goto, HealInv, SchemaTypeOK
    <3>2. next[s] \in 1..(Known(s) + 1) /\ versions = 1..(next[s] - 1) /\ Known(s) \in Nat
      BY <3>1, KnownType DEF HealInv, SessionInv, Versions
    <3>3. 1..Known(s) \subseteq versions'
      BY <1>1, <3>1, <3>2
    <3> QED BY <1>1, <1>2, <3>1, <3>3 DEF SessionInv, Repairing, Known
  <2>2. CASE findInvalidIndexes(s)
    <3>1. /\ at[s] = "find" /\ at'[s] = "repair"
          /\ bad'[s] = {v \in Versions : index[v] = "invalid"}
      BY <2>2 DEF findInvalidIndexes, Goto, HealInv, SchemaTypeOK
    <3>2. \A v \in versions : v \in Versions /\ index[v] \in {"absent", "invalid", "valid"}
      BY DEF HealInv, SchemaTypeOK
    <3>3. \A v \in versions : index[v] = "absent" => v \in failed
      BY <1>2 DEF HealInv, Missing
    <3>4. s \notin Repairers => 1..Known(s) \subseteq versions
      BY <3>1 DEF HealInv, SessionInv, Repairing
    <3> QED BY <1>1, <1>2, <3>1, <3>2, <3>3, <3>4 DEF SessionInv, Repairing, Known
  <2> QED BY <2>1, <2>2
<1>5. Missing'
  BY <1>1, <1>2 DEF HealInv, Missing
<1>6. Prefix' /\ InitHeals'
  BY <1>1, HealsStays DEF HealInv, Prefix
<1> QED BY <1>1, <1>3, <1>4, <1>5, <1>6, HealByOne DEF Active, Repairing

\* A session outside the lock moves, or dies: the others notice nothing.
LEMMA HealOutside ==
    ASSUME HealInv, NEW s \in Sessions, InitSchema(s) \/ (SessionFails(s) /\ at[s] = "waiting")
    PROVE  HealInv'
<1>1. /\ UNCHANGED <<mix, versions, index, next, bad, redo, failed>>
      /\ at[s] \notin Active /\ at'[s] \notin Active /\ \A t \in Sessions \ {s} : at'[t] = at[t]
      /\ holder' = holder \/ holder = s
      /\ \A t \in Sessions : outcome'[t] = "nil" => outcome[t] = "nil"
  BY DEF HealInv, SchemaTypeOK, InitSchema, SessionFails, Finish, Goto, Active, Repairing
<1>2. SchemaTypeOK'
  BY DEF HealInv, SchemaTypeOK, InitSchema, SessionFails, Finish, Goto
<1>3. ASSUME NEW t \in Sessions PROVE SessionInv(t)'
  <2>1. CASE t = s
    <3>1. at'[t] \notin {"load", "apply", "record", "find", "repair", "recreate"}
      BY <1>1, <2>1 DEF Active, Repairing
    <3> QED BY <3>1 DEF SessionInv, Active, Repairing
  <2>2. CASE t # s
    <3>1. SessionInv(t) /\ at'[t] = at[t] /\ (holder = t => holder' = holder)
      BY <1>1, <2>2 DEF HealInv
    <3> QED BY <1>1, <3>1, Zenon DEF SessionInv
  <2> QED BY <2>1, <2>2
<1>4. Missing'
  <2>1. \A t \in Sessions : at[t] = "recreate" => at'[t] = "recreate"
    BY <1>1 DEF Active, Repairing
  <2> QED BY <1>1, <2>1, Zenon DEF HealInv, Missing
<1>5. Prefix' /\ InitHeals'
  BY <1>1, HealsStays DEF HealInv, Prefix
<1> QED BY <1>2, <1>3, <1>4, <1>5, Zenon DEF HealInv

\* acquireMigrationLock, when nobody has the lock.
LEMMA HealAcquire ==
    ASSUME HealInv, NEW s \in Sessions, acquireMigrationLock(s)
    PROVE  HealInv'
<1>1. /\ UNCHANGED <<mix, versions, index, next, bad, redo, failed, outcome>>
      /\ holder = Nobody /\ holder' = s /\ at[s] = "waiting"
      /\ at'[s] = (IF s \in Repairers THEN "find" ELSE "load")
      /\ \A t \in Sessions \ {s} : at'[t] = at[t]
  BY DEF HealInv, SchemaTypeOK, acquireMigrationLock, Goto
<1>2. SchemaTypeOK'
  BY DEF HealInv, SchemaTypeOK, acquireMigrationLock, Goto
<1>3. SessionInv(s)'
  <2>1. /\ at'[s] \notin {"apply", "record", "repair", "recreate"}
        /\ at'[s] = "find" => s \in Repairers
    BY <1>1
  <2> QED BY <1>1, <2>1 DEF SessionInv, Repairing
<1>4. Missing'
  <2>1. \A t \in Sessions : at[t] = "recreate" => at'[t] = "recreate"
    BY <1>1
  <2> QED BY <1>1, <2>1, Zenon DEF HealInv, Missing
<1>5. Prefix' /\ InitHeals'
  BY <1>1, HealsStays DEF HealInv, Prefix
<1> QED BY <1>1, <1>2, <1>3, <1>4, <1>5, HealByOne

\* The end of a call that holds the lock: what it leaves behind is accounted for.
LEMMA HealFinish ==
    ASSUME HealInv, NEW s \in Sessions, at[s] \in Active, NEW r \in {"nil", "error"}, Finish(s, r),
           UNCHANGED versions, failed \subseteq failed', failed' \subseteq Versions,
           index' \in [Versions -> {"absent", "invalid", "valid"}],
           \A v \in Versions : index'[v] # index[v] => index[v] = "absent",
           at[s] = "recreate" => redo[s] \in failed',
           InitHeals'
    PROVE  HealInv'
<1>1. /\ at'[s] = "returned" /\ \A t \in Sessions \ {s} : at'[t] = at[t]
  BY DEF Finish, HealInv, SchemaTypeOK
<1>2. SchemaTypeOK'
  BY DEF Finish, HealInv, SchemaTypeOK
<1>3. SessionInv(s)'
  BY <1>1 DEF SessionInv, Active, Repairing
<1>4. Missing'
  <2> SUFFICES ASSUME NEW v \in versions, index'[v] = "absent" PROVE v \in failed'
    BY DEF Missing
  <2>1. v \in Versions
    BY DEF HealInv, SchemaTypeOK
  <2>2. v \in failed \/ \E t \in Sessions : at[t] = "recreate" /\ redo[t] = v
    BY <2>1 DEF HealInv, Missing
  <2>3. \A t \in Sessions : at[t] = "recreate" => t = s
    BY HolderAlone DEF Active, Repairing
  <2> QED BY <2>2, <2>3
<1>5. Prefix'
  BY DEF HealInv, Prefix
<1> QED BY <1>1, <1>2, <1>3, <1>4, <1>5, HealByOne

\* A statement of a session that holds the lock fails, or its process dies.
LEMMA HealFails ==
    ASSUME HealInv, NEW s \in Sessions, SessionFails(s), at[s] # "waiting"
    PROVE  HealInv'
<1>1. at[s] \in Active
  BY DEF HealInv, SchemaTypeOK, SessionFails, Active, Repairing
<1>2. /\ Finish(s, "error") /\ UNCHANGED versions
      /\ failed' = (IF at[s] = "recreate" THEN failed \cup {redo[s]} ELSE failed)
  BY DEF SessionFails
<1>3. at[s] = "recreate" => redo[s] \in Versions
  BY DEF HealInv, SessionInv
<1>4. failed \subseteq Versions
  BY DEF HealInv, SchemaTypeOK
<1>5. failed \subseteq failed' /\ failed' \subseteq Versions /\ (at[s] = "recreate" => redo[s] \in failed')
  BY <1>2, <1>3, <1>4
<1>6. /\ index' \in [Versions -> {"absent", "invalid", "valid"}]
      /\ \A v \in Versions : index'[v] # index[v] => index[v] = "absent"
  BY DEF SessionFails, HealInv, SchemaTypeOK
<1>7. \A t \in Sessions : outcome'[t] = "nil" => outcome[t] = "nil"
  BY <1>2 DEF Finish, HealInv, SchemaTypeOK
<1>8. InitHeals'
  <2>1. \A v \in Versions : index[v] = "valid" => index'[v] = "valid"
    BY <1>6
  <2> QED BY <1>2, <1>5, <1>7, <2>1, HealsStays DEF HealInv
<1> QED BY <1>1, <1>2, <1>5, <1>6, <1>8, HealFinish

\* loadSchemaVersion refuses a newer database, or finds where to begin.
LEMMA HealLoad ==
    ASSUME HealInv, NEW s \in Sessions, loadSchemaVersion(s)
    PROVE  HealInv'
<1>1. at[s] = "load" /\ UNCHANGED <<versions, index, failed>>
  BY DEF loadSchemaVersion
<1>2. PICK k \in 0..(SchemaVersion + 1) : versions = 1..k
  BY DEF HealInv, Prefix
<1>3. schemaVersion = k /\ Known(s) \in Nat
  BY <1>2, VersionOf, KnownType DEF Versions
<1>4. CASE Finish(s, "error")
  <2>1. \A t \in Sessions : outcome'[t] = "nil" => outcome[t] = "nil"
    BY <1>4 DEF Finish, HealInv, SchemaTypeOK
  <2>2. InitHeals'
    BY <1>1, <2>1, HealsStays DEF HealInv
  <2>3. failed \subseteq Versions /\ index \in [Versions -> {"absent", "invalid", "valid"}]
    BY DEF HealInv, SchemaTypeOK
  <2> QED BY <1>1, <1>4, <2>2, <2>3, HealFinish DEF Active
<1>5. CASE ~(k > Known(s))
  <2>1. /\ at'[s] = "apply" /\ \A t \in Sessions \ {s} : at'[t] = at[t]
        /\ next'[s] = k + 1
        /\ UNCHANGED <<mix, holder, bad, redo, outcome>>
    BY <1>3, <1>5 DEF loadSchemaVersion, Goto, HealInv, SchemaTypeOK
  <2>2. SchemaTypeOK'
    <3>1. k + 1 \in 0..(SchemaVersion + 2)
      BY <1>2, KnownType
    <3> QED BY <1>1, <1>3, <1>5, <2>1, <3>1 DEF loadSchemaVersion, Goto, HealInv, SchemaTypeOK
  <2>3. SessionInv(s)'
    <3>1. holder' = s
      BY <1>1, <2>1 DEF HealInv, SessionInv, Active
    <3>2. next'[s] \in 1..(Known(s) + 1) /\ versions' = 1..(next'[s] - 1)
      BY <1>1, <1>2, <1>3, <1>5, <2>1
    <3> QED BY <2>1, <3>1, <3>2 DEF SessionInv, Repairing, Known
  <2>4. Missing'
    <3>1. \A t \in Sessions : at[t] = "recreate" => at'[t] = "recreate"
      BY <1>1, <2>1
    <3> QED BY <1>1, <2>1, <3>1, Zenon DEF HealInv, Missing
  <2>5. Prefix' /\ InitHeals'
    BY <1>1, <2>1, HealsStays DEF HealInv, Prefix
  <2> QED BY <1>1, <2>1, <2>2, <2>3, <2>4, <2>5, HealByOne DEF Active
<1> QED BY <1>3, <1>4, <1>5 DEF loadSchemaVersion

\* The first phase of a migration: the index it builds outside a transaction is there
\* afterwards, whole or as somebody's leftover.
LEMMA HealApply ==
    ASSUME HealInv, NEW s \in Sessions, applyNonTx(s)
    PROVE  HealInv'
<1>1. /\ at[s] = "apply" /\ at'[s] = "record" /\ \A t \in Sessions \ {s} : at'[t] = at[t]
      /\ UNCHANGED <<mix, holder, versions, next, bad, redo, outcome, failed>>
      /\ next[s] <= Known(s)
  BY DEF applyNonTx, Goto, HealInv, SchemaTypeOK
<1>2. next[s] \in 1..(Known(s) + 1) /\ versions = 1..(next[s] - 1) /\ holder = s
  BY <1>1 DEF HealInv, SessionInv, Active
<1>3. next[s] \in Versions /\ Known(s) \in Nat
  BY <1>1, <1>2, KnownType DEF Versions
<1>4. /\ index' \in [Versions -> {"absent", "invalid", "valid"}]
      /\ next[s] \in NonTx => index'[next[s]] # "absent"
      /\ \A v \in Versions : index'[v] # index[v] => index[v] = "absent"
  BY <1>3 DEF applyNonTx, createIndexConcurrently, HealInv, SchemaTypeOK
<1>5. SchemaTypeOK'
  BY <1>4 DEF applyNonTx, Goto, HealInv, SchemaTypeOK
<1>6. SessionInv(s)'
  BY <1>1, <1>2, <1>4 DEF SessionInv, Repairing, Known
<1>7. Missing'
  <2> SUFFICES ASSUME NEW v \in versions, index'[v] = "absent" PROVE v \in failed
    BY <1>1 DEF Missing
  <2>1. v \in Versions
    BY DEF HealInv, SchemaTypeOK
  <2>2. index[v] = "absent"
    BY <1>4, <2>1
  <2>3. \A t \in Sessions : at[t] # "recreate"
    BY <1>1, HolderAlone DEF Active, Repairing
  <2> QED BY <2>2, <2>3 DEF HealInv, Missing
<1>8. InitHeals'
  <2>1. \A v \in Versions : index[v] = "valid" => index'[v] = "valid"
    BY <1>4
  <2> QED BY <1>1, <2>1, HealsStays DEF HealInv
<1>9. Prefix'
  BY <1>1 DEF HealInv, Prefix
<1> QED BY <1>1, <1>5, <1>6, <1>7, <1>8, <1>9, HealByOne DEF Active

\* The second phase: the version is recorded and its index is there.
LEMMA HealRecord ==
    ASSUME HealInv, NEW s \in Sessions, applyMigration(s)
    PROVE  HealInv'
<1> DEFINE n == next[s]
<1>1. /\ at[s] = "record" /\ at'[s] = "apply" /\ \A t \in Sessions \ {s} : at'[t] = at[t]
      /\ UNCHANGED <<mix, holder, bad, redo, outcome, failed>>
      /\ versions' = versions \cup {n}
  BY DEF applyMigration, Goto, HealInv, SchemaTypeOK
<1>2. n \in 1..(Known(s) + 1) /\ versions = 1..(n - 1) /\ holder = s /\ n <= Known(s)
      /\ (n \in NonTx => index[n] # "absent")
  BY <1>1 DEF HealInv, SessionInv, Active
<1>3. n \in Versions /\ Known(s) \in Nat /\ n + 1 \in 1..(Known(s) + 1) /\ n + 1 \in 0..(SchemaVersion + 2)
      /\ n \in 0..(SchemaVersion + 1)
  BY <1>2, KnownType DEF Versions
<1>4. next'[s] = n + 1 /\ versions' = 1..n /\ versions' = 1..((n + 1) - 1)
  BY <1>1, <1>2, <1>3 DEF applyMigration, HealInv, SchemaTypeOK
<1>5. /\ index' \in [Versions -> {"absent", "invalid", "valid"}]
      /\ index'[n] # "absent"
      /\ \A v \in Versions \ {n} : index'[v] = index[v]
      /\ \A v \in Versions : index[v] = "valid" => index'[v] = "valid"
  BY <1>2, <1>3 DEF applyMigration, HealInv, SchemaTypeOK
<1>6. SchemaTypeOK'
  <2>1. versions' \subseteq Versions
    BY <1>1, <1>3 DEF HealInv, SchemaTypeOK
  <2> QED BY <1>1, <1>3, <1>5, <2>1 DEF applyMigration, Goto, HealInv, SchemaTypeOK
<1>7. SessionInv(s)'
  BY <1>1, <1>2, <1>3, <1>4 DEF SessionInv, Repairing, Known
<1>8. Missing'
  <2> SUFFICES ASSUME NEW v \in versions', index'[v] = "absent" PROVE v \in failed
    BY <1>1 DEF Missing
  <2>1. v \in versions /\ v \in Versions /\ v # n
    BY <1>1, <1>5 DEF HealInv, SchemaTypeOK
  <2>2. index[v] = "absent"
    BY <1>5, <2>1
  <2>3. \A t \in Sessions : at[t] # "recreate"
    BY Zenon, <1>1, HolderAlone DEF Active, Repairing
  <2> QED BY <2>1, <2>2, <2>3 DEF HealInv, Missing
<1>9. InitHeals'
  BY Zenon, <1>1, <1>5, HealsStays DEF HealInv
<1>10. Prefix'
  BY <1>3, <1>4 DEF Prefix
<1> QED BY <1>1, <1>6, <1>7, <1>8, <1>9, <1>10, HealByOne DEF Active

\* The end of a repair pass with nothing left to repair: the schema of the build is whole.
LEMMA HealReturn ==
    ASSUME HealInv, NEW s \in Sessions, repairInvalidIndexes(s)
    PROVE  HealInv'
<1>1. /\ at[s] = "repair" /\ bad[s] = {} /\ Finish(s, "nil")
      /\ UNCHANGED <<versions, index, failed>>
  BY DEF repairInvalidIndexes
<1>2. /\ s \notin Repairers => 1..Known(s) \subseteq versions
      /\ \A v \in versions : index[v] = "valid" \/ v \in failed
  BY <1>1 DEF HealInv, SessionInv, Repairing
<1>3. InitHeals'
  <2>1. ASSUME NEW t \in Migrators \cup Newer, outcome'[t] = "nil", NEW v \in 1..Known(t)
        PROVE  v \in versions /\ (index[v] = "valid" \/ v \in failed)
    <3>1. CASE t = s
      BY <1>2, <3>1, SchemaAssumption
    <3>2. CASE t # s
      <4>1. outcome[t] = "nil"
        BY <1>1, <2>1, <3>2 DEF Finish, HealInv, SchemaTypeOK, Sessions
      <4> QED BY <4>1 DEF HealInv, InitHeals
    <3> QED BY <3>1, <3>2
  <2> QED BY <1>1, <2>1, Zenon DEF InitHeals, Known
<1>4. failed \subseteq Versions /\ index \in [Versions -> {"absent", "invalid", "valid"}]
  BY DEF HealInv, SchemaTypeOK
<1> QED BY <1>1, <1>3, <1>4, HealFinish DEF Active, Repairing

\* An InitSchema that returned nil left a complete schema and valid indexes, for any number
\* of sessions of both builds, any number of versions, and crashes at every statement.
THEOREM InitAlwaysHeals == Spec => []InitHeals
<1>1. Init => HealInv
  <2> SUFFICES ASSUME Init PROVE HealInv
    OBVIOUS
  <2>1. SchemaTypeOK
    <3>1. versions \subseteq Versions /\ 0 \in 0..(SchemaVersion + 2)
      BY KnownType DEF Init, SchemaInit, Versions
    <3>2. index \in [Versions -> {"absent", "invalid", "valid"}]
      BY DEF Init, SchemaInit
    <3> QED BY <3>1, <3>2, Zenon DEF Init, SchemaInit, SchemaTypeOK
  <2>2. Prefix
    <3>1. versions = {} \/ versions = 1..SchemaVersion
      BY DEF Init, SchemaInit
    <3>2. 1..0 = {} /\ 0 \in 0..(SchemaVersion + 1) /\ SchemaVersion \in 0..(SchemaVersion + 1)
      BY KnownType
    <3> QED BY <3>1, <3>2, Zenon DEF Prefix
  <2>3. \A s \in Sessions : at[s] \in {"idle", "never"} /\ outcome[s] = "none"
    BY DEF Init, SchemaInit
  <2>4. \A s \in Sessions : SessionInv(s)
    BY <2>3 DEF SessionInv, Active, Repairing
  <2>5. Missing
    BY <2>1 DEF Init, SchemaInit, Missing, SchemaTypeOK
  <2>6. InitHeals
    BY <2>3 DEF InitHeals, Sessions
  <2> QED BY <2>1, <2>2, <2>4, <2>5, <2>6 DEF HealInv
<1>2. HealInv /\ [Next]_vars => HealInv'
  <2> SUFFICES ASSUME HealInv, [Next]_vars PROVE HealInv'
    OBVIOUS
  <2>1. ASSUME NEW s \in Sessions, Migrate(s) PROVE HealInv'
    BY <2>1, HealAcquire, HealLoad, HealApply, HealRecord, HealFind, HealDrop, HealCreate, HealReturn,
       Zenon DEF Migrate, runMigrations
  <2>2. ASSUME NEW s \in Sessions, InitSchema(s) \/ SessionFails(s) PROVE HealInv'
    BY <2>2, HealOutside, HealFails, Zenon
  <2>3. ASSUME UNCHANGED <<mix, holder, versions, index, session, failed>> PROVE HealInv'
    <3>1. UNCHANGED <<mix, holder, versions, index, at, next, bad, redo, outcome, failed>>
      BY <2>3 DEF session
    <3>2. SchemaTypeOK' /\ Prefix'
      BY <3>1 DEF HealInv, SchemaTypeOK, Prefix
    <3>3. ASSUME NEW s \in Sessions PROVE SessionInv(s)'
      <4>1. SessionInv(s)
        BY DEF HealInv
      <4> QED BY <3>1, <4>1, Zenon DEF SessionInv
    <3>4. Missing' /\ InitHeals'
      BY <3>1, HealsStays DEF HealInv, Missing
    <3> QED BY <3>2, <3>3, <3>4, Zenon DEF HealInv
  <2>4. ASSUME NEW c \in Calls, Step(c) PROVE UNCHANGED <<mix, holder, versions, index, session, failed>>
    BY Zenon, <2>4 DEF Step, getQueueMetadata, set, checkTableNameNotExists, createQueueInTx,
       enforceMaxQueues, createQueueMetadata, createQueueTables, createCommits, executeDelete,
       executeDrops, deleteQueueMetadata, invalidateQueueCaches, deleteCommits, deleteCleansUp,
       EndTx, schemaVars
  <2>5. ASSUME NEW c \in Calls, CallFails(c) \/ \E n \in Names : Begin(c, n)
        PROVE  UNCHANGED <<mix, holder, versions, index, session, failed>>
    BY <2>5 DEF CallFails, Begin, EndTx, schemaVars
  <2>6. ASSUME New \/ (\E n \in Names : evict(n)) \/ UNCHANGED vars
        PROVE  UNCHANGED <<mix, holder, versions, index, session, failed>>
    BY <2>6 DEF New, evict, vars, schemaVars
  <2>7. ASSUME ConnectionCloses PROVE HealInv'
    <3>1. /\ UNCHANGED <<mix, versions, index, at, next, bad, redo, outcome, failed>>
          /\ holder = Pool /\ holder' = Nobody
      BY <2>7 DEF ConnectionCloses, session
    <3>2. SchemaTypeOK' /\ Prefix'
      BY <3>1 DEF HealInv, SchemaTypeOK, Prefix
    <3>3. ASSUME NEW s \in Sessions PROVE SessionInv(s)'
      <4>1. SessionInv(s) /\ holder # s
        BY <3>1, SchemaAssumption DEF HealInv, Sessions
      <4> QED BY <3>1, <4>1, Zenon DEF SessionInv
    <3>4. Missing' /\ InitHeals'
      BY <3>1, HealsStays DEF HealInv, Missing
    <3> QED BY <3>2, <3>3, <3>4, Zenon DEF HealInv
  <2> QED BY <2>1, <2>2, <2>3, <2>4, <2>5, <2>6, <2>7, Zenon DEF Next
<1>3. HealInv => InitHeals
  BY DEF HealInv
<1> QED BY <1>1, <1>2, <1>3, PTL DEF Spec
=============================================================================
