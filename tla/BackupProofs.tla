----------------------------- MODULE BackupProofs -----------------------------
(***************************************************************************)
(* The safety properties of Migrations and of Backup hold for any number   *)
(* of processes, files, failures, backups and restores.  What the first    *)
(* part shows of the database is used in the second for the steps of the   *)
(* services; a restore, which takes rows away, keeps it because every      *)
(* complete backup satisfies it.                                           *)
(***************************************************************************)
EXTENDS Backup, FiniteSetTheorems, WellFoundedInduction, TLAPS

-----------------------------------------------------------------------------
(* Migrations: the processes alone.                                        *)

\* What a process that has read the table takes for applied has been applied: while it
\* works rows are never deleted.
SeenRecorded ==
  \A p \in Migrators :
    /\ pc[p] \in {"applying", "recording", "up"} => seen[p] \subseteq recorded
    /\ pc[p] = "up" => seen[p] = Files

MigrationInv == TypeOK /\ SeenRecorded /\ AppliedExactlyOnce /\ AppliedInOrder

LEMMA InitInv == Init => MigrationInv
<1> SUFFICES ASSUME Init PROVE MigrationInv
  OBVIOUS
<1>1. PICK k \in 0 .. NumFiles : recorded = 1 .. k
  BY DEF Init
<1>2. recorded \subseteq Files /\ AppliedInOrder
  BY <1>1, MigrationAssumption DEF Files, AppliedInOrder
<1>3. executed \in [Files -> Nat] /\ AppliedExactlyOnce
  BY DEF Init, AppliedExactlyOnce
<1>4. TypeOK
  BY <1>2, <1>3, MigrationAssumption DEF Init, TypeOK, Places
<1>5. SeenRecorded
  BY DEF Init, SeenRecorded
<1> QED
  BY <1>2, <1>3, <1>4, <1>5 DEF MigrationInv

\* A process that records a file has found every earlier one in the table.
LEMMA RecordStep ==
  ASSUME MigrationInv, NEW p \in Migrators, NEW f \in Files, IsNext(p, f), Record(p, f)
  PROVE  MigrationInv'
<1> USE DEF MigrationInv, TypeOK
<1>1. TypeOK'
  BY DEF Record, Places
<1>2. SeenRecorded'
  BY DEF Record, SeenRecorded
<1>3. AppliedExactlyOnce'
  <2>1. ASSUME NEW g \in Files PROVE executed'[g] = IF g \in recorded' THEN 1 ELSE 0
    <3>1. CASE g = f
      BY <3>1 DEF Record, AppliedExactlyOnce
    <3>2. CASE g # f
      BY <3>2 DEF Record, AppliedExactlyOnce
    <3> QED
      BY <3>1, <3>2
  <2> QED
    BY <2>1 DEF AppliedExactlyOnce
<1>4. AppliedInOrder'
  <2>1. ASSUME NEW g \in Files, g < f PROVE g \in recorded
    <3>1. g \in seen[p]
      BY <2>1 DEF IsNext, Files
    <3>2. seen[p] \subseteq recorded
      BY DEF Record, SeenRecorded
    <3> QED
      BY <3>1, <3>2
  <2> QED
    BY <2>1 DEF Record, AppliedInOrder
<1> QED
  BY <1>1, <1>2, <1>3, <1>4

\* No other step writes the tables.
LEMMA OtherStep ==
  ASSUME MigrationInv, UNCHANGED <<recorded, executed>>, TypeOK', SeenRecorded'
  PROVE  MigrationInv'
  BY DEF MigrationInv, AppliedExactlyOnce, AppliedInOrder

LEMMA StepInv == MigrationInv /\ [Next]_vars => MigrationInv'
<1> SUFFICES ASSUME MigrationInv, [Next]_vars PROVE MigrationInv'
  OBVIOUS
<1>1. ASSUME NEW p \in Migrators, Start(p) \/ Exec(p) PROVE MigrationInv'
  <2>1. TypeOK' /\ SeenRecorded'
    BY <1>1 DEF Start, Exec, MigrationInv, TypeOK, Places, SeenRecorded
  <2> QED
    BY <1>1, <2>1, OtherStep DEF Start, Exec
<1>2. ASSUME NEW p \in Migrators, ReadApplied(p) PROVE MigrationInv'
  <2>1. TypeOK' /\ SeenRecorded'
    BY <1>2 DEF ReadApplied, MigrationInv, TypeOK, Places, SeenRecorded
  <2> QED
    BY <1>2, <2>1, OtherStep DEF ReadApplied
<1>3. ASSUME NEW p \in Migrators, Finish(p) PROVE MigrationInv'
  <2>1. TypeOK' /\ SeenRecorded'
    BY <1>3 DEF Finish, MigrationInv, TypeOK, Places, SeenRecorded
  <2> QED
    BY <1>3, <2>1, OtherStep DEF Finish
<1>4. ASSUME NEW p \in Migrators, Rollback(p), failures' \in 0 .. MaxFailures PROVE MigrationInv'
  <2>1. TypeOK' /\ SeenRecorded'
    BY <1>4 DEF Rollback, MigrationInv, TypeOK, Places, SeenRecorded
  <2> QED
    BY <1>4, <2>1, OtherStep DEF Rollback
<1>5. ASSUME NEW p \in Migrators, Fails(p) PROVE MigrationInv'
  <2>1. failures' \in 0 .. MaxFailures
    BY <1>5, MigrationAssumption DEF Fails, MigrationInv, TypeOK
  <2> QED
    BY <1>4, <1>5, <2>1 DEF Fails
<1>6. ASSUME NEW p \in Migrators, NEW f \in Files, RecordConflict(p, f) PROVE MigrationInv'
  BY <1>4, <1>6 DEF RecordConflict, MigrationInv, TypeOK
<1>7. CASE UNCHANGED vars
  <2>1. TypeOK' /\ SeenRecorded'
    BY <1>7 DEF vars, MigrationInv, TypeOK, SeenRecorded
  <2> QED
    BY <1>7, <2>1, OtherStep DEF vars
<1> QED
  BY <1>1, <1>2, <1>3, <1>5, <1>6, <1>7, RecordStep DEF Next, Migrate

\* The inductive invariant: what each process takes for applied is recorded.
THEOREM MigrationInvAlways == Spec => []MigrationInv
  BY InitInv, StepInv, PTL DEF Spec

\* A migration is recorded exactly if it was committed, and committed once.
THEOREM AppliedExactlyOnceAlways == Spec => []AppliedExactlyOnce
<1>1. MigrationInv => AppliedExactlyOnce
  BY DEF MigrationInv
<1> QED
  BY MigrationInvAlways, <1>1, PTL

\* Whichever processes share the work, migrations are applied in name order.
THEOREM AppliedInOrderAlways == Spec => []AppliedInOrder
<1>1. MigrationInv => AppliedInOrder
  BY DEF MigrationInv
<1> QED
  BY MigrationInvAlways, <1>1, PTL

\* A process that runMigrations has returned to has the whole schema.
THEOREM UpOnlyMigratedAlways == Spec => []UpOnlyMigrated
<1>1. MigrationInv => UpOnlyMigrated
  BY DEF MigrationInv, TypeOK, SeenRecorded, UpOnlyMigrated
<1> QED
  BY MigrationInvAlways, <1>1, PTL

-----------------------------------------------------------------------------
(* Backup: the script and restores too.                                    *)


\* Where the script is determines its files: a backup that is being made is the last one,
\* later ones do not exist, and the last success is older than a script that goes on.
ScriptInv ==
  /\ succeeded <= stamp
  /\ phase # "idle" => stamp > succeeded
  /\ phase # "pruning" => doomed = {}
  /\ \A t \in Stamps : t > stamp => gz[t] = NoFile
  /\ phase \in {"copying", "verifying"} => gz[stamp].state = "none"
  /\ phase = "compressing" => gz[stamp].state = "partial" /\ fresh.state = "intact"
  /\ phase = "pruning" => gz[stamp].state = "intact" /\ stamp \notin doomed

\* What the script has copied is a database that migrations can go on from.
FreshConsistent == phase \in {"verifying", "compressing"} => Consistent(fresh)

\* There is a complete backup no older than the last success ...
LastSuccessKept == succeeded > 0 => \E t \in Stamps : t >= succeeded /\ gz[t].state = "intact"

\* ... and pruning leaves no more than the configured number.
Retained ==
  /\ phase = "pruning" => Cardinality(Existing \ doomed) <= RetentionCount
  /\ succeeded = stamp /\ phase = "idle" => Cardinality(Existing) <= RetentionCount

BackupInv ==
  /\ BackupTypeOK /\ ScriptInv /\ FreshConsistent /\ BackupsRestorable /\ LastSuccessKept /\ Retained

-----------------------------------------------------------------------------
(* What pruning keeps.                                                     *)

LEMMA LeastNatural ==
  ASSUME NEW S \in SUBSET Nat, S # {}
  PROVE  \E x \in S : \A y \in S : x <= y
<1> DEFINE Less == OpToRel(<, Nat)
<1>1. IsWellFoundedOn(Less, Nat)
  BY NatLessThanWellFounded
<1>2. PICK x \in S : \A y \in S : ~ (<<y, x>> \in Less)
  <2> HIDE DEF Less
  <2> QED
    BY <1>1, WFMin
<1>3. ASSUME NEW a \in Nat, NEW b \in Nat, a < b PROVE <<a, b>> \in Less
  BY <1>3 DEF OpToRel
<1>4. ASSUME NEW y \in S PROVE x <= y
  <2>1. x \in Nat /\ y \in Nat
    OBVIOUS
  <2>2. ~ (y < x)
    <3> HIDE DEF Less
    <3> QED
      BY <1>2, <1>3, <2>1
  <2> QED
    BY <2>1, <2>2
<1> QED
  BY <1>4

LEMMA StampsFinite == \A S \in SUBSET Stamps : IsFiniteSet(S) /\ Cardinality(S) \in Nat
<1>1. IsFiniteSet(Stamps)
  BY FS_Interval, BackupAssumption DEF Stamps
<1> QED
  BY <1>1, FS_Subset, FS_CardinalityType

\* The files that are not beyond the retention count are no more than it: they are all
\* among those from the oldest of them on.
LEMMA KeptWithinRetention ==
  ASSUME NEW S \in SUBSET Stamps
  PROVE  Cardinality(S \ BeyondRetention(S)) <= RetentionCount
<1> DEFINE Kept == S \ BeyondRetention(S)
           From(t) == {u \in S : u >= t}
<1>1. CASE Kept = {}
  BY <1>1, FS_EmptySet, BackupAssumption
<1>2. CASE Kept # {}
  <2>1. Kept \in SUBSET Nat
    <3>1. \A u \in S : u \in Nat
      BY DEF Stamps
    <3> QED
      BY <3>1
  <2>2. PICK t \in Kept : \A u \in Kept : t <= u
    <3> HIDE DEF Kept
    <3> QED
      BY <1>2, <2>1, LeastNatural
  <2>3. From(t) \in SUBSET Stamps /\ Kept \in SUBSET From(t)
    <3>1. \A u \in Kept : u \in S /\ u >= t
      BY <2>1, <2>2
    <3> QED
      BY <3>1
  <2>4. IsFiniteSet(From(t)) /\ Cardinality(From(t)) \in Nat
    <3> HIDE DEF From
    <3> QED
      BY <2>3, StampsFinite
  <2>5. IsFiniteSet(Kept) /\ Cardinality(Kept) \in Nat
    <3> HIDE DEF Kept
    <3> QED
      BY <2>3, StampsFinite
  <2>6. Cardinality(Kept) <= Cardinality(From(t))
    <3> HIDE DEF Kept, From
    <3> QED
      BY <2>3, <2>4, FS_Subset
  <2>7. ~ (Cardinality(From(t)) > RetentionCount)
    BY <2>2 DEF BeyondRetention
  <2> QED
    <3> HIDE DEF Kept, From
    <3>1. Cardinality(Kept) <= RetentionCount
      BY <2>4, <2>5, <2>6, <2>7, BackupAssumption
    <3> QED
      BY <3>1 DEF Kept
<1> QED
  BY <1>1, <1>2

\* The newest file is never beyond the retention count.
LEMMA NewestIsKept ==
  ASSUME NEW S \in SUBSET Stamps, NEW t \in Stamps, \A u \in S : u <= t
  PROVE  t \notin BeyondRetention(S)
<1> DEFINE From == {u \in S : u >= t}
<1>1. From \in SUBSET {t}
  <2>1. \A u \in S : u >= t => u = t
    BY DEF Stamps
  <2> QED
    BY <2>1
<1>2. IsFiniteSet({t}) /\ Cardinality({t}) = 1
  BY FS_Singleton
<1>3. Cardinality(From) <= 1 /\ Cardinality(From) \in Nat
  <2> HIDE DEF From
  <2>1. From \in SUBSET Stamps
    BY <1>1
  <2> QED
    BY <1>1, <1>2, <2>1, FS_Subset, StampsFinite
<1>4. ~ (Cardinality(From) > RetentionCount)
  <2> HIDE DEF From
  <2> QED
    BY <1>3, BackupAssumption
<1> QED
  BY <1>4 DEF BeyondRetention

-----------------------------------------------------------------------------
(* The invariant of the script.                                            *)

LEMMA BackupInitInv == BackupInit => BackupInv
<1> SUFFICES ASSUME BackupInit PROVE BackupInv
  OBVIOUS
<1>1. NoFile \in File /\ NoFile.state = "none"
  BY DEF NoFile, Unusable, File
<1>2. BackupTypeOK
  BY <1>1, BackupAssumption DEF BackupInit, BackupTypeOK, Phases
<1>3. ScriptInv /\ FreshConsistent /\ LastSuccessKept
  BY <1>1, <1>2 DEF BackupInit, BackupTypeOK, ScriptInv, FreshConsistent, LastSuccessKept
<1>4. BackupsRestorable
  BY <1>1 DEF BackupInit, BackupsRestorable
<1>5. Retained
  <2>1. Existing = {}
    BY <1>1 DEF BackupInit, Existing
  <2> QED
    BY <2>1, FS_EmptySet, BackupAssumption DEF BackupInit, Retained
<1> QED
  BY <1>2, <1>3, <1>4, <1>5 DEF BackupInv

\* The script has taken a stamp.
LEMMA WorkingStamp ==
  ASSUME BackupInv, phase # "idle"
  PROVE  stamp \in Stamps /\ succeeded \in Nat /\ stamp > succeeded
  BY BackupAssumption DEF BackupInv, BackupTypeOK, ScriptInv, Stamps

LEMMA StartBackupStep ==
  ASSUME BackupInv, StartBackup, UNCHANGED restores
  PROVE  BackupInv'
<1>1. Unusable("partial") \in File
  BY DEF Unusable, File
<1>2. BackupTypeOK'
  BY <1>1, BackupAssumption DEF BackupInv, BackupTypeOK, StartBackup, Phases
<1>3. ScriptInv'
  <2>1. stamp + 1 \in Stamps /\ NoFile.state = "none"
    BY BackupAssumption DEF BackupInv, BackupTypeOK, StartBackup, Stamps, NoFile, Unusable
  <2> QED
    BY <2>1 DEF BackupInv, BackupTypeOK, ScriptInv, StartBackup, Stamps
<1>4. FreshConsistent' /\ BackupsRestorable' /\ LastSuccessKept'
  BY DEF BackupInv, StartBackup, FreshConsistent, BackupsRestorable, LastSuccessKept, Consistent
<1>5. Retained'
  BY DEF BackupInv, BackupTypeOK, ScriptInv, StartBackup, Retained
<1> QED
  BY <1>2, <1>3, <1>4, <1>5 DEF BackupInv

LEMMA CopiedStep ==
  ASSUME BackupInv, MigrationInv, Copied, UNCHANGED restores
  PROVE  BackupInv'
<1>1. PICK result \in {"intact", "corrupt"} :
        fresh' = [state |-> result, recorded |-> recorded, executed |-> executed]
  BY DEF Copied
<1>2. fresh' \in File /\ Consistent(fresh')
  BY <1>1 DEF MigrationInv, TypeOK, File, Consistent, AppliedExactlyOnce, AppliedInOrder
<1>3. BackupTypeOK' /\ ScriptInv'
  BY <1>2 DEF BackupInv, BackupTypeOK, ScriptInv, Copied, Phases
<1>4. FreshConsistent' /\ BackupsRestorable' /\ LastSuccessKept' /\ Retained'
  BY <1>2 DEF BackupInv, Copied, FreshConsistent, BackupsRestorable, LastSuccessKept, Retained
<1> QED
  BY <1>3, <1>4 DEF BackupInv

LEMMA ScriptFailsStep ==
  ASSUME BackupInv, ScriptFails, UNCHANGED restores
  PROVE  BackupInv'
<1>1. NoFile \in File /\ NoFile.state = "none"
  BY DEF NoFile, Unusable, File
<1>2. phase # "idle" /\ phase # "pruning" /\ gz[stamp].state # "intact"
  BY DEF ScriptFails, BackupInv, ScriptInv
<1>3. stamp \in Stamps /\ stamp > succeeded /\ gz \in [Stamps -> File]
  BY <1>2, WorkingStamp DEF BackupInv, BackupTypeOK
<1>4. BackupTypeOK'
  BY <1>1, <1>3 DEF BackupInv, BackupTypeOK, ScriptFails, Ends, Phases
<1>5. ScriptInv' /\ FreshConsistent' /\ Retained'
  BY <1>1, <1>3 DEF BackupInv, BackupTypeOK, ScriptInv, ScriptFails, Ends, FreshConsistent, Retained
<1>6. BackupsRestorable'
  BY <1>1, <1>3 DEF BackupInv, ScriptFails, Ends, BackupsRestorable, Consistent
<1>7. LastSuccessKept'
  BY <1>2, <1>3 DEF BackupInv, ScriptFails, Ends, LastSuccessKept
<1> QED
  BY <1>4, <1>5, <1>6, <1>7 DEF BackupInv

LEMMA VerifiedStep ==
  ASSUME BackupInv, Verified, UNCHANGED restores
  PROVE  BackupInv'
<1>1. Unusable("partial") \in File /\ Unusable("partial").state = "partial"
  BY DEF Unusable, File
<1>2. stamp \in Stamps /\ stamp > succeeded /\ gz \in [Stamps -> File] /\ gz[stamp].state = "none"
  BY WorkingStamp DEF BackupInv, BackupTypeOK, ScriptInv, Verified
<1>3. BackupTypeOK'
  BY <1>1, <1>2 DEF BackupInv, BackupTypeOK, Verified, Phases
<1>4. ScriptInv' /\ FreshConsistent' /\ Retained'
  BY <1>1, <1>2 DEF BackupInv, BackupTypeOK, ScriptInv, Verified, FreshConsistent, Retained, Stamps
<1>5. BackupsRestorable'
  BY <1>1, <1>2 DEF BackupInv, Verified, BackupsRestorable, Consistent
<1>6. LastSuccessKept'
  BY <1>2 DEF BackupInv, Verified, LastSuccessKept
<1> QED
  BY <1>3, <1>4, <1>5, <1>6 DEF BackupInv

LEMMA CompressedStep ==
  ASSUME BackupInv, Compressed, UNCHANGED restores
  PROVE  BackupInv'
<1>1. NoFile \in File /\ NoFile.state = "none"
  BY DEF NoFile, Unusable, File
<1>2. /\ stamp \in Stamps /\ stamp > succeeded /\ succeeded \in Nat
      /\ gz \in [Stamps -> File] /\ fresh \in File
      /\ gz[stamp].state = "partial" /\ fresh.state = "intact" /\ Consistent(fresh)
  BY WorkingStamp DEF BackupInv, BackupTypeOK, ScriptInv, FreshConsistent, Compressed
<1>3. gz'[stamp] = fresh /\ \A t \in Stamps \ {stamp} : gz'[t] = gz[t]
  BY <1>2 DEF Compressed
<1>4. Existing' = Existing /\ Existing \in SUBSET Stamps /\ stamp \in Existing
  BY <1>2, <1>3 DEF Existing
<1>5. stamp \notin doomed'
  <2>1. \A t \in Existing : t <= stamp
    BY <1>1, <1>2 DEF Existing, BackupInv, ScriptInv, Stamps
  <2> QED
    BY <1>2, <1>4, <2>1, NewestIsKept DEF Compressed
<1>6. BackupTypeOK'
  <2>1. doomed' \subseteq Stamps
    BY <1>4 DEF Compressed, BeyondRetention
  <2> QED
    BY <1>1, <1>2, <2>1 DEF BackupInv, BackupTypeOK, Compressed, Phases
<1>7. ScriptInv'
  BY <1>2, <1>3, <1>5 DEF BackupInv, BackupTypeOK, ScriptInv, Compressed, Stamps
<1>8. FreshConsistent' /\ BackupsRestorable'
  BY <1>2, <1>3 DEF BackupInv, Compressed, FreshConsistent, BackupsRestorable
<1>9. LastSuccessKept'
  <2>1. stamp \in Stamps /\ stamp >= succeeded' /\ gz'[stamp].state = "intact"
    BY <1>2, <1>3 DEF Compressed, Stamps
  <2> QED
    BY <2>1 DEF LastSuccessKept
<1>10. Retained'
  BY <1>4, KeptWithinRetention DEF Compressed, Retained
<1> QED
  BY <1>6, <1>7, <1>8, <1>9, <1>10 DEF BackupInv

LEMMA PruneStep ==
  ASSUME BackupInv, NEW t \in Stamps, Prune(t), UNCHANGED restores
  PROVE  BackupInv'
<1>1. NoFile \in File /\ NoFile.state = "none"
  BY DEF NoFile, Unusable, File
<1>2. /\ stamp \in Stamps /\ stamp > succeeded /\ succeeded \in Nat
      /\ gz \in [Stamps -> File] /\ gz[stamp].state = "intact" /\ stamp \notin doomed
      /\ t # stamp
  BY WorkingStamp DEF BackupInv, BackupTypeOK, ScriptInv, Prune
<1>3. gz'[t] = NoFile /\ \A u \in Stamps \ {t} : gz'[u] = gz[u]
  BY <1>2 DEF Prune
<1>4. BackupTypeOK'
  BY <1>1, <1>2 DEF BackupInv, BackupTypeOK, Prune
<1>5. ScriptInv' /\ FreshConsistent'
  BY <1>2, <1>3 DEF BackupInv, ScriptInv, FreshConsistent, Prune
<1>6. BackupsRestorable'
  BY <1>1, <1>3 DEF BackupInv, BackupsRestorable, Consistent
<1>7. LastSuccessKept'
  <2>1. stamp \in Stamps /\ stamp >= succeeded' /\ gz'[stamp].state = "intact"
    BY <1>2, <1>3 DEF Prune, Stamps
  <2> QED
    BY <2>1 DEF LastSuccessKept
<1>8. Retained'
  <2>1. Existing' \ doomed' = Existing \ doomed
    BY <1>1, <1>3 DEF Existing, Prune
  <2> QED
    BY <2>1 DEF BackupInv, Prune, Retained
<1> QED
  BY <1>4, <1>5, <1>6, <1>7, <1>8 DEF BackupInv

LEMMA DoneStep ==
  ASSUME BackupInv, Done, UNCHANGED restores
  PROVE  BackupInv'
<1>1. NoFile \in File
  BY DEF NoFile, Unusable, File
<1>2. stamp \in Stamps /\ stamp \in Nat /\ gz[stamp].state = "intact"
  BY WorkingStamp DEF BackupInv, ScriptInv, Done, Stamps
<1>3. BackupTypeOK'
  BY <1>1, <1>2 DEF BackupInv, BackupTypeOK, Done, Ends, Phases
<1>4. ScriptInv' /\ FreshConsistent' /\ BackupsRestorable'
  BY <1>2 DEF BackupInv, ScriptInv, Done, Ends, FreshConsistent, BackupsRestorable
<1>5. LastSuccessKept'
  BY <1>2 DEF Done, Ends, LastSuccessKept
<1>6. Retained'
  <2>1. Existing' = Existing \ doomed
    BY DEF Existing, Done
  <2> QED
    BY <2>1 DEF BackupInv, Done, Ends, Retained
<1> QED
  BY <1>3, <1>4, <1>5, <1>6 DEF BackupInv

LEMMA ScriptKilledStep ==
  ASSUME BackupInv, ScriptKilled, UNCHANGED restores
  PROVE  BackupInv'
<1>1. NoFile \in File
  BY DEF NoFile, Unusable, File
<1>2. stamp \in Stamps /\ stamp > succeeded
  BY WorkingStamp DEF ScriptKilled
<1>3. BackupTypeOK'
  BY <1>1 DEF BackupInv, BackupTypeOK, ScriptKilled, Ends, Phases
<1>4. ScriptInv' /\ FreshConsistent' /\ BackupsRestorable' /\ LastSuccessKept'
  BY DEF BackupInv, ScriptInv, ScriptKilled, Ends, FreshConsistent, BackupsRestorable, LastSuccessKept
<1>5. Retained'
  BY <1>2 DEF BackupInv, BackupTypeOK, ScriptKilled, Ends, Retained
<1> QED
  BY <1>3, <1>4, <1>5 DEF BackupInv

-----------------------------------------------------------------------------
(* Services, script and operator together.                                 *)

\* A step that leaves the script's files alone.
LEMMA ScriptAlone ==
  ASSUME BackupInv, UNCHANGED script, restores' \in 0 .. MaxRestores
  PROVE  BackupInv'
  BY DEF BackupInv, BackupTypeOK, ScriptInv, FreshConsistent, BackupsRestorable, LastSuccessKept,
         Retained, Existing, script

\* A restore puts a database in place that migrations can go on from.
LEMMA RestoreStep ==
  ASSUME MigrationInv, BackupInv, NEW t \in Stamps, Restore(t)
  PROVE  MigrationInv' /\ BackupInv'
<1>1. gz[t] \in File /\ Consistent(gz[t])
  BY DEF Restore, BackupInv, BackupTypeOK, BackupsRestorable
<1>2. TypeOK'
  BY <1>1 DEF Restore, MigrationInv, TypeOK, File, Places
<1>3. SeenRecorded' /\ AppliedExactlyOnce' /\ AppliedInOrder'
  BY <1>1 DEF Restore, SeenRecorded, AppliedExactlyOnce, AppliedInOrder, Consistent
<1>4. restores' \in 0 .. MaxRestores
  BY BackupAssumption DEF Restore, BackupInv, BackupTypeOK
<1>5. BackupInv'
  BY <1>4, ScriptAlone DEF Restore
<1> QED
  BY <1>2, <1>3, <1>5 DEF MigrationInv

LEMMA BackupStep == MigrationInv /\ BackupInv /\ [BackupNext]_allVars => MigrationInv' /\ BackupInv'
<1> SUFFICES ASSUME MigrationInv, BackupInv, [BackupNext]_allVars PROVE MigrationInv' /\ BackupInv'
  OBVIOUS
<1>1. ASSUME [Next]_vars, UNCHANGED backupVars PROVE MigrationInv' /\ BackupInv'
  <2>1. MigrationInv'
    BY <1>1, StepInv
  <2>2. BackupInv'
    BY <1>1, ScriptAlone DEF backupVars, BackupInv, BackupTypeOK
  <2> QED
    BY <2>1, <2>2
<1>2. CASE Script /\ UNCHANGED <<vars, restores>>
  <2>1. MigrationInv'
    BY <1>2, StepInv
  <2>2. BackupInv'
    BY <1>2, StartBackupStep, CopiedStep, ScriptFailsStep, VerifiedStep, CompressedStep, DoneStep,
       ScriptKilledStep, PruneStep DEF Script
  <2> QED
    BY <2>1, <2>2
<1>3. CASE \E t \in Stamps : Restore(t)
  BY <1>3, RestoreStep
<1>4. CASE UNCHANGED allVars
  BY <1>1, <1>4 DEF allVars
<1> QED
  BY <1>1, <1>2, <1>3, <1>4 DEF BackupNext

\* The two inductive invariants hold together: the database's makes what is copied
\* consistent, the script's makes what is restored consistent.
THEOREM BackupInvAlways == BackupSpec => [](MigrationInv /\ BackupInv)
<1>1. BackupInit => MigrationInv /\ BackupInv
  BY InitInv, BackupInitInv DEF BackupInit
<1> QED
  BY <1>1, BackupStep, PTL DEF BackupSpec

\* Every complete backup, whatever was committed while it was made, can be restored.
THEOREM BackupsRestorableAlways == BackupSpec => []BackupsRestorable
<1>1. BackupInv => BackupsRestorable
  BY DEF BackupInv
<1> QED
  BY BackupInvAlways, <1>1, PTL

\* There is always a complete backup no older than the last success, and never more files
\* than the retention count after a success.
THEOREM BackupsKeptAlways == BackupSpec => []BackupsKept
<1>1. BackupInv => BackupsKept
  BY DEF BackupInv, LastSuccessKept, Retained, BackupsKept
<1> QED
  BY BackupInvAlways, <1>1, PTL

\* A migration is recorded exactly if it was committed, and committed once, across
\* restores too.
THEOREM AppliedExactlyOnceAcrossRestores == BackupSpec => []AppliedExactlyOnce
<1>1. MigrationInv => AppliedExactlyOnce
  BY DEF MigrationInv
<1> QED
  BY BackupInvAlways, <1>1, PTL

\* A service that is up has the whole schema, also when an older backup was restored.
THEOREM UpOnlyMigratedAcrossRestores == BackupSpec => []UpOnlyMigrated
<1>1. MigrationInv => UpOnlyMigrated
  BY DEF MigrationInv, TypeOK, SeenRecorded, UpOnlyMigrated
<1> QED
  BY BackupInvAlways, <1>1, PTL
=============================================================================
