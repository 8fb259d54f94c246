--------------------------------- MODULE Backup ---------------------------------
(***************************************************************************)
(* deploy/scripts/backup.sh on the database of Migrations, while services  *)
(* start, migrate and fail, and the restore of a backup by the operator    *)
(* (docs/RUNBOOKS/backup-restore.md).                                      *)
(*                                                                         *)
(* One script runs at a time, as systemd runs the unit of the timer, and   *)
(* the n-th has the n-th time stamp.  The script runs under "set -e": a    *)
(* command that fails outside a condition ends it where it is.  It may be  *)
(* killed at any point, by SIGKILL or a power failure.                     *)
(***************************************************************************)
EXTENDS Migrations, FiniteSets

CONSTANTS
  RetentionCount,  \* RETENTION_COUNT
  MaxBackups,      \* bound: runs of the script
  MaxRestores      \* bound: restores

ASSUME BackupAssumption ==
  RetentionCount \in Nat \ {0} /\ MaxBackups \in Nat /\ MaxRestores \in Nat

VARIABLES
  phase,     \* the command the script is at
  stamp,     \* TIMESTAMP of the last script
  fresh,     \* its BACKUP_FILE
  gz,        \* COMPRESSED_FILE of each script
  doomed,    \* the files the loop over TO_DELETE has still to remove
  succeeded, \* the last script that ended with "done", 0 before
  restores

script == <<phase, stamp, fresh, gz, doomed, succeeded>>
backupVars == <<script, restores>>
allVars == <<vars, backupVars>>

Stamps == 1 .. MaxBackups
Phases == {"idle", "copying", "verifying", "compressing", "pruning"}

File == [state : {"none", "partial", "corrupt", "intact"},
         recorded : SUBSET Files, executed : [Files -> Nat]]

\* A file that is not there, or of which only a part is.
Unusable(state) == [state |-> state, recorded |-> {}, executed |-> [f \in Files |-> 0]]
NoFile == Unusable("none")

Existing == {t \in Stamps : gz[t].state # "none"}

-----------------------------------------------------------------------------
(* The script.                                                             *)

\* The end of the script.  A BACKUP_FILE it leaves is read by nobody and forgotten.
Ends ==
  /\ phase' = "idle"
  /\ fresh' = NoFile
  /\ doomed' = {}
  /\ UNCHANGED stamp

StartBackup ==
  /\ phase = "idle"
  /\ stamp < MaxBackups
  /\ stamp' = stamp + 1
  /\ phase' = "copying"
  /\ fresh' = Unusable("partial")
  /\ UNCHANGED <<gz, doomed, succeeded>>

\* A plausible defect: the file is copied as cp does it, some pages before and some
\* after a commit.
CopiedByCp ==
  /\ phase = "copying"
  /\ phase' = "verifying"
  /\ \E result \in {"intact", "corrupt"}, old \in SUBSET recorded :
       fresh' = [state |-> result, recorded |-> old, executed |-> executed]
  /\ UNCHANGED <<stamp, gz, doomed, succeeded>>

\* sqlite3's .backup starts over when somebody commits, so it copies what is
\* committed at its end; the copy may be bad all the same.
Copied ==
  /\ phase = "copying"
  /\ phase' = "verifying"
  /\ \E result \in {"intact", "corrupt"} :
       fresh' = [state |-> result, recorded |-> recorded, executed |-> executed]
  /\ UNCHANGED <<stamp, gz, doomed, succeeded>>

\* The script ends before it has made its COMPRESSED_FILE: .backup fails, the check
\* fails or finds the file corrupt, or gzip fails and removes what it has written.
ScriptFails ==
  /\ phase \in {"copying", "verifying", "compressing"}
  /\ Ends
  /\ gz' = [gz EXCEPT ![stamp] = NoFile]
  /\ UNCHANGED succeeded

\* The check says "ok", and gzip creates its file.
Verified ==
  /\ phase = "verifying"
  /\ fresh.state = "intact"
  /\ phase' = "compressing"
  /\ gz' = [gz EXCEPT ![stamp] = Unusable("partial")]
  /\ UNCHANGED <<stamp, fresh, doomed, succeeded>>

\* A plausible defect: sort -r.
BeyondRetentionNewest(S) == {t \in S : Cardinality({u \in S : u <= t}) > RetentionCount}

\* The first COUNT - RETENTION_COUNT of the files in the order of their names.
BeyondRetention(S) == {t \in S : Cardinality({u \in S : u >= t}) > RetentionCount}

\* gzip has ended and removed BACKUP_FILE, and the files are listed.
Compressed ==
  /\ phase = "compressing"
  /\ phase' = "pruning"
  /\ gz' = [gz EXCEPT ![stamp] = fresh]
  /\ fresh' = NoFile
  /\ doomed' = BeyondRetention(Existing)
  /\ UNCHANGED <<stamp, succeeded>>

Prune(t) ==
  /\ phase = "pruning"
  /\ t \in doomed
  /\ \A u \in doomed : t <= u
  /\ gz' = [gz EXCEPT ![t] = NoFile]
  /\ doomed' = doomed \ {t}
  /\ UNCHANGED <<phase, stamp, fresh, succeeded>>

Done ==
  /\ phase = "pruning"
  /\ doomed = {}
  /\ Ends
  /\ succeeded' = stamp
  /\ UNCHANGED gz

ScriptKilled ==
  /\ phase # "idle"
  /\ Ends
  /\ UNCHANGED <<gz, succeeded>>

-----------------------------------------------------------------------------
(* The operator.                                                           *)

\* While no script runs, the services are stopped, the database is replaced by a backup
\* that gunzip and the check accept, and the services may start.
Restore(t) ==
  /\ restores < MaxRestores
  /\ phase = "idle"
  /\ gz[t].state = "intact"
  /\ \A p \in Migrators : pc[p] \in {"down", "up"}
  /\ recorded' = gz[t].recorded
  /\ executed' = gz[t].executed
  /\ pc' = [p \in Migrators |-> "down"]
  /\ restores' = restores + 1
  /\ UNCHANGED <<writer, seen, failures, script>>

-----------------------------------------------------------------------------

BackupInit ==
  /\ Init
  /\ phase = "idle"
  /\ stamp = 0
  /\ fresh = NoFile
  /\ gz = [t \in Stamps |-> NoFile]
  /\ doomed = {}
  /\ succeeded = 0
  /\ restores = 0

Script ==
  \/ StartBackup \/ Copied \/ ScriptFails \/ Verified \/ Compressed \/ Done \/ ScriptKilled
  \/ \E t \in Stamps : Prune(t)

BackupNext ==
  \/ Next /\ UNCHANGED backupVars
  \/ Script /\ UNCHANGED <<vars, restores>>
  \/ \E t \in Stamps : Restore(t)

BackupSpec == BackupInit /\ [][BackupNext]_allVars

\* A running process goes on, and systemd starts the service again; nothing is assumed
\* of the script and of the operator.
BackupFairSpec ==
  /\ BackupSpec
  /\ \A p \in Migrators : WF_allVars(Migrate(p) /\ UNCHANGED backupVars)
  /\ \A p \in Services : WF_allVars(Start(p) /\ UNCHANGED backupVars)

-----------------------------------------------------------------------------
(* Properties.                                                             *)

\* Every variable of the script keeps its type.
BackupTypeOK ==
  /\ phase \in Phases
  /\ stamp \in 0 .. MaxBackups /\ succeeded \in 0 .. MaxBackups
  /\ fresh \in File
  /\ gz \in [Stamps -> File]
  /\ doomed \subseteq Stamps
  /\ restores \in 0 .. MaxRestores

\* A database that migrations can go on from: no file it records is ahead of one it does
\* not, and the SQL of exactly the recorded ones has been executed, once.
Consistent(d) ==
  /\ \A f \in d.recorded, g \in Files : g < f => g \in d.recorded
  /\ \A f \in Files : d.executed[f] = IF f \in d.recorded THEN 1 ELSE 0

\* Whatever the services do while the script copies, a complete backup has passed the
\* check and can be restored.
BackupsRestorable ==
  \A t \in Stamps :
    /\ gz[t].state # "corrupt"
    /\ gz[t].state = "intact" => Consistent(gz[t])

\* From the first success on there is, at every moment, a complete backup no older
\* than the last success, wherever later scripts fail and whatever partial files
\* they leave to be counted; and a script that has succeeded leaves no more than the
\* configured number of files.
BackupsKept ==
  /\ succeeded > 0 => \E t \in Stamps : t >= succeeded /\ gz[t].state = "intact"
  /\ succeeded = stamp /\ phase = "idle" => Cardinality(Existing) <= RetentionCount
=============================================================================
