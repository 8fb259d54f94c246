------------------------------ MODULE Migrations ------------------------------
(***************************************************************************)
(* runMigrations (src/db/migrate.ts) by several processes on one SQLite    *)
(* database: the service, which migrates on every start, and the migrate   *)
(* command.  Files are numbered in the order of their names.  A process    *)
(* may be killed, and a statement may throw, at any point; either rolls    *)
(* the open transaction back and ends the process.                         *)
(***************************************************************************)
EXTENDS Integers

CONSTANTS
  Migrators,    \* processes
  Services,     \* those that systemd starts again
  NoMigrator,   \* the holder of a free lock
  NumFiles,     \* migration files
  MaxFailures   \* bound: processes killed and statements that throw

ASSUME MigrationAssumption ==
  Services \subseteq Migrators /\ NoMigrator \notin Migrators /\ NumFiles \in Nat /\ MaxFailures \in Nat

VARIABLES
  recorded,  \* schema_migrations
  executed,  \* how often the SQL of each file has been committed
  writer,    \* the process that holds SQLite's write lock
  pc,        \* where each process is
  seen,      \* alreadyApplied, with the files it has committed since
  failures

vars == <<recorded, executed, writer, pc, seen, failures>>

Files == 1 .. NumFiles
Places == {"down", "reading", "applying", "recording", "up"}

\* The next file in name order that the process takes for new.
IsNext(p, f) == f \in Files \ seen[p] /\ \A g \in Files \ seen[p] : f <= g

-----------------------------------------------------------------------------

Start(p) ==
  /\ pc[p] = "down"
  /\ pc' = [pc EXCEPT ![p] = "reading"]
  /\ UNCHANGED <<recorded, executed, writer, seen, failures>>

\* ensureMigrationsTable, and the SELECT.
ReadApplied(p) ==
  /\ pc[p] = "reading"
  /\ seen' = [seen EXCEPT ![p] = recorded]
  /\ pc' = [pc EXCEPT ![p] = "applying"]
  /\ UNCHANGED <<recorded, executed, writer, failures>>

\* BEGIN and db.exec(sql); the first write takes the lock, or waits for it.
Exec(p) ==
  /\ pc[p] = "applying"
  /\ seen[p] # Files
  /\ writer = NoMigrator
  /\ writer' = p
  /\ pc' = [pc EXCEPT ![p] = "recording"]
  /\ UNCHANGED <<recorded, executed, seen, failures>>

\* A plausible defect: INSERT OR IGNORE.
RecordOrIgnore(p, f) ==
  /\ pc[p] = "recording"
  /\ recorded' = recorded \union {f}
  /\ executed' = [executed EXCEPT ![f] = @ + 1]
  /\ seen' = [seen EXCEPT ![p] = @ \union {f}]
  /\ writer' = NoMigrator
  /\ pc' = [pc EXCEPT ![p] = "applying"]
  /\ UNCHANGED failures

\* The INSERT, and COMMIT.
Record(p, f) ==
  /\ pc[p] = "recording"
  /\ f \notin recorded
  /\ recorded' = recorded \union {f}
  /\ executed' = [executed EXCEPT ![f] = @ + 1]
  /\ seen' = [seen EXCEPT ![p] = @ \union {f}]
  /\ writer' = NoMigrator
  /\ pc' = [pc EXCEPT ![p] = "applying"]
  /\ UNCHANGED failures

\* A plausible defect: the transaction of a process that fails stays open.
RollbackHoldingLock(p) ==
  /\ pc' = [pc EXCEPT ![p] = "down"]
  /\ UNCHANGED <<recorded, executed, writer, seen>>

Rollback(p) ==
  /\ writer' = IF writer = p THEN NoMigrator ELSE writer
  /\ pc' = [pc EXCEPT ![p] = "down"]
  /\ UNCHANGED <<recorded, executed, seen>>

\* The INSERT finds the file in the table: another process was faster.
RecordConflict(p, f) ==
  /\ pc[p] = "recording"
  /\ f \in recorded
  /\ Rollback(p)
  /\ UNCHANGED failures

\* A statement throws (SQLITE_BUSY after five seconds among them), or the
\* process is killed.
Fails(p) ==
  /\ pc[p] # "down"
  /\ failures < MaxFailures
  /\ failures' = failures + 1
  /\ Rollback(p)

\* A plausible defect: the loop ends when any migration was applied before.
FinishEarly(p) ==
  /\ pc[p] = "applying"
  /\ seen[p] # {}
  /\ pc' = [pc EXCEPT ![p] = "up"]
  /\ UNCHANGED <<recorded, executed, writer, seen, failures>>

Finish(p) ==
  /\ pc[p] = "applying"
  /\ seen[p] = Files
  /\ pc' = [pc EXCEPT ![p] = "up"]
  /\ UNCHANGED <<recorded, executed, writer, seen, failures>>

-----------------------------------------------------------------------------

\* A database that an earlier release has migrated up to some file.
Init ==
  /\ \E k \in 0 .. NumFiles : recorded = 1 .. k
  /\ executed = [f \in Files |-> IF f \in recorded THEN 1 ELSE 0]
  /\ writer = NoMigrator
  /\ pc = [p \in Migrators |-> "down"]
  /\ seen = [p \in Migrators |-> {}]
  /\ failures = 0

Migrate(p) ==
  \/ ReadApplied(p) \/ Exec(p) \/ Finish(p)
  \/ \E f \in Files : IsNext(p, f) /\ (Record(p, f) \/ RecordConflict(p, f))

Next == \E p \in Migrators : Start(p) \/ Migrate(p) \/ Fails(p)

Spec == Init /\ [][Next]_vars

\* A running process goes on, and systemd starts the service again.
FairSpec ==
  /\ Spec
  /\ \A p \in Migrators : WF_vars(Migrate(p))
  /\ \A p \in Services : WF_vars(Start(p))

-----------------------------------------------------------------------------
(* Properties.                                                             *)

\* Every variable keeps its type.
TypeOK ==
  /\ recorded \subseteq Files
  /\ executed \in [Files -> Nat]
  /\ writer \in Migrators \union {NoMigrator}
  /\ pc \in [Migrators -> Places]
  /\ seen \in [Migrators -> SUBSET Files]
  /\ failures \in 0 .. MaxFailures

\* migrate.ts: no file is applied but not recorded, recorded but not applied, or
\* applied twice, although each process decides on what it read before.
AppliedExactlyOnce == \A f \in Files : executed[f] = IF f \in recorded THEN 1 ELSE 0

\* Files are applied in name order, whoever applies them.
AppliedInOrder == \A f \in recorded : \A g \in Files : g < f => g \in recorded

\* The service opens its routes only on a database that has every migration.
UpOnlyMigrated == \A p \in Migrators : pc[p] = "up" => recorded = Files

\* A service that lost a race comes up at a later start.
ServiceComesUp == \A p \in Services : <>[](pc[p] = "up")
=============================================================================
