\* A service and the migrate command, two migrations, two failures; three backups of which
\* one is kept, one restore.
SPECIFICATION BackupFairSpec
CONSTANTS
  Migrators = {s1, m}
  Services = {s1}
  NoMigrator = none
  NumFiles = 2
  MaxFailures = 2
  RetentionCount = 1
  MaxBackups = 3
  MaxRestores = 1
CHECK_DEADLOCK FALSE
INVARIANTS
  AppliedExactlyOnce
  UpOnlyMigrated
  BackupsRestorable
  BackupsKept
PROPERTIES
  ServiceComesUp
