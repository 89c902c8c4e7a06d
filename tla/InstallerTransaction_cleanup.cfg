SPECIFICATION OnlineSpec
CONSTANTS
  NumActions = 3
  Content <- MCContent
  Absent <- MCAbsent
  StateAction = 3
  BackupActions = {2}
  Dir <- MCObsoleteDir
  ParentDirs <- MCObsoleteParentDirs
  FileDirs <- MCObsoleteFileDirs
  BackupDirs <- MCBackupDirs
  FreshDirs <- MCFreshDirs
  ManagedDirs = {"pkg", "plans"}
  Plans <- MCObsoletePlans
  MaxFailures = 3
  MaxEdits = 1
INVARIANTS
  CleanupExact
CHECK_DEADLOCK FALSE
