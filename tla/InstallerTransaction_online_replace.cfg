SPECIFICATION OnlineSpec
CONSTANTS
  NumActions = 3
  Content <- MCContentWithUser
  Absent <- MCAbsent
  StateAction = 3
  BackupActions = {}
  Dir <- MCDir
  ParentDirs <- MCParentDirs
  FileDirs <- MCFileDirs
  BackupDirs <- MCBackupDirs
  FreshDirs <- MCFreshDirs
  ManagedDirs <- MCManagedDirs
  Plans <- MCUpdate
  MaxFailures = 1
  MaxEdits = 1
PROPERTIES
  UnmanagedNotReplaced
CHECK_DEADLOCK FALSE
