SPECIFICATION FairSpec
CONSTANTS
  NumActions = 3
  Content <- MCContent
  Absent <- MCAbsent
  StateAction = 3
  BackupActions = {}
  Dir <- MCDir
  ParentDirs <- MCParentDirs
  FileDirs <- MCFileDirs
  BackupDirs <- MCBackupDirs
  FreshDirs <- MCFreshDirs
  ManagedDirs <- MCManagedDirs
  Plans <- MCLivePlans
  MaxFailures = 3
  MaxEdits = 0
INVARIANTS
  TypeOK
  EvidenceBeforeChange
  ChangesFormPrefix
  RollbackLeavesNoTrace
PROPERTIES
  ForeignDirectoriesKept
  Resolved
CHECK_DEADLOCK FALSE
