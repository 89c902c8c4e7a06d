SPECIFICATION Spec
CONSTANTS
  NumActions = 3
  Content <- MCContentWithUser
  Absent <- MCAbsent
  StateAction = 3
  BackupActions = {}
  Dir <- MCDir
  ParentDirs <- MCParentDirs
  FileDirs <- MCFileDirs
  BackupDirs <- MCBackupDirs
  FreshDirs <- MCFreshDirs
  ManagedDirs <- MCManagedDirs
  Plans <- MCLivePlans
  MaxFailures = 2
  MaxEdits = 1
INVARIANTS
  ProgressInv
  AllOrNothing
PROPERTIES
  ForeignContentKept
  CommitIsFinal
  AtomicSpec
CHECK_DEADLOCK FALSE
