SPECIFICATION FairSpec
CONSTANTS
  Process = {"a", "b"}
  NoProcess = "nobody"
  Deployments <- MCDeployments
  MaxEvidence = 8
  MaxFaults = 2
  MaxKills = 1
INVARIANTS
  TypeOK
  WorkerMarked
  StrandedOnlyBy
PROPERTIES
  LifeSpec
  CleanupFinishes
CHECK_DEADLOCK FALSE
