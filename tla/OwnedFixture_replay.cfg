SPECIFICATION Spec
CONSTANTS
  Process = {"a", "b"}
  NoProcess = "nobody"
  Deployments <- MCReplaying
  MaxEvidence = 8
  MaxFaults = 0
  MaxKills = 0
INVARIANTS
  WorkerMarked
CHECK_DEADLOCK FALSE
