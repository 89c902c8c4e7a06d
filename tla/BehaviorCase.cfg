SPECIFICATION Spec
CONSTANTS
  Case = {"l6", "l7", "l7v", "l8", "l8m"}
  Kind <- MCKind
  Wide = {"l7", "l8m"}
  Pairs <- MCPairs
  MaxAttempts = 2
  MaxChanges = 2
  MaxFaults = 1
INVARIANTS
  PassEarned
  ReplayAgrees
PROPERTIES
  VerdictFinal
CHECK_DEADLOCK FALSE
