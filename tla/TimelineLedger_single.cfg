SPECIFICATION Spec
CONSTANTS
  Process = {"root"}
  Pruner = {"root"}
  MaxTurn = 3
  MaxClock = 2
  MaxAge = 1
  MaxEvents = 3
  MaxCommands = 5
  Unknown = 0
INVARIANTS
  TypeOK
  Readable
  TurnOpenedOnce
  Attribution
PROPERTIES
  RecoveryComplete
  HistorySpec
