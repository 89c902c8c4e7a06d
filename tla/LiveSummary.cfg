SPECIFICATION Spec
CONSTANTS
  Known = {"known", "plain"}
  Critical = {"known"}
  Stray = {"stray"}
  Malformed = {"None"}
  Events <- MCEvents
  MaxEvents = 3
INVARIANTS
  RefusedOnlyByInput
  NothingSilent
  PassBacked
CHECK_DEADLOCK FALSE
