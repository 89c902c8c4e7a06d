SPECIFICATION Spec
CONSTANTS
  Role = {"reader", "writer", "pusher"}
  Session = {p, a, b, c}
  Setting = {"right", "wrong"}
  Unknown = Unknown
  NoValue = NoValue
  Items <- MCItems
  Calls <- MCCalls
  MaxEvents = 4
  Path = {"file"}
  Writers = {"writer", "pusher"}
  Publishers = {"pusher"}
  Configured <- MCConfigured
SYMMETRY MCSymmetry
INVARIANTS TypeOK RolesApart Coherent OverallExact RoutingProved
CHECK_DEADLOCK FALSE
