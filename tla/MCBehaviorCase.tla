--------------------------- MODULE MCBehaviorCase ---------------------------
(***************************************************************************)
(* A read-only case, a writer and its validator, and two routing cases,    *)
(* with the private pairs that tell their checks apart.                    *)
(***************************************************************************)
EXTENDS BehaviorCase, TLC

MCKind == ("l6" :> "inspect") @@ ("l7" :> "writer") @@ ("l7v" :> "validator")
            @@ ("l8" :> "settings") @@ ("l8m" :> "manifest")

Context(s, e, own) == [t |-> "context", s |-> s, e |-> e, own |-> own]
Tool(k) == [t |-> "tool", k |-> k, good |-> TRUE]
Mark(t) == [t |-> t]
Ctx == Context("installed", "installed", TRUE)
Late == Context("edited", "edited", TRUE)
Parent == [s |-> "edited", e |-> "edited", sandbox |-> "requested"]
Good(variant, rows) ==
  [variant |-> variant, protocol |-> TRUE, marker |-> TRUE, correlates |-> TRUE,
   parent |-> Parent, rows |-> rows]
Ending == <<Mark("final"), Mark("complete")>>
Inspection == <<Tool("readme"), Tool("head")>>
Outsider == Context("edited", "edited", FALSE)

MCPairs ==
  ("l6" :>
    { Good("v2", <<Outsider, Mark("task"), Ctx>> \o Inspection \o Ending),
      Good("v2", <<Outsider, Mark("task")>> \o Inspection \o <<Ctx>> \o Ending),
      Good("v2", <<Mark("task"), Late>> \o Inspection \o Ending) })
  @@ ("l7" :> {Good("v2", <<Outsider, Mark("task"), Ctx, Tool("other")>> \o Ending)})
  @@ ("l7v" :> {Good("v2", <<Mark("task"), Ctx, Tool("other"), Tool("hash")>> \o Ending)})
  @@ ("l8" :>
    { Good("v2", <<Mark("task"), Late>> \o Ending),
      [Good("v1", <<Context("installed", Unobserved, TRUE)>> \o Ending)
        EXCEPT !.correlates = FALSE] })
  @@ ("l8m" :> {Good("v2", <<Outsider, Ctx, Mark("delivery")>> \o Ending)})
=============================================================================
