--------------------------- MODULE MCLiveSummary ---------------------------
(***************************************************************************)
(* Two cases; events that pass, fail, block or are under way, that         *)
(* contradict themselves, and that belong to no case or no run of ours.    *)
(***************************************************************************)
EXTENDS LiveSummary

Full == Begun \cup Ended \cup {"passRequirements"}
Case(id, status, result, exit, has) ==
  [id |-> id, critical |-> id = "known", wellFormed |-> TRUE, status |-> status,
   result |-> result, exit |-> exit, has |-> has]
Event(case) == [here |-> TRUE, case |-> case]
Passing(id) == Case(id, "Complete", "PASS", "zero", Full)

MCEvents ==
  UNION {{Event(Passing(id)),
          Event(Case(id, "Complete", "FAIL", "other", Full \cup {"failedAssertion"})),
          Event(Case(id, "Complete", "PASS", "other", Full))} : id \in {"known", "plain"}}
  \cup {Event(Case("known", "In progress", "none", "none", Begun)),
        Event(Case("plain", "Blocked", "BLOCKED", "none", Begun \cup Ended)),
        Event(Case("plain", "Complete", "UNVERIFIED", "zero", Begun \cup Ended)),
        Event(Case("plain", "Complete", "PASS", "zero", Full \ {"passRequirements"})),
        Event(Case("known", "Not started", "none", "none", {})),
        Event([Passing("plain") EXCEPT !.critical = TRUE]),
        [here |-> FALSE, case |-> Passing("known")],
        Event(Passing("stray")), Event(Passing("None"))}
=============================================================================
