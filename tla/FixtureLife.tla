---------------------------- MODULE FixtureLife ----------------------------
(***************************************************************************)
(* The life of one owned root, seen from outside: where it stands, and     *)
(* which of its children exist.  A root is built while it is running,      *)
(* ready only when whole, and taken apart only while it is cleaning.  It   *)
(* never comes back from interrupted, cleaning or cleaned, and whatever    *)
(* happens its results are never deleted.                                  *)
(***************************************************************************)
CONSTANTS Child, Results
VARIABLES life, kids

Init == life = "none" /\ kids = {}

\* create makes the children, and nobody else does.
Build ==
  /\ life = "running"
  /\ kids' \subseteq Child /\ kids \subseteq kids'
  /\ UNCHANGED life

Become(from, to) == life \in from /\ life' = to /\ UNCHANGED kids

Discard ==
  /\ life = "cleaning"
  /\ \E c \in kids \ {Results} : kids' = kids \ {c}
  /\ UNCHANGED life

Next ==
  \/ Become({"none", "ready"}, "running")
  \/ Build
  \/ Become({"running"}, "ready") /\ kids = Child
  \/ Become({"running", "ready"}, "interrupted")
  \/ Become({"ready", "interrupted"}, "cleaning")
  \/ Discard
  \/ Become({"cleaning"}, "cleaned") /\ kids = {Results}

Spec == Init /\ [][Next]_<<life, kids>>
=============================================================================
