--------------------------- MODULE MCRoleEvidence ---------------------------
(***************************************************************************)
(* A catalog of a read-only role, a writer and a publisher, with one       *)
(* session more than a coherent stream of all three needs.                 *)
(***************************************************************************)
EXTENDS RoleEvidence, EventStream_proofs, Sequences, TLC

MCConfigured == [r \in Role |-> "right"]
MCSymmetry == Permutations(Session)

MCCall(p, tool, status, sender, receivers, proper, lost) ==
  [phase |-> p, tool |-> tool, status |-> status, sender |-> sender,
   receivers |-> receivers, proper |-> proper, lost |-> lost]

\* Items of two phases, failed or without a status, and one with another setting.
MCItem(p, status, r, c, s) == [phase |-> p, status |-> status, role |-> r, child |-> c, setting |-> s]
MCItems ==
       {MCItem(p, status, "reader", c, "right") :
          p \in {"updated", "completed"}, status \in {NoValue, "failed"}, c \in Session}
  \cup {MCItem("completed", NoValue, "reader", c, "wrong") : c \in Session}

\* Spawns of one child, early, late and repeated, of two children, and of none;
\* and calls that are refused.
MCCalls ==
       {MCCall(p, "spawn_agent", "completed", s, <<c>>, TRUE, FALSE) :
          p \in {"updated", "completed"}, s \in Session, c \in Session}
  \cup {MCCall("completed", "spawn_agent", "completed", s, <<c, s>>, TRUE, FALSE) : s, c \in Session}
  \cup {MCCall("completed", "spawn_agent", "failed", s, <<>>, TRUE, TRUE) : s \in Session}
  \cup {MCCall("completed", "wait", "completed", s, <<>>, FALSE, FALSE) : s \in Session}
=============================================================================
