--------------------------- MODULE MCOwnedFixture ---------------------------
(***************************************************************************)
(* Two processes on one owned root.                                        *)
(***************************************************************************)
EXTENDS OwnedFixture_proofs

\* One process runs every command; or one creates the root, and two then
\* run the commands that exclude each other by the lock.
MCDeployments ==
  {[p \in {"a", "b"} |-> IF p = "a" THEN Command ELSE {}],
   [p \in {"a", "b"} |-> IF p = "a" THEN Locking \cup {"create"} ELSE Locking]}

\* A replay next to a capture.
MCReplaying ==
  {[p \in {"a", "b"} |-> IF p = "a" THEN {"create", "capture"} ELSE {"replay"}]}
=============================================================================
