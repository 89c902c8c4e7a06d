-------------------------- MODULE AtomicTransaction --------------------------
(***************************************************************************)
(* What the installer's transaction engine promises about the files of one *)
(* plan: they all take their new contents at one instant, or none of them  *)
(* ever does.  A file that the user of the repository changes meanwhile is *)
(* withdrawn from the promise; the others stay in it.                      *)
(***************************************************************************)
CONSTANTS Action, Plans

VARIABLES
  plan,     \* the transaction, with the old and the new contents
  files,    \* logical contents of the files still under the promise
  verdict   \* "open" until the transaction is decided

vars == <<plan, files, verdict>>

Init ==
  /\ plan \in Plans
  /\ files = plan.pre
  /\ verdict = "open"

\* Every file changes, in one step.
Commit ==
  /\ verdict = "open"
  /\ verdict' = "committed"
  /\ files' = [i \in DOMAIN files |-> plan.post[i]]
  /\ UNCHANGED plan

\* The transaction is given up and no file has changed.
Abort ==
  /\ verdict = "open"
  /\ verdict' = "rolledBack"
  /\ UNCHANGED <<plan, files>>

\* The user takes a file out of the transaction's hands.
Withdraw(i) ==
  /\ files' = [j \in DOMAIN files \ {i} |-> files[j]]
  /\ UNCHANGED <<plan, verdict>>

Next ==
  \/ Commit
  \/ Abort
  \/ \E i \in Action : Withdraw(i)

Spec == Init /\ [][Next]_vars
=============================================================================
