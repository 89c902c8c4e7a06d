----------------------------- MODULE TurnHistory -----------------------------
(***************************************************************************)
(* What a task's timeline promises about its turns: each is opened at most *)
(* once, closed at most once, and never reopened while it is remembered.   *)
(***************************************************************************)
CONSTANT Turn

VARIABLES
  open,    \* turns that were started and not finished
  closed   \* turns that are over

Init == open = {} /\ closed = {}

Open(t) ==
  /\ t \notin open \cup closed
  /\ open' = open \cup {t}
  /\ UNCHANGED closed

Close(t) ==
  /\ t \in open
  /\ open' = open \ {t} /\ closed' = closed \cup {t}

\* A turn that is recorded when it is already over.
Record(t) ==
  /\ t \notin open \cup closed
  /\ closed' = closed \cup {t}
  /\ UNCHANGED open

\* Retention forgets turns, and changes none that it remembers.
Forget ==
  /\ open' \in SUBSET open
  /\ closed' \in SUBSET closed

Next ==
  \/ \E t \in Turn : Open(t) \/ Close(t) \/ Record(t)
  \/ Forget

Spec == Init /\ [][Next]_<<open, closed>>
=============================================================================
