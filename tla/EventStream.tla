---------------------------- MODULE EventStream ----------------------------
(***************************************************************************)
(* The event adapter of scripts/codex_event_adapter.py: one pass over the  *)
(* JSONL events of a Codex session that finds the parent session and says  *)
(* which child session played which role.                                  *)
(*                                                                         *)
(* Reading a line is one step.  Whatever is wrong with the stream is noted *)
(* in reasons and reading goes on; the result is trusted only when nothing *)
(* was noted (StreamAttribution.integrity).  A line is modelled by the     *)
(* fields the adapter looks at: a role, a session id and a setting (model  *)
(* or effort) are values of small sets, Unknown is a string that names     *)
(* none of them, and NoValue is an absent field or one of another type.    *)
(***************************************************************************)
EXTENDS Naturals, FiniteSets

CONSTANTS
  Role,        \* EXPECTED_ROLES
  Session,     \* the well-formed session ids that occur
  Setting,     \* the models and efforts that occur
  Unknown,     \* a string that is no known role and no well-formed id
  NoValue,     \* None, an absent field, or a field that is no string
  Items,       \* the collaboration_tool_call items that occur
  Calls,       \* the collab_tool_call items that occur
  MaxEvents    \* bound on the lines read

ASSUME SentinelsAssumption ==
  /\ Unknown \notin Role \cup Session \cup Setting
  /\ NoValue \notin Role \cup Session \cup Setting \cup {Unknown}

ItemPhase == {"started", "updated", "completed"}
CallStatus == {"in_progress", "completed", "failed"}

ASSUME CallsAssumption ==
  /\ \A i \in Items : i.phase \in ItemPhase /\ i.setting \in Setting \cup {NoValue}
  /\ \A k \in Calls :
       /\ k.phase \in ItemPhase
       /\ k.tool \in {"spawn_agent", "send_input", "wait", "close_agent"}
       /\ k.status \in CallStatus

VARIABLES
  expected,    \* the roles the caller expects; {} when its argument is invalid
  explicit,    \* the caller named them, rather than taking the whole catalog
  phase,       \* "reading" or "done"
  parent,      \* parent_session_id
  attributed,  \* attributed: the child session of each role
  observed,    \* observed_models, observed_efforts
  reasons,     \* the reason codes noted so far
  terminal,    \* terminal_seen
  count,       \* lines read
  claims,      \* history: every attribution the stream asked for ...
  threads      \* ... and every id a thread.started event gave, while reasons = {}

call == <<expected, explicit>>
vars == <<call, phase, parent, attributed, observed, reasons, terminal, count, claims, threads>>

-----------------------------------------------------------------------------

Note(condition, code) == IF condition THEN {code} ELSE {}

\* The file is cut inside a line: its last line has no newline.
Init ==
  /\ expected \in SUBSET Role
  /\ explicit \in {e \in BOOLEAN : e \/ expected = Role}
  /\ phase = "reading"
  /\ parent = NoValue
  /\ attributed = [r \in Role |-> NoValue]
  /\ observed = [r \in Role |-> NoValue]
  /\ \E cut \in BOOLEAN :
       reasons = Note(expected = {}, "INVALID_EXPECTED_ROLES")
                   \cup Note(cut, "TRUNCATED_EVENT_STREAM")
  /\ terminal = FALSE
  /\ count = 0
  /\ claims = {}
  /\ threads = {}

Line ==
  /\ phase = "reading"
  /\ count < MaxEvents
  /\ count' = count + 1
  /\ UNCHANGED <<call, phase>>

\* What is wrong with attributing role r to session c, and whether the adapter
\* does it.  An attribution before the parent is known is noted and made.
Known(r) == r \in expected
Usable(c) == c \in Session \ {parent}
NeverTaken(r, c) == FALSE   \* a mutant
Taken(r, c) == \E q \in Role \ {r} : attributed[q] = c
Complaints(r, c) ==
  LET strings == NoValue \notin {r, c}
      named == strings /\ Known(r)
  IN       Note(~strings, "UNSUPPORTED_EVENT_SCHEMA")
      \cup Note(strings /\ ~Known(r), "ATTRIBUTION_UNEXPECTED")
      \cup Note(named /\ parent = NoValue, "ATTRIBUTION_BEFORE_PARENT")
      \cup Note(named /\ ~Usable(c), "INVALID_CHILD_SESSION")
      \cup Note(named /\ Usable(c) /\ attributed[r] = c, "DUPLICATE_ATTRIBUTION")
      \cup Note(named /\ Usable(c) /\ attributed[r] # c /\ (attributed[r] # NoValue \/ Taken(r, c)),
                "ATTRIBUTION_CONFLICT")
Granted(r, c) == Known(r) /\ Usable(c) /\ attributed[r] = NoValue /\ ~Taken(r, c)
Attributed(r, c) == IF Granted(r, c) THEN [attributed EXCEPT ![r] = c] ELSE attributed

\* A mutant: the settings of roles nobody expects are kept.
ObservedOfAny(r, s) ==
  IF r \in Role /\ s \in Setting THEN [observed EXCEPT ![r] = s] ELSE observed

\* The setting is recorded whether or not the attribution was made.
ObservedWith(r, s) ==
  IF Known(r) /\ s \in Setting THEN [observed EXCEPT ![r] = s] ELSE observed

Claim(r, c, s) == [at |-> count, role |-> r, child |-> c, setting |-> s,
                   started |-> parent # NoValue]

\* The histories are dropped when the first reason is noted.
Recall(newClaims, newThreads) ==
  /\ claims' = IF reasons' = {} THEN claims \cup newClaims ELSE {}
  /\ threads' = IF reasons' = {} THEN threads \cup newThreads ELSE {}

-----------------------------------------------------------------------------
(* One action per kind of line. *)

ThreadStarted(id) ==
  /\ Line
  /\ IF id \in Session /\ parent \in {NoValue, id}
     THEN parent' = id /\ UNCHANGED reasons
     ELSE reasons' = reasons \cup {"UNSUPPORTED_EVENT_SCHEMA"} /\ UNCHANGED parent
  /\ Recall({}, {id})
  /\ UNCHANGED <<attributed, observed, terminal>>

AgentSpawned(r, c, s) ==
  /\ Line
  /\ attributed' = Attributed(r, c)
  /\ reasons' = reasons \cup Complaints(r, c)
  /\ observed' = ObservedWith(r, s)
  /\ Recall({Claim(r, c, s)}, {})
  /\ UNCHANGED <<parent, terminal>>

Permitted == [started |-> {"in_progress"}, updated |-> CallStatus,
              completed |-> {"completed", "failed"}]

\* A collaboration_tool_call with tool spawn_agent names its role itself.
CollaborationSpawn(i) ==
  LET r == i.role
      c == i.child
      s == i.setting
      faults ==      Note(i.status # NoValue /\ i.status \notin Permitted[i.phase], "MALFORMED_COLLAB_TOOL_CALL")
                \cup Note(i.status = "failed", "COLLAB_TOOL_CALL_FAILED")
      attributes == i.phase = "completed" /\ faults = {}
  IN /\ Line
     /\ attributed' = IF attributes THEN Attributed(r, c) ELSE attributed
     /\ reasons' = reasons \cup faults \cup (IF attributes THEN Complaints(r, c) ELSE {})
     /\ observed' = IF attributes THEN ObservedWith(r, s) ELSE observed
     /\ Recall(IF attributes THEN {Claim(r, c, s)} ELSE {}, {})
     /\ UNCHANGED <<parent, terminal>>

\* The faults of a collab_tool_call: k.receivers is the sequence of receiver
\* ids, k.proper that its prompt and agents_states obey the tool's rules, and
\* k.lost that an agent's state is failed, cancelled or not_found.
Receiving(k) == {i \in DOMAIN k.receivers : Usable(k.receivers[i])}
CallFaults(k) ==
       Note(k.status \notin Permitted[k.phase], "MALFORMED_COLLAB_TOOL_CALL")
  \cup Note(k.sender \notin Session, "MALFORMED_COLLAB_TOOL_CALL")
  \cup Note(k.sender \in Session /\ parent = NoValue, "ATTRIBUTION_BEFORE_PARENT")
  \cup Note(k.sender \in Session /\ parent \notin {NoValue, k.sender}, "COLLAB_PARENT_MISMATCH")
  \cup Note(Receiving(k) # DOMAIN k.receivers, "INVALID_CHILD_SESSION")
  \cup Note(\E i, j \in Receiving(k) : i # j /\ k.receivers[i] = k.receivers[j], "MALFORMED_COLLAB_TOOL_CALL")
  \cup Note(~k.proper, "MALFORMED_COLLAB_TOOL_CALL")
  \cup Note(k.tool = "wait" /\ Receiving(k) # {}, "MALFORMED_COLLAB_TOOL_CALL")
  \cup Note(k.tool \in {"send_input", "close_agent"} /\ Cardinality(Receiving(k)) # 1, "MALFORMED_COLLAB_TOOL_CALL")
  \cup Note(k.lost \/ k.status = "failed", "COLLAB_TOOL_CALL_FAILED")

\* A completed spawn names no role: it is attributed only if it has one
\* receiver and the caller asked for exactly one role by name.
Spawns(k) == k.tool = "spawn_agent" /\ k.status = "completed" /\ CallFaults(k) = {}
Unambiguous(k) == explicit /\ DOMAIN k.receivers = {1} /\ \E r \in Role : expected = {r}
TheRole == CHOOSE r \in Role : expected = {r}

CollabToolCall(k) ==
  LET attributes == Spawns(k) /\ Unambiguous(k)
  IN /\ Line
     /\ attributed' = IF attributes THEN Attributed(TheRole, k.receivers[1]) ELSE attributed
     /\ reasons' = reasons \cup CallFaults(k)
                     \cup Note(Spawns(k) /\ ~Unambiguous(k), "AMBIGUOUS_ATTRIBUTION")
                     \cup (IF attributes THEN Complaints(TheRole, k.receivers[1]) ELSE {})
     /\ Recall(IF attributes THEN {Claim(TheRole, k.receivers[1], NoValue)} ELSE {}, {})
     /\ UNCHANGED <<parent, observed, terminal>>

\* A line that is no JSON, an unknown event or item, an item without the
\* required fields, or an error event.
BadLine(code) ==
  /\ Line
  /\ reasons' = reasons \cup {code}
  /\ Recall({}, {})
  /\ UNCHANGED <<parent, attributed, observed, terminal>>

TurnCompleted ==
  /\ Line
  /\ terminal' = TRUE
  /\ UNCHANGED <<parent, attributed, observed, reasons, claims, threads>>

\* The end of the stream: a role attributed to the session that turned out to
\* be the parent is withdrawn, and what is missing is noted.
NoneToParent == {}   \* a mutant
ToParent == {r \in Role : parent # NoValue /\ attributed[r] = parent}
Finish ==
  /\ phase = "reading"
  /\ phase' = "done"
  /\ attributed' = [r \in Role |-> IF r \in ToParent THEN NoValue ELSE attributed[r]]
  /\ reasons' = reasons
       \cup Note(ToParent # {}, "INVALID_CHILD_SESSION")
       \cup Note(parent = NoValue, "MISSING_PARENT_SESSION")
       \cup Note(expected = {} \/ {r \in Role : attributed'[r] # NoValue} # expected, "MISSING_ATTRIBUTION")
  /\ observed' = [r \in Role |-> IF attributed'[r] = NoValue THEN NoValue ELSE observed[r]]
  /\ Recall({}, {})
  /\ UNCHANGED <<call, parent, terminal, count>>

Next ==
  \/ \E id \in Session \cup {Unknown} : ThreadStarted(id)
  \/ \E r \in Role \cup {Unknown, NoValue}, c \in Session \cup {Unknown}, s \in Setting \cup {NoValue} :
       AgentSpawned(r, c, s)
  \/ \E i \in Items : CollaborationSpawn(i)
  \/ \E k \in Calls : CollabToolCall(k)
  \/ \E code \in {"MALFORMED_EVENT_STREAM", "UNSUPPORTED_EVENT_SCHEMA", "DISCOVERY_ERROR_EVENT"} : BadLine(code)
  \/ TurnCompleted
  \/ Finish

Spec == Init /\ [][Next]_vars

-----------------------------------------------------------------------------
(* Properties. *)

\* The children recorded are sessions, and only expected roles have one.
TypeOK ==
  /\ expected \subseteq Role
  /\ explicit \in BOOLEAN
  /\ phase \in {"reading", "done"}
  /\ parent \in Session \cup {NoValue}
  /\ attributed \in [Role -> Session \cup {NoValue}]
  /\ observed \in [Role -> Setting \cup {NoValue}]
  /\ \A r \in Role \ expected : attributed[r] = NoValue /\ observed[r] = NoValue
  /\ terminal \in BOOLEAN
  /\ count \in Nat

\* Whatever the stream, one session never stands for two roles; and in the
\* result of parse_event_stream no role is played by the parent, even when the
\* parent was named only after the attribution (_record_attribution and the
\* correction at the end).
RolesApart ==
  /\ \A q, r \in Role : q # r /\ attributed[q] = attributed[r] => attributed[q] = NoValue
  /\ phase = "done" => \A r \in Role : parent # NoValue => attributed[r] # parent

\* A stream with no reason code (integrity "complete") is coherent as a whole:
\* every thread.started event gave the same session, each expected role was
\* claimed by exactly one event, after the parent was known and for a session of
\* its own, no other claim was made, and the result repeats what these events
\* said.
Coherent ==
  phase = "done" /\ reasons = {} =>
    /\ threads = {parent}
    /\ {k.role : k \in claims} = expected
    /\ \A k \in claims :
         /\ k.started
         /\ k.child = attributed[k.role] /\ k.child # parent
         /\ k.setting = observed[k.role]
         /\ \A l \in claims : l.role = k.role \/ l.child = k.child => l = k
=============================================================================
