---------------------------- MODULE BehaviorCase ----------------------------
(***************************************************************************)
(* The behaviour cases of scripts/run_live_behavior_case.py: one call of   *)
(* the Codex CLI in the owned fixture, between two snapshots of it; the    *)
(* attempt kept as evidence; the link to the private rollouts; the verdict *)
(* and its publication; and the offline replay of a kept attempt.          *)
(*                                                                         *)
(* Cases and replays hold the run lock, so one of them runs at a time      *)
(* (OwnedFixture is about that lock).  The agent works in the fixture      *)
(* while the CLI runs, and somebody else may change a file at any moment.  *)
(* A replay calls no CLI; what it reads of the fixture it reads in one     *)
(* step here.  A finished session's rollouts no longer change, but they    *)
(* are not kept with the evidence and may be missing when they are wanted. *)
(***************************************************************************)
EXTENDS PrivateLink

CONSTANTS
  Pairs,         \* the private pairs that a session of each case can leave
  MaxAttempts,   \* bound on the kept attempts
  MaxChanges,    \* bound on the changes in the fixture
  MaxFaults      \* bound on the I/O errors

ASSUME BoundsAssumption == {MaxAttempts, MaxChanges, MaxFaults} \subseteq Nat
ASSUME PairsAssumption == \A c \in Case : Pairs[c] \subseteq Pair

Content == {"absent", "exact", "other"}
\* The fixture, as a snapshot records it: the role's configuration, the writer's
\* target, the file a case prepares, and HEAD with everything else.
Tree == [head : 0 .. 1, config : Setting, target : Content, prepared : Content]

Outcome == {"usable",      \* exit 0, and the public stream has the expected shape
            "refused"}     \* another exit, a timeout, another shape or an unsafe stream
NoPair == [variant |-> "none"]           \* nobody looks for the pair of a refused attempt
Result == {"PASS", "FAIL", "UNVERIFIED"}
NoResult == "none"
NoRun == "none"
ASSUME NoRunAssumption == NoRun \notin Case
Step == {"idle", "prepared", "configured", "running", "linking", "deciding", "writing", "stored"}
Candidates == UNION {Pairs[c] : c \in Case} \cup {NoPair}
Attempt == [case : Case, before : Tree, after : Tree, config : Setting,
            outcome : Outcome, pair : Candidates]
Published == [status : {"CAPTURED", "REPLAYED"}, result : Result, attempt : Nat]
NoOutput == [status |-> "none", result |-> NoResult, attempt |-> 0]

VARIABLES
  tree,         \* the fixture
  pc,           \* where the running case stands
  case,         \* the running case, NoRun when idle
  before,       \* its first snapshot
  configured,   \* the configuration it read at its start
  attempts,     \* results/behavior-attempts: the receipts
  streams,      \* the cases whose stream is in results/behavior-cases
  outputs,      \* the verdicts in results/behavior-cases
  decided,      \* what was decided on each attempt (ghost: kept in no file)
  changes,      \* changes so far
  faults        \* I/O errors so far

evidence == <<attempts, streams, outputs, decided>>
vars == <<tree, pc, case, before, configured, attempts, streams, outputs, decided,
          changes, faults>>

Pristine == [head |-> 0, config |-> "installed", target |-> "absent",
             prepared |-> "absent"]

Init ==
  /\ tree = Pristine /\ pc = "idle" /\ case = NoRun
  /\ before = Pristine /\ configured = "installed"
  /\ attempts = <<>> /\ streams = {} /\ decided = <<>>
  /\ outputs = [c \in Case |-> NoOutput]
  /\ changes = 0 /\ faults = 0

-----------------------------------------------------------------------------
(* The decision. *)

\* (mutant) the target and its content are looked at, the rest is not
TargetWritten(b, a) == b.target = "absent" /\ a.target = "exact"
\* One new file, and nothing else, between the snapshots.
WriterExact(b, a) == b.target = "absent" /\ a = [b EXCEPT !.target = "exact"]

Mismatch(seen, config) == seen.s # config \/ seen.e \notin {config, Unobserved}

ReadOnlyResult(b, a, seen, config) ==
  IF a = b /\ ~Mismatch(seen, config) THEN "PASS" ELSE "FAIL"
RoutingResult(b, a, seen, config, narrower) ==
  IF a # b \/ Mismatch(seen, config) \/ narrower THEN "FAIL"
  ELSE IF seen.e = Unobserved THEN "UNVERIFIED" ELSE "PASS"
WriterResult(b, a, now) ==
  IF b.head = a.head /\ WriterExact(b, a) /\ now.target = "exact" THEN "PASS" ELSE "FAIL"
ValidatorResult(b, a) == IF b.head = a.head /\ a = b THEN "PASS" ELSE "FAIL"

Verdict(c, attempt, config, now) ==
  LET b == attempt.before
      a == attempt.after
      seen == Observed(c, attempt.pair)
      narrower == Kind[c] = "manifest" /\ attempt.pair.parent.sandbox = "narrower"
  IN CASE Gate[Kind[c]] = "L6"  -> ReadOnlyResult(b, a, seen, config)
       [] Gate[Kind[c]] = "L8"  -> RoutingResult(b, a, seen, config, narrower)
       [] Kind[c] = "writer"    -> WriterResult(b, a, now)
       [] Kind[c] = "validator" -> ValidatorResult(b, a)

ManifestProved(attempt) ==
  tree.prepared = "exact" /\ attempt.before.prepared = "exact" /\ attempt.after.prepared = "exact"
Correlated(attempt) == attempt.pair.variant = "v2" \/ attempt.pair.correlates
Linked(c, attempt) == LinkAccepted(c, attempt.pair, tree.config, ManifestProved(attempt))

-----------------------------------------------------------------------------
(* A case. *)

\* (mutant) a verdict without a stream, which a replay leaves, is overwritten
StreamOnly(c) == c \notin streams
CaseOpen(c) == c \notin streams /\ outputs[c] = NoOutput

Preparing == {"challenge", "manifest"}
Begin(c) ==
  /\ pc = "idle" /\ Len(attempts) < MaxAttempts
  /\ CaseOpen(c)
  /\ Kind[c] \in Preparing => tree.prepared # "other"
  /\ tree' = IF Kind[c] \in Preparing THEN [tree EXCEPT !.prepared = "exact"] ELSE tree
  /\ pc' = "prepared" /\ case' = c
  /\ UNCHANGED <<before, configured, changes, faults>> /\ UNCHANGED evidence

\* The command ends, and its variables are gone.
Idle == /\ pc' = "idle" /\ case' = NoRun
        /\ before' = Pristine /\ configured' = "installed"
\* The installed configuration has to be that of the source.
ReadConfiguration ==
  /\ pc = "prepared"
  /\ IF tree.config = "installed"
     THEN pc' = "configured" /\ configured' = tree.config /\ UNCHANGED <<case, before>>
     ELSE Idle
  /\ UNCHANGED <<tree, changes, faults>> /\ UNCHANGED evidence

\* The first snapshot, which a change since then may be in.
Launch ==
  /\ pc = "configured"
  /\ before' = tree
  /\ pc' = "running"
  /\ UNCHANGED <<tree, case, configured, changes, faults>> /\ UNCHANGED evidence

EndCli(outcome, pair) ==
  /\ pc = "running"
  /\ pair \in (IF outcome = "usable" THEN Pairs[case] ELSE {NoPair})
  /\ attempts' = Append(attempts, [case |-> case, before |-> before, after |-> tree,
                          config |-> configured, outcome |-> outcome, pair |-> pair])
  /\ decided' = Append(decided, NoResult)
  /\ IF outcome = "usable" THEN pc' = "linking" /\ UNCHANGED <<case, before, configured>>
     ELSE Idle
  /\ UNCHANGED <<tree, streams, outputs, changes, faults>>

Latest == Len(attempts)
Link(found) ==
  /\ pc = "linking"
  /\ IF /\ found
        /\ Linked(case, attempts[Latest])
        /\ Gate[Kind[case]] = "L6" \/ Kind[case] = "validator" => Correlated(attempts[Latest])
     THEN pc' = "deciding" /\ UNCHANGED <<case, before, configured>>
     ELSE Idle
  /\ UNCHANGED <<tree, changes, faults>> /\ UNCHANGED evidence

Decide ==
  /\ pc = "deciding"
  /\ decided' = [decided EXCEPT ![Latest] = Verdict(case, attempts[Latest], configured, tree)]
  /\ pc' = "writing"
  /\ UNCHANGED <<tree, case, before, configured, attempts, streams, outputs,
                 changes, faults>>

WriteStream ==
  /\ pc = "writing"
  /\ streams' = streams \cup {case}
  /\ pc' = "stored"
  /\ UNCHANGED <<tree, case, before, configured, attempts, outputs, decided,
                 changes, faults>>

WriteOutput ==
  /\ pc = "stored"
  /\ outputs' = [outputs EXCEPT ![case] =
       [status |-> "CAPTURED", result |-> decided[Latest], attempt |-> Latest]]
  /\ Idle
  /\ UNCHANGED <<tree, attempts, streams, decided, changes, faults>>

-----------------------------------------------------------------------------
(* A replay.  It judges with the configuration it finds.  A replay that is   *)
(* refused, and a case whose link is, leaves a BLOCKED record that nothing  *)
(* reads.                                                                   *)

\* (mutant) the configuration of the attempt is not compared with today's
AnyConfig(attempt) == TRUE
SameConfig(attempt) ==
  /\ tree.config = "installed" /\ attempt.config = tree.config
  /\ attempt.before.config = tree.config /\ attempt.after.config = tree.config
Eligible(attempt) ==
  Gate[Kind[attempt.case]] \in {"L6", "L8"} /\ attempt.outcome = "usable" /\ SameConfig(attempt)
ReplayResult(attempt) ==
  IF attempt.before.head # attempt.after.head THEN "FAIL"
  ELSE Verdict(attempt.case, attempt, tree.config, tree)

Replay(i) ==
  LET attempt == attempts[i]
      c == attempt.case
  IN /\ pc = "idle"
     /\ Eligible(attempt) /\ Linked(c, attempt) /\ Correlated(attempt)
     /\ CaseOpen(c)
     /\ outputs' = [outputs EXCEPT ![c] =
          [status |-> "REPLAYED", result |-> ReplayResult(attempt), attempt |-> i]]
     /\ UNCHANGED <<tree, pc, case, before, configured, attempts, streams, decided,
                    changes, faults>>

-----------------------------------------------------------------------------
(* The agent, or somebody else, changes a file or commits; an I/O error     *)
(* ends the running case.  Nothing reads the fixture while the verdict is   *)
(* written: a change then is one made right after.                          *)

Change ==
  /\ pc \notin {"writing", "stored"}
  /\ changes < MaxChanges /\ changes' = changes + 1
  /\ \/ \E x \in Content : tree' = [tree EXCEPT !.target = x]
     \/ \E x \in Content : tree' = [tree EXCEPT !.prepared = x]
     \/ \E x \in Setting : tree' = [tree EXCEPT !.config = x]
     \/ tree' = [tree EXCEPT !.head = 1]
  /\ tree' # tree
  /\ UNCHANGED <<pc, case, before, configured, faults>> /\ UNCHANGED evidence

Fault ==
  /\ pc # "idle" /\ faults < MaxFaults /\ faults' = faults + 1
  /\ Idle
  /\ UNCHANGED <<tree, changes>> /\ UNCHANGED evidence

Next ==
  \/ \E c \in Case : Begin(c)
  \/ ReadConfiguration
  \/ Launch
  \/ \E outcome \in Outcome, pair \in Candidates : EndCli(outcome, pair)
  \/ \E found \in BOOLEAN : Link(found)
  \/ Decide
  \/ WriteStream
  \/ WriteOutput
  \/ \E i \in DOMAIN attempts : Replay(i)
  \/ Change
  \/ Fault

Spec == Init /\ [][Next]_vars

-----------------------------------------------------------------------------
(* Properties. *)

TypeOK ==
  /\ tree \in Tree /\ before \in Tree /\ configured \in Setting
  /\ pc \in Step /\ case \in Case \cup {NoRun} /\ (case = NoRun <=> pc = "idle")
  /\ attempts \in Seq(Attempt)
  /\ decided \in Seq(Result \cup {NoResult}) /\ Len(decided) = Len(attempts)
  /\ streams \subseteq Case
  /\ outputs \in [Case -> Published \cup {NoOutput}]
  /\ changes \in 0 .. MaxChanges /\ faults \in 0 .. MaxFaults

\* A published PASS is earned by one attempt at that very case: its call ended
\* well; between its snapshots nothing changed but a writer's target, which
\* became exact; no v2 child called a tool outside the role's own contexts; and,
\* outside L7, the settings seen are those installed when the call was made,
\* however the fixture changed before the verdict or the replay.
PassEarned ==
  \A c \in Case : outputs[c].result = "PASS" =>
    LET attempt == attempts[outputs[c].attempt]
        own == Rows(attempt.pair, "context")
    IN /\ attempt.case = c /\ attempt.outcome = "usable"
       /\ attempt.after = IF Kind[c] = "writer" THEN [attempt.before EXCEPT !.target = "exact"]
                          ELSE attempt.before
       /\ Kind[c] = "writer" => attempt.before.target = "absent"
       /\ attempt.pair.variant = "v2" =>
            \A i \in Rows(attempt.pair, "tool") :
              \E j \in own : j < i /\ j > TaskPosition(attempt.pair)
       /\ Gate[Kind[c]] # "L7" =>
            Observed(c, attempt.pair) = [s |-> attempt.config, e |-> attempt.config]

\* A verdict is final: once a case has one, it stays as it is and no attempt at
\* the case is made again, neither by a case nor by a replay.
VerdictFinal ==
  [][\A c \in Case : outputs[c] # NoOutput =>
       /\ outputs'[c] = outputs[c]
       /\ Len(attempts') > Len(attempts) => attempts'[Len(attempts')].case # c]_vars

\* A replay overturns nothing: when the case had already decided on the attempt
\* and failed to publish, the replay publishes that same result.
ReplayAgrees ==
  \A c \in Case : outputs[c].status = "REPLAYED" =>
    decided[outputs[c].attempt] \in {NoResult, outputs[c].result}
=============================================================================
