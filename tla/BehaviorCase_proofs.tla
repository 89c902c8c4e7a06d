------------------------ MODULE BehaviorCase_proofs ------------------------
(***************************************************************************)
(* Proofs about BehaviorCase, for any cases, any private pairs and any     *)
(* number of attempts, changes and errors.                                 *)
(*                                                                         *)
(* A verdict is published long after the facts it rests on: the snapshots  *)
(* were taken before the link was checked, and the configuration compared  *)
(* with them may have changed twice.  The invariant says what each stage   *)
(* still knows: Current, that the running case's attempt is the last one;  *)
(* Linking, that its pair was accepted; Decisions and Outputs, that a      *)
(* verdict is a function of the attempt alone, and a PASS earned.          *)
(***************************************************************************)
EXTENDS BehaviorCase, FiniteSetTheorems, TLAPS

\* What an attempt whose verdict is PASS must be.
Earned(attempt) ==
  LET c == attempt.case
      own == Rows(attempt.pair, "context")
  IN /\ attempt.outcome = "usable"
     /\ attempt.after = IF Kind[c] = "writer" THEN [attempt.before EXCEPT !.target = "exact"]
                        ELSE attempt.before
     /\ Kind[c] = "writer" => attempt.before.target = "absent"
     /\ attempt.pair.variant = "v2" =>
          \A i \in Rows(attempt.pair, "tool") :
            \E j \in own : j < i /\ j > TaskPosition(attempt.pair)
     /\ Gate[Kind[c]] # "L7" =>
          Observed(c, attempt.pair) = [s |-> attempt.config, e |-> attempt.config]

\* The link was accepted, with whatever configuration and file it found.
Proved(attempt) ==
  \E config \in Setting, prepared \in BOOLEAN :
    LinkAccepted(attempt.case, attempt.pair, config, prepared)

\* The verdict on an attempt that reads nothing of the fixture as it is now.
Judged(attempt) == Verdict(attempt.case, attempt, attempt.config, Pristine)
Replayable(attempt) == Gate[Kind[attempt.case]] # "L7"

Open == pc # "idle" => outputs[case] = NoOutput
Current ==
  pc \in {"linking", "deciding", "writing", "stored"} =>
    /\ Latest \in DOMAIN attempts /\ attempts[Latest].case = case
    /\ attempts[Latest].config = configured /\ attempts[Latest].outcome = "usable"
Kept ==
  \A i \in DOMAIN attempts : attempts[i].outcome = "usable" => attempts[i].pair \in Pair
Linking == pc \in {"deciding", "writing", "stored"} => Proved(attempts[Latest])
Decisions ==
  /\ pc \in {"writing", "stored"} => decided[Latest] \in Result
  /\ \A i \in DOMAIN attempts :
       /\ decided[i] = "PASS" => Earned(attempts[i])
       /\ decided[i] # NoResult /\ Replayable(attempts[i]) => decided[i] = Judged(attempts[i])
Outputs ==
  \A c \in Case : outputs[c] # NoOutput =>
    LET i == outputs[c].attempt
    IN /\ i \in DOMAIN attempts /\ attempts[i].case = c
       /\ outputs[c].result = "PASS" => Earned(attempts[i])
       /\ outputs[c].status = "REPLAYED" => decided[i] \in {NoResult, outputs[c].result}

CaseInv == TypeOK /\ Open /\ Current /\ Kept /\ Linking /\ Decisions /\ Outputs

-----------------------------------------------------------------------------
(* Rows and verdicts. *)

\* The first of some rows is one of them.
LEMMA FirstIsOne ==
  ASSUME NEW S, S \subseteq Nat, S # {}
  PROVE  First(S) \in S
<1> DEFINE T == {1 .. i : i \in S}
<1>1. T # {} /\ T \subseteq FiniteSubsetsOf(Nat)
  <2>1. \A i \in S : IsFiniteSet(1 .. i) /\ 1 .. i \in SUBSET Nat
    BY FS_Interval
  <2> QED  BY <2>1 DEF FiniteSubsetsOf
<1>2. PICK x \in T : \A y \in T : <<y, x>> \notin StrictSubsetOrdering(Nat)
  BY <1>1, WFMin, FS_StrictSubsetOrderingWellFounded
<1>3. \E i \in S : \A j \in S : i <= j
  <2>1. PICK i \in S : x = 1 .. i
    OBVIOUS
  <2> SUFFICES ASSUME NEW j \in S, j < i PROVE FALSE
    OBVIOUS
  <2>2. 1 .. j \subseteq x /\ 1 .. j # x
    BY <2>1
  <2>3. <<1 .. j, x>> \in StrictSubsetOrdering(Nat)
    BY <2>1, <2>2 DEF StrictSubsetOrdering
  <2> QED  BY <1>2, <2>3
<1> QED  BY <1>3 DEF First

\* A kind of case has a gate, and the verdict is a result.
LEMMA GateOfCase ==
  ASSUME NEW c \in Case
  PROVE  /\ Gate[Kind[c]] \in {"L6", "L7", "L8"}
         /\ Gate[Kind[c]] = "L7" <=> Kind[c] \in {"writer", "validator"}
         /\ Kind[c] \in {"settings", "manifest"} => Gate[Kind[c]] = "L8"
BY CasesAssumption DEF Gate

LEMMA VerdictIsResult ==
  ASSUME NEW c \in Case, NEW attempt, NEW config, NEW now
  PROVE  Verdict(c, attempt, config, now) \in Result
<1>1. \A b, a, seen : ReadOnlyResult(b, a, seen, config) \in Result
  BY DEF ReadOnlyResult, Result
<1>2. \A b, a, seen, narrower : RoutingResult(b, a, seen, config, narrower) \in Result
  BY DEF RoutingResult, Result
<1>3. \A b, a : WriterResult(b, a, now) \in Result /\ ValidatorResult(b, a) \in Result
  BY DEF WriterResult, ValidatorResult, Result
<1>4. CASE Gate[Kind[c]] = "L6"
  BY <1>1, <1>4, GateOfCase DEF Verdict
<1>5. CASE Gate[Kind[c]] = "L8"
  BY <1>2, <1>5, GateOfCase DEF Verdict
<1>6. CASE Kind[c] = "writer"
  BY <1>3, <1>6, GateOfCase DEF Verdict
<1>7. CASE Kind[c] = "validator"
  BY <1>3, <1>7, GateOfCase DEF Verdict
<1> QED  BY <1>4, <1>5, <1>6, <1>7, GateOfCase

\* Outside L7 the verdict does not depend on the fixture of the moment.
LEMMA VerdictOfAttempt ==
  ASSUME NEW c \in Case, NEW attempt, NEW config, NEW now, Gate[Kind[c]] # "L7"
  PROVE  Verdict(c, attempt, config, now) = Verdict(c, attempt, config, Pristine)
<1>1. CASE Gate[Kind[c]] = "L6"
  BY <1>1 DEF Verdict
<1>2. CASE Gate[Kind[c]] = "L8"
  BY <1>2 DEF Verdict
<1> QED  BY <1>1, <1>2, GateOfCase

\* A replay's own check of HEAD changes nothing: FAIL is what the verdict is, too.
LEMMA ReplayedIsJudged ==
  ASSUME NEW attempt, attempt.case \in Case, Replayable(attempt),
         attempt.config = tree.config
  PROVE  ReplayResult(attempt) = Judged(attempt)
<1> DEFINE c == attempt.case
<1>1. Verdict(c, attempt, tree.config, tree) = Judged(attempt)
  BY VerdictOfAttempt DEF Judged, Replayable
<1>2. ASSUME attempt.before.head # attempt.after.head PROVE Judged(attempt) = "FAIL"
  <2>1. attempt.before # attempt.after
    BY <1>2
  <2>2. CASE Gate[Kind[c]] = "L6"
    BY <2>1, <2>2, GateOfCase DEF Judged, Verdict, ReadOnlyResult
  <2>3. CASE Gate[Kind[c]] = "L8"
    BY <2>1, <2>3, GateOfCase DEF Judged, Verdict, RoutingResult
  <2> QED  BY <2>2, <2>3, GateOfCase DEF Replayable
<1> QED  BY <1>1, <1>2 DEF ReplayResult

\* What an accepted link tells about the settings: those the role ran under.
LEMMA LinkedSettings ==
  ASSUME NEW c \in Case, NEW pair \in Pair, NEW config, NEW prepared,
         LinkAccepted(c, pair, config, prepared), Kind[c] # "manifest"
  PROVE  /\ First(Effective(pair)) \in Effective(pair)
         /\ Gate[Kind[c]] = "L6" =>
              Observed(c, pair) = [s |-> config, e |-> config]
<1>1. TaskLink(c, pair, config)
  BY DEF LinkAccepted
<1>2. Effective(pair) # {} /\ \A i \in Effective(pair) : Configured(c, pair, i, config)
  BY <1>1 DEF TaskLink, Contexts
<1>3. Effective(pair) \subseteq Nat
  BY DEF Effective, Rows, Pair
<1>4. First(Effective(pair)) \in Effective(pair)
  BY <1>2, <1>3, FirstIsOne
<1>5. ASSUME Gate[Kind[c]] = "L6"
      PROVE  Observed(c, pair) = [s |-> config, e |-> config]
  <2>1. Kind[c] # "settings"
    BY <1>5, GateOfCase
  <2>2. Configured(c, pair, First(Effective(pair)), config)
    BY <1>2, <1>4
  <2> QED  BY <1>5, <2>1, <2>2 DEF Configured, Observed
<1> QED  BY <1>4, <1>5

\* ... and about the tools of a v2 child: none came before those contexts.
LEMMA LinkedTools ==
  ASSUME NEW c \in Case, NEW pair \in Pair, NEW config, NEW prepared,
         LinkAccepted(c, pair, config, prepared), pair.variant = "v2",
         NEW i \in Rows(pair, "tool")
  PROVE  \E j \in Rows(pair, "context") : j < i /\ j > TaskPosition(pair)
<1>1. Kind[c] # "manifest"
  <2>1. Tools(pair) # {}
    BY DEF Tools
  <2> QED  BY <2>1 DEF LinkAccepted, ManifestLink
<1>2. First(Effective(pair)) \in Effective(pair)
  BY <1>1, LinkedSettings
<1>3. i > First(Effective(pair))
  BY <1>1 DEF LinkAccepted, TaskLink, ToolsInRole
<1> QED  BY <1>2, <1>3 DEF Effective, Rows, Pair

\* A PASS on an attempt whose link was accepted is earned, whatever became of the
\* configuration and the fixture between the two.
LEMMA PassIsEarned ==
  ASSUME NEW attempt, attempt.case \in Case, attempt.before \in Tree, attempt.after \in Tree,
         attempt.config \in Setting, attempt.outcome = "usable", attempt.pair \in Pair,
         Proved(attempt), NEW now,
         Verdict(attempt.case, attempt, attempt.config, now) = "PASS"
  PROVE  Earned(attempt)
<1> DEFINE c == attempt.case
           seen == Observed(c, attempt.pair)
           narrower == Kind[c] = "manifest" /\ attempt.pair.parent.sandbox = "narrower"
<1>1. PICK config \in Setting, prepared \in BOOLEAN :
        LinkAccepted(c, attempt.pair, config, prepared)
  BY DEF Proved
<1>2. attempt.pair.variant = "v2" =>
        \A i \in Rows(attempt.pair, "tool") :
          \E j \in Rows(attempt.pair, "context") : j < i /\ j > TaskPosition(attempt.pair)
  BY <1>1, LinkedTools
<1>3. CASE Gate[Kind[c]] = "L6"
  <2>1. ReadOnlyResult(attempt.before, attempt.after, seen, attempt.config) = "PASS"
    BY <1>3, GateOfCase DEF Verdict
  <2>2. attempt.after = attempt.before /\ ~Mismatch(seen, attempt.config)
    BY <2>1 DEF ReadOnlyResult
  <2>3. seen = [s |-> config, e |-> config]
    BY <1>1, <1>3, LinkedSettings, GateOfCase
  <2>4. seen = [s |-> attempt.config, e |-> attempt.config]
    BY <2>2, <2>3 DEF Mismatch
  <2> QED  BY <1>2, <1>3, <2>2, <2>4, GateOfCase DEF Earned
<1>4. CASE Gate[Kind[c]] = "L8"
  <2>1. RoutingResult(attempt.before, attempt.after, seen, attempt.config, narrower) = "PASS"
    BY <1>4, GateOfCase DEF Verdict
  <2>2. attempt.after = attempt.before /\ ~Mismatch(seen, attempt.config) /\ seen.e # Unobserved
    BY <2>1 DEF RoutingResult
  <2>3. seen = [s |-> seen.s, e |-> seen.e]
    BY DEF Observed
  <2>4. seen = [s |-> attempt.config, e |-> attempt.config]
    BY <2>2, <2>3 DEF Mismatch
  <2> QED  BY <1>2, <1>4, <2>2, <2>4, GateOfCase DEF Earned
<1>5. CASE Kind[c] = "writer"
  <2>1. WriterResult(attempt.before, attempt.after, now) = "PASS"
    BY <1>5, GateOfCase DEF Verdict
  <2> QED  BY <1>2, <1>5, <2>1, GateOfCase DEF Earned, WriterResult, WriterExact
<1>6. CASE Kind[c] = "validator"
  <2>1. ValidatorResult(attempt.before, attempt.after) = "PASS"
    BY <1>6, GateOfCase DEF Verdict
  <2> QED  BY <1>2, <1>6, <2>1, GateOfCase DEF Earned, ValidatorResult
<1> QED  BY <1>3, <1>4, <1>5, <1>6, GateOfCase

-----------------------------------------------------------------------------
(* The invariant. *)

LEMMA InitHolds == Init => CaseInv
<1> SUFFICES ASSUME Init PROVE CaseInv  OBVIOUS
<1> USE DEF Init
<1>1. TypeOK
  BY BoundsAssumption DEF TypeOK, Pristine, Tree, Content, Setting, Step
<1>2. DOMAIN attempts = {}
  OBVIOUS
<1> QED
  BY <1>1, <1>2 DEF CaseInv, Open, Current, Kept, Linking, Decisions, Outputs

\* A step that ends the case, or leaves it where it is, and touches no evidence.
LEMMA QuietStep ==
  ASSUME CaseInv, UNCHANGED evidence, TypeOK',
         \/ pc' \in {"idle", "prepared", "configured", "running"} /\ Open'
         \/ UNCHANGED <<pc, case, configured>>
         \/ pc = "linking" /\ pc' = "deciding" /\ UNCHANGED <<case, configured>>
              /\ Proved(attempts[Latest])
  PROVE  CaseInv'
<1> USE DEF CaseInv, evidence
<1>1. Open'
  BY DEF Open
<1>2. Current' /\ Linking'
  BY DEF Current, Linking, Latest
<1>3. Kept' /\ Outputs'
  BY DEF Kept, Outputs
<1>4. Decisions'
  BY DEF Decisions, Latest
<1> QED  BY <1>1, <1>2, <1>3, <1>4

LEMMA BeginStep == ASSUME CaseInv, NEW c \in Case, Begin(c) PROVE CaseInv'
<1>1. pc' = "prepared" /\ case' = c /\ outputs[c] = NoOutput /\ UNCHANGED evidence
  BY DEF Begin, CaseOpen
<1>2. TypeOK'
  BY NoRunAssumption DEF CaseInv, TypeOK, Begin, evidence, Tree, Content, Step
<1>3. Open'
  BY <1>1 DEF Open, evidence
<1> QED  BY <1>1, <1>2, <1>3, QuietStep

LEMMA IdleStep ==
  ASSUME CaseInv, Idle, UNCHANGED evidence, tree' \in Tree,
         changes' \in 0 .. MaxChanges, faults' \in 0 .. MaxFaults
  PROVE  CaseInv'
<1>1. TypeOK'
  BY DEF CaseInv, TypeOK, Idle, evidence, Pristine, Tree, Content, Setting, Step
<1>2. pc' = "idle" /\ Open'
  BY DEF Idle, Open
<1> QED  BY <1>1, <1>2, QuietStep

LEMMA ReadConfigurationStep == ASSUME CaseInv, ReadConfiguration PROVE CaseInv'
<1>1. UNCHANGED <<tree, changes, faults>> /\ UNCHANGED evidence
  BY DEF ReadConfiguration
<1>2. CASE Idle
  BY <1>1, <1>2, IdleStep DEF CaseInv, TypeOK
<1>3. CASE pc' = "configured" /\ configured' = tree.config /\ UNCHANGED <<case, before>>
  <2>1. TypeOK'
    BY <1>1, <1>3 DEF CaseInv, TypeOK, evidence, ReadConfiguration, Tree, Step
  <2>2. Open'
    BY <1>1, <1>3 DEF CaseInv, Open, evidence, ReadConfiguration
  <2> QED  BY <1>1, <1>3, <2>1, <2>2, QuietStep
<1> QED  BY <1>2, <1>3 DEF ReadConfiguration

LEMMA LaunchStep == ASSUME CaseInv, Launch PROVE CaseInv'
<1>1. /\ pc' = "running" /\ UNCHANGED <<tree, case, configured, changes, faults>>
      /\ UNCHANGED evidence
  BY DEF Launch
<1>2. TypeOK'
  BY <1>1 DEF CaseInv, TypeOK, evidence, Launch, Step
<1>3. Open'
  BY <1>1 DEF CaseInv, Open, evidence, Launch
<1> QED  BY <1>1, <1>2, <1>3, QuietStep

LEMMA LinkStep == ASSUME CaseInv, NEW found \in BOOLEAN, Link(found) PROVE CaseInv'
<1>1. UNCHANGED <<tree, changes, faults>> /\ UNCHANGED evidence /\ pc = "linking"
  BY DEF Link
<1>2. CASE Idle
  BY <1>1, <1>2, IdleStep DEF CaseInv, TypeOK
<1>3. CASE /\ pc' = "deciding" /\ UNCHANGED <<case, before, configured>>
           /\ Linked(case, attempts[Latest])
  <2>1. TypeOK'
    BY <1>1, <1>3 DEF CaseInv, TypeOK, evidence, Step
  <2>2. Proved(attempts[Latest])
    <3>1. attempts[Latest].case = case /\ tree.config \in Setting
      BY <1>1 DEF CaseInv, Current, TypeOK, Tree
    <3>2. ManifestProved(attempts[Latest]) \in BOOLEAN
      BY DEF ManifestProved
    <3> QED  BY <1>3, <3>1, <3>2 DEF Proved, Linked
  <2> QED  BY <1>1, <1>3, <2>1, <2>2, QuietStep
<1> QED  BY <1>2, <1>3 DEF Link

LEMMA ChangeStep == ASSUME CaseInv, Change PROVE CaseInv'
<1>1. UNCHANGED <<pc, case, before, configured, faults>> /\ UNCHANGED evidence
  BY DEF Change
<1>2. tree' \in Tree /\ changes' \in 0 .. MaxChanges
  BY BoundsAssumption DEF Change, CaseInv, TypeOK, Tree, Setting
<1>3. TypeOK'
  BY <1>1, <1>2 DEF CaseInv, TypeOK, evidence
<1> QED  BY <1>1, <1>3, QuietStep

LEMMA FaultStep == ASSUME CaseInv, Fault PROVE CaseInv'
<1>1. Idle /\ UNCHANGED <<tree, changes>> /\ UNCHANGED evidence /\ faults' \in 0 .. MaxFaults
  BY BoundsAssumption DEF Fault, CaseInv, TypeOK
<1> QED  BY <1>1, IdleStep DEF CaseInv, TypeOK

\* The steps that change the evidence.
LEMMA EndCliStep ==
  ASSUME CaseInv, NEW outcome \in Outcome, NEW pair \in Candidates, EndCli(outcome, pair)
  PROVE  CaseInv'
<1> USE DEF CaseInv
<1> DEFINE new == [case |-> case, before |-> before, after |-> tree,
                   config |-> configured, outcome |-> outcome, pair |-> pair]
<1>1. /\ pc = "running" /\ attempts' = Append(attempts, new)
      /\ decided' = Append(decided, NoResult)
      /\ UNCHANGED <<tree, streams, outputs, changes, faults>>
      /\ pair \in (IF outcome = "usable" THEN Pairs[case] ELSE {NoPair})
      /\ IF outcome = "usable" THEN pc' = "linking" /\ UNCHANGED <<case, before, configured>>
         ELSE Idle
  BY DEF EndCli
<1>2. case \in Case /\ new \in Attempt
  BY <1>1, NoRunAssumption DEF TypeOK, Attempt
<1>3. outcome = "usable" => pair \in Pair
  BY <1>1, <1>2, PairsAssumption
<1>4. /\ attempts' \in Seq(Attempt) /\ Len(attempts') = Len(attempts) + 1
      /\ decided' \in Seq(Result \cup {NoResult}) /\ Len(decided') = Len(attempts')
      /\ attempts'[Len(attempts')] = new /\ decided'[Len(attempts')] = NoResult
      /\ \A i \in DOMAIN attempts : attempts'[i] = attempts[i] /\ decided'[i] = decided[i]
      /\ DOMAIN attempts' = DOMAIN attempts \cup {Len(attempts')}
      /\ DOMAIN attempts = 1 .. Len(attempts) /\ DOMAIN attempts' = 1 .. Len(attempts')
  BY <1>1, <1>2 DEF TypeOK
<1> HIDE DEF new
<1>5. new.outcome = outcome /\ new.pair = pair /\ new.case = case /\ new.config = configured
  BY DEF new
<1>6. TypeOK'
  <2>1. CASE outcome = "usable"
    BY <1>1, <1>4, <2>1 DEF TypeOK, Step
  <2>2. CASE outcome # "usable"
    BY <1>1, <1>4, <2>2 DEF TypeOK, Idle, Step, Pristine, Tree, Content, Setting
  <2> QED  BY <2>1, <2>2
<1>7. Open'
  BY <1>1 DEF Open, Idle
<1>8. Current' /\ Linking'
  <2>1. CASE outcome = "usable"
    BY <1>1, <1>4, <1>5, <2>1 DEF Current, Linking, Latest
  <2>2. CASE outcome # "usable"
    BY <1>1, <2>2 DEF Current, Linking, Idle
  <2> QED  BY <2>1, <2>2
<1>9. Kept'
  BY <1>3, <1>4, <1>5 DEF Kept
<1>10. Decisions'
  <2>1. \A i \in DOMAIN attempts' : decided'[i] = NoResult \/ i \in DOMAIN attempts
    BY <1>4
  <2>2. NoResult \notin Result
    BY DEF NoResult, Result
  <2>3. pc' \notin {"writing", "stored"}
    BY <1>1 DEF Idle
  <2>4. \A i \in DOMAIN attempts :
          /\ decided'[i] = "PASS" => Earned(attempts'[i])
          /\ decided'[i] # NoResult /\ Replayable(attempts'[i]) => decided'[i] = Judged(attempts'[i])
    BY <1>4 DEF Decisions
  <2> QED  BY <2>1, <2>3, <2>4 DEF Decisions, NoResult
<1>11. Outputs'
  BY <1>1, <1>4 DEF Outputs
<1> QED  BY <1>6, <1>7, <1>8, <1>9, <1>10, <1>11

LEMMA DecideStep == ASSUME CaseInv, Decide PROVE CaseInv'
<1> USE DEF CaseInv
<1> DEFINE attempt == attempts[Latest]
           result == Verdict(case, attempt, configured, tree)
<1>1. /\ pc = "deciding" /\ pc' = "writing" /\ decided' = [decided EXCEPT ![Latest] = result]
      /\ UNCHANGED <<tree, case, before, configured, attempts, streams, outputs, changes, faults>>
  BY DEF Decide
<1>2. /\ Latest \in DOMAIN attempts /\ DOMAIN attempts = DOMAIN decided
      /\ attempt \in Attempt /\ case \in Case /\ attempt.case = case
      /\ attempt.config = configured /\ attempt.outcome = "usable"
  BY <1>1 DEF Current, TypeOK, NoRun
<1>3. result \in Result
  BY <1>2, VerdictIsResult
<1>4. result = "PASS" => Earned(attempt)
  <2>1. attempt.pair \in Pair
    BY <1>2 DEF Kept
  <2>2. Proved(attempt)
    BY <1>1 DEF Linking
  <2> QED  BY <1>2, <2>1, <2>2, PassIsEarned DEF Attempt
<1>5. Replayable(attempt) => result = Judged(attempt)
  BY <1>2, VerdictOfAttempt DEF Replayable, Judged
<1> HIDE DEF result
<1>6. /\ decided' \in Seq(Result \cup {NoResult}) /\ Len(decided') = Len(decided)
      /\ decided'[Latest] = result /\ \A i \in DOMAIN attempts \ {Latest} : decided'[i] = decided[i]
  BY <1>1, <1>2, <1>3 DEF TypeOK
<1>7. TypeOK'
  BY <1>1, <1>6 DEF TypeOK, Step
<1>8. Open' /\ Current' /\ Kept' /\ Linking'
  BY <1>1 DEF Open, Current, Kept, Linking, Latest
<1>9. Decisions'
  BY <1>1, <1>3, <1>4, <1>5, <1>6 DEF Decisions, Latest
<1>10. Outputs'
  <2>1. outputs[case] = NoOutput
    BY <1>1 DEF Open
  <2>2. \A c \in Case : outputs[c] # NoOutput => outputs[c].attempt # Latest
    BY <1>2, <2>1 DEF Outputs
  <2> QED  BY <1>1, <1>6, <2>2 DEF Outputs
<1> QED  BY <1>7, <1>8, <1>9, <1>10

LEMMA WriteStreamStep == ASSUME CaseInv, WriteStream PROVE CaseInv'
<1> USE DEF CaseInv
<1>1. /\ pc = "writing" /\ pc' = "stored" /\ streams' = streams \cup {case}
      /\ UNCHANGED <<tree, case, before, configured, attempts, outputs, decided, changes, faults>>
  BY DEF WriteStream
<1>2. TypeOK'
  BY <1>1 DEF TypeOK, Step, NoRun
<1>3. Open' /\ Current' /\ Kept' /\ Linking'
  BY <1>1 DEF Open, Current, Kept, Linking, Latest
<1>4. Decisions' /\ Outputs'
  BY <1>1 DEF Decisions, Outputs, Latest
<1> QED  BY <1>2, <1>3, <1>4

\* One verdict is published, which is earned if it is a PASS.
LEMMA PublishStep ==
  ASSUME CaseInv, NEW c \in Case, NEW output \in Published, NEW i \in DOMAIN attempts,
         outputs' = [outputs EXCEPT ![c] = output], output.attempt = i,
         attempts[i].case = c, output.result = "PASS" => Earned(attempts[i]),
         output.status = "REPLAYED" => decided[i] \in {NoResult, output.result},
         pc' = "idle", UNCHANGED <<attempts, decided, streams>>, TypeOK'
  PROVE  CaseInv'
<1> USE DEF CaseInv
<1>1. Open' /\ Current' /\ Kept' /\ Linking' /\ Decisions'
  BY DEF Open, Current, Kept, Linking, Decisions
<1>2. outputs'[c] = output /\ \A d \in Case \ {c} : outputs'[d] = outputs[d]
  BY DEF TypeOK
<1>3. Outputs'
  BY <1>2 DEF Outputs
<1> QED  BY <1>1, <1>3

LEMMA WriteOutputStep == ASSUME CaseInv, WriteOutput PROVE CaseInv'
<1> USE DEF CaseInv
<1> DEFINE output == [status |-> "CAPTURED", result |-> decided[Latest], attempt |-> Latest]
<1>1. /\ pc = "stored" /\ outputs' = [outputs EXCEPT ![case] = output] /\ Idle
      /\ UNCHANGED <<tree, attempts, streams, decided, changes, faults>>
  BY DEF WriteOutput
<1>2. case \in Case /\ Latest \in DOMAIN attempts /\ attempts[Latest].case = case
  BY <1>1 DEF Current, TypeOK, NoRun
<1>3. output \in Published
  BY <1>1, <1>2 DEF Decisions, Published, TypeOK, Latest
<1>4. output.result = "PASS" => Earned(attempts[Latest])
  BY <1>2 DEF Decisions
<1>5. TypeOK'
  BY <1>1, <1>2, <1>3 DEF TypeOK, Idle, Step, Pristine, Tree, Content, Setting
<1>6. pc' = "idle" /\ output.attempt = Latest /\ output.status # "REPLAYED"
  BY <1>1 DEF Idle
<1> HIDE DEF output
<1> QED  BY <1>1, <1>2, <1>3, <1>4, <1>5, <1>6, PublishStep

LEMMA ReplayStep == ASSUME CaseInv, NEW i \in DOMAIN attempts, Replay(i) PROVE CaseInv'
<1> USE DEF CaseInv
<1> DEFINE attempt == attempts[i]
           output == [status |-> "REPLAYED", result |-> ReplayResult(attempt), attempt |-> i]
<1>1. /\ pc = "idle" /\ Eligible(attempt) /\ Linked(attempt.case, attempt)
      /\ outputs' = [outputs EXCEPT ![attempt.case] = output]
      /\ UNCHANGED <<tree, pc, case, before, configured, attempts, streams, decided, changes, faults>>
  BY DEF Replay
<1>2. attempt \in Attempt /\ attempt.case \in Case /\ i \in Nat
  <2>1. attempt \in Attempt /\ i \in Nat
    BY DEF TypeOK
  <2> QED  BY <2>1 DEF Attempt
<1>3. Replayable(attempt) /\ attempt.outcome = "usable" /\ attempt.config = tree.config
  BY <1>1 DEF Eligible, SameConfig, Replayable
<1>4. ReplayResult(attempt) = Judged(attempt)
  BY <1>2, <1>3, ReplayedIsJudged
<1>5. Judged(attempt) \in Result
  BY <1>2, VerdictIsResult DEF Judged
<1>6. Judged(attempt) = "PASS" => Earned(attempt)
  <2>1. attempt.pair \in Pair
    BY <1>3 DEF Kept
  <2>2. Proved(attempt)
    <3>1. tree.config \in Setting /\ ManifestProved(attempt) \in BOOLEAN
      BY DEF TypeOK, Tree, ManifestProved
    <3> QED  BY <1>1, <3>1 DEF Proved, Linked
  <2> QED  BY <1>2, <1>3, <2>1, <2>2, PassIsEarned DEF Attempt, Judged
<1>7. output \in Published
  BY <1>2, <1>4, <1>5 DEF Published
<1>8. decided[i] \in {NoResult, output.result}
  BY <1>3, <1>4 DEF Decisions
<1>9. TypeOK'
  BY <1>1, <1>2, <1>7 DEF TypeOK
<1>10. output.attempt = i /\ output.result = Judged(attempt)
  BY <1>4
<1> HIDE DEF output
<1> QED  BY <1>1, <1>2, <1>6, <1>7, <1>8, <1>9, <1>10, PublishStep

LEMMA CaseStep == CaseInv /\ [Next]_vars => CaseInv'
<1> SUFFICES ASSUME CaseInv, [Next]_vars PROVE CaseInv'  OBVIOUS
<1>1. CASE UNCHANGED vars
  <2>1. TypeOK'
    BY <1>1 DEF CaseInv, vars, TypeOK
  <2> QED  BY <1>1, <2>1, QuietStep DEF vars, evidence
<1>2. CASE \E c \in Case : Begin(c)
  BY <1>2, BeginStep
<1>3. CASE \E outcome \in Outcome, pair \in Candidates : EndCli(outcome, pair)
  BY <1>3, EndCliStep
<1>4. CASE \E found \in BOOLEAN : Link(found)
  BY <1>4, LinkStep
<1>5. CASE \E i \in DOMAIN attempts : Replay(i)
  BY <1>5, ReplayStep
<1> QED
  BY <1>1, <1>2, <1>3, <1>4, <1>5, ReadConfigurationStep, LaunchStep, DecideStep,
     WriteStreamStep, WriteOutputStep, ChangeStep, FaultStep DEF Next

-----------------------------------------------------------------------------
(* Theorems. *)

\* What each stage of a case knows, and what a verdict rests on.
THEOREM Invariance == Spec => []CaseInv
BY InitHolds, CaseStep, PTL DEF Spec

\* Every variable has its type.
THEOREM TypeCorrect == Spec => []TypeOK
<1>1. CaseInv => TypeOK
  BY DEF CaseInv
<1> QED  BY <1>1, Invariance, PTL

\* A PASS of a case, captured or replayed, is earned by one attempt at it.
THEOREM PassesEarned == Spec => []PassEarned
<1>1. ASSUME CaseInv, NEW c \in Case, outputs[c].result = "PASS"
      PROVE  outputs[c] # NoOutput
  BY <1>1 DEF NoOutput, NoResult
<1>2. ASSUME CaseInv, NEW c \in Case, outputs[c].result = "PASS"
      PROVE  attempts[outputs[c].attempt].case = c /\ Earned(attempts[outputs[c].attempt])
  BY <1>1, <1>2 DEF CaseInv, Outputs
<1>3. CaseInv => PassEarned
  <2> DEFINE Of(c) == attempts[outputs[c].attempt]
  <2> SUFFICES ASSUME CaseInv, NEW c \in Case, outputs[c].result = "PASS"
               PROVE  /\ Of(c).case = c /\ Of(c).outcome = "usable"
                      /\ Of(c).after =
                           IF Kind[c] = "writer" THEN [Of(c).before EXCEPT !.target = "exact"]
                           ELSE Of(c).before
                      /\ Kind[c] = "writer" => Of(c).before.target = "absent"
                      /\ Of(c).pair.variant = "v2" =>
                           \A i \in Rows(Of(c).pair, "tool") :
                             \E j \in Rows(Of(c).pair, "context") :
                               j < i /\ j > TaskPosition(Of(c).pair)
                      /\ Gate[Kind[c]] # "L7" =>
                           Observed(c, Of(c).pair) = [s |-> Of(c).config, e |-> Of(c).config]
    BY DEF PassEarned
  <2>1. Of(c).case = c /\ Earned(Of(c))
    BY <1>2
  <2> HIDE DEF Of
  <2> QED BY <2>1 DEF Earned
<1> QED  BY <1>3, Invariance, PTL

\* A replay never publishes another result than the case had decided on.
THEOREM ReplaysAgree == Spec => []ReplayAgrees
<1>1. ASSUME NEW c \in Case, outputs[c].status = "REPLAYED"
      PROVE  outputs[c] # NoOutput
  BY <1>1 DEF NoOutput
<1>2. CaseInv => ReplayAgrees
  BY <1>1 DEF CaseInv, Outputs, ReplayAgrees
<1> QED  BY <1>2, Invariance, PTL

\* A published verdict stays, and its case is not attempted again.
THEOREM VerdictsFinal == Spec => VerdictFinal
<1> DEFINE Final == \A c \in Case : outputs[c] # NoOutput =>
             /\ outputs'[c] = outputs[c]
             /\ Len(attempts') > Len(attempts) => attempts'[Len(attempts')].case # c
<1>1. ASSUME CaseInv, [Next]_vars PROVE [Final]_vars
  <2>1. CASE UNCHANGED vars
    BY <2>1
  <2>2. Len(attempts) \in Nat /\ outputs \in [Case -> Published \cup {NoOutput}]
    BY <1>1 DEF CaseInv, TypeOK
  <2>3. CASE UNCHANGED <<outputs, attempts>>
    BY <2>2, <2>3
  <2>4. ASSUME NEW outcome \in Outcome, NEW pair \in Candidates, EndCli(outcome, pair) PROVE Final
    <3>1. outputs[case] = NoOutput /\ outputs' = outputs
      BY <1>1, <2>4 DEF CaseInv, Open, EndCli
    <3>2. attempts'[Len(attempts')].case = case
      BY <1>1, <2>4 DEF CaseInv, TypeOK, EndCli
    <3> QED  BY <3>1, <3>2
  <2>5. CASE WriteOutput
    <3>1. outputs[case] = NoOutput
      BY <1>1, <2>5 DEF CaseInv, Open, WriteOutput
    <3> QED  BY <2>2, <2>5, <3>1 DEF WriteOutput
  <2>6. ASSUME NEW i \in DOMAIN attempts, Replay(i) PROVE Final
    BY <2>2, <2>6 DEF Replay, CaseOpen
  <2>7. CASE \/ \E c \in Case : Begin(c)
             \/ ReadConfiguration \/ Launch \/ (\E found \in BOOLEAN : Link(found))
             \/ Decide \/ WriteStream \/ Change \/ Fault
    BY <2>3, <2>7 DEF Begin, ReadConfiguration, Launch, Link, Decide, WriteStream, Change,
         Fault, evidence
  <2> QED  BY <1>1, <2>1, <2>4, <2>5, <2>6, <2>7 DEF Next
<1> QED  BY <1>1, Invariance, PTL DEF Spec, VerdictFinal
=============================================================================
