---------------------------- MODULE OwnedFixture ----------------------------
(***************************************************************************)
(* One run root of the live-validation harness: the fixture repository,    *)
(* its two worktrees and its remote, the results directory, and the        *)
(* ownership marker (ownership.json) that says who may do what with them.  *)
(*                                                                         *)
(* Seven commands work on a root: create, run, report and cleanup          *)
(* (live_validation_support.py), capture (capture_live_event.py), case and *)
(* replay (run_live_behavior_case.py).  Each is a process that validates   *)
(* the marker, does its work, hashes the results into an evidence manifest *)
(* and publishes the marker with one atomic replacement.  Only capture,    *)
(* case and replay take the run lock.  A step below is what one command    *)
(* does between two points at which another process, an I/O error or a     *)
(* kill can come in.                                                       *)
(*                                                                         *)
(* The results are abstracted to a version number, which every change of a *)
(* file in them raises; a manifest is the version it was made of.          *)
(***************************************************************************)
EXTENDS Integers, Sequences, FiniteSets

CONSTANTS
  Process,        \* processes, each running one command at a time
  NoProcess,      \* the holder of a free run lock
  Deployments,    \* which commands each process may run: functions on Process
  MaxEvidence,    \* bound on the versions of the results
  MaxFaults,      \* bound on the I/O errors
  MaxKills        \* bound on the killed processes

Command == {"create", "run", "capture", "case", "replay", "report", "cleanup"}
Locking == {"capture", "case"}     \* commands that do all their work under the lock

ASSUME ConstantsAssumption ==
  /\ NoProcess \notin Process
  /\ Deployments \subseteq [Process -> SUBSET Command]
  /\ {MaxEvidence, MaxFaults, MaxKills} \subseteq Nat

\* The order in which create makes the children and cleanup removes them.
EXPECTED_CHILDREN == <<"fixture", "worktree-a", "worktree-b", "remote.git", "results">>
\* (mutant) cleanup removes every child that the marker expects
AllMutable == EXPECTED_CHILDREN
MUTABLE_CHILDREN == <<"fixture", "worktree-a", "worktree-b", "remote.git">>
Child == {EXPECTED_CHILDREN[i] : i \in 1 .. 5}
Made(n) == {EXPECTED_CHILDREN[i] : i \in 1 .. n}

Life == {"none", "running", "ready", "interrupted", "cleaning", "cleaned"}
Unpublished == 0                   \* evidenceManifest: null
Marker == [life : Life, workers : SUBSET Process, manifest : Nat]
NoMarker == [life |-> "none", workers |-> {}, manifest |-> Unpublished]
Step == {"idle", "lock", "mark", "work", "abort", "hash", "publish", "confirm",
         "fallback", "verdict", "check", "sweep"}
Job == [cmd : Command \cup {"none"}, pc : Step, mark : Marker, hash : Nat, next : 1 .. 5]
Cause == {"kill", "finalize", "unready"}

VARIABLES
  marker,       \* ownership.json, NoMarker until create has written it
  kids,         \* the top-level children of the root
  evidence,     \* the version of the results
  torn,         \* a kill left a temporary file of the marker in the root
  summary,      \* the results hold a summary, which report needs
  lock,         \* the holder of the run lock
  job,          \* what each process is doing
  allowed,      \* the deployment
  faults, kills,
  causes        \* history: what may make a root unacceptable for good

vars == <<marker, kids, evidence, torn, summary, lock, job, allowed, faults, kills, causes>>
root == <<marker, kids, evidence, torn, summary>>
world == <<allowed, kills>>

Resting == [cmd |-> "none", pc |-> "idle", mark |-> NoMarker, hash |-> 0, next |-> 1]

Init ==
  /\ marker = NoMarker
  /\ kids = {}
  /\ evidence = 0
  /\ torn = FALSE
  /\ summary = FALSE
  /\ lock = NoProcess
  /\ job = [p \in Process |-> Resting]
  /\ allowed \in Deployments
  /\ faults = 0
  /\ kills = 0
  /\ causes = {}

-----------------------------------------------------------------------------
(* validate_marker.                                                        *)

\* (mutant) a root that is cleaning must still be whole
LayoutWhole ==
  ~torn /\ kids = CASE marker.life = "cleaned" -> {"results"}
                    [] marker.life = "interrupted" -> kids
                    [] OTHER -> Child
LayoutValid ==
  /\ ~torn
  /\ CASE marker.life = "cleaned" -> kids = {"results"}
       [] marker.life \in {"interrupted", "cleaning"} -> "results" \in kids
       [] OTHER -> kids = Child

Owned == marker.life # "none" /\ marker.workers = {} /\ LayoutValid
Finalized == marker.manifest # Unpublished /\ marker.manifest = evidence
Accepted == Owned /\ Finalized
Ready == Accepted /\ marker.life = "ready"

-----------------------------------------------------------------------------
(* Control: the next step of a process, its end, and its errors.           *)

Goto(p, pc) == job' = [job EXCEPT ![p].pc = pc]
GotoWith(p, pc, m) == job' = [job EXCEPT ![p].pc = pc, ![p].mark = m]
Release(p) == lock' = IF lock = p THEN NoProcess ELSE lock
Done(p) == job' = [job EXCEPT ![p] = Resting] /\ Release(p)
At(p, pc) == job[p].pc = pc
Runs(p, cmds) == job[p].cmd \in cmds

Smooth == UNCHANGED faults
Fault == faults < MaxFaults /\ faults' = faults + 1
Blame(c) == causes' = causes \cup {c}
BlameNone == UNCHANGED causes

\* Marking commands have a handler that retires the root: interrupted, with
\* its evidence finalized, or at least published as interrupted.
Marking == {"create", "run", "capture"}
\* (mutant) a lifecycle that LIFECYCLES does not have
RetiredAsFailed(m) == [m EXCEPT !.life = "failed", !.workers = {}]
Retired(m) == [m EXCEPT !.life = "interrupted", !.workers = {}]

\* An error while p finalizes: a handler of p takes over, or p ends.
Raise(p) ==
  IF Runs(p, Marking)
    THEN /\ IF job[p].mark.life = "interrupted"
              THEN Goto(p, "fallback")
              ELSE GotoWith(p, "abort", Retired(job[p].mark))
         /\ BlameNone
         /\ UNCHANGED lock
    ELSE /\ Done(p)
         /\ IF Runs(p, {"cleanup"}) THEN BlameNone ELSE Blame("finalize")

-----------------------------------------------------------------------------
(* The start of a command: its own validation of the root.  A refused      *)
(* command changes nothing and is not a step.  The root's name is known    *)
(* when create has ended.                                                  *)

MayBegin(cmd) ==
  CASE cmd = "create"  -> marker.life = "none" /\ ~torn
    [] cmd \in {"run", "capture", "case"} -> Ready
    [] cmd = "replay"  -> Accepted
    [] cmd = "report"  -> Accepted /\ summary
    [] cmd = "cleanup" -> Accepted /\ marker.life # "cleaned"

\* MaxEvidence: every active command but cleanup can raise it twice.
Active == {p \in Process : ~At(p, "idle")}
Room == evidence + 2 * (Cardinality(Active) + 1) <= MaxEvidence

FirstStep(cmd) ==
  CASE cmd \in {"create", "run", "cleanup"} -> "mark"
    [] cmd \in {"capture", "case", "replay"} -> "lock"
    [] cmd = "report" -> "work"

Begin(p, cmd) ==
  /\ At(p, "idle")
  /\ cmd \in allowed[p]
  /\ \A q \in Process : ~Runs(q, {"create"})
  /\ MayBegin(cmd)
  /\ cmd = "cleanup" \/ Room
  /\ job' = [job EXCEPT ![p] = [Resting EXCEPT !.cmd = cmd, !.pc = FirstStep(cmd),
                                               !.mark = marker]]
  /\ UNCHANGED <<root, lock, faults, causes, world>>

-----------------------------------------------------------------------------
(* The run lock, which nobody waits for.  capture compares and validates   *)
(* the marker again, replay validates it again, case does not.             *)

\* (mutant) the lock is not tried
CaptureUnlocked(p) ==
  /\ Runs(p, {"capture"})
  /\ IF marker = job[p].mark /\ Ready
       THEN Goto(p, "mark") /\ lock' = p
       ELSE Done(p)

LockCapture(p) ==
  /\ Runs(p, {"capture"})
  /\ IF lock = NoProcess /\ marker = job[p].mark /\ Ready
       THEN Goto(p, "mark") /\ lock' = p
       ELSE Done(p)

LockCase(p) ==
  /\ Runs(p, {"case"})
  /\ IF lock = NoProcess
       THEN Goto(p, "work") /\ lock' = p
       ELSE Done(p)

\* A replay that is refused here still has its verdict to write.
LockReplay(p) ==
  /\ Runs(p, {"replay"})
  /\ IF lock = NoProcess /\ Ready
       THEN Goto(p, "work") /\ lock' = p
       ELSE Goto(p, "verdict") /\ UNCHANGED lock

Lock(p) ==
  /\ At(p, "lock")
  /\ LockCapture(p) \/ LockCase(p) \/ LockReplay(p)
  /\ UNCHANGED <<root, faults, causes, world>>

-----------------------------------------------------------------------------
(* The marker that announces the work.                                     *)

Announced(p) ==
  IF Runs(p, {"cleanup"})
    THEN [job[p].mark EXCEPT !.life = "cleaning", !.workers = {}]
    ELSE [job[p].mark EXCEPT !.life = "running", !.workers = {p}]

Mark(p) ==
  /\ At(p, "mark")
  /\ \/ /\ Smooth
        /\ marker' = Announced(p)
        /\ GotoWith(p, IF Runs(p, {"cleanup"}) THEN "sweep" ELSE "work", Announced(p))
        /\ UNCHANGED lock
     \/ /\ Fault
        /\ Done(p)
        /\ UNCHANGED marker
  /\ UNCHANGED <<kids, evidence, torn, summary, causes, world>>

-----------------------------------------------------------------------------
(* The work of a command.  It may fail halfway: create then has made some  *)
(* of the children, and any command may have changed the results.          *)

\* The marker to publish: report publishes the one it read when it began.
\* (mutant) report, too, publishes a ready root
SettledReady(p) == [job[p].mark EXCEPT !.life = "ready", !.workers = {}]
Settled(p) ==
  IF Runs(p, Marking) THEN [job[p].mark EXCEPT !.life = "ready", !.workers = {}]
                      ELSE job[p].mark

WorkDone(p) ==
  /\ Smooth
  /\ Runs(p, {"create", "report"}) \/ kids = Child
  /\ evidence' = evidence + 1
  /\ kids' = IF Runs(p, {"create"}) THEN Child ELSE kids
  /\ summary' = (summary \/ Runs(p, {"run"}))
  /\ GotoWith(p, IF Runs(p, {"case", "replay"}) THEN "check" ELSE "hash", Settled(p))
  /\ IF Runs(p, {"replay"}) THEN Release(p) ELSE UNCHANGED lock
  /\ BlameNone

WorkFailed(p) ==
  /\ IF Runs(p, {"run", "capture", "case", "replay"}) /\ kids # Child THEN Smooth ELSE Fault
  /\ \E changed \in BOOLEAN :
       /\ changed => ~Runs(p, {"replay", "report"})
       /\ evidence' = IF changed THEN evidence + 1 ELSE evidence
       /\ IF Runs(p, {"create"})
            THEN \E n \in 0 .. 5 : kids' = Made(n) /\ (changed => n = 5)
            ELSE UNCHANGED kids
  /\ \/ Runs(p, Marking) /\ GotoWith(p, "abort", Retired(job[p].mark)) /\ UNCHANGED lock
     \/ Runs(p, {"case"}) /\ Goto(p, "check") /\ UNCHANGED lock
     \/ Runs(p, {"replay"}) /\ Goto(p, "verdict") /\ Release(p)
     \/ Runs(p, {"report"}) /\ Done(p)
  /\ BlameNone
  /\ UNCHANGED summary

Work(p) ==
  /\ At(p, "work")
  /\ WorkDone(p) \/ WorkFailed(p)
  /\ UNCHANGED <<marker, torn, world>>

\* The handler of create, run and capture; the first two write an
\* interruption record into the results.
Abort(p) ==
  /\ At(p, "abort")
  /\ \/ /\ Smooth
        /\ kids' = kids \cup {"results"}
        /\ evidence' = IF Runs(p, {"capture"}) THEN evidence ELSE evidence + 1
        /\ Goto(p, "hash")
     \/ /\ Fault
        /\ \E made \in BOOLEAN : kids' = IF made THEN kids \cup {"results"} ELSE kids
        /\ Goto(p, "fallback")
        /\ UNCHANGED evidence
  /\ BlameNone
  /\ UNCHANGED <<marker, torn, summary, lock, world>>

\* replay_attempt's except clause: the blocked verdict, outside the lock.
\* The same verdict of the same attempt rewrites the same bytes.
Verdict(p) ==
  /\ At(p, "verdict")
  /\ \/ Smooth /\ evidence' \in {evidence, evidence + 1}
     \/ Fault /\ UNCHANGED evidence
  /\ Goto(p, "check")
  /\ BlameNone
  /\ UNCHANGED <<marker, kids, torn, summary, lock, world>>

-----------------------------------------------------------------------------
(* Finalization.                                                           *)

\* _finalize_after_case: the root must still be the ready one.
Check(p) ==
  /\ At(p, "check")
  /\ \/ /\ Smooth
        /\ IF Owned /\ marker.life = "ready" /\ job[p].mark.life = "ready"
             THEN GotoWith(p, "hash", marker) /\ UNCHANGED <<lock, causes>>
             ELSE Done(p) /\ Blame("unready")
     \/ Fault /\ Raise(p)
  /\ UNCHANGED <<root, world>>

\* finalize_evidence: hash the results, replace the marker, validate it.
Hash(p) ==
  /\ At(p, "hash")
  /\ \/ /\ Smooth
        /\ job' = [job EXCEPT ![p].hash = evidence, ![p].pc = "publish"]
        /\ UNCHANGED <<lock, causes>>
     \/ Fault /\ Raise(p)
  /\ UNCHANGED <<root, world>>

Publish(p) ==
  /\ At(p, "publish")
  /\ \/ /\ Smooth
        /\ marker' = [job[p].mark EXCEPT !.manifest = job[p].hash]
        /\ Goto(p, "confirm")
        /\ UNCHANGED <<lock, causes>>
     \/ Fault /\ Raise(p) /\ UNCHANGED marker
  /\ UNCHANGED <<kids, evidence, torn, summary, world>>

Confirm(p) ==
  /\ At(p, "confirm")
  /\ \/ Smooth /\ IF Accepted THEN Done(p) /\ BlameNone ELSE Raise(p)
     \/ Fault /\ Raise(p)
  /\ UNCHANGED <<root, world>>

\* Finalizing failed in the handler: the marker is published with the
\* manifest it had before the command.
Fallback(p) ==
  /\ At(p, "fallback")
  /\ \/ Smooth /\ marker' = job[p].mark
     \/ Fault /\ UNCHANGED marker
  /\ Done(p)
  /\ Blame("finalize")
  /\ UNCHANGED <<kids, evidence, torn, summary, world>>

-----------------------------------------------------------------------------
(* cleanup_fixture, after its marker is written: before each child and     *)
(* before the end it validates the root again.                             *)

SweepValid(p) ==
  Accepted /\ marker.life = "cleaning" /\ marker.manifest = job[p].mark.manifest

Sweep(p) ==
  /\ At(p, "sweep")
  /\ \/ /\ Smooth
        /\ SweepValid(p)
        /\ IF job[p].next <= Len(MUTABLE_CHILDREN)
             THEN /\ kids' = kids \ {MUTABLE_CHILDREN[job[p].next]}
                  /\ job' = [job EXCEPT ![p].next = @ + 1]
                  /\ UNCHANGED marker
             ELSE /\ marker' = [marker EXCEPT !.life = "cleaned"]
                  /\ Goto(p, "confirm")
                  /\ UNCHANGED kids
        /\ UNCHANGED lock
     \/ /\ IF SweepValid(p) THEN Fault ELSE Smooth
        /\ Done(p)
        /\ UNCHANGED <<marker, kids>>
  /\ UNCHANGED <<evidence, torn, summary, causes, world>>

-----------------------------------------------------------------------------
(* A process dies.  The lock goes with it.  A kill inside the atomic       *)
(* replacement of the marker leaves its temporary file in the root.        *)

WritesMarker(p) ==
  \/ job[p].pc \in {"mark", "publish", "fallback"}
  \/ At(p, "sweep") /\ job[p].next > Len(MUTABLE_CHILDREN)

Kill(p) ==
  /\ ~At(p, "idle")
  /\ kills < MaxKills
  /\ kills' = kills + 1
  /\ \E tears \in BOOLEAN :
       /\ tears => WritesMarker(p)
       /\ torn' = (torn \/ tears)
       /\ causes' = IF tears \/ (job[p].pc \notin {"lock", "mark"} /\ ~Runs(p, {"cleanup"}))
                      THEN causes \cup {"kill"} ELSE causes
  /\ Done(p)
  /\ UNCHANGED <<marker, kids, evidence, summary, allowed, faults>>

Continue(p) ==
  \/ Lock(p) \/ Mark(p) \/ Work(p) \/ Abort(p) \/ Verdict(p) \/ Check(p)
  \/ Hash(p) \/ Publish(p) \/ Confirm(p) \/ Fallback(p) \/ Sweep(p)

Next ==
  \E p \in Process :
    \/ \E cmd \in Command : Begin(p, cmd)
    \/ Continue(p)
    \/ Kill(p)

Spec == Init /\ [][Next]_vars

\* A command that was not killed runs to its end, and the owner who started
\* a cleanup starts it again while it is unfinished.
Fairness ==
  \A p \in Process : WF_vars(Continue(p)) /\ WF_vars(Begin(p, "cleanup"))
FairSpec == Spec /\ Fairness

-----------------------------------------------------------------------------
(* Properties.  They are about disciplined deployments: besides a process  *)
(* that runs anything while nobody else does, only commands that take the  *)
(* lock for all of their work may run at the same time.                    *)

Disciplined(d) ==
  \A p, q \in Process : p # q =>
    d[p] = {} \/ d[q] = {} \/ d[p] \cup d[q] \subseteq Locking \cup {"create"}

\* Every variable has its type.
TypeOK ==
  /\ marker \in Marker
  /\ kids \subseteq Child
  /\ evidence \in Nat
  /\ torn \in BOOLEAN /\ summary \in BOOLEAN
  /\ lock \in Process \cup {NoProcess}
  /\ job \in [Process -> Job]
  /\ allowed \in Deployments
  /\ faults \in Nat /\ kills \in Nat
  /\ causes \subseteq Cause

\* A command that announces its work works only while the marker says so, as
\* its only worker, and on a whole root: nobody else validates the root, and
\* nobody takes it apart, under a working create, run or capture.
WorkerMarked ==
  \A p \in Process : Runs(p, Marking) /\ At(p, "work") =>
    /\ marker.life = "running" /\ marker.workers = {p}
    /\ Runs(p, {"create"}) \/ kids = Child

\* When no command runs, a root that its own validation refuses, and that no
\* command can use or clean up any more, had a process killed, an error
\* while its evidence was being finalized, or results written into it after
\* it was no longer ready.  Every other failure leaves it usable.
StrandedOnlyBy ==
  Active = {} /\ marker.life # "none" /\ ~Accepted => causes # {}

\* The marker and the children go through the life of a root.
FixtureLives == INSTANCE FixtureLife WITH Results <- "results", life <- marker.life
LifeSpec == FixtureLives!Spec

\* A cleanup that was begun, failed halfway and was started again comes to
\* its end, unless something made the root unacceptable.
CleanupFinishes ==
  marker.life = "cleaning" ~> (marker.life = "cleaned" \/ causes # {})
=============================================================================
