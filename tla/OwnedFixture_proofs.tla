------------------------ MODULE OwnedFixture_proofs ------------------------
(***************************************************************************)
(* Proofs about OwnedFixture for any number of processes and any bounds:   *)
(* under a disciplined deployment, workers are marked, the root goes       *)
(* through the life that FixtureLife allows, and what strands it is known. *)
(***************************************************************************)
EXTENDS OwnedFixture, TLAPS

LEMMA Children ==
  /\ Child = {"fixture", "worktree-a", "worktree-b", "remote.git", "results"}
  /\ Len(MUTABLE_CHILDREN) = 4
  /\ \A i \in 1 .. 4 : MUTABLE_CHILDREN[i] \in Child \ {"results"}
  /\ \A n \in 0 .. 5 : Made(n) \subseteq Child
BY DEF Child, EXPECTED_CHILDREN, MUTABLE_CHILDREN, Made

LEMMA RestingTyped == NoMarker \in Marker /\ Resting \in Job
<1>1. NoMarker \in Marker
  BY DEF NoMarker, Marker, Life, Unpublished
<1> QED
  BY <1>1 DEF Resting, Job, Step

\* What the control operators do to the types.
LEMMA Control ==
  ASSUME TypeOK, NEW p \in Process
  PROVE  /\ \A pc \in Step : Goto(p, pc) => job' \in [Process -> Job]
         /\ \A pc \in Step, m \in Marker : GotoWith(p, pc, m) => job' \in [Process -> Job]
         /\ Done(p) => job' \in [Process -> Job] /\ lock' \in Process \cup {NoProcess}
         /\ \A c \in Cause : Blame(c) => causes' \subseteq Cause
         /\ Smooth \/ Fault => faults' \in Nat
<1> USE DEF TypeOK
<1>1. ASSUME NEW pc \in Step, Goto(p, pc) PROVE job' \in [Process -> Job]
  BY <1>1 DEF Goto, Job
<1>2. ASSUME NEW pc \in Step, NEW m \in Marker, GotoWith(p, pc, m)
      PROVE  job' \in [Process -> Job]
  BY <1>2 DEF GotoWith, Job
<1>3. Done(p) => job' \in [Process -> Job] /\ lock' \in Process \cup {NoProcess}
  BY RestingTyped DEF Done, Release
<1> QED
  BY <1>1, <1>2, <1>3 DEF Blame, Smooth, Fault

LEMMA RaiseTyped ==
  ASSUME TypeOK, NEW p \in Process, Raise(p)
  PROVE  /\ job' \in [Process -> Job]
         /\ causes' \subseteq Cause
         /\ lock' \in Process \cup {NoProcess}
<1>1. Retired(job[p].mark) \in Marker
  BY DEF TypeOK, Retired, Marker, Life, Job
<1>2. "fallback" \in Step /\ "abort" \in Step /\ "finalize" \in Cause
  BY DEF Step, Cause
<1> QED
  BY <1>1, <1>2, Control DEF Raise, BlameNone, TypeOK

LEMMA TypeInit == Init => TypeOK
<1> SUFFICES ASSUME Init PROVE TypeOK
  OBVIOUS
<1>1. job \in [Process -> Job]
  BY RestingTyped DEF Init
<1> QED
  BY <1>1, RestingTyped DEF Init, TypeOK

LEMMA TypeStep == TypeOK /\ [Next]_vars => TypeOK'
<1> SUFFICES ASSUME TypeOK, [Next]_vars PROVE TypeOK'
  OBVIOUS
<1> USE DEF TypeOK, root, world
<1>1. CASE UNCHANGED vars
  BY <1>1 DEF vars
<1>2. ASSUME NEW p \in Process, NEW cmd \in Command, Begin(p, cmd) PROVE TypeOK'
  <2>1. FirstStep(cmd) \in Step
    BY DEF FirstStep, Step, Command
  <2>2. [Resting EXCEPT !.cmd = cmd, !.pc = FirstStep(cmd), !.mark = marker] \in Job
    BY <2>1, RestingTyped DEF Job
  <2>3. job' \in [Process -> Job]
    BY <1>2, <2>2 DEF Begin
  <2> QED
    BY <1>2, <2>3 DEF Begin
<1>3. ASSUME NEW p \in Process, Lock(p) PROVE TypeOK'
  <2>1. {"mark", "work", "verdict"} \subseteq Step
    BY DEF Step
  <2> QED
    BY <1>3, <2>1, Control DEF Lock, LockCapture, LockCase, LockReplay
<1>4. ASSUME NEW p \in Process, Mark(p) PROVE TypeOK'
  <2>1. Announced(p) \in Marker
    BY DEF Announced, Marker, Life, Job
  <2>2. {"sweep", "work"} \subseteq Step
    BY DEF Step
  <2>3. /\ job' \in [Process -> Job] /\ marker' \in Marker
        /\ lock' \in Process \cup {NoProcess} /\ faults' \in Nat
    BY <1>4, <2>1, <2>2, Control DEF Mark
  <2> QED
    BY <1>4, <2>3 DEF Mark
<1>5. ASSUME NEW p \in Process, Work(p) PROVE TypeOK'
  <2>1. Settled(p) \in Marker /\ Retired(job[p].mark) \in Marker
    BY DEF Settled, Retired, Marker, Life, Job
  <2>2. {"check", "hash", "abort", "verdict"} \subseteq Step
    BY DEF Step
  <2>3. CASE WorkDone(p)
    <3>1. job' \in [Process -> Job] /\ faults' \in Nat
      BY <2>1, <2>2, <2>3, Control DEF WorkDone
    <3> QED
      BY <1>5, <2>3, <3>1 DEF Work, WorkDone, Release, BlameNone
  <2>4. CASE WorkFailed(p)
    <3>1. kids' \subseteq Child /\ evidence' \in Nat /\ faults' \in Nat
      <4>1. faults' \in Nat
        BY <2>4, Control DEF WorkFailed
      <4>2. PICK changed \in BOOLEAN :
              /\ evidence' = IF changed THEN evidence + 1 ELSE evidence
              /\ IF Runs(p, {"create"}) THEN \E n \in 0 .. 5 : kids' = Made(n)
                                       ELSE UNCHANGED kids
        BY <2>4 DEF WorkFailed
      <4>3. evidence' \in Nat
        BY <4>2
      <4>4. kids' \subseteq Child
        BY <4>2, Children
      <4> QED
        BY <4>1, <4>3, <4>4
    <3>2. job' \in [Process -> Job] /\ lock' \in Process \cup {NoProcess}
      BY <2>1, <2>2, <2>4, Control DEF WorkFailed, Release
    <3> QED
      BY <1>5, <2>4, <3>1, <3>2 DEF Work, WorkFailed, BlameNone
  <2> QED
    BY <1>5, <2>3, <2>4 DEF Work
<1>6. ASSUME NEW p \in Process, Abort(p) PROVE TypeOK'
  BY <1>6, Children DEF Abort, Smooth, Fault, Goto, BlameNone, Job, Step
<1>7. ASSUME NEW p \in Process, Verdict(p) PROVE TypeOK'
  BY <1>7 DEF Verdict, Smooth, Fault, Goto, BlameNone, Job, Step
<1>8. ASSUME NEW p \in Process, Check(p) PROVE TypeOK'
  BY <1>8, RaiseTyped, Control DEF Check, Cause, Step
<1>9. ASSUME NEW p \in Process, Hash(p) PROVE TypeOK'
  BY <1>9, RaiseTyped DEF Hash, Smooth, Fault, Job, Step
<1>10. ASSUME NEW p \in Process, Publish(p) PROVE TypeOK'
  <2>1. [job[p].mark EXCEPT !.manifest = job[p].hash] \in Marker
    BY DEF Marker, Job
  <2>2. "confirm" \in Step
    BY DEF Step
  <2> QED
    BY <1>10, <2>1, <2>2, RaiseTyped, Control DEF Publish
<1>11. ASSUME NEW p \in Process, Confirm(p) PROVE TypeOK'
  BY <1>11, RaiseTyped, Control DEF Confirm, BlameNone
<1>12. ASSUME NEW p \in Process, Fallback(p) PROVE TypeOK'
  BY <1>12, Control DEF Fallback, Cause, Job
<1>13. ASSUME NEW p \in Process, Sweep(p) PROVE TypeOK'
  BY <1>13, Children, RestingTyped DEF Sweep, Smooth, Fault, Goto, Done, Release,
      Marker, Life, Job, Step
<1>14. ASSUME NEW p \in Process, Kill(p) PROVE TypeOK'
  BY <1>14, RestingTyped DEF Kill, Done, Release, Cause
<1> QED
  BY <1>1, <1>2, <1>3, <1>4, <1>5, <1>6, <1>7, <1>8, <1>9, <1>10, <1>11, <1>12, <1>13, <1>14
    DEF Next, Continue

\* Every variable keeps its type, whatever the deployment.
THEOREM TypeCorrect == Spec => []TypeOK
BY TypeInit, TypeStep, PTL DEF Spec

-----------------------------------------------------------------------------
(* The inductive invariant.  A busy process is one past the point where    *)
(* the lock can refuse it.  At most one is, so what a busy process knows   *)
(* of the marker and the children (Stage) is changed by itself only.       *)

Busy(p) == job[p].pc \notin {"idle", "lock"}

Jobs ==
  \A p \in Process :
    /\ Runs(p, {"none"}) <=> At(p, "idle")
    /\ job[p].cmd \in allowed[p] \cup {"none"}
    /\ At(p, "lock") => Runs(p, {"capture", "case", "replay"}) /\ job[p].next = 1

\* The root's name is known when create has ended.
Creating ==
  \A p, q \in Process : p # q /\ Runs(p, {"create"}) => At(q, "idle")

Unmarked ==
  marker.life = "none" => kids = {} /\ \A p \in Process : Runs(p, {"none", "create"})

Locked == \A p \in Process : Busy(p) /\ Runs(p, Locking) => lock = p

Whole == marker.life = "ready" => kids = Child
Worked == marker.life = "running" => marker.workers # {}

Retiring(p) == job[p].mark.life = "interrupted" /\ marker.life \in {"running", "ready"}

AtMark(p) ==
  /\ job[p].next = 1
  /\ \/ Runs(p, {"create"}) /\ marker.life = "none"
     \/ Runs(p, {"run", "capture"}) /\ marker.life = "ready"
     \/ Runs(p, {"cleanup"}) /\ marker.life \in {"ready", "interrupted", "cleaning"}

AtWork(p) ==
  \/ /\ Runs(p, Marking)
     /\ marker.life = "running" /\ marker.workers = {p}
     /\ IF Runs(p, {"create"}) THEN kids = {} ELSE kids = Child
  \/ Runs(p, {"case", "replay"})
  \/ /\ Runs(p, {"report"})
     /\ job[p].mark.life = marker.life /\ job[p].mark.workers = marker.workers

BeforePublish(p) ==
  \/ /\ Runs(p, Marking)
     /\ \/ job[p].mark.life = "ready" /\ marker.life = "running" /\ kids = Child
        \/ Retiring(p)
  \/ Runs(p, {"case", "replay"}) /\ job[p].mark.life = "ready" /\ marker.life = "ready"
  \/ /\ Runs(p, {"report"})
     /\ job[p].mark.life = marker.life /\ job[p].mark.workers = marker.workers

Stage(p) ==
  /\ At(p, "mark") => AtMark(p)
  /\ At(p, "work") => AtWork(p)
  /\ At(p, "abort") => Runs(p, Marking) /\ Retiring(p)
  /\ job[p].pc \in {"hash", "publish"} => BeforePublish(p)
  /\ At(p, "confirm") /\ Runs(p, Marking) =>
       marker.life = job[p].mark.life /\ marker.life \in {"ready", "interrupted"}
  /\ At(p, "fallback") =>
       /\ Runs(p, Marking) /\ job[p].mark.life = "interrupted"
       /\ marker.life \in {"running", "ready", "interrupted"}
  /\ job[p].pc \in {"verdict", "check"} => Runs(p, {"case", "replay"})
  /\ At(p, "sweep") =>
       /\ Runs(p, {"cleanup"})
       /\ \A i \in 1 .. 4 : i < job[p].next => MUTABLE_CHILDREN[i] \notin kids

IInv ==
  /\ TypeOK /\ Jobs /\ Creating /\ Unmarked /\ Locked /\ Whole /\ Worked
  /\ \A p \in Process : Stage(p)

\* The deployments that the invariant is about.
AllDisciplined == \A d \in Deployments : Disciplined(d)

LEMMA OneBusy ==
  ASSUME IInv, AllDisciplined, NEW p \in Process, NEW q \in Process, p # q, Busy(p)
  PROVE  ~Busy(q)
<1> SUFFICES ASSUME Busy(q) PROVE FALSE
  OBVIOUS
<1> USE DEF IInv
<1>1. job[p].cmd \in allowed[p] /\ job[q].cmd \in allowed[q]
  BY DEF Jobs, Busy, Runs, At
<1>2. allowed[p] \cup allowed[q] \subseteq Locking \cup {"create"}
  BY <1>1 DEF TypeOK, AllDisciplined, Disciplined
<1>3. ~Runs(p, {"create"}) /\ ~Runs(q, {"create"})
  BY DEF Creating, Busy, At
<1>4. Runs(p, Locking) /\ Runs(q, Locking)
  BY <1>1, <1>2, <1>3 DEF Runs
<1> QED
  BY <1>4 DEF Locked

\* What a step of p leaves of the invariant to the other processes.
LEMMA Frame ==
  ASSUME IInv, AllDisciplined, NEW p \in Process, ~At(p, "idle"),
         allowed' = allowed,
         NEW new \in Job, job' = [job EXCEPT ![p] = new],
         \/ new = Resting
         \/ new.cmd = job[p].cmd /\ new.pc \notin {"idle", "lock"},
         \/ lock' = lock
         \/ lock = p /\ lock' = NoProcess
         \/ lock = NoProcess /\ lock' = p,
         Busy(p) \/ UNCHANGED <<marker, kids>>
  PROVE  /\ Jobs' /\ Creating'
         /\ \A q \in Process \ {p} :
              Stage(q)' /\ (Busy(q) /\ Runs(q, Locking) => lock = q)'
<1> USE DEF IInv
<1>1. job \in [Process -> Job]
  BY DEF TypeOK
<1>2. job'[p] = new /\ \A q \in Process \ {p} : job'[q] = job[q]
  BY <1>1
<1>3. Jobs'
  BY <1>2 DEF Jobs, Runs, At, Resting
<1>4. Creating'
  BY <1>2 DEF Creating, Runs, At, Resting
<1>5. ASSUME NEW q \in Process \ {p} PROVE Stage(q)'
  <2>1. CASE Busy(p)
    <3>1. ~Busy(q)
      BY <2>1, <1>5, OneBusy
    <3> QED
      BY <3>1, <1>2 DEF Busy, Stage, At
  <2>2. CASE UNCHANGED <<marker, kids>>
    <3>1. Stage(q)
      OBVIOUS
    <3> QED
      BY <2>2, <3>1, <1>2 DEF Stage, AtMark, AtWork, BeforePublish, Retiring, At, Runs
  <2> QED
    BY <2>1, <2>2
<1>6. ASSUME NEW q \in Process \ {p} PROVE (Busy(q) /\ Runs(q, Locking) => lock = q)'
  <2>1. lock = q => lock' = q
    BY <1>6, ConstantsAssumption
  <2>2. Busy(q) /\ Runs(q, Locking) => lock = q
    BY DEF Locked
  <2> QED
    BY <2>1, <2>2, <1>2 DEF Busy, Runs
<1> QED
  BY <1>3, <1>4, <1>5, <1>6

\* What a step of p must establish besides what Frame gives.
Own(p) ==
  /\ Unmarked /\ Whole /\ Worked /\ Stage(p)
  /\ Busy(p) /\ Runs(p, Locking) => lock = p

LEMMA Combine ==
  ASSUME TypeOK', Jobs', Creating', NEW p \in Process, Own(p)',
         \A q \in Process \ {p} : Stage(q)' /\ (Busy(q) /\ Runs(q, Locking) => lock = q)'
  PROVE  IInv'
BY DEF IInv, Own, Locked

LEMMA RestingStage ==
  ASSUME NEW p \in Process, job'[p] = Resting
  PROVE  Stage(p)' /\ (Busy(p) /\ Runs(p, Locking) => lock = p)'
BY DEF Resting, Stage, At, Busy

LEMMA InvBegin ==
  ASSUME IInv, TypeOK', AllDisciplined, NEW p \in Process, NEW cmd \in Command, Begin(p, cmd)
  PROVE  IInv'
<1> USE DEF IInv, Begin, root, world
<1>1. job \in [Process -> Job]
  BY DEF TypeOK
<1> DEFINE new == [Resting EXCEPT !.cmd = cmd, !.pc = FirstStep(cmd), !.mark = marker]
<1>2. /\ new.cmd = cmd /\ new.pc = FirstStep(cmd) /\ new.mark = marker /\ new.next = 1
      /\ job'[p] = new /\ \A q \in Process \ {p} : job'[q] = job[q]
  BY <1>1 DEF Resting
<1> HIDE DEF new
<1>3. Jobs'
  BY <1>2 DEF Jobs, Runs, At, FirstStep, Command
<1>4. Creating'
  <2>1. cmd = "create" => \A q \in Process : At(q, "idle")
    BY DEF Unmarked, Jobs, MayBegin, Runs
  <2> QED
    BY <2>1, <1>2 DEF Creating, Runs, At
<1>5. marker.life = "none" => cmd = "create"
  BY DEF MayBegin, Ready, Accepted, Owned, Command
<1>6. Unmarked' /\ Whole' /\ Worked'
  BY <1>2, <1>5 DEF Unmarked, Whole, Worked, Runs
<1>7. Stage(p)'
  <2>1. CASE cmd = "create"
    BY <2>1, <1>2 DEF Stage, At, AtMark, FirstStep, Runs, MayBegin
  <2>2. CASE cmd = "run"
    BY <2>2, <1>2 DEF Stage, At, AtMark, FirstStep, Runs, MayBegin, Ready
  <2>3. CASE cmd = "cleanup"
    <3>1. marker.life \in {"ready", "interrupted", "cleaning"}
      BY <2>3 DEF MayBegin, Accepted, Owned, Worked, TypeOK, Marker, Life
    <3> QED
      BY <2>3, <3>1, <1>2 DEF Stage, At, AtMark, FirstStep, Runs
  <2>4. CASE cmd = "report"
    BY <2>4, <1>2 DEF Stage, At, AtWork, FirstStep, Runs
  <2>5. CASE cmd \in {"capture", "case", "replay"}
    BY <2>5, <1>2 DEF Stage, At, FirstStep
  <2> QED
    BY <2>1, <2>2, <2>3, <2>4, <2>5 DEF Command
<1>8. \A q \in Process \ {p} : Stage(q)' /\ (Busy(q) /\ Runs(q, Locking) => lock = q)'
  BY <1>2 DEF Stage, AtMark, AtWork, BeforePublish, Retiring, At, Runs, Busy, Locked
<1>9. (Busy(p) /\ Runs(p, Locking) => lock = p)'
  BY <1>2 DEF Busy, Runs, Locking, FirstStep
<1> QED
  BY <1>3, <1>4, <1>6, <1>7, <1>8, <1>9, Combine DEF Own

\* A command ends and leaves the marker and the children as they are.
LEMMA InvDone ==
  ASSUME IInv, TypeOK', AllDisciplined, NEW p \in Process, ~At(p, "idle"), Done(p),
         UNCHANGED <<marker, kids, allowed>>
  PROVE  IInv'
<1> USE DEF IInv
<1>1. job' = [job EXCEPT ![p] = Resting] /\ (lock' = lock \/ (lock = p /\ lock' = NoProcess))
  BY DEF Done, Release
<1>2. /\ Jobs' /\ Creating'
      /\ \A q \in Process \ {p} : Stage(q)' /\ (Busy(q) /\ Runs(q, Locking) => lock = q)'
  BY <1>1, RestingTyped, Frame
<1>3. job'[p] = Resting /\ \A q \in Process \ {p} : job'[q] = job[q]
  BY <1>1 DEF TypeOK
<1>4. Unmarked' /\ Whole' /\ Worked'
  BY <1>3 DEF Unmarked, Whole, Worked, Runs, Resting
<1> QED
  BY <1>2, <1>3, <1>4, RestingStage, Combine DEF Own

\* A command goes on; the lock and the marker's being there stay.
LEMMA InvMoved ==
  ASSUME IInv, TypeOK', AllDisciplined, NEW p \in Process, ~At(p, "idle"),
         NEW new \in Job, job' = [job EXCEPT ![p] = new],
         new.cmd = job[p].cmd, new.pc \notin {"idle", "lock"},
         allowed' = allowed,
         \/ Busy(p) /\ lock' = lock
         \/ Runs(p, {"replay"}) /\ (lock' = lock \/ (lock = p /\ lock' = NoProcess))
         \/ lock = NoProcess /\ lock' = p,
         Busy(p) \/ UNCHANGED <<marker, kids>>,
         marker'.life = "none" => marker.life = "none" /\ UNCHANGED kids,
         Whole', Worked', Stage(p)'
  PROVE  IInv'
<1> USE DEF IInv
<1>1. /\ Jobs' /\ Creating'
      /\ \A q \in Process \ {p} : Stage(q)' /\ (Busy(q) /\ Runs(q, Locking) => lock = q)'
  BY Frame
<1>2. job'[p] = new /\ \A q \in Process \ {p} : job'[q] = job[q]
  BY DEF TypeOK
<1>3. Unmarked'
  BY <1>2 DEF Unmarked, Runs
<1>4. (Busy(p) /\ Runs(p, Locking) => lock = p)'
  BY <1>2 DEF Locked, Busy, Runs, Locking
<1> QED
  BY <1>1, <1>3, <1>4, Combine DEF Own

LEMMA InvLock ==
  ASSUME IInv, TypeOK', AllDisciplined, NEW p \in Process, Lock(p)
  PROVE  IInv'
<1> USE DEF IInv
<1>1. At(p, "lock") /\ ~At(p, "idle") /\ UNCHANGED <<marker, kids, allowed>> /\ job[p].next = 1
  BY DEF Lock, root, world, At, Jobs
<1>2. CASE Done(p)
  BY <1>1, <1>2, InvDone
<1>3. Whole' /\ Worked'
  BY <1>1 DEF Whole, Worked
<1>4. ASSUME NEW pc \in {"mark", "work", "verdict"}, Goto(p, pc),
             pc = "mark" => Runs(p, {"capture"}) /\ Ready,
             pc \in {"work", "verdict"} => Runs(p, {"case", "replay"}),
             \/ lock = NoProcess /\ lock' = p
             \/ Runs(p, {"replay"}) /\ lock' = lock
      PROVE  IInv'
  <2> DEFINE new == [job[p] EXCEPT !.pc = pc]
  <2>1. new \in Job /\ job' = [job EXCEPT ![p] = new]
    BY <1>4 DEF Goto, TypeOK, Job, Step
  <2>2. new.pc = pc /\ new.cmd = job[p].cmd /\ new.next = 1 /\ job'[p] = new
    BY <1>1, <2>1 DEF TypeOK, Job
  <2> HIDE DEF new
  <2>3. Stage(p)'
    BY <1>1, <1>4, <2>2 DEF Stage, At, AtMark, AtWork, Runs, Ready
  <2> QED
    BY <1>1, <1>3, <1>4, <2>1, <2>2, <2>3, InvMoved
<1> QED
  BY <1>2, <1>4 DEF Lock, LockCapture, LockCase, LockReplay, Runs

LEMMA InvMark ==
  ASSUME IInv, TypeOK', AllDisciplined, NEW p \in Process, Mark(p)
  PROVE  IInv'
<1> USE DEF IInv
<1>1. At(p, "mark") /\ ~At(p, "idle") /\ Busy(p) /\ AtMark(p) /\ UNCHANGED <<kids, allowed>>
  BY DEF Mark, world, At, Busy, Stage
<1>2. CASE Done(p) /\ UNCHANGED marker
  BY <1>1, <1>2, InvDone
<1>3. ASSUME marker' = Announced(p), UNCHANGED lock,
             GotoWith(p, IF Runs(p, {"cleanup"}) THEN "sweep" ELSE "work", Announced(p))
      PROVE  IInv'
  <2> DEFINE pc == IF Runs(p, {"cleanup"}) THEN "sweep" ELSE "work"
             new == [job[p] EXCEPT !.pc = pc, !.mark = Announced(p)]
  <2>1. Announced(p) \in Marker
    BY DEF Announced, TypeOK, Marker, Life, Job
  <2>2. new \in Job /\ job' = [job EXCEPT ![p] = new]
    BY <1>3, <2>1 DEF GotoWith, TypeOK, Job, Step
  <2>3. new.pc = pc /\ new.cmd = job[p].cmd /\ new.next = job[p].next /\ job'[p] = new
    BY <2>2 DEF TypeOK, Job
  <2> HIDE DEF new
  <2>4. IF Runs(p, {"cleanup"}) THEN marker'.life = "cleaning"
                                ELSE marker'.life = "running" /\ marker'.workers = {p}
    BY <1>3 DEF Announced, TypeOK, Job, Marker
  <2>5. Whole' /\ Worked'
    BY <2>4 DEF Whole, Worked
  <2>6. Stage(p)'
    <3>1. CASE Runs(p, {"cleanup"})
      BY <1>1, <2>3, <3>1 DEF Stage, At, Runs, AtMark
    <3>2. CASE ~Runs(p, {"cleanup"})
      <4>1. AtWork(p)'
        BY <1>1, <2>3, <2>4, <3>2 DEF AtMark, AtWork, Runs, Marking, Unmarked, Whole
      <4> QED
        BY <4>1, <2>3, <3>2 DEF Stage, At
    <3> QED
      BY <3>1, <3>2
  <2> QED
    BY <1>1, <1>3, <2>2, <2>3, <2>4, <2>5, <2>6, InvMoved
<1> QED
  BY <1>2, <1>3 DEF Mark

LEMMA InvWork ==
  ASSUME IInv, TypeOK', AllDisciplined, NEW p \in Process, Work(p)
  PROVE  IInv'
<1> USE DEF IInv
<1>1. At(p, "work") /\ ~At(p, "idle") /\ Busy(p) /\ AtWork(p) /\ UNCHANGED <<marker, allowed>>
  BY DEF Work, world, At, Busy, Stage
<1>2. Worked'
  BY <1>1 DEF Worked
<1>3. marker.life # "none"
  BY <1>1 DEF Unmarked, Jobs, AtWork, Runs, Marking
<1>4. CASE WorkDone(p)
  <2> DEFINE pc == IF Runs(p, {"case", "replay"}) THEN "check" ELSE "hash"
             new == [job[p] EXCEPT !.pc = pc, !.mark = Settled(p)]
  <2>1. Settled(p) \in Marker
    BY DEF Settled, TypeOK, Marker, Life, Job
  <2>2. new \in Job /\ job' = [job EXCEPT ![p] = new]
    BY <1>4, <2>1 DEF WorkDone, GotoWith, TypeOK, Job, Step
  <2>3. new.pc = pc /\ new.cmd = job[p].cmd /\ new.mark = Settled(p) /\ job'[p] = new
    BY <2>2 DEF TypeOK, Job
  <2> HIDE DEF new
  <2>4. Runs(p, Marking) => kids' = Child
    BY <1>4 DEF WorkDone, Runs, Marking
  <2>5. Whole'
    BY <1>1, <1>4, <2>4 DEF Whole, WorkDone, AtWork, Runs, Marking
  <2>6. Stage(p)'
    <3>1. CASE Runs(p, {"case", "replay"})
      BY <2>3, <3>1 DEF Stage, At, Runs
    <3>2. CASE Runs(p, Marking)
      <4>1. Settled(p).life = "ready" /\ marker'.life = "running"
        BY <1>1, <3>2 DEF Settled, TypeOK, Job, Marker, AtWork, Runs, Marking
      <4>2. BeforePublish(p)'
        BY <2>3, <2>4, <3>2, <4>1 DEF BeforePublish, Runs
      <4> QED
        BY <2>3, <3>2, <4>2 DEF Stage, At, Runs, Marking
    <3>3. CASE Runs(p, {"report"})
      <4>1. BeforePublish(p)'
        BY <1>1, <2>3, <3>3 DEF BeforePublish, AtWork, Settled, Runs, Marking
      <4> QED
        BY <2>3, <3>3, <4>1 DEF Stage, At, Runs
    <3> QED
      BY <1>1, <3>1, <3>2, <3>3 DEF AtWork
  <2>7. \/ lock' = lock
        \/ Runs(p, {"replay"}) /\ (lock' = lock \/ (lock = p /\ lock' = NoProcess))
    BY <1>4 DEF WorkDone, Release
  <2>8. new.pc \notin {"idle", "lock"}
    BY <2>3
  <2> QED
    BY <1>1, <1>2, <1>3, <2>2, <2>3, <2>5, <2>6, <2>7, <2>8, InvMoved
<1>5. CASE WorkFailed(p)
  <2>1. ~Runs(p, {"create"}) => UNCHANGED kids
    BY <1>5 DEF WorkFailed
  <2>2. Whole'
    BY <1>1, <2>1 DEF Whole, AtWork, Runs, Marking
  <2>3. CASE Runs(p, {"report"}) /\ Done(p)
    BY <1>1, <2>1, <2>3, InvDone DEF Runs
  <2>4. CASE /\ Runs(p, Marking) /\ UNCHANGED lock
             /\ GotoWith(p, "abort", Retired(job[p].mark))
    <3> DEFINE new == [job[p] EXCEPT !.pc = "abort", !.mark = Retired(job[p].mark)]
    <3>1. Retired(job[p].mark) \in Marker /\ Retired(job[p].mark).life = "interrupted"
      BY DEF Retired, TypeOK, Marker, Life, Job
    <3>2. new \in Job /\ job' = [job EXCEPT ![p] = new]
      BY <2>4, <3>1 DEF GotoWith, TypeOK, Job, Step
    <3>3. new.pc = "abort" /\ new.cmd = job[p].cmd /\ new.mark.life = "interrupted" /\ job'[p] = new
      BY <3>1, <3>2 DEF TypeOK, Job
    <3> HIDE DEF new
    <3>4. Stage(p)'
      BY <1>1, <2>4, <3>3 DEF Stage, At, Runs, Retiring, AtWork, Marking
    <3> QED
      BY <1>1, <1>2, <1>3, <2>2, <2>4, <3>2, <3>3, <3>4, InvMoved
  <2>5. ASSUME NEW pc \in {"check", "verdict"}, Goto(p, pc), Runs(p, {"case", "replay"}),
               \/ lock' = lock
               \/ Runs(p, {"replay"}) /\ (lock' = lock \/ (lock = p /\ lock' = NoProcess))
        PROVE  IInv'
    <3> DEFINE new == [job[p] EXCEPT !.pc = pc]
    <3>1. new \in Job /\ job' = [job EXCEPT ![p] = new]
      BY <2>5 DEF Goto, TypeOK, Job, Step
    <3>2. new.pc = pc /\ new.cmd = job[p].cmd /\ job'[p] = new
      BY <3>1 DEF TypeOK, Job
    <3> HIDE DEF new
    <3>3. Stage(p)'
      BY <2>5, <3>2 DEF Stage, At, Runs
    <3> QED
      BY <1>1, <1>2, <1>3, <2>2, <2>5, <3>1, <3>2, <3>3, InvMoved
  <2> QED
    BY <1>5, <2>3, <2>4, <2>5 DEF WorkFailed, Release, Runs
<1> QED
  BY <1>4, <1>5 DEF Work

LEMMA InvAbort ==
  ASSUME IInv, TypeOK', AllDisciplined, NEW p \in Process, Abort(p)
  PROVE  IInv'
<1> USE DEF IInv
<1>1. /\ At(p, "abort") /\ ~At(p, "idle") /\ Busy(p)
      /\ Runs(p, Marking) /\ Retiring(p)
      /\ UNCHANGED <<marker, lock, allowed>>
  BY DEF Abort, world, At, Busy, Stage
<1>2. kids' \in {kids, kids \cup {"results"}}
  BY DEF Abort
<1>3. Whole' /\ Worked'
  BY <1>1, <1>2, Children DEF Whole, Worked
<1>4. PICK pc \in {"hash", "fallback"} : Goto(p, pc)
  BY DEF Abort
<1> DEFINE new == [job[p] EXCEPT !.pc = pc]
<1>5. new \in Job /\ job' = [job EXCEPT ![p] = new]
  BY <1>4 DEF Goto, TypeOK, Job, Step
<1>6. new.pc = pc /\ new.cmd = job[p].cmd /\ new.mark = job[p].mark /\ job'[p] = new
  BY <1>5 DEF TypeOK, Job
<1> HIDE DEF new
<1>7. Stage(p)'
  BY <1>1, <1>6 DEF Stage, BeforePublish, At, Runs, Retiring
<1> QED
  BY <1>1, <1>3, <1>5, <1>6, <1>7, InvMoved DEF Retiring

LEMMA InvVerdict ==
  ASSUME IInv, TypeOK', AllDisciplined, NEW p \in Process, Verdict(p)
  PROVE  IInv'
<1> USE DEF IInv
<1>1. /\ At(p, "verdict") /\ ~At(p, "idle") /\ Busy(p)
      /\ Runs(p, {"case", "replay"})
      /\ UNCHANGED <<marker, kids, lock, allowed>>
  BY DEF Verdict, world, At, Busy, Stage
<1>2. Whole' /\ Worked'
  BY <1>1 DEF Whole, Worked
<1> DEFINE new == [job[p] EXCEPT !.pc = "check"]
<1>3. new \in Job /\ job' = [job EXCEPT ![p] = new]
  BY DEF Verdict, Goto, TypeOK, Job, Step
<1>4. new.pc = "check" /\ new.cmd = job[p].cmd /\ job'[p] = new
  BY <1>3 DEF TypeOK, Job
<1> HIDE DEF new
<1>5. Stage(p)'
  BY <1>1, <1>4 DEF Stage, At, Runs
<1> QED
  BY <1>1, <1>2, <1>3, <1>4, <1>5, InvMoved

\* An error while p finalizes, from a step that leaves the marker as it was
\* before the step or as p published it.
LEMMA InvRaise ==
  ASSUME IInv, TypeOK', AllDisciplined, NEW p \in Process, Raise(p),
         job[p].pc \in {"check", "hash", "publish", "confirm"},
         UNCHANGED <<marker, kids, allowed>>
  PROVE  IInv'
<1> USE DEF IInv
<1>1. ~At(p, "idle") /\ Busy(p) /\ Whole' /\ Worked'
  BY DEF At, Busy, Whole, Worked
<1>2. CASE ~Runs(p, Marking)
  BY <1>1, <1>2, InvDone DEF Raise
<1>3. CASE Runs(p, Marking)
  <2>1. /\ job[p].mark.life = "interrupted" => marker.life \in {"running", "ready", "interrupted"}
        /\ job[p].mark.life # "interrupted" => marker.life \in {"running", "ready"}
    BY <1>3 DEF Stage, BeforePublish, Retiring, At, Runs, Marking
  <2>2. CASE job[p].mark.life = "interrupted"
    <3> DEFINE new == [job[p] EXCEPT !.pc = "fallback"]
    <3>1. new \in Job /\ job' = [job EXCEPT ![p] = new] /\ lock' = lock
      BY <1>3, <2>2 DEF Raise, Goto, TypeOK, Job, Step
    <3>2. new.pc = "fallback" /\ new.cmd = job[p].cmd /\ new.mark = job[p].mark /\ job'[p] = new
      BY <3>1 DEF TypeOK, Job
    <3> HIDE DEF new
    <3>3. Stage(p)'
      BY <1>3, <2>1, <2>2, <3>2 DEF Stage, At, Runs
    <3> QED
      BY <1>1, <3>1, <3>2, <3>3, InvMoved
  <2>3. CASE job[p].mark.life # "interrupted"
    <3> DEFINE new == [job[p] EXCEPT !.pc = "abort", !.mark = Retired(job[p].mark)]
    <3>1. Retired(job[p].mark) \in Marker /\ Retired(job[p].mark).life = "interrupted"
      BY DEF Retired, TypeOK, Marker, Life, Job
    <3>2. new \in Job /\ job' = [job EXCEPT ![p] = new] /\ lock' = lock
      BY <1>3, <2>3, <3>1 DEF Raise, GotoWith, TypeOK, Job, Step
    <3>3. new.pc = "abort" /\ new.cmd = job[p].cmd /\ new.mark.life = "interrupted" /\ job'[p] = new
      BY <3>1, <3>2 DEF TypeOK, Job
    <3> HIDE DEF new
    <3>4. Stage(p)'
      BY <1>3, <2>1, <2>3, <3>3 DEF Stage, At, Runs, Retiring
    <3> QED
      BY <1>1, <3>2, <3>3, <3>4, InvMoved
  <2> QED
    BY <2>2, <2>3
<1> QED
  BY <1>2, <1>3

LEMMA InvCheck ==
  ASSUME IInv, TypeOK', AllDisciplined, NEW p \in Process, Check(p)
  PROVE  IInv'
<1> USE DEF IInv
<1>1. At(p, "check") /\ ~At(p, "idle") /\ Busy(p) /\ UNCHANGED <<marker, kids, allowed>>
  BY DEF Check, root, world, At, Busy
<1>2. Runs(p, {"case", "replay"}) /\ Whole' /\ Worked'
  BY <1>1 DEF Stage, At, Whole, Worked
<1>3. CASE Raise(p)
  BY <1>1, <1>3, InvRaise DEF At
<1>4. CASE Done(p)
  BY <1>1, <1>4, InvDone
<1>5. CASE GotoWith(p, "hash", marker) /\ UNCHANGED lock /\ marker.life = "ready"
  <2> DEFINE new == [job[p] EXCEPT !.pc = "hash", !.mark = marker]
  <2>1. new \in Job /\ job' = [job EXCEPT ![p] = new]
    BY <1>5 DEF GotoWith, TypeOK, Job, Step
  <2>2. new.pc = "hash" /\ new.cmd = job[p].cmd /\ new.mark = marker /\ job'[p] = new
    BY <2>1 DEF TypeOK, Job
  <2> HIDE DEF new
  <2>3. Stage(p)'
    BY <1>1, <1>2, <1>5, <2>2 DEF Stage, At, Runs, BeforePublish
  <2> QED
    BY <1>1, <1>2, <1>5, <2>1, <2>2, <2>3, InvMoved
<1> QED
  BY <1>3, <1>4, <1>5 DEF Check

LEMMA InvHash ==
  ASSUME IInv, TypeOK', AllDisciplined, NEW p \in Process, Hash(p)
  PROVE  IInv'
<1> USE DEF IInv
<1>1. At(p, "hash") /\ ~At(p, "idle") /\ Busy(p) /\ UNCHANGED <<marker, kids, allowed>>
  BY DEF Hash, root, world, At, Busy
<1>2. BeforePublish(p) /\ Whole' /\ Worked'
  BY <1>1 DEF Stage, At, Whole, Worked
<1>3. CASE Raise(p)
  BY <1>1, <1>3, InvRaise DEF At
<1>4. CASE ~Raise(p)
  <2> DEFINE new == [job[p] EXCEPT !.hash = evidence, !.pc = "publish"]
  <2>1. new \in Job /\ job' = [job EXCEPT ![p] = new] /\ lock' = lock
    BY <1>4 DEF Hash, TypeOK, Job, Step
  <2>2. new.pc = "publish" /\ new.cmd = job[p].cmd /\ new.mark = job[p].mark /\ job'[p] = new
    BY <2>1 DEF TypeOK, Job
  <2> HIDE DEF new
  <2>3. Stage(p)'
    BY <1>1, <1>2, <2>2 DEF Stage, At, Runs, BeforePublish, Retiring
  <2> QED
    BY <1>1, <1>2, <2>1, <2>2, <2>3, InvMoved
<1> QED
  BY <1>3, <1>4

LEMMA InvPublish ==
  ASSUME IInv, TypeOK', AllDisciplined, NEW p \in Process, Publish(p)
  PROVE  IInv'
<1> USE DEF IInv
<1>1. At(p, "publish") /\ ~At(p, "idle") /\ Busy(p) /\ UNCHANGED <<kids, allowed>>
  BY DEF Publish, world, At, Busy
<1>2. BeforePublish(p)
  BY <1>1 DEF Stage, At
<1>3. CASE Raise(p) /\ UNCHANGED marker
  BY <1>1, <1>3, InvRaise DEF At
<1>4. CASE ~(Raise(p) /\ UNCHANGED marker)
  <2> DEFINE new == [job[p] EXCEPT !.pc = "confirm"]
  <2>1. new \in Job /\ job' = [job EXCEPT ![p] = new] /\ lock' = lock
    BY <1>4 DEF Publish, Goto, TypeOK, Job, Step
  <2>2. new.pc = "confirm" /\ new.cmd = job[p].cmd /\ new.mark = job[p].mark /\ job'[p] = new
    BY <2>1 DEF TypeOK, Job
  <2> HIDE DEF new
  <2>3. marker'.life = job[p].mark.life /\ marker'.workers = job[p].mark.workers
    BY <1>4 DEF Publish, TypeOK, Job, Marker
  <2>4. Whole' /\ Worked'
    BY <1>1, <1>2, <2>3 DEF BeforePublish, Retiring, Whole, Worked
  <2>5. Stage(p)'
    BY <1>1, <1>2, <2>2, <2>3 DEF Stage, At, Runs, BeforePublish, Retiring, Marking
  <2>6. marker'.life = "none" => marker.life = "none"
    BY <1>2, <2>3 DEF BeforePublish, Retiring
  <2> QED
    BY <1>1, <2>1, <2>2, <2>4, <2>5, <2>6, InvMoved
<1> QED
  BY <1>3, <1>4

LEMMA InvConfirm ==
  ASSUME IInv, TypeOK', AllDisciplined, NEW p \in Process, Confirm(p)
  PROVE  IInv'
<1>1. At(p, "confirm") /\ ~At(p, "idle") /\ UNCHANGED <<marker, kids, allowed>>
  BY DEF Confirm, root, world, At
<1>2. Raise(p) \/ Done(p)
  BY DEF Confirm
<1> QED
  BY <1>1, <1>2, InvRaise, InvDone DEF At

LEMMA InvFallback ==
  ASSUME IInv, TypeOK', AllDisciplined, NEW p \in Process, Fallback(p)
  PROVE  IInv'
<1> USE DEF IInv
<1>1. At(p, "fallback") /\ ~At(p, "idle") /\ Busy(p) /\ UNCHANGED <<kids, allowed>>
  BY DEF Fallback, world, At, Busy
<1>2. job[p].mark.life = "interrupted" /\ marker.life \in {"running", "ready", "interrupted"}
  BY <1>1 DEF Stage
<1>3. marker' = job[p].mark \/ marker' = marker
  BY DEF Fallback
<1>4. job' = [job EXCEPT ![p] = Resting] /\ (lock' = lock \/ (lock = p /\ lock' = NoProcess))
  BY DEF Fallback, Done, Release
<1>5. /\ Jobs' /\ Creating'
      /\ \A q \in Process \ {p} : Stage(q)' /\ (Busy(q) /\ Runs(q, Locking) => lock = q)'
  BY <1>1, <1>4, RestingTyped, Frame
<1>6. job'[p] = Resting
  BY <1>4 DEF TypeOK
<1>7. Unmarked' /\ Whole' /\ Worked'
  BY <1>1, <1>2, <1>3 DEF Unmarked, Whole, Worked
<1> QED
  BY <1>5, <1>6, <1>7, RestingStage, Combine DEF Own

LEMMA InvSweep ==
  ASSUME IInv, TypeOK', AllDisciplined, NEW p \in Process, Sweep(p)
  PROVE  IInv'
<1> USE DEF IInv
<1>1. At(p, "sweep") /\ ~At(p, "idle") /\ Busy(p) /\ UNCHANGED allowed
  BY DEF Sweep, world, At, Busy
<1>2. /\ Runs(p, {"cleanup"})
      /\ \A i \in 1 .. 4 : i < job[p].next => MUTABLE_CHILDREN[i] \notin kids
  BY <1>1 DEF Stage
<1>3. CASE Done(p) /\ UNCHANGED <<marker, kids>>
  BY <1>1, <1>3, InvDone
<1>4. CASE ~(Done(p) /\ UNCHANGED <<marker, kids>>)
  <2>1. SweepValid(p) /\ lock' = lock /\ marker.life = "cleaning"
    BY <1>4 DEF Sweep, SweepValid
  <2>2. CASE job[p].next <= 4
    <3> DEFINE new == [job[p] EXCEPT !.next = job[p].next + 1]
    <3>1. kids' = kids \ {MUTABLE_CHILDREN[job[p].next]} /\ UNCHANGED marker
      BY <1>4, <2>2, Children DEF Sweep
    <3>2. new \in Job /\ job' = [job EXCEPT ![p] = new]
      BY <1>4, <2>2, Children DEF Sweep, TypeOK, Job
    <3>3. /\ new.pc = "sweep" /\ new.cmd = job[p].cmd /\ new.next = job[p].next + 1
          /\ job'[p] = new /\ job[p].next \in Nat
      BY <1>1, <3>2 DEF TypeOK, Job, At
    <3> HIDE DEF new
    <3>4. Whole' /\ Worked'
      BY <2>1, <3>1 DEF Whole, Worked
    <3>5. Stage(p)'
      BY <1>2, <3>1, <3>3 DEF Stage, At, Runs
    <3> QED
      BY <1>1, <2>1, <3>1, <3>2, <3>3, <3>4, <3>5, InvMoved
  <2>3. CASE ~(job[p].next <= 4)
    <3> DEFINE new == [job[p] EXCEPT !.pc = "confirm"]
    <3>1. marker' = [marker EXCEPT !.life = "cleaned"] /\ UNCHANGED kids
      BY <1>4, <2>3, Children DEF Sweep
    <3>2. new \in Job /\ job' = [job EXCEPT ![p] = new]
      BY <1>4, <2>3, Children DEF Sweep, Goto, TypeOK, Job, Step
    <3>3. new.pc = "confirm" /\ new.cmd = job[p].cmd /\ job'[p] = new
      BY <3>2 DEF TypeOK, Job
    <3> HIDE DEF new
    <3>4. marker'.life = "cleaned"
      BY <3>1 DEF TypeOK, Marker
    <3>5. Whole' /\ Worked'
      BY <3>4 DEF Whole, Worked
    <3>6. Stage(p)'
      BY <1>2, <3>3 DEF Stage, At, Runs, Marking
    <3> QED
      BY <1>1, <2>1, <3>1, <3>2, <3>3, <3>4, <3>5, <3>6, InvMoved
  <2> QED
    BY <2>2, <2>3
<1> QED
  BY <1>3, <1>4

LEMMA InvStep == AllDisciplined /\ IInv /\ [Next]_vars => IInv'
<1> SUFFICES ASSUME AllDisciplined, IInv, [Next]_vars PROVE IInv'
  OBVIOUS
<1>1. TypeOK'
  BY TypeStep DEF IInv
<1>2. CASE UNCHANGED vars
  BY <1>2 DEF vars, IInv, TypeOK, Jobs, Creating, Unmarked, Locked, Whole, Worked, Stage, AtMark,
    AtWork, BeforePublish, Retiring, Busy, At, Runs
<1>3. ASSUME NEW p \in Process, Kill(p) PROVE IInv'
  BY <1>1, <1>3, InvDone DEF Kill
<1> QED
  BY <1>1, <1>2, <1>3, InvBegin, InvLock, InvMark, InvWork, InvAbort, InvVerdict, InvCheck, InvHash,
    InvPublish, InvConfirm, InvFallback, InvSweep DEF Next, Continue

\* The invariant holds in every disciplined deployment.
THEOREM Invariance == ASSUME AllDisciplined PROVE Spec => []IInv
<1>1. Init => IInv
  <2> SUFFICES ASSUME Init PROVE IInv
    OBVIOUS
  <2>1. \A p \in Process : job[p] = Resting
    BY DEF Init
  <2> QED
    BY <2>1, TypeInit DEF Init, IInv, Jobs, Creating, Unmarked, Locked, Whole, Worked, Stage,
      Busy, At, Runs, Resting, NoMarker
<1>2. IInv /\ [Next]_vars => IInv'
  BY InvStep
<1> QED
  BY <1>1, <1>2, PTL DEF Spec

\* Nobody else validates the root, and nobody takes it apart, under a working
\* create, run or capture (the marker of validate_marker's "Owned fixture
\* still has active workers").
THEOREM WorkersMarked == ASSUME AllDisciplined PROVE Spec => []WorkerMarked
<1>1. IInv => WorkerMarked
  <2> SUFFICES ASSUME IInv, NEW p \in Process, Runs(p, Marking), At(p, "work")
               PROVE  /\ marker.life = "running" /\ marker.workers = {p}
                      /\ Runs(p, {"create"}) \/ kids = Child
    BY DEF WorkerMarked
  <2> QED
    BY DEF IInv, Stage, AtWork, Runs, Marking
<1>2. Spec => []IInv
  BY Invariance
<1> QED
  BY <1>1, <1>2, PTL

\* When a sweep is over only the results are left.
LEMMA SweptLeaves ==
  ASSUME TypeOK, NEW p \in Process, job[p].next \in 1 .. 5, ~(job[p].next <= 4),
         \A i \in 1 .. 4 : i < job[p].next => MUTABLE_CHILDREN[i] \notin kids,
         "results" \in kids
  PROVE  kids = {"results"}
<1>1. \A i \in 1 .. 4 : MUTABLE_CHILDREN[i] \notin kids
  OBVIOUS
<1>2. /\ MUTABLE_CHILDREN[1] = "fixture" /\ MUTABLE_CHILDREN[2] = "worktree-a"
      /\ MUTABLE_CHILDREN[3] = "worktree-b" /\ MUTABLE_CHILDREN[4] = "remote.git"
  BY DEF MUTABLE_CHILDREN
<1>3. kids \subseteq {"fixture", "worktree-a", "worktree-b", "remote.git", "results"}
  BY Children DEF TypeOK
<1>4. kids \cap {"fixture", "worktree-a", "worktree-b", "remote.git"} = {}
  BY <1>1, <1>2
<1> QED
  BY <1>3, <1>4

\* Where the children come from and go: the step lemma of the refinement.
LEMMA LifeStep ==
  ASSUME IInv, AllDisciplined, [Next]_vars
  PROVE  [FixtureLives!Next]_<<marker.life, kids>>
<1> USE DEF IInv
<1> DEFINE Same == marker'.life = marker.life /\ kids' = kids
<1>1. CASE UNCHANGED <<marker, kids>>
  BY <1>1
<1>2. ASSUME NEW p \in Process, Mark(p) PROVE Same \/ FixtureLives!Next
  <2>1. /\ AtMark(p) /\ kids' = kids
        /\ \/ marker' = marker
           \/ marker'.life = IF Runs(p, {"cleanup"}) THEN "cleaning" ELSE "running"
    BY <1>2 DEF Mark, Stage, Announced, TypeOK, Job, Marker
  <2> QED
    BY <2>1 DEF AtMark, Runs, FixtureLives!Next, FixtureLives!Become
<1>3. ASSUME NEW p \in Process, Work(p) PROVE Same \/ FixtureLives!Next
  <2>1. AtWork(p) /\ marker' = marker
    BY <1>3 DEF Work, Stage
  <2>2. ~Runs(p, {"create"}) => kids' = kids
    BY <1>3 DEF Work, WorkDone, WorkFailed
  <2>3. Runs(p, {"create"}) => marker.life = "running" /\ kids = {}
    BY <2>1 DEF AtWork, Runs, Marking
  <2>4. kids' \subseteq Child
    BY <1>3, TypeStep DEF Next, Continue, TypeOK
  <2> QED
    BY <2>1, <2>2, <2>3, <2>4 DEF FixtureLives!Next, FixtureLives!Build
<1>4. ASSUME NEW p \in Process, Abort(p) PROVE Same \/ FixtureLives!Next
  <2>1. /\ Retiring(p) /\ marker' = marker
        /\ kids' \in {kids, kids \cup {"results"}} /\ "results" \in Child
    BY <1>4, Children DEF Abort, Stage
  <2>2. CASE marker.life = "ready"
    BY <2>1, <2>2 DEF Whole
  <2>3. CASE marker.life = "running"
    BY <2>1, <2>3 DEF FixtureLives!Next, FixtureLives!Build, TypeOK
  <2> QED
    BY <2>1, <2>2, <2>3 DEF Retiring
<1>5. ASSUME NEW p \in Process, Publish(p) PROVE Same \/ FixtureLives!Next
  <2>1. /\ BeforePublish(p) /\ kids' = kids
        /\ marker' = marker \/ marker'.life = job[p].mark.life
    BY <1>5 DEF Publish, Stage, TypeOK, Job, Marker, At
  <2> QED
    BY <2>1 DEF BeforePublish, Retiring, FixtureLives!Next, FixtureLives!Become
<1>6. ASSUME NEW p \in Process, Fallback(p) PROVE Same \/ FixtureLives!Next
  <2>1. /\ job[p].mark.life = "interrupted" /\ marker.life \in {"running", "ready", "interrupted"}
        /\ kids' = kids /\ marker' \in {marker, job[p].mark}
    BY <1>6 DEF Fallback, Stage
  <2> QED
    BY <2>1 DEF FixtureLives!Next, FixtureLives!Become
<1>7. ASSUME NEW p \in Process, Sweep(p) PROVE Same \/ FixtureLives!Next
  <2>1. /\ \A i \in 1 .. 4 : i < job[p].next => MUTABLE_CHILDREN[i] \notin kids
        /\ job[p].next \in 1 .. 5
    BY <1>7 DEF Sweep, Stage, TypeOK, Job
  <2>2. CASE UNCHANGED <<marker, kids>>
    BY <2>2
  <2>3. CASE ~UNCHANGED <<marker, kids>>
    <3>1. SweepValid(p) /\ marker.life = "cleaning"
      BY <1>7, <2>3 DEF Sweep, SweepValid
    <3>2. "results" \in kids
      BY <3>1 DEF SweepValid, Accepted, Owned, LayoutValid
    <3>3. CASE job[p].next <= 4
      <4>1. kids' = kids \ {MUTABLE_CHILDREN[job[p].next]} /\ marker' = marker
        BY <1>7, <2>3, <3>3, Children DEF Sweep
      <4>2. MUTABLE_CHILDREN[job[p].next] \in Child \ {"results"}
        BY <2>1, <3>3, Children
      <4>3. CASE MUTABLE_CHILDREN[job[p].next] \in kids
        BY <3>1, <4>1, <4>2, <4>3 DEF FixtureLives!Next, FixtureLives!Discard
      <4>4. CASE MUTABLE_CHILDREN[job[p].next] \notin kids
        BY <4>1, <4>4
      <4> QED
        BY <4>3, <4>4
    <3>4. CASE ~(job[p].next <= 4)
      <4>1. marker'.life = "cleaned" /\ kids' = kids
        BY <1>7, <2>3, <3>4, Children DEF Sweep, TypeOK, Marker
      <4>3. kids = {"results"}
        BY <2>1, <3>2, <3>4, SweptLeaves DEF IInv
      <4> QED
        BY <3>1, <4>1, <4>3 DEF FixtureLives!Next, FixtureLives!Become
    <3> QED
      BY <3>3, <3>4
  <2> QED
    BY <2>2, <2>3
<1>8. ASSUME NEW p \in Process, NEW cmd \in Command, Begin(p, cmd) PROVE Same
  BY <1>8 DEF Begin, root
<1>9. ASSUME NEW p \in Process,
             Lock(p) \/ Verdict(p) \/ Check(p) \/ Hash(p) \/ Confirm(p) \/ Kill(p)
      PROVE  Same
  BY <1>9 DEF Lock, Verdict, Check, Hash, Confirm, Kill, root
<1> QED
  BY <1>1, <1>2, <1>3, <1>4, <1>5, <1>6, <1>7, <1>8, <1>9 DEF Next, Continue, vars

\* The marker and the children of a root implement FixtureLife: it is taken
\* apart only while it is cleaning, ready only when whole, and its results
\* are never deleted.
THEOREM Implementation == ASSUME AllDisciplined PROVE Spec => LifeSpec
<1>1. Init => FixtureLives!Init
  BY DEF Init, FixtureLives!Init, NoMarker
<1>2. IInv /\ [Next]_vars => [FixtureLives!Next]_<<marker.life, kids>>
  BY LifeStep
<1>3. Spec => []IInv
  BY Invariance
<1> QED
  BY <1>1, <1>2, <1>3, PTL DEF Spec, LifeSpec, FixtureLives!Spec
-----------------------------------------------------------------------------
(* Why a root is stranded.  As long as there is no cause, a root at rest   *)
(* is accepted (or not there yet), and a busy process has what it needs to *)
(* publish a marker that will be.                                          *)

Intact == marker.life = "none" \/ Accepted
AtRest == \A p \in Process : ~Busy(p)
AtMostOne == \A p, q \in Process : p # q => ~(Busy(p) /\ Busy(q))

\* The marker m, published with a fresh manifest over the children ks and
\* this version of the results, would be accepted.
Publishes(m, ks, version) ==
  /\ version > 0 /\ m.workers = {}
  /\ \/ m.life = "ready" /\ ks = Child
     \/ m.life \in {"interrupted", "cleaning"} /\ "results" \in ks
     \/ m.life = "cleaned" /\ ks = {"results"}
Publishable(m) == Publishes(m, kids, evidence)

Sound(p) ==
  /\ At(p, "mark") => Intact /\ job[p].mark = marker
  /\ At(p, "work") =>
       /\ Runs(p, {"create"}) \/ evidence > 0
       /\ Runs(p, {"report"}) => Accepted /\ job[p].mark = marker
  /\ At(p, "abort") =>
       job[p].mark.workers = {} /\ (Runs(p, {"capture"}) => evidence > 0)
  /\ job[p].pc \in {"verdict", "check"} => evidence > 0
  /\ job[p].pc \in {"hash", "publish"} => Publishable(job[p].mark)
  /\ At(p, "publish") => job[p].hash = evidence
  /\ job[p].pc \in {"confirm", "sweep"} => Accepted

Unblamed ==
  ~torn /\ (AtRest => Intact) /\ \A p \in Process : Sound(p)
SoundInv == causes = {} => Unblamed

LEMMA AcceptedRecorded ==
  ASSUME TypeOK, Accepted
  PROVE  evidence > 0
BY DEF TypeOK, Accepted, Finalized, Unpublished, Marker

LEMMA OneBusyAtMost ==
  ASSUME IInv, AllDisciplined
  PROVE  AtMostOne
BY OneBusy DEF AtMostOne

\* What is left to show of a step of p.
LEMMA SoundFrame ==
  ASSUME TypeOK, Unblamed, AtMostOne, NEW p \in Process, NEW new,
         job' = [job EXCEPT ![p] = new], ~torn',
         Busy(p) \/ UNCHANGED <<marker, kids, evidence>>,
         Busy(p)' => Sound(p)',
         Busy(p) /\ ~Busy(p)' => Intact'
  PROVE  Unblamed'
<1>1. \A q \in Process \ {p} : job'[q] = job[q]
  BY DEF TypeOK
<1>2. \A q \in Process \ {p} : Busy(q)' <=> Busy(q)
  BY <1>1 DEF Busy
<1>3. ASSUME NEW q \in Process \ {p} PROVE Sound(q)'
  <2>1. CASE Busy(p)
    <3>1. ~Busy(q)
      BY <2>1 DEF AtMostOne
    <3> QED BY <1>1, <3>1 DEF Busy, Sound, At
  <2>2. CASE ~Busy(p)
    <3>1. Sound(q) /\ job'[q] = job[q] /\ UNCHANGED <<marker, kids, evidence>> /\ ~torn /\ ~torn'
      BY <1>1, <2>2 DEF Unblamed
    <3> QED BY <3>1
            DEF Sound, At, Runs, Intact, Accepted, Owned, Finalized, LayoutValid, Publishable, Publishes
  <2> QED BY <2>1, <2>2
<1>4. Sound(p)'
  <2>1. CASE ~Busy(p)'
    BY <2>1 DEF Sound, Busy, At
  <2> QED BY <2>1
<1>5. (AtRest => Intact)'
  <2> SUFFICES ASSUME AtRest' PROVE Intact'
    OBVIOUS
  <2>1. ~Busy(p)'
    BY DEF AtRest
  <2>2. CASE ~Busy(p)
    <3>1. AtRest
      BY <1>2, <2>2 DEF AtRest
    <3>2. Intact /\ UNCHANGED <<marker, kids, evidence>> /\ ~torn /\ ~torn'
      BY <2>2, <3>1 DEF Unblamed
    <3> QED BY <3>2 DEF Intact, Accepted, Owned, Finalized, LayoutValid
  <2> QED BY <2>1, <2>2
<1> QED BY <1>3, <1>4, <1>5 DEF Unblamed

\* A command that gets past its lock finds the root intact.
LEMMA IntactBefore ==
  ASSUME TypeOK, Unblamed, AtMostOne', NEW p \in Process, ~Busy(p), Busy(p)',
         NEW new, job' = [job EXCEPT ![p] = new]
  PROVE  Intact
<1>1. ASSUME NEW q \in Process \ {p} PROVE ~Busy(q)
  <2>1. Busy(q)' <=> Busy(q)
    BY DEF TypeOK, Busy
  <2> QED BY <2>1 DEF AtMostOne
<1> QED BY <1>1 DEF Unblamed, AtRest

\* p ends.
LEMMA SoundDone ==
  ASSUME TypeOK, Unblamed, AtMostOne, NEW p \in Process, Done(p), ~torn',
         UNCHANGED <<marker, kids, evidence>>, Busy(p) => Intact
  PROVE  Unblamed'
<1>1. job' = [job EXCEPT ![p] = Resting]
  BY DEF Done
<1>2. ~Busy(p)'
  BY <1>1 DEF TypeOK, Busy, Resting
<1>3. Busy(p) => Intact'
  BY DEF Intact, Accepted, Owned, Finalized, LayoutValid, Unblamed
<1> QED BY <1>1, <1>2, <1>3, SoundFrame

LEMMA SoundBegin ==
  ASSUME TypeOK, Unblamed, AtMostOne, NEW p \in Process, NEW cmd \in Command, Begin(p, cmd)
  PROVE  Unblamed'
<1> DEFINE new == [Resting EXCEPT !.cmd = cmd, !.pc = FirstStep(cmd), !.mark = marker]
<1>1. job' = [job EXCEPT ![p] = new] /\ UNCHANGED <<marker, kids, evidence, torn>>
  BY DEF Begin, root
<1>2. job'[p] = new /\ new.cmd = cmd /\ new.pc = FirstStep(cmd) /\ new.mark = marker
  BY <1>1 DEF TypeOK, Resting
<1> HIDE DEF new
<1>3. Intact' = Intact /\ Accepted' = Accepted
  BY <1>1 DEF Intact, Accepted, Owned, Finalized, LayoutValid
<1>4. ~Busy(p) /\ MayBegin(cmd)
  BY DEF Begin, At, Busy
<1>5. CASE cmd \in {"create", "run", "cleanup"}
  <2>1. new.pc = "mark" /\ Intact
    BY <1>2, <1>4, <1>5 DEF FirstStep, MayBegin, Intact, Ready
  <2>2. Sound(p)'
    BY <1>1, <1>2, <1>3, <2>1 DEF Sound, At
  <2> QED BY <1>1, <1>4, <2>2, SoundFrame DEF Unblamed
<1>6. CASE cmd \in {"capture", "case", "replay"}
  <2>1. ~Busy(p)'
    BY <1>2, <1>6 DEF FirstStep, Busy
  <2> QED BY <1>1, <1>4, <2>1, SoundFrame DEF Unblamed
<1>7. CASE cmd = "report"
  <2>1. new.pc = "work" /\ Accepted /\ evidence > 0
    BY <1>2, <1>4, <1>7, AcceptedRecorded DEF FirstStep, MayBegin
  <2>2. Sound(p)'
    BY <1>1, <1>2, <1>3, <2>1 DEF Sound, At
  <2> QED BY <1>1, <1>4, <2>2, SoundFrame DEF Unblamed
<1> QED BY <1>5, <1>6, <1>7 DEF Command

LEMMA SoundLock ==
  ASSUME IInv, Unblamed, AtMostOne, AtMostOne', NEW p \in Process, Lock(p)
  PROVE  Unblamed'
<1> USE DEF IInv
<1>1. At(p, "lock") /\ ~Busy(p) /\ UNCHANGED <<marker, kids, evidence, torn>>
  BY DEF Lock, root, At, Busy
<1>2. CASE Done(p)
  BY <1>1, <1>2, SoundDone DEF Unblamed
<1>3. Intact' = Intact /\ Accepted' = Accepted
  BY <1>1 DEF Intact, Accepted, Owned, Finalized, LayoutValid
<1>4. marker.life # "none"
  BY <1>1 DEF Jobs, Unmarked, At, Runs
<1>5. ASSUME NEW pc \in {"mark", "work", "verdict"}, Goto(p, pc), ~Runs(p, {"report"}),
             pc = "mark" => job[p].mark = marker
      PROVE  Unblamed'
  <2> DEFINE new == [job[p] EXCEPT !.pc = pc]
  <2>1. job' = [job EXCEPT ![p] = new]
    BY <1>5 DEF Goto, TypeOK, Job
  <2>2. new.pc = pc /\ new.cmd = job[p].cmd /\ new.mark = job[p].mark /\ job'[p] = new
    BY <2>1 DEF TypeOK, Job
  <2> HIDE DEF new
  <2>3. Busy(p)'
    BY <2>2 DEF Busy
  <2>4. Accepted /\ Intact /\ evidence > 0
    BY <1>1, <1>4, <2>1, <2>3, IntactBefore, AcceptedRecorded DEF Intact
  <2>5. Sound(p)'
    BY <1>1, <1>3, <1>5, <2>2, <2>4 DEF Sound, At, Runs
  <2> QED BY <1>1, <2>1, <2>5, SoundFrame DEF Unblamed
<1> QED BY <1>2, <1>5 DEF Lock, LockCapture, LockCase, LockReplay, Runs

LEMMA SoundMark ==
  ASSUME IInv, Unblamed, AtMostOne, NEW p \in Process, Mark(p)
  PROVE  Unblamed'
<1> USE DEF IInv
<1>1. /\ At(p, "mark") /\ Busy(p) /\ AtMark(p) /\ UNCHANGED <<kids, evidence, torn>>
      /\ Intact /\ job[p].mark = marker
  BY DEF Mark, At, Busy, Stage, Unblamed, Sound
<1>2. CASE Done(p) /\ UNCHANGED marker
  BY <1>1, <1>2, SoundDone DEF Unblamed
<1>3. ASSUME marker' = Announced(p),
             GotoWith(p, IF Runs(p, {"cleanup"}) THEN "sweep" ELSE "work", Announced(p))
      PROVE  Unblamed'
  <2> DEFINE pc == IF Runs(p, {"cleanup"}) THEN "sweep" ELSE "work"
             new == [job[p] EXCEPT !.pc = pc, !.mark = Announced(p)]
  <2>1. job' = [job EXCEPT ![p] = new]
    BY <1>3 DEF GotoWith, TypeOK, Job
  <2>2. new.pc = pc /\ new.cmd = job[p].cmd /\ job'[p] = new
    BY <2>1 DEF TypeOK, Job
  <2> HIDE DEF new
  <2>3. CASE Runs(p, {"cleanup"})
    <3>1. Accepted /\ marker.life \in {"ready", "interrupted", "cleaning"}
      BY <1>1, <2>3 DEF AtMark, Runs, Intact
    <3>2. marker'.life = "cleaning" /\ marker'.workers = {} /\ marker'.manifest = marker.manifest
      BY <1>1, <1>3, <2>3 DEF Announced, TypeOK, Marker
    <3>3. "results" \in kids
      BY <3>1, Children DEF Accepted, Owned, LayoutValid
    <3>4. Accepted'
      BY <1>1, <3>1, <3>2, <3>3 DEF Accepted, Owned, Finalized, LayoutValid, Unblamed
    <3>5. Sound(p)'
      BY <2>2, <2>3, <3>4 DEF Sound, At
    <3> QED BY <1>1, <2>1, <2>2, <2>3, <3>5, SoundFrame DEF Unblamed, Busy
  <2>4. CASE ~Runs(p, {"cleanup"})
    <3>1. Runs(p, Marking) /\ (Runs(p, {"create"}) \/ Accepted)
      BY <1>1, <2>4 DEF AtMark, Runs, Marking, Intact
    <3>2. Sound(p)'
      BY <1>1, <2>2, <2>4, <3>1, AcceptedRecorded DEF Sound, At, Runs, Marking
    <3> QED BY <1>1, <2>1, <2>2, <2>4, <3>2, SoundFrame DEF Unblamed, Busy
  <2> QED BY <2>3, <2>4
<1> QED BY <1>2, <1>3 DEF Mark

LEMMA SoundWork ==
  ASSUME IInv, Unblamed, AtMostOne, NEW p \in Process, Work(p)
  PROVE  Unblamed'
<1> USE DEF IInv
<1>1. /\ At(p, "work") /\ Busy(p) /\ AtWork(p) /\ UNCHANGED <<marker, torn>>
      /\ Runs(p, {"create"}) \/ evidence > 0
      /\ Runs(p, {"report"}) => Accepted /\ job[p].mark = marker
      /\ Runs(p, Marking) \/ Runs(p, {"case", "replay"}) \/ Runs(p, {"report"})
      /\ evidence \in Nat
  BY DEF Work, At, Busy, Stage, AtWork, Unblamed, Sound, TypeOK
<1>2. ASSUME NEW pc \in {"check", "hash", "abort", "verdict"}, NEW m \in Marker,
             GotoWith(p, pc, m),
             pc = "hash" => Publishes(m, kids', evidence'),
             pc = "abort" => m.workers = {},
             evidence' > 0 \/ (pc = "abort" /\ Runs(p, {"create"}))
      PROVE  Unblamed'
  <2> DEFINE new == [job[p] EXCEPT !.pc = pc, !.mark = m]
  <2>1. job' = [job EXCEPT ![p] = new]
    BY <1>2 DEF GotoWith, TypeOK, Job
  <2>2. new.pc = pc /\ new.cmd = job[p].cmd /\ new.mark = m /\ job'[p] = new
    BY <2>1 DEF TypeOK, Job
  <2> HIDE DEF new
  <2>3. Publishable(job[p].mark)' <=> Publishes(m, kids', evidence')
    BY <2>2 DEF Publishable
  <2>4. Sound(p)'
    BY <1>2, <2>2, <2>3 DEF Sound, At, Runs
  <2> QED BY <1>1, <1>2, <2>1, <2>2, <2>4, SoundFrame DEF Unblamed, Busy
<1>3. Settled(p) \in Marker /\ Retired(job[p].mark) \in Marker /\ job[p].mark \in Marker
  BY DEF TypeOK, Settled, Retired, Marker, Life, Job
<1>4. CASE WorkDone(p)
  <2>1. evidence' > 0
    BY <1>1, <1>4 DEF WorkDone
  <2>2. CASE Runs(p, {"case", "replay"})
    BY <1>2, <1>3, <1>4, <2>1, <2>2 DEF WorkDone
  <2>3. CASE Runs(p, Marking)
    <3>1. Settled(p).life = "ready" /\ Settled(p).workers = {} /\ kids' = Child
      BY <1>4, <2>3 DEF WorkDone, Settled, TypeOK, Job, Marker, Runs, Marking
    <3>2. Publishes(Settled(p), kids', evidence')
      BY <2>1, <3>1 DEF Publishes
    <3> QED BY <1>2, <1>3, <1>4, <2>1, <2>3, <3>2 DEF WorkDone, Runs, Marking
  <2>4. CASE Runs(p, {"report"})
    <3>1. Settled(p) = marker /\ kids' = kids
      BY <1>1, <1>4, <2>4 DEF WorkDone, Settled, Runs, Marking
    <3>2. Publishes(marker, kids', evidence')
      BY <1>1, <2>1, <2>4, <3>1 DEF Publishes, Accepted, Owned, LayoutValid, Worked, TypeOK,
        Marker, Life
    <3> QED BY <1>1, <1>2, <1>3, <1>4, <2>1, <2>4, <3>1, <3>2 DEF WorkDone, Runs, Marking
  <2> QED BY <1>1, <2>2, <2>3, <2>4
<1>5. CASE WorkFailed(p)
  <2>1. evidence' \in {evidence, evidence + 1} /\ (Runs(p, {"report"}) => evidence' = evidence)
    BY <1>5 DEF WorkFailed, Runs
  <2>2. CASE Runs(p, Marking) /\ GotoWith(p, "abort", Retired(job[p].mark))
    <3>1. Retired(job[p].mark).workers = {}
      BY DEF Retired, TypeOK, Job, Marker
    <3>2. evidence' > 0 \/ Runs(p, {"create"})
      BY <1>1, <2>1
    <3> QED BY <1>2, <1>3, <2>2, <3>1, <3>2
  <2>3. CASE \/ Runs(p, {"case"}) /\ Goto(p, "check")
             \/ Runs(p, {"replay"}) /\ Goto(p, "verdict")
    <3>1. evidence' > 0
      BY <1>1, <2>1, <2>3 DEF Runs
    <3>2. \A pc \in Step : Goto(p, pc) => GotoWith(p, pc, job[p].mark)
      BY DEF Goto, GotoWith, TypeOK, Job
    <3> QED BY <1>2, <1>3, <2>3, <3>1, <3>2 DEF Step
  <2>4. CASE Runs(p, {"report"}) /\ Done(p)
    <3>1. kids' = kids /\ evidence' = evidence
      BY <1>5, <2>1, <2>4 DEF WorkFailed, Runs
    <3> QED BY <1>1, <2>4, <3>1, SoundDone DEF Unblamed, Intact
  <2> QED BY <1>5, <2>2, <2>3, <2>4 DEF WorkFailed
<1> QED BY <1>4, <1>5 DEF Work

LEMMA SoundAbort ==
  ASSUME IInv, Unblamed, AtMostOne, NEW p \in Process, Abort(p)
  PROVE  Unblamed'
<1> USE DEF IInv
<1>1. /\ At(p, "abort") /\ Busy(p) /\ UNCHANGED <<marker, torn>> /\ evidence \in Nat
      /\ job[p].mark.life = "interrupted" /\ job[p].mark.workers = {}
      /\ Runs(p, {"capture"}) => evidence > 0
  BY DEF Abort, At, Busy, Stage, Retiring, Unblamed, Sound, TypeOK
<1>2. PICK pc \in {"hash", "fallback"} :
        /\ Goto(p, pc)
        /\ pc = "hash" => /\ kids' = kids \cup {"results"}
                          /\ evidence' = IF Runs(p, {"capture"}) THEN evidence ELSE evidence + 1
  BY DEF Abort
<1> DEFINE new == [job[p] EXCEPT !.pc = pc]
<1>3. job' = [job EXCEPT ![p] = new]
  BY <1>2 DEF Goto, TypeOK, Job
<1>4. new.pc = pc /\ new.mark = job[p].mark /\ job'[p] = new
  BY <1>3 DEF TypeOK, Job
<1> HIDE DEF new
<1>5. Sound(p)'
  BY <1>1, <1>2, <1>4 DEF Sound, At, Publishable, Publishes
<1> QED BY <1>1, <1>2, <1>3, <1>4, <1>5, SoundFrame DEF Unblamed, Busy

LEMMA SoundVerdict ==
  ASSUME IInv, Unblamed, AtMostOne, NEW p \in Process, Verdict(p)
  PROVE  Unblamed'
<1> USE DEF IInv
<1>1. /\ At(p, "verdict") /\ Busy(p) /\ UNCHANGED <<marker, kids, torn>> /\ evidence \in Nat
      /\ evidence' \in {evidence, evidence + 1} /\ evidence > 0
  BY DEF Verdict, At, Busy, Unblamed, Sound, TypeOK
<1> DEFINE new == [job[p] EXCEPT !.pc = "check"]
<1>2. job' = [job EXCEPT ![p] = new]
  BY DEF Verdict, Goto, TypeOK, Job
<1>3. new.pc = "check" /\ job'[p] = new
  BY <1>2 DEF TypeOK, Job
<1> HIDE DEF new
<1>4. Sound(p)'
  BY <1>1, <1>3 DEF Sound, At
<1> QED BY <1>1, <1>2, <1>3, <1>4, SoundFrame DEF Unblamed, Busy

\* An error while p finalizes, without a cause: a handler takes over, or a
\* cleanup ends.
LEMMA SoundRaise ==
  ASSUME IInv, Unblamed, AtMostOne, NEW p \in Process, Raise(p), Busy(p), causes' = {},
         UNCHANGED <<marker, kids, evidence, torn>>,
         evidence > 0, Runs(p, {"cleanup"}) => Accepted
  PROVE  Unblamed'
<1> USE DEF IInv
<1>1. CASE ~Runs(p, Marking)
  <2>1. Done(p) /\ Runs(p, {"cleanup"})
    BY <1>1 DEF Raise, Blame
  <2> QED BY <2>1, SoundDone DEF Unblamed, Intact
<1>2. CASE Runs(p, Marking)
  <2>1. PICK pc \in {"fallback", "abort"}, m \in {job[p].mark, Retired(job[p].mark)} :
          GotoWith(p, pc, m) /\ (pc = "abort" => m = Retired(job[p].mark))
    BY <1>2 DEF Raise, Goto, GotoWith, TypeOK, Job
  <2> DEFINE new == [job[p] EXCEPT !.pc = pc, !.mark = m]
  <2>2. job' = [job EXCEPT ![p] = new]
    BY <2>1 DEF GotoWith, TypeOK, Job
  <2>3. new.pc = pc /\ new.mark = m /\ job'[p] = new
    BY <2>2 DEF TypeOK, Job
  <2> HIDE DEF new
  <2>4. pc = "abort" => m.workers = {}
    BY <2>1 DEF Retired, TypeOK, Job, Marker
  <2>5. Sound(p)'
    BY <2>1, <2>3, <2>4 DEF Sound, At
  <2> QED BY <2>1, <2>2, <2>3, <2>5, SoundFrame DEF Unblamed, Busy
<1> QED BY <1>1, <1>2

LEMMA SoundCheck ==
  ASSUME IInv, Unblamed, AtMostOne, NEW p \in Process, Check(p), causes' = {}
  PROVE  Unblamed'
<1> USE DEF IInv
<1>1. /\ At(p, "check") /\ Busy(p) /\ UNCHANGED <<marker, kids, evidence, torn>>
      /\ Runs(p, {"case", "replay"}) /\ evidence > 0
  BY DEF Check, root, At, Busy, Stage, Unblamed, Sound
<1>2. CASE Raise(p)
  BY <1>1, <1>2, SoundRaise DEF Runs
<1>3. CASE GotoWith(p, "hash", marker) /\ Owned /\ marker.life = "ready"
  <2> DEFINE new == [job[p] EXCEPT !.pc = "hash", !.mark = marker]
  <2>1. job' = [job EXCEPT ![p] = new]
    BY <1>3 DEF GotoWith, TypeOK, Job
  <2>2. new.pc = "hash" /\ new.mark = marker /\ job'[p] = new
    BY <2>1 DEF TypeOK, Job
  <2> HIDE DEF new
  <2>3. Sound(p)'
    BY <1>1, <1>3, <2>2 DEF Sound, At, Publishable, Publishes, Owned, LayoutValid
  <2> QED BY <1>1, <2>1, <2>2, <2>3, SoundFrame DEF Unblamed, Busy
<1> QED BY <1>2, <1>3 DEF Check, Blame

LEMMA SoundHash ==
  ASSUME IInv, Unblamed, AtMostOne, NEW p \in Process, Hash(p), causes' = {}
  PROVE  Unblamed'
<1> USE DEF IInv
<1>1. /\ At(p, "hash") /\ Busy(p) /\ UNCHANGED <<marker, kids, evidence, torn>>
      /\ Publishable(job[p].mark) /\ evidence > 0 /\ ~Runs(p, {"cleanup"})
  BY DEF Hash, root, At, Busy, Stage, BeforePublish, Runs, Marking, Unblamed, Sound, Publishable, Publishes
<1>2. CASE Raise(p)
  BY <1>1, <1>2, SoundRaise
<1>3. CASE ~Raise(p)
  <2> DEFINE new == [job[p] EXCEPT !.hash = evidence, !.pc = "publish"]
  <2>1. job' = [job EXCEPT ![p] = new]
    BY <1>3 DEF Hash, TypeOK, Job
  <2>2. new.pc = "publish" /\ new.mark = job[p].mark /\ new.hash = evidence /\ job'[p] = new
    BY <2>1 DEF TypeOK, Job
  <2> HIDE DEF new
  <2>3. Sound(p)'
    BY <1>1, <2>2 DEF Sound, At, Publishable, Publishes
  <2> QED BY <1>1, <2>1, <2>2, <2>3, SoundFrame DEF Unblamed, Busy
<1> QED BY <1>2, <1>3

LEMMA SoundPublish ==
  ASSUME IInv, Unblamed, AtMostOne, NEW p \in Process, Publish(p), causes' = {}
  PROVE  Unblamed'
<1> USE DEF IInv
<1>1. /\ At(p, "publish") /\ Busy(p) /\ UNCHANGED <<kids, evidence, torn>>
      /\ Publishable(job[p].mark) /\ evidence > 0 /\ job[p].hash = evidence
      /\ ~Runs(p, {"cleanup"})
  BY DEF Publish, At, Busy, Stage, BeforePublish, Runs, Marking, Unblamed, Sound, Publishable, Publishes
<1>2. CASE Raise(p) /\ UNCHANGED marker
  BY <1>1, <1>2, SoundRaise
<1>3. CASE marker' = [job[p].mark EXCEPT !.manifest = job[p].hash] /\ Goto(p, "confirm")
  <2> DEFINE new == [job[p] EXCEPT !.pc = "confirm"]
  <2>1. job' = [job EXCEPT ![p] = new]
    BY <1>3 DEF Goto, TypeOK, Job
  <2>2. new.pc = "confirm" /\ job'[p] = new
    BY <2>1 DEF TypeOK, Job
  <2> HIDE DEF new
  <2>3. /\ marker'.life = job[p].mark.life /\ marker'.workers = job[p].mark.workers
        /\ marker'.manifest = evidence
    BY <1>1, <1>3 DEF TypeOK, Job, Marker
  <2>4. LayoutValid'
    BY <1>1, <2>3, Children DEF LayoutValid, Publishable, Publishes, Unblamed
  <2>5. Accepted'
    BY <1>1, <2>3, <2>4 DEF Accepted, Owned, Finalized, Unpublished, Publishable, Publishes
  <2>6. Sound(p)'
    BY <2>2, <2>5 DEF Sound, At
  <2> QED BY <1>1, <2>1, <2>2, <2>6, SoundFrame DEF Unblamed, Busy
<1> QED BY <1>2, <1>3 DEF Publish

LEMMA SoundConfirm ==
  ASSUME IInv, Unblamed, AtMostOne, NEW p \in Process, Confirm(p), causes' = {}
  PROVE  Unblamed'
<1> USE DEF IInv
<1>1. /\ At(p, "confirm") /\ Busy(p) /\ UNCHANGED <<marker, kids, evidence, torn>>
      /\ Accepted /\ evidence > 0
  BY AcceptedRecorded DEF Confirm, root, At, Busy, Unblamed, Sound
<1>2. Raise(p) \/ Done(p)
  BY DEF Confirm
<1> QED BY <1>1, <1>2, SoundRaise, SoundDone DEF Unblamed, Intact

LEMMA SoundSweep ==
  ASSUME IInv, Unblamed, AtMostOne, NEW p \in Process, Sweep(p)
  PROVE  Unblamed'
<1> USE DEF IInv
<1>1. /\ At(p, "sweep") /\ Busy(p) /\ UNCHANGED <<evidence, torn>> /\ Accepted
      /\ job[p].next \in 1 .. 5
  BY DEF Sweep, At, Busy, Unblamed, Sound, TypeOK, Job
<1>2. CASE Done(p) /\ UNCHANGED <<marker, kids>>
  BY <1>1, <1>2, SoundDone DEF Unblamed, Intact
<1>3. CASE ~(Done(p) /\ UNCHANGED <<marker, kids>>)
  <2>1. SweepValid(p) /\ marker.life = "cleaning" /\ "results" \in kids
    BY <1>3 DEF Sweep, SweepValid, Accepted, Owned, LayoutValid
  <2>2. CASE job[p].next <= 4
    <3> DEFINE new == [job[p] EXCEPT !.next = job[p].next + 1]
    <3>1. kids' = kids \ {MUTABLE_CHILDREN[job[p].next]} /\ UNCHANGED marker
      BY <1>3, <2>2, Children DEF Sweep
    <3>2. job' = [job EXCEPT ![p] = new]
      BY <1>3, <2>2, Children DEF Sweep, TypeOK, Job
    <3>3. new.pc = "sweep" /\ job'[p] = new
      BY <1>1, <3>2 DEF TypeOK, Job, At
    <3> HIDE DEF new
    <3>4. "results" \in kids'
      BY <1>1, <2>1, <2>2, <3>1, Children
    <3>5. Accepted'
      BY <1>1, <2>1, <3>1, <3>4 DEF Accepted, Owned, Finalized, LayoutValid
    <3>6. Sound(p)'
      BY <3>3, <3>5 DEF Sound, At
    <3> QED BY <1>1, <3>2, <3>3, <3>6, SoundFrame DEF Unblamed, Busy
  <2>3. CASE ~(job[p].next <= 4)
    <3> DEFINE new == [job[p] EXCEPT !.pc = "confirm"]
    <3>1. marker' = [marker EXCEPT !.life = "cleaned"] /\ UNCHANGED kids
      BY <1>3, <2>3, Children DEF Sweep
    <3>2. job' = [job EXCEPT ![p] = new]
      BY <1>3, <2>3, Children DEF Sweep, Goto, TypeOK, Job
    <3>3. new.pc = "confirm" /\ job'[p] = new
      BY <3>2 DEF TypeOK, Job
    <3> HIDE DEF new
    <3>4. kids = {"results"}
      BY <1>1, <2>1, <2>3, SweptLeaves DEF Stage
    <3>5. /\ marker'.life = "cleaned" /\ marker'.workers = marker.workers
          /\ marker'.manifest = marker.manifest
      BY <3>1 DEF TypeOK, Marker
    <3>6. Accepted'
      BY <1>1, <3>1, <3>4, <3>5 DEF Accepted, Owned, Finalized, LayoutValid
    <3>7. Sound(p)'
      BY <3>3, <3>6 DEF Sound, At
    <3> QED BY <1>1, <3>2, <3>3, <3>7, SoundFrame DEF Unblamed, Busy
  <2> QED BY <2>2, <2>3
<1> QED BY <1>2, <1>3

LEMMA SoundKill ==
  ASSUME IInv, Unblamed, AtMostOne, NEW p \in Process, Kill(p), causes' = {}
  PROVE  Unblamed'
<1> USE DEF IInv
<1>1. /\ Done(p) /\ UNCHANGED <<marker, kids, evidence>> /\ ~torn'
      /\ At(p, "lock") \/ At(p, "mark") \/ Runs(p, {"cleanup"})
  BY DEF Kill, Unblamed, At
<1>2. Busy(p) => At(p, "mark") \/ At(p, "sweep") \/ At(p, "confirm")
  <2> SUFFICES ASSUME Busy(p), Runs(p, {"cleanup"})
               PROVE  At(p, "mark") \/ At(p, "sweep") \/ At(p, "confirm")
    BY <1>1 DEF Busy, At
  <2>1. job[p].pc \in Step /\ Stage(p)
    BY DEF TypeOK, Job
  <2> QED BY <2>1 DEF Step, Stage, AtWork, BeforePublish, Runs, Marking, At, Busy
<1>3. Busy(p) => Intact
  BY <1>2 DEF Unblamed, Sound, At, Intact
<1> QED BY <1>1, <1>3, SoundDone

LEMMA SoundInit == Init => SoundInv
<1> SUFFICES ASSUME Init PROVE SoundInv
  OBVIOUS
<1>1. ~torn /\ marker.life = "none" /\ \A p \in Process : job[p].pc = "idle"
  BY DEF Init, NoMarker, Resting
<1> QED BY <1>1 DEF SoundInv, Unblamed, Intact, Sound, At

LEMMA SoundStep ==
  ASSUME IInv, SoundInv, AtMostOne, AtMostOne', [Next]_vars
  PROVE  SoundInv'
<1> SUFFICES ASSUME causes' = {} PROVE Unblamed'
  BY DEF SoundInv
<1>1. CASE UNCHANGED vars
  <2>1. /\ Unblamed /\ UNCHANGED <<job, marker, kids, evidence, torn>>
    BY <1>1 DEF SoundInv, vars
  <2>2. (AtRest => Intact)'
    BY <2>1 DEF Unblamed, AtRest, Busy, Intact, Accepted, Owned, Finalized, LayoutValid
  <2>3. \A p \in Process : Sound(p)'
    BY <2>1 DEF Unblamed, Sound, At, Runs, Intact, Accepted, Owned, Finalized, LayoutValid,
      Publishable, Publishes
  <2> QED BY <2>1, <2>2, <2>3 DEF Unblamed
<1>2. ASSUME NEW p \in Process, Fallback(p) PROVE FALSE
  BY <1>2 DEF Fallback, Blame
<1>3. CASE Next
  <2>1. PICK p \in Process : (\E cmd \in Command : Begin(p, cmd)) \/ Continue(p) \/ Kill(p)
    BY <1>3 DEF Next
  <2>2. causes = {}
    BY <2>1 DEF Continue, Begin, Lock, Mark, Work, WorkDone, WorkFailed, Abort, Verdict, Check,
      Hash, Publish, Confirm, Sweep, Kill, Fallback, Raise, Blame, BlameNone
  <2>3. Unblamed
    BY <2>2 DEF SoundInv
  <2> QED BY <1>2, <2>1, <2>3, SoundBegin, SoundLock, SoundMark, SoundWork, SoundAbort,
        SoundVerdict, SoundCheck, SoundHash, SoundPublish, SoundConfirm, SoundSweep, SoundKill
        DEF Continue, IInv
<1> QED BY <1>1, <1>3

\* A root that no command accepts any more, while none is running, had a
\* process killed, an error while its evidence was finalized, or results
\* written into it after it was no longer ready.
THEOREM StrandedHasCause == ASSUME AllDisciplined PROVE Spec => []StrandedOnlyBy
<1>1. Init => SoundInv
  BY SoundInit
<1>2. IInv => AtMostOne
  BY OneBusyAtMost
<1>3. Spec => []IInv
  BY Invariance
<1>4. IInv /\ SoundInv /\ AtMostOne /\ AtMostOne' /\ [Next]_vars => SoundInv'
  BY SoundStep
<1>5. IInv /\ SoundInv => StrandedOnlyBy
  <2> SUFFICES ASSUME SoundInv, Active = {}, marker.life # "none", ~Accepted, causes = {}
               PROVE  FALSE
    BY DEF StrandedOnlyBy
  <2>1. AtRest
    BY DEF Active, AtRest, Busy, At
  <2> QED BY <2>1 DEF SoundInv, Unblamed, Intact
<1> QED BY <1>1, <1>2, <1>3, <1>4, <1>5, PTL DEF Spec

-----------------------------------------------------------------------------
(* Every command ends, and nothing but a failure stops a cleanup: what of   *)
(* CleanupFinishes is a matter of safety.  The first part holds for every   *)
(* deployment.                                                              *)

\* A bound on the steps that a command has still to take.  Retiring a root
\* hashes and publishes a second time, which it does only once.
Rank(j) ==
  CASE j.pc = "lock"     -> 13
    [] j.pc = "mark"     -> 12
    [] j.pc = "work"     -> 11
    [] j.pc = "sweep"    -> 12 - j.next
    [] j.pc = "verdict"  -> 10
    [] j.pc = "check"    -> 9
    [] j.pc = "hash"     -> IF j.mark.life = "interrupted" THEN 4 ELSE 8
    [] j.pc = "publish"  -> IF j.mark.life = "interrupted" THEN 3 ELSE 7
    [] j.pc = "confirm"  -> IF j.mark.life = "interrupted" THEN 2 ELSE 6
    [] j.pc = "abort"    -> 5
    [] j.pc = "fallback" -> 1
    [] j.pc = "idle"     -> 0

Lower(p) == Rank(job'[p]) < Rank(job[p])

AbortRetired == \A p \in Process : At(p, "abort") => job[p].mark.life = "interrupted"

LEMMA RankBounded == \A j \in Job : Rank(j) \in 0 .. 13
BY DEF Rank, Job, Step

\* The step of a command to the point pc with the marker m in its memory.
LEMMA Moved ==
  ASSUME TypeOK, NEW p \in Process, NEW pc \in Step, NEW m \in Marker, GotoWith(p, pc, m)
  PROVE  /\ job'[p].pc = pc /\ job'[p].mark = m /\ job'[p].next = job[p].next
         /\ \A q \in Process \ {p} : job'[q] = job[q]
BY DEF GotoWith, TypeOK, Job

LEMMA MovedOn ==
  ASSUME TypeOK, NEW p \in Process, NEW pc \in Step, Goto(p, pc)
  PROVE  /\ job'[p].pc = pc /\ job'[p].mark = job[p].mark /\ job'[p].next = job[p].next
         /\ \A q \in Process \ {p} : job'[q] = job[q]
BY DEF Goto, TypeOK, Job

LEMMA Ended ==
  ASSUME TypeOK, NEW p \in Process, Done(p)
  PROVE  /\ job'[p].pc = "idle" /\ \A q \in Process \ {p} : job'[q] = job[q]
BY DEF Done, TypeOK, Resting

\* What a step of p is to show: it lowers the rank of p, retires the root if
\* it goes to the handler, and leaves the others alone.
Advances(p) ==
  /\ Lower(p)
  /\ (At(p, "abort") => job[p].mark.life = "interrupted")'
  /\ \A q \in Process \ {p} : job'[q] = job[q]

LEMMA EndAdvances ==
  ASSUME TypeOK, NEW p \in Process, ~At(p, "idle"), Done(p)
  PROVE  Advances(p)
<1>1. job'[p].pc = "idle" /\ \A q \in Process \ {p} : job'[q] = job[q]
  BY Ended
<1>2. Rank(job'[p]) = 0
  BY <1>1 DEF Rank
<1>3. Rank(job[p]) > 0
  <2>1. job[p].pc \in Step \ {"idle"} /\ job[p].next \in 1 .. 5
    BY DEF TypeOK, Job, At
  <2> QED BY <2>1 DEF Rank, Step
<1> QED BY <1>1, <1>2, <1>3 DEF Advances, Lower, At

LEMMA RaiseAdvances ==
  ASSUME TypeOK, NEW p \in Process, job[p].pc \in {"check", "hash", "publish", "confirm"}, Raise(p)
  PROVE  Advances(p)
<1>1. CASE Runs(p, Marking) /\ job[p].mark.life = "interrupted"
  <2>1. Goto(p, "fallback")
    BY <1>1 DEF Raise
  <2>2. job'[p].pc = "fallback" /\ \A q \in Process \ {p} : job'[q] = job[q]
    BY <2>1, MovedOn DEF Step
  <2>3. Rank(job'[p]) = 1 /\ Rank(job[p]) > 1
    BY <2>2 DEF Rank
  <2> QED BY <2>2, <2>3 DEF Advances, Lower, At
<1>2. CASE Runs(p, Marking) /\ job[p].mark.life # "interrupted"
  <2>1. GotoWith(p, "abort", Retired(job[p].mark))
    BY <1>2 DEF Raise
  <2>2. Retired(job[p].mark) \in Marker /\ Retired(job[p].mark).life = "interrupted"
    BY DEF Retired, TypeOK, Job, Marker, Life
  <2>3. /\ job'[p].pc = "abort" /\ job'[p].mark.life = "interrupted"
        /\ \A q \in Process \ {p} : job'[q] = job[q]
    BY <2>1, <2>2, Moved DEF Step
  <2>4. Rank(job'[p]) = 5 /\ Rank(job[p]) > 5
    BY <1>2, <2>3 DEF Rank
  <2> QED BY <2>3, <2>4 DEF Advances, Lower, At
<1>3. CASE ~Runs(p, Marking)
  BY <1>3, EndAdvances DEF Raise, At
<1> QED BY <1>1, <1>2, <1>3

LEMMA ContinueAdvances ==
  ASSUME TypeOK, AbortRetired, NEW p \in Process, Continue(p)
  PROVE  Advances(p)
<1>0. job[p] \in Job /\ job[p].mark \in Marker /\ job[p].next \in 1 .. 5
  BY DEF TypeOK, Job
<1>1. CASE Lock(p)
  <2>1. CASE Done(p)
    BY <1>1, <2>1, EndAdvances DEF Lock, At
  <2>2. CASE ~Done(p)
    <3>1. PICK pc \in {"mark", "work", "verdict"} : Goto(p, pc)
      BY <1>1, <2>2 DEF Lock, LockCapture, LockCase, LockReplay
    <3>2. job'[p].pc = pc /\ \A q \in Process \ {p} : job'[q] = job[q]
      BY <3>1, MovedOn DEF Step
    <3>3. Rank(job[p]) = 13 /\ Rank(job'[p]) < 13
      BY <1>1, <3>2 DEF Rank, Lock, At
    <3> QED BY <3>2, <3>3 DEF Advances, Lower, At
  <2> QED BY <2>1, <2>2
<1>2. CASE Mark(p)
  <2>1. CASE Done(p)
    BY <1>2, <2>1, EndAdvances DEF Mark, At
  <2>2. CASE ~Done(p)
    <3>1. PICK pc \in {"sweep", "work"} : GotoWith(p, pc, Announced(p))
      BY <1>2, <2>2 DEF Mark
    <3>2. Announced(p) \in Marker
      BY <1>0 DEF Announced, Marker, Life
    <3>3. /\ job'[p].pc = pc /\ job'[p].next = job[p].next
          /\ \A q \in Process \ {p} : job'[q] = job[q]
      BY <3>1, <3>2, Moved DEF Step
    <3>4. Rank(job[p]) = 12 /\ Rank(job'[p]) < 12
      BY <1>0, <1>2, <3>3 DEF Rank, Mark, At
    <3> QED BY <3>3, <3>4 DEF Advances, Lower, At
  <2> QED BY <2>1, <2>2
<1>3. CASE Work(p)
  <2>0. Rank(job[p]) = 11
    BY <1>3 DEF Work, At, Rank
  <2>1. CASE Done(p)
    BY <1>3, <2>1, EndAdvances DEF Work, At
  <2>2. ASSUME NEW pc \in {"check", "hash", "abort", "verdict"}, NEW m \in Marker,
               GotoWith(p, pc, m), pc = "abort" => m.life = "interrupted"
        PROVE  Advances(p)
    <3>1. job'[p].pc = pc /\ job'[p].mark = m /\ \A q \in Process \ {p} : job'[q] = job[q]
      BY <2>2, Moved DEF Step
    <3>2. Rank(job'[p]) < 11
      BY <3>1 DEF Rank
    <3> QED BY <2>0, <2>2, <3>1, <3>2 DEF Advances, Lower, At
  <2>3. /\ Settled(p) \in Marker /\ Retired(job[p].mark) \in Marker
        /\ Retired(job[p].mark).life = "interrupted"
    BY <1>0 DEF Settled, Retired, Marker, Life
  <2>4. \A pc \in Step : Goto(p, pc) => GotoWith(p, pc, job[p].mark)
    BY <1>0 DEF Goto, GotoWith, TypeOK, Job
  <2>5. CASE WorkDone(p)
    BY <2>2, <2>3, <2>5 DEF WorkDone
  <2>6. CASE WorkFailed(p)
    BY <1>0, <2>1, <2>2, <2>3, <2>4, <2>6 DEF WorkFailed, Step
  <2> QED BY <1>3, <2>5, <2>6 DEF Work
<1>4. CASE Abort(p)
  <2>1. PICK pc \in {"hash", "fallback"} : Goto(p, pc)
    BY <1>4 DEF Abort
  <2>2. /\ job'[p].pc = pc /\ job'[p].mark = job[p].mark
        /\ \A q \in Process \ {p} : job'[q] = job[q]
    BY <2>1, MovedOn DEF Step
  <2>3. At(p, "abort") /\ job[p].mark.life = "interrupted"
    BY <1>4 DEF Abort, AbortRetired
  <2>4. Rank(job[p]) = 5 /\ Rank(job'[p]) < 5
    BY <2>2, <2>3 DEF Rank, At
  <2> QED BY <2>2, <2>4 DEF Advances, Lower, At
<1>5. CASE Verdict(p)
  <2>1. At(p, "verdict") /\ Goto(p, "check")
    BY <1>5 DEF Verdict
  <2>2. job'[p].pc = "check" /\ \A q \in Process \ {p} : job'[q] = job[q]
    BY <2>1, MovedOn DEF Step
  <2>3. Rank(job[p]) = 10 /\ Rank(job'[p]) = 9
    BY <2>1, <2>2 DEF Rank, At
  <2> QED BY <2>2, <2>3 DEF Advances, Lower, At
<1>6. CASE Check(p)
  <2>0. At(p, "check")
    BY <1>6 DEF Check
  <2>1. CASE Done(p)
    BY <2>0, <2>1, EndAdvances DEF At
  <2>2. CASE Raise(p)
    BY <2>0, <2>2, RaiseAdvances DEF At
  <2>3. CASE GotoWith(p, "hash", marker)
    <3>1. job'[p].pc = "hash" /\ \A q \in Process \ {p} : job'[q] = job[q]
      BY <2>3, Moved DEF Step, TypeOK
    <3>2. Rank(job[p]) = 9 /\ Rank(job'[p]) < 9
      BY <2>0, <3>1 DEF Rank, At
    <3> QED BY <3>1, <3>2 DEF Advances, Lower, At
  <2> QED BY <1>6, <2>1, <2>2, <2>3 DEF Check
<1>7. CASE Hash(p)
  <2>1. CASE Raise(p)
    BY <1>7, <2>1, RaiseAdvances DEF Hash, At
  <2>2. CASE job' = [job EXCEPT ![p].hash = evidence, ![p].pc = "publish"]
    <3>1. /\ job'[p].pc = "publish" /\ job'[p].mark = job[p].mark
          /\ \A q \in Process \ {p} : job'[q] = job[q]
      BY <2>2 DEF TypeOK, Job
    <3>2. At(p, "hash")
      BY <1>7 DEF Hash
    <3>3. Lower(p)
      BY <3>1, <3>2 DEF Lower, Rank, At
    <3> QED BY <3>1, <3>3 DEF Advances, At
  <2> QED BY <1>7, <2>1, <2>2 DEF Hash
<1>8. CASE Publish(p)
  <2>1. CASE Raise(p)
    BY <1>8, <2>1, RaiseAdvances DEF Publish, At
  <2>2. CASE Goto(p, "confirm")
    <3>1. /\ job'[p].pc = "confirm" /\ job'[p].mark = job[p].mark
          /\ \A q \in Process \ {p} : job'[q] = job[q]
      BY <2>2, MovedOn DEF Step
    <3>2. At(p, "publish")
      BY <1>8 DEF Publish
    <3>3. Lower(p)
      BY <3>1, <3>2 DEF Lower, Rank, At
    <3> QED BY <3>1, <3>3 DEF Advances, At
  <2> QED BY <1>8, <2>1, <2>2 DEF Publish
<1>9. CASE Confirm(p)
  BY <1>9, EndAdvances, RaiseAdvances DEF Confirm, At
<1>10. CASE Fallback(p)
  BY <1>10, EndAdvances DEF Fallback, At
<1>11. CASE Sweep(p)
  <2>0. At(p, "sweep") /\ Rank(job[p]) = 12 - job[p].next
    BY <1>11 DEF Sweep, At, Rank
  <2>1. CASE Done(p)
    BY <2>0, <2>1, EndAdvances DEF At
  <2>2. CASE job[p].next <= 4 /\ job' = [job EXCEPT ![p].next = @ + 1]
    <3>1. /\ job'[p].pc = "sweep" /\ job'[p].next = job[p].next + 1
          /\ \A q \in Process \ {p} : job'[q] = job[q]
      BY <2>0, <2>2 DEF TypeOK, Job, At
    <3>2. Rank(job'[p]) = 12 - job'[p].next
      BY <3>1 DEF Rank
    <3>3. 12 - (job[p].next + 1) < 12 - job[p].next
      BY <1>0
    <3>4. Lower(p)
      BY <2>0, <3>1, <3>2, <3>3 DEF Lower
    <3> QED BY <3>1, <3>4 DEF Advances, At
  <2>3. CASE Goto(p, "confirm")
    <3>1. job'[p].pc = "confirm" /\ \A q \in Process \ {p} : job'[q] = job[q]
      BY <2>3, MovedOn DEF Step
    <3>2. Rank(job'[p]) \in {2, 6}
      BY <3>1 DEF Rank
    <3>3. 12 - job[p].next >= 7
      BY <1>0
    <3>4. Lower(p)
      <4>1. job[p].next \in Int
        BY <1>0
      <4> QED BY <2>0, <3>2, <3>3, <4>1 DEF Lower
    <3> QED BY <3>1, <3>4 DEF Advances, At
  <2> QED BY <1>11, <2>1, <2>2, <2>3, Children DEF Sweep
<1> QED BY <1>1, <1>2, <1>3, <1>4, <1>5, <1>6, <1>7, <1>8, <1>9, <1>10, <1>11 DEF Continue

\* No command ever takes more than 13 steps, whatever fails in it and
\* whatever the others do: each lowers its rank, which nobody else changes.
Dwindles ==
  \A p \in Process :
    /\ Rank(job[p]) \in 0 .. 13
    /\ Continue(p) => Lower(p)
    /\ ~At(p, "idle") => Lower(p) \/ job'[p] = job[p]

LEMMA DwindleStep ==
  ASSUME TypeOK, AbortRetired, [Next]_vars
  PROVE  AbortRetired' /\ (Dwindles \/ UNCHANGED vars)
<1>1. CASE UNCHANGED vars
  BY <1>1 DEF vars, AbortRetired, At
<1>2. CASE Next
  <2>1. \A q \in Process : Rank(job[q]) \in 0 .. 13
    BY RankBounded DEF TypeOK
  <2>2. \A q \in Process : Continue(q) => Advances(q)
    BY ContinueAdvances
  <2>3. PICK p \in Process : (\E cmd \in Command : Begin(p, cmd)) \/ Continue(p) \/ Kill(p)
    BY <1>2 DEF Next
  <2>4. CASE \E cmd \in Command : Begin(p, cmd)
    <3>1. PICK cmd \in Command : Begin(p, cmd)
      BY <2>4
    <3>2. /\ At(p, "idle") /\ job'[p].pc = FirstStep(cmd)
          /\ \A q \in Process \ {p} : job'[q] = job[q]
      BY <3>1 DEF Begin, TypeOK, Resting
    <3>3. FirstStep(cmd) # "abort"
      BY DEF FirstStep, Command
    <3> QED BY <2>1, <2>2, <3>2, <3>3 DEF Dwindles, Advances, AbortRetired, At
  <2>5. CASE Continue(p) \/ Kill(p)
    <3>1. Advances(p)
      BY <2>2, <2>5, EndAdvances DEF Kill
    <3> QED BY <2>1, <2>2, <3>1 DEF Dwindles, Advances, AbortRetired, At
  <2> QED BY <2>3, <2>4, <2>5
<1> QED BY <1>1, <1>2

\* Every command of the harness ends unless it is killed or stops being run.
THEOREM CommandsEnd == Spec => [][Dwindles]_vars
<1>1. Init => AbortRetired
  BY DEF Init, AbortRetired, At, Resting
<1>2. TypeOK /\ AbortRetired /\ [Next]_vars => AbortRetired' /\ [Dwindles]_vars
  BY DwindleStep
<1> QED BY <1>1, <1>2, TypeCorrect, PTL DEF Spec

\* A sweep works under the marker that announced it.
SweepAgrees ==
  \A p \in Process : At(p, "sweep") =>
    marker.life = "cleaning" /\ job[p].mark.manifest = marker.manifest

LEMMA SweepAgreesStep ==
  ASSUME IInv, AtMostOne, SweepAgrees, [Next]_vars
  PROVE  SweepAgrees'
<1> USE DEF IInv
<1>1. CASE UNCHANGED vars
  BY <1>1 DEF vars, SweepAgrees, At
<1>2. CASE Next
  <2> SUFFICES ASSUME NEW q \in Process, At(q, "sweep")'
               PROVE  (marker.life = "cleaning" /\ job[q].mark.manifest = marker.manifest)'
    BY DEF SweepAgrees
  <2>1. PICK p \in Process : (\E cmd \in Command : Begin(p, cmd)) \/ Continue(p) \/ Kill(p)
    BY <1>2 DEF Next
  <2>2. CASE p # q
    <3>1. job'[q] = job[q]
      BY <2>1, <2>2 DEF TypeOK, Begin, Continue, Kill, Lock, LockCapture, LockCase, LockReplay,
        Mark, Work, WorkDone, WorkFailed, Abort, Verdict, Check, Hash, Publish, Confirm,
        Fallback, Sweep, Raise, Goto, GotoWith, Done
    <3>2. ~Busy(p)
      BY <2>2, <3>1 DEF AtMostOne, Busy, At
    <3>3. marker' = marker
      BY <2>1, <3>2 DEF Busy, At, root, Begin, Continue, Kill, Lock, Mark, Work, Abort, Verdict,
        Check, Hash, Publish, Confirm, Fallback, Sweep
    <3> QED BY <3>1, <3>3 DEF SweepAgrees, At
  <2>3. CASE p = q /\ Mark(p)
    <3>1. ~Done(p)
      BY <2>3, Ended DEF At
    <3>2. marker' = Announced(p) /\ Announced(p) \in Marker
      BY <2>3, <3>1 DEF Mark, Announced, TypeOK, Job, Marker, Life
    <3>3. PICK pc \in Step : GotoWith(p, pc, Announced(p)) /\ (pc = "sweep" => Runs(p, {"cleanup"}))
      BY <2>3, <3>1 DEF Mark, Step
    <3>4. job'[p].pc = pc /\ job'[p].mark = marker'
      BY <3>2, <3>3, Moved
    <3>5. Runs(p, {"cleanup"})
      BY <2>3, <3>3, <3>4 DEF At
    <3>6. marker'.life = "cleaning"
      BY <3>2, <3>5 DEF Announced, TypeOK, Job, Marker
    <3> QED BY <2>3, <3>4, <3>6
  <2>4. CASE p = q /\ Sweep(p)
    <3>1. ~Done(p)
      BY <2>4, Ended DEF At
    <3>2. ~Goto(p, "confirm")
      BY <2>4, MovedOn DEF At, Step
    <3>3. job' = [job EXCEPT ![p].next = @ + 1] /\ marker' = marker
      BY <2>4, <3>1, <3>2 DEF Sweep
    <3>4. job'[p].mark = job[p].mark /\ At(p, "sweep")
      BY <2>4, <3>3 DEF Sweep, TypeOK, Job
    <3> QED BY <2>4, <3>3, <3>4 DEF SweepAgrees
  <2>5. CASE p = q /\ ~Mark(p) /\ ~Sweep(p)
    <3>1. ~Done(p)
      BY <2>5, Ended DEF At
    <3>2. ASSUME NEW pc \in Step \ {"sweep"}, Goto(p, pc) PROVE FALSE
      BY <2>5, <3>2, MovedOn DEF At
    <3>3. ASSUME NEW pc \in Step \ {"sweep"}, NEW m \in Marker, GotoWith(p, pc, m) PROVE FALSE
      BY <2>5, <3>3, Moved DEF At
    <3>4. ~Raise(p)
      <4>1. Retired(job[p].mark) \in Marker
        BY DEF TypeOK, Retired, Marker, Life, Job
      <4> QED BY <3>1, <3>2, <3>3, <4>1 DEF Raise, Step
    <3>5. ~Work(p)
      <4>1. Settled(p) \in Marker /\ Retired(job[p].mark) \in Marker
        BY DEF TypeOK, Settled, Retired, Marker, Life, Job
      <4> QED BY <3>1, <3>2, <3>3, <4>1 DEF Work, WorkDone, WorkFailed, Step
    <3>6. ~(Lock(p) \/ Abort(p) \/ Verdict(p) \/ Confirm(p) \/ Fallback(p) \/ Kill(p))
      BY <3>1, <3>2, <3>4 DEF Lock, LockCapture, LockCase, LockReplay, Abort, Verdict, Confirm,
        Fallback, Kill, Step
    <3>7. ~(Check(p) \/ Publish(p))
      BY <3>1, <3>2, <3>3, <3>4 DEF Check, Publish, Step, TypeOK
    <3>8. ~Hash(p)
      BY <2>5, <3>4 DEF Hash, At, TypeOK, Job
    <3>9. ASSUME NEW cmd \in Command, Begin(p, cmd) PROVE FALSE
      <4>1. job'[p].pc = FirstStep(cmd)
        BY <3>9 DEF Begin, TypeOK, Resting
      <4> QED BY <2>5, <4>1 DEF At, FirstStep, Command
    <3> QED BY <2>1, <2>5, <3>5, <3>6, <3>7, <3>8, <3>9 DEF Continue
  <2> QED BY <2>2, <2>3, <2>4, <2>5
<1> QED BY <1>1, <1>2

\* The invariants of a disciplined deployment, with what a sweep knows.
CleanupInv == IInv /\ SoundInv /\ SweepAgrees

LEMMA CleanupInvariance == ASSUME AllDisciplined PROVE Spec => []CleanupInv
<1>1. Init => SoundInv
  BY SoundInit
<1>2. Init => SweepAgrees
  BY DEF Init, SweepAgrees, At, Resting
<1>3. IInv => AtMostOne
  BY OneBusyAtMost
<1>4. IInv /\ SoundInv /\ AtMostOne /\ AtMostOne' /\ [Next]_vars => SoundInv'
  BY SoundStep
<1>5. IInv /\ AtMostOne /\ SweepAgrees /\ [Next]_vars => SweepAgrees'
  BY SweepAgreesStep
<1> QED BY <1>1, <1>2, <1>3, <1>4, <1>5, Invariance, PTL DEF Spec, CleanupInv

\* Without a cause the validations inside a cleanup never refuse the root
\* that it is taking apart, and a cleanup that was interrupted, however far
\* it had come, may be started again.
Unobstructed ==
  causes = {} =>
    /\ \A p \in Process : At(p, "sweep") => SweepValid(p)
    /\ Active = {} /\ marker.life \notin {"none", "cleaned"} => MayBegin("cleanup")

\* validate_marker does not stand in the way of cleanup_fixture.
THEOREM CleanupUnobstructed == ASSUME AllDisciplined PROVE Spec => []Unobstructed
<1>1. CleanupInv => Unobstructed
  <2> SUFFICES ASSUME CleanupInv, causes = {} PROVE
        /\ \A p \in Process : At(p, "sweep") => SweepValid(p)
        /\ Active = {} /\ marker.life \notin {"none", "cleaned"} => MayBegin("cleanup")
    BY DEF Unobstructed
  <2>1. Unblamed
    BY DEF CleanupInv, SoundInv
  <2>2. ASSUME NEW p \in Process, At(p, "sweep") PROVE SweepValid(p)
    BY <2>1, <2>2 DEF Unblamed, Sound, At, CleanupInv, SweepAgrees, SweepValid
  <2>3. ASSUME Active = {}, marker.life \notin {"none", "cleaned"} PROVE MayBegin("cleanup")
    <3>1. AtRest
      BY <2>3 DEF Active, AtRest, Busy, At
    <3> QED BY <2>1, <2>3, <3>1 DEF Unblamed, Intact, MayBegin
  <2> QED BY <2>2, <2>3
<1> QED BY <1>1, CleanupInvariance, PTL

\* Without a cause a sweep ends before the root is cleaned only by an I/O
\* error of its own or a kill.
SweepComesThrough ==
  \A p \in Process : causes = {} /\ At(p, "sweep") /\ ~At(p, "sweep")' =>
    marker'.life = "cleaned" \/ faults' > faults \/ kills' > kills

\* cleanup_fixture gives up only for a failure that it meets itself.
THEOREM OnlyFailuresStopCleanup ==
  ASSUME AllDisciplined PROVE Spec => [][SweepComesThrough]_vars
<1>1. ASSUME CleanupInv, [Next]_vars PROVE [SweepComesThrough]_vars
  <2> USE DEF CleanupInv, IInv
  <2> SUFFICES ASSUME Next, NEW q \in Process, causes = {}, At(q, "sweep"), ~At(q, "sweep")'
               PROVE  marker'.life = "cleaned" \/ faults' > faults \/ kills' > kills
    BY <1>1 DEF SweepComesThrough
  <2>1. faults \in Nat /\ kills \in Nat
    BY <1>1 DEF TypeOK
  <2>2. PICK p \in Process : (\E cmd \in Command : Begin(p, cmd)) \/ Continue(p) \/ Kill(p)
    BY DEF Next
  <2>3. CASE Kill(p)
    BY <2>1, <2>3 DEF Kill
  <2>4. CASE p # q /\ ~Kill(p)
    <3>1. job'[q] = job[q]
      BY <1>1, <2>2, <2>4 DEF TypeOK, Begin, Continue, Lock, LockCapture, LockCase, LockReplay,
        Mark, Work, WorkDone, WorkFailed, Abort, Verdict, Check, Hash, Publish, Confirm,
        Fallback, Sweep, Raise, Goto, GotoWith, Done
    <3> QED BY <3>1 DEF At
  <2>5. CASE p = q /\ ~Kill(p)
    <3>1. Sweep(p)
      BY <2>2, <2>5 DEF At, Begin, Continue, Lock, Mark, Work, Abort, Verdict, Check, Hash,
        Publish, Confirm, Fallback
    <3>2. SweepValid(p)
      BY <1>1, <2>5 DEF SoundInv, Unblamed, Sound, At, SweepAgrees, SweepValid
    <3>3. CASE Fault
      BY <2>1, <3>3 DEF Fault
    <3>4. CASE ~Fault /\ job[p].next <= 4
      <4>1. job' = [job EXCEPT ![p].next = @ + 1]
        BY <3>1, <3>2, <3>4, Children DEF Sweep
      <4> QED BY <1>1, <2>5, <4>1 DEF At, TypeOK, Job
    <3>5. CASE ~Fault /\ ~(job[p].next <= 4)
      <4>1. marker' = [marker EXCEPT !.life = "cleaned"]
        BY <3>1, <3>2, <3>5, Children DEF Sweep
      <4> QED BY <1>1, <4>1 DEF TypeOK, Marker
    <3> QED BY <3>3, <3>4, <3>5
  <2> QED BY <2>3, <2>4, <2>5
<1> QED BY <1>1, CleanupInvariance, PTL DEF Spec
=============================================================================
