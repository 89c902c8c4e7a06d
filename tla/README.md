# A TLA+ model of the Codex multi-agent workflow tools

The repository is a package of rules, agent definitions and Python scripts that
is installed into other repositories, and a harness that validates the package
against the live Codex CLI. What keeps state, and can lose somebody's work or
give a wrong verdict, are the scripts under `scripts/`: an installer with a
crash-safe transaction engine, an append-only timeline ledger, the harness that
owns throw-away fixtures, and the code that turns what a session left behind
into verdicts. This directory specifies them in TLA+, checks small instances
with TLC and proves the main properties with TLAPS for all instances. Paths
below are relative to the repository. In `scripts/`, `wm` is
`workflow_manager.py`, `lvs` `live_validation_support.py`, `rlbc`
`run_live_behavior_case.py`, `cle` `capture_live_event.py` and `cea`
`codex_event_adapter.py`.

Contents: [inventory](#inventory), [modules](#modules),
[runs](#runs-and-bounds), [proofs](#proofs),
[disagreements](#where-code-and-documents-disagree), [deviations](#deviations),
[limits](#limits), [plan](#plan).

## Inventory

| component | state it keeps | operations | what is hard | what makes it correct |
|---|---|---|---|---|
| transaction engine (`wm` 1242-2239, 2517-2687) | journal, backups, files, directories | prepare directories, back up, apply, verify, commit, roll back, clean up, recover | a crash at any point, an I/O error, the user editing between a crash and its recovery, recoveries that crash | all files change or none; evidence precedes change; foreign content and directories survive; recovery ends |
| installer, uninstaller (`wm` 2242-2473, 2690-2806) | state manifest, managed files, AGENTS.md block, retained backups | install, update, full and partial uninstall | long sequences of legal commands, features switched on and off, edited, deleted and pre-existing files | the manifest accounts for everything installed; user files stay; a backup lives exactly as long as its record; commands converge |
| manifest reader (`wm` 883-1105) | none | accept or refuse the manifest | accepting everything the writers write | no reachable manifest is refused for good |
| repository adapters (`wm` 235-332, `windows_handle_fs.py`) | open handles | hash, read, atomic write, mkdir, rmdir, unlink | links, races with path components | one step per call, as the engine assumes |
| timeline ledger (`timeline_collector.py`, `timeline_schema.py`, `timeline_cli.py`) | a JSONL file, open turns | start, finish, record, recover, prune | commands run as separate processes, without a lock; clocks that step back; pruning | the ledger stays readable; turns open and close once, with their own attributes |
| timeline exporter, redactor | none | render, redact | none | formatting only |
| live capture and owned fixtures (`lvs` 380-1160, `cle`, commands of `rlbc`) | ownership marker, children of the root, results, evidence manifest, run lock | create, run, capture, case, replay, report, clean up | a process that dies while it is listed as active; interrupted cleanup; commands that publish a marker they read long ago | no command works in a root that another takes apart; results are never deleted; a root is lost only by named causes; cleanup ends |
| live summary and report (`lvs` 1160-1837) | none between calls | aggregate events, validate a summary, make the report | missing, repeated, foreign and contradictory records; evidence that goes away in between | nothing that was read disappears; no PASS without evidence; aggregation never makes what validation refuses |
| behavior cases (`rlbc`) | kept attempts, streams and verdicts | run a case, link it to the private rollouts, decide, publish, replay | the fixture changes at any moment; the order of rows in a session log; half-written evidence; a retry of what was decided | a PASS is earned by one attempt, final, and not overturned by a replay |
| event adapter (`cea`) | parent and children of a session while a stream is folded | read an event stream, judge a captured fixture | order of spawn and thread events, repeated and conflicting claims | one session never plays two roles; an accepted stream is coherent |
| role compliance, orchestration, routing, git authorization | none | verdicts over evidence | precedence of verdicts | FAIL is not masked by a weaker verdict |
| rollout reconciliation and projections | none | correlate two files | none | offline |
| compatibility registry | none | strict parse and lookup | none | sequential |
| evidence validators, live preflight, L7 fixture, report rendering | none to speak of | validate or render files | none | sequential |
| shell wrappers | none | find Python, pass arguments | none | out of scope |

How they interact. `install.sh` and `uninstall.sh` start `wm`, whose `main`
runs one of install, uninstall and recover. Install and uninstall read the
manifest, *plan* a list of actions (write or delete one file each, the manifest
last) and hand it to the *engine*, which journals, backs up and applies it. The
journal file is the only lock: install and uninstall refuse to start while it
exists, and `--recover` is the only command that reads it. After the engine's
commit the uninstaller reads the manifest again to decide which backups and
directories go. The timeline scripts are installed as package files, but keep
their ledgers outside the managed directories and share nothing with the
installer.

The live harness works in a *run root* that it created and marked itself.
`lvs` creates, runs, reports on and removes roots; `cle` captures one CLI
session in a root and passes the stream to the *event adapter*, whose result the
*role*, *routing* and *fixture* verdicts consume; `rlbc` runs *behavior cases*
in the fixture of a root, keeps every attempt in its results and judges it with the
private rollouts (session logs) that the CLI leaves elsewhere. What the cases
record becomes events of a run, which `lvs` folds into the *summary* and the
*report*. The commands meet in the root's marker, the run lock and the results.

PROJECT.json lists the components with their status, and every hazard with the
line where it bites and the property that covers it. Nine hazards have no property:
what the code does there is what the hazard says, or the model leaves the case out,
and each has a note that says which.

## Modules

```
AtomicTransaction            what a transaction promises
   ^ refined by
InstallerTransaction         the engine: one transaction, crash to crash
   ^ EXTENDS                    InstallerTransaction_proofs   theorems (TLAPS)
MCInstallerTransaction       TLC instances

InstallerLifecycle           many installs and uninstalls over one manifest
   ^ EXTENDS                    InstallerLifecycle_proofs     theorems (TLAPS)
MCInstallerLifecycle         TLC instance

TurnHistory                  what a timeline promises about its turns
   ^ refined by
TimelineLedger               commands over one ledger file (its own TLC instance)
   ^ EXTENDS
TimelineLedger_proofs        theorems (TLAPS)

FixtureLife                  the life of a run root, seen from outside
   ^ refined by
OwnedFixture                 seven commands on one root, lock, marker, results
   ^ EXTENDS
OwnedFixture_proofs          theorems (TLAPS)
   ^ EXTENDS
MCOwnedFixture               TLC instances

EventStream                  the adapter: one pass over a session's events
   ^ EXTENDS                    EventStream_proofs   theorems (TLAPS)
RoleEvidence                 the verdicts drawn from its result
   ^ EXTENDS                    RoleEvidence_proofs  theorems (TLAPS), which
                                EXTENDS EventStream_proofs too
MCRoleEvidence               TLC instance

PrivateLink                  when a pair of private rollouts proves a case
   ^ EXTENDS
BehaviorCase                 cases and replays in a changing fixture
   ^ EXTENDS                    BehaviorCase_proofs   theorems (TLAPS)
MCBehaviorCase               TLC instance

LiveSummary                  events of a run, their summary, the report
   ^ EXTENDS                    LiveSummary_proofs   theorems (TLAPS)
MCLiveSummary                TLC instance
```

The installer's two levels meet in the atomic transaction. `InstallerTransaction`
shows that a plan of actions takes effect all at once or not at all, whatever the
plan; `InstallerLifecycle` takes one install, or one uninstall up to its commit,
as one step, and shows what sequences of such steps do. An uninstall's cleanup is
a step of its own there (`Finalize`), because the code reads the manifest afresh
in it and because a crash can put a user's edit before it. The harness's levels
meet in the results: `OwnedFixture` says who may change them and when, with a
version number for their content; `BehaviorCase` is what one `case` or
`replay` of `OwnedFixture` does there, and since both hold the run lock while
they do, `BehaviorCase` runs one at a time.

### InstallerTransaction

One transaction, from `_prepare_relative_actions` to the removal of its journal.

* *Data.* A file is what its SHA-256 tells apart: a `Content`, or `Absent`. A
  directory is `missing`, `recorded` (the one whose identity the journal has) or
  `replaced` by another of the same name; `occupied` directories hold something
  foreign. `disk[i]` and `bak[i]` are the file and the backup of action `i`. The
  index order is the order in which the code applies the actions.
* *The journal* is rewritten by an atomic replacement, so its fields are the
  variables `jphase`, `pending`, `created` and `mark`, and they change together
  in the steps that rewrite it. A crash leaves them and loses `process`.
* *The process* is a program counter and the loop variables. Each point at which
  the code can die with something different on the disk is a step boundary:
  `mkdir` and the record of its identity are two steps, a checkpoint and the
  replacement of the file are two steps, and the hash check after it a third.
* *Actions.* `WriteJournal`, `MakeDirectory`, `RecordDirectory`,
  `FinishPreparation` (`_prepare_transaction_directories`); `BackUp`
  (`_prepare_backups`); `StartApply`, `Checkpoint`, `Mutate`, `Verify`,
  `ApplyFails`, `Commit` (`_apply_relative_actions`); `BeginRollback`,
  `UndoNothing`, `UndoCheckpoint`, `Restore`, `UndoVerify`, `UndoRefused`
  (`_rollback_relative_actions`); `DiscardBackup`, `RemoveCreated`
  (`_complete_rollback_cleanup`); `PurgeBackup`, `SweepDirectory`,
  `UnlinkJournal`, `RemoveStateBackup` (cleanup after the commit);
  `RecoverByRollback`, `RecoverByCleanup` (`_recover_with_adapter`); `Crash`,
  which also stands for an I/O error that nothing catches; and the user's
  `OfflineEdit`, while no process runs, and `OnlineEdit`.
* *Plans* is a constant, so what is proved holds for any plan a planner could
  hand to the engine, not only for those of today's installer.

### InstallerLifecycle

The state is the tree, AGENTS.md (its own text and one managed block), the
directories, the manifest and the backups on the disk. `Install(v, agents)`
translates `_install_with_adapter` for package version `v` with or without
custom agents: the sets `Missing`, `Outdated`, `Current`, `Adopted` and `Forgotten`
are the branches of its loop over the files, `NewAgentsMd` and
`NewAgentsRecord` are `_install_agents_content` and the backup assigned after it,
and `Conflict` lists the errors raised before anything is written. `Uninstall` is
`_uninstall_with_adapter` up to the commit, `Finalize` is
`_finalize_committed_uninstall`, `Readable` what `_read_state` demands.

Backups are followed file by file and not computed from the manifest: an action that
replaces or deletes an existing file makes one, also of the manifest itself and of an
older backup that it deletes (`ActionBackups`); the planner deletes those that the old
manifest lists and the new one does not (`Obsolete`); an install then purges the
copies of the manifest and of deleted backups (`CommitCleanup`), an uninstall all the
copies its journal names (`copies`) and what the old manifest listed
(`Prerequisites`). That what is left is what the manifest lists is `SavedExact`.

`UserEdits` writes, deletes and edits files, and makes, removes and fills directories,
recorded ones included. A directory that the user removed or made anew while a
manifest records it is in `replaced`: its recorded identity is gone for good. Then
`_read_state` refuses the manifest (`wm` 1079-1099), and so does every command;
`ManifestDirsPresent` says that no command brings this about by itself. A resumed
cleanup compares identities too: at the first candidate of another identity
`repository.rmdir` raises a WorkflowError, which `except OSError` (`wm` 2549) lets
through (`Mismatched`, `FinalizeRefused`), and the journal and the manifest's copy stay
until a later recovery. `RecordedDirsOwned` is about the directory that stood in its way.
Variables marked *history* (`mine`, `theirs`, `made`, `calm`, `disturbed`) record who
did what and influence nothing.

### TimelineLedger

The ledger is a sequence of events; an event is its turn, whether it closes the
turn, its start and emission times, and the command whose stage, role and models
it carries. A command (`start`, `record`, `finish`, a recovery, a pruning) is a
job in a process and takes one step for each time it reads the file, takes the
time or writes: `Begin` is the first read, `Restore` the second read of a
`finish` (`complete_turn`), `Stamp` the time, `Validate` and `AppendEvent` the two
halves of `record_event`, `Retain` and `Replace` those of `prune_ledger`. `Crash`
kills a command between any two of them and `SetClock` sets the machine's clock
to anything. `TurnHistory` is the abstract specification: a turn is opened once,
closed once, and forgotten, but never reopened.

### OwnedFixture

* *State.* `marker` is `ownership.json`: the lifecycle, the active workers and the
  digest of the evidence manifest. `kids` are the top-level children of the
  root. `evidence` counts the changes of the results, so a manifest is the version
  it was made of and is stale when they differ. `lock` is the run lock; `torn`
  says that a kill left a temporary file of the marker, which the layout
  check refuses. `causes` is a history of what may make a root unacceptable.
* *Commands.* Each is a process with a program counter: `Begin` is its own
  validation, `Lock` the run lock that only capture, case and replay take,
  `Mark` the marker that announces the work, `Work` the work, `Abort` and
  `Fallback` the exception handlers, `Verdict` the blocked record that a refused
  replay writes, `Check`, `Hash`, `Publish` and `Confirm` the parts of
  `finalize_evidence`, and `Sweep` one child of a cleanup. Any of them may raise
  an I/O error, and `Kill` ends a process between any two of them.
* *Deployments* is a constant: which process runs which command. The properties
  are about disciplined ones, in which either one process works at a time or
  only captures and cases, which hold the lock for all their work, run at once;
  `fixture_replay` shows what an undisciplined one does.
* `FixtureLife` is the abstract specification: a root is built while it is
  running, taken apart only while it is cleaning, never comes back, and keeps its
  results.

### EventStream and RoleEvidence

`EventStream` reads one line per step. A line is the fields the adapter looks at;
whatever is wrong is a code in `reasons`, and reading goes on, as in the code.
`ThreadStarted`, `AgentSpawned`, `CollaborationSpawn`, `CollabToolCall`, `BadLine`
and `TurnCompleted` are the branches of `parse_event_stream`, `Complaints` and
`Attributed` are `_record_attribution`, `CallFaults` is the validation of a
`collab_tool_call`, and `Finish` the corrections after the last line. `claims` and
`threads` are histories of what the stream asked for. `RoleEvidence` adds the
functions that judge the result: `RoleVerdict` (`evaluate_role`), `Overall`
(`build_role_evidence`), `RoutingVerdict` and `FixtureReasons`
(`validate_captured_fixture`); their other arguments (snapshots, scopes,
authorization, a manifest's faults) are quantified in the properties.

### PrivateLink and BehaviorCase

`PrivateLink` models a pair of private rollouts, the parent's and the child's, by
what the checks of `rlbc` 560-1490 tell apart: the order of the child's rows, the
settings in its turn contexts, which tool calls are the ones the case asks for,
and the parent's sandbox. `LinkAccepted` is what must hold for the pair to prove
that the case was played by its role; every field's form is one Boolean. `Kind`
gives what a case asks of its role. `BehaviorCase` is the life of a case:
`Begin` (preparing its file), `ReadConfiguration`, `Launch` (first snapshot, after
which the settings may have changed already), `EndCli` (second
snapshot and receipt), `Link`, `Decide`, `WriteStream`, `WriteOutput`; `Replay`
judges a kept attempt again without a CLI; `Change` is the agent or anybody else
in the fixture, at any moment; `Fault` an I/O error. `decided`, a ghost, remembers
what a case decided on an attempt even if it failed to publish it.

### LiveSummary

`Read` folds one event, `Summarise` completes and validates the summary,
`Report` makes the report with the evidence files as they are then, and
`FileChanges` takes an evidence file away, puts it back or makes it a link. A record is its status,
result, exit code and the set of its fields that are filled in;
`validate_case_record` keeps the code's name.

## Runs and bounds

State counts are distinct states found by TLC.

| run | question | result |
|---|---|---|
| `transaction_crash` | three crashes or I/O errors anywhere in an install, an update, and full and partial uninstalls: write-ahead, order, no trace after rollback, foreign directories, and every journal is resolved in the end | passes, 55 thousand |
| `transaction_edits` | two crashes and one edit by the user before recovery: inductive invariant (`ProgressInv`), all-or-nothing, foreign content, finality of the commit, refinement of `AtomicTransaction` | passes, 335 thousand |
| `transaction_cleanup` | an update and a partial uninstall that delete an obsolete backup, while the user saves a file beside the running engine: the cleanup leaves exactly the right backups however often it is interrupted | passes, 576 thousand |
| `transaction_online_replace` | is a file that appears at a path the plan found absent ever overwritten? | violation |
| `lifecycle_edits` | any commands, two versions, two user edits: ownership, backups as they are made and purged, user files, recorded directories and those made in their place, convergence | passes, 378 thousand |
| `lifecycle_features` | can the cleanup read the manifest of its own uninstall? | violation |
| `timeline_single` | one writer, dying commands, a clock that jumps, retention: readable ledger, no two turns under one id in it, their attributes, complete recovery, refinement of `TurnHistory` | passes, 433 thousand |
| `fixture_commands` | any commands in turn, and captures and cases at once, with two I/O errors and a kill: announced workers, the causes that strand a root, refinement of `FixtureLife`, and cleanup that ends | passes, 57 thousand |
| `fixture_replay` | does a worker stay announced beside a replay? | violation |
| `evidence` | every stream of up to four lines of every kind, with every verdict over it: roles apart, coherence, and what a PASS means | passes, 247 thousand |
| `behavior` | cases and replays in a fixture that others change, with an I/O error anywhere: a PASS is earned, final and not overturned | passes, 1.70 million |
| `summary` | every stream of up to three events, with files that come and go: nothing gets lost, no PASS without evidence, no refusal but over what an event itself says | passes, 342 thousand |

*Transaction bounds.* Three actions are the fewest with a first, a middle and a
last one, in which the last is the state manifest: package file, template in a
directory of its own, manifest. The plans of `MCInstallerTransaction` contain every kind of
action (create, replace, delete, delete of a file already gone), first, and in
the middle, and each thing that can happen to the manifest.
The directories are a package directory, a documentation directory, the backup
root and the transaction's own directory below it; each may exist beforehand,
and be occupied or not. Three failures allow a crash of the run, a crash of its
recovery and a third failure in the recovery of that; a fourth would meet the
same journal phases again. One edit may hit any file, backup or directory
(`MaxEdits`, `MaxFailures`). Before a recovery is when `Spec` lets the user edit;
`transaction_cleanup` and `transaction_online_replace` run `OnlineSpec`, in which
the user also edits files while the engine works.

*Lifecycle bounds.* One file of each kind (package file, template, custom agent)
because every branch looks at one file at a time and they meet only in the
manifest; two versions, interchangeable (symmetry), so that an update and a
downgrade exist; one text that is neither; two edits (of AGENTS.md, an edit
changes the text or the block), which suffice to modify one file and delete
another, or to make a file the installer adopts and delete it again; or to remove
a recorded directory and make it again, before a cleanup is resumed, which is then
refused. Undoing that takes a third edit, which the proofs have and the run has
not. Four directories include a nested pair, one that only custom agents need and
the two that every uninstall sweeps. Commands are not bounded: `MaxTransaction` is
five because at most four backups are retained, so a new id is always left.

*Timeline bounds.* Five commands allow two turns to be opened, one of them to be
closed, and a recovery or a pruning in between; four turn ids, so that one may be
recorded by hand ahead of the others; three clock values and a retention age of
one, so that an event may be young, old, or in the future; retention of three
events, fewer than five commands write. There is one process, as
CODEX_WORKFLOW.md:141 makes the root the only writer of a ledger; what two do is
under [deviations](#deviations).

*Fixture bounds.* Two processes are the fewest that can overlap. Eight versions of
the results let three commands change them twice each (`Room`), two I/O errors let
a command fail and its handler fail too, and one kill suffices to strand a root;
a restart of the killed command is a new `Begin`. `MCDeployments` contains the
sequential use, in which one process runs all seven commands in any order, and
the concurrent one.

*Evidence bounds.* Three roles are one of each kind the verdicts treat
differently: read-only, writer, publisher. Four sessions are one more than a
coherent stream of all three needs. Four lines hold a parent and three
claims, the smallest complete stream, and every way to get one of them wrong;
sessions are interchangeable. The verdicts' other arguments are quantified in
full over one path.

*Behavior bounds.* Two attempts, two changes and one I/O error allow a failed
attempt, a change, a replay of it and a new attempt. The five cases are a
read-only inspection, a writer, a validator, a settings case and a manifest case;
each has the pairs that its checks must tell apart, for L6 one with the right
order, one that calls tools too early, and one that ran under settings not
installed. The kinds *challenge*, *shell* and *routing* and the
manifest case's narrower parent are modelled, but no pair of the run is of that kind.

*Summary bounds.* Three events of one case or two reach every pair of first and
repeated, valid and invalid, own and foreign; a fourth is treated like the third.

*Deadlock.* A transaction ends, and a recovery that refuses waits for a human; a
refused manifest stops every command (`lifecycle_features`) once the edits are used
up; a stranded root, a spent bound on attempts, a stream that was read and a
report that was made end their models too. So all runs but `timeline_single` switch
the deadlock check off.

*Fairness.* `InstallerTransaction!FairSpec` has weak fairness of `ProcessStep`,
since a process that is not killed goes on, and of `Recover`, since both other
commands refuse to start while a journal is there and name `--recover` in the
error. The number of crashes is bounded, so neither assumption hides one.
`Resolved` excludes one state on purpose: after a death between a directory's
`mkdir` and its record, or with a journal whose preparation never finished,
`_recover_with_adapter` refuses (`wm` 2150-2153) on every attempt; that is what
the code does, the property names it and the hazard list points to it.
`OwnedFixture!FairSpec` has weak fairness of every process's next step, and of
`Begin(p, "cleanup")`: nothing in the code restarts a cleanup, its owner does,
and `CleanupFinishes` says that restarting it suffices.

*Mutants.* Definitions marked `(mutant)` are plausible mistakes in the definition
that follows them: a journal written after the change, a recovery that always
rolls back, a cleanup that deletes every backup, a capture that does not try the
lock, a stream whose late parent is not corrected, a report that does not look
for the evidence again. PROJECT.json pairs each property with one that breaks it.

## Proofs

TLAPS proves the following for all values of the constants that satisfy the
named assumptions: any number of files, directories, roles, sessions, cases,
processes, commands, crashes and edits. PROJECT.json says which run checks the
same property on a small instance.

| module | theorems |
|---|---|
| `InstallerTransaction_proofs` | `TypeCorrect`, `Invariance` (of `SafetyInv`), `ProgressInvariance` (`ProgressInv`), `Terminates`, `NothingInTheWay`, `OnlyFailuresInterrupt`, `WriteAhead` (`EvidenceBeforeChange`), `PlanOrder` (`ChangesFormPrefix`), `Atomicity` (`AllOrNothing`), `ForeignSafe` (`ForeignContentKept`), `CommitFinal` (`CommitIsFinal`), `RollbackIsClean` (`RollbackLeavesNoTrace`), `Implementation` (`AtomicSpec`); also under edits that race with a run (`OnlineSpec`) `BackupsCleanedUp` (`CleanupExact`), `ForeignDirectoriesSafe` (`ForeignDirectoriesKept`) |
| `InstallerLifecycle_proofs` | `TypeCorrect`, `Invariance` (`LifecycleInv`), `WorkRecorded` (`OwnWorkRecorded`), `BackupsExact` (`SavedExact`), `DirsPresent` (`ManifestDirsPresent`), `UserFilesSafe` (`UserFilesKept`), `UserDirsSafe` (`RecordedDirsOwned`), `Converges` (`InstallConverges`), `UninstallIsClean`, `UnreadableHasCause` |
| `TimelineLedger_proofs` | `TypeCorrect`, `Invariance` (`LedgerInv`), `ReadableAlone` (`Readable`), `TurnsOpenedOnce` (`TurnOpenedOnce`), `IdsNeverReused` (without retention), `Attributed` (`Attribution`), `RecoveryLeavesNone` (`RecoveryComplete`), `Implementation` (`HistorySpec`), for one writer (`Alone`), retention included; for a clock that is not set back also `NeverRefused`, `OnlyRetentionDrops` |
| `OwnedFixture_proofs` | `TypeCorrect`, `CommandsEnd`; for disciplined deployments `Invariance` (`IInv`), `WorkersMarked` (`WorkerMarked`), `StrandedHasCause` (`StrandedOnlyBy`), `CleanupUnobstructed`, `OnlyFailuresStopCleanup`, `Implementation` (`LifeSpec`) |
| `EventStream_proofs` | `TypeCorrect`, `Invariance` (`IInv`), `RolesKeptApart` (`RolesApart`), `TrustedIsCoherent` (`Coherent`) |
| `RoleEvidence_proofs` | `OverallIsExact` (`OverallExact`), `RoutingIsProved` (`RoutingProved`) |
| `BehaviorCase_proofs` | `TypeCorrect`, `Invariance` (`CaseInv`), `PassesEarned` (`PassEarned`), `ReplaysAgree` (`ReplayAgrees`), `VerdictsFinal` (`VerdictFinal`) |
| `LiveSummary_proofs` | `TypeCorrect`, `Invariance` (`SummaryInv`), `Aggregates` (`RefusedOnlyByInput`), `AllAccounted` (`NothingSilent`), `PassesBacked` (`PassBacked`) |

*Assumptions.* They are the named ASSUMEs of the modules, and TLC evaluates them
in the runs. Engine: the manifest's action is the last one, if there is one; an
uninstall has one, with an old content, as `_uninstall_with_adapter` always
appends it; directories enclose what their children enclose, and an ancestor of an
ancestor is one; `Absent` is no content; no action is planned for a file that is as it
should be, but for one that is gone already. Lifecycle: kinds of files are disjoint, parents are transitive, the
directories of a file contain their parents, `None` is no text and no record of AGENTS.md. The others only
keep sentinels apart from values and bounds in the naturals.

*The engine.* None of its properties is inductive. The write-ahead rule holds
at `Mutate` because the checkpoint was written and the backup verified several
steps earlier, so the invariant must say what each value of `pc` knows, and
what of it survives in the journal when `pc` is lost. `SafetyInv` has these
parts. `PhaseOK` relates `pc`, the journal's phase and the outcome.
`Undisturbed` and `DirsReady` say what the first run, which no edit can
precede, may rely on. `FilesInDirs` keeps files inside existing directories.
`FilesOK` confines an untouched file to its old or new content and gives it a
verified backup once it has left the old one. `ProgressOK` places the border
between new and old files at `cur` while applying, and `UndoOK` does so while
rolling back: whatever `todo` does not list is already old. The second is what
makes a repeated recovery work: it classifies by what is on the disk and
not by the checkpoints, so it needs no memory of the rollback that died.
`SafetyStep` goes through the actions one at a time; the theorems above follow
from the invariant, and `Implementation` maps the undecided tree to the old
contents (`Logical`) with `Commit` as the only step that changes them.
Two invariants besides `SafetyInv` are about what a run leaves behind. `SweepInv`
says which backups remain after the commit and how far the cleanup has got, and
places backups in existing directories; it mentions no file, so it holds under
online edits too. `TraceInv` says that a directory the run made was missing at
the start, so that one a rollback cannot remove is blocked by something foreign.

*Progress.* `Resolved` is a liveness property, which only TLC can check; its
two halves are safety properties, and they are proved. `Closer` is a rank: edits
and failures that remain, then the part the transaction is in (`Level`), what that
part has still to handle (`Left`, a finite set) and the step of the one in hand
(`Minor`). `Terminates` says that every step lowers it, so only finitely many steps
are ever taken. The exception is a cleanup that stops at a managed directory the
user has replaced, which a recovery may repeat for ever. That no rollback goes
back to `down` is the point of `Restorable`: what was classified can be restored.
`NothingInTheWay` says that while nobody edits no check refuses: the process can
go on, and a journal it left is accepted. Its invariant `Calm` is about the
directories: what is missing is still pending before the apply loop, and created
by this transaction once a rollback removes them. The theorem needs
`ChangeAssumption`: a file whose planned content were its old one would count as
new, and its missing backup as tampered with (`wm` 1692). What remains for liveness
is the scheduler: a process that can go on does, and an interrupted transaction is
recovered. `ProgressInv`, the conjunction, is checked by TLC as well.

*The lifecycle.* `LifecycleInv` adds to the stated properties who owns what
(`TheirsKept`: no file of the user's is on record as the installer's),
where backups come from (`BackupsKept`, which also covers the time between an
uninstall's commit and its cleanup), which recorded directories were made
(`MadeKept`) and that those which a pending cleanup leaves are held by something
(`RestHeld`). `Converges` is not a statement about single states: `Converging` says
what one install leaves for a second with the same arguments, `SecondInstall` that
the second leaves nothing, `InstalledIdle` that a third is then the identity.
`BackupsExact` rests on `BackupsKept`: the disk has what the old manifest listed and
what the actions of this transaction copied, until the purges. `UserDirsSafe` rests on
the identities: a recorded directory that the user has made anew is in `replaced` as
long as a manifest, or the journal of an unfinished uninstall, records it, so that the
sweep stops at it. `UninstallIsClean` needs that an untouched block in AGENTS.md is the
one on record (`BlockRecorded`). `UnreadableHasCause` says which ways lead to a manifest that every command refuses:
a recorded directory that the user removed or made anew, an edit before a cleanup was
resumed, and the stale mark of `lifecycle_features`. `AgentsDeclared` excludes its
converse, agents on record without the mark.

*The ledger.* `JobOK` says what a command that is under way knows of the ledger:
one that opens a turn has an id the ledger lacks (`Fresh`), one that closes a turn
carries what the ledger has of it (`Matches`), a recovery has before it exactly
the turns still open (`Rest`). Each of the three is what a second writer breaks.
Retention keeps the young events in order and, of those, the newest (`Kept`). That
this reopens no turn (`KeptSound`) is not a matter of retention alone: it drops by
start time, and an event that closes a turn carries the start of the event that
opened it (`Attribution`), so no end is older than its beginning; and the cap cuts
off a beginning of the ledger. What `Young` returns is proved along the length of
the ledger (`Upwards`), by the least length at which it would fail.
`TurnsOpenedOnce` is about the ids in the ledger at one time. Over all time an id names
one turn only as long as retention drops nothing, and that is `IdsNeverReused`.
`NeverRefused` and `OnlyRetentionDrops` assume `SteadyClock`, which the code cannot
enforce; they say that a clock set back is the one thing a single writer has to
fear. `PastInv` keeps all times in the past of the event to be written, and
`Thinned` says of what retention is about to write that it lacks only events whose
age or number condemns them, which growing older does not change.

*The fixture.* In a disciplined deployment at most one process is past its own
validation and lock (`Busy`): the deployment separates all commands but those that
lock, and the lock separates these (`Locked`). `Stage` says, for each program counter, what its process
knows: how the marker on the disk and the marker in its memory may differ, and
whether the root is whole. `Worked` is the fact the other commands rely on: a
running root has a worker. `LifeStep` maps each step to a step of `FixtureLife`.
`SoundInv` adds that without a cause a root at rest is accepted and a busy process
holds a marker which, published with a fresh manifest, will be accepted
(`Publishable`); `StrandedOnlyBy` is its case where nothing runs.
`CleanupFinishes` is a liveness property; what of it is safety is proved. `Rank`
bounds the steps a command has left: an error sends it back to hash and publish
once, as a retired root, and never again (`CommandsEnd`, for every deployment). A
sweep works under the marker that announced it (`SweepAgrees`), so without a cause
nothing refuses it (`CleanupUnobstructed`), and each cleanup that ends early costs a
fault or a kill (`OnlyFailuresStopCleanup`). What remains is that the scheduler runs the
command and the owner starts it again.

*The evidence.* `EventStream`'s invariant ties each attributed role to the claim
that first gave it and keeps the parent apart (`Trusted`); an accepted stream has
then no two claims in conflict, which is `Coherent`. `RoleEvidence_proofs`
evaluates the verdicts over every result that satisfies it. `CaseInv` says what
each stage of a case has established about the fixture (`Current`, `Linking`) and
that what was kept is what was decided (`Decisions`, `Outputs`); `PassEarned` then
follows from the conditions of `LinkAccepted` alone. `SummaryInv` says which
events the records and notes come from (`Folded`, `Noted`, `Sources`), how far the
summary may differ from them (`Summarised`) and the report from the summary
(`Reported`).

## Where code and documents disagree

Each is a run that TLC refutes; the second was also reproduced by running the
scripts on scratch files.

1. `transaction_online_replace`. README.md:122 says existing unmanaged files are
   not silently replaced. The engine checks the hash, then rewrites and fsyncs
   the journal, then replaces the file (`wm` 1891-1901); a file created at that
   path in between is gone, without a backup.
2. `lifecycle_features`. WORK_FLOW.md:528 says a committed transaction is recovered
   by completing cleanup. A partial uninstall copies `features.customAgents`
   (`wm` 2765) although the agents are gone; the reader refuses that manifest
   (`wm` 1071-1077), and cleanup, recovery, install and uninstall all fail from
   then on.
3. `fixture_replay`. `cle` 369 says the run lock is there to serialize through
   final validation. A replay that the lock refuses still writes its blocked
   verdict and finalizes the root outside the lock (`rlbc` 1754), and may publish
   a marker it read before a capture announced itself: the root then says ready
   while the capture works in it.

## Deviations

Seen while modelling. The models contain this behaviour, and the properties are
stated so as to allow it; none has a run of its own.

*Installer.*
* Installation takes up to two runs to become idempotent (README.md:122): when a
  pre-existing identical agent was deleted by the user, the first install with
  agents forgets it and the second one writes it (`wm` 2353-2357).
* An uninstall removes empty `docs/ai` and `plans` directories that the user
  made (`wm` 2530-2537), although WORK_FLOW.md:622 says only created ones go.
* An AGENTS.md that was empty before the install is deleted by the uninstall
  (`wm` 2744).
* A `__pycache__` below `.codex-workflow` keeps that directory after an uninstall
  and makes the next install refuse it (`wm` 2272).
* Deleting the last modified file between an interrupted partial uninstall and its
  recovery leaves a manifest that names a directory which is gone (the exception
  `disturbed` in `ManifestDirsPresent`).
* A recorded directory that the user removed, and even one that was put back, makes
  every later command fail (`wm` 1090); nothing in the commands repairs the manifest.
* The cleanup of an uninstall that meets a directory of another identity fails and
  fails again at every recovery, until the user removes that directory (`wm` 2548).
* A crash between a `mkdir` and its record leaves a journal that recovery refuses for
  ever (`wm` 1808, 2150), which `Resolved` excepts; and the temporary file of a write
  that a crash interrupted keeps its directory through a rollback (`wm` 854), which
  `RollbackLeavesNoTrace` allows as a directory that is occupied.

*Timeline.*
* Once retention has dropped the newest turns, `get_next_turn_id` gives an id out
  again (`timeline_collector.py` 119-123), and a `finish` meant for a turn that is
  still open closes another.
* Two writers can both pass the check of `record_event` and both append, which
  leaves a ledger no command reads (`timeline_collector.py` 185-190).
  CODEX_WORKFLOW.md:141 asks for one writer; nothing enforces it.

*Fixture.*
* A kill after a command changed the results, and before it published, leaves a
  stale manifest: every command, the cleanup included, refuses the root from
  then on. A kill inside the marker's replacement leaves a temporary file that
  the layout check refuses as well.
* A case that starts while a capture works, and gets the lock after the capture
  was interrupted, runs in a root that is no longer ready and strands it.
* The marker stays ready, without workers, while the CLI of a case runs; only
  the lock keeps others out, and `cleanup` does not try it.

*Verdicts.*
* The overall role verdict does not look at the stream's integrity; an observed
  setting may come from an attribution that was refused; read-only roles ignore a
  change of HEAD; a BLOCKED reason hides `UNAUTHORIZED_COMMIT`.
* A BLOCKED case may be run again until it passes. When a decided FAIL cannot be
  written, the case may be run again too. A failure between the stream and the
  output leaves a case without verdict that can only be replayed.
* An L7 writer that was blocked after it wrote can never PASS later. The L7
  configuration is compared at the end of a case and not at its start. An L7
  validator may run any other `exec` command. The L8 v1 capture is not reconciled,
  but its replay is. The result of `_private_settings` is overwritten before use.
* An `UNKNOWN_CASE` record whose id is not canonical makes the aggregate refuse its
  own summary, and an id that cannot be hashed raises TypeError. Repeated invalid
  records are only noted. A PASS whose file is missing stays a PASS with
  `MISSING_EVIDENCE` in the summary, and the report then refuses it.

## Limits

*Model-checked only.* `Resolved` and `CleanupFinishes`, because liveness under
fairness is out of the prover's reach; the sections on progress and on the fixture
say which parts of them are proved.

*Abstracted in the engine*: root identity, path normalisation, link and reparse
checks, and the syntax check of a journal. Each only makes a command refuse,
before it writes. Torn writes are excluded, as `os.replace` and fsync
exclude them; the temporary file a crash may leave is the occupied directory
of `WriteTarget`.

*In the lifecycle*: file contents are versions and user texts; AGENTS.md is its
text class (empty, blank, other) and its block, so the text splicing is not
modelled; older manifest schemas, `--dry-run`, which changes nothing, and the
user's edits of backups and of the manifest itself are left out. Identities are
taken to be unique: a directory made anew never gets the inode of the one before, and
none is moved away and back. Planning and applying
are one step: `_prepare_relative_actions` reads each file's hash again
(`wm` 2311), and an edit between the two reads is taken for the old content.

*One installer at a time.* Two installers can both find no journal (`wm` 2261) and
then share one; this is a listed hazard without a property.

*In the timeline*: stages, roles, summaries, usage and their redaction; the
temporary file of a pruning; a program that keeps a collector in memory instead of
running commands. An append is one small write and is taken to be whole. The
runs have one process, so what a pruning beside another writer loses
(`timeline_collector.py` 99) is not covered.

*In the fixture*: the results are a version number, so that commands that change
them differ only in when they do. The runs put captures and cases beside each other;
a replay beside a capture is in `fixture_replay` only, and a report, which takes no lock
and may publish over another command (`lvs` 1782), runs alone. Git and the CLI are part of `Work`.

*In the cases*: a replay reads the fixture in one atomic step; finished private
rollouts do not change, but may be missing; BLOCKED records are not state, as
nothing reads them back; HEAD is merged with everything else outside the watched
files; nobody changes the fixture between the decision and the publication.
`l6-system-shell-code_validator` is not modelled. Tool output that is linked to no
call is the Boolean `protocol`.

*In the summary*: the evidence of a case is one file; a link, or a file reached
through one, is `link`, and gives `INVALID_EVIDENCE`. `aggregate_events` can be called
without a run root, and then looks for no evidence (`lvs` 1326); only a test does.
The check for evidence in `generate_report` (`lvs` 1770) and the writing of the
report (`lvs` 1781) are one step.

*Not modelled*: rollout reconciliation and projections and the Windows handle
backend, which keep no state between calls; the journal parser (`wm` 1443-1660) and
most of `_read_state`, which only refuse; `git_authorization.py`, a decision over
the fields of one record; the sanitizer, which rewrites text; compatibility registry,
evidence validators, preflight, L7 fixture, report rendering, timeline exporter and
redactor, which are sequential and stateless; the shell wrappers.

## Plan

In order of what could lose work or give a wrong verdict.

1. *Done, proved.* `InstallerTransaction` and its refinement of `AtomicTransaction`.
2. *Done, proved.* `InstallerLifecycle`.
3. *Done, proved.* `TimelineLedger` and its refinement of
   `TurnHistory`.
4. *Done, proved.* `OwnedFixture` and its refinement of `FixtureLife`.
5. *Done, proved.* `EventStream`, `RoleEvidence`.
6. *Done, proved.* `BehaviorCase` over `PrivateLink`, and `LiveSummary`.
7. *Open.* `reconcile_codex_rollouts.py` and `verify_safe_rollout_projection.py`,
   which would replace the Boolean `correlates` of `PrivateLink` by a definition;
   the journal parser and `_read_state` as refusals of `InstallerTransaction` and
   `InstallerLifecycle`; two installers over one tree; the handles of
   `windows_handle_fs.py`; two writers of one ledger.
