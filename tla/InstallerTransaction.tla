------------------------ MODULE InstallerTransaction ------------------------
(***************************************************************************)
(* The journaled transaction engine of scripts/workflow_manager.py: one    *)
(* transaction of the installer or uninstaller, from the moment its        *)
(* actions are planned (`_prepare_relative_actions`) to the removal of its *)
(* journal, with crashes, I/O errors, offline edits by the user of the     *)
(* repository and any number of `--recover` runs in between.               *)
(*                                                                         *)
(* A file is its content as far as SHA-256 tells contents apart, with      *)
(* Absent for a missing file.  The journal is replaced atomically          *)
(* (temporary file and os.replace), so each of its fields is a variable    *)
(* that changes only in a step that rewrites the journal.  Repository-root *)
(* identity, path normalisation, link checks and the syntax checks of the  *)
(* journal are abstracted away.                                            *)
(***************************************************************************)
EXTENDS Naturals, FiniteSets

CONSTANTS
  NumActions,     \* number of actions of the plan, applied in index order
  Content,        \* file contents, as their hashes tell them apart
  Absent,         \* "content" of a missing file (hash None)
  StateAction,    \* index of the state manifest's action, 0 if there is none
  BackupActions,  \* actions that delete an obsolete backup file
  Dir,            \* directories enclosing action paths and backup paths
  ParentDirs,     \* [Dir -> SUBSET Dir]: strict ancestors of a directory
  FileDirs,       \* [Action -> SUBSET Dir]: directories enclosing its path
  BackupDirs,     \* [Action -> SUBSET Dir]: those enclosing its backup path
  FreshDirs,      \* directories named after the new transaction id
  ManagedDirs,    \* directories an uninstall offers to remove when empty
  Plans,          \* possible [op, pre, post] records of the transaction
  MaxFailures,    \* bound on crashes and I/O errors
  MaxEdits        \* bound on user edits

Action == 1 .. NumActions
File == Content \cup {Absent}
ActionPhase == {"prepared", "applying", "applied", "rollingBack", "rolledBack"}

\* What the source fixes about a plan and the tree it runs in.
ASSUME TransactionAssumption ==
  /\ NumActions \in Nat \ {0}
  /\ Absent \notin Content
  /\ StateAction \in {0, NumActions}
  /\ BackupActions \subseteq Action
  /\ IsFiniteSet(Dir)
  /\ ParentDirs \in [Dir -> SUBSET Dir]
  /\ \A d \in Dir : d \notin ParentDirs[d]
  /\ FileDirs \in [Action -> SUBSET Dir]
  /\ BackupDirs \in [Action -> SUBSET Dir]
  /\ \A i \in Action : /\ \A d \in FileDirs[i] : ParentDirs[d] \subseteq FileDirs[i]
                       /\ \A d \in BackupDirs[i] : ParentDirs[d] \subseteq BackupDirs[i]
  /\ FreshDirs \subseteq Dir
  /\ ManagedDirs \subseteq Dir
  /\ Plans \subseteq [op   : {"install", "uninstall"},
                      pre  : [Action -> File],
                      post : [Action -> File]]
  /\ \A p \in Plans : p.op = "uninstall" =>
       StateAction # 0 /\ p.pre[StateAction] # Absent
  /\ MaxFailures \in Nat
  /\ MaxEdits \in Nat

\* An ancestor of an ancestor is one.
ASSUME AncestorAssumption ==
  \A d \in Dir : \A e \in ParentDirs[d] : ParentDirs[e] \subseteq ParentDirs[d]

\* Nothing is planned for a file that is as it should be, except that one
\* listed for deletion may be gone already.
ASSUME ChangeAssumption ==
  \A p \in Plans : \A i \in Action : p.pre[i] = p.post[i] => p.pre[i] = Absent

VARIABLES
  plan,       \* the planned transaction: operation, pre and post contents
  disk,       \* content of the file each action names
  bak,        \* content of each action's backup file
  dir,        \* "missing", "recorded" (the journalled one) or "replaced"
  occupied,   \* directories holding an entry the transaction does not know
  jphase,     \* phase in the journal, "none" when there is no journal file
  pending,    \* journal: directory records with prepared = false
  created,    \* journal: directories with created = true (rollbackDirectories)
  mark,       \* journal: phase of each action
  pc,         \* what the running process does next, "down" if none runs
  cur,        \* index of the action in hand
  todo,       \* actions classified "post" when the rollback began
  missing,    \* directories found missing when recovery or rollback began
  work,       \* directories still to be handled by the current sweep
  outcome,    \* history: how the transaction was resolved
  touched,    \* history: actions whose file or backup the user changed
  failures,   \* number of crashes and I/O errors so far
  edits       \* number of user edits so far

journal == <<jphase, pending, created, mark>>
process == <<pc, cur, todo, missing, work>>
history == <<outcome, touched>>
vars == <<plan, disk, bak, dir, occupied, journal, process, history, failures, edits>>

-----------------------------------------------------------------------------
\* The plan, the directories and the classification of the actions.

pre == plan.pre
post == plan.post

HasBackup(i) == pre[i] # Absent

\* _action_directory_paths: every directory the journal keeps a record of.
JournalDirs ==
  (UNION {FileDirs[i] : i \in Action})
    \cup (UNION {BackupDirs[i] : i \in {j \in Action : HasBackup(j)}})

\* _eligible_rollback_directories: those a rollback is allowed to remove.
Eligible ==
  (UNION {FileDirs[i] : i \in {j \in Action : post[j] # Absent}})
    \cup (UNION {BackupDirs[i] : i \in {j \in Action : HasBackup(j)}})

Present(d) == dir[d] # "missing"
MissingDirs == {d \in JournalDirs : ~Present(d)}

\* _assert_directory_records: what is missing is excused, the rest is itself.
DirectoriesMatch(excused) ==
  \A d \in JournalDirs : dir[d] = "recorded" \/ (~Present(d) /\ d \in excused)

Beneath(dirs, gone) == dirs \cap gone # {}

BackupVerified(i, gone) == ~Beneath(BackupDirs[i], gone) /\ bak[i] = pre[i]

\* (mutant) any content but the old one passes for the planned one
HoldsNewLoosely(i) == disk[i] # pre[i]

\* The current hash is the one the plan gives the action.
HoldsNew(i) == disk[i] = post[i]

\* _classify_actions: an action is classified only by what is on the disk.
Classifiable(i, gone) ==
  IF Beneath(FileDirs[i], gone)
    THEN pre[i] = Absent
    ELSE /\ (HoldsNew(i) /\ HasBackup(i)) => BackupVerified(i, gone)
         /\ disk[i] = pre[i] \/ HoldsNew(i)

\* (mutant) the journal's checkpoint decides what is to be restored
AppliedByCheckpoint(i, gone) == mark[i] = "applied"

\* What a rollback has to restore is what has changed, not what was marked.
Applied(i, gone) == ~Beneath(FileDirs[i], gone) /\ disk[i] # pre[i]

\* A directory that rmdir would not refuse to remove.
Empty(d) ==
  /\ d \notin occupied
  /\ \A i \in Action : /\ disk[i] # Absent => d \notin FileDirs[i]
                       /\ bak[i] # Absent => d \notin BackupDirs[i]
  /\ \A e \in Dir : d \in ParentDirs[e] => ~Present(e)

\* The directory, if not the root, that directly holds a path.
Innermost(dirs) == {d \in dirs : \A e \in dirs : d \notin ParentDirs[e]}

-----------------------------------------------------------------------------
\* A transaction is planned on a tree whose directories enclose its files.
Init ==
  /\ plan \in Plans
  /\ disk = plan.pre
  /\ bak = [i \in Action |-> Absent]
  /\ dir \in [Dir -> {"missing", "recorded"}]
  /\ \A d \in Dir : Present(d) => \A e \in ParentDirs[d] : Present(e)
  /\ \A i \in Action : plan.pre[i] # Absent => \A d \in FileDirs[i] : Present(d)
  /\ \A d \in FreshDirs : ~Present(d)
  /\ occupied \in SUBSET {d \in Dir : Present(d)}
  /\ jphase = "none" /\ pending = {} /\ created = {}
  /\ mark = [i \in Action |-> "prepared"]
  /\ pc = "begin" /\ cur = 1 /\ todo = {} /\ missing = {} /\ work = {}
  /\ outcome = "open" /\ touched = {}
  /\ failures = 0 /\ edits = 0

-----------------------------------------------------------------------------
\* Directory preparation, _prepare_transaction_directories.

\* The first journal: a snapshot of the directory records.
WriteJournal ==
  /\ pc = "begin"
  /\ jphase' = "preparingDirectories"
  /\ pending' = MissingDirs
  /\ pc' = "mkdir"
  /\ UNCHANGED <<plan, disk, bak, dir, occupied, created, mark, cur, todo,
                 missing, work, history, failures, edits>>

\* Ancestors come first in the canonical order of the records.
MakeDirectory(d) ==
  /\ pc = "mkdir"
  /\ d \in pending /\ ParentDirs[d] \cap pending = {}
  /\ dir' = [dir EXCEPT ![d] = "recorded"]
  /\ work' = {d}
  /\ pc' = "recordDir"
  /\ UNCHANGED <<plan, disk, bak, occupied, journal, cur, todo, missing,
                 history, failures, edits>>

RecordDirectory ==
  /\ pc = "recordDir"
  /\ pending' = pending \ work
  /\ created' = created \cup work
  /\ work' = {}
  /\ pc' = "mkdir"
  /\ UNCHANGED <<plan, disk, bak, dir, occupied, jphase, mark, cur, todo,
                 missing, history, failures, edits>>

\* The journal becomes "prepared" and is read back and verified; its parser
\* rejects created directories that the plan's rollback may not remove.
FinishPreparation ==
  /\ pc = "mkdir" /\ pending = {}
  /\ jphase' = "prepared"
  /\ pc' = IF created \subseteq Eligible THEN "backup" ELSE "down"
  /\ UNCHANGED <<plan, disk, bak, dir, occupied, pending, created, mark, cur,
                 todo, missing, work, history, failures, edits>>

-----------------------------------------------------------------------------
\* Backups and the apply loop, _prepare_backups and _apply_relative_actions.

\* Copy and verify one backup; a created action has none to write.
BackUp ==
  /\ pc = "backup" /\ cur \in Action
  /\ HasBackup(cur) => disk[cur] = pre[cur]
  /\ bak' = [bak EXCEPT ![cur] = pre[cur]]
  /\ cur' = cur + 1
  /\ UNCHANGED <<plan, disk, dir, occupied, journal, pc, todo, missing, work,
                 history, failures, edits>>

\* Every action must classify before the first one is applied.
StartApply ==
  /\ pc = "backup" /\ cur = NumActions + 1
  /\ \A i \in Action : Classifiable(i, {})
  /\ pc' = "check" /\ cur' = 1
  /\ UNCHANGED <<plan, disk, bak, dir, occupied, journal, todo, missing, work,
                 history, failures, edits>>

\* An edit found before the apply loop ends the process, journal retained.
RefuseApply ==
  /\ pc = "backup"
  /\ \/ cur \in Action /\ HasBackup(cur) /\ disk[cur] # pre[cur]
     \/ cur = NumActions + 1 /\ \E i \in Action : ~Classifiable(i, {})
  /\ pc' = "down" /\ cur' = 1
  /\ UNCHANGED <<plan, disk, bak, dir, occupied, journal, todo, missing, work,
                 history, failures, edits>>

\* (mutant) the file is changed before the journal says so
UnjournalledCheckpoint ==
  /\ pc = "check" /\ disk[cur] = pre[cur]
  /\ pc' = "mutate"
  /\ UNCHANGED <<plan, disk, bak, dir, occupied, journal, cur, todo, missing,
                 work, history, failures, edits>>

\* Checkpoint "applying" in the journal before the file is changed.
Checkpoint ==
  /\ pc = "check" /\ disk[cur] = pre[cur]
  /\ jphase' = "applying"
  /\ mark' = [mark EXCEPT ![cur] = "applying"]
  /\ pc' = "mutate"
  /\ UNCHANGED <<plan, disk, bak, dir, occupied, pending, created, cur, todo,
                 missing, work, history, failures, edits>>

\* os.replace of the staged content, or unlink.
Mutate ==
  /\ pc = "mutate"
  /\ disk' = [disk EXCEPT ![cur] = post[cur]]
  /\ pc' = "verify"
  /\ UNCHANGED <<plan, bak, dir, occupied, journal, cur, todo, missing, work,
                 history, failures, edits>>

\* (mutant) the loop ends one action early
VerifyOneTooFew ==
  /\ pc = "verify" /\ HoldsNew(cur)
  /\ mark' = [mark EXCEPT ![cur] = "applied"]
  /\ cur' = cur + 1
  /\ pc' = IF cur >= NumActions - 1 THEN "commit" ELSE "check"
  /\ UNCHANGED <<plan, disk, bak, dir, occupied, jphase, pending, created, todo,
                 missing, work, history, failures, edits>>

\* Verify the file, then checkpoint "applied".
Verify ==
  /\ pc = "verify" /\ HoldsNew(cur)
  /\ mark' = [mark EXCEPT ![cur] = "applied"]
  /\ cur' = cur + 1
  /\ pc' = IF cur = NumActions THEN "commit" ELSE "check"
  /\ UNCHANGED <<plan, disk, bak, dir, occupied, jphase, pending, created, todo,
                 missing, work, history, failures, edits>>

\* A failed check of the loop, or an I/O error in it, starts the rollback.
ApplyFails ==
  /\ \/ pc = "check" /\ disk[cur] # pre[cur] /\ UNCHANGED failures
     \/ pc = "verify" /\ ~HoldsNew(cur) /\ UNCHANGED failures
     \/ /\ pc \in {"check", "mutate", "verify"}
        /\ failures < MaxFailures /\ failures' = failures + 1
  /\ pc' = "rollback"
  /\ UNCHANGED <<plan, disk, bak, dir, occupied, journal, cur, todo, missing,
                 work, history, edits>>

\* The commit point: from here on the transaction is only ever finished.
Commit ==
  /\ pc = "commit"
  /\ jphase' = "committed"
  /\ outcome' = "committed"
  /\ pc' = "purge"
  /\ UNCHANGED <<plan, disk, bak, dir, occupied, pending, created, mark, cur,
                 todo, missing, work, touched, failures, edits>>

-----------------------------------------------------------------------------
\* Rollback, _rollback_relative_actions and _complete_rollback_cleanup.

\* (mutant) a resumed rollback does not expect its own removals
NothingExcused == {}

\* Recovery excuses a missing directory only once a rollback has begun;
\* the in-process rollback excuses every directory it created itself.
Excused == IF pc = "rollback" \/ jphase = "rollingBack" THEN created ELSE {}

RollbackReady ==
  /\ DirectoriesMatch(Excused)
  /\ \A i \in Action : Classifiable(i, MissingDirs)

BeginRollback ==
  /\ RollbackReady
  /\ jphase' = "rollingBack"
  /\ missing' = MissingDirs
  /\ todo' = {i \in Action : Applied(i, MissingDirs)}
  /\ cur' = NumActions
  /\ pc' = "undo"
  /\ UNCHANGED <<plan, disk, bak, dir, occupied, pending, created, mark, work,
                 history, failures, edits>>

RollbackInProcess == pc = "rollback" /\ BeginRollback

\* A rollback that cannot classify every action retains the journal.
RollbackRefused ==
  /\ pc = "rollback" /\ ~RollbackReady
  /\ pc' = "down" /\ cur' = 1
  /\ UNCHANGED <<plan, disk, bak, dir, occupied, journal, todo, missing, work,
                 history, failures, edits>>

\* What _parse_journal and the preparation check of recover demand.
Recoverable == pc = "down" /\ pending = {} /\ created \subseteq Eligible

\* (mutant) recovery rolls a committed transaction back
RecoverAlwaysByRollback ==
  /\ Recoverable /\ jphase # "none"
  /\ BeginRollback

\* _recover_with_adapter, for every phase before the commit.
RecoverByRollback ==
  /\ Recoverable
  /\ jphase \in {"preparingDirectories", "prepared", "applying", "rollingBack"}
  /\ BeginRollback

\* (mutant) the reverse loop runs past the first action
UndoUnbounded ==
  /\ pc = "undo" /\ cur \notin todo
  /\ mark' = [mark EXCEPT ![cur] = "rolledBack"]
  /\ cur' = cur - 1
  /\ UNCHANGED <<plan, disk, bak, dir, occupied, jphase, pending, created, pc,
                 todo, missing, work, history, failures, edits>>

\* One action of the plan in reverse order: nothing to undo ...
UndoNothing ==
  /\ pc = "undo" /\ cur \in Action \ todo
  /\ mark' = [mark EXCEPT ![cur] = "rolledBack"]
  /\ cur' = cur - 1
  /\ UNCHANGED <<plan, disk, bak, dir, occupied, jphase, pending, created, pc,
                 todo, missing, work, history, failures, edits>>

\* ... or checkpoint "rollingBack" before the file is restored,
UndoCheckpoint ==
  /\ pc = "undo" /\ cur \in todo
  /\ mark' = [mark EXCEPT ![cur] = "rollingBack"]
  /\ pc' = "restore"
  /\ UNCHANGED <<plan, disk, bak, dir, occupied, jphase, pending, created, cur,
                 todo, missing, work, history, failures, edits>>

\* restore from the verified backup (or unlink a created file),
Restore ==
  /\ pc = "restore"
  /\ HoldsNew(cur)
  /\ HasBackup(cur) => bak[cur] = pre[cur]
  /\ disk' = [disk EXCEPT ![cur] = IF HasBackup(cur) THEN bak[cur] ELSE Absent]
  /\ pc' = "restored"
  /\ UNCHANGED <<plan, bak, dir, occupied, journal, cur, todo, missing, work,
                 history, failures, edits>>

\* verify it and checkpoint "rolledBack".
UndoVerify ==
  /\ pc = "restored" /\ disk[cur] = pre[cur]
  /\ mark' = [mark EXCEPT ![cur] = "rolledBack"]
  /\ cur' = cur - 1
  /\ pc' = "undo"
  /\ UNCHANGED <<plan, disk, bak, dir, occupied, jphase, pending, created, todo,
                 missing, work, history, failures, edits>>

\* A failed check of the rollback retains the journal and ends the process.
UndoRefused ==
  /\ \/ pc = "restore" /\ ~HoldsNew(cur)
     \/ pc = "restore" /\ HasBackup(cur) /\ bak[cur] # pre[cur]
     \/ pc = "restored" /\ disk[cur] # pre[cur]
  /\ pc' = "down" /\ cur' = 1 /\ todo' = {} /\ missing' = {}
  /\ UNCHANGED <<plan, disk, bak, dir, occupied, journal, work, history,
                 failures, edits>>

\* (mutant) a rollback that forgets its directories
NoDirectories == {}

\* (mutant) a rollback that removes every directory of the journal
EveryDirectory == JournalDirs

\* The directories a rollback goes on to remove.
RollbackDirectories == created

UndoDone ==
  /\ pc = "undo" /\ cur = 0
  /\ work' = RollbackDirectories
  /\ pc' = "discard"
  /\ UNCHANGED <<plan, disk, bak, dir, occupied, journal, cur, todo, missing,
                 history, failures, edits>>

\* _discard_transaction_backups
DiscardBackup(i) ==
  /\ pc = "discard"
  /\ bak[i] # Absent /\ ~Beneath(BackupDirs[i], missing)
  /\ bak' = [bak EXCEPT ![i] = Absent]
  /\ UNCHANGED <<plan, disk, dir, occupied, journal, process, history,
                 failures, edits>>

DiscardDone ==
  /\ pc = "discard"
  /\ \A i \in Action : bak[i] = Absent \/ Beneath(BackupDirs[i], missing)
  /\ pc' = "rmdirs"
  /\ UNCHANGED <<plan, disk, bak, dir, occupied, journal, cur, todo, missing,
                 work, history, failures, edits>>

\* A directory of the sweep with no descendant left in it.
Deepest(d) == d \in work /\ \A e \in work : d \notin ParentDirs[e]

\* rmdir, where a missing or a non-empty directory is left as it is.
Rmdir(d) == dir' = [dir EXCEPT ![d] = IF Empty(d) THEN "missing" ELSE @]

\* _remove_rollback_directories
RemoveCreated(d) ==
  /\ pc = "rmdirs" /\ Deepest(d)
  /\ Rmdir(d)
  /\ work' = work \ {d}
  /\ UNCHANGED <<plan, disk, bak, occupied, journal, pc, cur, todo, missing,
                 history, failures, edits>>

RemoveCreatedDone ==
  /\ pc = "rmdirs" /\ work = {}
  /\ pc' = "unlink"
  /\ UNCHANGED <<plan, disk, bak, dir, occupied, journal, cur, todo, missing,
                 work, history, failures, edits>>

-----------------------------------------------------------------------------
\* Cleanup after the commit: the end of _install_with_adapter, and
\* _finalize_committed_uninstall.

\* (mutant) the cleanup discards every backup
EveryBackup == {i \in Action : HasBackup(i)}

\* The backups that go before the journal does.  An install keeps those the
\* new state refers to; an uninstall keeps the state's own until the end.
Purged ==
  {i \in Action : HasBackup(i) /\
     IF plan.op = "install" THEN i = StateAction \/ i \in BackupActions
                            ELSE i # StateAction}

\* _recover_with_adapter, for a committed journal.
RecoverByCleanup ==
  /\ Recoverable /\ jphase = "committed"
  /\ DirectoriesMatch(Dir)
  /\ plan.op = "uninstall" => BackupVerified(StateAction, MissingDirs)
  /\ missing' = MissingDirs
  /\ pc' = "purge"
  /\ UNCHANGED <<plan, disk, bak, dir, occupied, journal, cur, todo, work,
                 history, failures, edits>>

PurgeBackup(i) ==
  /\ pc = "purge" /\ i \in Purged
  /\ bak[i] # Absent /\ ~Beneath(BackupDirs[i], missing)
  /\ bak' = [bak EXCEPT ![i] = Absent]
  /\ UNCHANGED <<plan, disk, dir, occupied, journal, process, history,
                 failures, edits>>

\* The directories of a backup beneath a missing one are not gone through.
PurgeDone ==
  /\ pc = "purge"
  /\ \A i \in Purged : bak[i] = Absent \/ Beneath(BackupDirs[i], missing)
  /\ work' = (UNION {BackupDirs[i] : i \in {j \in Purged : ~Beneath(BackupDirs[j], missing)}})
               \cup (IF plan.op = "uninstall" THEN ManagedDirs ELSE {})
  /\ pc' = "sweep"
  /\ UNCHANGED <<plan, disk, bak, dir, occupied, journal, cur, todo, missing,
                 history, failures, edits>>

\* Only managed directories are compared with a recorded identity.
Replaced(d) == d \in ManagedDirs /\ dir[d] = "replaced"

SweepDirectory(d) ==
  /\ pc = "sweep" /\ Deepest(d) /\ ~Replaced(d)
  /\ Rmdir(d)
  /\ work' = work \ {d}
  /\ UNCHANGED <<plan, disk, bak, occupied, journal, pc, cur, todo, missing,
                 history, failures, edits>>

SweepRefused ==
  /\ pc = "sweep" /\ \E d \in work : Deepest(d) /\ Replaced(d)
  /\ pc' = "down" /\ cur' = 1 /\ missing' = {} /\ work' = {}
  /\ UNCHANGED <<plan, disk, bak, dir, occupied, journal, todo, history,
                 failures, edits>>

SweepDone ==
  /\ pc = "sweep" /\ work = {}
  /\ pc' = IF jphase = "none" THEN "done" ELSE "unlink"
  /\ UNCHANGED <<plan, disk, bak, dir, occupied, journal, cur, todo, missing,
                 work, history, failures, edits>>

\* Removing the journal ends a rollback and a committed transaction alike.
UnlinkJournal ==
  /\ pc = "unlink"
  /\ jphase' = "none"
  /\ outcome' = IF jphase = "committed" THEN "committed" ELSE "rolledBack"
  /\ pc' = IF jphase = "committed" /\ plan.op = "uninstall" THEN "tail" ELSE "done"
  /\ UNCHANGED <<plan, disk, bak, dir, occupied, pending, created, mark, cur,
                 todo, missing, work, touched, failures, edits>>

\* The uninstaller's last act: the backup of the state manifest it removed.
RemoveStateBackup ==
  /\ pc = "tail"
  /\ bak' = [bak EXCEPT ![StateAction] = Absent]
  /\ work' = BackupDirs[StateAction]
  /\ pc' = "sweep"
  /\ UNCHANGED <<plan, disk, dir, occupied, journal, cur, todo, missing,
                 history, failures, edits>>

-----------------------------------------------------------------------------
\* The environment: crashes, I/O errors outside the apply loop, and the user.

\* The innermost directory of a file being written, for its temporary file.
WriteTarget ==
  CASE pc = "backup" /\ cur \in Action /\ HasBackup(cur)  -> Innermost(BackupDirs[cur])
    [] pc = "mutate" /\ post[cur] # Absent                -> Innermost(FileDirs[cur])
    [] pc = "restore" /\ HasBackup(cur)                   -> Innermost(FileDirs[cur])
    [] OTHER                                              -> {}

\* The process dies; a write under way may leave its temporary file behind.
Crash ==
  /\ pc \notin {"down", "done"}
  /\ failures < MaxFailures /\ failures' = failures + 1
  /\ \E litter \in {{}, WriteTarget} : occupied' = occupied \cup litter
  /\ pc' = "down" /\ cur' = 1 /\ todo' = {} /\ missing' = {} /\ work' = {}
  /\ UNCHANGED <<plan, disk, bak, dir, journal, history, edits>>

\* The user writes or deletes a file that is part of the plan.
EditFile(i, c) ==
  /\ edits < MaxEdits /\ edits' = edits + 1
  /\ c # disk[i] /\ (c # Absent => \A d \in FileDirs[i] : Present(d))
  /\ disk' = [disk EXCEPT ![i] = c]
  /\ touched' = touched \cup {i}
  /\ UNCHANGED <<plan, bak, dir, occupied, journal, process, outcome, failures>>

\* The user alters or deletes a backup.
EditBackup(i, c) ==
  /\ edits < MaxEdits /\ edits' = edits + 1
  /\ bak[i] # Absent /\ c # bak[i]
  /\ bak' = [bak EXCEPT ![i] = c]
  /\ touched' = touched \cup {i}
  /\ UNCHANGED <<plan, disk, dir, occupied, journal, process, outcome, failures>>

\* The user removes an empty directory, makes it again, or puts a file in it.
EditDirectory(d) ==
  /\ edits < MaxEdits /\ edits' = edits + 1
  /\ \/ /\ Present(d) /\ Empty(d)
        /\ dir' = [dir EXCEPT ![d] = "missing"] /\ UNCHANGED occupied
     \/ /\ ~Present(d) /\ \A e \in ParentDirs[d] : Present(e)
        /\ dir' = [dir EXCEPT ![d] = "replaced"] /\ UNCHANGED occupied
     \/ /\ Present(d) /\ d \notin occupied
        /\ occupied' = occupied \cup {d} /\ UNCHANGED dir
  /\ UNCHANGED <<plan, disk, bak, journal, process, history, failures>>

\* The user between an interruption and its recovery.
OfflineEdit ==
  /\ pc = "down" /\ jphase # "none"
  /\ \/ \E i \in Action, c \in File : EditFile(i, c) \/ EditBackup(i, c)
     \/ \E d \in Dir : EditDirectory(d)

\* The user saving a file while the process runs.
OnlineEdit ==
  /\ pc \notin {"down", "done"}
  /\ \E i \in Action, c \in File : EditFile(i, c)

-----------------------------------------------------------------------------
Prepare ==
  \/ WriteJournal
  \/ \E d \in Dir : MakeDirectory(d)
  \/ RecordDirectory
  \/ FinishPreparation

Apply ==
  \/ BackUp \/ StartApply \/ RefuseApply
  \/ Checkpoint \/ Mutate \/ Verify
  \/ Commit

Rollback ==
  \/ RollbackInProcess \/ RollbackRefused
  \/ UndoNothing \/ UndoCheckpoint \/ Restore \/ UndoVerify \/ UndoRefused
  \/ UndoDone
  \/ \E i \in Action : DiscardBackup(i)
  \/ DiscardDone
  \/ \E d \in Dir : RemoveCreated(d)
  \/ RemoveCreatedDone

Cleanup ==
  \/ \E i \in Action : PurgeBackup(i)
  \/ PurgeDone
  \/ \E d \in Dir : SweepDirectory(d)
  \/ SweepRefused \/ SweepDone
  \/ UnlinkJournal
  \/ RemoveStateBackup

Recover == RecoverByRollback \/ RecoverByCleanup

ProcessStep ==
  \/ Prepare \/ Apply \/ Rollback \/ Cleanup
  \/ ApplyFails

Next == ProcessStep \/ Recover \/ Crash \/ OfflineEdit

Spec == Init /\ [][Next]_vars

\* A process that is not killed goes on, and an interrupted transaction is
\* recovered: both commands refuse to start while its journal is there.
FairSpec == Spec /\ WF_vars(ProcessStep) /\ WF_vars(Recover)

\* The same engine with a user who does not stop editing while it runs.
OnlineSpec == Init /\ [][Next \/ OnlineEdit]_vars

-----------------------------------------------------------------------------
\* Properties.

\* Every variable of the engine keeps its type, including the fields read
\* back from the journal by a recovery.
TypeOK ==
  /\ plan \in Plans
  /\ disk \in [Action -> File] /\ bak \in [Action -> File]
  /\ dir \in [Dir -> {"missing", "recorded", "replaced"}]
  /\ occupied \subseteq Dir
  /\ jphase \in {"none", "preparingDirectories", "prepared", "applying",
                 "rollingBack", "committed"}
  /\ pending \subseteq Dir /\ created \subseteq Dir
  /\ mark \in [Action -> ActionPhase]
  /\ pc \in {"begin", "mkdir", "recordDir", "backup", "check", "mutate", "verify",
             "commit", "rollback", "undo", "restore", "restored", "discard",
             "rmdirs", "unlink", "purge", "sweep", "tail", "down", "done"}
  /\ cur \in 0 .. NumActions + 1
  /\ todo \subseteq Action /\ missing \subseteq Dir /\ work \subseteq Dir
  /\ outcome \in {"open", "committed", "rolledBack"}
  /\ touched \subseteq Action
  /\ failures \in 0 .. MaxFailures /\ edits \in 0 .. MaxEdits

Changed(i) == disk[i] # pre[i]

\* The write-ahead rule: while the transaction is undecided, a file that has
\* left its old content has a journal whose checkpoint says so and a verified
\* copy of that content, at every point where the process may die.
EvidenceBeforeChange ==
  \A i \in Action \ touched :
    (outcome = "open" /\ Changed(i)) =>
      /\ jphase \in {"applying", "rollingBack"}
      /\ mark[i] \in {"applying", "applied", "rollingBack"}
      /\ HasBackup(i) => bak[i] = pre[i]

\* The files are changed in plan order and restored in reverse: whenever a
\* file is new, every earlier one is.  The state manifest comes last, so a
\* new manifest never describes files that are not there yet.
ChangesFormPrefix ==
  \A i, j \in Action \ touched :
    i < j /\ Changed(j) => disk[i] = post[i]

\* A transaction that is over changed every file or none, whatever crashes,
\* I/O errors, recoveries and unrelated edits happened on the way.
AllOrNothing ==
  \A i \in Action \ touched :
    /\ outcome = "committed" => disk[i] = post[i]
    /\ outcome # "committed" /\ jphase = "none" => disk[i] = pre[i]

\* No step of the installer or of a recovery overwrites or deletes a file
\* whose content is neither the old nor the new one of the plan.
ForeignContentKept ==
  [][\A i \in Action :
       disk[i] \notin {pre[i], post[i]} => (disk'[i] = disk[i] \/ edits' # edits)]_vars

\* The case of ForeignContentKept for a file the plan expects to create: one
\* that exists by then is the user's, is in no backup, and must survive.
UnmanagedNotReplaced ==
  [][\A i \in Action :
       (pre[i] = Absent /\ disk[i] \notin {Absent, post[i]})
         => (disk'[i] = disk[i] \/ edits' # edits)]_vars

\* Once the journal says "committed" no recovery rolls the files back.
CommitIsFinal ==
  [][outcome = "committed" =>
       /\ outcome' = "committed"
       /\ disk' = disk \/ edits' # edits]_vars

\* A directory that a finished rollback leaves behind although the
\* transaction made it holds something the transaction does not own.
\* Its backups are gone too.
RollbackLeavesNoTrace ==
  outcome = "rolledBack" =>
    /\ \A i \in Action \ touched : bak[i] = Absent
    /\ \A d \in created : (dir[d] = "recorded" /\ edits = 0) =>
         \E e \in occupied : e = d \/ d \in ParentDirs[e]

\* A committed install leaves exactly the backups that its new manifest
\* refers to: those of updated files, neither the old manifest's nor those of
\* backups it deleted.  A committed uninstall leaves none, except that a death
\* after the journal's removal may leave the old manifest's.  This holds
\* however often the cleanup is interrupted and resumed.
CleanupExact ==
  (outcome = "committed" /\ jphase = "none") =>
    \A i \in Action \ touched : HasBackup(i) =>
      IF plan.op = "install"
        THEN bak[i] = IF i \in BackupActions \cup {StateAction} THEN Absent ELSE pre[i]
        ELSE (i # StateAction \/ pc = "done") => bak[i] = Absent

\* A directory that was there before the transaction is removed neither by a
\* rollback nor by an install, except that a cleanup may empty the backup
\* directory; an uninstall removes managed directories, after its commit.
ForeignDirectoriesKept ==
  [][\A d \in Dir \ created :
       /\ Present(d)
       /\ outcome = "committed" =>
            /\ \A i \in Action : d \notin BackupDirs[i]
            /\ plan.op = "uninstall" => d \notin ManagedDirs
       => (dir'[d] = dir[d] \/ edits' # edits)]_vars

\* With nobody else editing, every journalled transaction is resolved by
\* the process or by recovery, unless it died preparing its directories.
Resolved ==
  (jphase # "none") ~> (jphase = "none" \/ pending # {} \/ ~(created \subseteq Eligible))

\* What a rollback would make of a file while the transaction is undecided.
Logical(i) ==
  IF jphase \in {"none", "committed"} \/ disk[i] = pre[i] THEN disk[i]
  ELSE IF HasBackup(i) THEN bak[i] ELSE Absent

\* The engine implements the atomic transaction.
Atomic == INSTANCE AtomicTransaction
  WITH files <- [i \in Action \ touched |-> Logical(i)], verdict <- outcome

AtomicSpec == Atomic!Spec
=============================================================================
