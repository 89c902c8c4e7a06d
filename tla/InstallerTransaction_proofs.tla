--------------------- MODULE InstallerTransaction_proofs ---------------------
(***************************************************************************)
(* Proofs about InstallerTransaction for every plan, every directory tree  *)
(* and every bound on failures and offline edits.                          *)
(***************************************************************************)
EXTENDS InstallerTransaction, FiniteSetTheorems, TLAPS

-----------------------------------------------------------------------------
\* The cursor points at an action wherever the process is about to use it.
CursorOK ==
  /\ pc \in {"check", "mutate", "verify", "restore", "restored"} => cur \in Action
  /\ pc = "backup" => cur \in 1 .. NumActions + 1
  /\ pc = "undo" => cur \in 0 .. NumActions
  /\ pc \in {"begin", "mkdir", "recordDir"} => cur = 1
  /\ pc = "tail" => plan.op = "uninstall"

TypeInv == TypeOK /\ CursorOK

\* What a plan gives the operators of the model.
LEMMA PlanFacts ==
  ASSUME plan \in Plans
  PROVE  /\ plan.op \in {"install", "uninstall"}
         /\ pre \in [Action -> File] /\ post \in [Action -> File]
         /\ plan.op = "uninstall" =>
              StateAction \in Action /\ HasBackup(StateAction)
         /\ JournalDirs \subseteq Dir /\ MissingDirs \subseteq Dir
         /\ MissingDirs \subseteq JournalDirs
<1>1. plan \in [op : {"install", "uninstall"}, pre : [Action -> File], post : [Action -> File]]
  BY TransactionAssumption
<1>2. /\ plan.op \in {"install", "uninstall"}
      /\ pre \in [Action -> File] /\ post \in [Action -> File]
  BY <1>1 DEF pre, post
<1>3. plan.op = "uninstall" => StateAction \in Action /\ HasBackup(StateAction)
  BY TransactionAssumption DEF HasBackup, pre, Action
<1>4. JournalDirs \subseteq Dir
  BY TransactionAssumption DEF JournalDirs
<1>5. MissingDirs \subseteq JournalDirs
  BY DEF MissingDirs
<1> QED BY <1>2, <1>3, <1>4, <1>5

\* No step of the process, of a recovery or of the user breaks the types.
LEMMA TypeStep ==
  ASSUME TypeInv, [Next]_vars
  PROVE  TypeInv'
<1> USE TransactionAssumption DEF TypeInv, TypeOK, CursorOK, Action, File, ActionPhase
<1> USE PlanFacts
<1>1. CASE Prepare
  <2>1. CASE WriteJournal
    BY <2>1 DEF WriteJournal, history
  <2>2. ASSUME NEW d \in Dir, MakeDirectory(d) PROVE TypeInv'
    BY <2>2 DEF MakeDirectory, history, journal
  <2>3. CASE RecordDirectory
    BY <2>3 DEF RecordDirectory, history
  <2>4. CASE FinishPreparation
    BY <2>4 DEF FinishPreparation, history
  <2> QED BY <1>1, <2>1, <2>2, <2>3, <2>4 DEF Prepare
<1>2. CASE Apply
  <2>1. CASE BackUp
    BY <2>1 DEF BackUp, history, journal
  <2>2. CASE StartApply
    BY <2>2 DEF StartApply, history, journal
  <2>3. CASE RefuseApply
    BY <2>3 DEF RefuseApply, history, journal
  <2>4. CASE Checkpoint
    BY <2>4 DEF Checkpoint, history
  <2>5. CASE Mutate
    BY <2>5 DEF Mutate, history, journal
  <2>6. CASE Verify
    BY <2>6 DEF Verify, history
  <2>7. CASE Commit
    BY <2>7 DEF Commit
  <2> QED BY <1>2, <2>1, <2>2, <2>3, <2>4, <2>5, <2>6, <2>7 DEF Apply
<1>3. CASE Rollback
  <2>1. CASE RollbackInProcess
    BY <2>1 DEF RollbackInProcess, BeginRollback, history
  <2>2. CASE RollbackRefused
    BY <2>2 DEF RollbackRefused, history, journal
  <2>3. CASE UndoNothing
    BY <2>3 DEF UndoNothing, history
  <2>4. CASE UndoCheckpoint
    BY <2>4 DEF UndoCheckpoint, history
  <2>5. CASE Restore
    BY <2>5 DEF Restore, history, journal
  <2>6. CASE UndoVerify
    BY <2>6 DEF UndoVerify, history
  <2>7. CASE UndoRefused
    BY <2>7 DEF UndoRefused, history, journal
  <2>8. CASE UndoDone
    BY <2>8 DEF UndoDone, RollbackDirectories, history, journal
  <2>9. ASSUME NEW i \in Action, DiscardBackup(i) PROVE TypeInv'
    BY <2>9 DEF DiscardBackup, history, journal, process
  <2>10. CASE DiscardDone
    BY <2>10 DEF DiscardDone, history, journal
  <2>11. ASSUME NEW d \in Dir, RemoveCreated(d) PROVE TypeInv'
    BY <2>11 DEF RemoveCreated, Rmdir, history, journal
  <2>12. CASE RemoveCreatedDone
    BY <2>12 DEF RemoveCreatedDone, history, journal
  <2> QED BY <1>3, <2>1, <2>2, <2>3, <2>4, <2>5, <2>6, <2>7, <2>8, <2>9, <2>10,
             <2>11, <2>12 DEF Rollback
<1>4. CASE Cleanup
  <2>1. ASSUME NEW i \in Action, PurgeBackup(i) PROVE TypeInv'
    BY <2>1 DEF PurgeBackup, history, journal, process
  <2>2. CASE PurgeDone
    <3>1. (UNION {BackupDirs[i] : i \in Purged}) \subseteq Dir
      BY DEF Purged
    <3>2. work' \subseteq Dir
      BY <2>2, <3>1 DEF PurgeDone
    <3> QED BY <2>2, <3>2 DEF PurgeDone, history, journal
  <2>3. ASSUME NEW d \in Dir, SweepDirectory(d) PROVE TypeInv'
    BY <2>3 DEF SweepDirectory, Rmdir, history, journal
  <2>4. CASE SweepRefused
    BY <2>4 DEF SweepRefused, history, journal
  <2>5. CASE SweepDone
    BY <2>5 DEF SweepDone, history, journal
  <2>6. CASE UnlinkJournal
    BY <2>6 DEF UnlinkJournal
  <2>7. CASE RemoveStateBackup
    BY <2>7 DEF RemoveStateBackup, history, journal
  <2> QED BY <1>4, <2>1, <2>2, <2>3, <2>4, <2>5, <2>6, <2>7 DEF Cleanup
<1>5. CASE ApplyFails
  BY <1>5 DEF ApplyFails, history, journal
<1>6. CASE Recover
  <2>1. CASE RecoverByRollback
    BY <2>1 DEF RecoverByRollback, BeginRollback, history
  <2>2. CASE RecoverByCleanup
    BY <2>2 DEF RecoverByCleanup, Recoverable, history, journal
  <2> QED BY <1>6, <2>1, <2>2 DEF Recover
<1>7. CASE Crash
  <2>1. WriteTarget \subseteq Dir
    BY DEF WriteTarget, Innermost
  <2>2. occupied' \subseteq Dir
    BY <1>7, <2>1 DEF Crash
  <2> QED BY <1>7, <2>2 DEF Crash, history, journal
<1>8. CASE OfflineEdit
  <2>1. ASSUME NEW i \in Action, NEW c \in File, EditFile(i, c) PROVE TypeInv'
    BY <2>1 DEF EditFile, journal, process
  <2>2. ASSUME NEW i \in Action, NEW c \in File, EditBackup(i, c) PROVE TypeInv'
    BY <2>2 DEF EditBackup, journal, process
  <2>3. ASSUME NEW d \in Dir, EditDirectory(d) PROVE TypeInv'
    BY <2>3 DEF EditDirectory, journal, process, history
  <2> QED BY <1>8, <2>1, <2>2, <2>3 DEF OfflineEdit
<1>9. CASE UNCHANGED vars
  BY <1>9 DEF vars, journal, process, history
<1> QED BY <1>1, <1>2, <1>3, <1>4, <1>5, <1>6, <1>7, <1>8, <1>9 DEF Next, ProcessStep

LEMMA TypeInitially ==
  ASSUME Init
  PROVE  TypeInv
BY TransactionAssumption, PlanFacts
   DEF Init, TypeInv, TypeOK, CursorOK, Action, File, ActionPhase, pre

\* The engine keeps its types, whatever fails and whatever is edited.
THEOREM TypeCorrect == Spec => []TypeOK
<1>1. Init => TypeInv
  BY TypeInitially
<1>2. TypeInv /\ [Next]_vars => TypeInv'
  BY TypeStep
<1>3. TypeInv => TypeOK
  BY DEF TypeInv
<1> QED BY <1>1, <1>2, <1>3, PTL DEF Spec

-----------------------------------------------------------------------------
\* The inductive invariant behind the safety properties.

\* Where the process is, what the journal says and how things stand.
PhaseOK ==
  /\ pc = "begin" => jphase = "none" /\ outcome = "open"
  /\ pc \in {"mkdir", "recordDir"} => jphase = "preparingDirectories"
  /\ pc = "backup" => jphase = "prepared"
  /\ pc \in {"check", "rollback"} => jphase \in {"prepared", "applying"}
  /\ pc \in {"mutate", "verify", "commit"} => jphase = "applying"
  /\ pc \in {"undo", "restore", "restored", "discard", "rmdirs"} => jphase = "rollingBack"
  /\ pc = "purge" => jphase = "committed"
  /\ pc = "unlink" => jphase \in {"rollingBack", "committed"}
  /\ pc = "sweep" => jphase \in {"committed", "none"} /\ outcome = "committed"
  /\ pc = "tail" => jphase = "none" /\ outcome = "committed"
  /\ pc = "done" => jphase = "none"
  /\ jphase = "committed" => outcome = "committed"
  /\ jphase \in {"preparingDirectories", "prepared", "applying", "rollingBack"}
       => outcome = "open"

\* Nobody edits before the process has been interrupted once.
FirstRun == {"begin", "mkdir", "recordDir", "backup", "check", "mutate", "verify",
             "commit", "rollback"}
Undisturbed == pc \in FirstRun => touched = {}

\* A file is always in the directories that enclose it ...
FilesInDirs ==
  \A i \in Action : disk[i] # Absent => \A d \in FileDirs[i] : Present(d)

\* ... which are all there before the first file is changed.
DirsReady ==
  /\ pc \in {"mkdir", "recordDir"} => \A d \in JournalDirs : d \in pending \/ Present(d)
  /\ pc = "recordDir" => \A d \in work : Present(d)
  /\ pc \in {"backup", "check", "mutate", "verify", "commit"}
       => \A d \in JournalDirs : Present(d)

\* Before the commit a file is old or new, and a new one has its evidence.
FilesOK ==
  \A i \in Action \ touched :
    IF outcome = "committed" THEN disk[i] = post[i]
    ELSE /\ disk[i] \in {pre[i], post[i]}
         /\ Changed(i) => /\ jphase \in {"applying", "rollingBack"}
                          /\ mark[i] \in {"applying", "applied", "rollingBack"}
                          /\ HasBackup(i) => bak[i] = pre[i]

\* How far the first run has come.
ProgressOK ==
  /\ pc = "backup" => \A i \in Action : i < cur => bak[i] = pre[i]
  /\ pc \in {"check", "mutate", "verify", "commit", "rollback"}
       => \A i \in Action : bak[i] = pre[i]
  /\ pc \in {"check", "mutate", "verify"}
       => \A i \in Action : /\ i < cur => disk[i] = post[i]
                            /\ i > cur => disk[i] = pre[i]
  /\ pc \in {"check", "mutate"} => disk[cur] = pre[cur]
  /\ pc = "mutate" => mark[cur] = "applying"
  /\ pc = "verify" => disk[cur] = post[cur] /\ mark[cur] = "applying"
  /\ pc = "commit" => \A i \in Action : disk[i] = post[i]

\* How far a rollback has come.
UndoOK ==
  /\ pc \in {"undo", "restore", "restored"} =>
       \A i \in Action \ touched :
         /\ i > cur => disk[i] = pre[i]
         /\ Changed(i) => i \in todo
  /\ pc \in {"undo", "restore", "restored"} =>
       \A i \in todo : \A d \in FileDirs[i] : Present(d)
  /\ pc \in {"restore"} => cur \in todo /\ mark[cur] = "rollingBack"
  /\ pc = "restored" => disk[cur] = pre[cur]
  /\ pc \in {"discard", "rmdirs"} \/ (pc = "unlink" /\ jphase = "rollingBack")
       => \A i \in Action \ touched : disk[i] = pre[i]

SafetyInv ==
  /\ PhaseOK /\ Undisturbed /\ FilesInDirs /\ DirsReady
  /\ FilesOK /\ ChangesFormPrefix /\ ProgressOK /\ UndoOK

\* The plan fixes the directories the journal records.
LEMMA JournalDirsFixed ==
  ASSUME plan' = plan
  PROVE  JournalDirs' = JournalDirs
BY DEF JournalDirs, HasBackup, pre

\* A rollback that begins, in the process or in a recovery, has found every
\* changed file among those to restore, each in a directory that is there.
LEMMA RollbackBegins ==
  ASSUME TypeInv, SafetyInv, BeginRollback,
         jphase \in {"preparingDirectories", "prepared", "applying", "rollingBack"}
  PROVE  SafetyInv'
<1> USE TransactionAssumption, PlanFacts, JournalDirsFixed
    DEF TypeInv, TypeOK, Action, SafetyInv, BeginRollback, Changed, HasBackup,
        Present, pre, post, history
<1>1. \A i \in Action \ touched : Changed(i) => i \in todo'
  <2> SUFFICES ASSUME NEW i \in Action \ touched, Changed(i)
               PROVE  Applied(i, MissingDirs)
    OBVIOUS
  <2>1. CASE Beneath(FileDirs[i], MissingDirs)
    <3>1. pre[i] = Absent
      BY <2>1 DEF RollbackReady, Classifiable
    <3>2. \A d \in FileDirs[i] : Present(d)
      BY <3>1 DEF FilesInDirs
    <3> QED BY <2>1, <3>2 DEF Beneath, MissingDirs
  <2> QED BY <2>1 DEF Applied
<1>2. \A i \in todo' : \A d \in FileDirs[i] : Present(d)
  BY DEF Applied, Beneath, MissingDirs, JournalDirs
<1>3. UndoOK'
  BY <1>1, <1>2 DEF UndoOK
<1>4. PhaseOK' /\ Undisturbed' /\ FilesInDirs' /\ DirsReady'
  BY DEF PhaseOK, Undisturbed, FirstRun, FilesInDirs, DirsReady
<1>5. FilesOK' /\ ChangesFormPrefix' /\ ProgressOK'
  BY DEF PhaseOK, FilesOK, ChangesFormPrefix, ProgressOK
<1> QED BY <1>3, <1>4, <1>5

\* No step breaks the invariant.
LEMMA SafetyStep ==
  ASSUME TypeInv, SafetyInv, [Next]_vars
  PROVE  SafetyInv'
<1> USE TransactionAssumption, PlanFacts, JournalDirsFixed
    DEF TypeInv, TypeOK, CursorOK, Action, File, ActionPhase, SafetyInv, PhaseOK,
        FirstRun, Undisturbed, FilesInDirs, DirsReady, FilesOK, ChangesFormPrefix,
        ProgressOK, UndoOK, Changed, HasBackup, Present, pre, post,
        history, journal, process
<1>1. CASE Prepare
  <2>1. CASE WriteJournal
    BY <2>1 DEF WriteJournal, MissingDirs
  <2>2. ASSUME NEW d \in Dir, MakeDirectory(d) PROVE SafetyInv'
    BY <2>2 DEF MakeDirectory
  <2>3. CASE RecordDirectory
    BY <2>3 DEF RecordDirectory
  <2>4. CASE FinishPreparation
    BY <2>4 DEF FinishPreparation
  <2> QED BY <1>1, <2>1, <2>2, <2>3, <2>4 DEF Prepare
<1>2. CASE Apply
  <2>1. CASE BackUp
    BY <2>1 DEF BackUp
  <2>2. CASE StartApply
    BY <2>2 DEF StartApply
  <2>3. CASE RefuseApply
    BY <2>3 DEF RefuseApply
  <2>4. CASE Checkpoint
    BY <2>4 DEF Checkpoint
  <2>5. CASE Mutate
    <3>1. disk' = [disk EXCEPT ![cur] = post[cur]] /\ cur \in Action
      BY <2>5 DEF Mutate
    <3>2. FilesInDirs'
      <4>1. \A d \in FileDirs[cur] : Present(d)
        BY <2>5 DEF Mutate, JournalDirs
      <4> QED BY <2>5, <4>1, <3>1 DEF Mutate
    <3>3. FilesOK'
      BY <2>5, <3>1 DEF Mutate
    <3>4. ChangesFormPrefix'
      BY <2>5, <3>1 DEF Mutate
    <3>5. ProgressOK'
      BY <2>5, <3>1 DEF Mutate
    <3> QED BY <2>5, <3>2, <3>3, <3>4, <3>5 DEF Mutate
  <2>6. CASE Verify
    BY <2>6 DEF Verify
  <2>7. CASE Commit
    BY <2>7 DEF Commit
  <2> QED BY <1>2, <2>1, <2>2, <2>3, <2>4, <2>5, <2>6, <2>7 DEF Apply
<1>3. CASE Rollback
  <2>1. CASE RollbackInProcess
    BY <2>1, RollbackBegins DEF RollbackInProcess
  <2>2. CASE RollbackRefused
    BY <2>2 DEF RollbackRefused
  <2>3. CASE UndoNothing
    BY <2>3 DEF UndoNothing
  <2>4. CASE UndoCheckpoint
    BY <2>4 DEF UndoCheckpoint
  <2>5. CASE Restore
    BY <2>5 DEF Restore
  <2>6. CASE UndoVerify
    BY <2>6 DEF UndoVerify
  <2>7. CASE UndoRefused
    BY <2>7 DEF UndoRefused
  <2>8. CASE UndoDone
    BY <2>8 DEF UndoDone
  <2>9. ASSUME NEW i \in Action, DiscardBackup(i) PROVE SafetyInv'
    BY <2>9 DEF DiscardBackup
  <2>10. CASE DiscardDone
    BY <2>10 DEF DiscardDone
  <2>11. ASSUME NEW d \in Dir, RemoveCreated(d) PROVE SafetyInv'
    BY <2>11 DEF RemoveCreated, Rmdir, Empty
  <2>12. CASE RemoveCreatedDone
    BY <2>12 DEF RemoveCreatedDone
  <2> QED BY <1>3, <2>1, <2>2, <2>3, <2>4, <2>5, <2>6, <2>7, <2>8, <2>9, <2>10, <2>11, <2>12 DEF Rollback
<1>4. CASE Cleanup
  <2>1. ASSUME NEW i \in Action, PurgeBackup(i) PROVE SafetyInv'
    BY <2>1 DEF PurgeBackup
  <2>2. CASE PurgeDone
    BY <2>2 DEF PurgeDone
  <2>3. ASSUME NEW d \in Dir, SweepDirectory(d) PROVE SafetyInv'
    BY <2>3 DEF SweepDirectory, Rmdir, Empty
  <2>4. CASE SweepRefused
    BY <2>4 DEF SweepRefused
  <2>5. CASE SweepDone
    BY <2>5 DEF SweepDone
  <2>6. CASE UnlinkJournal
    BY <2>6 DEF UnlinkJournal
  <2>7. CASE RemoveStateBackup
    BY <2>7 DEF RemoveStateBackup
  <2> QED BY <1>4, <2>1, <2>2, <2>3, <2>4, <2>5, <2>6, <2>7 DEF Cleanup
<1>5. CASE ApplyFails
  BY <1>5 DEF ApplyFails
<1>6. CASE Recover
  <2>1. CASE RecoverByRollback
    BY <2>1, RollbackBegins DEF RecoverByRollback
  <2>2. CASE RecoverByCleanup
    BY <2>2 DEF RecoverByCleanup, Recoverable
  <2> QED BY <1>6, <2>1, <2>2 DEF Recover
<1>7. CASE Crash
  BY <1>7 DEF Crash
<1>8. CASE OfflineEdit
  <2>1. ASSUME NEW i \in Action, NEW c \in File, EditFile(i, c) PROVE SafetyInv'
    BY <1>8, <2>1 DEF OfflineEdit, EditFile
  <2>2. ASSUME NEW i \in Action, NEW c \in File, EditBackup(i, c) PROVE SafetyInv'
    BY <1>8, <2>2 DEF OfflineEdit, EditBackup
  <2>3. ASSUME NEW d \in Dir, EditDirectory(d) PROVE SafetyInv'
    BY <1>8, <2>3 DEF OfflineEdit, EditDirectory, Empty
  <2> QED BY <1>8, <2>1, <2>2, <2>3 DEF OfflineEdit
<1>9. CASE UNCHANGED vars
  BY <1>9 DEF vars
<1> QED BY <1>1, <1>2, <1>3, <1>4, <1>5, <1>6, <1>7, <1>8, <1>9 DEF Next, ProcessStep

\* The invariant holds from the first state on.
THEOREM Invariance == Spec => [](TypeInv /\ SafetyInv)
<1>1. Init => TypeInv
  BY TypeInitially
<1>2. Init => SafetyInv
  BY PlanFacts
     DEF Init, SafetyInv, PhaseOK, FirstRun, Undisturbed, FilesInDirs, DirsReady,
         FilesOK, ChangesFormPrefix, ProgressOK, UndoOK, Changed, Present, pre, post
<1>3. (TypeInv /\ SafetyInv) /\ [Next]_vars => (TypeInv /\ SafetyInv)'
  BY TypeStep, SafetyStep
<1> QED BY <1>1, <1>2, <1>3, PTL DEF Spec

-----------------------------------------------------------------------------
\* The safety properties.

\* No file is changed before its old content is safe and journalled.
THEOREM WriteAhead == Spec => []EvidenceBeforeChange
<1>1. SafetyInv => EvidenceBeforeChange
  BY DEF SafetyInv, FilesOK, EvidenceBeforeChange
<1> QED BY <1>1, Invariance, PTL

\* Changes are applied in plan order and undone in reverse.
THEOREM PlanOrder == Spec => []ChangesFormPrefix
<1>1. SafetyInv => ChangesFormPrefix
  BY DEF SafetyInv
<1> QED BY <1>1, Invariance, PTL

\* A finished transaction changed everything or nothing.
THEOREM Atomicity == Spec => []AllOrNothing
<1>1. SafetyInv => AllOrNothing
  BY DEF SafetyInv, FilesOK, AllOrNothing, Changed
<1> QED BY <1>1, Invariance, PTL

\* Neither the installer nor a recovery overwrites a foreign content.
THEOREM ForeignSafe == Spec => ForeignContentKept
<1>1. TypeInv /\ SafetyInv /\ [Next]_vars =>
        [\A i \in Action :
           disk[i] \notin {pre[i], post[i]} => (disk'[i] = disk[i] \/ edits' # edits)]_vars
  <2> SUFFICES ASSUME TypeInv, SafetyInv, Next, NEW i \in Action,
                      disk[i] \notin {pre[i], post[i]}
               PROVE  disk'[i] = disk[i] \/ edits' # edits
    OBVIOUS
  <2> USE DEF TypeInv, TypeOK
  <2>1. CASE Prepare
    BY <2>1 DEF Prepare, WriteJournal, MakeDirectory, RecordDirectory, FinishPreparation
  <2>2. CASE Apply
    <3>1. CASE Mutate
      BY <3>1 DEF Mutate, SafetyInv, ProgressOK
    <3> QED BY <2>2, <3>1
            DEF Apply, BackUp, StartApply, RefuseApply, Checkpoint, Verify, Commit
  <2>3. CASE Rollback
    <3>1. CASE Restore
      BY <3>1 DEF Restore, HoldsNew
    <3> QED BY <2>3, <3>1
            DEF Rollback, RollbackInProcess, BeginRollback, RollbackRefused, UndoNothing,
                UndoCheckpoint, UndoVerify, UndoRefused, UndoDone, DiscardBackup,
                DiscardDone, RemoveCreated, RemoveCreatedDone
  <2>4. CASE Cleanup
    BY <2>4 DEF Cleanup, PurgeBackup, PurgeDone, SweepDirectory, SweepRefused, SweepDone,
                UnlinkJournal, RemoveStateBackup
  <2>5. CASE ApplyFails \/ Recover \/ Crash
    BY <2>5 DEF ApplyFails, Recover, RecoverByRollback, BeginRollback, RecoverByCleanup,
                Crash
  <2>6. CASE OfflineEdit
    BY <2>6 DEF OfflineEdit, EditFile, EditBackup, EditDirectory
  <2> QED BY <2>1, <2>2, <2>3, <2>4, <2>5, <2>6 DEF Next, ProcessStep
<1> QED BY <1>1, Invariance, PTL DEF Spec, ForeignContentKept

-----------------------------------------------------------------------------
(* Directories and backups.  These invariants do not mention the files, so *)
(* they hold beside a user who edits files while the engine runs.          *)

\* A backup is always in the directories that enclose it.
BackupsInDirs ==
  \A i \in Action : bak[i] # Absent => \A d \in BackupDirs[i] : Present(d)

\* What a rollback or a cleanup found missing when it began is still missing.
StillMissing ==
  /\ \A d \in missing : ~Present(d)
  /\ pc \in FirstRun \cup {"down"} => missing = {}

\* The directories that a sweep may remove.
Sweepable ==
  (UNION {BackupDirs[i] : i \in Action})
    \cup (IF plan.op = "uninstall" THEN ManagedDirs ELSE {})

SweepScope ==
  /\ pc \in FirstRun => \A d \in Dir : dir[d] # "replaced"
  /\ pc \in {"discard", "rmdirs"} => work \subseteq created
  /\ pc = "sweep" => work \subseteq Sweepable

\* Which backups there are before the decision, after a rollback, ...
BackedUp ==
  /\ pc = "backup" => \A i \in Action : i < cur => bak[i] = pre[i]
  /\ pc \in {"check", "mutate", "verify", "commit"} => \A i \in Action : bak[i] = pre[i]
  /\ pc = "rmdirs" \/ (pc = "unlink" /\ jphase = "rollingBack")
       => \A i \in Action : bak[i] = Absent

\* ... and after a commit: the purged ones go, the others stay.
PurgedOnly ==
  outcome = "committed" =>
    /\ \A i \in Action \ touched : HasBackup(i) /\ i \notin Purged =>
         bak[i] = pre[i] \/ (plan.op = "uninstall" /\ jphase = "none")
    /\ pc \in {"sweep", "unlink"} \/ jphase = "none" => \A i \in Purged : bak[i] = Absent
    /\ plan.op = "uninstall" /\ jphase = "none" /\ pc \in {"sweep", "done"} =>
         bak[StateAction] = Absent

SweepInv ==
  /\ PhaseOK /\ DirsReady /\ BackupsInDirs /\ StillMissing /\ SweepScope
  /\ BackedUp /\ PurgedOnly

\* The plan fixes what is purged and what is swept.
LEMMA PurgedFixed ==
  ASSUME plan' = plan
  PROVE  Purged' = Purged /\ Sweepable' = Sweepable
BY DEF Purged, Sweepable, HasBackup, pre

LEMMA RollbackSweeps ==
  ASSUME TypeInv, SweepInv, BeginRollback,
         jphase \in {"preparingDirectories", "prepared", "applying", "rollingBack"}
  PROVE  SweepInv'
BY PlanFacts, JournalDirsFixed
   DEF TypeInv, TypeOK, SweepInv, BeginRollback, PhaseOK, DirsReady, BackupsInDirs,
       StillMissing, SweepScope, BackedUp, PurgedOnly, FirstRun, Present, MissingDirs, history

\* No step breaks it, neither one of the engine nor one of the user.
LEMMA SweepStep ==
  ASSUME TypeInv, SweepInv, [Next \/ OnlineEdit]_vars
  PROVE  SweepInv'
<1> USE TransactionAssumption, PlanFacts, JournalDirsFixed, PurgedFixed
    DEF TypeInv, TypeOK, CursorOK, Action, File, SweepInv, PhaseOK,
        FirstRun, DirsReady, BackupsInDirs, StillMissing, SweepScope, BackedUp, PurgedOnly,
        HasBackup, Present, pre, post, history, journal, process
<1>1. CASE Prepare
  <2>1. CASE WriteJournal
    BY <2>1 DEF WriteJournal, MissingDirs
  <2>2. ASSUME NEW d \in Dir, MakeDirectory(d) PROVE SweepInv'
    BY <2>2 DEF MakeDirectory
  <2>3. CASE RecordDirectory
    BY <2>3 DEF RecordDirectory
  <2>4. CASE FinishPreparation
    BY <2>4 DEF FinishPreparation
  <2> QED BY <1>1, <2>1, <2>2, <2>3, <2>4 DEF Prepare
<1>2. CASE Apply
  <2>1. CASE BackUp
    BY <2>1 DEF BackUp, JournalDirs
  <2>2. CASE StartApply
    BY <2>2 DEF StartApply
  <2>3. CASE RefuseApply
    BY <2>3 DEF RefuseApply
  <2>4. CASE Checkpoint
    BY <2>4 DEF Checkpoint
  <2>5. CASE Mutate
    BY <2>5 DEF Mutate
  <2>6. CASE Verify
    BY <2>6 DEF Verify
  <2>7. CASE Commit
    BY <2>7 DEF Commit
  <2> QED BY <1>2, <2>1, <2>2, <2>3, <2>4, <2>5, <2>6, <2>7 DEF Apply
<1>3. CASE Rollback
  <2>1. CASE RollbackInProcess
    BY <2>1, RollbackSweeps DEF RollbackInProcess
  <2>2. CASE RollbackRefused
    BY <2>2 DEF RollbackRefused
  <2>3. CASE UndoNothing
    BY <2>3 DEF UndoNothing
  <2>4. CASE UndoCheckpoint
    BY <2>4 DEF UndoCheckpoint
  <2>5. CASE Restore
    BY <2>5 DEF Restore
  <2>6. CASE UndoVerify
    BY <2>6 DEF UndoVerify
  <2>7. CASE UndoRefused
    BY <2>7 DEF UndoRefused
  <2>8. CASE UndoDone
    BY <2>8 DEF UndoDone, RollbackDirectories
  <2>9. ASSUME NEW i \in Action, DiscardBackup(i) PROVE SweepInv'
    BY <2>9 DEF DiscardBackup
  <2>10. CASE DiscardDone
    BY <2>10 DEF DiscardDone, Beneath
  <2>11. ASSUME NEW d \in Dir, RemoveCreated(d) PROVE SweepInv'
    BY <2>11 DEF RemoveCreated, Rmdir, Empty
  <2>12. CASE RemoveCreatedDone
    BY <2>12 DEF RemoveCreatedDone
  <2> QED BY <1>3, <2>1, <2>2, <2>3, <2>4, <2>5, <2>6, <2>7, <2>8, <2>9, <2>10, <2>11, <2>12 DEF Rollback
<1>4. CASE Cleanup
  <2>1. ASSUME NEW i \in Action, PurgeBackup(i) PROVE SweepInv'
    BY <2>1 DEF PurgeBackup
  <2>2. CASE PurgeDone
    <3>1. \A i \in Purged : i \in Action /\ bak[i] = Absent
      BY <2>2 DEF PurgeDone, Beneath, Purged
    <3>2. work' \subseteq Sweepable
      BY <2>2, <3>1 DEF PurgeDone, Sweepable
    <3> QED BY <2>2, <3>1, <3>2 DEF PurgeDone
  <2>3. ASSUME NEW d \in Dir, SweepDirectory(d) PROVE SweepInv'
    BY <2>3 DEF SweepDirectory, Rmdir, Empty
  <2>4. CASE SweepRefused
    BY <2>4 DEF SweepRefused
  <2>5. CASE SweepDone
    BY <2>5 DEF SweepDone
  <2>6. CASE UnlinkJournal
    BY <2>6 DEF UnlinkJournal
  <2>7. CASE RemoveStateBackup
    BY <2>7 DEF RemoveStateBackup, Purged, Sweepable
  <2> QED BY <1>4, <2>1, <2>2, <2>3, <2>4, <2>5, <2>6, <2>7 DEF Cleanup
<1>5. CASE ApplyFails
  BY <1>5 DEF ApplyFails
<1>6. CASE Recover
  <2>1. CASE RecoverByRollback
    BY <2>1, RollbackSweeps DEF RecoverByRollback
  <2>2. CASE RecoverByCleanup
    BY <2>2 DEF RecoverByCleanup, Recoverable, MissingDirs
  <2> QED BY <1>6, <2>1, <2>2 DEF Recover
<1>7. CASE Crash
  BY <1>7 DEF Crash
<1>8. CASE OfflineEdit
  <2>1. ASSUME NEW i \in Action, NEW c \in File, EditFile(i, c) PROVE SweepInv'
    BY <1>8, <2>1 DEF OfflineEdit, EditFile
  <2>2. ASSUME NEW i \in Action, NEW c \in File, EditBackup(i, c) PROVE SweepInv'
    BY <1>8, <2>2 DEF OfflineEdit, EditBackup
  <2>3. ASSUME NEW d \in Dir, EditDirectory(d) PROVE SweepInv'
    BY <1>8, <2>3 DEF OfflineEdit, EditDirectory, Empty
  <2> QED BY <1>8, <2>1, <2>2, <2>3 DEF OfflineEdit
<1>9. CASE OnlineEdit
  <2>1. ASSUME NEW i \in Action, NEW c \in File, EditFile(i, c) PROVE SweepInv'
    BY <2>1 DEF EditFile
  <2> QED BY <1>9, <2>1 DEF OnlineEdit
<1>10. CASE UNCHANGED vars
  BY <1>10 DEF vars
<1> QED BY <1>1, <1>2, <1>3, <1>4, <1>5, <1>6, <1>7, <1>8, <1>9, <1>10 DEF Next, ProcessStep

LEMMA OnlineTypeStep ==
  ASSUME TypeInv, [Next \/ OnlineEdit]_vars
  PROVE  TypeInv'
<1>1. CASE OnlineEdit
  <2>1. ASSUME NEW i \in Action, NEW c \in File, EditFile(i, c) PROVE TypeInv'
    BY <2>1, TransactionAssumption DEF EditFile, TypeInv, TypeOK, CursorOK, journal, process
  <2> QED BY <1>1, <2>1 DEF OnlineEdit
<1> QED BY <1>1, TypeStep

LEMMA SweepInitially ==
  ASSUME Init
  PROVE  SweepInv
BY PlanFacts, TypeInitially
   DEF Init, TypeInv, TypeOK, SweepInv, PhaseOK, DirsReady, BackupsInDirs, StillMissing,
       SweepScope, BackedUp, PurgedOnly, FirstRun, Present

LEMMA SweepInvariance == OnlineSpec => [](TypeInv /\ SweepInv)
<1>1. Init => TypeInv /\ SweepInv
  BY TypeInitially, SweepInitially
<1>2. (TypeInv /\ SweepInv) /\ [Next \/ OnlineEdit]_vars => (TypeInv /\ SweepInv)'
  BY OnlineTypeStep, SweepStep
<1> QED BY <1>1, <1>2, PTL DEF OnlineSpec

\* However often the cleanup after a commit is interrupted, it leaves exactly
\* the backups that the new manifest refers to, even if the user edits files
\* while the engine runs.
THEOREM BackupsCleanedUp == OnlineSpec => []CleanupExact
<1>1. TypeInv /\ SweepInv => CleanupExact
  <2> SUFFICES ASSUME TypeInv, SweepInv, outcome = "committed", jphase = "none",
                      NEW i \in Action \ touched, HasBackup(i)
               PROVE  IF plan.op = "install"
                        THEN bak[i] = IF i \in BackupActions \cup {StateAction}
                                        THEN Absent ELSE pre[i]
                        ELSE (i # StateAction \/ pc = "done") => bak[i] = Absent
    BY DEF CleanupExact
  <2>1. plan.op \in {"install", "uninstall"}
    BY PlanFacts DEF TypeInv, TypeOK
  <2> QED BY <2>1 DEF SweepInv, PurgedOnly, Purged
<1> QED BY <1>1, SweepInvariance, PTL

\* Directories that the transaction did not make stay, but for those that a
\* cleanup is meant to sweep, even if the user edits files meanwhile.
THEOREM ForeignDirectoriesSafe == OnlineSpec => ForeignDirectoriesKept
<1> DEFINE Kept(d) ==
      /\ Present(d)
      /\ outcome = "committed" =>
           /\ \A i \in Action : d \notin BackupDirs[i]
           /\ plan.op = "uninstall" => d \notin ManagedDirs
      => (dir'[d] = dir[d] \/ edits' # edits)
<1>1. ASSUME TypeInv, SweepInv, Next \/ OnlineEdit, NEW d \in Dir \ created,
             Present(d),
             outcome = "committed" =>
               /\ \A i \in Action : d \notin BackupDirs[i]
               /\ plan.op = "uninstall" => d \notin ManagedDirs
      PROVE  dir'[d] = dir[d] \/ edits' # edits
  <2> USE <1>1 DEF TypeInv, TypeOK
  <2>1. CASE Prepare
    <3>1. ASSUME NEW e \in Dir, MakeDirectory(e) PROVE dir'[d] = dir[d]
      BY <3>1 DEF MakeDirectory, SweepInv, SweepScope, FirstRun, Present
    <3> QED BY <2>1, <3>1 DEF Prepare, WriteJournal, RecordDirectory, FinishPreparation
  <2>2. CASE Apply
    BY <2>2 DEF Apply, BackUp, StartApply, RefuseApply, Checkpoint, Mutate, Verify, Commit
  <2>3. CASE Rollback
    <3>1. ASSUME NEW e \in Dir, RemoveCreated(e) PROVE dir'[d] = dir[d]
      BY <3>1 DEF RemoveCreated, Rmdir, Deepest, SweepInv, SweepScope
    <3> QED BY <2>3, <3>1
            DEF Rollback, RollbackInProcess, BeginRollback, RollbackRefused, UndoNothing,
                UndoCheckpoint, Restore, UndoVerify, UndoRefused, UndoDone, DiscardBackup,
                DiscardDone, RemoveCreatedDone
  <2>4. CASE Cleanup
    <3>1. ASSUME NEW e \in Dir, SweepDirectory(e) PROVE dir'[d] = dir[d]
      <4>1. e \in Sweepable /\ outcome = "committed"
        BY <3>1 DEF SweepDirectory, Deepest, SweepInv, SweepScope, PhaseOK
      <4>2. d # e
        BY <4>1, <1>1 DEF Sweepable
      <4> QED BY <3>1, <4>2 DEF SweepDirectory, Rmdir
    <3> QED BY <2>4, <3>1 DEF Cleanup, PurgeBackup, PurgeDone, SweepRefused, SweepDone,
                UnlinkJournal, RemoveStateBackup
  <2>5. CASE ApplyFails \/ Recover \/ Crash
    BY <2>5 DEF ApplyFails, Recover, RecoverByRollback, BeginRollback, RecoverByCleanup,
                Crash
  <2>6. CASE OfflineEdit \/ OnlineEdit
    BY <2>6 DEF OfflineEdit, OnlineEdit, EditFile, EditBackup, EditDirectory
  <2> QED BY <2>1, <2>2, <2>3, <2>4, <2>5, <2>6 DEF Next, ProcessStep
<1>2. TypeInv /\ SweepInv /\ [Next \/ OnlineEdit]_vars => [\A d \in Dir \ created : Kept(d)]_vars
  BY <1>1
<1> QED BY <1>2, SweepInvariance, PTL DEF OnlineSpec, ForeignDirectoriesKept

-----------------------------------------------------------------------------
(* What a rollback leaves behind.  Here the edits count.                   *)

\* Something foreign is in the directory, or further below.
Blocked(d) == \E e \in occupied : e = d \/ d \in ParentDirs[e]

\* The directories that this transaction makes or may have made.
New == pending \cup created

\* The tree as the transaction found it: neither the directories of a file
\* that was there nor the parents of an old directory are new.
OldTree ==
  /\ edits = 0 => touched = {}
  /\ pc = "begin" => /\ New = {}
                     /\ \A d \in Dir : Present(d) => \A e \in ParentDirs[d] : Present(e)
  /\ pc = "recordDir" => work \subseteq pending
  /\ pc \notin {"begin", "mkdir", "recordDir", "down"} => pending = {}
  /\ \A i \in Action : pre[i] # Absent => FileDirs[i] \cap New = {}
  /\ edits = 0 =>
       \A e \in Dir \ New : Present(e) => ParentDirs[e] \cap New = {}

\* How far the removal of the new directories has come.
RemovalOK ==
  /\ pc = "discard" => created \subseteq work
  /\ pc = "rmdirs" /\ edits = 0 => \A d \in created \ work : Present(d) => Blocked(d)
  /\ pc = "unlink" /\ jphase = "rollingBack" /\ edits = 0 =>
       \A d \in created : Present(d) => Blocked(d)
  /\ outcome = "rolledBack" => pc = "done" /\ RollbackLeavesNoTrace

TraceInv == OldTree /\ RemovalOK

\* A new directory from which everything else has gone is removed, or holds
\* something foreign.
LEMMA RemovalStep ==
  ASSUME TypeInv, SafetyInv, SweepInv, TraceInv, NEW d \in Dir, RemoveCreated(d), edits = 0
  PROVE  \A c \in created \ work' : Present(c)' => Blocked(c)
<1> SUFFICES ASSUME NEW c \in created \ work', Present(c)' PROVE Blocked(c)
  OBVIOUS
<1> USE TransactionAssumption DEF TypeInv, TypeOK
<1>1. /\ pc = "rmdirs" /\ d \in work /\ work' = work \ {d} /\ pending = {} /\ New = created
      /\ \A e \in work : d \notin ParentDirs[e]
      /\ dir' = [dir EXCEPT ![d] = IF Empty(d) THEN "missing" ELSE dir[d]]
  BY DEF RemoveCreated, Deepest, Rmdir, TraceInv, OldTree, New
<1>2. \A e \in created \ work : Present(e) => Blocked(e)
  BY <1>1 DEF TraceInv, RemovalOK
<1>3. CASE c # d
  BY <1>1, <1>2, <1>3 DEF Present
<1>4. CASE c = d
  <2>1. ~Empty(d)
    BY <1>1, <1>4 DEF Present
  <2>2. \A i \in Action : bak[i] = Absent /\ disk[i] = pre[i]
    BY <1>1 DEF SweepInv, BackedUp, SafetyInv, UndoOK, TraceInv, OldTree
  <2>3. \A i \in Action : disk[i] # Absent => d \notin FileDirs[i]
    BY <1>1, <1>4, <2>2 DEF TraceInv, OldTree
  <2>4. CASE d \in occupied
    BY <1>4, <2>4 DEF Blocked
  <2>5. CASE d \notin occupied
    <3>1. PICK e \in Dir : d \in ParentDirs[e] /\ Present(e)
      BY <2>1, <2>2, <2>3, <2>5 DEF Empty
    <3>2. e \in created \ work
      BY <1>1, <1>4, <3>1 DEF TraceInv, OldTree
    <3>3. PICK f \in occupied : f = e \/ e \in ParentDirs[f]
      BY <1>2, <3>1, <3>2 DEF Blocked
    <3>4. d \in ParentDirs[f]
      BY <3>1, <3>3, AncestorAssumption
    <3> QED BY <1>4, <3>4 DEF Blocked
  <2> QED BY <2>4, <2>5
<1> QED BY <1>3, <1>4

\* No step breaks it.
LEMMA TraceStep ==
  ASSUME TypeInv, SafetyInv, SweepInv, TraceInv, [Next]_vars
  PROVE  TraceInv'
<1> USE TransactionAssumption, PlanFacts, JournalDirsFixed
    DEF TypeInv, TypeOK, CursorOK, Action, File, TraceInv, OldTree, RemovalOK, Blocked, New,
        RollbackLeavesNoTrace, Present, pre, history, journal, process
<1>0. PhaseOK /\ FilesInDirs
  BY DEF SafetyInv
<1>1. CASE Prepare
  <2>1. CASE WriteJournal
    <3>1. \A i \in Action : pre[i] # Absent => disk[i] # Absent
      BY <2>1 DEF WriteJournal, SafetyInv, PhaseOK, Undisturbed, FirstRun, FilesOK, Changed
    <3>2. \A i \in Action : pre[i] # Absent => FileDirs[i] \cap MissingDirs = {}
      BY <1>0, <3>1 DEF FilesInDirs, MissingDirs
    <3> QED BY <1>0, <2>1, <3>2 DEF WriteJournal, MissingDirs, PhaseOK
  <2>2. ASSUME NEW d \in Dir, MakeDirectory(d) PROVE TraceInv'
    BY <1>0, <2>2 DEF MakeDirectory, PhaseOK
  <2>3. CASE RecordDirectory
    <3>1. New' = New
      BY <2>3 DEF RecordDirectory
    <3> QED BY <1>0, <2>3, <3>1 DEF RecordDirectory, PhaseOK
  <2>4. CASE FinishPreparation
    BY <1>0, <2>4 DEF FinishPreparation, PhaseOK
  <2> QED BY <1>1, <2>1, <2>2, <2>3, <2>4 DEF Prepare
<1>2. CASE Apply
  BY <1>0, <1>2 DEF Apply, BackUp, StartApply, RefuseApply, Checkpoint, Mutate, Verify, Commit,
    PhaseOK
<1>3. CASE Rollback
  <2>1. ASSUME NEW d \in Dir, RemoveCreated(d) PROVE TraceInv'
    <3>1. RemovalOK'
      BY <1>0, <2>1, RemovalStep DEF RemoveCreated, PhaseOK
    <3>2. OldTree'
      BY <2>1 DEF RemoveCreated, Rmdir
    <3> QED BY <3>1, <3>2
  <2>2. CASE RemoveCreatedDone
    BY <1>0, <2>2 DEF RemoveCreatedDone, PhaseOK
  <2>3. CASE RollbackInProcess
    BY <1>0, <2>3 DEF RollbackInProcess, BeginRollback, PhaseOK
  <2>4. CASE UndoDone
    BY <1>0, <2>4 DEF UndoDone, RollbackDirectories, PhaseOK
  <2>5. CASE DiscardDone
    BY <1>0, <2>5 DEF DiscardDone, PhaseOK
  <2> QED BY <1>0, <1>3, <2>1, <2>2, <2>3, <2>4, <2>5
          DEF Rollback, RollbackRefused, UndoNothing, UndoCheckpoint, Restore, UndoVerify,
              UndoRefused, DiscardBackup, PhaseOK
<1>4. CASE Cleanup
  <2>1. ASSUME NEW d \in Dir, SweepDirectory(d) PROVE TraceInv'
    BY <1>0, <2>1 DEF SweepDirectory, Rmdir, PhaseOK
  <2>2. CASE UnlinkJournal
    BY <1>0, <2>2 DEF UnlinkJournal, PhaseOK, SweepInv, BackedUp
  <2> QED BY <1>0, <1>4, <2>1, <2>2
          DEF Cleanup, PurgeBackup, PurgeDone, SweepRefused, SweepDone, RemoveStateBackup, PhaseOK
<1>5. CASE ApplyFails
  BY <1>0, <1>5 DEF ApplyFails, PhaseOK
<1>6. CASE Recover
  BY <1>0, <1>6 DEF Recover, RecoverByRollback, BeginRollback, RecoverByCleanup, Recoverable, PhaseOK
<1>7. CASE Crash
  BY <1>0, <1>7 DEF Crash, PhaseOK
<1>8. CASE OfflineEdit
  <2>1. ASSUME NEW i \in Action, NEW c \in File, EditFile(i, c) PROVE TraceInv'
    BY <1>8, <2>1 DEF OfflineEdit, EditFile
  <2>2. ASSUME NEW i \in Action, NEW c \in File, EditBackup(i, c) PROVE TraceInv'
    BY <1>8, <2>2 DEF OfflineEdit, EditBackup
  <2>3. ASSUME NEW d \in Dir, EditDirectory(d) PROVE TraceInv'
    BY <1>8, <2>3 DEF OfflineEdit, EditDirectory
  <2> QED BY <1>8, <2>1, <2>2, <2>3 DEF OfflineEdit
<1>9. CASE UNCHANGED vars
  BY <1>9 DEF vars
<1> QED BY <1>1, <1>2, <1>3, <1>4, <1>5, <1>6, <1>7, <1>8, <1>9 DEF Next, ProcessStep

\* A finished rollback leaves no backup, and no directory of its own unless
\* something foreign is in it.
THEOREM RollbackIsClean == Spec => []RollbackLeavesNoTrace
<1>1. Init => TraceInv
  BY TypeInitially DEF Init, TypeInv, TypeOK, TraceInv, OldTree, RemovalOK, New, Present
<1>2. TypeInv /\ SafetyInv /\ SweepInv /\ TraceInv /\ [Next]_vars => TraceInv'
  BY TraceStep
<1>3. Spec => [](TypeInv /\ SweepInv)
  <2>1. Init => TypeInv /\ SweepInv
    BY TypeInitially, SweepInitially
  <2>2. (TypeInv /\ SweepInv) /\ [Next]_vars => (TypeInv /\ SweepInv)'
    BY TypeStep, SweepStep
  <2> QED BY <2>1, <2>2, PTL DEF Spec
<1>4. TraceInv => RollbackLeavesNoTrace
  BY DEF TraceInv, RemovalOK, RollbackLeavesNoTrace
<1> QED BY <1>1, <1>2, <1>3, <1>4, Invariance, PTL DEF Spec

-----------------------------------------------------------------------------
(* Progress.  Every step brings the engine nearer to its end, and while    *)
(* nobody edits there is a step left to take: together, what Resolved says *)
(* of a scheduler that goes on.                                            *)

\* The part of the transaction the engine is in, counted down to its end.
Level ==
  CASE pc = "begin" -> 12
    [] pc \in {"mkdir", "recordDir"} -> 11
    [] pc = "backup" -> 10
    [] pc \in {"check", "mutate", "verify"} -> 9
    [] pc \in {"commit", "rollback"} -> 8
    [] pc = "down" -> 7
    [] pc \in {"undo", "restore", "restored"} -> 6
    [] pc \in {"discard", "purge"} -> 5
    [] pc = "rmdirs" \/ (pc = "sweep" /\ jphase # "none") -> 4
    [] pc = "unlink" -> 3
    [] pc = "tail" -> 2
    [] pc = "sweep" /\ jphase = "none" -> 1
    [] OTHER -> 0

\* What that part has still to handle.
Left ==
  CASE pc = "mkdir" -> pending
    [] pc = "recordDir" -> pending \ work
    [] pc \in {"backup", "check", "mutate", "verify"} -> cur .. NumActions
    [] pc \in {"undo", "restore", "restored"} -> 1 .. cur
    [] pc \in {"discard", "purge"} -> {i \in Action : bak[i] # Absent}
    [] pc \in {"rmdirs", "sweep"} -> work
    [] OTHER -> {}

\* How much of it is left for the one in hand.
Minor ==
  CASE pc \in {"check", "undo"} -> 2
    [] pc \in {"recordDir", "mutate", "restore"} -> 1
    [] OTHER -> 0

\* The lexicographic order of the edits and failures there may still be, of
\* the level, of what is left of it, and of the step.
Closer ==
  \/ edits' > edits
  \/ /\ edits' = edits
     /\ \/ failures' > failures
        \/ /\ failures' = failures
           /\ \/ Level' < Level
              \/ Level' = Level /\ Left' \subseteq Left /\ Left' # Left
              \/ Level' = Level /\ Left' = Left /\ Minor' < Minor

\* Where a rollback stands: what it has to restore can be restored.
Restorable ==
  pc \in {"undo", "restore", "restored"} =>
    \A i \in todo : i < cur \/ (i = cur /\ pc # "restored") =>
      HoldsNew(i) /\ disk[i] # pre[i] /\ (HasBackup(i) => bak[i] = pre[i])

LEMMA RestorableStep ==
  ASSUME TypeInv, SafetyInv, Restorable, [Next]_vars
  PROVE  Restorable'
<1> USE TransactionAssumption, PlanFacts
    DEF TypeInv, TypeOK, CursorOK, Action, File, Restorable, HoldsNew, HasBackup, pre, post,
        history, journal, process
<1>1. CASE Prepare
  BY <1>1 DEF Prepare, WriteJournal, MakeDirectory, RecordDirectory, FinishPreparation
<1>2. CASE Apply
  BY <1>2 DEF Apply, BackUp, StartApply, RefuseApply, Checkpoint, Mutate, Verify, Commit
<1>3. ASSUME BeginRollback PROVE Restorable'
  <2>1. \A i \in todo' : Applied(i, MissingDirs) /\ Classifiable(i, MissingDirs) /\ i \in Action
    BY <1>3 DEF BeginRollback, RollbackReady
  <2>2. \A i \in todo' : HoldsNew(i) /\ disk[i] # pre[i] /\ (HasBackup(i) => bak[i] = pre[i])
    BY <2>1 DEF Applied, Classifiable, BackupVerified
  <2> QED BY <1>3, <2>2 DEF BeginRollback
<1>4. CASE Rollback
  <2>1. CASE RollbackInProcess
    BY <1>3, <2>1 DEF RollbackInProcess
  <2>2. CASE UndoNothing
    BY <2>2 DEF UndoNothing
  <2>3. CASE UndoCheckpoint
    BY <2>3 DEF UndoCheckpoint
  <2>4. CASE Restore
    BY <2>4 DEF Restore
  <2>5. CASE UndoVerify
    BY <2>5 DEF UndoVerify
  <2> QED BY <1>4, <2>1, <2>2, <2>3, <2>4, <2>5
          DEF Rollback, RollbackRefused, UndoRefused, UndoDone, DiscardBackup, DiscardDone,
              RemoveCreated, RemoveCreatedDone
<1>5. CASE Cleanup
  BY <1>5 DEF Cleanup, PurgeBackup, PurgeDone, SweepDirectory, SweepRefused, SweepDone,
              UnlinkJournal, RemoveStateBackup
<1>6. CASE Recover
  BY <1>3, <1>6 DEF Recover, RecoverByRollback, RecoverByCleanup
<1>7. CASE ApplyFails \/ Crash
  BY <1>7 DEF ApplyFails, Crash
<1>8. CASE OfflineEdit
  BY <1>8 DEF OfflineEdit, EditFile, EditBackup, EditDirectory
<1>9. CASE UNCHANGED vars
  BY <1>9 DEF vars
<1> QED BY <1>1, <1>2, <1>4, <1>5, <1>6, <1>7, <1>8, <1>9 DEF Next, ProcessStep

LEMMA RestorableAlways == Spec => []Restorable
<1>1. Init => Restorable
  BY DEF Init, Restorable
<1>2. TypeInv /\ SafetyInv /\ Restorable /\ [Next]_vars => Restorable'
  BY RestorableStep
<1> QED BY <1>1, <1>2, Invariance, PTL DEF Spec

\* The order has no infinite descent: edits and failures are bounded, levels
\* and steps are numbers, and what is left is always a finite set.
LEMMA LeftFinite ==
  ASSUME TypeInv
  PROVE  /\ IsFiniteSet(Left)
         /\ Level \in Nat /\ Minor \in Nat
         /\ edits \in 0 .. MaxEdits /\ failures \in 0 .. MaxFailures
<1>1. IsFiniteSet(Dir) /\ NumActions \in Nat /\ cur \in Nat /\ pending \subseteq Dir /\ work \subseteq Dir
  BY TransactionAssumption DEF TypeInv, TypeOK
<1>2. IsFiniteSet(cur .. NumActions) /\ IsFiniteSet(1 .. cur) /\ IsFiniteSet(1 .. NumActions)
  BY <1>1, FS_Interval
<1>3. IsFiniteSet({i \in Action : bak[i] # Absent})
  BY <1>2, FS_Subset DEF Action
<1>4. IsFiniteSet(pending) /\ IsFiniteSet(pending \ work) /\ IsFiniteSet(work) /\ IsFiniteSet({})
  BY <1>1, FS_Subset, FS_EmptySet
<1>5. IsFiniteSet(Left)
  BY <1>2, <1>3, <1>4 DEF Left
<1>6. Level \in Nat /\ Minor \in Nat
  BY DEF Level, Minor
<1> QED BY <1>5, <1>6 DEF TypeInv, TypeOK

\* Each step goes down in that order, except where a cleanup stops at a
\* managed directory that the user has replaced.
LEMMA CloserStep ==
  ASSUME TypeInv, SafetyInv, Restorable, Next, ~SweepRefused
  PROVE  Closer
<1> USE TransactionAssumption
    DEF TypeInv, TypeOK, CursorOK, Action, Closer, history, journal, process
<1>0. PhaseOK
  BY DEF SafetyInv
<1>1. CASE Prepare
  <2>1. CASE WriteJournal
    BY <2>1 DEF WriteJournal, Level
  <2>2. ASSUME NEW d \in Dir, MakeDirectory(d) PROVE Closer
    <3>1. Level' = Level
      BY <2>2 DEF MakeDirectory, Level
    <3>2. Left = pending /\ Left' = pending \ {d} /\ d \in pending
      BY <2>2 DEF MakeDirectory, Left
    <3> QED BY <2>2, <3>1, <3>2 DEF MakeDirectory
  <2>3. CASE RecordDirectory
    BY <2>3 DEF RecordDirectory, Level, Left, Minor
  <2>4. CASE FinishPreparation
    BY <2>4 DEF FinishPreparation, Level
  <2> QED BY <1>1, <2>1, <2>2, <2>3, <2>4 DEF Prepare
<1>2. CASE Apply
  <2>1. CASE BackUp
    <3>1. Level' = Level
      BY <2>1 DEF BackUp, Level
    <3>2. Left = cur .. NumActions /\ Left' = cur + 1 .. NumActions /\ cur \in 1 .. NumActions
      BY <2>1 DEF BackUp, Left
    <3>3. Left' \subseteq Left /\ cur \in Left /\ cur \notin Left'
      BY <3>2
    <3> QED BY <2>1, <3>1, <3>3 DEF BackUp
  <2>2. CASE StartApply \/ RefuseApply \/ Commit
    BY <2>2 DEF StartApply, RefuseApply, Commit, Level
  <2>3. CASE Checkpoint
    BY <2>3 DEF Checkpoint, Level, Left, Minor
  <2>4. CASE Mutate
    BY <2>4 DEF Mutate, Level, Left, Minor
  <2>5. CASE Verify /\ cur = NumActions
    BY <2>5 DEF Verify, Level
  <2>6. CASE Verify /\ cur # NumActions
    <3>1. Level' = Level
      BY <2>6 DEF Verify, Level
    <3>2. Left = cur .. NumActions /\ Left' = cur + 1 .. NumActions /\ cur \in 1 .. NumActions
      BY <2>6 DEF Verify, Left
    <3>3. Left' \subseteq Left /\ cur \in Left /\ cur \notin Left'
      BY <3>2
    <3> QED BY <2>6, <3>1, <3>3 DEF Verify
  <2> QED BY <1>2, <2>1, <2>2, <2>3, <2>4, <2>5, <2>6 DEF Apply
<1>3. CASE Rollback
  <2>1. CASE RollbackInProcess \/ RollbackRefused
    BY <2>1 DEF RollbackInProcess, BeginRollback, RollbackRefused, Level
  <2>2. CASE UndoNothing \/ UndoVerify
    <3>1. Level' = Level /\ cur \in 1 .. NumActions
      BY <2>2 DEF UndoNothing, UndoVerify, Level
    <3>2. Left = 1 .. cur /\ Left' = 1 .. cur - 1
      BY <2>2 DEF UndoNothing, UndoVerify, Left
    <3>3. Left' \subseteq Left /\ cur \in Left /\ cur \notin Left'
      BY <3>1, <3>2
    <3> QED BY <2>2, <3>1, <3>3 DEF UndoNothing, UndoVerify
  <2>3. CASE UndoCheckpoint
    BY <2>3 DEF UndoCheckpoint, Level, Left, Minor
  <2>4. CASE Restore
    BY <2>4 DEF Restore, Level, Left, Minor
  <2>5. ~UndoRefused
    BY DEF UndoRefused, Restorable, SafetyInv, UndoOK
  <2>6. CASE UndoDone \/ DiscardDone
    BY <2>6 DEF UndoDone, DiscardDone, Level
  <2>7. ASSUME NEW i \in Action, DiscardBackup(i) PROVE Closer
    <3>1. Level' = Level
      BY <2>7 DEF DiscardBackup, Level
    <3>2. Left = {j \in Action : bak[j] # Absent} /\ Left' = {j \in Action : bak'[j] # Absent}
      BY <2>7 DEF DiscardBackup, Left
    <3>3. Left' \subseteq Left /\ i \in Left /\ i \notin Left'
      BY <2>7, <3>2 DEF DiscardBackup
    <3> QED BY <2>7, <3>1, <3>3 DEF DiscardBackup
  <2>8. ASSUME NEW d \in Dir, RemoveCreated(d) PROVE Closer
    <3>1. Level' = Level /\ Left = work /\ Left' = work \ {d} /\ d \in work
      BY <2>8 DEF RemoveCreated, Deepest, Level, Left
    <3> QED BY <2>8, <3>1 DEF RemoveCreated
  <2>9. CASE RemoveCreatedDone
    BY <2>9 DEF RemoveCreatedDone, Level
  <2> QED BY <1>3, <2>1, <2>2, <2>3, <2>4, <2>5, <2>6, <2>7, <2>8, <2>9 DEF Rollback
<1>4. CASE Cleanup
  <2>1. ASSUME NEW i \in Action, PurgeBackup(i) PROVE Closer
    <3>1. Level' = Level
      BY <2>1 DEF PurgeBackup, Level
    <3>2. Left = {j \in Action : bak[j] # Absent} /\ Left' = {j \in Action : bak'[j] # Absent}
      BY <2>1 DEF PurgeBackup, Left
    <3>3. Left' \subseteq Left /\ i \in Left /\ i \notin Left'
      BY <2>1, <3>2 DEF PurgeBackup
    <3> QED BY <2>1, <3>1, <3>3 DEF PurgeBackup
  <2>2. CASE PurgeDone
    BY <1>0, <2>2 DEF PurgeDone, Level, PhaseOK
  <2>3. ASSUME NEW d \in Dir, SweepDirectory(d) PROVE Closer
    <3>1. Level' = Level
      BY <2>3 DEF SweepDirectory, Level
    <3>2. Left = work /\ Left' = work \ {d} /\ d \in work
      BY <2>3 DEF SweepDirectory, Deepest, Left
    <3> QED BY <2>3, <3>1, <3>2 DEF SweepDirectory
  <2>4. CASE SweepDone
    BY <2>4 DEF SweepDone, Level
  <2>5. CASE UnlinkJournal
    BY <2>5 DEF UnlinkJournal, Level
  <2>6. CASE RemoveStateBackup
    BY <1>0, <2>6 DEF RemoveStateBackup, Level, PhaseOK
  <2> QED BY <1>4, <2>1, <2>2, <2>3, <2>4, <2>5, <2>6 DEF Cleanup
<1>5. CASE ApplyFails
  BY <1>5 DEF ApplyFails, Level
<1>6. CASE Recover
  BY <1>6 DEF Recover, RecoverByRollback, BeginRollback, RecoverByCleanup, Recoverable, Level
<1>7. CASE Crash
  BY <1>7 DEF Crash
<1>8. CASE OfflineEdit
  BY <1>8 DEF OfflineEdit, EditFile, EditBackup, EditDirectory
<1> QED BY <1>1, <1>2, <1>3, <1>4, <1>5, <1>6, <1>7, <1>8 DEF Next, ProcessStep

\* The engine ends: whatever fails and whatever the user edits between runs,
\* every step is nearer to the end, so recoveries and rollbacks cannot follow
\* each other for ever, unless a recovery keeps meeting a managed directory
\* that the user has replaced.
THEOREM Terminates == Spec => [][SweepRefused \/ Closer]_vars
<1>1. TypeInv /\ SafetyInv /\ Restorable /\ [Next]_vars => [SweepRefused \/ Closer]_vars
  BY CloserStep
<1> QED BY <1>1, Invariance, RestorableAlways, PTL DEF Spec

\* A strict, transitive relation on a finite set leaves some element with
\* nothing before it.
LEMMA First ==
  ASSUME NEW S, IsFiniteSet(S), S # {}, NEW F \in [S -> SUBSET S],
         \A d \in S : d \notin F[d],
         \A d \in S : \A e \in F[d] : F[e] \subseteq F[d]
  PROVE  \E d \in S : F[d] = {}
<1> DEFINE T == {F[d] : d \in S}
<1>1. T # {} /\ T \subseteq FiniteSubsetsOf(S)
  BY FS_FiniteSubsetsOfFinite
<1>2. PICK x \in T : \A y \in T : <<y, x>> \notin StrictSubsetOrdering(S)
  BY <1>1, WFMin, FS_StrictSubsetOrderingWellFounded
<1>3. PICK d \in S : x = F[d]
  OBVIOUS
<1>4. ASSUME NEW e \in F[d] PROVE FALSE
  <2>1. F[e] \subseteq x /\ F[e] # x /\ F[e] \in T
    BY <1>3, <1>4
  <2>2. <<F[e], x>> \in StrictSubsetOrdering(S)
    BY <1>3, <2>1 DEF StrictSubsetOrdering
  <2> QED BY <1>2, <2>1, <2>2
<1> QED BY <1>4

\* So there is always a directory to make that has its parents, ...
LEMMA NextToMake ==
  ASSUME TypeInv, pending # {}
  PROVE  \E d \in pending : ParentDirs[d] \cap pending = {}
<1> DEFINE F == [d \in pending |-> ParentDirs[d] \cap pending]
<1>1. IsFiniteSet(pending) /\ pending \subseteq Dir
  BY TransactionAssumption, FS_Subset DEF TypeInv, TypeOK
<1>2. \A d \in pending : d \notin F[d] /\ \A e \in F[d] : F[e] \subseteq F[d]
  BY <1>1, TransactionAssumption, AncestorAssumption
<1>3. F \in [pending -> SUBSET pending]
  OBVIOUS
<1> HIDE DEF F
<1>4. PICK d \in pending : F[d] = {}
  BY <1>1, <1>2, <1>3, First
<1> QED BY <1>4 DEF F

\* ... and one to remove with none below it.
LEMMA NextToRemove ==
  ASSUME TypeInv, work # {}
  PROVE  \E d \in Dir : Deepest(d)
<1> DEFINE F == [d \in work |-> {e \in work : d \in ParentDirs[e]}]
<1>1. IsFiniteSet(work) /\ work \subseteq Dir
  BY TransactionAssumption, FS_Subset DEF TypeInv, TypeOK
<1>2. \A d \in work : d \notin F[d] /\ \A e \in F[d] : F[e] \subseteq F[d]
  BY <1>1, TransactionAssumption, AncestorAssumption
<1>3. F \in [work -> SUBSET work]
  OBVIOUS
<1> HIDE DEF F
<1>4. PICK d \in work : F[d] = {}
  BY <1>1, <1>2, <1>3, First
<1> QED BY <1>1, <1>4 DEF F, Deepest

\* The tree of a transaction that nobody disturbs: no directory is replaced,
\* and what the journal does not excuse is there.
Calm ==
  edits = 0 =>
    /\ \A d \in Dir : dir[d] # "replaced"
    /\ jphase \in {"preparingDirectories", "prepared", "applying"} =>
         \A d \in JournalDirs : d \in pending \/ Present(d)
    /\ jphase = "rollingBack" => \A d \in JournalDirs : d \in created \/ Present(d)

LEMMA CalmStep ==
  ASSUME TypeInv, SafetyInv, SweepInv, TraceInv, Calm, [Next]_vars
  PROVE  Calm'
<1> USE TransactionAssumption, PlanFacts, JournalDirsFixed
    DEF TypeInv, TypeOK, Action, Calm, Present, history, journal, process
<1>0. PhaseOK /\ DirsReady /\ (pc \notin {"begin", "mkdir", "recordDir", "down"} => pending = {})
  BY DEF SafetyInv, TraceInv, OldTree
<1>1. CASE Prepare
  <2>1. CASE WriteJournal
    BY <2>1 DEF WriteJournal, MissingDirs
  <2>2. ASSUME NEW d \in Dir, MakeDirectory(d) PROVE Calm'
    BY <1>0, <2>2 DEF MakeDirectory, PhaseOK
  <2>3. CASE RecordDirectory
    BY <1>0, <2>3 DEF RecordDirectory, PhaseOK, DirsReady
  <2>4. CASE FinishPreparation
    BY <1>0, <2>4 DEF FinishPreparation, PhaseOK
  <2> QED BY <1>1, <2>1, <2>2, <2>3, <2>4 DEF Prepare
<1>2. CASE Apply
  BY <1>0, <1>2 DEF Apply, BackUp, StartApply, RefuseApply, Checkpoint, Mutate, Verify, Commit,
    PhaseOK
<1>3. ASSUME BeginRollback, pending = {},
             jphase \in {"preparingDirectories", "prepared", "applying", "rollingBack"}
      PROVE  Calm'
  BY <1>3 DEF BeginRollback
<1>4. CASE Rollback
  <2>1. CASE RollbackInProcess
    BY <1>0, <1>3, <2>1 DEF RollbackInProcess, PhaseOK
  <2>2. ASSUME NEW d \in Dir, RemoveCreated(d) PROVE Calm'
    BY <1>0, <2>2 DEF RemoveCreated, Rmdir, Deepest, PhaseOK, SweepInv, SweepScope
  <2> QED BY <1>4, <2>1, <2>2
          DEF Rollback, RollbackRefused, UndoNothing, UndoCheckpoint, Restore, UndoVerify,
              UndoRefused, UndoDone, DiscardBackup, DiscardDone, RemoveCreatedDone
<1>5. CASE Cleanup
  <2>1. ASSUME NEW d \in Dir, SweepDirectory(d) PROVE Calm'
    BY <1>0, <2>1 DEF SweepDirectory, Rmdir, PhaseOK
  <2> QED BY <1>5, <2>1
          DEF Cleanup, PurgeBackup, PurgeDone, SweepRefused, SweepDone, UnlinkJournal,
              RemoveStateBackup
<1>6. CASE Recover
  BY <1>3, <1>6 DEF Recover, RecoverByRollback, RecoverByCleanup, Recoverable
<1>7. CASE ApplyFails \/ Crash
  BY <1>7 DEF ApplyFails, Crash
<1>8. CASE OfflineEdit
  BY <1>8 DEF OfflineEdit, EditFile, EditBackup, EditDirectory
<1>9. CASE UNCHANGED vars
  BY <1>9 DEF vars
<1> QED BY <1>1, <1>2, <1>4, <1>5, <1>6, <1>7, <1>8, <1>9 DEF Next, ProcessStep

\* All that the progress of a transaction rests on.
ProgressInv == TypeInv /\ SafetyInv /\ SweepInv /\ TraceInv /\ Restorable /\ Calm

THEOREM ProgressInvariance == Spec => []ProgressInv
<1>1. Init => TypeInv /\ SweepInv /\ TraceInv /\ Calm
  <2>1. Init => TraceInv
    BY TypeInitially DEF Init, TypeInv, TypeOK, TraceInv, OldTree, RemovalOK, New, Present
  <2>2. Init => Calm
    BY DEF Init, Calm
  <2> QED BY <2>1, <2>2, TypeInitially, SweepInitially
<1>2. SafetyInv /\ (TypeInv /\ SweepInv /\ TraceInv /\ Calm) /\ [Next]_vars
        => (TypeInv /\ SweepInv /\ TraceInv /\ Calm)'
  BY TypeStep, SweepStep, TraceStep, CalmStep
<1> QED BY <1>1, <1>2, Invariance, RestorableAlways, PTL DEF Spec, ProgressInv

\* Where no edit has interfered, a rollback finds everything in order that it
\* compares with the journal: it is not refused, neither in the process nor
\* in a recovery, however often it was interrupted before.
LEMMA ReadyToRollBack ==
  ASSUME ProgressInv, edits = 0, pending = {},
         jphase \in {"preparingDirectories", "prepared", "applying", "rollingBack"}
  PROVE  RollbackReady
<1> USE TransactionAssumption, PlanFacts
    DEF ProgressInv, TypeInv, TypeOK, Action, HasBackup, pre, post, Present
<1>1. touched = {} /\ outcome = "open"
  BY DEF TraceInv, OldTree, SafetyInv, PhaseOK
<1>2. MissingDirs \subseteq created /\ (jphase # "rollingBack" => MissingDirs = {})
  BY DEF Calm, MissingDirs
<1>3. DirectoriesMatch(Excused)
  BY <1>2 DEF DirectoriesMatch, Excused, Calm, MissingDirs
<1>4. ASSUME NEW i \in Action PROVE Classifiable(i, MissingDirs)
  <2>1. CASE Beneath(FileDirs[i], MissingDirs)
    BY <1>2, <2>1 DEF Classifiable, Beneath, TraceInv, OldTree, New
  <2>2. disk[i] \in {pre[i], post[i]} /\ (disk[i] # pre[i] /\ pre[i] # Absent => bak[i] = pre[i])
    BY <1>1 DEF SafetyInv, FilesOK, Changed
  <2>3. pre[i] = post[i] => pre[i] = Absent
    BY ChangeAssumption
  <2>4. ASSUME HoldsNew(i), HasBackup(i) PROVE BackupVerified(i, MissingDirs)
    <3>1. bak[i] = pre[i] /\ bak[i] # Absent
      BY <2>2, <2>3, <2>4 DEF HoldsNew
    <3>2. ~Beneath(BackupDirs[i], MissingDirs)
      BY <3>1 DEF SweepInv, BackupsInDirs, Beneath, MissingDirs
    <3> QED BY <3>1, <3>2 DEF BackupVerified
  <2> QED BY <2>1, <2>2, <2>4 DEF Classifiable, HoldsNew
<1> QED BY <1>3, <1>4 DEF RollbackReady

\* Nor is the cleanup of a committed transaction.
LEMMA ReadyToCleanUp ==
  ASSUME ProgressInv, edits = 0, jphase = "committed"
  PROVE  /\ DirectoriesMatch(Dir)
         /\ plan.op = "uninstall" => BackupVerified(StateAction, MissingDirs)
<1> USE TransactionAssumption, PlanFacts DEF ProgressInv, TypeInv, TypeOK
<1>1. DirectoriesMatch(Dir)
  BY DEF DirectoriesMatch, Calm, Present
<1>2. ASSUME plan.op = "uninstall" PROVE BackupVerified(StateAction, MissingDirs)
  <2>1. StateAction \in Action \ touched /\ HasBackup(StateAction)
    BY <1>2 DEF TraceInv, OldTree
  <2>2. StateAction \notin Purged
    BY <1>2 DEF Purged
  <2>3. bak[StateAction] = pre[StateAction]
    BY <2>1, <2>2 DEF SafetyInv, PhaseOK, SweepInv, PurgedOnly
  <2>4. ~Beneath(BackupDirs[StateAction], MissingDirs)
    BY <2>1, <2>3 DEF HasBackup, SweepInv, BackupsInDirs, Beneath, MissingDirs
  <2> QED BY <2>3, <2>4 DEF BackupVerified
<1> QED BY <1>1, <1>2

\* Nor is the apply loop.
LEMMA ReadyToApply ==
  ASSUME ProgressInv, edits = 0
  PROVE  /\ pc = "backup" => \A i \in Action : disk[i] = pre[i]
         /\ pc = "backup" /\ cur = NumActions + 1 => \A i \in Action : Classifiable(i, {})
<1> USE TransactionAssumption, PlanFacts DEF ProgressInv, TypeInv, TypeOK, Action
<1>1. ASSUME pc = "backup" PROVE \A i \in Action : disk[i] = pre[i]
  BY <1>1 DEF SafetyInv, PhaseOK, Undisturbed, FirstRun, FilesOK, Changed
<1>2. ASSUME pc = "backup", cur = NumActions + 1, NEW i \in Action PROVE Classifiable(i, {})
  BY <1>1, <1>2 DEF Classifiable, Beneath, BackupVerified, SafetyInv, ProgressOK
<1> QED BY <1>1, <1>2

\* What the next step of a process needs, for each place it may be in.
CanGoOn ==
  /\ pc = "mkdir" => pending = {} \/ \E d \in pending : ParentDirs[d] \cap pending = {}
  /\ pc = "backup" =>
       \/ cur \in Action /\ (HasBackup(cur) => disk[cur] = pre[cur])
       \/ cur = NumActions + 1 /\ \A i \in Action : Classifiable(i, {})
  /\ pc = "check" => disk[cur] = pre[cur]
  /\ pc = "verify" => HoldsNew(cur)
  /\ pc = "rollback" => RollbackReady
  /\ pc = "undo" => cur \in Action \cup {0}
  /\ pc = "restore" => HoldsNew(cur) /\ (HasBackup(cur) => bak[cur] = pre[cur])
  /\ pc = "restored" => disk[cur] = pre[cur]
  /\ pc = "rmdirs" => work = {} \/ \E d \in Dir : Deepest(d)
  /\ pc = "sweep" => work = {} \/ \E d \in Dir : Deepest(d) /\ ~Replaced(d)

\* What a recovery needs.
CanRecover ==
  IF jphase = "committed"
    THEN DirectoriesMatch(Dir) /\ (plan.op = "uninstall" => BackupVerified(StateAction, MissingDirs))
    ELSE RollbackReady

\* Nothing is ever in the way of a transaction that nobody edits, wherever it
\* was interrupted and however often: the process can go on, and when it is
\* down a recovery accepts the journal it left, unless it died preparing its
\* directories.
NeverStuck ==
  edits = 0 =>
    /\ CanGoOn
    /\ Recoverable /\ jphase # "none" => CanRecover

\* No check of the engine refuses a tree that only the engine has touched.
THEOREM NothingInTheWay == Spec => []NeverStuck
<1>1. ProgressInv => NeverStuck
  <2> SUFFICES ASSUME ProgressInv, edits = 0
               PROVE  CanGoOn /\ (Recoverable /\ jphase # "none" => CanRecover)
    BY DEF NeverStuck
  <2> USE DEF ProgressInv
  <2>1. pc = "mkdir" => pending = {} \/ \E d \in pending : ParentDirs[d] \cap pending = {}
    BY NextToMake
  <2>2. pc = "backup" =>
          \/ cur \in Action /\ (HasBackup(cur) => disk[cur] = pre[cur])
          \/ cur = NumActions + 1 /\ \A i \in Action : Classifiable(i, {})
    BY ReadyToApply, TransactionAssumption DEF TypeInv, CursorOK, Action
  <2>3. (pc = "check" => disk[cur] = pre[cur]) /\ (pc = "verify" => HoldsNew(cur))
    BY DEF SafetyInv, ProgressOK, HoldsNew
  <2>4. pc = "rollback" => RollbackReady
    BY ReadyToRollBack DEF SafetyInv, PhaseOK, TraceInv, OldTree
  <2>5. pc = "undo" => cur \in Action \cup {0}
    BY TransactionAssumption DEF TypeInv, CursorOK, Action
  <2>6. /\ pc = "restore" => HoldsNew(cur) /\ (HasBackup(cur) => bak[cur] = pre[cur])
        /\ pc = "restored" => disk[cur] = pre[cur]
    BY DEF SafetyInv, UndoOK, Restorable
  <2>7. pc \in {"rmdirs", "sweep"} => work = {} \/ \E d \in Dir : Deepest(d)
    BY NextToRemove
  <2>8. \A d \in Dir : ~Replaced(d)
    BY DEF Calm, Replaced
  <2>9. Recoverable /\ jphase # "none" => CanRecover
    BY ReadyToRollBack, ReadyToCleanUp DEF Recoverable, CanRecover, TypeInv, TypeOK
  <2> QED BY <2>1, <2>2, <2>3, <2>4, <2>5, <2>6, <2>7, <2>8, <2>9 DEF CanGoOn
<1> QED BY <1>1, ProgressInvariance, PTL

\* With nobody editing, the engine turns back or gives up only for a crash or
\* an I/O error, or because its own plan does not pass the journal's parser.
GivesUpOnlyForFailure ==
  [][(edits = 0 /\ pc' # pc /\ pc' \in {"rollback", "down"}) =>
       failures' # failures \/ ~(created \subseteq Eligible)]_vars

\* A transaction that nobody disturbs is decided by failures alone.
THEOREM OnlyFailuresInterrupt == Spec => GivesUpOnlyForFailure
<1>1. ASSUME ProgressInv, NeverStuck, Next, edits = 0, pc' # pc, pc' \in {"rollback", "down"}
      PROVE  failures' # failures \/ ~(created \subseteq Eligible)
  <2> USE <1>1 DEF ProgressInv, TypeInv, TypeOK, NeverStuck, CanGoOn
  <2>1. CASE Prepare
    BY <2>1 DEF Prepare, WriteJournal, MakeDirectory, RecordDirectory, FinishPreparation
  <2>2. CASE Apply
    <3>1. ~RefuseApply
      BY TransactionAssumption DEF RefuseApply, Action
    <3> QED BY <2>2, <3>1 DEF Apply, BackUp, StartApply, Checkpoint, Mutate, Verify, Commit
  <2>3. CASE Rollback
    <3>1. ~RollbackRefused /\ ~UndoRefused
      BY DEF RollbackRefused, UndoRefused
    <3> QED BY <2>3, <3>1
            DEF Rollback, RollbackInProcess, BeginRollback, UndoNothing, UndoCheckpoint, Restore,
                UndoVerify, UndoDone, DiscardBackup, DiscardDone, RemoveCreated,
                RemoveCreatedDone, process
  <2>4. CASE Cleanup
    <3>1. ~SweepRefused
      BY DEF SweepRefused, Calm, Replaced
    <3> QED BY <2>4, <3>1
            DEF Cleanup, PurgeBackup, PurgeDone, SweepDirectory, SweepDone, UnlinkJournal,
                RemoveStateBackup, process
  <2>5. CASE ApplyFails \/ Crash
    BY <2>5 DEF ApplyFails, Crash
  <2>6. CASE Recover
    BY <2>6 DEF Recover, RecoverByRollback, BeginRollback, RecoverByCleanup
  <2>7. CASE OfflineEdit
    BY <2>7 DEF OfflineEdit, EditFile, EditBackup, EditDirectory, process
  <2> QED BY <2>1, <2>2, <2>3, <2>4, <2>5, <2>6, <2>7 DEF Next, ProcessStep
<1>2. NeverStuck /\ ProgressInv /\ [Next]_vars =>
        [(edits = 0 /\ pc' # pc /\ pc' \in {"rollback", "down"}) =>
           failures' # failures \/ ~(created \subseteq Eligible)]_vars
  BY <1>1
<1> QED BY <1>2, ProgressInvariance, NothingInTheWay, PTL DEF Spec, GivesUpOnlyForFailure

-----------------------------------------------------------------------------
\* Refinement of AtomicTransaction.

\* A step decides the transaction, takes a file away from it, or neither;
\* only an edit changes a file of a decided one.
LEMMA Decisions ==
  ASSUME TypeInv, SafetyInv, [Next]_vars
  PROVE  /\ plan' = plan
         /\ \/ outcome' = outcome /\ touched' = touched
            \/ /\ outcome = "open" /\ outcome' \in {"committed", "rolledBack"}
               /\ touched' = touched
            \/ outcome' = outcome /\ \E i \in Action : touched' = touched \cup {i}
         /\ outcome = "committed" => (disk' = disk \/ edits' # edits)
<1> USE DEF TypeInv, TypeOK, SafetyInv, PhaseOK, history, journal, process
<1>1. CASE Prepare
  BY <1>1 DEF Prepare, WriteJournal, MakeDirectory, RecordDirectory, FinishPreparation
<1>2. CASE Apply
  BY <1>2 DEF Apply, BackUp, StartApply, RefuseApply, Checkpoint, Mutate, Verify, Commit
<1>3. CASE Rollback
  BY <1>3 DEF Rollback, RollbackInProcess, BeginRollback, RollbackRefused, UndoNothing,
              UndoCheckpoint, Restore, UndoVerify, UndoRefused, UndoDone, DiscardBackup,
              DiscardDone, RemoveCreated, RemoveCreatedDone
<1>4. CASE Cleanup
  BY <1>4 DEF Cleanup, PurgeBackup, PurgeDone, SweepDirectory, SweepRefused, SweepDone,
              UnlinkJournal, RemoveStateBackup
<1>5. CASE ApplyFails \/ Recover \/ Crash
  BY <1>5 DEF ApplyFails, Recover, RecoverByRollback, BeginRollback, RecoverByCleanup,
              Crash
<1>6. CASE OfflineEdit
  BY <1>6 DEF OfflineEdit, EditFile, EditBackup, EditDirectory
<1>7. CASE UNCHANGED vars
  BY <1>7 DEF vars
<1> QED BY <1>1, <1>2, <1>3, <1>4, <1>5, <1>6, <1>7 DEF Next, ProcessStep

\* The decision is final: no recovery rolls back a committed transaction.
THEOREM CommitFinal == Spec => CommitIsFinal
<1>1. TypeInv /\ SafetyInv /\ [Next]_vars =>
        [outcome = "committed" => /\ outcome' = "committed"
                                  /\ disk' = disk \/ edits' # edits]_vars
  BY Decisions
<1> QED BY <1>1, Invariance, PTL DEF Spec, CommitIsFinal

\* What the evidence on the disk amounts to at every moment: all the old
\* contents before the decision, all the new ones after a commit.
LEMMA LogicalValue ==
  ASSUME TypeInv, SafetyInv
  PROVE  \A i \in Action \ touched :
           Logical(i) = IF outcome = "committed" THEN post[i] ELSE pre[i]
<1> SUFFICES ASSUME NEW i \in Action \ touched
             PROVE  Logical(i) = IF outcome = "committed" THEN post[i] ELSE pre[i]
  OBVIOUS
<1>1. CASE outcome = "committed"
  BY <1>1 DEF TypeInv, TypeOK, SafetyInv, PhaseOK, FilesOK, Logical
<1>2. CASE outcome # "committed"
  BY <1>2 DEF SafetyInv, FilesOK, Changed, HasBackup, Logical
<1> QED BY <1>1, <1>2

\* The engine implements the atomic transaction, for every plan.
THEOREM Implementation == Spec => AtomicSpec
<1> DEFINE files == [i \in Action \ touched |-> Logical(i)]
           Promise == files = [i \in Action \ touched |->
                                 IF outcome = "committed" THEN post[i] ELSE pre[i]]
<1>a. TypeInv /\ SafetyInv => Promise
  BY LogicalValue
<1>b. TypeInv' /\ SafetyInv' => Promise'
  BY <1>a, PTL
<1>1. Init => Atomic!Init
  <2> SUFFICES ASSUME Init PROVE Atomic!Init
    OBVIOUS
  <2>1. TypeInv
    BY TypeInitially
  <2>2. files = plan.pre
    BY <2>1, PlanFacts DEF Init, TypeInv, TypeOK, Logical, pre
  <2> QED BY <2>2 DEF Init, Atomic!Init
<1>2. TypeInv /\ SafetyInv /\ [Next]_vars /\ (TypeInv /\ SafetyInv)' => [Atomic!Next]_(Atomic!vars)
  <2> SUFFICES ASSUME TypeInv, SafetyInv, [Next]_vars, TypeInv', SafetyInv'
               PROVE  [Atomic!Next]_(Atomic!vars)
    OBVIOUS
  <2>1. Promise
    BY <1>a
  <2>2. Promise'
    BY <1>b
  <2>3. plan' = plan /\ pre' = pre /\ post' = post
    BY Decisions DEF pre, post
  <2>4. CASE outcome' = outcome /\ touched' = touched
    BY <2>1, <2>2, <2>3, <2>4 DEF Atomic!vars
  <2>5. CASE /\ outcome = "open" /\ outcome' \in {"committed", "rolledBack"}
             /\ touched' = touched
    BY <2>1, <2>2, <2>3, <2>5 DEF Atomic!Next, Atomic!Commit, Atomic!Abort, post
  <2>6. ASSUME NEW i \in Action, outcome' = outcome, touched' = touched \cup {i}
        PROVE  Atomic!Withdraw(i)
    BY <2>1, <2>2, <2>3, <2>6 DEF Atomic!Withdraw
  <2> QED BY <2>4, <2>5, <2>6, Decisions DEF Atomic!Next
<1> QED BY <1>1, <1>2, Invariance, PTL DEF Spec, AtomicSpec, Atomic!Spec
=============================================================================
