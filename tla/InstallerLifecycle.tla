------------------------- MODULE InstallerLifecycle -------------------------
(***************************************************************************)
(* A repository's life under scripts/workflow_manager.py: installs and     *)
(* updates from package versions, with and without custom agents, full and *)
(* partial uninstalls, and the user's own edits in between.                *)
(*                                                                         *)
(* One install, or one uninstall up to its commit, is one step here: that  *)
(* is what AtomicTransaction promises of the engine.  An uninstall's       *)
(* cleanup after the commit is a step of its own, because it reads the     *)
(* manifest it has just written and may be interrupted and resumed.        *)
(*                                                                         *)
(* A file is a package version's source content, or a text of the user's.  *)
(* AGENTS.md is the user's text around one managed block.  Backups are     *)
(* known by transaction and path; the user leaves them alone.              *)
(*                                                                         *)
(* A manifest records its directories with their identities.  One that the *)
(* user removes, or makes again, never has the recorded identity any more. *)
(***************************************************************************)
EXTENDS Naturals, FiniteSets

CONSTANTS
  PackageFile,    \* files under .codex-workflow
  TemplateFile,   \* project files seeded from templates
  AgentFile,      \* custom agents, installed on request
  AgentsMd,       \* the path AGENTS.md, as it occurs in a backup's name
  StateFile,      \* the manifest's path, as it occurs in a backup's name
  Version,        \* package sources an install may be run from
  UserText,       \* contents that no package version has
  None,           \* no file, no block, no backup, no record
  Dir,            \* managed directories
  ParentDirs,     \* [Dir -> SUBSET Dir]: strict ancestors
  FileDirs,       \* [File -> SUBSET Dir]: directories enclosing a file
  PackageDir,     \* .codex-workflow
  AgentDir,       \* directories an install creates only for custom agents
  SweptDir,       \* directories that every uninstall offers to remove
  MaxTransaction, \* number of transaction ids told apart
  MaxEdits        \* bound on user edits

File == PackageFile \cup TemplateFile \cup AgentFile
Text == Version \cup UserText
Transaction == 1 .. MaxTransaction

\* What a manifest may list, what is kept of the manifest itself, and what is
\* kept of a backup that a later transaction deletes.
Backup == Transaction \X (File \cup {AgentsMd})
StateBackup == Transaction \X {StateFile}
OldBackup == Transaction \X Transaction \X (File \cup {AgentsMd})

\* What the source fixes about the package.
ASSUME LifecycleAssumption ==
  /\ PackageFile \cap TemplateFile = {} /\ PackageFile \cap AgentFile = {}
  /\ TemplateFile \cap AgentFile = {} /\ AgentsMd \notin File
  /\ StateFile \notin File \cup {AgentsMd}
  /\ Version \cap UserText = {} /\ None \notin Text
  /\ ParentDirs \in [Dir -> SUBSET Dir] /\ FileDirs \in [File -> SUBSET Dir]
  /\ \A d \in Dir : \A e \in ParentDirs[d] : ParentDirs[e] \subseteq ParentDirs[d]
  /\ \A f \in File : \A d \in FileDirs[f] : ParentDirs[d] \subseteq FileDirs[f]
  /\ PackageDir \in Dir /\ AgentDir \subseteq Dir /\ SweptDir \subseteq Dir
  /\ \A f \in PackageFile : PackageDir \in FileDirs[f]
  /\ MaxTransaction \in Nat /\ MaxEdits \in Nat

VARIABLES
  tree,       \* content of each managed file
  agentsMd,   \* AGENTS.md: None, or its user text and its managed block
  dirs,       \* directories that exist
  foreign,    \* directories holding a file that is not managed
  manifest,   \* the state manifest, NoManifest when there is none
  saved,      \* backups on the disk
  pending,    \* manifest an unfinished committed uninstall started from
  copies,     \* backups its journal names: what its actions replaced or deleted
  replaced,   \* recorded directories the user removed or made again
  mine,       \* history: files the installer wrote last
  theirs,     \* history: files the user made at a path not in the manifest
  made,       \* history: directories the installer made
  calm,       \* history: the last install and how often it ran undisturbed
  disturbed,  \* history: the user edited files before a cleanup was resumed
  edits       \* number of user edits so far

history == <<mine, theirs, made, calm, disturbed>>
NotCalm == [install |-> <<>>, times |-> 0]

vars == <<tree, agentsMd, dirs, foreign, manifest, saved, pending, copies, replaced, history, edits>>

-----------------------------------------------------------------------------
\* The state manifest and what _read_state demands of it.

\* A manifest that exists records a file or the AGENTS.md block.
NoManifest == [files |-> [f \in {} |-> None], agents |-> None, created |-> {},
               customAgents |-> FALSE]

Recorded == DOMAIN manifest.files
Owned(f) == f \in Recorded /\ manifest.files[f].owner = "installer"

\* The file is what its record says the installer wrote.
Intact(f) == Owned(f) /\ tree[f] = manifest.files[f].installed

\* The manifest's list of backups, recomputed whenever it is written.
References(m) ==
  ({m.files[f].backup : f \in DOMAIN m.files}
     \cup (IF m.agents = None THEN {} ELSE {m.agents.backup})) \ {None}

\* _state_directory_paths, which become the manifest's directoryIdentities.
RecordedDirs(m) == m.created \cup UNION {FileDirs[f] : f \in DOMAIN m.files}

FeaturesMatch(m) == m.customAgents <=> (DOMAIN m.files \cap AgentFile # {})

\* _read_state accepts the manifest that is on the disk, if any.
Readable ==
  manifest # NoManifest =>
    FeaturesMatch(manifest) /\ RecordedDirs(manifest) \subseteq dirs \ replaced

\* The least transaction id that no backup on the disk bears, if one is left.
FreshTransaction ==
  LET used == {b[1] : b \in saved}
  IN {t \in Transaction \ used : 1 .. (t - 1) \subseteq used}

\* What transaction t backs up: the files its actions replace or delete, and
\* the backups they delete.
ActionBackups(t, files, backups) ==
  {<<t, f>> : f \in files} \cup {<<t, b[1], b[2]>> : b \in backups}

\* (mutant) the old manifest's backups stay where they are
ObsoleteKept(new) == {}

\* The backups a plan deletes: listed by the old manifest and not by the new,
\* and there.
Obsolete(new) == (References(manifest) \ References(new)) \cap saved

-----------------------------------------------------------------------------
\* Planning an install of version v, _install_with_adapter.

Selected(agents) == PackageFile \cup TemplateFile \cup (IF agents THEN AgentFile ELSE {})

\* Conflicts that end the install before it writes anything.
Conflict(v, agents) ==
  \/ manifest = NoManifest /\ PackageDir \in dirs
  \/ \E f \in Selected(agents) \ Recorded :
       /\ tree[f] # None
       /\ f \in PackageFile \/ (f \in AgentFile /\ tree[f] # v)
  \/ agentsMd # None /\ agentsMd.block # None /\ manifest.agents = None

Missing(agents) == {f \in Selected(agents) : tree[f] = None /\ (f \in Recorded => Owned(f))}
Outdated(v, agents) == {f \in Selected(agents) : Intact(f) /\ tree[f] # v}
Current(v, agents) == {f \in Selected(agents) : Intact(f) /\ tree[f] = v}
Adopted(agents) == {f \in Selected(agents) \cap AgentFile : f \notin Recorded /\ tree[f] # None}

\* (mutant) and so does the record of an agent when no agents are selected
UnselectedForgotten(agents) ==
  {f \in Recorded : f \in Selected(agents) => ~Owned(f) /\ tree[f] = None}

\* A record of a pre-existing agent goes when its file has gone.
Forgotten(agents) == {f \in Selected(agents) \cap Recorded : ~Owned(f) /\ tree[f] = None}

Written(v, agents) == Missing(agents) \cup Outdated(v, agents)

\* (mutant) an adopted file is taken for the installer's own
AdoptedAsOwn(v) == [owner |-> "installer", installed |-> v, backup |-> None]

AdoptedRecord(v) == [owner |-> "preexisting", installed |-> v, backup |-> None]

\* The records after an install by transaction t.
NewFiles(v, t, agents) ==
  LET written  == Written(v, agents)
      outdated == Outdated(v, agents)
      current  == Current(v, agents)
  IN [f \in (Recorded \ Forgotten(agents)) \cup written \cup Adopted(agents) |->
        IF f \in written \cup current
          THEN [owner     |-> "installer",
                installed |-> v,
                backup    |-> IF f \in outdated THEN <<t, f>>
                              ELSE IF f \in Recorded THEN manifest.files[f].backup ELSE None]
        ELSE IF f \in Recorded THEN manifest.files[f]
        ELSE AdoptedRecord(v)]

\* _install_agents_content: a block edited by the user is kept,
BlockEdited ==
  /\ agentsMd # None /\ agentsMd.block # None
  /\ manifest.agents # None /\ manifest.agents.block # agentsMd.block

\* otherwise the block is brought up to date in place or appended.
NewAgentsMd(v) ==
  IF BlockEdited THEN agentsMd
  ELSE [text |-> IF agentsMd = None THEN "empty" ELSE agentsMd.text, block |-> v]

\* (mutant) the backup is recorded anew although nothing is replaced
BackedUpAlways(v, t) ==
  IF BlockEdited THEN manifest.agents
  ELSE [block   |-> v,
        created |-> IF agentsMd # None /\ agentsMd.block # None THEN manifest.agents.created
                    ELSE agentsMd = None,
        backup  |-> <<t, AgentsMd>>]

NewAgentsRecord(v, t) ==
  IF BlockEdited THEN manifest.agents
  ELSE LET rewritten == agentsMd # None /\ agentsMd # NewAgentsMd(v)
           inPlace   == agentsMd # None /\ agentsMd.block # None
       IN [block   |-> v,
           created |-> IF inPlace THEN manifest.agents.created ELSE agentsMd = None,
           backup  |-> IF rewritten THEN <<t, AgentsMd>>
                       ELSE IF inPlace THEN manifest.agents.backup ELSE None]

Candidates(agents) == Dir \ (IF agents THEN {} ELSE AgentDir)

NewManifest(v, t, agents) ==
  LET files == NewFiles(v, t, agents)
  IN [files        |-> files,
      agents       |-> NewAgentsRecord(v, t),
      created      |-> manifest.created \cup (Candidates(agents) \ dirs),
      customAgents |-> DOMAIN files \cap AgentFile # {}]

\* The files there are that an install with this new manifest writes over.
Overwritten(v, agents, new) ==
  {f \in Written(v, agents) : tree[f] # None}
    \cup (IF agentsMd \notin {None, NewAgentsMd(v)} THEN {AgentsMd} ELSE {})
    \cup (IF manifest \notin {NoManifest, new} THEN {StateFile} ELSE {})

\* After its commit an install purges the backups of the manifest and of the
\* backups it deleted.
CommitCleanup(t, backups) == ActionBackups(t, {StateFile}, backups)

Install(v, agents) ==
  /\ pending = NoManifest /\ Readable
  /\ ~Conflict(v, agents)
  /\ \E t \in FreshTransaction :
       /\ manifest' = NewManifest(v, t, agents)
       /\ LET obsolete == Obsolete(manifest')
          IN saved' = ((saved \ obsolete)
                         \cup ActionBackups(t, Overwritten(v, agents, manifest'), obsolete))
                      \ CommitCleanup(t, obsolete)
  /\ LET written == Written(v, agents)
     IN tree' = [f \in File |-> IF f \in written THEN v ELSE tree[f]]
  /\ agentsMd' = NewAgentsMd(v)
  /\ LET new == (UNION {FileDirs[f] : f \in Written(v, agents)}) \ dirs
     IN dirs' = dirs \cup new /\ made' = made \cup new
  /\ RecordedDirs(manifest') \subseteq dirs'
  /\ mine' = mine \cup Written(v, agents)
  /\ calm' = [install |-> <<v, agents>>,
              times   |-> IF calm.install = <<v, agents>> THEN 2 ELSE 1]
  /\ UNCHANGED <<foreign, pending, copies, replaced, theirs, disturbed, edits>>

-----------------------------------------------------------------------------
\* Uninstall: the plan and its commit, _uninstall_with_adapter.

Deleted == {f \in Recorded : Intact(f)}
Remaining == {f \in Recorded : Owned(f) /\ tree[f] # None /\ ~Intact(f)}

AgentsIntact ==
  /\ agentsMd # None /\ manifest.agents # None
  /\ agentsMd.block = manifest.agents.block

\* _remove_agents_content: a file that only the block kept from being empty
\* goes with it.
StrippedAgentsMd ==
  IF agentsMd.text = "empty" \/ (manifest.agents.created /\ agentsMd.text = "blank")
    THEN None
    ELSE [agentsMd EXCEPT !.block = None]

\* The manifest of what the user modified; its features are the old ones.
Remainder ==
  IF Remaining = {} /\ ~BlockEdited THEN NoManifest
  ELSE [files        |-> [f \in Remaining |-> manifest.files[f]],
        agents       |-> IF BlockEdited THEN manifest.agents ELSE None,
        created      |-> manifest.created \cap UNION {FileDirs[f] : f \in Remaining},
        customAgents |-> manifest.customAgents]

\* The files that an uninstall deletes or writes over.
Removed ==
  Deleted \cup (IF AgentsIntact THEN {AgentsMd} ELSE {}) \cup {StateFile}

Uninstall ==
  /\ manifest # NoManifest /\ pending = NoManifest /\ Readable
  /\ tree' = [f \in File |-> IF f \in Deleted THEN None ELSE tree[f]]
  /\ agentsMd' = IF AgentsIntact THEN StrippedAgentsMd ELSE agentsMd
  /\ manifest' = Remainder
  /\ \E t \in FreshTransaction :
       /\ LET obsolete == IF manifest' = NoManifest THEN {} ELSE Obsolete(manifest')
          IN /\ copies' = ActionBackups(t, Removed, obsolete)
             /\ saved' = (saved \ obsolete) \cup copies'
  /\ pending' = manifest
  /\ mine' = mine \ Deleted
  /\ calm' = NotCalm
  /\ disturbed' = FALSE
  /\ UNCHANGED <<dirs, foreign, replaced, theirs, made, edits>>

-----------------------------------------------------------------------------
\* The uninstall's cleanup, _finalize_committed_uninstall, run by the
\* uninstaller itself or by a later --recover.

Holds(d) == d \in foreign \/ \E f \in File : tree[f] # None /\ d \in FileDirs[f]

\* (mutant) the created list alone does not say what is beneath a directory
SweptUnlooked(candidates) == candidates \cap dirs

\* Deepest first, the candidates with nothing left in or beneath them.
Swept(candidates) ==
  {d \in candidates \cap dirs :
     \A e \in {d} \cup {c \in dirs : d \in ParentDirs[c]} : e \in candidates /\ ~Holds(e)}

SweepCandidates == SweptDir \cup pending.created

\* (mutant) directories are removed whatever their identity
IdentityIgnored == {}

\* Candidates whose identity is not the one the old manifest recorded: the
\* sweep fails at the first of them.
Mismatched == SweepCandidates \cap RecordedDirs(pending) \cap replaced \cap dirs

\* The backups of the actions, and those the old manifest listed and the new
\* one does not.
Prerequisites == copies \cup (References(pending) \ References(manifest))

Finalize ==
  /\ pending # NoManifest /\ Readable
  /\ Mismatched = {}
  /\ saved' = saved \ Prerequisites
  /\ dirs' = dirs \ Swept(SweepCandidates)
  /\ made' = made \cap dirs'
  /\ pending' = NoManifest /\ copies' = {}
  /\ replaced' = replaced \cap RecordedDirs(manifest)
  /\ UNCHANGED <<tree, agentsMd, foreign, manifest, mine, theirs, calm, disturbed, edits>>

\* A cleanup that meets such a directory has purged what it could and swept
\* some of the candidates; it keeps the journal and the manifest's backup.
FinalizeRefused ==
  /\ pending # NoManifest /\ Readable
  /\ Mismatched # {}
  /\ saved' = saved \ (Prerequisites \ StateBackup)
  /\ \E reached \in SUBSET (SweepCandidates \ Mismatched) : dirs' = dirs \ Swept(reached)
  /\ made' = made \cap dirs'
  /\ UNCHANGED <<tree, agentsMd, foreign, manifest, pending, copies, replaced, mine, theirs, calm,
                 disturbed, edits>>

-----------------------------------------------------------------------------
\* The user.

Edit ==
  /\ edits' = edits + 1
  /\ calm' = NotCalm
  /\ disturbed' = (disturbed \/ pending # NoManifest)
  /\ replaced' = replaced \cup (((dirs \ dirs') \cup (dirs' \ dirs))
                                 \cap (RecordedDirs(manifest) \cup RecordedDirs(pending)))
  /\ UNCHANGED <<manifest, saved, pending, copies>>

\* Writes a file of their own, or a copy of some version's.
WriteFile(f, c) ==
  /\ tree[f] # c
  /\ tree' = [tree EXCEPT ![f] = c]
  /\ dirs' = dirs \cup FileDirs[f]
  /\ mine' = mine \ {f}
  /\ theirs' = IF f \in Recorded THEN theirs ELSE theirs \cup {f}
  /\ UNCHANGED <<agentsMd, foreign, made>>

DeleteFile(f) ==
  /\ tree[f] # None
  /\ tree' = [tree EXCEPT ![f] = None]
  /\ mine' = mine \ {f} /\ theirs' = theirs \ {f}
  /\ UNCHANGED <<agentsMd, dirs, foreign, made>>

\* Writes the file, changes its text or its block, or deletes it.
EditAgentsMd(a) ==
  /\ agentsMd # a
  /\ a # None => \/ a.block \in {None} \cup UserText
                 \/ agentsMd # None /\ a.block = agentsMd.block
  /\ a # None /\ agentsMd # None => a.text = agentsMd.text \/ a.block = agentsMd.block
  /\ agentsMd' = a
  /\ UNCHANGED <<tree, dirs, foreign, mine, theirs, made>>

\* Makes a directory, removes an empty one, or puts a file in or out of one.
EditDirectory(d) ==
  /\ \/ /\ d \notin dirs /\ ParentDirs[d] \subseteq dirs
        /\ dirs' = dirs \cup {d} /\ UNCHANGED <<foreign, made>>
     \/ /\ d \in Swept({d})
        /\ dirs' = dirs \ {d} /\ made' = made \ {d} /\ UNCHANGED foreign
     \/ /\ d \in dirs \ foreign
        /\ foreign' = foreign \cup {d} /\ UNCHANGED <<dirs, made>>
     \/ /\ d \in foreign
        /\ foreign' = foreign \ {d} /\ UNCHANGED <<dirs, made>>
  /\ UNCHANGED <<tree, agentsMd, mine, theirs>>

AgentsMdStates == [text : {"empty", "blank", "text"}, block : {None} \cup Text]
ASSUME NoneAssumption == None \notin AgentsMdStates

UserEdits ==
  /\ edits < MaxEdits
  /\ \/ \E f \in File, c \in Text : WriteFile(f, c)
     \/ \E f \in File : DeleteFile(f)
     \/ \E a \in AgentsMdStates \cup {None} : EditAgentsMd(a)
     \/ \E d \in Dir : EditDirectory(d)
  /\ Edit

-----------------------------------------------------------------------------
\* A repository with nothing of the package in it.
Init ==
  /\ tree = [f \in File |-> None]
  /\ agentsMd = None
  /\ dirs = {} /\ foreign = {}
  /\ manifest = NoManifest /\ saved = {}
  /\ pending = NoManifest /\ copies = {} /\ replaced = {}
  /\ mine = {} /\ theirs = {} /\ made = {}
  /\ calm = NotCalm /\ disturbed = FALSE
  /\ edits = 0

Next ==
  \/ \E v \in Version, agents \in BOOLEAN : Install(v, agents)
  \/ Uninstall
  \/ Finalize
  \/ FinalizeRefused
  \/ UserEdits

Spec == Init /\ [][Next]_vars

-----------------------------------------------------------------------------
\* Properties.

FileRecord ==
  [owner : {"installer", "preexisting"}, installed : Version, backup : Backup \cup {None}]

AgentsRecord == [block : Version, created : BOOLEAN, backup : Backup \cup {None}]

ASSUME RecordAssumption == None \notin AgentsRecord
ASSUME BackupAssumption == None \notin Backup

IsManifest(m) ==
  /\ DOMAIN m = {"files", "agents", "created", "customAgents"}
  /\ DOMAIN m.files \subseteq File /\ \A f \in DOMAIN m.files : m.files[f] \in FileRecord
  /\ m.agents \in AgentsRecord \cup {None}
  /\ m.created \subseteq Dir /\ m.customAgents \in BOOLEAN

\* The tree is a tree: no sweep takes a directory from under a file.
TypeOK ==
  /\ tree \in [File -> Text \cup {None}]
  /\ agentsMd \in AgentsMdStates \cup {None}
  /\ foreign \subseteq dirs /\ dirs \subseteq Dir /\ made \subseteq dirs
  /\ \A f \in File : tree[f] # None => FileDirs[f] \subseteq dirs
  /\ \A d \in dirs : ParentDirs[d] \subseteq dirs
  /\ IsManifest(manifest) /\ IsManifest(pending)
  /\ saved \subseteq Backup \cup StateBackup \cup OldBackup
  /\ copies \subseteq Backup \cup StateBackup \cup OldBackup
  /\ replaced \subseteq Dir
  /\ mine \subseteq File /\ theirs \subseteq File
  /\ calm.times \in 0 .. 2 /\ disturbed \in BOOLEAN
  /\ edits \in 0 .. MaxEdits

\* Whatever the installer wrote and nobody touched since is in the manifest
\* as the installer's, with its hash: no sequence of installs, updates and
\* partial uninstalls leaves a file that no uninstall would remove.
OwnWorkRecorded == \A f \in mine : Intact(f)

\* No installer step changes a file the user made where the manifest had no
\* record, even one with a version's content, or a file the user modified.
UserFilesKept ==
  [][\A f \in File :
       f \in theirs \/ tree[f] \in UserText => tree'[f] = tree[f] \/ edits' # edits]_vars

\* Once no cleanup is due, what the transactions backed up and did not purge
\* is what the manifest lists: no backup is lost while a record refers to it,
\* however many installs it was inherited over, and none is left behind by a
\* file that was absent, a record that went or a transaction's own copies.
SavedExact == pending = NoManifest => saved = References(manifest)

\* Directories with an ownership record go only if the installer made them.
RecordedDirsOwned ==
  [][\A d \in (dirs \ made) \ SweptDir : d \in dirs' \/ edits' # edits]_vars

\* A directory that the manifest records is there, or the next reading of
\* the manifest fails for good.  No command brings that about by itself: the
\* user removed the directory, or edited before a cleanup was resumed.
ManifestDirsPresent == RecordedDirs(manifest) \subseteq dirs \cup replaced \/ disturbed

\* An install with the arguments of the last one has nothing to do.
Idle(v, agents) ==
  /\ Written(v, agents) = {}
  /\ NewAgentsMd(v) = agentsMd
  /\ \A t \in FreshTransaction : NewManifest(v, t, agents) = manifest

\* Installing twice over in a repository nobody touches is idempotent.
InstallConverges ==
  calm.times = 2 => Idle(calm.install[1], calm.install[2])

\* "a committed transaction is recovered by completing cleanup": the manifest
\* that an uninstall has written is one its cleanup can read.
CleanupResumable == pending # NoManifest => Readable \/ disturbed
=============================================================================
