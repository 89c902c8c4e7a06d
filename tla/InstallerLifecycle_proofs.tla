----------------------- MODULE InstallerLifecycle_proofs -----------------------
(***************************************************************************)
(* Proofs about InstallerLifecycle, for any package, any directory tree,   *)
(* any number of commands and any number of edits.                         *)
(*                                                                         *)
(* The invariant accounts for what the user and the installer each own:    *)
(* TheirsKept for files, BackupsKept for backups, MadeKept for             *)
(* directories, those that the user made anew excepted.  RestHeld says why *)
(* the cleanup of a partial uninstall leaves the directories of the new    *)
(* manifest alone: each still holds a file.                                *)
(***************************************************************************)
EXTENDS InstallerLifecycle, TLAPS

\* A file the user made where the manifest had no record exists, and is not
\* recorded as the installer's.
TheirsKept == \A f \in theirs : tree[f] # None /\ ~Owned(f)

\* While a cleanup is due the disk has the backups of the new manifest, none
\* of which it will purge, and perhaps others of the old one or of the actions.
BackupsKept ==
  /\ SavedExact
  /\ pending # NoManifest =>
       /\ References(manifest) \subseteq saved \ copies
       /\ saved \subseteq References(pending) \cup copies

\* A directory in a manifest's created list is the installer's as long as it
\* exists and is the one recorded.
MadeKept ==
  /\ manifest.created \cap dirs \subseteq made \cup replaced
  /\ pending.created \cap dirs \subseteq made \cup replaced

\* While a cleanup is due, and nobody edited since, what the new manifest
\* records is there, and it lists no directory but those of its files.
RestHeld ==
  pending # NoManifest /\ ~disturbed =>
    /\ \A f \in Recorded : tree[f] # None
    /\ manifest.created \subseteq UNION {FileDirs[f] : f \in Recorded}

LifecycleInv ==
  /\ TypeOK /\ OwnWorkRecorded /\ TheirsKept /\ BackupsKept /\ MadeKept
  /\ RestHeld /\ ManifestDirsPresent

-----------------------------------------------------------------------------
(* Manifests. *)

LEMMA NoManifestFields ==
  /\ NoManifest.files = [f \in {} |-> None] /\ NoManifest.agents = None
  /\ NoManifest.created = {} /\ NoManifest.customAgents = FALSE
  /\ DOMAIN NoManifest.files = {}
  /\ IsManifest(NoManifest) /\ References(NoManifest) = {} /\ RecordedDirs(NoManifest) = {}
<1>1. /\ NoManifest.files = [f \in {} |-> None] /\ NoManifest.agents = None
      /\ NoManifest.created = {} /\ NoManifest.customAgents = FALSE
      /\ DOMAIN NoManifest = {"files", "agents", "created", "customAgents"}
  BY DEF NoManifest
<1>2. DOMAIN NoManifest.files = {}
  BY <1>1
<1>3. IsManifest(NoManifest)
  BY <1>1, <1>2 DEF IsManifest
<1>4. References(NoManifest) = {}
  BY <1>1, <1>2 DEF References
<1>5. RecordedDirs(NoManifest) = {}
  BY <1>1, <1>2 DEF RecordedDirs
<1> QED
  BY <1>1, <1>2, <1>3, <1>4, <1>5

\* The records after an install: what was written or is current is the
\* installer's, other records stay, and adopted files get a record of their own.
LEMMA NewFilesRecords ==
  ASSUME NEW v, NEW t, NEW agents
  PROVE  LET new == NewFiles(v, t, agents)
             ours == Written(v, agents) \cup Current(v, agents)
         IN /\ DOMAIN new = (Recorded \ Forgotten(agents)) \cup Written(v, agents) \cup Adopted(agents)
            /\ \A f \in DOMAIN new :
                 /\ f \in ours => new[f].owner = "installer" /\ new[f].installed = v
                 /\ f \notin ours /\ f \in Recorded => new[f] = manifest.files[f]
                 /\ f \notin ours /\ f \notin Recorded => new[f] = AdoptedRecord(v)
BY DEF NewFiles

\* The files of a plan are files of the package.
LEMMA PlanFiles ==
  ASSUME NEW v, NEW agents \in BOOLEAN
  PROVE  /\ Selected(agents) \subseteq File
         /\ Written(v, agents) \subseteq File /\ Current(v, agents) \subseteq File
         /\ Adopted(agents) \subseteq File
BY DEF Selected, File, Written, Missing, Outdated, Current, Adopted

LEMMA NewFilesTyped ==
  ASSUME TypeOK, NEW v \in Version, NEW t \in Transaction, NEW agents \in BOOLEAN
  PROVE  LET new == NewFiles(v, t, agents)
         IN DOMAIN new \subseteq File /\ \A f \in DOMAIN new : new[f] \in FileRecord
<1> DEFINE new == NewFiles(v, t, agents)
<1>1. DOMAIN new \subseteq File
  <2>1. Recorded \subseteq File
    BY DEF TypeOK, IsManifest, Recorded
  <2> QED
    BY <2>1, PlanFiles DEF NewFiles
<1>2. ASSUME NEW f \in DOMAIN new PROVE new[f] \in FileRecord
  <2>1. \A g \in Recorded : manifest.files[g] \in FileRecord /\ manifest.files[g].backup \in Backup \cup {None}
    BY DEF TypeOK, IsManifest, FileRecord, Recorded
  <2>2. <<t, f>> \in Backup
    BY <1>1, <1>2 DEF Backup
  <2>3. CASE f \in Written(v, agents) \cup Current(v, agents)
    <3>1. PICK b \in Backup \cup {None} : new[f] = [owner |-> "installer", installed |-> v, backup |-> b]
      BY <1>2, <2>1, <2>2, <2>3 DEF NewFiles
    <3> QED
      BY <3>1 DEF FileRecord
  <2>4. CASE f \notin Written(v, agents) \cup Current(v, agents) /\ f \in Recorded
    <3>1. new[f] = manifest.files[f]
      BY <1>2, <2>4 DEF NewFiles
    <3> QED
      BY <2>1, <2>4, <3>1
  <2>5. CASE f \notin Written(v, agents) \cup Current(v, agents) /\ f \notin Recorded
    <3>1. new[f] = AdoptedRecord(v)
      BY <1>2, <2>5 DEF NewFiles
    <3> QED
      BY <3>1 DEF AdoptedRecord, FileRecord
  <2> QED
    BY <2>3, <2>4, <2>5
<1> QED
  BY <1>1, <1>2

\* The block that an install leaves, and its record.
LEMMA NewAgentsTyped ==
  ASSUME TypeOK, NEW v \in Version, NEW t \in Transaction, NEW agents \in BOOLEAN,
         ~Conflict(v, agents)
  PROVE  /\ NewAgentsMd(v) \in AgentsMdStates \cup {None}
         /\ NewAgentsRecord(v, t) \in AgentsRecord \cup {None}
         /\ ~BlockEdited => /\ NewAgentsMd(v) \in AgentsMdStates
                            /\ NewAgentsRecord(v, t) \in AgentsRecord
<1>1. agentsMd \in AgentsMdStates \cup {None} /\ manifest.agents \in AgentsRecord \cup {None}
  BY DEF TypeOK, IsManifest
<1>2. agentsMd # None => agentsMd \in AgentsMdStates /\ agentsMd.text \in {"empty", "blank", "text"}
  BY <1>1 DEF AgentsMdStates
<1>3. manifest.agents # None =>
        manifest.agents.created \in BOOLEAN /\ manifest.agents.backup \in Backup \cup {None}
  BY <1>1 DEF AgentsRecord
<1>4. agentsMd # None /\ agentsMd.block # None => manifest.agents # None
  BY DEF Conflict
<1>5. <<t, AgentsMd>> \in Backup
  BY DEF Backup
<1>6. CASE BlockEdited
  BY <1>1, <1>6 DEF NewAgentsMd, NewAgentsRecord
<1>7. CASE ~BlockEdited
  <2>1. NewAgentsMd(v) \in AgentsMdStates
    <3>1. PICK x \in {"empty", "blank", "text"} : NewAgentsMd(v) = [text |-> x, block |-> v]
      BY <1>2, <1>7 DEF NewAgentsMd
    <3> QED
      BY <3>1 DEF AgentsMdStates, Text
  <2>2. NewAgentsRecord(v, t) \in AgentsRecord
    <3>1. PICK c \in BOOLEAN, b \in Backup \cup {None} :
            NewAgentsRecord(v, t) = [block |-> v, created |-> c, backup |-> b]
      <4> DEFINE rewrites == agentsMd # None /\ agentsMd # NewAgentsMd(v)
                 inPlace == agentsMd # None /\ agentsMd.block # None
                 c == IF inPlace THEN manifest.agents.created ELSE agentsMd = None
                 b == IF rewrites THEN <<t, AgentsMd>> ELSE IF inPlace THEN manifest.agents.backup ELSE None
      <4>1. c \in BOOLEAN
        BY <1>3, <1>4
      <4>2. b \in Backup \cup {None}
        BY <1>3, <1>4, <1>5
      <4>3. NewAgentsRecord(v, t) = [block |-> v, created |-> c, backup |-> b]
        BY <1>7 DEF NewAgentsRecord
      <4> QED
        BY <4>1, <4>2, <4>3
    <3> QED
      BY <3>1 DEF AgentsRecord
  <2> QED
    BY <1>7, <2>1, <2>2
<1> QED
  BY <1>6, <1>7

LEMMA NewManifestFields ==
  ASSUME NEW v, NEW t, NEW agents
  PROVE  LET new == NewManifest(v, t, agents)
         IN /\ new.files = NewFiles(v, t, agents) /\ new.agents = NewAgentsRecord(v, t)
            /\ new.created = manifest.created \cup (Candidates(agents) \ dirs)
            /\ new.customAgents \in BOOLEAN
            /\ DOMAIN new = {"files", "agents", "created", "customAgents"}
BY DEF NewManifest

LEMMA NewManifestTyped ==
  ASSUME TypeOK, NEW v \in Version, NEW t \in Transaction, NEW agents \in BOOLEAN,
         ~Conflict(v, agents)
  PROVE  IsManifest(NewManifest(v, t, agents))
<1>1. Candidates(agents) \subseteq Dir /\ manifest.created \subseteq Dir
  BY DEF Candidates, TypeOK, IsManifest
<1> QED
  BY <1>1, NewManifestFields, NewFilesTyped, NewAgentsTyped DEF IsManifest

\* What an uninstall leaves in the manifest was in it, with the same backups.
LEMMA RemainderPart ==
  ASSUME IsManifest(manifest)
  PROVE  /\ IsManifest(Remainder)
         /\ DOMAIN Remainder.files \subseteq Remaining
         /\ \A f \in DOMAIN Remainder.files : Remainder.files[f] = manifest.files[f]
         /\ References(Remainder) \subseteq References(manifest)
         /\ RecordedDirs(Remainder) \subseteq RecordedDirs(manifest)
         /\ Remainder.created \subseteq manifest.created
         /\ Remainder.created \subseteq UNION {FileDirs[f] : f \in DOMAIN Remainder.files}
<1>1. CASE Remainder = NoManifest
  BY <1>1, NoManifestFields
<1>2. CASE Remainder # NoManifest
  <2>1. /\ Remainder.files = [f \in Remaining |-> manifest.files[f]]
        /\ Remainder.agents = IF BlockEdited THEN manifest.agents ELSE None
        /\ Remainder.created = manifest.created \cap UNION {FileDirs[f] : f \in Remaining}
        /\ Remainder.customAgents = manifest.customAgents
        /\ DOMAIN Remainder = {"files", "agents", "created", "customAgents"}
    BY <1>2 DEF Remainder
  <2>2. Remaining \subseteq Recorded
    BY DEF Remaining
  <2>3. DOMAIN Remainder.files = Remaining /\ \A f \in Remaining : Remainder.files[f] = manifest.files[f]
    BY <2>1
  <2>4. IsManifest(Remainder)
    <3>1. /\ DOMAIN Remainder.files \subseteq File
          /\ \A f \in DOMAIN Remainder.files : Remainder.files[f] \in FileRecord
      BY <2>2, <2>3 DEF IsManifest, Recorded
    <3>2. Remainder.agents \in AgentsRecord \cup {None} /\ Remainder.customAgents \in BOOLEAN
      BY <2>1 DEF IsManifest
    <3>3. Remainder.created \subseteq Dir
      BY <2>1 DEF IsManifest
    <3> QED
      BY <2>1, <3>1, <3>2, <3>3 DEF IsManifest
  <2>5. References(Remainder) \subseteq References(manifest)
    <3>1. {Remainder.files[f].backup : f \in Remaining} \subseteq {manifest.files[f].backup : f \in Recorded}
      BY <2>2, <2>3
    <3>2. Remainder.agents = manifest.agents \/ Remainder.agents = None
      BY <2>1
    <3>3. {Remainder.files[f].backup : f \in DOMAIN Remainder.files}
            \subseteq {manifest.files[f].backup : f \in Recorded}
      BY <2>3, <3>1
    <3> QED
      BY <3>2, <3>3 DEF References, Recorded
  <2>6. RecordedDirs(Remainder) \subseteq RecordedDirs(manifest)
    <3>1. UNION {FileDirs[f] : f \in DOMAIN Remainder.files} \subseteq UNION {FileDirs[f] : f \in Recorded}
      BY <2>2, <2>3
    <3>2. Remainder.created \subseteq manifest.created
      BY <2>1
    <3> QED
      BY <3>1, <3>2 DEF RecordedDirs, Recorded
  <2> QED
    BY <2>1, <2>3, <2>4, <2>5, <2>6
<1> QED
  BY <1>1, <1>2

-----------------------------------------------------------------------------
(* Directories. *)

\* Directories stay a tree when those of some files are added.
LEMMA GrownTree ==
  ASSUME TypeOK, NEW F \in SUBSET File
  PROVE  LET grown == dirs \cup UNION {FileDirs[f] : f \in F}
         IN grown \subseteq Dir /\ \A d \in grown : ParentDirs[d] \subseteq grown
<1> DEFINE grown == dirs \cup UNION {FileDirs[f] : f \in F}
<1>1. \A f \in F : FileDirs[f] \subseteq Dir
  BY LifecycleAssumption
<1>2. grown \subseteq Dir
  BY <1>1 DEF TypeOK
<1>3. ASSUME NEW d \in grown PROVE ParentDirs[d] \subseteq grown
  <2>1. CASE d \in dirs
    BY <2>1 DEF TypeOK
  <2>2. ASSUME NEW f \in F, d \in FileDirs[f] PROVE ParentDirs[d] \subseteq grown
    BY <2>2, LifecycleAssumption
  <2> QED
    BY <1>3, <2>1, <2>2
<1> QED
  BY <1>2, <1>3

\* A sweep removes no directory that holds something and none above one that stays.
LEMMA SweptTree ==
  ASSUME TypeOK, NEW candidates \in SUBSET Dir
  PROVE  LET left == dirs \ Swept(candidates)
         IN /\ foreign \subseteq left
            /\ \A f \in File : tree[f] # None => FileDirs[f] \subseteq left
            /\ \A d \in left : ParentDirs[d] \subseteq left
<1> DEFINE left == dirs \ Swept(candidates)
<1>1. \A d \in Swept(candidates) : ~Holds(d)
  BY DEF Swept
<1>2. foreign \subseteq left
  BY <1>1 DEF Holds, TypeOK
<1>3. \A f \in File : tree[f] # None => FileDirs[f] \subseteq left
  BY <1>1 DEF Holds, TypeOK
<1>4. ASSUME NEW d \in left, NEW p \in ParentDirs[d] PROVE p \in left
  <2>1. d \in dirs /\ d \in Dir /\ p \in dirs
    BY <1>4 DEF TypeOK
  <2>2. SUFFICES ASSUME p \in Swept(candidates) PROVE FALSE
    BY <2>1
  <2>3. \A e \in {d} \cup {c \in dirs : d \in ParentDirs[c]} : p \in ParentDirs[e] /\ e \in dirs
    <3>1. ASSUME NEW e \in dirs, d \in ParentDirs[e] PROVE p \in ParentDirs[e]
      BY <2>1, <3>1, LifecycleAssumption DEF TypeOK
    <3> QED
      BY <2>1, <3>1
  <2>4. \A e \in dirs : p \in ParentDirs[e] => e \in candidates /\ ~Holds(e)
    BY <2>2 DEF Swept
  <2>5. d \in Swept(candidates)
    BY <2>1, <2>3, <2>4 DEF Swept
  <2> QED
    BY <1>4, <2>5
<1> QED
  BY <1>2, <1>3, <1>4

\* What is written goes into directories that the install makes.
LEMMA InstallDirs ==
  ASSUME TypeOK, NEW v \in Version, NEW agents \in BOOLEAN, Install(v, agents)
  PROVE  /\ dirs' = dirs \cup UNION {FileDirs[f] : f \in Written(v, agents)}
         /\ made' = made \cup (dirs' \ dirs)
<1> DEFINE U == UNION {FileDirs[f] : f \in Written(v, agents)}
<1>1. dirs' = dirs \cup (U \ dirs) /\ made' = made \cup (U \ dirs)
  BY DEF Install
<1> HIDE DEF U
<1>2. dirs' = dirs \cup U /\ made' = made \cup (dirs' \ dirs)
  BY <1>1
<1> QED
  BY <1>2 DEF U

-----------------------------------------------------------------------------
(* Types. *)

AnyBackup == Backup \cup StateBackup \cup OldBackup

LEMMA ReferencesTyped ==
  ASSUME NEW m, IsManifest(m)
  PROVE  References(m) \subseteq Backup
BY DEF IsManifest, References, FileRecord, AgentsRecord

\* What a transaction backs up has its own id.
LEMMA ActionBackupsTyped ==
  ASSUME NEW t \in Transaction, NEW files \in SUBSET (File \cup {AgentsMd, StateFile}),
         NEW old \in SUBSET Backup
  PROVE  /\ ActionBackups(t, files, old) \subseteq AnyBackup
         /\ \A b \in ActionBackups(t, files, old) : b[1] = t
<1>1. ASSUME NEW f \in files PROVE <<t, f>> \in AnyBackup /\ <<t, f>>[1] = t
  BY DEF AnyBackup, Backup, StateBackup
<1>2. ASSUME NEW b \in old PROVE <<t, b[1], b[2]>> \in AnyBackup /\ <<t, b[1], b[2]>>[1] = t
  BY DEF AnyBackup, Backup, OldBackup
<1> QED
  BY <1>1, <1>2 DEF ActionBackups

LEMMA InstallTyped ==
  ASSUME TypeOK, NEW v \in Version, NEW agents \in BOOLEAN, Install(v, agents)
  PROVE  TypeOK'
<1>1. PICK t \in Transaction :
        /\ manifest' = NewManifest(v, t, agents)
        /\ saved' = ((saved \ Obsolete(manifest'))
                       \cup ActionBackups(t, Overwritten(v, agents, manifest'), Obsolete(manifest')))
                    \ CommitCleanup(t, Obsolete(manifest'))
  BY DEF Install, FreshTransaction
<1>2. ~Conflict(v, agents) /\ Written(v, agents) \subseteq File
  BY PlanFiles DEF Install
<1>3. tree' \in [File -> Text \cup {None}]
  BY DEF Install, TypeOK, Text
<1>4. agentsMd' \in AgentsMdStates \cup {None}
  BY <1>2, <1>1, NewAgentsTyped DEF Install
<1>5. dirs' \subseteq Dir /\ \A d \in dirs' : ParentDirs[d] \subseteq dirs'
  BY <1>2, InstallDirs, GrownTree
<1>6. foreign' \subseteq dirs' /\ made' \subseteq dirs'
  BY InstallDirs DEF Install, TypeOK
<1>7. \A f \in File : tree'[f] # None => FileDirs[f] \subseteq dirs'
  <2>1. \A f \in File : f \notin Written(v, agents) => tree'[f] = tree[f]
    BY DEF Install
  <2> QED
    BY <2>1, InstallDirs DEF TypeOK
<1>8. IsManifest(manifest')
  BY <1>1, <1>2, NewManifestTyped
<1>9. saved' \subseteq AnyBackup
  <2>1. Overwritten(v, agents, manifest') \subseteq File \cup {AgentsMd, StateFile}
    BY <1>2 DEF Overwritten
  <2>2. Obsolete(manifest') \subseteq Backup
    BY <1>8, ReferencesTyped DEF Obsolete, TypeOK
  <2> QED
    BY <1>1, <2>1, <2>2, ActionBackupsTyped DEF TypeOK, AnyBackup
<1>10. mine' \subseteq File /\ calm'.times \in 0 .. 2
  BY <1>2 DEF Install, TypeOK
<1>11. UNCHANGED <<pending, copies, replaced, theirs, disturbed, edits>>
  BY DEF Install
<1> QED
  BY <1>3, <1>4, <1>5, <1>6, <1>7, <1>8, <1>9, <1>10, <1>11 DEF TypeOK, AnyBackup

LEMMA UninstallTyped ==
  ASSUME TypeOK, Uninstall
  PROVE  TypeOK'
<1>1. tree' \in [File -> Text \cup {None}] /\ \A f \in File : tree'[f] # None => tree[f] # None
  BY DEF Uninstall, TypeOK
<1>2. agentsMd' \in AgentsMdStates \cup {None}
  BY DEF Uninstall, AgentsIntact, StrippedAgentsMd, TypeOK, AgentsMdStates
<1>3. IsManifest(manifest') /\ IsManifest(pending')
  BY RemainderPart DEF Uninstall, TypeOK
<1>4. saved' \subseteq AnyBackup /\ copies' \subseteq AnyBackup
  <2>1. PICK t \in Transaction, old \in SUBSET Backup :
          copies' = ActionBackups(t, Removed, old) /\ saved' \subseteq saved \cup copies'
    <3>1. Obsolete(Remainder) \subseteq Backup
      BY ReferencesTyped DEF Obsolete, TypeOK
    <3> QED
      BY <3>1 DEF Uninstall, FreshTransaction
  <2>2. Removed \subseteq File \cup {AgentsMd, StateFile}
    BY DEF Removed, Deleted, TypeOK, IsManifest, Recorded
  <2> QED
    BY <2>1, <2>2, ActionBackupsTyped DEF TypeOK, AnyBackup
<1>5. mine' \subseteq File /\ disturbed' \in BOOLEAN
  BY DEF Uninstall, TypeOK
<1>6. calm'.times \in 0 .. 2
  BY DEF Uninstall, NotCalm
<1>7. UNCHANGED <<dirs, foreign, replaced, theirs, made, edits>>
  BY DEF Uninstall
<1> QED
  BY <1>1, <1>2, <1>3, <1>4, <1>5, <1>6, <1>7 DEF TypeOK, AnyBackup

LEMMA CandidatesTyped ==
  ASSUME TypeOK
  PROVE  SweepCandidates \subseteq Dir
BY LifecycleAssumption DEF SweepCandidates, TypeOK, IsManifest

\* A cleanup sweeps some of the candidates, and no file changes.
LEMMA CleanupSweeps ==
  ASSUME Finalize \/ FinalizeRefused
  PROVE  /\ \E reached \in SUBSET SweepCandidates :
              reached \cap Mismatched = {} /\ dirs' = dirs \ Swept(reached)
         /\ dirs' \subseteq dirs /\ made' = made \cap dirs'
         /\ replaced' \subseteq replaced /\ replaced \cap RecordedDirs(manifest) \subseteq replaced'
         /\ pending # NoManifest
         /\ \/ pending' = NoManifest
            \/ pending' = pending /\ replaced' = replaced
         /\ UNCHANGED <<tree, agentsMd, foreign, manifest, mine, theirs, calm, disturbed, edits>>
<1>1. CASE Finalize
  BY <1>1 DEF Finalize
<1>2. CASE FinalizeRefused
  BY <1>2 DEF FinalizeRefused
<1> QED
  BY <1>1, <1>2

LEMMA FinalizeTyped ==
  ASSUME TypeOK, Finalize \/ FinalizeRefused
  PROVE  TypeOK'
<1>1. PICK reached \in SUBSET Dir : dirs' = dirs \ Swept(reached)
  BY CleanupSweeps, CandidatesTyped
<1>2. /\ saved' \subseteq saved /\ copies' \subseteq copies
      /\ pending' = pending \/ pending' = NoManifest
  BY DEF Finalize, FinalizeRefused
<1>3. /\ UNCHANGED <<tree, agentsMd, foreign, manifest, mine, theirs, calm, disturbed, edits>>
      /\ made' = made \cap dirs' /\ replaced' \subseteq replaced
  BY CleanupSweeps
<1>4. /\ foreign' \subseteq dirs'
      /\ \A f \in File : tree'[f] # None => FileDirs[f] \subseteq dirs'
      /\ \A d \in dirs' : ParentDirs[d] \subseteq dirs'
  BY <1>1, <1>3, SweptTree
<1>5. IsManifest(pending') /\ dirs' \subseteq dirs
  BY <1>1, <1>2, NoManifestFields DEF TypeOK
<1> QED
  BY <1>2, <1>3, <1>4, <1>5 DEF TypeOK

LEMMA RecordedDirsTyped ==
  ASSUME NEW m, IsManifest(m)
  PROVE  RecordedDirs(m) \subseteq Dir
<1>1. \A f \in File : FileDirs[f] \subseteq Dir
  BY LifecycleAssumption
<1> QED
  BY <1>1 DEF IsManifest, RecordedDirs

LEMMA EditsTyped ==
  ASSUME TypeOK, UserEdits
  PROVE  TypeOK'
<1>1. /\ edits' \in 0 .. MaxEdits /\ calm'.times \in 0 .. 2 /\ disturbed' \in BOOLEAN
      /\ replaced' \subseteq Dir
      /\ UNCHANGED <<manifest, saved, pending, copies>>
  <2>1. RecordedDirs(manifest) \cup RecordedDirs(pending) \subseteq Dir
    BY RecordedDirsTyped DEF TypeOK
  <2>2. replaced' \subseteq Dir
    BY <2>1 DEF UserEdits, Edit, TypeOK
  <2> QED
    BY <2>2, LifecycleAssumption DEF UserEdits, Edit, TypeOK, NotCalm
<1>2. CASE \E f \in File, c \in Text : WriteFile(f, c)
  <2>1. PICK f \in File, c \in Text : WriteFile(f, c)
    BY <1>2
  <2>2. /\ tree' = [tree EXCEPT ![f] = c] /\ dirs' = dirs \cup FileDirs[f]
        /\ mine' \subseteq mine /\ theirs' \subseteq theirs \cup {f}
        /\ UNCHANGED <<agentsMd, foreign, made>>
    BY <2>1 DEF WriteFile
  <2>3. dirs' = dirs \cup UNION {FileDirs[g] : g \in {f}}
    BY <2>2
  <2>4. dirs' \subseteq Dir /\ \A d \in dirs' : ParentDirs[d] \subseteq dirs'
    <3>1. {f} \in SUBSET File
      OBVIOUS
    <3> HIDE DEF TypeOK
    <3> QED
      BY <2>3, <3>1, GrownTree
  <2>5. \A g \in File : tree'[g] # None => FileDirs[g] \subseteq dirs'
    BY <2>2 DEF TypeOK
  <2> QED
    BY <1>1, <2>2, <2>4, <2>5 DEF TypeOK
<1>3. CASE \E f \in File : DeleteFile(f)
  BY <1>1, <1>3 DEF DeleteFile, TypeOK
<1>4. CASE \E a \in AgentsMdStates \cup {None} : EditAgentsMd(a)
  BY <1>1, <1>4 DEF EditAgentsMd, TypeOK
<1>5. CASE \E d \in Dir : EditDirectory(d)
  <2>1. PICK d \in Dir : EditDirectory(d)
    BY <1>5
  <2>2. UNCHANGED <<tree, agentsMd, mine, theirs>>
    BY <2>1 DEF EditDirectory
  <2>3. CASE /\ d \notin dirs /\ ParentDirs[d] \subseteq dirs
             /\ dirs' = dirs \cup {d} /\ UNCHANGED <<foreign, made>>
    BY <1>1, <2>2, <2>3 DEF TypeOK
  <2>4. CASE d \in Swept({d}) /\ dirs' = dirs \ {d} /\ made' = made \ {d} /\ UNCHANGED foreign
    <3>1. dirs' = dirs \ Swept({d})
      BY <2>4 DEF Swept
    <3>2. /\ foreign' \subseteq dirs'
          /\ \A f \in File : tree'[f] # None => FileDirs[f] \subseteq dirs'
          /\ \A e \in dirs' : ParentDirs[e] \subseteq dirs'
      BY <2>2, <2>4, <3>1, SweptTree
    <3> QED
      BY <1>1, <2>2, <2>4, <3>2 DEF TypeOK
  <2>5. CASE UNCHANGED <<dirs, made>> /\ foreign' \subseteq foreign \cup (dirs \cap {d})
    BY <1>1, <2>2, <2>5 DEF TypeOK
  <2> QED
    BY <2>1, <2>3, <2>4, <2>5 DEF EditDirectory
<1> QED
  BY <1>2, <1>3, <1>4, <1>5 DEF UserEdits

LEMMA TypeStep ==
  ASSUME TypeOK, [Next]_vars
  PROVE  TypeOK'
<1>1. CASE UNCHANGED vars
  BY <1>1 DEF vars, history, TypeOK
<1> QED
  BY <1>1, InstallTyped, UninstallTyped, FinalizeTyped, EditsTyped DEF Next

LEMMA InitTyped == Init => TypeOK
<1> SUFFICES ASSUME Init PROVE TypeOK
  OBVIOUS
<1>1. /\ dirs = {} /\ foreign = {} /\ saved = {} /\ copies = {} /\ replaced = {} /\ mine = {} /\ theirs = {} /\ made = {}
      /\ tree = [f \in File |-> None] /\ agentsMd = None
      /\ disturbed = FALSE /\ edits \in 0 .. MaxEdits
  BY LifecycleAssumption DEF Init
<1>2. IsManifest(manifest) /\ IsManifest(pending)
  BY NoManifestFields DEF Init
<1>3. calm.times \in 0 .. 2
  BY DEF Init, NotCalm
<1> QED
  BY <1>1, <1>2, <1>3 DEF TypeOK

\* Every variable keeps its type, and the directories keep the shape of a tree:
\* no sweep takes one from under a file or another directory.
THEOREM TypeCorrect == Spec => []TypeOK
<1> QED
  BY InitTyped, TypeStep, PTL DEF Spec

-----------------------------------------------------------------------------
(* Who owns what. *)

\* A file that an install writes was absent, or the installer's and unchanged.
LEMMA WrittenSafe ==
  ASSUME NEW v, NEW agents, NEW f \in Written(v, agents)
  PROVE  tree[f] = None \/ Intact(f)
BY DEF Written, Missing, Outdated

\* An unchanged file of the installer's exists and has a version's content.
LEMMA IntactVersion ==
  ASSUME TypeOK, NEW f, Intact(f)
  PROVE  f \in Recorded /\ Owned(f) /\ tree[f] \in Version /\ tree[f] # None
<1>1. f \in Recorded /\ Owned(f) /\ manifest.files[f] \in FileRecord
  BY DEF Intact, Owned, Recorded, TypeOK, IsManifest
<1> QED
  BY <1>1, LifecycleAssumption DEF Intact, FileRecord, Text

LEMMA InstallOwners ==
  ASSUME LifecycleInv, TypeOK', NEW v \in Version, NEW agents \in BOOLEAN, Install(v, agents)
  PROVE  OwnWorkRecorded' /\ TheirsKept'
<1>1. PICK t \in Transaction : manifest' = NewManifest(v, t, agents)
  BY DEF Install, FreshTransaction
<1> DEFINE new == NewFiles(v, t, agents)
<1>2. manifest'.files = new
  BY <1>1, NewManifestFields
<1>3. /\ DOMAIN new = (Recorded \ Forgotten(agents)) \cup Written(v, agents) \cup Adopted(agents)
      /\ \A f \in DOMAIN new :
           /\ f \in Written(v, agents) \cup Current(v, agents) =>
                new[f].owner = "installer" /\ new[f].installed = v
           /\ f \notin Written(v, agents) \cup Current(v, agents) /\ f \in Recorded =>
                new[f] = manifest.files[f]
           /\ f \notin Written(v, agents) \cup Current(v, agents) /\ f \notin Recorded =>
                new[f].owner = "preexisting"
  BY DEF NewFiles, AdoptedRecord
<1>4. /\ mine' = mine \cup Written(v, agents) /\ theirs' = theirs
      /\ \A f \in File : tree'[f] = IF f \in Written(v, agents) THEN v ELSE tree[f]
  BY DEF Install
<1>5. Written(v, agents) \subseteq File /\ mine \subseteq File /\ theirs \subseteq File
  BY PlanFiles DEF LifecycleInv, TypeOK
<1> HIDE DEF new
<1>6. ASSUME NEW f \in mine' PROVE Intact(f)'
  <2>1. CASE f \in Written(v, agents)
    BY <1>2, <1>3, <1>4, <1>5, <2>1 DEF Intact, Owned, Recorded
  <2>2. CASE f \notin Written(v, agents)
    <3>1. Intact(f) /\ f \in File
      BY <1>4, <1>5, <1>6, <2>2 DEF LifecycleInv, OwnWorkRecorded
    <3>2. f \in Recorded /\ Owned(f) /\ tree[f] # None /\ tree'[f] = tree[f]
      BY <1>4, <2>2, <3>1, IntactVersion DEF LifecycleInv
    <3>3. f \notin Forgotten(agents)
      BY <3>2 DEF Forgotten
    <3>4. f \in DOMAIN new
      BY <1>3, <3>2, <3>3
    <3>5. f \in Current(v, agents) => tree[f] = v
      BY DEF Current
    <3>6. CASE f \in Current(v, agents)
      BY <1>2, <1>3, <3>2, <3>4, <3>5, <3>6 DEF Intact, Owned, Recorded
    <3>7. CASE f \notin Current(v, agents)
      <4>1. new[f] = manifest.files[f]
        BY <1>3, <2>2, <3>2, <3>4, <3>7
      <4> QED
        BY <1>2, <3>1, <3>2, <3>4, <4>1 DEF Intact, Owned, Recorded
    <3> QED
      BY <3>6, <3>7
  <2> QED
    BY <2>1, <2>2
<1>7. ASSUME NEW f \in theirs' PROVE tree'[f] # None /\ ~Owned(f)'
  <2>1. tree[f] # None /\ ~Owned(f) /\ f \in File
    BY <1>4, <1>5, <1>7 DEF LifecycleInv, TheirsKept
  <2>2. f \notin Written(v, agents) /\ f \notin Current(v, agents)
    BY <2>1, WrittenSafe DEF Intact, Current
  <2>3. tree'[f] # None
    BY <1>4, <2>1, <2>2
  <2>4. ~(f \in DOMAIN new /\ new[f].owner = "installer")
    BY <1>3, <2>1, <2>2 DEF Owned
  <2> QED
    BY <1>2, <2>3, <2>4 DEF Owned, Recorded
<1> QED
  BY <1>6, <1>7 DEF OwnWorkRecorded, TheirsKept

LEMMA UninstallOwners ==
  ASSUME LifecycleInv, Uninstall
  PROVE  OwnWorkRecorded' /\ TheirsKept'
<1>1. /\ \A f \in File : tree'[f] = IF f \in Deleted THEN None ELSE tree[f]
      /\ manifest' = Remainder /\ mine' = mine \ Deleted /\ theirs' = theirs
  BY DEF Uninstall
<1>2. mine \subseteq Deleted
  BY IntactVersion DEF LifecycleInv, OwnWorkRecorded, Deleted
<1>3. ASSUME NEW f \in theirs' PROVE tree'[f] # None /\ ~Owned(f)'
  <2>1. tree[f] # None /\ ~Owned(f) /\ f \in File
    BY <1>1, <1>3 DEF LifecycleInv, TheirsKept, TypeOK
  <2>2. f \notin Deleted /\ f \notin Remaining
    BY <2>1 DEF Deleted, Intact, Remaining
  <2>3. f \notin DOMAIN manifest'.files
    BY <1>1, <2>2, RemainderPart DEF LifecycleInv, TypeOK
  <2> QED
    BY <1>1, <2>1, <2>2, <2>3 DEF Owned, Recorded
<1> QED
  BY <1>1, <1>2, <1>3 DEF OwnWorkRecorded, TheirsKept

LEMMA FinalizeOwners ==
  ASSUME LifecycleInv, Finalize \/ FinalizeRefused
  PROVE  OwnWorkRecorded' /\ TheirsKept'
<1>1. UNCHANGED <<tree, manifest, mine, theirs>>
  BY CleanupSweeps
<1> QED
  BY <1>1 DEF LifecycleInv, OwnWorkRecorded, TheirsKept, Intact, Owned, Recorded

LEMMA EditsOwners ==
  ASSUME LifecycleInv, UserEdits
  PROVE  OwnWorkRecorded' /\ TheirsKept'
<1>1. manifest' = manifest /\ Recorded' = Recorded
  BY DEF UserEdits, Edit, Recorded
<1>2. CASE \E f \in File, c \in Text : WriteFile(f, c)
  <2>1. PICK f \in File, c \in Text : WriteFile(f, c)
    BY <1>2
  <2>2. /\ tree' = [tree EXCEPT ![f] = c] /\ mine' = mine \ {f}
        /\ theirs' = IF f \in Recorded THEN theirs ELSE theirs \cup {f}
    BY <2>1 DEF WriteFile
  <2>3. \A g \in File : tree'[g] = IF g = f THEN c ELSE tree[g]
    BY <2>2 DEF LifecycleInv, TypeOK
  <2>4. mine \subseteq File /\ theirs \subseteq File /\ c # None
    BY LifecycleAssumption DEF LifecycleInv, TypeOK
  <2> QED
    BY <1>1, <2>2, <2>3, <2>4 DEF LifecycleInv, OwnWorkRecorded, TheirsKept, Intact, Owned
<1>3. CASE \E f \in File : DeleteFile(f)
  <2>1. PICK f \in File : DeleteFile(f)
    BY <1>3
  <2>2. /\ tree' = [tree EXCEPT ![f] = None] /\ mine' = mine \ {f} /\ theirs' = theirs \ {f}
    BY <2>1 DEF DeleteFile
  <2>3. \A g \in File : tree'[g] = IF g = f THEN None ELSE tree[g]
    BY <2>2 DEF LifecycleInv, TypeOK
  <2>4. mine \subseteq File /\ theirs \subseteq File
    BY DEF LifecycleInv, TypeOK
  <2> QED
    BY <1>1, <2>2, <2>3, <2>4 DEF LifecycleInv, OwnWorkRecorded, TheirsKept, Intact, Owned
<1>4. CASE UNCHANGED <<tree, mine, theirs>>
  BY <1>1, <1>4 DEF LifecycleInv, OwnWorkRecorded, TheirsKept, Intact, Owned
<1> QED
  BY <1>2, <1>3, <1>4 DEF UserEdits, EditAgentsMd, EditDirectory

-----------------------------------------------------------------------------
(* Backups. *)

\* What an install leaves of the backups is what its manifest lists: of the
\* old ones those that are listed still, and one of each file it overwrote.
LEMMA InstallBackups ==
  ASSUME LifecycleInv, NEW v \in Version, NEW agents \in BOOLEAN, Install(v, agents)
  PROVE  saved' = References(manifest')
<1>1. PICK t \in Transaction :
        /\ manifest' = NewManifest(v, t, agents)
        /\ saved' = ((saved \ Obsolete(manifest'))
                       \cup ActionBackups(t, Overwritten(v, agents, manifest'), Obsolete(manifest')))
                    \ CommitCleanup(t, Obsolete(manifest'))
  BY DEF Install, FreshTransaction
<1>2. saved = References(manifest) /\ ~Conflict(v, agents)
  BY DEF Install, LifecycleInv, BackupsKept, SavedExact
<1> DEFINE new == NewManifest(v, t, agents)
           files == Outdated(v, agents)
                      \cup (IF agentsMd \notin {None, NewAgentsMd(v)} THEN {AgentsMd} ELSE {})
           fresh == {<<t, f>> : f \in files}
<1>3. IsManifest(manifest) /\ IsManifest(new) /\ TypeOK
  BY <1>2, NewManifestTyped DEF LifecycleInv, TypeOK
<1>4. new.files = NewFiles(v, t, agents) /\ new.agents = NewAgentsRecord(v, t)
  BY NewManifestFields
<1>5. {f \in Written(v, agents) : tree[f] # None} = Outdated(v, agents)
  <2>1. \A f \in Outdated(v, agents) : tree[f] # None
    BY <1>3, IntactVersion DEF Outdated
  <2> QED
    BY <2>1 DEF Written, Missing
<1>6. Outdated(v, agents) \subseteq File /\ StateFile \notin files
  BY PlanFiles, LifecycleAssumption DEF Written
<1>7. saved' = (References(manifest) \cap References(new)) \cup fresh
  <2>1. References(manifest) \subseteq Backup
    BY <1>3, ReferencesTyped
  <2>2. Obsolete(new) = References(manifest) \ References(new)
    BY <1>2 DEF Obsolete
  <2> DEFINE old == Obsolete(new)
             again == {<<t, b[1], b[2]>> : b \in old}
             ofState == IF manifest \notin {NoManifest, new} THEN {<<t, StateFile>>} ELSE {}
  <2>3. ActionBackups(t, Overwritten(v, agents, new), old) = fresh \cup ofState \cup again
    BY <1>5 DEF Overwritten, ActionBackups
  <2>4. CommitCleanup(t, old) = {<<t, StateFile>>} \cup again
    BY DEF CommitCleanup, ActionBackups
  <2>5. \A b \in Backup : b # <<t, StateFile>> /\ b \notin again
    <3>1. \A c \in again : c \notin Backup
      BY DEF Backup
    <3> QED
      BY <3>1, LifecycleAssumption DEF Backup
  <2>6. fresh \subseteq Backup
    BY <1>6, LifecycleAssumption DEF Backup
  <2> HIDE DEF again, fresh, ofState, old
  <2>7. ofState \subseteq {<<t, StateFile>>}
    BY DEF ofState
  <2>8. saved' = ((References(manifest) \ old) \cup fresh \cup ofState \cup again)
                   \ ({<<t, StateFile>>} \cup again)
    BY <1>1, <1>2, <2>3, <2>4 DEF old
  <2>9. References(manifest) \ old = References(manifest) \cap References(new)
    BY <2>2 DEF old
  <2> QED
    BY <2>1, <2>5, <2>6, <2>7, <2>8, <2>9
<1>8. fresh \subseteq References(new)
  <2>1. ASSUME NEW f \in Outdated(v, agents) PROVE <<t, f>> \in References(new)
    <3>1. f \in DOMAIN new.files /\ new.files[f].backup = <<t, f>>
      BY <1>4, <2>1 DEF NewFiles, Written
    <3>2. <<t, f>> # None
      BY <1>6, <2>1, BackupAssumption DEF Backup
    <3> QED
      BY <3>1, <3>2 DEF References
  <2>2. ASSUME agentsMd \notin {None, NewAgentsMd(v)} PROVE <<t, AgentsMd>> \in References(new)
    <3>1. ~BlockEdited
      BY <2>2 DEF NewAgentsMd
    <3>2. new.agents \in AgentsRecord /\ new.agents.backup = <<t, AgentsMd>>
      BY <1>2, <1>3, <1>4, <2>2, <3>1, NewAgentsTyped DEF NewAgentsRecord
    <3> QED
      BY <3>2, BackupAssumption, RecordAssumption DEF References, Backup
  <2> QED
    BY <2>1, <2>2
<1>9. References(new) \subseteq References(manifest) \cup fresh
  <2>1. ASSUME NEW f \in DOMAIN new.files, new.files[f].backup # None
        PROVE  new.files[f].backup \in References(manifest) \cup fresh
    <3>1. \/ f \in Outdated(v, agents) /\ new.files[f].backup = <<t, f>>
          \/ f \in Recorded /\ new.files[f].backup = manifest.files[f].backup
      BY <1>4, <2>1 DEF NewFiles, AdoptedRecord
    <3> QED
      BY <2>1, <3>1 DEF References, Recorded
  <2>2. ASSUME new.agents # None, new.agents.backup # None
        PROVE  new.agents.backup \in References(manifest) \cup fresh
    <3>1. CASE BlockEdited
      BY <1>4, <2>2, <3>1 DEF NewAgentsRecord, BlockEdited, References
    <3>2. CASE ~BlockEdited
      <4>1. \/ agentsMd \notin {None, NewAgentsMd(v)} /\ new.agents.backup = <<t, AgentsMd>>
            \/ /\ agentsMd # None /\ agentsMd.block # None
               /\ new.agents.backup = manifest.agents.backup
        BY <1>4, <2>2, <3>2 DEF NewAgentsRecord
      <4>2. agentsMd # None /\ agentsMd.block # None => manifest.agents # None
        BY <1>2 DEF Conflict
      <4> QED
        BY <2>2, <4>1, <4>2 DEF References
    <3> QED
      BY <3>1, <3>2
  <2> QED
    BY <2>1, <2>2 DEF References
<1> QED
  BY <1>1, <1>7, <1>8, <1>9

LEMMA BackupsStep ==
  ASSUME LifecycleInv, Next
  PROVE  BackupsKept'
<1>1. ASSUME NEW v \in Version, NEW agents \in BOOLEAN, Install(v, agents) PROVE BackupsKept'
  <2>1. pending = NoManifest /\ pending' = pending
    BY <1>1 DEF Install
  <2>2. SavedExact'
    BY <1>1, InstallBackups DEF SavedExact, References
  <2> QED
    BY <2>1, <2>2 DEF BackupsKept
<1>2. ASSUME Uninstall PROVE BackupsKept'
  <2>1. PICK t \in FreshTransaction, obsolete \in SUBSET Obsolete(Remainder) :
          copies' = ActionBackups(t, Removed, obsolete) /\ saved' = (saved \ obsolete) \cup copies'
    BY <1>2 DEF Uninstall
  <2>2. manifest # NoManifest /\ pending = NoManifest /\ pending' = manifest /\ manifest' = Remainder
    BY <1>2 DEF Uninstall
  <2>3. saved = References(manifest) /\ IsManifest(manifest)
    BY <2>2 DEF LifecycleInv, BackupsKept, SavedExact, TypeOK
  <2>4. References(Remainder) \subseteq References(manifest)
    BY <2>3, RemainderPart
  <2>5. obsolete \cap References(Remainder) = {} /\ obsolete \subseteq Backup
    BY <2>3, ReferencesTyped DEF Obsolete
  <2>6. \A b \in copies' : b \notin saved
    <3>1. Removed \subseteq File \cup {AgentsMd, StateFile}
      BY <2>3 DEF Removed, Deleted, IsManifest, Recorded
    <3>2. t \in Transaction /\ \A b \in saved : b[1] # t
      BY DEF FreshTransaction
    <3>3. \A b \in copies' : b[1] = t
      BY <2>1, <2>5, <3>1, <3>2, ActionBackupsTyped
    <3> QED
      BY <3>2, <3>3
  <2>7. References(Remainder) \subseteq saved' \ copies' /\ saved' \subseteq References(manifest) \cup copies'
    BY <2>1, <2>3, <2>4, <2>5, <2>6
  <2>8. References(manifest') \subseteq saved' \ copies' /\ saved' \subseteq References(pending') \cup copies'
    BY <2>2, <2>7
  <2> QED
    BY <2>2, <2>8 DEF BackupsKept, SavedExact, References
<1>3. ASSUME Finalize PROVE BackupsKept'
  <2>1. /\ pending # NoManifest /\ pending' = NoManifest /\ manifest' = manifest
        /\ saved' = saved \ (copies \cup (References(pending) \ References(manifest)))
    BY <1>3 DEF Finalize, Prerequisites
  <2>2. References(manifest) \subseteq saved \ copies /\ saved \subseteq References(pending) \cup copies
    BY <2>1 DEF LifecycleInv, BackupsKept
  <2>3. saved' = References(manifest')
    BY <2>1, <2>2
  <2> QED
    BY <2>1, <2>3 DEF BackupsKept, SavedExact, References
<1>4. ASSUME FinalizeRefused PROVE BackupsKept'
  <2>1. /\ pending # NoManifest /\ pending' = pending /\ manifest' = manifest /\ copies' = copies
        /\ saved' \subseteq saved
        /\ saved \ (copies \cup (References(pending) \ References(manifest))) \subseteq saved'
    BY <1>4 DEF FinalizeRefused, Prerequisites
  <2>2. References(manifest) \subseteq saved \ copies /\ saved \subseteq References(pending) \cup copies
    BY <2>1 DEF LifecycleInv, BackupsKept
  <2>3. References(manifest') \subseteq saved' \ copies' /\ saved' \subseteq References(pending') \cup copies'
    BY <2>1, <2>2
  <2> QED
    BY <2>1, <2>3 DEF BackupsKept, SavedExact, References
<1>5. ASSUME UserEdits PROVE BackupsKept'
  BY <1>5 DEF UserEdits, Edit, LifecycleInv, BackupsKept, SavedExact, References
<1> QED
  BY <1>1, <1>2, <1>3, <1>4, <1>5 DEF Next

-----------------------------------------------------------------------------
(* Directories that a manifest accounts for. *)

LEMMA InstallAccounts ==
  ASSUME LifecycleInv, NEW v \in Version, NEW agents \in BOOLEAN, Install(v, agents)
  PROVE  MadeKept' /\ RestHeld' /\ ManifestDirsPresent'
<1>1. PICK t \in Transaction : manifest' = NewManifest(v, t, agents)
  BY DEF Install, FreshTransaction
<1>2. manifest'.created = manifest.created \cup (Candidates(agents) \ dirs)
  BY <1>1, NewManifestFields
<1>3. dirs \subseteq dirs' /\ made' = made \cup (dirs' \ dirs)
  BY InstallDirs DEF LifecycleInv
<1>4. pending' = NoManifest /\ RecordedDirs(manifest') \subseteq dirs' /\ replaced' = replaced
  BY DEF Install
<1>5. manifest'.created \cap dirs' \subseteq made' \cup replaced'
  BY <1>2, <1>3, <1>4 DEF LifecycleInv, MadeKept
<1>6. pending'.created = {}
  BY <1>4, NoManifestFields
<1> QED
  BY <1>4, <1>5, <1>6 DEF MadeKept, RestHeld, ManifestDirsPresent, RecordedDirs

LEMMA UninstallAccounts ==
  ASSUME LifecycleInv, Uninstall
  PROVE  MadeKept' /\ RestHeld' /\ ManifestDirsPresent'
<1>1. /\ manifest # NoManifest /\ manifest' = Remainder /\ pending' = manifest
      /\ dirs' = dirs /\ made' = made /\ replaced' = replaced
      /\ RecordedDirs(manifest) \subseteq dirs
      /\ \A f \in File : tree'[f] = IF f \in Deleted THEN None ELSE tree[f]
  BY DEF Uninstall, Readable
<1>2. /\ IsManifest(Remainder)
      /\ DOMAIN Remainder.files \subseteq Remaining
      /\ RecordedDirs(Remainder) \subseteq RecordedDirs(manifest)
      /\ Remainder.created \subseteq manifest.created
      /\ Remainder.created \subseteq UNION {FileDirs[f] : f \in DOMAIN Remainder.files}
  BY RemainderPart DEF LifecycleInv, TypeOK
<1>3. MadeKept'
  BY <1>1, <1>2 DEF LifecycleInv, MadeKept
<1>4. ManifestDirsPresent'
  BY <1>1, <1>2 DEF ManifestDirsPresent, RecordedDirs
<1>5. \A f \in DOMAIN Remainder.files : tree'[f] # None
  <2>1. \A f \in Remaining : f \notin Deleted /\ tree[f] # None
    BY DEF Remaining, Deleted
  <2> QED
    BY <1>1, <1>2, <2>1 DEF IsManifest
<1> QED
  BY <1>1, <1>2, <1>3, <1>4, <1>5 DEF RestHeld, Recorded

\* A sweep leaves the directories of files that exist.
LEMMA FinalizeAccounts ==
  ASSUME LifecycleInv, TypeOK', Finalize \/ FinalizeRefused
  PROVE  MadeKept' /\ RestHeld' /\ ManifestDirsPresent'
<1>1. /\ pending # NoManifest /\ dirs' \subseteq dirs /\ made' = made \cap dirs'
      /\ pending' = NoManifest \/ (pending' = pending /\ replaced' = replaced)
      /\ replaced \cap RecordedDirs(manifest) \subseteq replaced'
      /\ UNCHANGED <<tree, manifest, disturbed>>
  BY CleanupSweeps
<1>2. MadeKept'
  <2>1. manifest.created \subseteq RecordedDirs(manifest)
    BY DEF RecordedDirs
  <2>2. manifest'.created \cap dirs' \subseteq made' \cup replaced'
    BY <1>1, <2>1 DEF LifecycleInv, MadeKept
  <2>3. pending'.created \cap dirs' \subseteq made' \cup replaced'
    BY <1>1, NoManifestFields DEF LifecycleInv, MadeKept
  <2> QED
    BY <2>2, <2>3 DEF MadeKept
<1>3. RestHeld'
  BY <1>1 DEF LifecycleInv, RestHeld, Recorded
<1>4. ASSUME ~disturbed' PROVE RecordedDirs(manifest') \subseteq dirs'
  <2>1. \A f \in Recorded : tree[f] # None /\ f \in File
    BY <1>1, <1>4 DEF LifecycleInv, RestHeld, TypeOK, IsManifest, Recorded
  <2>2. \A f \in Recorded : FileDirs[f] \subseteq dirs'
    BY <1>1, <2>1 DEF TypeOK
  <2>3. manifest.created \subseteq UNION {FileDirs[f] : f \in Recorded}
    BY <1>1, <1>4 DEF LifecycleInv, RestHeld
  <2> QED
    BY <1>1, <2>2, <2>3 DEF RecordedDirs, Recorded
<1> QED
  BY <1>2, <1>3, <1>4 DEF ManifestDirsPresent, RecordedDirs

LEMMA EditsAccount ==
  ASSUME LifecycleInv, UserEdits
  PROVE  MadeKept' /\ RestHeld' /\ ManifestDirsPresent'
<1>1. /\ UNCHANGED <<manifest, pending>> /\ disturbed' = (disturbed \/ pending # NoManifest)
      /\ replaced' = replaced \cup (((dirs \ dirs') \cup (dirs' \ dirs))
                                      \cap (RecordedDirs(manifest) \cup RecordedDirs(pending)))
  BY DEF UserEdits, Edit
<1>2. RestHeld'
  BY <1>1 DEF RestHeld
<1>3. manifest.created \subseteq RecordedDirs(manifest) /\ pending.created \subseteq RecordedDirs(pending)
  BY DEF RecordedDirs
<1>4. ManifestDirsPresent'
  <2>1. RecordedDirs(manifest') = RecordedDirs(manifest)
    BY <1>1
  <2>2. RecordedDirs(manifest) \subseteq dirs \cup replaced => RecordedDirs(manifest) \subseteq dirs' \cup replaced'
    BY <1>1
  <2> QED
    BY <1>1, <2>1, <2>2 DEF LifecycleInv, ManifestDirsPresent
<1>5. made \cap dirs' \subseteq made'
  <2>1. ASSUME NEW f \in File, NEW c \in Text, WriteFile(f, c) PROVE made' = made
    BY <2>1 DEF WriteFile
  <2>2. ASSUME NEW d \in Dir, EditDirectory(d) PROVE made \cap dirs' \subseteq made'
    BY <2>2 DEF EditDirectory
  <2> QED
    BY <2>1, <2>2 DEF UserEdits, DeleteFile, EditAgentsMd
<1>6. MadeKept'
  BY <1>1, <1>3, <1>5 DEF LifecycleInv, MadeKept
<1> QED
  BY <1>2, <1>4, <1>6

-----------------------------------------------------------------------------
(* Theorems. *)

LEMMA LifecycleInvInit == Init => LifecycleInv
<1> SUFFICES ASSUME Init PROVE LifecycleInv
  OBVIOUS
<1>1. manifest = NoManifest /\ pending = NoManifest /\ saved = {} /\ mine = {} /\ theirs = {} /\ dirs = {}
  BY DEF Init
<1>2. SavedExact /\ RecordedDirs(manifest) \subseteq dirs
  BY <1>1, NoManifestFields DEF SavedExact
<1> QED
  BY <1>1, <1>2, InitTyped DEF LifecycleInv, OwnWorkRecorded, TheirsKept, BackupsKept, MadeKept,
     RestHeld, ManifestDirsPresent

LEMMA LifecycleInvStep ==
  ASSUME LifecycleInv, [Next]_vars
  PROVE  LifecycleInv'
<1>1. TypeOK'
  BY TypeStep DEF LifecycleInv
<1>2. CASE UNCHANGED vars
  BY <1>2, <1>1 DEF vars, history, LifecycleInv, OwnWorkRecorded, TheirsKept, BackupsKept, SavedExact,
     MadeKept, RestHeld, ManifestDirsPresent, Intact, Owned, Recorded, References, RecordedDirs
<1>3. CASE Next
  <2>1. BackupsKept'
    BY <1>3, BackupsStep
  <2>2. OwnWorkRecorded' /\ TheirsKept'
    BY <1>1, <1>3, InstallOwners, UninstallOwners, FinalizeOwners, EditsOwners DEF Next
  <2>3. MadeKept' /\ RestHeld' /\ ManifestDirsPresent'
    BY <1>1, <1>3, InstallAccounts, UninstallAccounts, FinalizeAccounts, EditsAccount DEF Next
  <2> QED
    BY <1>1, <2>1, <2>2, <2>3 DEF LifecycleInv
<1> QED
  BY <1>2, <1>3

\* What the installer, the user and the manifest each account for is preserved
\* by every command and every edit (the inductive invariant).
THEOREM Invariance == Spec => []LifecycleInv
<1> QED
  BY LifecycleInvInit, LifecycleInvStep, PTL DEF Spec

\* A file the installer wrote and nobody touched is recorded as the installer's.
THEOREM WorkRecorded == Spec => []OwnWorkRecorded
<1>1. LifecycleInv => OwnWorkRecorded
  BY DEF LifecycleInv
<1> QED
  BY <1>1, Invariance, PTL

\* Of what the transactions back up and delete, exactly the backups that the
\* manifest lists are left once no cleanup is due.
THEOREM BackupsExact == Spec => []SavedExact
<1>1. LifecycleInv => SavedExact
  BY DEF LifecycleInv, BackupsKept
<1> QED
  BY <1>1, Invariance, PTL

\* No command takes a directory that the manifest records: one that is not
\* there was removed by the user, or by a cleanup resumed after an edit.
THEOREM DirsPresent == Spec => []ManifestDirsPresent
<1>1. LifecycleInv => ManifestDirsPresent
  BY DEF LifecycleInv
<1> QED
  BY <1>1, Invariance, PTL

\* No command changes a file the user made or modified.
THEOREM UserFilesSafe == Spec => UserFilesKept
<1> DEFINE A == \A f \in File :
                  f \in theirs \/ tree[f] \in UserText => tree'[f] = tree[f] \/ edits' # edits
<1>1. ASSUME LifecycleInv, [Next]_vars PROVE [A]_vars
  <2>1. SUFFICES ASSUME Next, NEW f \in File, f \in theirs \/ tree[f] \in UserText
                 PROVE  tree'[f] = tree[f] \/ edits' # edits
    BY <1>1
  <2>2. tree[f] # None /\ ~Intact(f)
    <3>1. f \in theirs => tree[f] # None /\ ~Intact(f)
      BY <1>1 DEF LifecycleInv, TheirsKept, Intact
    <3>2. tree[f] \in UserText => tree[f] # None /\ tree[f] \notin Version
      BY LifecycleAssumption DEF Text
    <3>3. Intact(f) => tree[f] \in Version
      BY <1>1, IntactVersion DEF LifecycleInv
    <3> QED
      BY <2>1, <3>1, <3>2, <3>3
  <2>3. ASSUME NEW v \in Version, NEW agents \in BOOLEAN, Install(v, agents) PROVE tree'[f] = tree[f]
    <3>1. f \notin Written(v, agents)
      BY <2>2, WrittenSafe
    <3> QED
      BY <2>3, <3>1 DEF Install
  <2>4. ASSUME Uninstall PROVE tree'[f] = tree[f]
    BY <2>2, <2>4 DEF Uninstall, Deleted
  <2>5. ASSUME UserEdits PROVE edits' # edits
    BY <1>1, <2>5 DEF UserEdits, Edit, LifecycleInv, TypeOK
  <2> QED
    BY <2>1, <2>3, <2>4, <2>5 DEF Next, Finalize, FinalizeRefused
<1> QED
  BY <1>1, Invariance, PTL DEF Spec, UserFilesKept

\* A directory that is recorded by its owner goes only if the installer made it.
THEOREM UserDirsSafe == Spec => RecordedDirsOwned
<1> DEFINE A == \A d \in (dirs \ made) \ SweptDir : d \in dirs' \/ edits' # edits
<1>1. ASSUME LifecycleInv, [Next]_vars PROVE [A]_vars
  <2>1. SUFFICES ASSUME Next, NEW d \in (dirs \ made) \ SweptDir PROVE d \in dirs' \/ edits' # edits
    BY <1>1
  <2>2. ASSUME NEW v \in Version, NEW agents \in BOOLEAN, Install(v, agents) PROVE d \in dirs'
    BY <1>1, <2>2, InstallDirs DEF LifecycleInv
  <2>3. ASSUME Finalize \/ FinalizeRefused PROVE d \in dirs'
    <3>1. PICK reached \in SUBSET SweepCandidates :
            reached \cap Mismatched = {} /\ dirs' = dirs \ Swept(reached)
      BY <2>3, CleanupSweeps
    <3>2. d \in SweepCandidates => d \in pending.created /\ d \in dirs /\ d \notin made
      BY DEF SweepCandidates
    <3>3. d \in SweepCandidates => d \in Mismatched
      BY <1>1, <3>2 DEF LifecycleInv, MadeKept, Mismatched, RecordedDirs
    <3>4. d \notin Swept(reached)
      BY <3>1, <3>3 DEF Swept
    <3> QED
      BY <3>1, <3>4
  <2>4. ASSUME UserEdits PROVE edits' # edits
    BY <1>1, <2>4 DEF UserEdits, Edit, LifecycleInv, TypeOK
  <2> QED
    BY <2>1, <2>2, <2>3, <2>4 DEF Next, Uninstall
<1> QED
  BY <1>1, Invariance, PTL DEF Spec, RecordedDirsOwned

-----------------------------------------------------------------------------
(* Convergence. *)

\* What an install leaves to a next one with the same arguments: nothing
\* outdated, nothing to adopt, forget or create, and the block in order.
Installed(v, agents) ==
  /\ pending = NoManifest
  /\ \A f \in Selected(agents) : Intact(f) => manifest.files[f].installed = v
  /\ Forgotten(agents) = {} /\ Adopted(agents) = {}
  /\ ~BlockEdited => /\ agentsMd \in AgentsMdStates /\ agentsMd.block = v
                     /\ manifest.agents \in AgentsRecord /\ manifest.agents.block = v
  /\ Candidates(agents) \ dirs \subseteq manifest.created
  /\ manifest.files = [f \in Recorded |-> manifest.files[f]]
  /\ manifest = [files |-> manifest.files, agents |-> manifest.agents, created |-> manifest.created,
                 customAgents |-> Recorded \cap AgentFile # {}]

Converging ==
  \/ calm = NotCalm
  \/ /\ calm.times \in {1, 2}
     /\ \E v \in Version, agents \in BOOLEAN :
          /\ calm.install = <<v, agents>> /\ Installed(v, agents)
          /\ calm.times = 2 => Missing(agents) = {}

LEMMA InstallLeaves ==
  ASSUME LifecycleInv, NEW v \in Version, NEW agents \in BOOLEAN, Install(v, agents)
  PROVE  Installed(v, agents)'
<1>1. PICK t \in Transaction : manifest' = NewManifest(v, t, agents)
  BY DEF Install, FreshTransaction
<1> DEFINE new == NewFiles(v, t, agents)
<1>2. /\ manifest'.files = new /\ Recorded' = DOMAIN new
      /\ manifest'.agents = NewAgentsRecord(v, t)
      /\ manifest'.created = manifest.created \cup (Candidates(agents) \ dirs)
  BY <1>1, NewManifestFields DEF Recorded
<1>3. /\ DOMAIN new = (Recorded \ Forgotten(agents)) \cup Written(v, agents) \cup Adopted(agents)
      /\ new = [f \in DOMAIN new |-> new[f]]
      /\ \A f \in DOMAIN new :
           /\ f \in Written(v, agents) \cup Current(v, agents) =>
                new[f].owner = "installer" /\ new[f].installed = v
           /\ f \notin Written(v, agents) \cup Current(v, agents) /\ f \in Recorded =>
                new[f] = manifest.files[f]
           /\ f \notin Written(v, agents) \cup Current(v, agents) /\ f \notin Recorded =>
                new[f].owner = "preexisting"
  BY DEF NewFiles, AdoptedRecord
<1>4. /\ pending' = NoManifest /\ ~Conflict(v, agents)
      /\ \A f \in File : tree'[f] = IF f \in Written(v, agents) THEN v ELSE tree[f]
      /\ agentsMd' = NewAgentsMd(v) /\ dirs \subseteq dirs'
  BY DEF Install
<1>5. Selected(agents) \subseteq File /\ v # None /\ Written(v, agents) \subseteq Selected(agents)
  BY PlanFiles, LifecycleAssumption DEF Text, Written, Missing, Outdated
<1>6. manifest' = [files |-> new, agents |-> NewAgentsRecord(v, t), created |-> manifest'.created,
                   customAgents |-> DOMAIN new \cap AgentFile # {}]
  BY <1>1, <1>2 DEF NewManifest
<1> HIDE DEF new
<1>7. ASSUME NEW f \in Selected(agents), Intact(f)' PROVE manifest'.files[f].installed = v
  <2>1. f \in DOMAIN new /\ new[f].owner = "installer" /\ tree'[f] = new[f].installed
    BY <1>2, <1>7 DEF Intact, Owned
  <2>2. CASE f \notin Written(v, agents) \cup Current(v, agents)
    <3>1. f \in Recorded /\ new[f] = manifest.files[f] /\ tree'[f] = tree[f]
      BY <1>3, <1>4, <1>5, <2>1, <2>2
    <3>2. Intact(f)
      BY <2>1, <3>1 DEF Intact, Owned
    <3> QED
      BY <1>7, <2>2, <3>2 DEF Written, Outdated, Current
  <2> QED
    BY <1>2, <1>3, <2>1, <2>2
<1>8. Forgotten(agents)' = {}
  <2>1. SUFFICES ASSUME NEW f \in Selected(agents), f \in DOMAIN new, tree'[f] = None,
                        new[f].owner # "installer"
                 PROVE  FALSE
    BY <1>2 DEF Forgotten, Owned, Selected
  <2>2. f \notin Written(v, agents) \cup Current(v, agents) /\ tree[f] = None
    BY <1>3, <1>4, <1>5, <2>1
  <2>3. f \in Recorded \ Forgotten(agents)
    BY <1>3, <2>1, <2>2 DEF Adopted
  <2> QED
    BY <1>3, <2>1, <2>2, <2>3 DEF Forgotten, Owned
<1>9. Adopted(agents)' = {}
  <2>1. SUFFICES ASSUME NEW f \in Selected(agents) \cap AgentFile, f \notin DOMAIN new, tree'[f] # None
                 PROVE  FALSE
    BY <1>2 DEF Adopted, Selected
  <2>2. tree[f] # None
    BY <1>3, <1>4, <1>5, <2>1
  <2> QED
    BY <1>3, <2>1, <2>2 DEF Adopted, Forgotten
<1>10. ~BlockEdited' => /\ agentsMd' \in AgentsMdStates /\ agentsMd'.block = v
                        /\ manifest'.agents \in AgentsRecord /\ manifest'.agents.block = v
  <2>1. CASE BlockEdited
    BY <1>2, <1>4, <2>1 DEF BlockEdited, NewAgentsMd, NewAgentsRecord
  <2>2. CASE ~BlockEdited
    <3>1. agentsMd'.block = v /\ manifest'.agents.block = v
      BY <1>2, <1>4, <2>2 DEF NewAgentsMd, NewAgentsRecord
    <3>2. agentsMd' \in AgentsMdStates /\ manifest'.agents \in AgentsRecord
      BY <1>2, <1>4, <2>2, NewAgentsTyped DEF LifecycleInv
    <3> QED
      BY <3>1, <3>2
  <2> QED
    BY <2>1, <2>2
<1>11. (Candidates(agents) \ dirs \subseteq manifest.created)'
  BY <1>2, <1>4 DEF Candidates
<1> QED
  BY <1>2, <1>3, <1>4, <1>6, <1>7, <1>8, <1>9, <1>10, <1>11 DEF Installed, Selected

\* A second install writes what the first one had only forgotten.
LEMMA SecondInstall ==
  ASSUME LifecycleInv, NEW v \in Version, NEW agents \in BOOLEAN, Install(v, agents),
         Forgotten(agents) = {}
  PROVE  Missing(agents)' = {}
<1>1. SUFFICES ASSUME NEW f \in Selected(agents), tree'[f] = None PROVE FALSE
  BY DEF Missing, Selected
<1>2. f \notin Written(v, agents) /\ tree[f] = None
  BY <1>1, PlanFiles, LifecycleAssumption DEF Install, Text
<1> QED
  BY <1>1, <1>2 DEF Written, Missing, Forgotten

\* After that nothing is left to do.
LEMMA InstalledIdle ==
  ASSUME LifecycleInv, NEW v \in Version, NEW agents \in BOOLEAN,
         Installed(v, agents), Missing(agents) = {}
  PROVE  Idle(v, agents)
<1>1. Written(v, agents) = {}
  BY DEF Installed, Written, Outdated, Intact
<1>2. NewAgentsMd(v) = agentsMd /\ \A t \in Transaction : NewAgentsRecord(v, t) = manifest.agents
  <2>1. CASE BlockEdited
    BY <2>1 DEF NewAgentsMd, NewAgentsRecord
  <2>2. CASE ~BlockEdited
    <3>1. /\ agentsMd \in AgentsMdStates /\ agentsMd.block = v /\ agentsMd # None /\ v # None
          /\ manifest.agents \in AgentsRecord /\ manifest.agents.block = v
      BY <2>2, NoneAssumption, LifecycleAssumption DEF Installed, Text
    <3>2. agentsMd = [text |-> agentsMd.text, block |-> v]
      BY <3>1 DEF AgentsMdStates
    <3>3. NewAgentsMd(v) = agentsMd
      BY <2>2, <3>1, <3>2 DEF NewAgentsMd
    <3>4. manifest.agents = [block |-> v, created |-> manifest.agents.created, backup |-> manifest.agents.backup]
      BY <3>1 DEF AgentsRecord
    <3>5. ASSUME NEW t \in Transaction PROVE NewAgentsRecord(v, t) = manifest.agents
      <4>1. NewAgentsRecord(v, t) =
              [block |-> v, created |-> manifest.agents.created, backup |-> manifest.agents.backup]
        BY <2>2, <3>1, <3>3 DEF NewAgentsRecord
      <4> QED
        BY <3>4, <4>1
    <3> QED
      BY <3>3, <3>5
  <2> QED
    BY <2>1, <2>2
<1>3. ASSUME NEW t \in Transaction PROVE NewFiles(v, t, agents) = manifest.files
  <2> DEFINE new == NewFiles(v, t, agents)
  <2>1. DOMAIN new = Recorded /\ new = [f \in Recorded |-> new[f]]
    BY <1>1 DEF Installed, NewFiles
  <2>2. ASSUME NEW f \in Recorded PROVE new[f] = manifest.files[f]
    <3>1. CASE f \in Current(v, agents)
      <4>1. manifest.files[f] \in FileRecord /\ manifest.files[f].owner = "installer" /\ manifest.files[f].installed = v
        BY <3>1 DEF Current, Intact, Owned, Installed, LifecycleInv, TypeOK, IsManifest, Recorded
      <4>2. manifest.files[f] = [owner |-> "installer", installed |-> v, backup |-> manifest.files[f].backup]
        BY <4>1 DEF FileRecord
      <4>3. new[f] = [owner |-> "installer", installed |-> v, backup |-> manifest.files[f].backup]
        BY <1>1, <2>1, <2>2, <3>1 DEF NewFiles, Written
      <4> QED
        BY <4>2, <4>3
    <3>2. CASE f \notin Current(v, agents)
      BY <1>1, <2>1, <2>2, <3>2 DEF NewFiles
    <3> QED
      BY <3>1, <3>2
  <2>3. manifest.files = [f \in Recorded |-> manifest.files[f]]
    BY DEF Installed
  <2> HIDE DEF new
  <2>4. new = manifest.files
    BY <2>1, <2>2, <2>3
  <2> QED
    BY <2>4 DEF new
<1>4. ASSUME NEW t \in Transaction PROVE NewManifest(v, t, agents) = manifest
  <2>1. manifest.created \cup (Candidates(agents) \ dirs) = manifest.created
    BY DEF Installed
  <2>2. NewManifest(v, t, agents) =
          [files |-> manifest.files, agents |-> manifest.agents, created |-> manifest.created,
           customAgents |-> Recorded \cap AgentFile # {}]
    BY <1>2, <1>3, <2>1 DEF NewManifest, Recorded
  <2> QED
    BY <2>2 DEF Installed
<1> QED
  BY <1>1, <1>2, <1>4 DEF Idle, FreshTransaction

LEMMA ConvergingStep ==
  ASSUME LifecycleInv, Converging, [Next]_vars
  PROVE  Converging'
<1>1. CASE UNCHANGED vars
  BY <1>1 DEF vars, history, Converging, Installed, Missing, Intact, Owned, Recorded, Forgotten,
     Adopted, BlockEdited, Candidates, Selected
<1>2. ASSUME NEW v \in Version, NEW agents \in BOOLEAN, Install(v, agents) PROVE Converging'
  <2>1. calm' = [install |-> <<v, agents>>, times |-> IF calm.install = <<v, agents>> THEN 2 ELSE 1]
    BY <1>2 DEF Install
  <2>2. Installed(v, agents)'
    BY <1>2, InstallLeaves
  <2>3. ASSUME calm.install = <<v, agents>> PROVE Missing(agents)' = {}
    <3>1. calm # NotCalm
      BY <2>3 DEF NotCalm
    <3>2. PICK w \in Version, others \in BOOLEAN : calm.install = <<w, others>> /\ Installed(w, others)
      BY <3>1 DEF Converging
    <3>3. Forgotten(agents) = {}
      BY <2>3, <3>2 DEF Installed
    <3> QED
      BY <1>2, <3>3, SecondInstall
  <2> QED
    BY <2>1, <2>2, <2>3 DEF Converging
<1>3. ASSUME Uninstall \/ UserEdits PROVE Converging'
  BY <1>3 DEF Uninstall, UserEdits, Edit, Converging, NotCalm
<1>4. ASSUME Finalize \/ FinalizeRefused PROVE Converging'
  <2>1. calm = NotCalm /\ calm' = calm
    BY <1>4 DEF Finalize, FinalizeRefused, Converging, Installed
  <2> QED
    BY <2>1 DEF Converging, NotCalm
<1> QED
  BY <1>1, <1>2, <1>3, <1>4 DEF Next

\* Two installs with the same arguments, in a repository nobody touches in
\* between, leave nothing for a third one to do.
THEOREM Converges == Spec => []InstallConverges
<1>1. Init => Converging
  BY DEF Init, Converging
<1>2. LifecycleInv /\ Converging => InstallConverges
  <2>1. SUFFICES ASSUME LifecycleInv, Converging, calm.times = 2
                 PROVE  Idle(calm.install[1], calm.install[2])
    BY DEF InstallConverges
  <2>2. calm # NotCalm
    BY <2>1 DEF NotCalm
  <2>3. PICK v \in Version, agents \in BOOLEAN :
          calm.install = <<v, agents>> /\ Installed(v, agents) /\ Missing(agents) = {}
    BY <2>1, <2>2 DEF Converging
  <2> QED
    BY <2>1, <2>3, InstalledIdle
<1> QED
  BY <1>1, <1>2, ConvergingStep, Invariance, PTL DEF Spec

-----------------------------------------------------------------------------
(* What an uninstall leaves, and when a manifest cannot be read. *)

\* A managed block that the user has not touched is the one on record.
BlockRecorded ==
  agentsMd # None /\ agentsMd.block \in Version =>
    manifest.agents # None /\ manifest.agents.block = agentsMd.block

\* A manifest that lists custom agents says so.
AgentsDeclared == Recorded \cap AgentFile # {} => manifest.customAgents

LEMMA BlockStep ==
  ASSUME TypeOK, BlockRecorded, [Next]_vars
  PROVE  BlockRecorded'
<1>1. ASSUME NEW v \in Version, NEW agents \in BOOLEAN, Install(v, agents) PROVE BlockRecorded'
  <2>1. PICK t \in Transaction : manifest' = NewManifest(v, t, agents)
    BY <1>1 DEF Install, FreshTransaction
  <2>2. agentsMd' = NewAgentsMd(v) /\ manifest'.agents = NewAgentsRecord(v, t) /\ ~Conflict(v, agents)
    BY <1>1, <2>1, NewManifestFields DEF Install
  <2>3. CASE BlockEdited
    BY <2>2, <2>3 DEF BlockEdited, BlockRecorded, NewAgentsMd, NewAgentsRecord
  <2>4. CASE ~BlockEdited
    <3>1. NewAgentsRecord(v, t) \in AgentsRecord
      BY <2>2, <2>4, NewAgentsTyped
    <3>2. NewAgentsRecord(v, t).block = v /\ NewAgentsMd(v).block = v
      BY <2>4 DEF NewAgentsRecord, NewAgentsMd
    <3> QED
      BY <2>2, <3>1, <3>2, RecordAssumption DEF BlockRecorded
  <2> QED
    BY <2>3, <2>4
<1>2. CASE Uninstall
  <2>1. agentsMd \in AgentsMdStates \cup {None} /\ None \notin Version
    BY LifecycleAssumption DEF TypeOK, Text
  <2>2. CASE AgentsIntact
    <3>1. agentsMd' = None \/ agentsMd' = [agentsMd EXCEPT !.block = None]
      BY <1>2, <2>2 DEF Uninstall, StrippedAgentsMd
    <3>2. agentsMd \in AgentsMdStates
      BY <2>1, <2>2 DEF AgentsIntact
    <3>3. agentsMd' = None \/ agentsMd'.block = None
      BY <3>1, <3>2 DEF AgentsMdStates
    <3> QED
      BY <2>1, <3>3 DEF BlockRecorded
  <2>3. CASE ~AgentsIntact
    BY <1>2, <2>3 DEF Uninstall, AgentsIntact, BlockRecorded
  <2> QED
    BY <2>2, <2>3
<1>3. CASE Finalize \/ FinalizeRefused
  BY <1>3 DEF Finalize, FinalizeRefused, BlockRecorded
<1>4. CASE UserEdits
  <2>1. manifest' = manifest
    BY <1>4 DEF UserEdits, Edit
  <2>2. ASSUME NEW a \in AgentsMdStates \cup {None}, EditAgentsMd(a) PROVE BlockRecorded'
    BY <2>1, <2>2, LifecycleAssumption DEF EditAgentsMd, BlockRecorded, Text
  <2> QED
    BY <1>4, <2>1, <2>2 DEF UserEdits, WriteFile, DeleteFile, EditDirectory, BlockRecorded
<1>5. CASE UNCHANGED vars
  BY <1>5 DEF vars, BlockRecorded
<1> QED
  BY <1>1, <1>2, <1>3, <1>4, <1>5 DEF Next

LEMMA DeclaredStep ==
  ASSUME TypeOK, AgentsDeclared, [Next]_vars
  PROVE  AgentsDeclared'
<1>1. ASSUME NEW v \in Version, NEW agents \in BOOLEAN, Install(v, agents) PROVE AgentsDeclared'
  <2>1. PICK t \in Transaction : manifest' = NewManifest(v, t, agents)
    BY <1>1 DEF Install, FreshTransaction
  <2> QED
    BY <2>1 DEF NewManifest, AgentsDeclared, Recorded
<1>2. CASE Uninstall
  <2>1. manifest' = Remainder /\ DOMAIN Remainder.files \subseteq Recorded
    BY <1>2, RemainderPart DEF Uninstall, TypeOK, Remaining
  <2>2. Remainder = NoManifest \/ Remainder.customAgents = manifest.customAgents
    BY DEF Remainder
  <2> QED
    BY <2>1, <2>2, NoManifestFields DEF AgentsDeclared, Recorded
<1>3. CASE Finalize \/ FinalizeRefused \/ UserEdits \/ UNCHANGED vars
  <2>1. manifest' = manifest
    BY <1>3 DEF Finalize, FinalizeRefused, UserEdits, Edit, vars
  <2> QED
    BY <2>1 DEF AgentsDeclared, Recorded
<1> QED
  BY <1>1, <1>2, <1>3 DEF Next

\* After an uninstall that kept no record, and before any install, nothing of
\* the installer's is left: no file that it wrote and nobody touched, no block
\* of its own in AGENTS.md and, once the cleanup is over, no backup.
NothingLeft ==
  manifest = NoManifest =>
    /\ mine = {}
    /\ agentsMd = None \/ agentsMd.block \notin Version
    /\ pending = NoManifest => saved = {}

\* A full uninstall takes all of the installer's unmodified work with it.
THEOREM UninstallIsClean == Spec => []NothingLeft
<1>1. Init => BlockRecorded
  BY DEF Init, BlockRecorded
<1>2. TypeOK /\ BlockRecorded /\ [Next]_vars => BlockRecorded'
  BY BlockStep
<1>3. LifecycleInv /\ BlockRecorded => NothingLeft
  BY NoManifestFields
     DEF LifecycleInv, OwnWorkRecorded, Intact, Owned, Recorded, BackupsKept, SavedExact,
         BlockRecorded, NothingLeft
<1> QED
  BY <1>1, <1>2, <1>3, TypeCorrect, Invariance, PTL DEF Spec

\* A manifest that no command can read comes about in three ways only: the
\* user removed a directory that it records, or made it again; an edit came
\* before a cleanup was resumed; or a partial uninstall kept the mark of
\* custom agents that are all gone (the deviation of lifecycle_features).
UnreadableOnlyBy ==
  ~Readable =>
    \/ RecordedDirs(manifest) \cap replaced # {}
    \/ disturbed
    \/ manifest.customAgents /\ Recorded \cap AgentFile = {}

\* No other sequence of commands and edits locks the user out.
THEOREM UnreadableHasCause == Spec => []UnreadableOnlyBy
<1>1. Init => AgentsDeclared
  BY NoManifestFields DEF Init, AgentsDeclared, Recorded
<1>2. TypeOK /\ AgentsDeclared /\ [Next]_vars => AgentsDeclared'
  BY DeclaredStep
<1>3. LifecycleInv /\ AgentsDeclared => UnreadableOnlyBy
  <2> SUFFICES ASSUME LifecycleInv, AgentsDeclared, ~Readable, ~disturbed,
                      RecordedDirs(manifest) \cap replaced = {}
               PROVE  manifest.customAgents /\ Recorded \cap AgentFile = {}
    BY DEF UnreadableOnlyBy
  <2>1. RecordedDirs(manifest) \subseteq dirs \ replaced
    BY DEF LifecycleInv, ManifestDirsPresent
  <2>2. ~FeaturesMatch(manifest) /\ manifest.customAgents \in BOOLEAN
    BY <2>1 DEF Readable, LifecycleInv, TypeOK, IsManifest
  <2> QED
    BY <2>2 DEF FeaturesMatch, AgentsDeclared, Recorded
<1> QED
  BY <1>1, <1>2, <1>3, TypeCorrect, Invariance, PTL DEF Spec
=============================================================================
