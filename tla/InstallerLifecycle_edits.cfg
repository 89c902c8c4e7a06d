SPECIFICATION Spec
CONSTANTS
  PackageFile = {"CODEX_WORKFLOW.md"}
  TemplateFile = {"PROJECT_CONTEXT.md"}
  AgentFile = {"implementer.toml"}
  AgentsMd = "AGENTS.md"
  StateFile = ".hybrid-codex-workflow-state.json"
  Version = {v1, v2}
  v1 = v1
  v2 = v2
  UserText = {"user"}
  None = None
  Dir <- MCDir
  ParentDirs <- MCParentDirs
  FileDirs <- MCFileDirs
  PackageDir = ".codex-workflow"
  AgentDir = {".codex/agents"}
  SweptDir = {".codex-workflow", "docs/ai"}
  MaxTransaction = 5
  MaxEdits = 2
INVARIANTS
  OwnWorkRecorded
  SavedExact
  ManifestDirsPresent
  InstallConverges
PROPERTIES
  UserFilesKept
  RecordedDirsOwned
SYMMETRY MCSymmetry
CHECK_DEADLOCK FALSE
