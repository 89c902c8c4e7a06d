------------------------ MODULE MCInstallerLifecycle ------------------------
(***************************************************************************)
(* A small instance of InstallerLifecycle: one file of each kind and two   *)
(* package versions, which no definition tells apart.                      *)
(***************************************************************************)
EXTENDS InstallerLifecycle, TLC

MCFileDirs ==
  [f \in {"CODEX_WORKFLOW.md", "PROJECT_CONTEXT.md", "implementer.toml"} |->
     CASE f = "CODEX_WORKFLOW.md"  -> {".codex-workflow"}
       [] f = "PROJECT_CONTEXT.md" -> {"docs", "docs/ai"}
       [] OTHER                    -> {".codex/agents"}]
MCDir == {".codex-workflow", "docs", "docs/ai", ".codex/agents"}
MCParentDirs == [d \in MCDir |-> IF d = "docs/ai" THEN {"docs"} ELSE {}]
MCSymmetry == Permutations(Version)
=============================================================================
