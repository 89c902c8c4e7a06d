----------------------- MODULE MCInstallerTransaction -----------------------
(***************************************************************************)
(* Small instances of InstallerTransaction: a package file, a project      *)
(* template in a directory of its own, and the state manifest.             *)
(***************************************************************************)
EXTENDS InstallerTransaction_proofs

MCContent == {"old", "new"}
MCContentWithUser == MCContent \cup {"user"}
MCAbsent == "absent"

\* pkg stands for .codex-workflow, docs for docs/ai, bk for the backup
\* directory and tx for this transaction's directory in it.
MCDir == {"pkg", "docs", "bk", "tx"}
MCParentDirs == [d \in MCDir |-> IF d = "tx" THEN {"bk"} ELSE {}]
MCFileDirs == <<{"pkg"}, {"docs"}, {}>>
MCBackupDirs == [i \in 1 .. 3 |-> {"bk", "tx"}]
MCFreshDirs == {"tx"}
MCManagedDirs == {"pkg", "docs"}

\* A first installation, an update that adds the template, and the
\* uninstallation of everything.
MCPlans ==
  {[op |-> "install",   pre  |-> <<"absent", "absent", "absent">>,
                        post |-> <<"new", "new", "new">>],
   [op |-> "install",   pre  |-> <<"old", "absent", "old">>,
                        post |-> <<"new", "new", "new">>],
   [op |-> "uninstall", pre  |-> <<"old", "old", "old">>,
                        post |-> <<"absent", "absent", "absent">>]}

\* A partial uninstall, which rewrites the state manifest, and one whose
\* first file vanished after it was listed for deletion.
MCUninstallPlans ==
  {[op |-> "uninstall", pre  |-> <<"old", "old", "old">>,
                        post |-> <<"absent", "absent", "new">>],
   [op |-> "uninstall", pre  |-> <<"absent", "old", "old">>,
                        post |-> <<"absent", "absent", "absent">>]}

\* An update that also deletes a backup of an earlier transaction: old is
\* that transaction's directory, the deleted file is the second action's.
\* The plan touches no file in plans, which an uninstall removes when empty.
MCObsoleteDir == {"pkg", "plans", "bk", "old", "tx"}
MCObsoleteParentDirs == [d \in MCObsoleteDir |-> IF d \in {"old", "tx"} THEN {"bk"} ELSE {}]
MCObsoleteFileDirs == <<{"pkg"}, {"bk", "old"}, {}>>
MCObsoletePlans ==
  {[op |-> "install",   pre  |-> <<"old", "old", "old">>,
                        post |-> <<"new", "absent", "new">>],
   [op |-> "uninstall", pre  |-> <<"old", "old", "old">>,
                        post |-> <<"absent", "absent", "new">>]}
MCUpdate ==
  {[op |-> "install", pre  |-> <<"old", "absent", "old">>,
                      post |-> <<"new", "new", "new">>]}
MCLivePlans == MCPlans \cup MCUninstallPlans
=============================================================================
