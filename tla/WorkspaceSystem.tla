--------------------------- MODULE WorkspaceSystem ---------------------------
(* The workspaces of a daemon: the tree of files of one of them with its       *)
(* watcher (WorkspaceFiles), and the stores that say which there are           *)
(* (Workspaces).  The first has a root that stays registered, the second no    *)
(* files, so the two share no state.                                           *)
EXTENDS WorkspaceFiles

CONSTANTS Ws, Covered, Covers, TabId, TabInputs, MaxTabs, MaxCalls, MaxBusy, MaxFaults

VARIABLES folder, registry, roots, queue, reported, tabsFile, config, stored, call, counts,
          raced, shadowed, mixed, saved
Registry == INSTANCE Workspaces WITH
    Dir <- Covered, MaxOps <- MaxCalls,
    commands <- queue, watched <- reported, disk <- stored, op <- call

registryVars == <<folder, registry, roots, queue, reported, tabsFile, config, stored, call,
                  counts, raced, shadowed, mixed, saved>>

\* The property of the registry; Workspaces.tla says what it is about: a directory
\* the watcher reports on belongs to a registered workspace, and those of one are
\* reported on; the tabs last saved for a workspace are the tabs in the file.
StoresFollow == Registry!StoresFollow
=============================================================================
