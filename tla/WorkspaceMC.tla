----------------------------- MODULE WorkspaceMC -----------------------------
(* A small workspace for TLC, once as a tree of files with its watcher         *)
(* (WorkspaceFiles: a directory within a directory, a file in the outer one    *)
(* and a file beside it) and once as an entry of the registry (Workspaces: two *)
(* workspaces, the second a folder within the first); "side" says which of     *)
(* them a behaviour is about.                                                  *)
EXTENDS WorkspaceSystem

CONSTANTS root, outer, inner, f, g, v1, v2, laptop
Tree == [p \in {outer, inner, f, g} |-> IF p \in {inner, f} THEN outer ELSE root]
Empty == [p \in {outer, inner, f, g} |-> None]
Made == [Empty EXCEPT ![outer] = "dir"]
FileSystems == {Empty, Made}

Ask(kind, p, q, d, c) ==
    [kind |-> kind, path |-> p, to |-> q, device |-> d, content |-> c, expected |-> None,
     dir |-> FALSE, touched |-> {}, dropped |-> FALSE, pc |-> "check"]
Asked ==
    {Ask("save", f, f, laptop, v1), Ask("agent", f, f, None, v2), Ask("rename", f, g, None, None),
     Ask("mkdir", outer, outer, None, None), Ask("mkdir", inner, inner, None, None),
     Ask("delete", inner, inner, None, None)}

CONSTANTS project, crate, top, sub, t1, t2
Nested == [w \in {project, crate} |-> IF w = project THEN {top, sub} ELSE {sub}]
Tabs(open, focus) == [tabs |-> open, active |-> focus]
Inputs == {Tabs({}, None), Tabs({t1}, t2), Tabs({t1, t2}, t2)}

-----------------------------------------------------------------------------
VARIABLE side
MCInit ==
    /\ Init /\ Registry!Init
    /\ side \in {"files", "registry"}
    /\ IF side = "files" THEN folder = Ws /\ config.ws = {} ELSE fs = Empty
MCNext ==
    \/ side = "files" /\ Next /\ UNCHANGED <<registryVars, side>>
    \/ side = "registry" /\ Registry!Next /\ UNCHANGED <<vars, side>>
MCSpec == MCInit /\ [][MCNext]_<<vars, registryVars, side>>
=============================================================================
