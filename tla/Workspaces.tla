------------------------------ MODULE Workspaces ------------------------------
(* The folders the daemon serves: the registry of the workspace manager        *)
(* (src/workspace/mod.rs), the roots and directories of the watcher            *)
(* (src/fswatch/mod.rs), the file of editor tabs (src/workspace/tabs.rs) and   *)
(* the list and the trust in the configuration (src/config), which the         *)
(* handlers of src/api/workspaces.rs change one after the other.  Each store   *)
(* has its lock; nothing holds two.  A workspace may lie within another.       *)
EXTENDS Integers, Sequences, FiniteSets

CONSTANTS
    Ws,           \* workspaces; the id is the hash of the path
    Dir,
    Covers,       \* [Ws -> SUBSET Dir]: those at or below the root of a workspace
    TabId, TabInputs, MaxTabs,
    MaxOps, MaxBusy, \* requests in all, and at the same time
    MaxFaults     \* folders that change, saves that fail and restarts

None == "none"
NoTabs == [tabs |-> {}, active |-> None]

VARIABLES
    folder,    \* workspaces whose folder exists
    registry,  \* Manager.workspaces: None, "available" or "unavailable"
    roots,     \* SharedState.roots
    commands,  \* the channel of the watcher's worker
    watched,   \* directories it watches
    tabsFile,  \* what is in the tab store's file
    config,    \* the configuration in memory
    disk,      \* and in its file
    op,        \* requests under way
    counts,    \* requests and faults so far
    raced,     \* history: workspaces two requests changed at the same time
    shadowed,  \* history: workspaces that lost directories to a removed one
    mixed,     \* history: were two saves of tabs under way at once?
    saved      \* history: the tabs last saved for a workspace

vars == <<folder, registry, roots, commands, watched, tabsFile, config, disk, op, counts,
          raced, shadowed, mixed, saved>>
watcher == <<roots, commands, watched, shadowed>>
configs == <<config, disk>>
tabs == <<tabsFile, mixed, saved>>

Op == 1..MaxBusy
NoOp == [kind |-> "none", pc |-> "free"]
Busy == {i \in Op : op[i].pc # "free"}

Registered(w) == registry[w] # None

\* load_workspaces: a configured folder that cannot be opened is kept, unavailable.
Load(listed) == [w \in Ws |-> IF w \notin listed THEN None
                              ELSE IF w \in folder THEN "available" ELSE "unavailable"]

\* watch_available_workspaces, with the commands already carried out.
Available(reg) == {w \in Ws : reg[w] = "available"}

\* The daemon has started, with what was configured before.
Init ==
    /\ folder \in {F \in SUBSET Ws : \A v, w \in Ws : w \in F /\ Covers[w] \subseteq Covers[v] => v \in F}
    /\ \E listed \in SUBSET Ws : config = [ws |-> listed, trusted |-> {}]
    /\ disk = config /\ registry = Load(config.ws)
    /\ roots = Available(registry) /\ watched = UNION {Covers[w] : w \in roots} /\ commands = <<>>
    /\ tabsFile = [w \in Ws |-> NoTabs]
    /\ op = [i \in Op |-> NoOp]
    /\ counts = [ops |-> 0, faults |-> 0]
    /\ raced = {} /\ shadowed = {} /\ mixed = FALSE /\ saved = tabsFile

------------------------------------------------------------------------------
(* Requests                                                                    *)

Begin(o) ==
    /\ counts.ops < MaxOps /\ counts' = [counts EXCEPT !.ops = @ + 1]
    /\ \E i \in Op : op[i].pc = "free" /\ (\A j \in 1..(i - 1) : j \in Busy) /\ op' = [op EXCEPT ![i] = o]
    /\ raced' = IF \E i \in Busy : op[i].w = o.w THEN raced \union {o.w} ELSE raced
    /\ UNCHANGED <<folder, registry, watcher, configs, tabs>>

Request(kind, w, t) == [kind |-> kind, w |-> w, value |-> t, snapshot |-> <<>>, pc |-> "registry"]

\* open_dir_no_symlink has found the folder.
register_workspace(w) == w \in folder /\ Begin(Request("register", w, NoTabs))
remove_workspace(w) == Registered(w) /\ Begin(Request("remove", w, NoTabs))
set_workspace_trust(w) ==
    \E trusted \in BOOLEAN :
        Registered(w) /\ Begin([Request("trust", w, trusted) EXCEPT !.pc = "config"])

validated(t) == IF t.active \in t.tabs THEN t ELSE [t EXCEPT !.active = None]
put_workspace_tabs(w) ==
    \E t \in TabInputs :
        /\ Registered(w) /\ Cardinality(t.tabs) <= MaxTabs
        /\ Begin([Request("tabs", w, validated(t)) EXCEPT !.pc = "load"])

Fault == counts.faults < MaxFaults /\ counts' = [counts EXCEPT !.faults = @ + 1]
Goto(i, pc) == op' = [op EXCEPT ![i].pc = pc]
Finish(i) == op' = [op EXCEPT ![i] = NoOp]
At(i, kind, pc) == op[i].pc = pc /\ op[i].kind = kind

insert(i) ==
    /\ At(i, "register", "registry")
    /\ registry' = [registry EXCEPT ![op[i].w] = "available"]
    /\ Goto(i, "roots")
    /\ UNCHANGED <<folder, watcher, configs, tabs, counts, raced>>

\* Whoever comes second finds nothing and ends with an error.
remove(i) ==
    /\ At(i, "remove", "registry")
    /\ registry' = [registry EXCEPT ![op[i].w] = None]
    /\ IF Registered(op[i].w) THEN Goto(i, "roots") ELSE Finish(i)
    /\ UNCHANGED <<folder, watcher, configs, tabs, counts, raced>>

\* Watcher::add_workspace and remove_workspace: the roots under their lock, and
\* then the command under another.
add_root(i) ==
    /\ At(i, "register", "roots")
    /\ roots' = roots \union {op[i].w} /\ Goto(i, "send")
    /\ UNCHANGED <<folder, registry, commands, watched, shadowed, configs, tabs, counts, raced>>

remove_root(i) ==
    /\ At(i, "remove", "roots")
    /\ roots' = roots \ {op[i].w}
    /\ Goto(i, IF op[i].w \in roots THEN "send" ELSE "load")
    /\ UNCHANGED <<folder, registry, commands, watched, shadowed, configs, tabs, counts, raced>>

send(i) ==
    /\ op[i].pc = "send"
    /\ commands' = Append(commands, [kind |-> op[i].kind, w |-> op[i].w])
    /\ Goto(i, IF op[i].kind = "register" THEN "config" ELSE "load")
    /\ UNCHANGED <<folder, registry, roots, watched, shadowed, configs, tabs, counts, raced>>

------------------------------------------------------------------------------
(* The tab store: one file for all workspaces, read and written without a lock *)

Saving == {i \in Busy : op[i].pc = "save"}

load_all(i) ==
    /\ op[i].pc = "load"
    /\ op' = [op EXCEPT ![i].snapshot = tabsFile, ![i].pc = "save"]
    /\ mixed' = (mixed \/ Saving # {})
    /\ UNCHANGED <<folder, registry, watcher, configs, tabsFile, saved, counts, raced>>

After(i) == IF op[i].kind = "remove" THEN Goto(i, "config") ELSE Finish(i)

\* A mutant: the file is written with this workspace alone.
Replaced_alone(i) == [w \in Ws |-> IF w = op[i].w THEN op[i].value ELSE NoTabs]
Replaced(i) == [op[i].snapshot EXCEPT ![op[i].w] = op[i].value]

save(i) ==
    /\ op[i].pc = "save"
    /\ tabsFile' = Replaced(i) /\ saved' = [saved EXCEPT ![op[i].w] = op[i].value]
    /\ After(i)
    /\ UNCHANGED <<folder, registry, watcher, configs, mixed, counts, raced>>

save_fails(i) ==
    /\ op[i].pc \in {"load", "save"} /\ Fault
    /\ After(i)
    /\ UNCHANGED <<folder, registry, watcher, configs, tabs, raced>>

------------------------------------------------------------------------------
(* The configuration: changed and written under its write lock                 *)

Changed(i) ==
    LET w == op[i].w IN
    CASE op[i].kind = "register" -> [config EXCEPT !.ws = @ \union {w}]
      [] op[i].kind = "remove" -> [config EXCEPT !.ws = @ \ {w}]
      [] op[i].kind = "trust" -> [config EXCEPT !.trusted = IF op[i].value THEN @ \union {w} ELSE @ \ {w}]

\* A path that is not listed is an error, and nothing is written.
NotListed(i) == op[i].kind = "remove" /\ op[i].w \notin config.ws

persist(i) ==
    /\ op[i].pc = "config"
    /\ IF NotListed(i) THEN UNCHANGED configs ELSE config' = Changed(i) /\ disk' = Changed(i)
    /\ Finish(i)
    /\ UNCHANGED <<folder, registry, watcher, tabs, counts, raced>>

\* The change stays in memory, and the next save that succeeds writes it.
persist_fails(i) ==
    /\ op[i].pc = "config" /\ ~NotListed(i) /\ Fault
    /\ config' = Changed(i)
    /\ Finish(i)
    /\ UNCHANGED <<folder, registry, watcher, disk, tabs, raced>>

------------------------------------------------------------------------------
(* The worker of the watcher, the folders and the daemon                       *)

\* remove_tree unwatches whatever is below the root, another workspace included.
remove_tree(w) ==
    /\ watched' = watched \ Covers[w]
    /\ shadowed' = shadowed \union {v \in Ws \ {w} : Covers[v] \intersect Covers[w] # {}}

add_tree(w) ==
    /\ watched' = watched \union (IF w \in folder THEN Covers[w] ELSE {})
    /\ shadowed' = IF w \in folder THEN shadowed \ {w} ELSE shadowed \union {w}

worker_loop ==
    /\ commands # <<>> /\ commands' = Tail(commands)
    /\ LET c == Head(commands) IN IF c.kind = "register" THEN add_tree(c.w) ELSE remove_tree(c.w)
    /\ UNCHANGED <<folder, registry, roots, configs, tabs, op, counts, raced>>

\* The kernel drops the watches of a folder that goes away.
FolderChanges(w) ==
    /\ Fault
    /\ IF w \in folder
       THEN folder' = folder \ {v \in Ws : Covers[v] \subseteq Covers[w]}
            /\ shadowed' = shadowed \union {v \in Ws : Covers[v] \intersect Covers[w] # {}}
       ELSE folder' = folder \union {v \in Ws : Covers[w] \subseteq Covers[v]} /\ UNCHANGED shadowed
    /\ UNCHANGED <<registry, roots, commands, watched, configs, tabs, op, raced>>

\* The daemon stops, however far its requests are, and starts again.
Restart ==
    /\ Fault
    /\ op' = [i \in Op |-> NoOp] /\ commands' = <<>>
    /\ config' = disk /\ registry' = Load(disk.ws)
    /\ roots' = Available(registry')
    /\ watched' = UNION {Covers[w] : w \in roots'}
    /\ raced' = {} /\ shadowed' = {}
    /\ UNCHANGED <<folder, disk, tabs>>

Next ==
    \/ \E w \in Ws : register_workspace(w) \/ remove_workspace(w) \/ set_workspace_trust(w)
                     \/ put_workspace_tabs(w) \/ FolderChanges(w)
    \/ \E i \in Op : \/ insert(i) \/ remove(i) \/ add_root(i) \/ remove_root(i) \/ send(i)
                     \/ load_all(i) \/ save(i) \/ save_fails(i) \/ persist(i) \/ persist_fails(i)
    \/ worker_loop \/ Restart

Spec == Init /\ [][Next]_vars

------------------------------------------------------------------------------
(* Properties                                                                  *)

\* With the commands carried out as well, the directories of every workspace
\* are watched, except where remove_tree of a workspace around it or within it
\* took them or the folder went away, and no other directory is.
WatchedAreServed ==
    Busy = {} /\ commands = <<>> =>
        /\ \A w \in roots \ (raced \union shadowed) : Covers[w] \subseteq watched
        /\ raced = {} => watched \subseteq UNION {Covers[w] : w \in roots}

\* A save leaves the tabs of every other workspace intact, and a removed
\* workspace leaves none, as long as no two saves overlap (TabStore::save).
TabsAreKept ==
    ~mixed => /\ tabsFile = saved
              /\ \A w \in Ws \ raced : Busy = {} /\ ~Registered(w) /\ counts.faults = 0
                                           => tabsFile[w] = NoTabs

\* The stores beside the registry follow it (handle_watch_workspace, TabStore::save).
StoresFollow == WatchedAreServed /\ TabsAreKept
=============================================================================
