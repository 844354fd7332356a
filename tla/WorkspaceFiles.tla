---------------------------- MODULE WorkspaceFiles ----------------------------
(* The files of one workspace: the operations devices and agents call on them  *)
(* (src/workspace/mod.rs, src/api/files.rs, acp/core/handlers/filesystem.rs),  *)
(* programs outside that change the same files, and the watcher that tells the *)
(* devices about those (src/fswatch/mod.rs).  An operation runs on a blocking  *)
(* thread without any lock: what it looks at and what it then does are two     *)
(* steps, and what it reports to the watcher is a third.  The time a path is   *)
(* suppressed or throttled for may lapse whenever it likes.                    *)
EXTENDS Integers, Sequences, FiniteSets

CONSTANTS
    Root,         \* the directory of the workspace
    Dir,          \* directories below it
    File,         \* paths of regular files
    Parent,       \* [Dir \union File -> {Root} \union Dir]
    Content,      \* what a file may hold; its revision is its hash
    Binary,       \* those that read_file takes for binary
    Device,
    Start,        \* the file systems the daemon may find
    Requests,     \* what devices and agents may ask for
    EmitCapacity, \* EMIT_CHANNEL_CAPACITY
    MaxOps, MaxExternal, MaxDrops

Path == Dir \union File
None == "none"
Prefix == "prefix"  \* the revision of the first bytes of a binary file

ASSUME TreeAssumption ==
    /\ Root \notin Path /\ Dir \intersect File = {}
    /\ Parent \in [Path -> {Root} \union Dir] /\ IsFiniteSet(Dir)
    /\ \A S \in SUBSET Dir : S # {} => \E d \in S : Parent[d] \notin S
    /\ Start \subseteq [Path -> Content \union {"dir", None}]
    /\ \A f \in Start : /\ \A p \in File : f[p] # "dir"
                        /\ \A d \in Dir : f[d] \in {"dir", None}
                        /\ \A p \in Path : f[p] # None /\ Parent[p] # Root => f[Parent[p]] = "dir"
ASSUME ContentAssumption ==
    Binary \subseteq Content /\ {None, Prefix, "dir"} \intersect Content = {}
\* Files are read, written and renamed, a rename names two of them; directories
\* are made; either is deleted.
Asks(kinds, paths) ==
    [kind : kinds, path : paths, to : paths, device : Device \union {None},
     content : Content \union {None}, expected : {None}, dir : {FALSE}, touched : {{}},
     dropped : {FALSE}, pc : {"check"}]
ASSUME RequestAssumption ==
    \A r \in Requests :
        /\ r \in Asks({"save", "agent", "rename", "delete"}, File) \union Asks({"mkdir", "delete"}, Dir)
        /\ r.kind = "save" => r.device \in Device
        /\ r.kind \in {"save", "agent"} => r.content \in Content
        /\ r.kind # "rename" => r.to = r.path
ASSUME BoundsAssumption ==
    {EmitCapacity, MaxOps, MaxExternal, MaxDrops} \subseteq Nat

VARIABLES
    fs,         \* what is at each path: None, "dir" or a content
    held,       \* the revision of a file that a device last got from the daemon
    op,         \* the operations under way
    raw,        \* changes the debouncer holds, each a tuple of paths
    inotify,    \* directories the kernel reports on
    watched,    \* worker_loop's own record of them
    commands,   \* Command::WatchNewDir in the worker's channel
    walk,       \* walk_dirs: directories to watch, and to read once watched
    suppressed, \* SharedState.app_writes that are recent
    throttled,  \* SharedState.last_emit that are recent
    channel,    \* the bounded emit channel
    env,        \* operations, external changes and drops so far
    untold,     \* history: files with an external change that is still to be told
    clobbered,  \* history: operations that replaced what they did not expect
    replaced    \* history: directories that were deleted

vars == <<fs, held, op, raw, inotify, watched, commands, walk, suppressed, throttled, channel,
          env, untold, clobbered, replaced>>
disk == <<fs, raw, inotify, replaced>>
worker == <<watched, commands, walk>>
watcher == <<worker, suppressed, throttled, channel>>

Op == 1..MaxOps
NoOp == [kind |-> "none", pc |-> "free", dropped |-> FALSE]

IsDir(p) == IF p = Root THEN TRUE ELSE fs[p] = "dir"
Exists(p) == IF p = Root THEN TRUE ELSE fs[p] # None
Children(d) == {p \in Path : Parent[p] = d /\ fs[p] # None}

\* A directory below the root and those it lies in, itself included.
Line == [d \in Dir |-> {e \in Dir : \A S \in SUBSET Dir :
    d \in S /\ (\A a \in S : Parent[a] \in S \union {Root}) => e \in S}]

Init ==
    /\ fs \in Start
    /\ held = [d \in Device |-> [p \in File |-> None]]
    /\ op = [i \in Op |-> NoOp]
    /\ raw = {} /\ commands = <<>> /\ walk = <<>> /\ channel = <<>>
    /\ inotify = {Root} \union {d \in Dir : IsDir(d)} /\ watched = inotify
    /\ suppressed = {} /\ throttled = {}
    /\ env = [ops |-> 0, external |-> 0, drops |-> 0]
    /\ untold = {} /\ clobbered = {} /\ replaced = {}

------------------------------------------------------------------------------
(* A change of the file system, whoever makes it                               *)

\* Each change is a tuple of paths; the kernel reports it if it watches one of
\* their directories.
Seen(paths) == \E n \in DOMAIN paths : Parent[paths[n]] \in inotify
Touch(paths, i) == [j \in Op |->
    IF j # i /\ op[j].pc = "act" THEN [op[j] EXCEPT !.touched = @ \union paths] ELSE op[j]]

\* The kernel forgets a directory that is deleted.
Change(f, changes) ==
    /\ fs' = f
    /\ raw' = raw \union {c \in changes : Seen(c)}
    /\ inotify' = {d \in inotify : IF d = Root THEN TRUE ELSE f[d] = "dir"}
    /\ replaced' = replaced \union {d \in Dir : fs[d] = "dir" /\ f[d] # "dir"}

Write(p, c) == [fs EXCEPT ![p] = c]
Move(p, q) == [fs EXCEPT ![q] = fs[p], ![p] = None]

------------------------------------------------------------------------------
(* Operations of the workspace manager                                         *)

\* content_revision, and what read_file returns with the content.
RevisionRead(c) == IF c \in Binary THEN Prefix ELSE c
content_revision(c) == c

read_file(d, p) ==
    /\ fs[p] \in Content
    /\ held' = [held EXCEPT ![d][p] = RevisionRead(fs[p])]
    /\ UNCHANGED <<disk, op, watcher, env, untold, clobbered>>

\* A mutant: the revision is not compared.
WriteAllowed_unchecked(o) == o.expected = None \/ fs[o.path] \in Content

\* An expected revision has to be that of the file as it is; without one, the
\* agent's case, anything is overwritten.
WriteAllowed(o) == o.expected = None \/ (fs[o.path] \in Content /\ content_revision(fs[o.path]) = o.expected)
DeleteAllowed(o) == Exists(o.path) /\ (IsDir(o.path) => Children(o.path) = {})
RenameAllowed(o) == Exists(o.path) /\ ~Exists(o.to) /\ Exists(Parent[o.to])
MkdirAllowed(o) == ~Exists(o.path)

Allowed(o) == CASE o.kind \in {"save", "agent"} -> WriteAllowed(o)
                [] o.kind = "delete" -> DeleteAllowed(o)
                [] o.kind = "rename" -> RenameAllowed(o)
                [] o.kind = "mkdir" -> MkdirAllowed(o)

\* What succeeds without doing anything is reported like the rest.
Trivial(o) == \/ o.kind = "rename" /\ o.path = o.to
              \/ o.kind = "mkdir" /\ fs[o.path] = "dir"

Finish(i) == op' = [op EXCEPT ![i] = NoOp]
At(i, pc) == op[i].pc = pc

\* A device names the revision it last read, an agent none.
Expected(r) == IF r.kind = "save" THEN held[r.device][r.path] ELSE None

\* The blocking task looks at the paths, and is refused or goes on.
Begin(r) ==
    LET o == [r EXCEPT !.expected = Expected(r)]
    IN /\ env.ops < MaxOps /\ env' = [env EXCEPT !.ops = @ + 1]
       /\ \/ Trivial(o) /\ op' = [op EXCEPT ![env.ops + 1] = [o EXCEPT !.pc = "note"]]
          \/ ~Trivial(o) /\ Allowed(o)
             /\ op' = [op EXCEPT ![env.ops + 1] = [o EXCEPT !.pc = "act", !.dir = IsDir(o.path)]]
          \/ ~Trivial(o) /\ ~Allowed(o) /\ UNCHANGED op
       /\ UNCHANGED <<disk, held, watcher, untold, clobbered>>

\* create_dir_all creates the directories above as well.
Missing(d) == {e \in Line[d] : fs[e] = None}

\* What the system call does to the file system; <<>> when it fails.
Effect(o) ==
    CASE o.kind \in {"save", "agent"} /\ IsDir(Parent[o.path]) /\ fs[o.path] # "dir"
           -> Write(o.path, o.content)
      [] o.kind = "delete" /\ Exists(o.path) /\ IsDir(o.path) = o.dir
           /\ (IsDir(o.path) => Children(o.path) = {}) -> Write(o.path, None)
      [] o.kind = "rename" /\ Exists(o.path) /\ IsDir(Parent[o.to]) -> Move(o.path, o.to)
      [] o.kind = "mkdir" /\ fs[o.path] \in {None, "dir"} ->
           [p \in Path |-> IF p \in Missing(o.path) THEN "dir" ELSE fs[p]]
      [] OTHER -> <<>>

Changes(o) == IF o.kind = "rename" THEN {<<o.path, o.to>>}
              ELSE IF o.kind = "mkdir" THEN {<<e>> : e \in Missing(o.path)} ELSE {<<o.path>>}

\* A save replaces something else than it expects; a rename replaces something.
Clobbers(o) == \/ o.kind = "save" /\ o.expected # None /\ fs[o.path] # o.expected
               \/ o.kind = "rename" /\ Exists(o.to)

Act(i) ==
    /\ At(i, "act")
    /\ LET o == op[i] IN
       \/ /\ Effect(o) # <<>>
          /\ Change(Effect(o), Changes(o))
          /\ op' = [Touch({o.path, o.to}, i) EXCEPT ![i] =
                    IF o.dropped THEN NoOp ELSE [o EXCEPT !.pc = "note"]]
          /\ held' = IF o.kind = "save" /\ ~o.dropped
                     THEN [held EXCEPT ![o.device][o.path] = content_revision(o.content)] ELSE held
          /\ clobbered' = IF Clobbers(o) /\ o.to \notin o.touched
                          THEN clobbered \union {i} ELSE clobbered
       \/ Effect(o) = <<>> /\ Finish(i) /\ UNCHANGED <<disk, held, clobbered>>
    /\ UNCHANGED <<watcher, env, untold>>

\* notify_write, once the blocking task has returned to its caller.
notify_write(i) ==
    /\ At(i, "note")
    /\ suppressed' = suppressed \union {op[i].path, op[i].to}
    /\ Finish(i)
    /\ UNCHANGED <<disk, held, worker, throttled, channel, env, untold, clobbered>>

\* The caller goes away: the blocking task runs on, and nothing follows it.
Drop(i) ==
    /\ At(i, "act") /\ ~op[i].dropped /\ env.drops < MaxDrops
    /\ env' = [env EXCEPT !.drops = @ + 1]
    /\ op' = [op EXCEPT ![i].dropped = TRUE]
    /\ UNCHANGED <<disk, held, watcher, untold, clobbered>>

------------------------------------------------------------------------------
(* Programs outside the daemon                                                 *)

Outside(f, paths) ==
    /\ env.external < MaxExternal
    /\ env' = [env EXCEPT !.external = @ + 1]
    /\ Change(f, {paths})
    /\ op' = Touch({paths[n] : n \in DOMAIN paths}, 0)
    /\ LET last == paths[Len(paths)]
       IN untold' = IF last \in File /\ Parent[last] \in inotify THEN untold \union {last} ELSE untold
    /\ UNCHANGED <<held, watcher, clobbered>>

External ==
    \/ \E p \in File, c \in Content : IsDir(Parent[p]) /\ fs[p] # c /\ Outside(Write(p, c), <<p>>)
    \/ \E p \in File : fs[p] # None /\ Outside(Write(p, None), <<p>>)
    \/ \E p, q \in File : p # q /\ fs[p] # None /\ IsDir(Parent[q]) /\ Outside(Move(p, q), <<p, q>>)
    \/ \E d \in Dir : fs[d] = None /\ IsDir(Parent[d]) /\ Outside(Write(d, "dir"), <<d>>)
    \/ \E d \in Dir : fs[d] = "dir" /\ Children(d) = {} /\ Outside(Write(d, None), <<d>>)

------------------------------------------------------------------------------
(* The watcher                                                                 *)

\* What handle_event does with one path: a directory is passed to the worker, and
\* a path that is held back ends the event, whatever other paths it names.
Verdict(p) == IF fs[p] = "dir" THEN "directory"
              ELSE IF p \in suppressed \union throttled THEN "stop"
              ELSE "emit"

\* The paths of an event that are looked at, the stopping one included.
Looked(ev) == {n \in DOMAIN ev : \A m \in 1..(n - 1) : Verdict(ev[m]) # "stop"}
With(ev, verdict) == {ev[n] : n \in {m \in Looked(ev) : Verdict(ev[m]) = verdict}}
\* An event names one path, that of a rename two.
Only(p, S) == IF p \in S THEN <<p>> ELSE <<>>
InOrder(ev, S) == Only(ev[1], S) \o (IF Len(ev) = 2 THEN Only(ev[2], S) ELSE <<>>)

Sent(paths) ==
    LET room == EmitCapacity - Len(channel)
    IN SubSeq(paths, 1, IF Len(paths) < room THEN Len(paths) ELSE room)

handle_event(ev) ==
    LET sent == Sent(InOrder(ev, With(ev, "emit")))
        told == {sent[n] : n \in DOMAIN sent}
    IN /\ ev \in raw /\ raw' = raw \ {ev}
       /\ commands' = commands \o InOrder(ev, With(ev, "directory"))
       /\ throttled' = throttled \union With(ev, "emit")
       /\ channel' = channel \o sent
       /\ untold' = untold \ ({ev[n] : n \in DOMAIN ev} \ told)
       /\ UNCHANGED <<fs, inotify, replaced, held, op, watched, walk, suppressed, env, clobbered>>

\* emit_loop hands the event to the event bus, which has the devices told.
emit_loop ==
    /\ channel # <<>>
    /\ channel' = Tail(channel)
    /\ untold' = untold \ {Head(channel)}
    /\ UNCHANGED <<disk, held, op, worker, suppressed, throttled, env, clobbered>>

\* worker_loop takes a command to watch a directory and those below it.
worker_loop ==
    /\ walk = <<>> /\ commands # <<>>
    /\ commands' = Tail(commands) /\ walk' = <<Head(commands)>>
    /\ UNCHANGED <<disk, held, op, watched, suppressed, throttled, channel, env, untold, clobbered>>

\* It watches one directory, unless it believes it already does, and then reads
\* which directories are in it.
Subdirs(d) == {e \in Dir : Parent[e] = d /\ IsDir(e)}
Orders(S) == {q \in [1..Cardinality(S) -> S] : \A e \in S : \E n \in DOMAIN q : q[n] = e}

\* A mutant: the directory is watched after it was read.
walk_dirs_late ==
    /\ walk # <<>>
    /\ LET d == Head(walk) IN
       IF IsDir(d) /\ d \notin watched
       THEN watched' = watched \union {d} /\ inotify' = inotify \union {d} /\ walk' = Tail(walk)
       ELSE \E order \in Orders(Subdirs(d)) :
                walk' = order \o Tail(walk) /\ UNCHANGED <<watched, inotify>>
    /\ UNCHANGED <<fs, raw, replaced, held, op, commands, suppressed, throttled, channel, env,
                   untold, clobbered>>

walk_dirs ==
    /\ walk # <<>>
    /\ LET d == Head(walk) IN
       IF IsDir(d) /\ d \notin watched
       THEN watched' = watched \union {d} /\ inotify' = inotify \union {d} /\ UNCHANGED walk
       ELSE \E order \in Orders(Subdirs(d)) :
                walk' = order \o Tail(walk) /\ UNCHANGED <<watched, inotify>>
    /\ UNCHANGED <<fs, raw, replaced, held, op, commands, suppressed, throttled, channel, env,
                   untold, clobbered>>

Lapse(p) ==
    /\ \/ p \in suppressed /\ suppressed' = suppressed \ {p} /\ UNCHANGED throttled
       \/ p \in throttled /\ throttled' = throttled \ {p} /\ UNCHANGED suppressed
    /\ UNCHANGED <<disk, held, op, worker, channel, env, untold, clobbered>>

Next ==
    \/ \E d \in Device, p \in File : read_file(d, p)
    \/ \E r \in Requests : Begin(r)
    \/ \E i \in Op : Act(i) \/ notify_write(i) \/ Drop(i)
    \/ External
    \/ \E ev \in raw : handle_event(ev)
    \/ emit_loop \/ worker_loop \/ walk_dirs
    \/ \E p \in Path : Lapse(p)

Spec == Init /\ [][Next]_vars

------------------------------------------------------------------------------
(* Properties                                                                  *)

\* A save of a device replaces nothing but the revision it was based on, and a
\* rename nothing at all, except what came into place between the look and the
\* system call (write_file, rename_path).
OnlyRacesClobber == clobbered = {}

\* Once every event is processed, the kernel reports on every directory there is,
\* however the directories were created while the worker was still walking; all
\* but those that replace, or are below one that replaces, a deleted directory:
\* walk_dirs takes such a directory for watched.  And an external change of a
\* watched file is told to the devices, or was held back by a suppression, the
\* throttle, or a full channel.
WatchedAtRest ==
    (raw = {} /\ commands = <<>> /\ walk = <<>>) =>
        \A d \in Dir : IsDir(d) => d \in inotify \/ Line[d] \intersect replaced # {}
ChangesAreTold == WatchedAtRest /\ (raw = {} /\ channel = <<>> => untold = {})
=============================================================================
