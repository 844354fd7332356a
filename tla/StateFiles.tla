----------------------------- MODULE StateFiles -----------------------------
(* How the daemon keeps its settings and its TLS identity: atomic_write        *)
(* (src/fsutil/mod.rs), the configuration store (src/config/store.rs), the     *)
(* handlers that change prompt context and agents (src/api/settings.rs,        *)
(* src/api/agents.rs), what a start makes of the files (src/app/daemon.rs,     *)
(* src/app/listen.rs, src/app/tls_cert.rs), crashes and power losses.          *)
(* A handler changes the live component and the stored configuration in two    *)
(* steps; only the second one holds the configuration's lock.                  *)
EXTENDS Integers, FiniteSets

CONSTANTS
    MaxOps,      \* bound on the requests
    MaxStarts,   \* bound on the starts after the first
    MaxFaults,   \* bound on failing writes, failing directory syncs and deletions
    MaxPairs     \* bound on the generated certificates

Op == 1..MaxOps
None == 0
Missing == [is |-> "missing"]
Torn == [is |-> "torn"]

\* A setting is named by the request that wrote it; None is the default, and
\* for an agent that it is not configured.  Detected is what autodetect finds.
Detected == MaxOps + 1
Config == [context : {None} \union Op, agent : {None, Detected} \union Op]

File == {"config", "cert", "key"}

VARIABLES
    disk,      \* what a reader of a file sees
    after,     \* what a power loss may leave of it
    io,        \* the call of atomic_write that is under way
    memory,    \* ConfigStore: the configuration under its lock
    live,      \* the prompt-context settings of the session pipeline
    registry,  \* AgentRegistry: the descriptor of the one agent
    op,        \* where each request is
    daemon,    \* where the daemon's start is, or "up" or "down"
    newPair,   \* the certificate a start has generated
    env,       \* bounds: starts, faults and pairs so far
    crossed,   \* history: the settings that two requests changed at once
    cut        \* history: a new certificate was left beside another one's key

vars == <<disk, after, io, memory, live, registry, op, daemon, newPair, env, crossed, cut>>
files == <<disk, after>>
running == <<memory, live, registry>>
history == <<crossed, cut>>

NoIo == [file |-> "none", content |-> Missing, synced |-> FALSE, stage |-> "none"]
NoOp == [kind |-> "none", at |-> "idle"]

Fault == env.faults < MaxFaults /\ env' = [env EXCEPT !.faults = @ + 1]
At(o, p) == op[o].at = p
Goto(o, p) == op' = [op EXCEPT ![o].at = p]
Locked == \E o \in Op : At(o, "saving")
Failed == io.stage = "failed"
Written == io.stage = "done"

------------------------------------------------------------------------------
(* atomic_write                                                                *)

\* The temporary file is opened; nobody but the writer ever reads it.
Write(f, c) == io' = [file |-> f, content |-> c, synced |-> FALSE, stage |-> "open"]

write_all == /\ io.stage = "open"
             /\ io' = [io EXCEPT !.stage = "written"]
             /\ UNCHANGED <<files, running, op, daemon, newPair, env, history>>

\* Mutant: the file is renamed before its content is on the disk.
sync_all_not == /\ io.stage = "written"
                /\ io' = [io EXCEPT !.stage = "synced"]
                /\ UNCHANGED <<files, running, op, daemon, newPair, env, history>>

sync_all == /\ io.stage = "written"
            /\ io' = [io EXCEPT !.stage = "synced", !.synced = TRUE]
            /\ UNCHANGED <<files, running, op, daemon, newPair, env, history>>

\* The rename is at once visible and, until the directory is synced, may be lost.
commit == /\ io.stage = "synced"
          /\ disk' = [disk EXCEPT ![io.file] = io.content]
          /\ after' = [after EXCEPT ![io.file] =
                          @ \union {IF io.synced THEN io.content ELSE Torn}]
          /\ io' = [io EXCEPT !.stage = "renamed"]
          /\ UNCHANGED <<running, op, daemon, newPair, env, history>>

\* The sync makes every name of the directory durable; its errors are ignored.
SameDir(f) == IF f = "config" THEN {"config"} ELSE {"cert", "key"}
sync_dir ==
    /\ io.stage = "renamed"
    /\ io' = [io EXCEPT !.stage = "done"]
    /\ \/ /\ after' = [f \in File |-> IF f \in SameDir(io.file) THEN {disk[f]} ELSE after[f]]
          /\ UNCHANGED env
       \/ Fault /\ UNCHANGED after
    /\ UNCHANGED <<disk, running, op, daemon, newPair, history>>

write_fails == /\ io.stage \in {"open", "written", "synced"}
               /\ Fault
               /\ io' = [io EXCEPT !.stage = "failed"]
               /\ UNCHANGED <<files, running, op, daemon, newPair, history>>

------------------------------------------------------------------------------
(* Requests                                                                    *)

Setting(o) == IF op[o].kind = "put_prompt_context" THEN "context" ELSE "agent"
Value(o) == IF op[o].kind = "delete_agent" THEN None ELSE o

\* A request that changes a setting while another one does.
Crossing(o, kind) == LET s == IF kind = "put_prompt_context" THEN "context" ELSE "agent"
                     IN  IF \E p \in Op : ~At(p, "idle") /\ ~At(p, "done") /\ Setting(p) = s
                         THEN crossed \union {s} ELSE crossed

Request(o, kind) ==
    /\ daemon = "up" /\ At(o, "idle")
    /\ \A p \in 1..(o - 1) : ~At(p, "idle")
    /\ op' = [op EXCEPT ![o] = [kind |-> kind, at |-> "called"]]
    /\ crossed' = Crossing(o, kind)
    /\ UNCHANGED <<files, io, running, daemon, newPair, env, cut>>

\* upsert_agent and delete_agent change the registry before they take the lock.
change_registry(o) ==
    /\ At(o, "called") /\ op[o].kind \in {"upsert_agent", "delete_agent"}
    /\ registry' = Value(o)
    /\ Goto(o, "registered")
    /\ UNCHANGED <<files, io, memory, live, daemon, newPair, env, history>>

\* Under the write lock the setting changes in memory and the whole
\* configuration is written.
save(o) ==
    /\ At(o, IF Setting(o) = "context" THEN "called" ELSE "registered")
    /\ ~Locked
    /\ memory' = [memory EXCEPT ![Setting(o)] = Value(o)]
    /\ Write("config", [memory EXCEPT ![Setting(o)] = Value(o)])
    /\ Goto(o, "saving")
    /\ UNCHANGED <<files, live, registry, daemon, newPair, env, history>>

saved(o) ==
    /\ At(o, "saving") /\ Written
    /\ io' = NoIo
    /\ Goto(o, IF Setting(o) = "context" THEN "saved" ELSE "done")
    /\ UNCHANGED <<files, running, daemon, newPair, env, history>>

\* Mutant: a failed save takes the change in memory back.
save_fails_undone(o) ==
    /\ At(o, "saving") /\ Failed
    /\ io' = NoIo
    /\ memory' = [memory EXCEPT ![Setting(o)] = None]
    /\ Goto(o, "done")
    /\ UNCHANGED <<files, live, registry, daemon, newPair, env, history>>

\* The caller gets an error, and memory keeps the change for the next save.  The
\* live settings of a prompt context are not touched: they are behind memory.
save_fails(o) ==
    /\ At(o, "saving") /\ Failed
    /\ io' = NoIo
    /\ Goto(o, "done")
    /\ crossed' = crossed \union ({Setting(o)} \intersect {"context"})
    /\ UNCHANGED <<files, running, daemon, newPair, env, cut>>

\* put_prompt_context: the pipeline is told after the lock is gone.
replace_context_settings(o) ==
    /\ At(o, "saved")
    /\ live' = Value(o)
    /\ Goto(o, "done")
    /\ UNCHANGED <<files, io, memory, registry, daemon, newPair, env, history>>

------------------------------------------------------------------------------
(* A start                                                                     *)

Step(p) == daemon' = p

\* A missing configuration is the default one.
load == IF disk["config"] = Missing THEN [context |-> None, agent |-> None] ELSE disk["config"]

\* Config::load, then autodetection: an entry with a stale command is pruned,
\* one that is missing is added, and the models or the warning of one that is
\* there may change; only a change is saved.
refresh_agents_on_startup ==
    /\ daemon = "down" /\ env.starts < MaxStarts
    /\ env' = [env EXCEPT !.starts = @ + 1]
    /\ disk["config"] # Torn
    /\ \E a \in {load.agent, None, Detected}, changed \in BOOLEAN :
         /\ a # load.agent => changed
         /\ memory' = [load EXCEPT !.agent = a]
         /\ IF changed THEN Write("config", memory') /\ Step("refreshing")
            ELSE Step("loaded") /\ UNCHANGED io
    /\ UNCHANGED <<files, live, registry, op, newPair, history>>

\* A configuration that could not be saved is used all the same.
refreshed ==
    /\ daemon = "refreshing" /\ (Written \/ Failed)
    /\ io' = NoIo
    /\ Step("loaded")
    /\ UNCHANGED <<files, running, op, newPair, env, history>>

\* Daemon::new: the registry and the pipeline start from the configuration.
compose ==
    /\ daemon = "loaded"
    /\ registry' = memory.agent /\ live' = memory.context
    /\ Step("binding")
    /\ UNCHANGED <<files, io, memory, op, newPair, env, history>>

Pair == {disk["cert"], disk["key"]}

\* A certificate and a key that are both there are used as they are.
ensure_self_signed ==
    /\ daemon = "binding"
    /\ IF Missing \notin Pair
       THEN newPair' = newPair /\ Step("loading") /\ UNCHANGED <<io, env>>
       ELSE /\ env.pairs < MaxPairs
            /\ env' = [env EXCEPT !.pairs = @ + 1]
            /\ newPair' = [pair |-> env.pairs + 1]
            /\ Write("cert", newPair')
            /\ Step("cert")
    /\ UNCHANGED <<files, running, op, history>>

write_key ==
    /\ daemon = "cert" /\ Written
    /\ Write("key", newPair)
    /\ Step("key")
    /\ UNCHANGED <<files, running, op, newPair, env, history>>

pair_written ==
    /\ daemon = "key" /\ Written
    /\ io' = NoIo
    /\ Step("loading")
    /\ UNCHANGED <<files, running, op, newPair, env, history>>

\* load_tls_acceptor: rustls refuses a key that is not the certificate's.
load_tls_acceptor ==
    /\ daemon = "loading"
    /\ Step(IF disk["cert"] = disk["key"] THEN "up" ELSE "down")
    /\ UNCHANGED <<files, io, running, op, newPair, env, history>>

\* bind fails, and with it the start.
provisioning_fails ==
    /\ daemon \in {"cert", "key"} /\ Failed
    /\ io' = NoIo
    /\ Step("down")
    /\ cut' = (cut \/ (daemon = "key" /\ disk["key"] # Missing))
    /\ UNCHANGED <<files, running, op, newPair, env, crossed>>

------------------------------------------------------------------------------
(* Ends                                                                        *)

\* A new certificate may be in place while the old key is, or a rename may not
\* have reached the disk.
CutShort == cut \/ (daemon \in {"cert", "key"} /\ disk["key"] # Missing)

Dies == /\ daemon' = "down" /\ io' = NoIo
        /\ op' = [o \in Op |-> IF At(o, "idle") THEN op[o] ELSE [op[o] EXCEPT !.at = "done"]]
        /\ crossed' = {}
        /\ UNCHANGED <<running, newPair, env>>

\* The process ends: what readers see stays.
Crash == /\ daemon # "down" /\ env.starts < MaxStarts
         /\ cut' = CutShort
         /\ Dies
         /\ UNCHANGED files

PowerLoss ==
    /\ daemon # "down" /\ env.starts < MaxStarts
    /\ \E d \in [File -> UNION {after[f] : f \in File}] :
          /\ \A f \in File : d[f] \in after[f]
          /\ disk' = d
          /\ after' = [f \in File |-> {d[f]}]
          /\ cut' = (CutShort \/ \E f \in {"cert", "key"} : Cardinality(after[f]) > 1)
    /\ Dies

\* The operator deletes a file to get a new identity.
Delete(f) ==
    /\ daemon = "down" /\ disk[f] # Missing /\ Fault
    /\ disk' = [disk EXCEPT ![f] = Missing]
    /\ after' = [after EXCEPT ![f] = {Missing}]
    /\ UNCHANGED <<io, running, op, daemon, newPair, history>>

------------------------------------------------------------------------------
Init ==
    /\ disk = [f \in File |-> Missing]
    /\ after = [f \in File |-> {Missing}]
    /\ io = NoIo
    /\ memory = [context |-> None, agent |-> None]
    /\ live = None /\ registry = None
    /\ op = [o \in Op |-> NoOp]
    /\ daemon = "down"
    /\ newPair = Missing
    /\ env = [starts |-> 0, faults |-> 0, pairs |-> 0]
    /\ crossed = {} /\ cut = FALSE

Next ==
    \/ write_all \/ sync_all \/ commit \/ sync_dir \/ write_fails
    \/ \E o \in Op :
         \/ \E k \in {"put_prompt_context", "upsert_agent", "delete_agent"} : Request(o, k)
         \/ change_registry(o) \/ save(o) \/ saved(o) \/ save_fails(o)
         \/ replace_context_settings(o)
    \/ refresh_agents_on_startup \/ refreshed \/ compose
    \/ ensure_self_signed \/ write_key \/ pair_written \/ load_tls_acceptor \/ provisioning_fails
    \/ Crash \/ PowerLoss
    \/ \E f \in {"cert", "key"} : Delete(f)

Spec == Init /\ [][Next]_vars

------------------------------------------------------------------------------
(* Properties                                                                  *)

(* fsutil/mod.rs:36-38: config.toml is replaced as a whole.  A reader, and the *)
(* daemon that starts after a crash or a power loss, find the old or the new   *)
(* configuration and never a half-written one.                                 *)
Durable == INSTANCE DurableFile WITH
               Content <- Config \union {Missing},
               content <- disk["config"],
               survivors <- after["config"]
ConfigIsDurable == Durable!Spec

(* What a restart would find (agents.rs:73-77, settings.rs:68-85, tls_cert.rs): *)
(* when no request is under way, the registry of agents and the pipeline use   *)
(* what the configuration store holds; only requests that change one setting   *)
(* at the same time, or a prompt context that could not be saved, part them.   *)
(* And a certificate and a key that a start would use as they are belong       *)
(* together, unless an earlier start was cut short between writing one and the *)
(* other: a pair that does not match is never replaced.                        *)
LiveIsStored ==
    daemon = "up" /\ (\A o \in Op : op[o].at \in {"idle", "done"}) =>
       /\ "agent" \notin crossed => registry = memory.agent
       /\ "context" \notin crossed => live = memory.context
PairMatches ==
    daemon = "down" /\ Missing \notin Pair /\ disk["cert"] # disk["key"] => cut
SettingsAgree == LiveIsStored /\ PairMatches
=============================================================================
