--------------------------------- MODULE Host ---------------------------------
(* The daemon as a process of its host, and the commands of local_agent that   *)
(* work on it from other processes: start, stop, add-folder and remove-folder  *)
(* (src/cli/mod.rs, src/app/daemon.rs, src/app/listen.rs, src/app/process.rs). *)
(* They meet in three places nothing locks: the file of the configuration,     *)
(* which a daemon reads once and writes from memory, the PID file and the port.*)
EXTENDS Integers, Sequences, FiniteSets

CONSTANTS
    Pid,         \* processes that a start may run as; none is used twice
    Ws,          \* folders
    Command,     \* commands that may be under way at once
    MaxCommands, MaxSaves, MaxFaults

None == "none"
ASSUME NoneAssumption == None \notin Pid
ASSUME CountsAssumption == {MaxCommands, MaxSaves, MaxFaults} \subseteq Nat

VARIABLES
    file,       \* the folders in config.toml
    pidFile,    \* daemon.pid
    port,       \* who is bound to the HTTP port
    proc,       \* how far a daemon is
    memory,     \* the folders in its configuration
    signalled,  \* daemons that were sent SIGTERM
    cmds,        \* the commands
    counts,     \* commands, saves of daemons and faults so far
    allowRemote,\* allowRemoteWorkspaceRegistration
    promised,   \* history: folders that are reported as registered
    overlap     \* history: did commands overlap each other, a start or an end?

hostVars == <<file, pidFile, port, proc, memory, signalled, cmds, counts, allowRemote, promised, overlap>>
daemons == <<port, proc, memory, signalled>>

NoCmd == [kind |-> "none", pc |-> "free", ws |-> None, read |-> {}, pid |-> None]
IsRunning(p) == p # None /\ proc[p] \notin {"unused", "gone"}
Starting == {p \in Pid : proc[p] \in {"loaded", "checked", "probed", "built", "bound"}}
Ending == {p \in Pid : proc[p] \in {"stopping", "closed"} \/ (p \in signalled /\ IsRunning(p))}
Serving == {p \in Pid : proc[p] = "serving"}
BusyCommands == {c \in Command : cmds[c].pc # "free"}

HostInit ==
    /\ file \in SUBSET Ws /\ promised = file
    /\ pidFile = None /\ port = None
    /\ proc = [p \in Pid |-> "unused"] /\ memory = [p \in Pid |-> {}] /\ signalled = {}
    /\ cmds = [c \in Command |-> NoCmd]
    /\ counts = [commands |-> 0, saves |-> 0, faults |-> 0]
    /\ allowRemote \in BOOLEAN
    /\ overlap = FALSE

Fault == counts.faults < MaxFaults /\ counts' = [counts EXCEPT !.faults = @ + 1]
Becomes(p, s) == proc' = [proc EXCEPT ![p] = s]

\* A command or a start begins.
Begins ==
    /\ counts.commands < MaxCommands /\ counts' = [counts EXCEPT !.commands = @ + 1]
    /\ overlap' = (overlap \/ BusyCommands # {} \/ Starting # {} \/ Ending # {})

\* A daemon ends while another starts, or a folder command is under way.
Ends(p) ==
    overlap' = (overlap \/ Starting \ {p} # {} \/ \E c \in BusyCommands : cmds[c].kind \in {"add", "remove"})

------------------------------------------------------------------------------
(* start, and the life of a daemon                                             *)

start(p) ==
    /\ proc[p] = "unused" /\ Begins
    /\ Becomes(p, "loaded") /\ memory' = [memory EXCEPT ![p] = file]
    /\ UNCHANGED <<file, pidFile, port, signalled, cmds, allowRemote, promised>>

\* read_live_pid: the PID file of a process that is gone is removed.
AfterRead == IF IsRunning(pidFile) THEN pidFile ELSE None

\* A connection to the port succeeds; its listening socket, in /proc/net/tcp, is
\* among the open files of this process.
Listening == port # None
find_pid_listening_on == port

check_status(p) ==
    /\ proc[p] = "loaded"
    /\ pidFile' = AfterRead
    /\ Becomes(p, IF IsRunning(pidFile) THEN "gone" ELSE "checked")
    /\ UNCHANGED <<file, port, memory, signalled, cmds, counts, allowRemote, promised, overlap>>

is_port_listening(p) ==
    /\ proc[p] = "checked"
    /\ Becomes(p, IF Listening THEN "gone" ELSE "probed")
    /\ UNCHANGED <<file, pidFile, port, memory, signalled, cmds, counts, allowRemote, promised, overlap>>

\* Daemon::new: refresh_agents_on_startup may save the configuration as it was
\* read, before the port shows whether another daemon serves.
new(p) ==
    /\ proc[p] = "probed" /\ Becomes(p, "built")
    /\ file' \in {file, memory[p]}
    /\ UNCHANGED <<pidFile, port, memory, signalled, cmds, counts, allowRemote, promised, overlap>>

bind(p) ==
    /\ proc[p] = "built"
    /\ IF port = None THEN port' = p /\ Becomes(p, "bound") ELSE Becomes(p, "gone") /\ UNCHANGED port
    /\ UNCHANGED <<file, pidFile, memory, signalled, cmds, counts, allowRemote, promised, overlap>>

\* A mutant: the PID is not written.
write_pid_not(p) ==
    /\ proc[p] = "bound" /\ Becomes(p, "serving")
    /\ UNCHANGED <<file, pidFile, port, memory, signalled, cmds, counts, allowRemote, promised, overlap>>

write_pid(p) ==
    /\ proc[p] = "bound"
    /\ Becomes(p, "serving") /\ pidFile' = p
    /\ UNCHANGED <<file, port, memory, signalled, cmds, counts, allowRemote, promised, overlap>>

\* The daemon ends there, and the kernel closes its port.
write_pid_fails(p) ==
    /\ proc[p] = "bound" /\ Fault
    /\ Becomes(p, "gone") /\ port' = None /\ Ends(p)
    /\ UNCHANGED <<file, pidFile, memory, signalled, cmds, allowRemote, promised>>

\* A change of anything else in the configuration writes all of it.
save(p) ==
    /\ proc[p] \in {"serving", "stopping"} /\ counts.saves < MaxSaves
    /\ counts' = [counts EXCEPT !.saves = @ + 1]
    /\ file' = memory[p]
    /\ UNCHANGED <<pidFile, daemons, cmds, allowRemote, promised, overlap>>

\* The listeners stop accepting, and wait for their connections: the port is
\* taken until the last of them ends.
serve_cancelled(p) ==
    /\ proc[p] = "serving" /\ p \in signalled
    /\ Becomes(p, "stopping")
    /\ Ends(p)
    /\ UNCHANGED <<file, pidFile, port, memory, signalled, cmds, counts, allowRemote, promised>>

\* A mutant: a connection is never given up.
drain_connections_idle(p) ==
    /\ proc[p] = "stopping" /\ port # p /\ Becomes(p, "closed") /\ port' = None
    /\ UNCHANGED <<file, pidFile, memory, signalled, cmds, counts, allowRemote, promised, overlap>>

drain_connections(p) ==
    /\ proc[p] = "stopping" /\ Becomes(p, "closed") /\ port' = None
    /\ UNCHANGED <<file, pidFile, memory, signalled, cmds, counts, allowRemote, promised, overlap>>

\* shutdown and remove_pid, whatever the PID file holds.
remove_pid(p) ==
    /\ proc[p] = "closed" /\ Becomes(p, "gone") /\ pidFile' = None
    /\ UNCHANGED <<file, port, memory, signalled, cmds, counts, allowRemote, promised, overlap>>

\* SIGTERM has its default effect until run installs the handler, and a crash
\* leaves the PID file behind.
dies(p) ==
    /\ IsRunning(p)
    /\ \/ p \in signalled /\ p \in Starting /\ UNCHANGED counts
       \/ Fault
    /\ Becomes(p, "gone") /\ port' = (IF port = p THEN None ELSE port)
    /\ Ends(p)
    /\ UNCHANGED <<file, pidFile, memory, signalled, cmds, allowRemote, promised>>

------------------------------------------------------------------------------
(* add-folder and remove-folder                                                *)

Set(c, r) == cmds' = [cmds EXCEPT ![c] = r]
End(c) == Set(c, NoCmd)
AtStep(c, kind, pc) == cmds[c].kind = kind /\ cmds[c].pc = pc

folder_command(c) ==
    \E kind \in {"add", "remove"}, w \in Ws :
        /\ cmds[c].pc = "free" /\ Begins
        /\ kind = "remove" => w \in file
        /\ Set(c, [NoCmd EXCEPT !.kind = kind, !.pc = "loaded", !.ws = w, !.read = file])
        /\ promised' = IF kind = "remove" THEN promised \ {w} ELSE promised
        /\ UNCHANGED <<file, pidFile, daemons, allowRemote>>

\* Config::add_workspace and remove_workspace of the command's own copy.
Edited(r) == IF r.kind = "add" THEN r.read \union {r.ws} ELSE r.read \ {r.ws}
save_file(c) ==
    /\ cmds[c].pc = "loaded" /\ cmds[c].kind \in {"add", "remove"}
    /\ file' = Edited(cmds[c])
    /\ Set(c, [cmds[c] EXCEPT !.pc = "saved"])
    /\ UNCHANGED <<pidFile, daemons, counts, allowRemote, promised, overlap>>

\* A daemon that is not there needs no telling.
check_daemon(c) ==
    /\ cmds[c].pc = "saved"
    /\ pidFile' = AfterRead
    /\ IF IsRunning(pidFile) THEN Set(c, [cmds[c] EXCEPT !.pc = "request"]) /\ UNCHANGED promised
       ELSE End(c) /\ promised' = IF cmds[c].kind = "add" THEN promised \union {cmds[c].ws} ELSE promised
    /\ UNCHANGED <<file, daemons, counts, allowRemote, overlap>>

\* A mutant: the registration is not written to the configuration.
register_request_unsaved(c) ==
    /\ AtStep(c, "add", "request") /\ End(c)
    /\ Serving # {} /\ promised' = promised \union {cmds[c].ws}
    /\ UNCHANGED <<file, memory, pidFile, port, proc, signalled, counts, allowRemote, overlap>>

\* register_workspace is refused, for this host as well, unless remote
\* registration is allowed; otherwise it saves the configuration of the daemon.
register_request(c) ==
    /\ AtStep(c, "add", "request") /\ End(c)
    /\ IF Serving # {} /\ allowRemote
       THEN \E p \in Serving :
               /\ memory' = [memory EXCEPT ![p] = @ \union {cmds[c].ws}] /\ file' = memory'[p]
               /\ promised' = promised \union {cmds[c].ws}
       ELSE UNCHANGED <<file, memory, promised>>
    /\ UNCHANGED <<pidFile, port, proc, signalled, counts, allowRemote, overlap>>

\* A folder the daemon does not have is not found, which the command ignores.
remove_request(c) ==
    /\ AtStep(c, "remove", "request") /\ End(c)
    /\ IF \E p \in Serving : cmds[c].ws \in memory[p]
       THEN \E p \in Serving :
               memory' = [memory EXCEPT ![p] = @ \ {cmds[c].ws}] /\ file' = memory'[p]
       ELSE UNCHANGED <<file, memory>>
    /\ UNCHANGED <<pidFile, port, proc, signalled, counts, allowRemote, promised, overlap>>

\* A device registers a folder with the daemon.
remote_registration(w) ==
    /\ allowRemote /\ counts.saves < MaxSaves /\ counts' = [counts EXCEPT !.saves = @ + 1]
    /\ \E p \in Serving : memory' = [memory EXCEPT ![p] = @ \union {w}] /\ file' = memory'[p]
    /\ promised' = promised \union {w}
    /\ \A c \in BusyCommands : cmds[c].kind = "remove" => cmds[c].ws # w
    /\ UNCHANGED <<pidFile, port, proc, signalled, cmds, allowRemote, overlap>>

------------------------------------------------------------------------------
(* stop                                                                        *)

\* Without a live PID in the file it is whoever holds the port.
stop(c) ==
    /\ cmds[c].pc = "free" /\ Begins
    /\ pidFile' = AfterRead
    /\ LET target == IF IsRunning(pidFile) THEN pidFile ELSE find_pid_listening_on IN
       IF target = None THEN UNCHANGED <<cmds, signalled>>
       ELSE /\ signalled' = signalled \union {target}
            /\ Set(c, [NoCmd EXCEPT !.kind = "stop", !.pc = "wait", !.pid = target])
    /\ UNCHANGED <<file, port, proc, memory, allowRemote, promised>>

stop_waits(c) ==
    /\ AtStep(c, "stop", "wait") /\ ~IsRunning(cmds[c].pid)
    /\ Set(c, [cmds[c] EXCEPT !.pc = "exited"])
    /\ UNCHANGED <<file, pidFile, daemons, counts, allowRemote, promised, overlap>>

\* Five seconds may be too short for the last connection.
stop_gives_up(c) ==
    /\ AtStep(c, "stop", "wait") /\ IsRunning(cmds[c].pid) /\ End(c)
    /\ UNCHANGED <<file, pidFile, daemons, counts, allowRemote, promised, overlap>>

stop_removes_pid(c) ==
    /\ AtStep(c, "stop", "exited") /\ End(c)
    /\ pidFile' = None
    /\ UNCHANGED <<file, daemons, counts, allowRemote, promised, overlap>>

HostNext ==
    \/ \E p \in Pid : \/ start(p) \/ check_status(p) \/ is_port_listening(p) \/ new(p) \/ bind(p)
                      \/ write_pid(p) \/ write_pid_fails(p) \/ save(p) \/ serve_cancelled(p)
                      \/ drain_connections(p) \/ remove_pid(p) \/ dies(p)
    \/ \E c \in Command : \/ folder_command(c) \/ save_file(c) \/ check_daemon(c)
                          \/ register_request(c) \/ remove_request(c)
                          \/ stop(c) \/ stop_waits(c) \/ stop_gives_up(c) \/ stop_removes_pid(c)
    \/ \E w \in Ws : remote_registration(w)

\* A process runs on; a connection ends by itself or at its idle timeout.
Fairness == \A p \in Pid :
    /\ WF_hostVars(check_status(p) \/ is_port_listening(p) \/ new(p) \/ bind(p) \/ write_pid(p))
    /\ WF_hostVars(serve_cancelled(p)) /\ WF_hostVars(drain_connections(p)) /\ WF_hostVars(remove_pid(p))
HostSpec == HostInit /\ [][HostNext]_hostVars /\ Fairness

------------------------------------------------------------------------------
(* Properties                                                                  *)

\* A folder that add-folder, or a device, was told is registered stays in the
\* file until it is removed, whatever the daemon saves meanwhile, as long as no
\* command overlaps another, a start or an end (add_folder, remove_folder).
FoldersAreKept ==
    ~overlap /\ BusyCommands = {} => promised \subseteq file

\* The PID file names the daemon that serves, for status and stop to find it,
\* under the same condition (write_pid, remove_pid, read_live_pid).
PidNamesServer ==
    ~overlap => \A p \in Serving : pidFile = p

\* A daemon that was told to stop ends.
StopsEnd == \A p \in Pid : p \in signalled ~> ~IsRunning(p)
=============================================================================
