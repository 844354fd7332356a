------------------------------ MODULE Terminals ------------------------------
(* The terminals of one ACP session: the callbacks an agent calls              *)
(* (src/acp/core/handlers/terminal.rs) under the limit of callback tasks       *)
(* (handlers/mod.rs), the executor that runs each command                      *)
(* (src/shell/mod.rs, procutil/mod.rs) with its two readers, its deadline and  *)
(* its cancellation token, and the end of the session (actor/mod.rs).          *)
(* Output is counted in lines; ids are fresh UUIDs, here the numbers of the    *)
(* requests that create.                                                       *)
EXTENDS Integers, FiniteSets

CONSTANTS
    MaxRequests,  \* bound on the callbacks the agent calls
    MaxCreates,   \* bound on the terminals it creates, with its first requests
    MaxLines,     \* bound on the lines of a command, per stream
    MaxTerminals, \* MAX_TERMINALS_PER_SESSION, 16 in the code
    MaxTasks,     \* MAX_CALLBACK_TASKS, 16 in the code
    Lively,       \* bound: the commands that write, start processes and fail; others only exit
    Written       \* bound: the streams they write to

ASSUME BoundsAssumption ==
    /\ MaxRequests \in Nat /\ MaxCreates \in 1..MaxRequests /\ MaxLines \in Nat
    /\ MaxTerminals \in Nat \ {0} /\ MaxTasks \in Nat \ {0}
    /\ Lively \subseteq 1..MaxCreates

Request == 1..MaxRequests
Terminal == 1..MaxCreates
Kind == {"create", "output", "wait", "kill", "release"}
Stream == {"out", "err"}

VARIABLES
    session,  \* the end of run_actor_inner: "open", handlers "cancelled", "closed"
    registry, \* TerminalRegistry: the ids it holds
    killed,   \* the terminals whose own token was cancelled
    cmd,      \* the task that runs the command of a terminal, and its processes
    pipe,     \* the lines in the pipes that nobody has read
    text,     \* TerminalState.output: the lines pushed
    exit,     \* TerminalState.exit: the watch channel of the exit status
    request   \* the callback tasks

vars == <<session, registry, killed, cmd, pipe, text, exit, request>>

NoStatus == "none"
NoCommand == [at |-> "none", child |-> "none", kin |-> "none", readers |-> {}]
NewRequest == [kind |-> "create", term |-> 1, at |-> "new", status |-> NoStatus, lines |-> 0]

Active == {"task", "checked", "looking", "waiting"}
Busy == {"starting", "running", "reaping", "draining"}

\* The permits of callback_slots that are taken.
TasksRunning == {r \in Request : request[r].at \in Active}

\* A terminal's token is a child of the session's.
Stopped(t) == t \in killed \/ session # "open"

Init ==
    /\ session = "open" /\ registry = {} /\ killed = {}
    /\ cmd = [t \in Terminal |-> NoCommand]
    /\ pipe = [t \in Terminal |-> [s \in Stream |-> 0]]
    /\ text = [t \in Terminal |-> 0]
    /\ exit = [t \in Terminal |-> NoStatus]
    /\ request = [r \in Request |-> NewRequest]

------------------------------------------------------------------------------
(* The callbacks                                                               *)

At(r, kind, at) == request[r].kind = kind /\ request[r].at = at
Goto(r, at) == request' = [request EXCEPT ![r].at = at]
\* The agent has its answer, a result or an error.
Answered(r) == request' = [request EXCEPT ![r] = [NewRequest EXCEPT !.at = "over"]]
process == <<cmd, pipe, text, exit>>

\* The SDK dispatches a request: a task of its own, or an error when all the
\* permits are taken.
Arrive(r, k, t) ==
    /\ session = "open" /\ request[r].at = "new"
    /\ \A q \in 1..(r - 1) : request[q].at # "new"
    /\ IF k = "create" THEN t = r ELSE cmd[t].at # "none"
    /\ IF Cardinality(TasksRunning) < MaxTasks
       THEN request' = [request EXCEPT ![r] = [@ EXCEPT !.kind = k, !.term = t, !.at = "task"]]
       ELSE Answered(r)
    /\ UNCHANGED <<session, registry, killed, process>>

\* spawn_callback: the session's cancellation ends a task where it awaits.
Abort(r) ==
    /\ session # "open" /\ request[r].at \in {"task", "waiting"}
    /\ Answered(r)
    /\ UNCHANGED <<session, registry, killed, process>>

\* create_terminal: the check comes first, and nothing keeps the session open.
CreateCheck(r) ==
    /\ At(r, "create", "task")
    /\ IF session = "open" THEN Goto(r, "checked") ELSE Answered(r)
    /\ UNCHANGED <<session, registry, killed, process>>

\* The record is inserted, the command's task spawned.
CreateInsert(r) ==
    /\ At(r, "create", "checked")
    /\ IF Cardinality(registry) >= MaxTerminals
       THEN UNCHANGED <<registry, cmd>>
       ELSE /\ registry' = registry \union {r}
            /\ cmd' = [cmd EXCEPT ![r].at = "starting"]
    /\ Answered(r)
    /\ UNCHANGED <<session, killed, pipe, text, exit>>

\* terminal_state: the other callbacks look their terminal up.
Found(r) == request[r].term \in registry

NotFound(r) ==
    /\ request[r].at = "task" /\ request[r].kind # "create" /\ ~Found(r)
    /\ Answered(r)
    /\ UNCHANGED <<session, registry, killed, process>>

\* terminal_output: the lock of the output is held over both.
terminal_output(r) ==
    /\ At(r, "output", "task") /\ Found(r)
    /\ request' = [request EXCEPT ![r].at = "done",
                                 ![r].status = exit[request[r].term],
                                 ![r].lines = text[request[r].term]]
    /\ UNCHANGED <<session, registry, killed, process>>

\* wait_for_terminal_exit: subscribe, then look until there is a status.
WaitStart(r) ==
    /\ At(r, "wait", "task") /\ Found(r)
    /\ Goto(r, "looking")
    /\ UNCHANGED <<session, registry, killed, process>>

WaitLook(r) ==
    /\ At(r, "wait", "looking")
    /\ LET status == exit[request[r].term]
       IN  IF status = NoStatus THEN Goto(r, "waiting") ELSE Answered(r)
    /\ UNCHANGED <<session, registry, killed, process>>

\* The channel changed since it was subscribed to, and the state is kept alive.
WaitWakes(r) ==
    /\ At(r, "wait", "waiting") /\ exit[request[r].term] # NoStatus
    /\ Goto(r, "looking")
    /\ UNCHANGED <<session, registry, killed, process>>

kill_terminal(r) ==
    /\ At(r, "kill", "task") /\ Found(r)
    /\ killed' = killed \union {request[r].term}
    /\ Answered(r)
    /\ UNCHANGED <<session, registry, process>>

\* Mutant: the record goes, the command stays.
release_terminal_only(r) ==
    /\ At(r, "release", "task") /\ Found(r)
    /\ registry' = registry \ {request[r].term}
    /\ killed' = killed
    /\ Answered(r)
    /\ UNCHANGED <<session, process>>

release_terminal(r) ==
    /\ At(r, "release", "task") /\ Found(r)
    /\ registry' = registry \ {request[r].term}
    /\ killed' = killed \union {request[r].term}
    /\ Answered(r)
    /\ UNCHANGED <<session, process>>

------------------------------------------------------------------------------
(* The end of the session: the handlers' token, and then every terminal's      *)

CancelHandlers ==
    /\ session = "open"
    /\ session' = "cancelled"
    /\ UNCHANGED <<registry, killed, process, request>>

cancel_terminals ==
    /\ session = "cancelled"
    /\ session' = "closed"
    /\ killed' = killed \union registry
    /\ registry' = {}
    /\ UNCHANGED <<process, request>>

------------------------------------------------------------------------------
(* The executor: run_inner                                                     *)

control == <<session, registry, killed, request>>
Running(t, at) == cmd[t].at = at

\* A pipe is open as long as a process that holds it lives.
Open(t) == cmd[t].child = "alive" \/ cmd[t].kin = "alive"

Spawn(t) ==
    /\ Running(t, "starting")
    /\ cmd' = [cmd EXCEPT ![t] =
          [at |-> "running", child |-> "alive", kin |-> "none", readers |-> Stream]]
    /\ UNCHANGED <<control, pipe, text, exit>>

\* An empty command, an invalid directory, an executable that is not there: the
\* result is CommandResult::default(), and its exit code 0.
SpawnFails(t) ==
    /\ Running(t, "starting")
    /\ cmd' = [cmd EXCEPT ![t].at = "done"]
    /\ exit' = [exit EXCEPT ![t] = "success"]
    /\ UNCHANGED <<control, pipe, text>>

\* Mutant: only the child is killed, not its group.
Stop_child(t) ==
    /\ Running(t, "running")
    /\ cmd' = [cmd EXCEPT ![t].at = "reaping",
                          ![t].child = IF @ = "alive" THEN "killed" ELSE @]
    /\ UNCHANGED <<control, pipe, text, exit>>

\* The stop arm of the select, for a token or the deadline: kill_process_group
\* and kill_process_tree.
Stop(t) ==
    /\ Running(t, "running")
    /\ cmd' = [cmd EXCEPT ![t].at = "reaping",
                          ![t].child = IF @ = "alive" THEN "killed" ELSE @,
                          ![t].kin = "none"]
    /\ UNCHANGED <<control, pipe, text, exit>>

StopCancelled(t) == Stopped(t) /\ Stop(t)
Deadline(t) == ~Stopped(t) /\ Stop(t)

\* The wait arm of the select, which is biased: a stop comes first.  Or the wait
\* after a kill.
Reap(t) ==
    /\ Running(t, "reaping") \/ (Running(t, "running") /\ ~Stopped(t))
    /\ cmd[t].child # "alive"
    /\ cmd' = [cmd EXCEPT ![t].at = "draining"]
    /\ UNCHANGED <<control, pipe, text, exit>>

\* read_stream: a line is pushed, also one whose read had begun when the token
\* was cancelled.
Read(t, s) ==
    /\ s \in cmd[t].readers /\ pipe[t][s] > 0
    /\ pipe' = [pipe EXCEPT ![t][s] = @ - 1]
    /\ text' = [text EXCEPT ![t] = @ + 1]
    /\ UNCHANGED <<control, cmd, exit>>

\* A reader ends at the end of its pipe, or because the token is cancelled.
ReaderEnds(t, s) ==
    /\ s \in cmd[t].readers
    /\ Stopped(t) \/ (pipe[t][s] = 0 /\ ~Open(t))
    /\ cmd' = [cmd EXCEPT ![t].readers = @ \ {s}]
    /\ UNCHANGED <<control, pipe, text, exit>>

\* The exit code of the child, none if a signal killed it.
Status(t) == cmd[t].child

\* Mutant: the readers are not waited for.
Finish_early(t) ==
    /\ Running(t, "draining")
    /\ cmd' = [cmd EXCEPT ![t].at = "done"]
    /\ exit' = [exit EXCEPT ![t] = Status(t)]
    /\ UNCHANGED <<control, pipe, text>>

\* Mutant: send in place of send_replace keeps nothing when no one has subscribed.
Finish_send(t) ==
    /\ Running(t, "draining") /\ cmd[t].readers = {}
    /\ cmd' = [cmd EXCEPT ![t].at = "done"]
    /\ exit' = IF \E r \in Request : request[r].term = t /\ request[r].at \in {"looking", "waiting"}
               THEN [exit EXCEPT ![t] = Status(t)] ELSE exit
    /\ UNCHANGED <<control, pipe, text>>

\* Both readers are awaited, the cleanup of the group is disarmed, and the
\* status goes into the channel whether someone has subscribed or not.
Finish(t) ==
    /\ Running(t, "draining") /\ cmd[t].readers = {}
    /\ cmd' = [cmd EXCEPT ![t].at = "done"]
    /\ exit' = [exit EXCEPT ![t] = Status(t)]
    /\ UNCHANGED <<control, pipe, text>>

------------------------------------------------------------------------------
(* The command                                                                 *)

Write(t, s) ==
    /\ t \in Lively /\ s \in Written /\ Open(t)
    /\ text[t] + pipe[t]["out"] + pipe[t]["err"] < MaxLines
    /\ pipe' = [pipe EXCEPT ![t][s] = @ + 1]
    /\ UNCHANGED <<control, cmd, text, exit>>

\* It starts a process, which inherits its group and its pipes.
Fork(t) ==
    /\ t \in Lively /\ cmd[t].child = "alive" /\ cmd[t].kin = "none"
    /\ cmd' = [cmd EXCEPT ![t].kin = "alive"]
    /\ UNCHANGED <<control, pipe, text, exit>>

KinExits(t) ==
    /\ cmd[t].kin = "alive"
    /\ cmd' = [cmd EXCEPT ![t].kin = "none"]
    /\ UNCHANGED <<control, pipe, text, exit>>

ChildExits(t) ==
    /\ cmd[t].child = "alive"
    /\ \E status \in {"success", "failure"} :
          /\ status = "failure" => t \in Lively
          /\ cmd' = [cmd EXCEPT ![t].child = status]
    /\ UNCHANGED <<control, pipe, text, exit>>

------------------------------------------------------------------------------
Callback(r) ==
    \/ Abort(r) \/ CreateCheck(r) \/ CreateInsert(r) \/ NotFound(r)
    \/ terminal_output(r) \/ WaitStart(r) \/ WaitLook(r) \/ WaitWakes(r)
    \/ kill_terminal(r) \/ release_terminal(r)

Executor(t) ==
    \/ Spawn(t) \/ StopCancelled(t) \/ Deadline(t) \/ Reap(t) \/ Finish(t)
    \/ \E s \in Stream : Read(t, s) \/ ReaderEnds(t, s)

Daemon ==
    \/ \E r \in Request : Callback(r)
    \/ \E t \in Terminal : Executor(t)
    \/ cancel_terminals

Process(t) == Fork(t) \/ KinExits(t) \/ ChildExits(t) \/ \E s \in Stream : Write(t, s)

Next ==
    \/ Daemon
    \/ \E t \in Terminal : SpawnFails(t) \/ Process(t)
    \/ \E r \in Request, k \in Kind, t \in Terminal : Arrive(r, k, t)
    \/ CancelHandlers

Spec == Init /\ [][Next]_vars

\* The runtime polls ready tasks and fires elapsed timers, the deadline of a
\* command among them.  Commands and agents do as they please.
FairSpec == Spec /\ WF_vars(Daemon)

------------------------------------------------------------------------------
(* Properties                                                                  *)

Gone(t) == ~Open(t)

TypeOK ==
    /\ session \in {"open", "cancelled", "closed"}
    /\ registry \subseteq Terminal /\ Cardinality(registry) <= MaxTerminals
    /\ killed \subseteq Terminal
    /\ cmd \in [Terminal -> [at : Busy \union {"none", "done"},
                             child : {"none", "alive", "killed", "success", "failure"},
                             kin : {"none", "alive"}, readers : SUBSET Stream]]
    /\ pipe \in [Terminal -> [Stream -> 0..MaxLines]]
    /\ text \in [Terminal -> 0..MaxLines]
    /\ exit \in [Terminal -> {NoStatus, "killed", "success", "failure"}]
    /\ request \in [Request -> [kind : Kind, term : Terminal,
                                at : Active \union {"new", "done", "over"},
                                status : {NoStatus, "killed", "success", "failure"},
                                lines : 0..MaxLines]]
    /\ Cardinality(TasksRunning) <= MaxTasks

(* An answer that carries an exit status carries all the output there will     *)
(* ever be (terminal.rs:171-176): the executor waits for both readers          *)
(* (shell/mod.rs:391-395) before it lets the status be known.                  *)
FinalOutput ==
    \A r \in Request :
       request[r].kind = "output" /\ request[r].at = "done" /\ request[r].status # NoStatus
          => request[r].lines = text[request[r].term]

(* No command runs that neither the agent nor the end of the session can reach *)
(* any more: it has its record, or its token is cancelled, also when it was    *)
(* created while the session closed (terminal.rs:82, 102, 240-247).            *)
NoUnreachable ==
    \A t \in Terminal : cmd[t].at \in Busy => t \in registry \/ Stopped(t)

\* The child exited by itself before a process it had started: that one holds
\* the pipes, and the executor waits for it and watches nothing else.
LeftBehind(t) == cmd[t].at = "draining" /\ cmd[t].kin = "alive"

(* The agent hears the end of everything it asked for, unless the session ends *)
(* first or the command left a process behind: the deadline bounds every       *)
(* command, the readers stop, and no wait misses the status                    *)
(* (terminal.rs:180-194, shell/mod.rs:336-395).                                *)
RequestsAnswered ==
    \A r \in Request :
       request[r].at \in Active ~> request[r].at \notin Active \/ LeftBehind(request[r].term)

(* "On cancel (or timeout) the entire process group is signalled, not just the *)
(* immediate child, so orphaned grandchildren of a shell pipeline cannot       *)
(* survive daemon shutdown" (shell/mod.rs:16-19): when a command that is under *)
(* way is cancelled, all of its processes go.  Only a process that outlived    *)
(* its parent is not reached: nothing signals the group any more (394-418).    *)
StopReachesAll ==
    \A t \in Terminal : (Stopped(t) /\ cmd[t].at \in Busy /\ ~LeftBehind(t)) ~> Gone(t)

=============================================================================
