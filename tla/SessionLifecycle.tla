-------------------------- MODULE SessionLifecycle --------------------------
(* The life of one ACP session: its entry in the registry                      *)
(* (src/acp/core/registry.rs), the operations devices call on it               *)
(* (lifecycle/mod.rs, operations.rs) and the actor task that owns the agent    *)
(* process (actor/mod.rs, actor/turn.rs).  A critical section of the registry, *)
(* a channel send and a step of the actor loop is one action each; operations  *)
(* interleave at every point where the code awaits or holds no lock.           *)
EXTENDS Integers, Sequences, FiniteSets

CONSTANTS
    MaxOps,       \* bound on the operations called on the session
    MaxGen,       \* bound on ACTOR_ID, the actor generations
    MaxRestarts,  \* bound on the restarts of the daemon
    MaxFaults,    \* bound on failing awaits and dropped callers
    OtherSessions \* whether other sessions publish events

ASSUME BoundsAssumption ==
    /\ MaxOps \in Nat /\ MaxGen \in Nat /\ MaxRestarts \in Nat /\ MaxFaults \in Nat
    /\ OtherSessions \in BOOLEAN

Op == 1..MaxOps
Gen == 1..MaxGen
Kind == {"create", "prompt", "cancel", "close", "rebind"}

VARIABLES
    live,      \* the entry of SessionRegistry.live: its state and actor generation
    dormant,   \* whether SessionRegistry.dormant holds the session
    disk,      \* whether conversations.json does
    lock,      \* the operation that holds restore_lock, 0 for none
    actor,     \* the actor tasks, by generation
    op,        \* the operations, in the order they are called
    restarts,
    faults,
    cancelled, \* history: prompts that were under way when a cancel was issued
    cleared,   \* history: those whose sticky bit another prompt reset or used up
    doubled    \* history: whether a rebind began while another was under way

vars == <<live, dormant, disk, lock, actor, op, restarts, faults, cancelled, cleared, doubled>>
history == <<cancelled, cleared, doubled>>
bounds == <<restarts, faults>>

State == {"created", "running", "idle", "interrupted", "failed"}
Absent == [state |-> "absent", gen |-> 0]
IsLive == live.state # "absent"

\* Where an actor task is.  "ready" is past the handshake and waits for the
\* registration; "setup" sends the initial options; the last three are the loop.
Loop == {"idle", "opening", "draining", "turn"}
Registered == Loop \union {"setup"}
AliveAt == Registered \union {"starting", "ready"}

NoActor == [at |-> "none", queue |-> <<>>, turn |-> 0, sticky |-> FALSE, report |-> FALSE]
NewActor == [NoActor EXCEPT !.at = "starting"]
DeadActor == [NoActor EXCEPT !.at = "dead"]

Command == [kind : {"prompt", "cancel", "close"}, op : Op]

NewOp == [kind |-> "create", pc |-> "new", gen |-> 0, answered |-> FALSE, dog |-> "off"]

Alive(g) == actor[g].at \in AliveAt
Commands(g, k) == {n \in DOMAIN actor[g].queue : actor[g].queue[n].kind = k}

\* The operation whose `spawned` handshake an actor is in.
Spawner(g) == {i \in Op : op[i].pc \in {"spawning", "respawn"} /\ op[i].gen = g}

\* The prompts an actor holds the result sender of.
Held(g) == {i \in Op : \/ actor[g].turn = i
                       \/ \E n \in Commands(g, "prompt") : actor[g].queue[n].op = i}

------------------------------------------------------------------------------
(* Small steps shared by the operations                                        *)

At(i, pc) == op[i].pc = pc

\* An operation that is over, with its watchdog, leaves nothing behind.
Over == [NewOp EXCEPT !.pc = "done"]
Rest(o) == IF o.pc = "done" /\ o.dog = "off" THEN Over ELSE o

Goto(i, pc) == op' = [op EXCEPT ![i] = Rest([@ EXCEPT !.pc = pc])]
SetState(s) == live' = [live EXCEPT !.state = s]

\* update_state: it does nothing when the session is not live.
update_state(s) == IF IsLive THEN SetState(s) ELSE live' = live

\* update_state_if
update_state_if(expected, s) ==
    IF live.state = expected THEN SetState(s) ELSE live' = live

\* mark_failed_if_current: only the generation is compared, not the state.
mark_failed_if_current(g) ==
    IF IsLive /\ live.gen = g THEN SetState("failed") ELSE live' = live

\* persist writes the union of both maps, under both read locks.
persist == disk' = (live'.state # "absent" \/ dormant')

\* The next generation, spawned by operation i, which goes on to wait for it.
spawn(i, pc) ==
    \E g \in Gen :
       /\ actor[g] = NoActor
       /\ \A h \in 1..(g - 1) : actor[h] # NoActor
       /\ actor' = [actor EXCEPT ![g] = NewActor]
       /\ op' = [op EXCEPT ![i].pc = pc, ![i].gen = g]

\* A command goes to the back of the channel while the actor holds its receiver.
Push(g, k, i) ==
    IF Alive(g)
    THEN actor' = [actor EXCEPT ![g].queue = Append(@, [kind |-> k, op |-> i])]
    ELSE actor' = actor

\* The prompts of S have their result: a value, or a dropped sender.
Answer(S) == op' = [i \in Op |-> IF i \in S THEN [op[i] EXCEPT !.answered = TRUE] ELSE op[i]]

------------------------------------------------------------------------------
Init ==
    /\ live = Absent
    /\ dormant \in BOOLEAN /\ disk = dormant
    /\ lock = 0
    /\ actor = [g \in Gen |-> NoActor]
    /\ op = [i \in Op |-> NewOp]
    /\ restarts = 0 /\ faults = 0
    /\ cancelled = {} /\ cleared = {} /\ doubled = FALSE

(* Calls, create_session and ensure_live_session                               *)

Called(i) == At(i, "new") /\ \A j \in 1..(i - 1) : ~At(j, "new")

\* A device calls an operation; all but close go through ensure_live_session.
Call(i, k) ==
    /\ Called(i)
    /\ op' = [op EXCEPT ![i].pc = IF k = "close" THEN "close" ELSE "ensure", ![i].kind = k]
    /\ UNCHANGED <<live, dormant, disk, lock, actor, bounds, history>>

\* create_session: only once for an id, which is fresh.
Create(i) ==
    /\ Called(i)
    /\ i = 1 /\ ~dormant /\ restarts = 0
    /\ spawn(i, "spawning")
    /\ UNCHANGED <<live, dormant, disk, lock, bounds, history>>

\* has_live_session, before or behind the restore lock.
EnsureFast(i) ==
    /\ At(i, "ensure") /\ IsLive
    /\ Goto(i, "go")
    /\ UNCHANGED <<live, dormant, disk, lock, actor, bounds, history>>

\* Behind the lock: no dormant record, or a limit, an unknown agent or workspace.
EnsureFails(i) ==
    /\ At(i, "ensure") /\ ~IsLive /\ lock = 0
    /\ Goto(i, "done")
    /\ UNCHANGED <<live, dormant, disk, lock, actor, bounds, history>>

\* Mutant: the dormant record is taken before the actor is there.
Restore_taking(i) ==
    /\ At(i, "ensure") /\ ~IsLive /\ lock = 0 /\ dormant
    /\ lock' = i /\ dormant' = FALSE
    /\ spawn(i, "spawning")
    /\ UNCHANGED <<live, disk, bounds, history>>

\* Mutant: restores are not serialised.
Restore_unlocked(i) ==
    /\ At(i, "ensure") /\ ~IsLive /\ dormant
    /\ spawn(i, "spawning")
    /\ UNCHANGED <<live, dormant, disk, lock, bounds, history>>

\* Behind the lock, still not live: the record is read, the actor spawned.
Restore(i) ==
    /\ At(i, "ensure") /\ ~IsLive /\ lock = 0 /\ dormant
    /\ lock' = i
    /\ spawn(i, "spawning")
    /\ UNCHANGED <<live, dormant, disk, bounds, history>>

\* `ready` said Ok, though the actor may have died since.
IsReady(g) == actor[g].at = "ready" \/ (actor[g].at = "dead" /\ actor[g].report)
StartFailed(g) == actor[g].at = "dead" /\ ~actor[g].report

\* The actor learns that it is registered, if it is still there.
Register(g) == actor' = [actor EXCEPT ![g].at = IF @ = "ready" THEN "setup" ELSE @]

\* register_live_session: publish inserts the entry as Idle.
publish(i) ==
    /\ At(i, "spawning") /\ IsReady(op[i].gen)
    /\ live' = [state |-> "idle", gen |-> op[i].gen]
    /\ Register(op[i].gen)
    /\ Goto(i, "published")
    /\ UNCHANGED <<dormant, disk, lock, bounds, history>>

Release(i) == lock' = IF lock = i THEN 0 ELSE lock

SpawnFails(i) ==
    /\ At(i, "spawning") /\ StartFailed(op[i].gen)
    /\ Goto(i, "done") /\ Release(i)
    /\ UNCHANGED <<live, dormant, disk, actor, bounds, history>>

\* After publication: a restore removes the dormant twin (finish_promotion) and
\* frees the lock; both it and a creation persist.
Published(i) ==
    /\ At(i, "published")
    /\ dormant' = (dormant /\ op[i].kind = "create")
    /\ live' = live /\ persist
    /\ Goto(i, IF op[i].kind = "create" THEN "done" ELSE "go") /\ Release(i)
    /\ UNCHANGED <<actor, bounds, history>>

------------------------------------------------------------------------------
(* send_prompt                                                                 *)

\* The sticky bit of a generation no longer speaks for the prompts it was set for.
Clear(g) == cleared' = cleared \union {p \in cancelled : op[p].gen = g}

\* begin_prompt: admission is the check and the change of state under one lock.
begin_prompt(i) ==
    /\ At(i, "go") /\ op[i].kind = "prompt"
    /\ IF live.state \in {"idle", "interrupted"}
       THEN /\ SetState("running")
            /\ actor' = [actor EXCEPT ![live.gen].sticky = FALSE]
            /\ op' = [op EXCEPT ![i].pc = "prepare", ![i].gen = live.gen]
            /\ Clear(live.gen)
       ELSE Goto(i, "done") /\ UNCHANGED <<live, actor, cleared>>
    /\ UNCHANGED <<dormant, disk, lock, bounds, cancelled, doubled>>

Fault == faults < MaxFaults /\ faults' = faults + 1

\* resolve_workspace failed, or the caller went away while the prompt was being
\* prepared: nothing undoes begin_prompt.
PrepareLost(i) ==
    /\ At(i, "prepare") /\ Fault
    /\ Goto(i, "lost")
    /\ UNCHANGED <<live, dormant, disk, lock, actor, restarts, history>>

\* pipeline.prepare failed.
PrepareFails(i) ==
    /\ At(i, "prepare") /\ Fault
    /\ update_state_if("running", "idle")
    /\ Goto(i, "done")
    /\ UNCHANGED <<dormant, disk, lock, actor, restarts, history>>

\* try_send of the prompt; then the watchdog and the result watcher start.
Dispatch(i) ==
    /\ At(i, "prepare")
    /\ IF Alive(op[i].gen)
       THEN /\ Push(op[i].gen, "prompt", i)
            /\ op' = [op EXCEPT ![i].pc = "admitted", ![i].dog = "armed"]
            /\ live' = live
       ELSE update_state("failed") /\ Goto(i, "done") /\ actor' = actor
    /\ UNCHANGED <<dormant, disk, lock, bounds, history>>

\* The watchdog's token is cancelled: too late once its timer has elapsed.
Disarmed(dog) == IF dog = "armed" THEN "off" ELSE dog

\* Mutant: the state is left as it is when the result arrives.
WatchResult_silent(i) ==
    /\ At(i, "admitted") /\ op[i].answered
    /\ op' = [op EXCEPT ![i] = Rest([op[i] EXCEPT !.pc = "done", !.dog = Disarmed(op[i].dog)])]
    /\ UNCHANGED <<live, dormant, disk, lock, actor, bounds, history>>

\* The watcher: the result arrived, or its sender was dropped.
WatchResult(i) ==
    /\ At(i, "admitted") /\ op[i].answered
    /\ op' = [op EXCEPT ![i] = Rest([op[i] EXCEPT !.pc = "done", !.dog = Disarmed(op[i].dog)])]
    /\ update_state_if("running", "idle")
    /\ UNCHANGED <<dormant, disk, lock, actor, bounds, history>>

\* idle_watchdog_task: no event came for idle_timeout.  The model has no clock:
\* the timer of an armed watchdog may always elapse.
WatchdogElapses(i) ==
    /\ op[i].dog = "armed"
    /\ op' = [op EXCEPT ![i].dog = "fired"]
    /\ UNCHANGED <<live, dormant, disk, lock, actor, bounds, history>>

\* handle_idle_timeout
WatchdogFires(i) ==
    /\ op[i].dog = "fired"
    /\ op' = [op EXCEPT ![i] = Rest([@ EXCEPT !.dog = "off"])]
    /\ mark_failed_if_current(op[i].gen)
    /\ UNCHANGED <<dormant, disk, lock, actor, bounds, history>>

\* idle_watchdog_task ends early: handle_watchdog_event returns false for an
\* event of another session, or the event store could not be read.
WatchdogLeaves(i) ==
    /\ op[i].dog = "armed"
    /\ op' = [op EXCEPT ![i].dog = "off"]
    /\ Fault \/ (OtherSessions /\ faults' = faults)
    /\ UNCHANGED <<live, dormant, disk, lock, actor, restarts, history>>

------------------------------------------------------------------------------
(* cancel_session                                                              *)

\* The prompts of a generation that still await their result.
UnderWay(g) == {p \in Op : op[p].pc \in {"prepare", "admitted"} /\ op[p].gen = g /\ ~op[p].answered}

\* command() and the sticky bit; a failed or missing session is an error.
CancelMark(i) ==
    /\ At(i, "go") /\ op[i].kind = "cancel"
    /\ IF live.state \notin {"absent", "failed"}
       THEN /\ actor' = [actor EXCEPT ![live.gen].sticky = TRUE]
            /\ op' = [op EXCEPT ![i].pc = "send", ![i].gen = live.gen]
            /\ cancelled' = cancelled \union UnderWay(live.gen)
            /\ cleared' = cleared \ UnderWay(live.gen)
       ELSE Goto(i, "done") /\ UNCHANGED <<actor, cancelled, cleared>>
    /\ UNCHANGED <<live, dormant, disk, lock, bounds, doubled>>

CancelSend(i) ==
    /\ At(i, "send")
    /\ Push(op[i].gen, "cancel", i)
    /\ Goto(i, IF Alive(op[i].gen) THEN "mark" ELSE "done")
    /\ UNCHANGED <<live, dormant, disk, lock, bounds, history>>

\* The state becomes Interrupted whatever it is by now, and the timer starts.
CancelInterrupt(i) ==
    /\ At(i, "mark")
    /\ update_state("interrupted")
    /\ Goto(i, "grace")
    /\ UNCHANGED <<dormant, disk, lock, actor, bounds, history>>

\* The caller went away while SessionCancelled was being appended: no timer.
CancelLost(i) ==
    /\ At(i, "mark") /\ Fault
    /\ update_state("interrupted")
    /\ Goto(i, "done")
    /\ UNCHANGED <<dormant, disk, lock, actor, restarts, history>>

\* Remove both records and persist; tell the actor to close and wait for it.
RemoveAndClose(i) ==
    /\ live' = Absent /\ dormant' = FALSE /\ persist
    /\ Push(live.gen, "close", i)
    /\ op' = [op EXCEPT ![i].pc = "closing", ![i].gen = live.gen]

\* Mutant: a session that still has a prompt in flight is left alone.
GraceExpires_busy(i) ==
    /\ At(i, "grace")
    /\ IF live.state = "interrupted" /\ ~\E p \in Op : At(p, "admitted")
       THEN RemoveAndClose(i)
       ELSE Goto(i, "done") /\ UNCHANGED <<live, dormant, disk, actor>>
    /\ UNCHANGED <<lock, bounds, history>>

\* The grace period is over: take_interrupted force-closes what is Interrupted.
GraceExpires(i) ==
    /\ At(i, "grace")
    /\ IF live.state = "interrupted" THEN RemoveAndClose(i)
       ELSE Goto(i, "done") /\ UNCHANGED <<live, dormant, disk, actor>>
    /\ UNCHANGED <<lock, bounds, history>>

------------------------------------------------------------------------------
(* close_session                                                               *)

\* Mutant: the entry goes without a word to its actor.
CloseLive_silent(i) ==
    /\ At(i, "close") /\ IsLive
    /\ live' = Absent /\ dormant' = FALSE /\ persist
    /\ Goto(i, "done") /\ actor' = actor
    /\ UNCHANGED <<lock, bounds, history>>

CloseLive(i) ==
    /\ At(i, "close") /\ IsLive
    /\ RemoveAndClose(i)
    /\ UNCHANGED <<lock, bounds, history>>

\* remove_dormant, then SessionClosed is appended; the file is written after.
CloseDormant(i) ==
    /\ At(i, "close") /\ ~IsLive
    /\ dormant' = FALSE
    /\ Goto(i, IF dormant THEN "closed" ELSE "done")
    /\ UNCHANGED <<live, disk, lock, actor, bounds, history>>

ClosePersist(i) ==
    /\ At(i, "closed")
    /\ live' = live /\ dormant' = dormant /\ persist
    /\ Goto(i, "done")
    /\ UNCHANGED <<lock, actor, bounds, history>>

\* The actor acknowledged the close, or was gone.
CloseAcked(i) ==
    /\ At(i, "closing") /\ ~Alive(op[i].gen)
    /\ Goto(i, "done")
    /\ UNCHANGED <<live, dormant, disk, lock, actor, bounds, history>>

------------------------------------------------------------------------------
(* rebind_session                                                              *)

\* The session is Created while it is being rebound, and only an idle one is let
\* in; but a cancel makes it Interrupted, and the end of a prompt Idle again.
Rebinding(i) == op[i].pc \in {"export", "replacing", "respawn"}

rebind_start(i) ==
    /\ At(i, "go") /\ op[i].kind = "rebind"
    /\ IF live.state = "idle"
       THEN /\ SetState("created")
            /\ op' = [op EXCEPT ![i].pc = "export", ![i].gen = live.gen]
            /\ doubled' = (doubled \/ \E j \in Op : Rebinding(j))
       ELSE Goto(i, "done") /\ UNCHANGED <<live, doubled>>
    /\ UNCHANGED <<dormant, disk, lock, actor, bounds, cancelled, cleared>>

\* export_conversation or resolve_workspace failed.
RebindExportFails(i) ==
    /\ At(i, "export") /\ Fault
    /\ update_state_if("created", "idle")
    /\ Goto(i, "done")
    /\ UNCHANGED <<dormant, disk, lock, actor, restarts, history>>

\* The old actor is told to close; that it is gone is an error.
RebindClose(i) ==
    /\ At(i, "export")
    /\ Push(op[i].gen, "close", i)
    /\ Goto(i, IF Alive(op[i].gen) THEN "replacing" ELSE "done")
    /\ UNCHANGED <<live, dormant, disk, lock, bounds, history>>

RebindSpawn(i) ==
    /\ At(i, "replacing") /\ ~Alive(op[i].gen)
    /\ spawn(i, "respawn")
    /\ UNCHANGED <<live, dormant, disk, lock, bounds, history>>

\* Register the replacement, if the session was not closed meanwhile, and persist.
rebind_finish(i) ==
    /\ At(i, "respawn") /\ IsReady(op[i].gen)
    /\ IF IsLive
       THEN /\ live' = [state |-> "idle", gen |-> op[i].gen]
            /\ Register(op[i].gen)
       ELSE live' = live /\ actor' = actor
    /\ dormant' = dormant /\ persist
    /\ Goto(i, "done")
    /\ UNCHANGED <<lock, bounds, history>>

RebindFails(i) ==
    /\ At(i, "respawn") /\ StartFailed(op[i].gen)
    /\ update_state("failed")
    /\ Goto(i, "done")
    /\ UNCHANGED <<dormant, disk, lock, actor, bounds, history>>

------------------------------------------------------------------------------
(* The actor task                                                              *)

\* The agent answers the handshake; the actor waits to be registered.
AgentUp(g) ==
    /\ actor[g].at = "starting"
    /\ actor' = [actor EXCEPT ![g].at = "ready"]
    /\ UNCHANGED <<live, dormant, disk, lock, op, bounds, history>>

\* run_actor ends: the receiver goes with what is in it, and so do the senders.
\* A report is for the watcher that lifecycle starts for a registered actor.
End(g, report) ==
    /\ actor' = [actor EXCEPT ![g] = [DeadActor EXCEPT !.report = report]]
    /\ Answer(Held(g))

\* The agent process or the connection dies.
AgentDies(g) ==
    /\ Alive(g)
    /\ End(g, actor[g].at # "starting")
    /\ UNCHANGED <<live, dormant, disk, lock, bounds, history>>

\* The `registered` sender was dropped with its operation.
Unregistered(g) ==
    /\ actor[g].at = "ready" /\ Spawner(g) = {}
    /\ End(g, FALSE)
    /\ UNCHANGED <<live, dormant, disk, lock, bounds, history>>

\* The agent answers the initial options.
SetupDone(g) ==
    /\ actor[g].at = "setup"
    /\ actor' = [actor EXCEPT ![g].at = "idle"]
    /\ UNCHANGED <<live, dormant, disk, lock, op, bounds, history>>

\* watch_actor_terminal: the report of a registered actor that died.
WatchTerminal(g) ==
    /\ actor[g].report /\ Spawner(g) = {}
    /\ actor' = [actor EXCEPT ![g].report = FALSE]
    /\ mark_failed_if_current(g)
    /\ UNCHANGED <<dormant, disk, lock, op, bounds, history>>

HasCommand(g, k) == actor[g].queue # <<>> /\ Head(actor[g].queue).kind = k

\* Mutant: the sticky bit is ignored before the turn.
TakePrompt_deaf(g) ==
    /\ actor[g].at = "idle" /\ HasCommand(g, "prompt")
    /\ actor' = [actor EXCEPT ![g].at = "opening", ![g].queue = Tail(@),
                              ![g].turn = Head(actor[g].queue).op, ![g].sticky = FALSE]
    /\ op' = op
    /\ UNCHANGED <<live, dormant, disk, lock, bounds, history>>

\* actor_loop takes a prompt; the sticky bit of a cancel ends it at once.
TakePrompt(g) ==
    /\ actor[g].at = "idle" /\ HasCommand(g, "prompt")
    /\ LET p == Head(actor[g].queue).op
       IN  IF actor[g].sticky
           THEN /\ Answer({p})
                /\ actor' = [actor EXCEPT ![g].queue = Tail(@), ![g].sticky = FALSE]
                /\ Clear(g)
           ELSE /\ actor' = [actor EXCEPT ![g].at = "opening", ![g].queue = Tail(@),
                                          ![g].turn = p]
                /\ UNCHANGED <<op, cleared>>
    /\ UNCHANGED <<live, dormant, disk, lock, bounds, cancelled, doubled>>

\* PromptSubmitted and ResponseStarted are durable, or the append failed.
AppendEvents(g) ==
    /\ actor[g].at = "opening"
    /\ \/ actor' = [actor EXCEPT ![g].at = "draining"] /\ UNCHANGED <<op, faults>>
       \/ /\ Fault
          /\ actor' = [actor EXCEPT ![g].at = "idle", ![g].turn = 0]
          /\ Answer({actor[g].turn})
    /\ UNCHANGED <<live, dormant, disk, lock, restarts, history>>

\* The commands that came meanwhile are drained; then the request goes out,
\* unless the sticky bit is set.
SendRequest(g) ==
    /\ actor[g].at = "draining" /\ actor[g].queue = <<>>
    /\ IF actor[g].sticky
       THEN /\ actor' = [actor EXCEPT ![g].at = "idle", ![g].turn = 0, ![g].sticky = FALSE]
            /\ Answer({actor[g].turn})
            /\ Clear(g)
       ELSE actor' = [actor EXCEPT ![g].at = "turn"] /\ UNCHANGED <<op, cleared>>
    /\ UNCHANGED <<live, dormant, disk, lock, bounds, cancelled, doubled>>

\* The agent's reply ends the turn; its final event is appended first.
Reply(g) ==
    /\ actor[g].at = "turn"
    /\ actor' = [actor EXCEPT ![g].at = "idle", ![g].turn = 0]
    /\ Answer({actor[g].turn})
    /\ UNCHANGED <<live, dormant, disk, lock, bounds, history>>

\* Mutant: a cancelled turn ends without a result.
TakeCancel_silent(g) ==
    /\ actor[g].at \in {"idle", "draining", "turn"} /\ HasCommand(g, "cancel")
    /\ actor' = [actor EXCEPT ![g].at = "idle", ![g].queue = Tail(@), ![g].turn = 0]
    /\ op' = op
    /\ UNCHANGED <<live, dormant, disk, lock, bounds, history>>

\* A cancel ends the turn; on an idle actor it only notifies the agent.
TakeCancel(g) ==
    /\ actor[g].at \in {"idle", "draining", "turn"} /\ HasCommand(g, "cancel")
    /\ actor' = [actor EXCEPT ![g].at = "idle", ![g].queue = Tail(@), ![g].turn = 0]
    /\ Answer({actor[g].turn})
    /\ UNCHANGED <<live, dormant, disk, lock, bounds, history>>

\* A close ends the actor; whoever waits for it is told.
TakeClose(g) ==
    /\ actor[g].at \in {"idle", "draining", "turn"} /\ HasCommand(g, "close")
    /\ End(g, FALSE)
    /\ UNCHANGED <<live, dormant, disk, lock, bounds, history>>

\* handle_prompt_command: a prompt that arrives during a turn is refused.
RefuseNested(g) ==
    /\ actor[g].at \in {"draining", "turn"} /\ HasCommand(g, "prompt")
    /\ actor' = [actor EXCEPT ![g].queue = Tail(@)]
    /\ Answer({Head(actor[g].queue).op})
    /\ UNCHANGED <<live, dormant, disk, lock, bounds, history>>

------------------------------------------------------------------------------
(* Dropped callers and restarts                                                *)

\* The caller's connection closes and its future is dropped at an await.  The
\* grace timer is a task of its own and is not.
Abandon(i) ==
    /\ op[i].kind # "cancel" \/ At(i, "spawning")
    /\ op[i].pc \in {"spawning", "export", "replacing", "respawn", "closing", "closed"}
    /\ Fault
    /\ Goto(i, IF At(i, "closed") THEN "lost" ELSE "done")
    /\ Release(i)
    /\ UNCHANGED <<live, dormant, disk, actor, restarts, history>>

\* The daemon dies with its tasks and agents and starts again: load_conversations.
Restart ==
    /\ restarts < MaxRestarts
    /\ restarts' = restarts + 1
    /\ live' = Absent /\ dormant' = disk /\ lock' = 0
    /\ actor' = [g \in Gen |-> IF actor[g] = NoActor THEN NoActor ELSE DeadActor]
    /\ op' = [i \in Op |-> IF At(i, "new") THEN NewOp ELSE Over]
    /\ doubled' = FALSE
    /\ UNCHANGED <<disk, faults, cancelled, cleared>>

------------------------------------------------------------------------------
\* What the daemon's own tasks do as long as they are scheduled.
DaemonOp(i) ==
    \/ EnsureFast(i) \/ Restore(i) \/ publish(i) \/ SpawnFails(i) \/ Published(i)
    \/ begin_prompt(i) \/ Dispatch(i) \/ WatchResult(i)
    \/ WatchdogElapses(i) \/ WatchdogFires(i)
    \/ CancelMark(i) \/ CancelSend(i) \/ CancelInterrupt(i) \/ GraceExpires(i)
    \/ CloseLive(i) \/ CloseDormant(i) \/ ClosePersist(i) \/ CloseAcked(i)
    \/ rebind_start(i) \/ RebindClose(i) \/ RebindSpawn(i) \/ rebind_finish(i)
    \/ RebindFails(i)

DaemonActor(g) ==
    \/ Unregistered(g) \/ WatchTerminal(g) \/ TakePrompt(g) \/ AppendEvents(g)
    \/ SendRequest(g) \/ TakeCancel(g) \/ TakeClose(g) \/ RefuseNested(g)

\* What devices, agents, other sessions and faults may do.
EnvironmentOp(i) ==
    \/ Create(i) \/ EnsureFails(i) \/ PrepareLost(i) \/ PrepareFails(i)
    \/ WatchdogLeaves(i) \/ CancelLost(i) \/ RebindExportFails(i) \/ Abandon(i)
    \/ \E k \in Kind \ {"create"} : Call(i, k)

EnvironmentActor(g) == AgentUp(g) \/ AgentDies(g) \/ SetupDone(g) \/ Reply(g)

Daemon == (\E i \in Op : DaemonOp(i)) \/ (\E g \in Gen : DaemonActor(g))

Next ==
    \/ Daemon
    \/ \E i \in Op : EnvironmentOp(i)
    \/ \E g \in Gen : EnvironmentActor(g)
    \/ Restart

Spec == Init /\ [][Next]_vars

\* The runtime polls every ready task and fires every elapsed timer.  Nothing is
\* assumed of devices and agents: one may fall silent at any time.
FairSpec == Spec /\ WF_vars(Daemon)

------------------------------------------------------------------------------
(* Properties                                                                  *)

\* The actors the daemon keeps for the session: registered, or being awaited.
Kept(g) == Alive(g) /\ ((IsLive /\ live.gen = g) \/ Spawner(g) # {})

(* Restores, a creation, rebinds, closes and crashes interleave and the session*)
(* never keeps two agents at work ("Restore only once", lifecycle/mod.rs:76;   *)
(* "so concurrent operations cannot spawn twice", client.rs:48).               *)
OneActor == \A g, h \in Gen : Kept(g) /\ Kept(h) => g = h

(* An actor nobody keeps is on its way out: it has a close to read, or was     *)
(* never registered and finds out so.  No path drops the entry of an actor and *)
(* leaves an agent process running (lifecycle/mod.rs:379-394, 414-426).        *)
NoOrphan ==
    \A g \in Gen : Alive(g) /\ ~Kept(g) =>
       actor[g].at \in {"starting", "ready"} \/ Commands(g, "close") # {}

(* Both: the daemon has one agent for the session at a time, and knows it,     *)
(* unless two rebinds met.  Nothing but the state Created keeps a second one   *)
(* out, and a cancel overwrites that (registry.rs:238, 386): then two actors   *)
(* are spawned, and the entry of the first is replaced.                        *)
AgentIsKnown == ~doubled => OneActor /\ NoOrphan

(* Every prompt that was admitted has its result, or some actor still holds    *)
(* the sender: cancels, closes, crashes and refusals all answer, so the watcher*)
(* of operations.rs:171-190 never waits for nothing.                           *)
AdmittedIsHeard ==
    \A i \in Op : At(i, "admitted") /\ ~op[i].answered =>
       Alive(op[i].gen) /\ i \in Held(op[i].gen)

(* A Running session has a prompt in flight on its own actor that will move it *)
(* on, whatever cancels, closes and late watchers did in between.  The one way *)
(* to be Running for nobody is a prompt lost between begin_prompt and its      *)
(* dispatch: operations.rs:112 returns without undoing the admission.          *)
RunningIsOwned ==
    live.state = "running" =>
       \E i \in Op : /\ op[i].kind = "prompt" /\ op[i].gen = live.gen
                     /\ op[i].pc \in {"prepare", "admitted", "lost"}

(* A conversation nobody closes or cancels survives failing restores and       *)
(* rebinds, dying agents and restarts ("a failed restore never makes the       *)
(* conversation disappear", registry.rs:148-149).                              *)
ConversationSurvives ==
    [][(IsLive \/ dormant) /\ disk =>
          \/ live'.state # "absent" \/ dormant'
          \/ \E i \in Op : op[i].pc \in {"close", "grace"} /\ op'[i].pc # op[i].pc]_vars

(* A prompt that was under way when a cancel was issued does not reach the     *)
(* agent after it (turn.rs:296-303, 347-366), unless a later prompt, admitted  *)
(* from Interrupted, reset the sticky bit in between (registry.rs:223), or an  *)
(* earlier one that was still in the channel used it up (turn.rs:481-483).     *)
CancelSticks ==
    [][\A g \in Gen :
          actor[g].at = "draining" /\ actor'[g].at = "turn"
             => actor[g].turn \notin cancelled \ cleared]_vars

(* A session does not hang in Running: the agent answers, or the watchdog gives*)
(* it up ("surfaces a clear error instead of hanging forever",                 *)
(* lifecycle/mod.rs:186-187).                                                  *)
RunningEnds == live.state = "running" ~> live.state # "running"

(* A session does not stay Interrupted: a new prompt, a close, a crash or the  *)
(* grace timer ends that, whoever else touched the session                     *)
(* (lifecycle/mod.rs:374-394).                                                 *)
InterruptedEnds == live.state = "interrupted" ~> live.state # "interrupted"

=============================================================================
