------------------------------- MODULE Profiles -------------------------------
(* The settings of a session: its profile and its model, kept by the daemon,   *)
(* pushed to an agent that offers an option for them, and, for the MCP servers *)
(* a profile allows, fixed when the agent starts (src/acp/core/operations.rs,  *)
(* transition.rs, actor/setup.rs, mcp.rs, src/acp/profile.rs, context.rs). One *)
(* session: its requests, the start of its agent, the replacement of the agent *)
(* by a transition, and the transcript that the next prompt carries over.      *)
EXTENDS Integers, Sequences, FiniteSets

CONSTANTS
    Value,       \* profiles, and models
    Default,     \* the default profile, and the model the session starts with
    Server,      \* MCP servers
    Configured,  \* profiles.json at the start: which servers each profile allows
    Req,         \* requests that may be under way at once
    MaxRequests, MaxChanges, MaxFaults

None == "none"
Option == {"profile", "model"}
ASSUME DefaultAssumption == Default \in Value /\ None \notin Value \union Req
ASSUME ConfiguredAssumption == Configured \subseteq [Value -> SUBSET Server]
ASSUME BoundsAssumption == {MaxRequests, MaxChanges, MaxFaults} \subseteq Nat

VARIABLES
    state,      \* of the session in the registry, or dormant
    stored,     \* what the daemon keeps per option
    allow,      \* the servers each profile allows
    enabled,    \* the servers enabled in mcp.json
    offers,     \* the options the agent offers
    actor,      \* the actor and its agent
    queue,      \* commands in the actor's channel: an option, its value, and whose it is
    req,        \* the requests
    prompts,    \* how many prompts the pipeline prepared for the agent
    transfer,   \* is a transcript queued?
    counts,     \* requests, changes of files and faults so far
    owed,       \* history: the next prompt owes the agent the transcript
    blurred,    \* history: settings overlapped, or a caller went away
    moved,      \* history: the agent's servers are no longer those of the profile
    applied     \* history: a transition failed after an agent started with its profile

vars == <<state, stored, allow, enabled, offers, actor, queue, req, prompts, transfer, counts,
          owed, blurred, moved, applied>>
files == <<allow, enabled, offers>>
pipeline == <<prompts, transfer, owed>>

Idle == [kind |-> None, pc |-> "free", value |-> None, previous |-> None, n |-> 0]
NoActor == [pc |-> "none", attached |-> {}, value |-> [o \in Option |-> None], model |-> None]
At(r, pc) == req[r].pc = pc
Setting == {r \in Req : req[r].kind \in {"set", "switch", "transition"}}
Starting == actor.pc \in {"spawned", "loaded", "setup", "profile"}

\* ProfileMiddleware::profile: a session without an entry has the default.
Current(o) == IF stored[o] = None THEN Default ELSE stored[o]

\* load_session_mcp_servers.
Effective(v) == enabled \intersect allow[v]

Init ==
    /\ state = "dormant"
    /\ stored = [profile |-> None, model |-> Default]
    /\ allow \in Configured /\ enabled = Server
    /\ offers \in SUBSET Option
    /\ actor = NoActor /\ queue = <<>>
    /\ req = [r \in Req |-> Idle]
    /\ prompts = 0 /\ transfer = FALSE
    /\ counts = [requests |-> 0, changes |-> 0, faults |-> 0]
    /\ owed = FALSE /\ blurred = FALSE /\ moved = FALSE /\ applied = FALSE

Fault == counts.faults < MaxFaults /\ counts' = [counts EXCEPT !.faults = @ + 1]
Goto(r, pc) == req' = [req EXCEPT ![r].pc = pc]
End(r) == req' = [req EXCEPT ![r] = Idle]

\* A mutant: the profile is not restored.
Fail_kept(r) == End(r) /\ UNCHANGED <<stored, applied>>

\* A request ends in an error; a failed transition restores the profile.
Fail(r) ==
    /\ End(r)
    /\ stored' = IF req[r].kind = "transition"
                 THEN [stored EXCEPT !.profile = req[r].previous] ELSE stored
    /\ applied' = (applied \/ (req[r].kind = "transition" /\ req[r].n = 1))

Begin(r, kind, v, pc) ==
    /\ At(r, "free") /\ counts.requests < MaxRequests
    /\ counts' = [counts EXCEPT !.requests = @ + 1]
    /\ req' = [req EXCEPT ![r] = [kind |-> kind, pc |-> pc, value |-> v,
                                  previous |-> Current("profile"), n |-> 0]]
    /\ blurred' = (blurred \/ (kind # "prompt" /\ (Setting # {} \/ Starting)))

------------------------------------------------------------------------------
(* The requests                                                                *)

\* Without a live session, or an option of the agent, there is only the store.
set_session_profile(r, v) ==
    /\ Begin(r, "set", v, IF state # "dormant" /\ "profile" \in offers THEN "send" ELSE "store")
    /\ moved' = (moved \/ Current("profile") # v)
    /\ UNCHANGED <<state, stored, files, actor, queue, pipeline, applied>>

switch_model(r, v) ==
    /\ Begin(r, "switch", v, "live")
    /\ UNCHANGED <<state, stored, files, actor, queue, pipeline, moved, applied>>

transition_history(r, v) ==
    /\ Begin(r, "transition", v, "live")
    /\ stored' = [stored EXCEPT !.profile = v]
    /\ UNCHANGED <<state, files, actor, queue, pipeline, moved, applied>>

send_prompt(r) ==
    /\ Begin(r, "prompt", None, "live")
    /\ UNCHANGED <<state, stored, files, actor, queue, pipeline, moved, applied>>

\* Where a request goes on once its session is live.
NextPc(r) == CASE req[r].kind = "prompt" -> "begin"
               [] req[r].kind = "transition" -> "rebind"
               [] OTHER -> IF "model" \in offers THEN "send" ELSE "rebind"

ensure_live_session(r) ==
    /\ At(r, "live") /\ state # "dormant"
    /\ Goto(r, NextPc(r))
    /\ UNCHANGED <<state, stored, files, actor, queue, pipeline, counts, blurred, moved, applied>>

Spawn(model) == actor' = [NoActor EXCEPT !.pc = "spawned", !.model = model] /\ queue' = <<>>

\* restore_lock: one restore at a time.
register_live_session(r) ==
    /\ At(r, "live") /\ state = "dormant" /\ actor.pc = "none"
    /\ Goto(r, "starting") /\ Spawn(stored.model)
    /\ blurred' = (blurred \/ Setting \ {r} # {})
    /\ UNCHANGED <<state, stored, files, pipeline, counts, moved, applied>>

\* Options the agent does not offer are skipped.
AfterModel == IF "profile" \in offers THEN "profile" ELSE "loop"
AfterStart == IF "model" \in offers THEN "setup" ELSE AfterModel

publish(r) ==
    /\ At(r, "starting") /\ actor.pc = "loaded"
    /\ Goto(r, "live") /\ state' = "idle" /\ actor' = [actor EXCEPT !.pc = AfterStart]
    /\ UNCHANGED <<stored, files, queue, pipeline, counts, blurred, moved, applied>>

\* The agent does not start. A replacement leaves a session that has failed.
startup_fails(r) ==
    /\ req[r].pc \in {"starting", "replacing"} /\ actor.pc \in {"spawned", "loaded"} /\ Fault
    /\ actor' = NoActor /\ Fail(r)
    /\ state' = IF At(r, "replacing") THEN "failed" ELSE state
    /\ UNCHANGED <<files, queue, pipeline, blurred, moved>>

------------------------------------------------------------------------------
(* The actor                                                                   *)

\* The servers are chosen before session/new, by the profile of that moment.
load_session_mcp_servers ==
    /\ actor.pc = "spawned"
    /\ actor' = [actor EXCEPT !.pc = "loaded", !.attached = Effective(Current("profile"))]
    /\ req' = [r \in Req |-> IF req[r].kind = "transition" THEN [req[r] EXCEPT !.n = 1] ELSE req[r]]
    /\ moved' = FALSE /\ applied' = FALSE
    /\ UNCHANGED <<state, stored, files, queue, pipeline, counts, blurred>>

\* The model first, then the profile; either may fail, and the agent keeps its own.
Push(o, v, pc) ==
    /\ \/ actor' = [actor EXCEPT !.pc = pc, !.value[o] = v] /\ UNCHANGED <<counts, blurred>>
       \/ Fault /\ actor' = [actor EXCEPT !.pc = pc] /\ blurred' = TRUE
    /\ UNCHANGED <<state, stored, files, queue, req, pipeline, moved, applied>>
send_initial_config_options ==
    \/ actor.pc = "setup" /\ Push("model", actor.model, AfterModel)
    \/ actor.pc = "profile" /\ Push("profile", Current("profile"), "loop")

OptionOf(r) == IF req[r].kind = "set" THEN "profile" ELSE "model"
Command(r) == [of |-> r, option |-> OptionOf(r), value |-> req[r].value]

send(r) ==
    /\ At(r, "send")
    /\ IF actor.pc \in {"setup", "profile", "loop"}
       THEN queue' = Append(queue, Command(r)) /\ Goto(r, "wait")
       ELSE End(r) /\ UNCHANGED queue
    /\ UNCHANGED <<state, stored, files, actor, pipeline, counts, blurred, moved, applied>>

\* The answer goes to the caller, if there still is one.
Answer(c, r) == req' = IF c.of = None THEN req ELSE [req EXCEPT ![c.of] = r]

rpc_fails(c) ==
    /\ Fault /\ Answer(c, Idle)
    /\ UNCHANGED <<actor, blurred>>

\* A set_profile or switch_model command of the channel. A caller that has gone
\* away does not keep it from the agent.
handle_non_prompt_command ==
    /\ actor.pc = "loop" /\ queue # <<>> /\ queue' = Tail(queue)
    /\ LET c == Head(queue) IN
       \/ /\ actor' = [actor EXCEPT !.value[c.option] = c.value]
          /\ Answer(c, [req[c.of] EXCEPT !.pc = "store"]) /\ UNCHANGED <<counts, blurred>>
       \/ rpc_fails(c)
    /\ UNCHANGED <<state, stored, files, pipeline, moved, applied>>

\* set_profile, or update_model and persist_sessions.
store(r) ==
    /\ At(r, "store") /\ End(r)
    /\ stored' = [stored EXCEPT ![OptionOf(r)] = req[r].value]
    /\ UNCHANGED <<state, files, actor, queue, pipeline, counts, blurred, moved, applied>>

\* The agent exits: the session has failed, and who waits for its answer fails.
agent_exits ==
    /\ actor.pc \in {"setup", "profile", "loop"} /\ Fault
    /\ actor' = NoActor /\ queue' = <<>>
    /\ state' = "failed"
    /\ req' = [r \in Req |-> IF req[r].pc = "wait" THEN Idle ELSE req[r]]
    /\ UNCHANGED <<stored, files, pipeline, blurred, moved, applied>>

------------------------------------------------------------------------------
(* rebind_session_with_notice                                                  *)

rebind_start(r) ==
    /\ At(r, "rebind")
    /\ IF state = "idle" THEN state' = "created" /\ Goto(r, "close") /\ UNCHANGED <<stored, applied>>
       ELSE Fail(r) /\ UNCHANGED state
    /\ UNCHANGED <<files, actor, queue, pipeline, counts, blurred, moved>>

\* The transcript, or the workspace, cannot be read.
export_fails(r) ==
    /\ At(r, "close") /\ Fault /\ Fail(r)
    /\ state' = IF state = "created" THEN "idle" ELSE state
    /\ UNCHANGED <<files, actor, queue, pipeline, blurred, moved>>

\* Commands queued ahead of the close are still carried out. An actor that is
\* gone already makes the rebind fail, in state created or failed; one that goes
\* while it closes does not.
close_actor(r) ==
    /\ At(r, "close")
    /\ \/ actor.pc = "none" /\ Fail(r) /\ UNCHANGED <<actor, queue>>
       \/ /\ actor.pc = "none" \/ (actor.pc = "loop" /\ queue = <<>>)
          /\ Spawn(IF req[r].kind = "switch" THEN req[r].value ELSE stored.model)
          /\ Goto(r, "replacing") /\ UNCHANGED <<stored, applied>>
    /\ UNCHANGED <<state, files, pipeline, counts, blurred, moved>>

rebind_finish(r) ==
    /\ At(r, "replacing") /\ actor.pc = "loaded"
    /\ state' = "idle" /\ actor' = [actor EXCEPT !.pc = AfterStart]
    /\ stored' = [stored EXCEPT !.model = actor.model]
    /\ Goto(r, "finished")
    /\ UNCHANGED <<files, queue, pipeline, counts, blurred, moved, applied>>

\* Another prompt may have looked at the pipeline since the session is idle.
Early == \E r \in Req : req[r].pc \in {"prepare", "insert"}

\* A mutant: the pipeline is not reset.
queue_transfer_only(r) ==
    /\ At(r, "finished") /\ Goto(r, "append")
    /\ transfer' = TRUE /\ owed' = ~Early
    /\ UNCHANGED <<state, stored, files, actor, queue, prompts, counts, blurred, moved, applied>>

queue_transfer(r) ==
    /\ At(r, "finished") /\ Goto(r, "append")
    /\ prompts' = 0 /\ transfer' = TRUE /\ owed' = ~Early
    /\ UNCHANGED <<state, stored, files, actor, queue, counts, blurred, moved, applied>>

rebind_ends(r) ==
    /\ At(r, "append") /\ End(r)
    /\ UNCHANGED <<state, stored, files, actor, queue, pipeline, counts, blurred, moved, applied>>

\* The notice cannot be appended, or the sessions not be saved.
append_fails(r) ==
    /\ At(r, "append") /\ Fault /\ Fail(r)
    /\ UNCHANGED <<state, files, actor, queue, pipeline, blurred, moved>>

------------------------------------------------------------------------------
(* A prompt                                                                    *)

begin_prompt(r) ==
    /\ At(r, "begin")
    /\ IF state = "idle" THEN state' = "running" /\ Goto(r, "prepare")
       ELSE End(r) /\ UNCHANGED state
    /\ UNCHANGED <<stored, files, actor, queue, pipeline, counts, blurred, moved, applied>>

\* PromptPipeline::prepare reads the count, and takes the transcript for prompt
\* zero; it writes the count when the context is assembled.
prepare(r) ==
    /\ At(r, "prepare")
    /\ req' = [req EXCEPT ![r].pc = "insert", ![r].n = prompts]
    /\ transfer' = (transfer /\ prompts # 0) /\ owed' = FALSE
    /\ UNCHANGED <<state, stored, files, actor, queue, prompts, counts, blurred, moved, applied>>

prepared(r) ==
    /\ At(r, "insert") /\ Goto(r, "sent")
    /\ prompts' = IF req[r].n = 0 THEN 1 ELSE 2
    /\ UNCHANGED <<state, stored, files, actor, queue, transfer, counts, owed, blurred, moved, applied>>

\* The turn ends, or could not be handed to the actor.
prompt_ends(r) ==
    /\ At(r, "sent") /\ End(r)
    /\ state' = IF actor.pc = "none" THEN "failed" ELSE IF state = "running" THEN "idle" ELSE state
    /\ UNCHANGED <<stored, files, actor, queue, pipeline, counts, blurred, moved, applied>>

------------------------------------------------------------------------------
(* The environment                                                             *)

Change == counts.changes < MaxChanges /\ counts' = [counts EXCEPT !.changes = @ + 1]

\* put_profiles, once it saved the file; the agents that run keep their servers.
replace_config ==
    /\ Change /\ \E v \in Value, servers \in SUBSET Server : allow' = [allow EXCEPT ![v] = servers]
    /\ allow' # allow
    /\ moved' = TRUE
    /\ UNCHANGED <<state, stored, enabled, offers, actor, queue, req, pipeline, blurred, applied>>

\* patch_mcp_server, put_mcp.
patch_mcp_server ==
    /\ Change /\ \E s \in Server :
          enabled' = IF s \in enabled THEN enabled \ {s} ELSE enabled \union {s}
    /\ moved' = TRUE
    /\ UNCHANGED <<state, stored, allow, offers, actor, queue, req, pipeline, blurred, applied>>

\* The future of a request is dropped with the connection of its client, at any
\* of its awaits: a rebind leaves the session created, a transition its profile.
\* The registration of an actor that had started is dropped with it; a command
\* that was sent stays in the channel.
Drop(r) ==
    /\ req[r].pc \in {"live", "starting", "wait", "close", "replacing", "append"} /\ Fault
    /\ End(r)
    /\ actor' = IF req[r].pc \in {"starting", "replacing"} THEN NoActor ELSE actor
    /\ queue' = [n \in DOMAIN queue |->
                    IF queue[n].of = r THEN [queue[n] EXCEPT !.of = None] ELSE queue[n]]
    /\ blurred' = TRUE
    /\ UNCHANGED <<state, stored, files, pipeline, moved, applied>>

\* Sessions and their models are persisted; profiles and transcripts are not.
daemon_restart ==
    /\ Fault
    /\ state' = "dormant" /\ stored' = [stored EXCEPT !.profile = None]
    /\ actor' = NoActor /\ queue' = <<>>
    /\ req' = [r \in Req |-> Idle]
    /\ prompts' = 0 /\ transfer' = FALSE /\ owed' = FALSE
    /\ blurred' = FALSE /\ moved' = FALSE /\ applied' = FALSE
    /\ UNCHANGED files

Next ==
    \/ \E r \in Req, v \in Value :
          set_session_profile(r, v) \/ switch_model(r, v) \/ transition_history(r, v)
    \/ \E r \in Req : \/ send_prompt(r) \/ ensure_live_session(r) \/ register_live_session(r)
                      \/ publish(r) \/ startup_fails(r) \/ send(r) \/ store(r)
                      \/ rebind_start(r) \/ export_fails(r) \/ close_actor(r) \/ rebind_finish(r)
                      \/ queue_transfer(r) \/ rebind_ends(r) \/ append_fails(r)
                      \/ begin_prompt(r) \/ prepare(r) \/ prepared(r) \/ prompt_ends(r) \/ Drop(r)
    \/ load_session_mcp_servers \/ send_initial_config_options \/ handle_non_prompt_command
    \/ agent_exits \/ replace_config \/ patch_mcp_server \/ daemon_restart

Spec == Init /\ [][Next]_vars

------------------------------------------------------------------------------
(* Properties                                                                  *)

Quiet == Setting = {} /\ actor.pc = "loop"

\* The agent works with the profile and the model the daemon shows for it, as
\* long as no two changes of settings, or a change and the start of the agent,
\* overlapped, whatever failed in between (set_session_profile, switch_model,
\* send_initial_config_options), but for a transition that failed after an agent
\* had started with its profile: "applied".
OptionsAgree ==
    Quiet /\ ~blurred /\ ~applied => \A o \in offers : actor.value[o] = Current(o)

\* The servers of the agent are those of the selected profile, until the profile
\* is changed without a new agent or one of the files is: through creation,
\* restoring, and transitions that succeed or fail (transition_history), but for
\* one that fails after an agent started with its profile.
AccessFollowsProfile ==
    Quiet /\ ~blurred /\ ~moved /\ ~applied => actor.attached = Effective(Current("profile"))

\* What the daemon shows of an agent is what the agent works with (transition_history,
\* set_session_profile, switch_model).
AgentMatches == OptionsAgree /\ AccessFollowsProfile

\* The transcript waits for the first prompt to the new agent, unless a prompt
\* was being prepared before it was queued (queue_transfer, prepare).
TranscriptWaits == owed => transfer /\ prompts = 0
=============================================================================
