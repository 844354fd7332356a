----------------------------- MODULE PromptContext -----------------------------
(* What the daemon adds to a prompt (src/acp/context.rs): the entries of the   *)
(* workspace with the first prompt an agent gets, and the files that the       *)
(* editors of a session report (src/api/session_extra.rs).  One session: its   *)
(* prompts from begin_prompt to the agent, reports, cancels, new agents and    *)
(* the end.  The profile and the transcript are the subject of Profiles.       *)
EXTENDS Integers, Sequences, FiniteSets

CONSTANTS
    Prompt,
    Device,
    Report,     \* reports: functions from some of Field to paths
    Outside,    \* the paths that are not relative, or lead out of the workspace
    Limit,      \* open_file_limit
    Embeds,     \* whether the agents take embedded context
    MaxChanges  \* bound on reports, new agents and faults

VARIABLES
    state,      \* of the session
    agent,      \* how many agents it has had; is the last one up, what resets are to come?
    sticky,     \* prompt_cancel
    count,      \* PromptPipeline.counts
    tracker,    \* OpenFilesTracker, of this session
    reporting,  \* what each device's request has still to write
    prompt,
    changes,    \* reports, new agents and faults so far
    blurred,    \* history: a prompt was prepared around the reset
    late        \* history: a request outlived the session's context

vars == <<state, agent, sticky, count, tracker, reporting, prompt, changes, blurred, late>>
session == <<state, agent, sticky>>
history == <<blurred, late>>

Field == <<"open", "edits", "selection">>
\* Lists of paths, but for the selection, which is of one file or none.
NoEditor == [open |-> <<>>, edits |-> <<>>, selection |-> {}]
NoReport == [left |-> <<>>, what |-> <<>>]
NewPrompt == [pc |-> "new", agent |-> 0, n |-> 0, entries |-> "none", open |-> <<>>, edits |-> <<>>,
              selection |-> {}, editor |-> NoEditor, torn |-> FALSE, hit |-> FALSE]
At(p, pc) == prompt[p].pc = pc
Preparing(p) == prompt[p].pc \in {"begun", "gathering", "paths", "edits", "selection", "counting"}
Reading(p) == prompt[p].pc \in {"edits", "selection"}
Goto(p, pc) == prompt' = [prompt EXCEPT ![p].pc = pc]
\* The request is over; of the prompt, its agent and the entries stay known.
Over(x, pc) == [NewPrompt EXCEPT !.pc = pc, !.agent = x.agent, !.entries = x.entries]
End(p, pc) == prompt' = [prompt EXCEPT ![p] = Over(@, pc)]
Pending == {d \in Device : reporting[d].left # <<>>}
Change == changes < MaxChanges /\ changes' = changes + 1

\* What a list has at some of its positions, in order; and its members.
Listed(list, at) ==
    [k \in 1..Cardinality(at) |-> list[CHOOSE n \in at : Cardinality({m \in at : m <= n}) = k]]
Members(list) == {list[n] : n \in DOMAIN list}

Init ==
    /\ state = "idle" /\ agent = [n |-> 1, up |-> TRUE, resets |-> 0] /\ sticky = FALSE
    /\ count = 0 /\ tracker = NoEditor
    /\ reporting = [d \in Device |-> NoReport]
    /\ prompt = [p \in Prompt |-> NewPrompt]
    /\ changes = 0
    /\ blurred = FALSE /\ late = FALSE

------------------------------------------------------------------------------
(* Reports                                                                     *)

\* session_context: the session is looked up once; then each field that was sent is
\* written under a lock of its own.
session_context(d, r) ==
    /\ reporting[d].left = <<>> /\ state \notin {"closed", "cleared"}
    /\ Change
    /\ reporting' = [reporting EXCEPT ![d] =
           [left |-> Listed(Field, {n \in DOMAIN Field : Field[n] \in DOMAIN r}), what |-> r]]
    /\ UNCHANGED <<session, count, tracker, prompt, history>>

Rest(x) == IF Len(x.left) = 1 THEN NoReport ELSE [x EXCEPT !.left = Tail(@)]
with_entry_mut(d) ==
    /\ reporting[d].left # <<>>
    /\ LET f == Head(reporting[d].left) IN tracker' = [tracker EXCEPT ![f] = reporting[d].what[f]]
    /\ reporting' = [reporting EXCEPT ![d] = Rest(@)]
    /\ prompt' = [p \in Prompt |-> [prompt[p] EXCEPT !.torn = @ \/ Reading(p)]]
    /\ UNCHANGED <<session, count, changes, history>>

------------------------------------------------------------------------------
(* Prompts                                                                     *)

\* One at a time, but that a cancelled one may still be under way.
begin_prompt(p) ==
    /\ At(p, "new") /\ state \in {"idle", "interrupted"}
    /\ state' = "running" /\ sticky' = FALSE
    /\ prompt' = [prompt EXCEPT ![p] = [NewPrompt EXCEPT !.pc = "begun", !.agent = agent.n]]
    /\ UNCHANGED <<agent, count, tracker, reporting, changes, history>>

\* The workspace is gone: the request ends, and the session stays Running.
resolve_fails(p) ==
    /\ At(p, "begun") /\ Change /\ End(p, "gone")
    /\ UNCHANGED <<session, count, tracker, reporting, history>>

prepare(p) ==
    /\ At(p, "begun")
    /\ prompt' = [prompt EXCEPT ![p].pc = IF count = 0 THEN "gathering" ELSE "paths", ![p].n = count]
    /\ blurred' = (blurred \/ agent.resets > 0)
    /\ UNCHANGED <<session, count, tracker, reporting, changes, late>>

\* A tree that cannot be listed is left out.
first_prompt_resources(p) ==
    /\ At(p, "gathering")
    /\ \/ /\ prompt' = [prompt EXCEPT ![p].pc = "paths", ![p].entries = "given"]
          /\ UNCHANGED changes
       \/ /\ Change
          /\ prompt' = [prompt EXCEPT ![p].pc = "paths", ![p].entries = "unavailable"]
    /\ UNCHANGED <<session, count, tracker, reporting, history>>

relative_path(f) == f \notin Outside
\* The first of the paths that are in the workspace and not told of yet.
bounded_relative_paths(paths, limit, seen) ==
    LET new == {n \in DOMAIN paths : /\ relative_path(paths[n]) /\ paths[n] \notin seen
                                     /\ \A m \in 1..(n - 1) : paths[m] # paths[n]}
    IN  Listed(paths, {n \in new : Cardinality({m \in new : m <= n}) <= limit})

read_open(p) ==
    /\ At(p, "paths")
    /\ prompt' = [prompt EXCEPT ![p].pc = "edits", ![p].editor = tracker, ![p].torn = Pending # {},
           ![p].open = bounded_relative_paths(tracker.open, Limit, {})]
    /\ UNCHANGED <<session, count, tracker, reporting, changes, history>>

\* Recent edits get what the open files leave of the limit.
read_edits(p) ==
    /\ At(p, "edits")
    /\ LET open == prompt[p].open IN
           prompt' = [prompt EXCEPT ![p].pc = IF Embeds THEN "selection" ELSE "counting",
               ![p].edits = bounded_relative_paths(tracker.edits, Limit - Len(open), Members(open))]
    /\ UNCHANGED <<session, count, tracker, reporting, changes, history>>

selection_resource(p) ==
    /\ At(p, "selection")
    /\ prompt' = [prompt EXCEPT ![p].pc = "counting",
                                ![p].selection = {f \in tracker.selection : relative_path(f)}]
    /\ UNCHANGED <<session, count, tracker, reporting, changes, history>>

counted(p) ==
    /\ At(p, "counting") /\ count' = prompt[p].n + 1
    /\ prompt' = [prompt EXCEPT ![p].pc = "prepared", ![p].n = 0]
    /\ UNCHANGED <<session, tracker, reporting, changes, history>>

\* The actor the prompt was begun with may have gone.
try_send(p) ==
    /\ At(p, "prepared")
    /\ IF prompt[p].agent = agent.n /\ agent.up
       THEN Goto(p, "accepted") /\ UNCHANGED state
       ELSE /\ End(p, "gone")
            /\ state' = IF state \in {"closed", "cleared"} THEN state ELSE "failed"
    /\ UNCHANGED <<agent, sticky, count, tracker, reporting, changes, history>>

Busy == \E q \in Prompt : prompt[q].pc \in {"logged", "arrived"}
\* await_prompt: a prompt that comes during another one is refused; so is one that
\* was cancelled, or that cannot be stored.
await_prompt(p) ==
    /\ At(p, "accepted")
    /\ \/ ~Busy /\ ~sticky /\ Goto(p, "logged") /\ UNCHANGED <<sticky, changes>>
       \/ ~Busy /\ sticky /\ End(p, "lost") /\ sticky' = FALSE /\ UNCHANGED changes
       \/ ~Busy /\ ~sticky /\ Change /\ End(p, "lost") /\ UNCHANGED sticky
       \/ Busy /\ End(p, "lost") /\ UNCHANGED <<sticky, changes>>
    /\ UNCHANGED <<state, agent, count, tracker, reporting, history>>

\* The last look at the cancel and at the commands that came meanwhile, before the
\* agent gets the prompt.
send_request(p) ==
    /\ At(p, "logged") /\ sticky' = FALSE
    /\ \/ (sticky \/ prompt[p].hit) /\ End(p, "lost")
       \/ ~sticky /\ Goto(p, "arrived")
    /\ UNCHANGED <<state, agent, count, tracker, reporting, changes, history>>

\* The result reaches the task that waits for it.
prompt_ends(p) ==
    /\ prompt[p].pc \in {"arrived", "lost"}
    /\ End(p, IF At(p, "arrived") THEN "done" ELSE "gone")
    /\ state' = IF state = "running" THEN "idle" ELSE state
    /\ UNCHANGED <<agent, sticky, count, tracker, reporting, changes, history>>

------------------------------------------------------------------------------
(* Cancel, a new agent and the end                                             *)

InActor(p) == prompt[p].pc \in {"accepted", "logged"}
\* The command Cancel follows the prompts that are with the actor already.
cancel_session ==
    /\ state = "running" /\ state' = "interrupted" /\ sticky' = TRUE
    /\ prompt' = [p \in Prompt |-> [prompt[p] EXCEPT !.hit = InActor(p)]]
    /\ UNCHANGED <<agent, count, tracker, reporting, changes, history>>

\* The commands of an actor that goes are dropped with it.
Dropped == [p \in Prompt |-> IF InActor(p) THEN Over(prompt[p], "lost") ELSE prompt[p]]

rebind_start ==
    /\ state = "idle" /\ Change
    /\ state' = "changing" /\ agent' = [agent EXCEPT !.up = FALSE]
    /\ prompt' = Dropped
    /\ UNCHANGED <<sticky, count, tracker, reporting, history>>
\* The session is Idle again before its count is reset.
rebind_finish ==
    /\ state = "changing" /\ state' = "idle" /\ sticky' = FALSE
    /\ agent' = [n |-> agent.n + 1, up |-> TRUE, resets |-> agent.resets + 1]
    /\ UNCHANGED <<count, tracker, reporting, prompt, changes, history>>

Reset(n) ==
    /\ agent.resets > 0 /\ agent' = [agent EXCEPT !.resets = @ - 1]
    /\ count' = n
    /\ blurred' = (blurred \/ \E p \in Prompt : Preparing(p))
    /\ UNCHANGED <<state, sticky, tracker, reporting, prompt, changes, late>>
\* A mutant: the prompts of the old agent count for the new one.
reset_not == Reset(count)
reset == Reset(0)

\* A close, or the grace period of a cancel is over.
close_session ==
    /\ state \notin {"closed", "cleared"} /\ state' = "closed"
    /\ agent' = [agent EXCEPT !.up = FALSE] /\ prompt' = Dropped
    /\ UNCHANGED <<sticky, count, tracker, reporting, changes, history>>
clear ==
    /\ state = "closed" /\ state' = "cleared"
    /\ count' = 0 /\ tracker' = NoEditor
    /\ late' = (Pending # {} \/ \E p \in Prompt : Preparing(p))
    /\ UNCHANGED <<agent, sticky, reporting, prompt, changes, blurred>>

Next ==
    \/ \E d \in Device, r \in Report : session_context(d, r)
    \/ \E d \in Device : with_entry_mut(d)
    \/ \E p \in Prompt :
           \/ begin_prompt(p) \/ resolve_fails(p) \/ prepare(p) \/ first_prompt_resources(p)
           \/ read_open(p) \/ read_edits(p) \/ selection_resource(p) \/ counted(p)
           \/ try_send(p) \/ await_prompt(p) \/ send_request(p) \/ prompt_ends(p)
    \/ cancel_session \/ rebind_start \/ rebind_finish \/ reset
    \/ close_session \/ clear

Spec == Init /\ [][Next]_vars

------------------------------------------------------------------------------
(* Properties                                                                  *)

Got(p) == prompt[p].pc \in {"arrived", "done"}
Told(p) == prompt[p].open \o prompt[p].edits

\* Editor paths are in the workspace, each is told once and all within one limit; and
\* unless a report came in between, those of the limit are told and the selection is
\* that of the same report.
EditorIsTold(p) ==
    LET e == prompt[p].editor
        Wanted == {f \in Members(e.open \o e.edits) : relative_path(f)}
    IN  /\ Len(Told(p)) <= Limit
        /\ \A m, n \in DOMAIN Told(p) : Told(p)[m] = Told(p)[n] => m = n
        /\ \A f \in Members(Told(p)) \union prompt[p].selection : relative_path(f)
        /\ ~prompt[p].torn =>
               /\ Len(Told(p)) < Limit => Members(Told(p)) = Wanted
               /\ Embeds => prompt[p].selection = {f \in e.selection : relative_path(f)}

\* An agent that got a prompt without the entries of its workspace got them with another
\* one, or lost them with a prompt that did not reach it (prepare, reset).  Excepted
\* is a prompt that was being prepared around the reset.
EntriesAreTold(p) ==
    prompt[p].entries = "none" =>
        \E q \in Prompt \ {p} :
            prompt[q].entries # "none" /\ (Got(q) => prompt[q].agent = prompt[p].agent)

\* What a prompt tells its agent is complete and within its limit, and nothing of a
\* closed session stays, but what a request of it leaves that was still under way.
PromptsTell ==
    /\ \A p \in Prompt : Got(p) => EditorIsTold(p) /\ (blurred \/ EntriesAreTold(p))
    /\ state = "cleared" => late \/ (count = 0 /\ tracker = NoEditor)
=============================================================================
