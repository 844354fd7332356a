---------------------------- MODULE SessionRecords ----------------------------
(* What the daemon keeps of a session besides its agent: name, agent and the   *)
(* agent's own id for the conversation, in the registry                        *)
(* (src/acp/core/registry.rs), as a live entry or a dormant record, and in     *)
(* conversations.json (src/acp/store.rs).  Devices rename the session, prompt  *)
(* it, move it to another agent and close it, all at once; a prompt restores a *)
(* dormant session and names a new one.                                        *)
EXTENDS Naturals, FiniteSets, Sequences

CONSTANTS
    Device,
    Agent,
    Loads,     \* agents that can load a conversation they had before
    Name,      \* names that devices give
    MaxCalls, MaxFaults

NewChat == "New chat"
Derived == "derived"   \* derive_session_name of a prompt
None == [name |-> "none", agent |-> "none", acp |-> 0]

\* A record; "acp" is the agent's own id of the conversation (StoredSession).
Record == [name : Name \union {NewChat, Derived}, agent : Agent, acp : Nat]

VARIABLES
    live,       \* the entry of SessionRegistry::live without its state,
    busy,       \* and whether it is not Idle: a new agent is on its way, or failed
    dormant,    \* the record of SessionRegistry::dormant
    disk,       \* conversations.json
    lock,       \* restore_lock: whether it is held
    call,       \* the request of each device
    counts,
    made,       \* the agents that gave the ids, and the ids they still have
    held,
    chosen,     \* history: the name last confirmed, and those given since
    overtaken,  \* history: a name was given between another party's look and its write
    latest,     \* history: the id of the conversation that was had last,
    unsaved     \* and whether writing it down failed

vars == <<live, busy, dormant, disk, lock, call, counts, made, held, chosen, overtaken,
          latest, unsaved>>
records == <<live, busy, dormant>>
names == <<chosen, overtaken>>
ids == <<made, held, latest, unsaved>>

Idle == [pc |-> "idle"]
Here == live # None \/ dormant # None

\* SessionRegistry::list shows an entry in preference to its record.
Shown == IF live # None THEN live ELSE dormant

Init ==
    /\ \E g \in Agent : made = <<g>> /\ disk = [name |-> NewChat, agent |-> g, acp |-> 1]
    /\ held = {1} /\ latest = 1 /\ unsaved = FALSE
    /\ dormant = disk /\ live = None /\ busy = FALSE /\ lock = FALSE
    /\ call = [d \in Device |-> Idle]
    /\ counts = [calls |-> 0, faults |-> 0]
    /\ chosen = {NewChat} /\ overtaken = FALSE

At(d, pc) == call[d].pc = pc
Goto(d, pc) == call' = [call EXCEPT ![d].pc = pc]
Return(d) == call' = [call EXCEPT ![d] = Idle]
Begin(d, c) ==
    /\ At(d, "idle") /\ counts.calls < MaxCalls
    /\ counts' = [counts EXCEPT !.calls = @ + 1]
    /\ call' = [call EXCEPT ![d] = c]
Fault == counts.faults < MaxFaults /\ counts' = [counts EXCEPT !.faults = @ + 1]

\* A mutant: dormant records are written over live entries.
persist_dormant == disk' = IF dormant # None THEN dormant ELSE live

\* SessionRegistry::persist holds both locks until the file is written.
persist == disk' = Shown

Saved ==
    /\ persist /\ UNCHANGED counts
    /\ unsaved' = (unsaved /\ Here /\ Shown.acp # latest)
NotSaved == Fault /\ UNCHANGED disk

\* The steps between a new id and its persist.
Pending == \E d \in Device : call[d].pc \in {"promote", "save", "restarted"}

------------------------------------------------------------------------------
(* ensure_live_session                                                         *)

ask(d) ==
    /\ \/ Begin(d, [pc |-> "ensure", kind |-> "prompt", rec |-> None])
       \/ \E g \in Agent : Begin(d, [pc |-> "ensure", kind |-> "rebind", to |-> g, rec |-> None])
    /\ UNCHANGED <<records, disk, lock, names, ids>>

Continues(d) == Goto(d, IF call[d].kind = "prompt" THEN "look" ELSE "start")

ensure_live_session(d) ==
    /\ At(d, "ensure")
    /\ \/ live # None /\ Continues(d) /\ UNCHANGED lock
       \/ live = None /\ dormant = None /\ ~lock /\ Return(d) /\ UNCHANGED lock
       \/ /\ live = None /\ dormant # None /\ ~lock /\ lock' = TRUE
          /\ call' = [call EXCEPT ![d].pc = "spawned", ![d].rec = dormant]
    /\ UNCHANGED <<records, disk, counts, names, ids>>

\* resolve_acp_session: the agent loads the conversation, or has forgotten it, and
\* begins another one.
Loadable(rec) == rec.acp # 0 /\ rec.agent \in Loads /\ rec.acp \in held
New(g) == Len(made) + 1
Resolve(rec, g) ==
    \/ /\ Loadable(rec) /\ live' = rec /\ latest' = rec.acp /\ UNCHANGED <<made, held>>
    \/ /\ ~Loadable(rec) /\ live' = [rec EXCEPT !.agent = g, !.acp = New(g)]
       /\ made' = Append(made, g) /\ held' = held \union {New(g)} /\ latest' = New(g)

\* register_live_session: the agent is up, and what was read of the record is
\* published with it, or it is not.
publish(d) ==
    /\ At(d, "spawned")
    /\ \/ /\ Resolve(call[d].rec, call[d].rec.agent) /\ busy' = FALSE
          /\ Goto(d, "promote") /\ UNCHANGED <<counts, lock>>
       \/ /\ Fault /\ lock' = FALSE /\ Return(d)
          /\ UNCHANGED <<live, busy, made, held, latest>>
    /\ UNCHANGED <<dormant, disk, names, unsaved>>
finish_promotion(d) ==
    /\ At(d, "promote") /\ dormant' = None /\ Goto(d, "save")
    /\ UNCHANGED <<live, busy, disk, lock, counts, names, ids>>
promotion_saved(d) ==
    /\ At(d, "save") /\ lock' = FALSE
    /\ \/ Saved /\ Continues(d)
       \/ NotSaved /\ unsaved' = TRUE /\ Return(d)
    /\ UNCHANGED <<records, names, made, held, latest>>

------------------------------------------------------------------------------
(* Names                                                                       *)

\* A new name, and what devices may find from then on.
Named(n) == chosen' = chosen \union {n}
Restoring == \E d \in Device : At(d, "spawned")

rename(d, n) ==
    /\ IF live # None
       THEN /\ live' = [live EXCEPT !.name = n] /\ Named(n)
            /\ Begin(d, [pc |-> "rename_save", name |-> n])
       ELSE /\ Begin(d, [pc |-> "rename", name |-> n]) /\ UNCHANGED <<live, chosen>>
    /\ UNCHANGED <<busy, dormant, disk, lock, overtaken, ids>>
\* The second map; a session that became live in between is "not found".
rename_dormant(d) ==
    /\ At(d, "rename")
    /\ IF dormant # None
       THEN /\ dormant' = [dormant EXCEPT !.name = call[d].name] /\ Named(call[d].name)
            /\ Goto(d, "rename_save")
            /\ overtaken' = (overtaken \/ Restoring \/ live # None)
       ELSE Return(d) /\ UNCHANGED <<dormant, chosen, overtaken>>
    /\ UNCHANGED <<live, busy, disk, lock, counts, ids>>
\* The device is told that its name is durable, or that it may not be.
rename_saved(d) ==
    /\ At(d, "rename_save") /\ Return(d)
    /\ \/ Saved /\ chosen' = IF Here THEN {Shown.name} ELSE chosen
       \/ NotSaved /\ UNCHANGED <<chosen, unsaved>>
    /\ UNCHANGED <<records, lock, overtaken, made, held, latest>>

\* send_prompt: info() and, for a session that is still called so, rename(); this
\* name waits for somebody else's persist.
look(d) ==
    /\ At(d, "look")
    /\ IF live # None /\ live.name = NewChat THEN Goto(d, "auto") ELSE Return(d)
    /\ UNCHANGED <<records, disk, lock, counts, names, ids>>
auto_name(d) ==
    /\ At(d, "auto") /\ Return(d)
    /\ IF live # None
       THEN /\ live' = [live EXCEPT !.name = Derived] /\ Named(Derived)
            /\ overtaken' = (overtaken \/ live.name # NewChat)
       ELSE UNCHANGED <<live, chosen, overtaken>>
    /\ UNCHANGED <<busy, dormant, disk, lock, counts, ids>>

------------------------------------------------------------------------------
(* rebind_session, close_session, the agents and the end of the daemon         *)

rebind_start(d) ==
    /\ At(d, "start")
    /\ IF live # None /\ ~busy THEN busy' = TRUE /\ Goto(d, "finish") ELSE Return(d) /\ UNCHANGED busy
    /\ UNCHANGED <<live, dormant, disk, lock, counts, names, ids>>

\* The new agent begins a conversation of its own; one that does not come up leaves
\* an entry that no rebind takes.
rebind_finish(d) ==
    /\ At(d, "finish")
    /\ \/ /\ live # None /\ Resolve([live EXCEPT !.acp = 0], call[d].to) /\ busy' = FALSE
          /\ Goto(d, "restarted") /\ UNCHANGED counts
       \/ /\ live = None /\ Return(d) /\ UNCHANGED <<live, busy, counts, made, held, latest>>
       \/ Fault /\ Return(d) /\ UNCHANGED <<live, busy, made, held, latest>>
    /\ UNCHANGED <<dormant, disk, lock, names, unsaved>>
\* An event that cannot be appended, and a caller that goes away while it is, leave
\* the file as it was.
rebind_saved(d) ==
    /\ At(d, "restarted") /\ Return(d)
    /\ \/ Saved
       \/ NotSaved /\ unsaved' = TRUE
    /\ UNCHANGED <<records, lock, names, made, held, latest>>

close_session(d) ==
    /\ Here /\ Begin(d, [pc |-> "close_save"])
    /\ live' = None /\ dormant' = None /\ busy' = FALSE
    /\ UNCHANGED <<disk, lock, names, ids>>
close_saved(d) ==
    /\ At(d, "close_save") /\ Return(d)
    /\ \/ Saved
       \/ NotSaved /\ UNCHANGED unsaved
    /\ UNCHANGED <<records, lock, names, made, held, latest>>

\* An agent may forget a conversation.
forget(id) ==
    /\ Fault /\ held' = held \ {id}
    /\ UNCHANGED <<records, disk, lock, call, names, made, latest, unsaved>>

\* load_dormant reads the file.
restart ==
    /\ Fault
    /\ live' = None /\ dormant' = disk /\ busy' = FALSE /\ lock' = FALSE
    /\ call' = [d \in Device |-> Idle]
    /\ unsaved' = (unsaved \/ Pending)
    /\ UNCHANGED <<disk, names, made, held, latest>>

Next ==
    \/ \E d \in Device :
        \/ ask(d) \/ ensure_live_session(d) \/ publish(d) \/ finish_promotion(d) \/ promotion_saved(d)
        \/ \E n \in Name : rename(d, n)
        \/ rename_dormant(d) \/ rename_saved(d) \/ look(d) \/ auto_name(d)
        \/ rebind_start(d) \/ rebind_finish(d) \/ rebind_saved(d)
        \/ close_session(d) \/ close_saved(d)
    \/ \E id \in held : forget(id)
    \/ restart

Spec == Init /\ [][Next]_vars

------------------------------------------------------------------------------
(* Properties                                                                  *)

\* A session is shown and stored under the name that was last confirmed to a device
\* or one given since, whatever restores, moves, failures and restarts come in
\* between, unless a name was given while the session was being restored or while a
\* prompt was naming it (rename, send_prompt).  The id on disk is that of the
\* conversation which was had last, so that a restore goes on with it, unless it
\* could not be written; and every id goes with the agent that gave it.
RecordsAreKept ==
    /\ Here /\ ~overtaken => Shown.name \in chosen
    /\ disk # None /\ ~overtaken => disk.name \in chosen
    /\ disk # None /\ ~Pending /\ ~unsaved => disk.acp = latest
    /\ \A r \in {live, dormant, disk} \ {None} : made[r.acp] = r.agent
=============================================================================
