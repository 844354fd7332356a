----------------------------- MODULE Permissions -----------------------------
(* The permission manager of src/permissions/manager.rs: prompts raised by     *)
(* agents, answers given by paired devices, the durable policies that answers  *)
(* leave behind, and the audit log.  All shared state sits behind one mutex,   *)
(* so one critical section is one action here; everything the code does        *)
(* between two critical sections (send on a oneshot channel, publish, resume)  *)
(* is an action of its own.                                                    *)
EXTENDS Integers, Sequences, FiniteSets

CONSTANTS
    MaxCalls,    \* bound on the calls of `request`
    MaxInFlight, \* bound on the calls in flight at once
    Session,     \* local session ids
    NoSession,   \* the blank session of a global policy key
    Tool,        \* tool titles
    Item,        \* what a key tells apart: a target path or a command text
    NoItem,      \* neither a target nor a command
    ToolCall,    \* ACP tool call ids
    NoCall,      \* an empty tool call id
    Prompt,      \* the requests agents may make
    MaxAudit     \* MAX_AUDIT_ENTRIES

AllowOnce == "allow_once"
AllowSession == "allow_session"
AllowAlways == "allow_always"
AllowToolKind == "allow_tool_kind"
Deny == "deny"
RejectAlways == "reject_always"

Decision == {AllowOnce, AllowSession, AllowAlways, AllowToolKind, Deny, RejectAlways}

\* The decisions an ACP option can stand for (a reject_once is a Deny).
AgentOption == {AllowOnce, AllowAlways, Deny, RejectAlways}

None == "none"        \* no decision yet
TimedOut == "timed_out"  \* the Deny of a timeout task, to be published as well
Error == "error"      \* the call returned an error
Dropped == "dropped"  \* the caller dropped the future

\* `kind` says whether the tool kind is on TOOL_KIND_ALLOWLIST.
PromptType ==
    [session : Session, tool : Tool, item : Item \union {NoItem},
     call : ToolCall \union {NoCall}, agent : SUBSET AgentOption, kind : BOOLEAN]

ASSUME PromptAssumption == Prompt \subseteq PromptType
ASSUME BlankAssumption == /\ NoSession \notin Session
                          /\ NoItem \notin Item
                          /\ NoCall \notin ToolCall
ASSUME BoundAssumption == MaxCalls \in Nat /\ MaxInFlight \in Nat /\ MaxAudit \in Nat \ {0}

\* Request ids: a UUID v4 per call, never reused; numbered here as they are made.
Id == 1..MaxCalls

Key == [session : Session \union {NoSession}, tool : Tool, item : Item \union {NoItem}]

VARIABLES
    call,      \* where the `request` future of an id is
    prompt,    \* the prompt it was called with
    pending,   \* Inner.pending: ids whose oneshot sender is in the map
    taken,     \* a sender removed from the map, with the decision it will send
    sent,      \* the decision in the oneshot channel
    timedOut,  \* ids a PermissionTimedOut event was published for
    policy,    \* Inner.policy: a function from keys to decisions
    denied,    \* Inner.denied
    audit,     \* Inner.audit
    answer,    \* what the call returned
    auto       \* history: the ids resolved from the caches

vars == <<call, prompt, pending, taken, sent, timedOut,
          policy, denied, audit, answer, auto>>

channel == <<pending, taken, sent>>
caches == <<policy, denied, audit>>

NoPrompt == [session |-> NoSession]

Calls == {"idle", "publishing", "waiting", "done"}
InFlight == {i \in Id : call[i] \in {"publishing", "waiting"}}

------------------------------------------------------------------------------
(* Keys and options                                                            *)

\* Mutant: the command is not part of the key.
policy_key_for_no_command(p) == [session |-> p.session, tool |-> p.tool, item |-> NoItem]

policy_key_for(p) == [session |-> p.session, tool |-> p.tool, item |-> p.item]
GlobalKey(p) == [policy_key_for(p) EXCEPT !.session = NoSession]
ToolKindKey(p) == [session |-> NoSession, tool |-> p.tool, item |-> NoItem]

\* What a device may answer: the agent's options and the synthesized tool-kind
\* option, or the manager's defaults when that list is empty.
Options(p) ==
    LET offered == p.agent \union (IF p.kind THEN {AllowToolKind} ELSE {})
    IN  IF offered = {} THEN {AllowOnce, AllowSession, AllowAlways, Deny} ELSE offered

Has(k, ds) == k \in DOMAIN policy /\ policy[k] \in ds

\* The decision the caches hold for a prompt, in the order `request` looks.
Cached(p) ==
    LET key == policy_key_for(p)
        narrow == IF key \in DOMAIN policy THEN key ELSE GlobalKey(p)
    IN  IF Has(narrow, {AllowAlways, AllowSession}) THEN policy[narrow]
        ELSE IF Has(ToolKindKey(p), {AllowToolKind}) THEN AllowToolKind
        ELSE IF {key, GlobalKey(p)} \intersect denied # {} THEN Deny
        ELSE None

\* check_duplicate_pending_locked; an id is fresh, so only the tool call counts.
Duplicate(p) ==
    /\ p.call # NoCall
    /\ \E i \in pending : prompt[i].session = p.session /\ prompt[i].call = p.call

\* push_audit_locked
push_audit(i, d) ==
    LET log == Append(audit, [id |-> i, decision |-> d])
    IN  IF Len(log) > MaxAudit THEN Tail(log) ELSE log

\* The policy map after a decision on p; Deny and AllowOnce leave no trace.
Remember(p, d) ==
    LET k == CASE d = AllowSession -> policy_key_for(p)
               [] d = AllowAlways -> GlobalKey(p)
               [] OTHER -> ToolKindKey(p)
    IN  IF d \in {AllowSession, AllowAlways, AllowToolKind}
        THEN [x \in DOMAIN policy \union {k} |-> IF x = k THEN d ELSE policy[x]]
        ELSE policy

DeniedAfter(p, d) == IF d = RejectAlways THEN denied \union {GlobalKey(p)} ELSE denied

------------------------------------------------------------------------------
Init ==
    /\ call = [i \in Id |-> "idle"]
    /\ prompt = [i \in Id |-> NoPrompt]
    /\ pending = {} /\ timedOut = {}
    /\ taken = [i \in Id |-> None]
    /\ sent = [i \in Id |-> None]
    /\ policy = [k \in {} |-> None]
    /\ denied = {}
    /\ audit = <<>>
    /\ answer = [i \in Id |-> None]
    /\ auto = {}

Enter(i, p) ==
    /\ call[i] = "idle"
    /\ \A j \in 1..(i - 1) : call[j] # "idle"
    /\ Cardinality(InFlight) < MaxInFlight
    /\ prompt' = [prompt EXCEPT ![i] = p]

Return(i, r) == /\ call' = [call EXCEPT ![i] = "done"]
                /\ answer' = [answer EXCEPT ![i] = r]

\* request: a cached decision resolves the call inside the first critical section.
AutoResolve(i, p) ==
    /\ Enter(i, p)
    /\ Cached(p) # None
    /\ Return(i, Cached(p))
    /\ audit' = push_audit(i, Cached(p))
    /\ auto' = auto \union {i}
    /\ UNCHANGED <<channel, timedOut, policy, denied>>

\* request: a second prompt for a tool call that still has one is an error.
RefuseDuplicate(i, p) ==
    /\ Enter(i, p)
    /\ Cached(p) = None
    /\ Duplicate(p)
    /\ Return(i, Error)
    /\ UNCHANGED <<channel, timedOut, caches, auto>>

\* request: the sender goes into the map, then the prompt is broadcast.
Register(i, p) ==
    /\ Enter(i, p)
    /\ Cached(p) = None
    /\ ~Duplicate(p)
    /\ call' = [call EXCEPT ![i] = "publishing"]
    /\ pending' = pending \union {i}
    /\ UNCHANGED <<taken, sent, timedOut, caches, answer, auto>>

\* request: the broadcast returned; the timeout task starts and the call waits.
spawn_permission_timeout(i) ==
    /\ call[i] = "publishing"
    /\ call' = [call EXCEPT ![i] = "waiting"]
    /\ UNCHANGED <<prompt, channel, timedOut, caches, answer, auto>>

\* respond: a valid decision removes the entry under the lock.  Unknown ids and
\* decisions that were not offered are errors that change nothing.
respond(i, d) ==
    /\ i \in pending
    /\ d \in Options(prompt[i])
    /\ pending' = pending \ {i}
    /\ taken' = [taken EXCEPT ![i] = d]
    /\ UNCHANGED <<call, prompt, sent, timedOut, caches, answer, auto>>

\* Mutant: the timeout task reports without having won the sender.
TimerFires_always(i) ==
    /\ call[i] = "waiting"
    /\ pending' = pending \ {i}
    /\ taken' = [taken EXCEPT ![i] = TimedOut]
    /\ UNCHANGED <<call, prompt, sent, timedOut, caches, answer, auto>>

\* Mutant: the timeout task removes the entry and drops the sender unused.
TimerFires_silent(i) ==
    /\ call[i] = "waiting"
    /\ i \in pending
    /\ pending' = pending \ {i}
    /\ UNCHANGED <<call, prompt, taken, sent, timedOut, caches, answer, auto>>

\* The timeout task, asleep since the call began to wait, wakes up and removes
\* the entry.  If the entry is gone it does nothing: an id is never reused.
TimerFires(i) ==
    /\ call[i] = "waiting"
    /\ i \in pending
    /\ pending' = pending \ {i}
    /\ taken' = [taken EXCEPT ![i] = TimedOut]
    /\ UNCHANGED <<call, prompt, sent, timedOut, caches, answer, auto>>

\* The holder of a removed sender sends, outside the lock; nobody hears it when
\* the future was dropped meanwhile.  The timeout task sends Deny and publishes
\* PermissionTimedOut.
Send(i) ==
    /\ taken[i] # None
    /\ taken' = [taken EXCEPT ![i] = None]
    /\ sent' = IF i \notin InFlight THEN sent
               ELSE [sent EXCEPT ![i] = IF taken[i] = TimedOut THEN Deny ELSE taken[i]]
    /\ timedOut' = IF taken[i] = TimedOut THEN timedOut \union {i} ELSE timedOut
    /\ UNCHANGED <<call, prompt, pending, caches, answer, auto>>

\* Mutant: the entries go and their senders are dropped unused.
DenyPending_silent(S) == pending' = pending \ S /\ sent' = sent

\* Remove the entries of a set and send Deny to each, all under the lock.
DenyPending(S) ==
    /\ pending' = pending \ S
    /\ sent' = [i \in Id |-> IF i \in S THEN Deny ELSE sent[i]]

\* The sweeper's tick, and get_pending before it lists the prompts.  S are the
\* entries older than stale_timeout; the model has no clock, so any may be.
cleanup_stale(S) ==
    /\ DenyPending(S)
    /\ UNCHANGED <<call, prompt, taken, timedOut, caches, answer, auto>>

\* clear_session: the session's policies go and its prompts are denied.
clear_session(s) ==
    /\ policy' = [k \in {x \in DOMAIN policy : x.session # s} |-> policy[k]]
    /\ denied' = {k \in denied : k.session # s}
    /\ DenyPending({i \in pending : prompt[i].session = s})
    /\ UNCHANGED <<call, prompt, taken, timedOut, audit, answer, auto>>

\* Mutant: the call does not wait for the decision.
Resume_early(i) ==
    /\ call[i] = "waiting"
    /\ Return(i, sent[i])
    /\ sent' = [sent EXCEPT ![i] = None]
    /\ audit' = push_audit(i, sent[i])
    /\ policy' = Remember(prompt[i], sent[i])
    /\ denied' = DeniedAfter(prompt[i], sent[i])
    /\ UNCHANGED <<prompt, pending, taken, timedOut, auto>>

\* request: the decision arrived; the second critical section records it.
Resume(i) ==
    /\ call[i] = "waiting"
    /\ sent[i] # None
    /\ Return(i, sent[i])
    /\ sent' = [sent EXCEPT ![i] = None]
    /\ audit' = push_audit(i, sent[i])
    /\ policy' = Remember(prompt[i], sent[i])
    /\ denied' = DeniedAfter(prompt[i], sent[i])
    /\ UNCHANGED <<prompt, pending, taken, timedOut, auto>>

\* The caller drops the future at one of its await points: PendingCleanup.
Drop(i) ==
    /\ i \in InFlight
    /\ Return(i, Dropped)
    /\ pending' = pending \ {i}
    /\ sent' = [sent EXCEPT ![i] = None]
    /\ UNCHANGED <<prompt, taken, timedOut, caches, auto>>

Next ==
    \/ \E i \in Id, p \in Prompt :
          AutoResolve(i, p) \/ RefuseDuplicate(i, p) \/ Register(i, p)
    \/ \E i \in Id :
          \/ spawn_permission_timeout(i) \/ TimerFires(i) \/ Send(i)
          \/ Resume(i) \/ Drop(i)
    \/ \E i \in Id, d \in Decision : respond(i, d)
    \/ \E S \in SUBSET pending \ {{}} : cleanup_stale(S)
    \/ \E s \in Session : clear_session(s)

\* The runtime keeps polling ready tasks and firing elapsed timers, and the
\* broadcast returns.  Nothing is assumed of devices, agents or the sweeper: the
\* per-prompt timer alone has to be enough.
Progress == \E i \in Id : spawn_permission_timeout(i) \/ TimerFires(i) \/ Send(i) \/ Resume(i)

Spec == Init /\ [][Next]_vars
FairSpec == Spec /\ WF_vars(Progress)

------------------------------------------------------------------------------
(* Properties                                                                  *)

Returned == {i \in Id : answer[i] \in Decision}

TypeOK ==
    /\ call \in [Id -> Calls]
    /\ prompt \in [Id -> Prompt \union {NoPrompt}]
    /\ pending \in SUBSET Id
    /\ taken \in [Id -> Decision \union {None, TimedOut}]
    /\ sent \in [Id -> Decision \union {None}]
    /\ timedOut \in SUBSET Id
    /\ DOMAIN policy \in SUBSET Key
    /\ policy \in [DOMAIN policy -> Decision]
    /\ denied \in SUBSET Key
    /\ audit \in Seq([id : Id, decision : Decision])
    /\ answer \in [Id -> Decision \union {None, Error, Dropped}]
    /\ auto \in SUBSET Id

(* manager.rs:17-20 and 509-514: every path that removes a sender sends before *)
(* dropping it, and only one path gets the sender, so a waiting call has its   *)
(* sender in exactly one place: the map, the hands of a responder, or spent.   *)
OneSenderPerWaiter ==
    \A i \in Id :
       LET inMap == i \in pending
           held == taken[i] # None
           spent == sent[i] # None
       IN  /\ ~(inMap /\ held) /\ ~(inMap /\ spent) /\ ~(held /\ spent)
           /\ i \in InFlight => inMap \/ held \/ spent
           /\ inMap => i \in InFlight

(* manager.rs:276-281: a session never has two pending prompts for one tool    *)
(* call, whatever registrations, answers and drops interleave.                 *)
OnePromptPerToolCall ==
    \A i, j \in pending :
       (/\ i # j
        /\ prompt[i].session = prompt[j].session
        /\ prompt[i].call = prompt[j].call)
       => prompt[i].call = NoCall

(* A decision taken from the caches repeats one a device gave for the same     *)
(* thing: the same session, tool and item, the same tool and item, or the same *)
(* tool, as wide as the answer was and no wider (manager.rs:67-76, 434-442).   *)
CachedDecisionsWereGiven ==
    \A i \in auto : \E j \in Returned \ auto :
       LET p == prompt[i]
           q == prompt[j]
           sameThing == p.tool = q.tool /\ p.item = q.item
       IN  \/ /\ answer[i] = AllowSession /\ answer[j] = AllowSession
              /\ p.session = q.session /\ sameThing
           \/ answer[i] = AllowAlways /\ answer[j] = AllowAlways /\ sameThing
           \/ answer[i] = AllowToolKind /\ answer[j] = AllowToolKind /\ p.tool = q.tool
           \/ answer[i] = Deny /\ answer[j] = RejectAlways /\ sameThing

(* A call that was prompted returns something its prompt offered, or the Deny  *)
(* of a timeout, a sweep or a closing session (respond, manager.rs:554-557).   *)
AnswerWasOffered ==
    \A i \in Returned \ auto : answer[i] \in Options(prompt[i]) \union {Deny}

(* A prompt reported as timed out was denied: no device's answer won the race  *)
(* against the timer (manager.rs:254-264).                                     *)
TimeoutMeansDenied ==
    \A i \in timedOut : answer[i] \in {None, Deny, Dropped} /\ sent[i] \in {None, Deny}

(* manager.rs:17-20, 509-549: the manager implements Verdicts.  The verdict of *)
(* a call is given when its sender leaves the map, or with the Deny of a sweep *)
(* or a closing session; from there to the return it travels through the hands *)
(* of the responder and the channel and is never replaced.                     *)
OpenOrDone(i) == CASE call[i] = "idle" -> "idle"
                   [] call[i] = "done" -> "closed"
                   [] OTHER -> "open"
Offered(i) == IF prompt[i] = NoPrompt THEN {} ELSE Options(prompt[i]) \union {Deny}
Given(i) == IF answer[i] # None THEN answer[i]
            ELSE IF sent[i] # None THEN sent[i]
            ELSE IF taken[i] = TimedOut THEN Deny ELSE taken[i]

Promise == INSTANCE Verdicts WITH
               Question <- Id, Verdict <- Decision, Refusal <- {Error, Dropped},
               stage <- [i \in Id |-> OpenOrDone(i)],
               offered <- [i \in Id |-> Offered(i)],
               verdict <- [i \in Id |-> Given(i)]
VerdictIsFinal == Promise!Spec

(* An agent's request never hangs: with no device, no sweeper and no close,    *)
(* the per-prompt timer alone resolves it (manager.rs:168-172).                *)
EveryPromptResolves == \A i \in Id : i \in InFlight ~> i \notin InFlight

=============================================================================
