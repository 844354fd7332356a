---------------------------- MODULE ProfilesProofs ----------------------------
(* Theorems about Profiles for any number of requests, values, servers and     *)
(* faults, proved with TLAPS.  The inductive invariant follows a change of a   *)
(* setting from the request to the agent and the daemon's own record: at each  *)
(* step it says which of the two is ahead, and what a failure would undo.      *)
EXTENDS Profiles, SequenceTheorems, TLAPS

ActorPc == {"none", "spawned", "loaded", "setup", "profile", "loop"}

Pc == {"free", "live", "starting", "send", "wait", "store", "rebind", "close", "replacing",
       "finished", "append", "begin", "prepare", "insert", "sent"}
SettingKind == {"set", "switch", "transition"}
Request == [kind : {None, "prompt"} \union SettingKind, pc : Pc, value : Value \union {None},
            previous : Value \union {None}, n : 0..2]
Commands == [of : Req \union {None}, option : Option, value : Value]

Types ==
    /\ stored \in [profile : Value \union {None}, model : Value]
    /\ allow \in [Value -> SUBSET Server] /\ enabled \subseteq Server /\ offers \subseteq Option
    /\ actor \in [pc : ActorPc, attached : SUBSET Server,
                  value : [Option -> Value \union {None}], model : Value \union {None}]
    /\ actor.pc # "none" => actor.model \in Value
    /\ req \in [Req -> Request]
    /\ prompts \in 0..2
    /\ queue \in Seq(Commands)

\* The steps each kind of request goes through.
StepOfKind(q) ==
    /\ q.kind = None => q.pc = "free"
    /\ q.kind = "prompt" => q.pc \in {"live", "starting", "begin", "prepare", "insert", "sent"}
    /\ q.kind = "set" => q.pc \in {"send", "wait", "store"}
    /\ q.kind = "switch" => q.pc \in {"live", "starting", "send", "wait", "store", "rebind", "close",
                                      "replacing", "finished", "append"}
    /\ q.kind = "transition" => q.pc \in {"live", "starting", "rebind", "close", "replacing",
                                          "finished", "append"}

\* A request is at a step of its kind, with the values that kind has.
RequestsOK ==
    \A r \in Req : /\ StepOfKind(req[r])
                   /\ req[r].kind \in SettingKind => req[r].value \in Value
                   /\ req[r].kind = "transition" => req[r].n \in {0, 1} /\ req[r].previous \in Value

\* A command that somebody waits for is the command of that request, and the only one.
QueueOK ==
    /\ \A i \in 1..Len(queue) : queue[i].of # None =>
          At(queue[i].of, "wait") /\ queue[i] = Command(queue[i].of)
    /\ \A i, j \in 1..Len(queue) : queue[i].of = queue[j].of /\ queue[i].of # None => i = j

\* Whoever waits for an agent to start is alone, and a dormant session has none that started.
StartOK ==
    /\ \A r \in Req : req[r].pc \in {"starting", "replacing"} => actor.pc \in {"spawned", "loaded"}
    /\ \A r, q \in Req : req[r].pc \in {"starting", "replacing"}
                         /\ req[q].pc \in {"starting", "replacing"} => r = q
    /\ state = "dormant" => actor.pc \in {"none", "spawned", "loaded"}

Sound == Types /\ RequestsOK /\ QueueOK /\ StartOK

Switching == \E r \in Req : At(r, "store") /\ req[r].kind = "switch"
Storing == \E r \in Req : At(r, "store") /\ req[r].kind = "set"
\* Transitions whose profile no agent has started with.
Untried == {r \in Req : req[r].kind = "transition" /\ req[r].n = 0}

OneSetting == /\ \A r, q \in Setting : r = q
              /\ Starting => \A r \in Req : req[r].kind # "set"

StoreOK == \A r \in Req : At(r, "store") =>
    /\ actor.pc \in {"none", "loop"}
    /\ actor.pc = "loop" /\ OptionOf(r) \in offers => actor.value[OptionOf(r)] = req[r].value

ModelOK ==
    /\ (\E r \in Req : At(r, "starting")) => actor.model = stored.model
    /\ actor.pc = "setup" => actor.model = stored.model
    /\ actor.pc \in {"profile", "loop"} /\ "model" \in offers =>
          actor.value["model"] = stored.model \/ Switching

TriedOK == \A r \in Untried : /\ actor.pc \notin {"loaded", "setup", "profile"}
                              /\ req[r].pc \notin {"finished", "append"}

ProfileOK == ~applied /\ actor.pc = "loop" /\ "profile" \in offers =>
    /\ \A r \in Untried : actor.value["profile"] = req[r].previous
    /\ Untried = {} => actor.value["profile"] = Current("profile") \/ Storing

AccessOK ==
    /\ ~moved /\ ~applied /\ actor.pc \in {"loaded", "setup", "profile", "loop"} =>
          /\ \A r \in Untried : actor.attached = Effective(req[r].previous)
          /\ Untried = {} => actor.attached = Effective(Current("profile"))
    /\ ~moved => \A r \in Req : req[r].kind = "set" => req[r].value = Current("profile")

\* No caller of a command has gone away.
CallersStay == \A i \in 1..Len(queue) : queue[i].of # None

Agreed == OneSetting /\ StoreOK /\ ModelOK /\ TriedOK /\ ProfileOK /\ AccessOK

TransferOK == owed => transfer /\ prompts = 0 /\ \A r \in Req : ~At(r, "insert")

Inv == Sound /\ (~blurred => Agreed /\ CallersStay) /\ TransferOK

------------------------------------------------------------------------------
(* What a step makes of a request                                              *)

LEMMA NoneIsNew == None \notin Value /\ None \notin Req /\ Default \in Value
BY DefaultAssumption

LEMMA GotoMoves ==
    ASSUME Types, NEW r \in Req, NEW pc \in Pc, Goto(r, pc)
    PROVE  /\ req' \in [Req -> Request]
           /\ req'[r] = [req[r] EXCEPT !.pc = pc] /\ req'[r].pc = pc
           /\ req'[r].kind = req[r].kind /\ req'[r].value = req[r].value
           /\ req'[r].previous = req[r].previous /\ req'[r].n = req[r].n
           /\ \A q \in Req \ {r} : req'[q] = req[q]
BY DEF Types, Goto, Request

LEMMA IdleIs ==
    /\ Idle \in Request /\ Idle.kind = None /\ Idle.pc = "free" /\ Idle.n = 0
    /\ StepOfKind(Idle)
BY DEF Idle, Request, Pc, StepOfKind, None

LEMMA EndFrees ==
    ASSUME Types, NEW r \in Req, End(r)
    PROVE  /\ req' \in [Req -> Request]
           /\ req'[r] = Idle /\ \A q \in Req \ {r} : req'[q] = req[q]
BY IdleIs DEF Types, End

LEMMA BeginMakes ==
    ASSUME Types, NEW r \in Req, NEW kind \in {"prompt"} \union SettingKind,
           NEW v \in Value \union {None}, NEW pc \in Pc, Begin(r, kind, v, pc)
    PROVE  /\ req[r].pc = "free" /\ req' \in [Req -> Request]
           /\ req'[r].kind = kind /\ req'[r].pc = pc /\ req'[r].value = v
           /\ req'[r].previous = Current("profile") /\ req'[r].previous \in Value /\ req'[r].n = 0
           /\ \A q \in Req \ {r} : req'[q] = req[q]
           /\ ~blurred' => ~blurred
           /\ ~blurred' /\ kind # "prompt" => Setting = {} /\ ~Starting
<1>1. Current("profile") \in Value
  BY NoneIsNew DEF Types, Current
<1> DEFINE new == [kind |-> kind, pc |-> pc, value |-> v, previous |-> Current("profile"), n |-> 0]
<1>2. req[r].pc = "free" /\ req' = [req EXCEPT ![r] = new]
  BY DEF Begin, At
<1>4. new \in Request
  BY <1>1 DEF Request
<1>5. req' \in [Req -> Request] /\ \A q \in Req \ {r} : req'[q] = req[q]
  BY <1>2, <1>4 DEF Types
<1>6. req'[r] = new
  BY <1>2 DEF Types
<1>7. /\ ~blurred' => ~blurred
      /\ ~blurred' /\ kind # "prompt" => Setting = {} /\ ~Starting
  BY DEF Begin
<1> QED
  BY <1>1, <1>2, <1>5, <1>6, <1>7

LEMMA PrepareMoves ==
    ASSUME Types, NEW r \in Req, prepare(r)
    PROVE  /\ req' \in [Req -> Request]
           /\ req'[r].pc = "insert" /\ req'[r].kind = req[r].kind /\ req'[r].value = req[r].value
           /\ req'[r].previous = req[r].previous /\ \A q \in Req \ {r} : req'[q] = req[q]
<1>1. req' = [req EXCEPT ![r] = [req[r] EXCEPT !.pc = "insert", !.n = prompts]]
  BY DEF prepare, Types
<1>2. /\ [req[r] EXCEPT !.pc = "insert", !.n = prompts] \in Request
      /\ [req[r] EXCEPT !.pc = "insert", !.n = prompts].pc = "insert"
      /\ [req[r] EXCEPT !.pc = "insert", !.n = prompts].kind = req[r].kind
      /\ [req[r] EXCEPT !.pc = "insert", !.n = prompts].value = req[r].value
      /\ [req[r] EXCEPT !.pc = "insert", !.n = prompts].previous = req[r].previous
  BY DEF Types, Request, Pc
<1> QED
  BY <1>1, <1>2 DEF Types

\* The first command of the channel is the one that its caller, if it is there, waits for.
LEMMA HeadWaits ==
    ASSUME Types, QueueOK, queue # <<>>
    PROVE  /\ Head(queue) = queue[1] /\ 1 \in 1..Len(queue)
           /\ Head(queue) \in Commands /\ Head(queue).of \in Req \union {None}
           /\ Head(queue).of # None => /\ At(Head(queue).of, "wait")
                                       /\ Head(queue) = Command(Head(queue).of)
<1>1. /\ Head(queue) \in Commands /\ Head(queue) = queue[1] /\ Len(queue) \in Nat \ {0}
  BY HeadTailProperties DEF Types
<1>2. Head(queue).of \in Req \union {None} /\ 1 \in 1..Len(queue)
  BY <1>1 DEF Commands
<1> QED
  BY <1>1, <1>2 DEF QueueOK

\* An answer moves the caller that waits for it, if there is one.
LEMMA AnswerMoves ==
    ASSUME Types, QueueOK, NEW x, queue # <<>>, Answer(Head(queue), x),
           Head(queue).of # None => x \in Request
    PROVE  /\ Head(queue) \in Commands
           /\ Head(queue).of = None => req' = req
           /\ Head(queue).of # None =>
                 /\ Head(queue).of \in Req /\ At(Head(queue).of, "wait")
                 /\ Head(queue) = Command(Head(queue).of)
                 /\ req' \in [Req -> Request] /\ req'[Head(queue).of] = x
                 /\ \A q \in Req \ {Head(queue).of} : req'[q] = req[q]
BY HeadWaits DEF Answer, Types

------------------------------------------------------------------------------
(* The requests are well-formed                                                *)

ReqOK == req \in [Req -> Request] /\ RequestsOK

LEMMA MoveKeeps ==
    ASSUME Types, RequestsOK, NEW r \in Req, NEW pc \in Pc, Goto(r, pc),
           StepOfKind([kind |-> req[r].kind, pc |-> pc])
    PROVE  ReqOK'
<1>1. /\ req' \in [Req -> Request] /\ req'[r].pc = pc /\ req'[r].kind = req[r].kind
      /\ req'[r].value = req[r].value /\ req'[r].previous = req[r].previous
      /\ req'[r].n = req[r].n /\ \A q \in Req \ {r} : req'[q] = req[q]
  BY GotoMoves
<1>2. StepOfKind(req'[r])
  BY <1>1 DEF StepOfKind
<1> QED
  BY <1>1, <1>2 DEF ReqOK, RequestsOK

LEMMA EndKeeps ==
    ASSUME Types, RequestsOK, NEW r \in Req, End(r)
    PROVE  ReqOK'
BY EndFrees, IdleIs DEF ReqOK, RequestsOK, SettingKind, None

LEMMA BeginKeeps ==
    ASSUME Types, RequestsOK, NEW r \in Req, NEW kind \in {"prompt"} \union SettingKind,
           NEW v \in Value \union {None}, NEW pc \in Pc, Begin(r, kind, v, pc),
           StepOfKind([kind |-> kind, pc |-> pc]), kind # "prompt" => v \in Value
    PROVE  ReqOK'
<1>1. /\ req' \in [Req -> Request]
      /\ req'[r].kind = kind /\ req'[r].pc = pc /\ req'[r].value = v
      /\ req'[r].previous \in Value /\ req'[r].n = 0
      /\ \A q \in Req \ {r} : req'[q] = req[q]
  BY BeginMakes
<1>2. StepOfKind(req'[r])
  BY <1>1 DEF StepOfKind
<1> QED
  BY <1>1, <1>2 DEF ReqOK, RequestsOK, SettingKind

LEMMA ReqStep ==
    ASSUME Sound, [Next]_vars
    PROVE  ReqOK'
<1> USE DEF Sound
<1>1. ASSUME NEW r \in Req, NEW v \in Value,
             set_session_profile(r, v) \/ switch_model(r, v) \/ transition_history(r, v)
      PROVE  ReqOK'
  <2>1. \/ Begin(r, "set", v, "send") \/ Begin(r, "set", v, "store")
        \/ Begin(r, "switch", v, "live") \/ Begin(r, "transition", v, "live")
    BY <1>1 DEF set_session_profile, switch_model, transition_history
  <2> QED
    BY <2>1, BeginKeeps DEF StepOfKind, SettingKind, Pc, None
<1>2. ASSUME NEW r \in Req, send_prompt(r) PROVE ReqOK'
  <2>1. Begin(r, "prompt", None, "live")
    BY <1>2 DEF send_prompt
  <2> QED
    BY <2>1, BeginKeeps DEF StepOfKind, SettingKind, Pc, None
<1>3. ASSUME NEW r \in Req,
             \/ startup_fails(r) \/ store(r) \/ export_fails(r) \/ rebind_ends(r)
             \/ append_fails(r) \/ prompt_ends(r) \/ Drop(r)
      PROVE  ReqOK'
  <2>1. End(r)
    BY <1>3 DEF startup_fails, store, export_fails, rebind_ends, append_fails, prompt_ends, Drop, Fail
  <2> QED
    BY <2>1, EndKeeps
<1>4. ASSUME NEW r \in Req,
             \/ ensure_live_session(r) \/ register_live_session(r) \/ publish(r) \/ send(r)
             \/ rebind_start(r) \/ close_actor(r) \/ rebind_finish(r) \/ queue_transfer(r)
             \/ begin_prompt(r) \/ prepared(r)
      PROVE  ReqOK'
  <2>1. CASE End(r)
    BY <2>1, EndKeeps
  <2>2. CASE ~End(r)
    <3>1. /\ StepOfKind(req[r]) /\ req[r].kind \in {None, "prompt", "set", "switch", "transition"}
      BY DEF RequestsOK, Types, Request, SettingKind
    <3>2. \E pc \in Pc : Goto(r, pc) /\ StepOfKind([kind |-> req[r].kind, pc |-> pc])
      BY <1>4, <2>2, <3>1
         DEF ensure_live_session, NextPc, register_live_session, publish, send, rebind_start, Fail,
             close_actor, rebind_finish, queue_transfer, begin_prompt, prepared, StepOfKind, Pc, At, None
    <3> QED
      BY <3>2, MoveKeeps
  <2> QED
    BY <2>1, <2>2
<1>5. ASSUME NEW r \in Req, prepare(r) PROVE ReqOK'
  <2>1. /\ req' \in [Req -> Request]
        /\ req'[r].pc = "insert" /\ req'[r].kind = req[r].kind /\ req'[r].value = req[r].value
        /\ \A q \in Req \ {r} : req'[q] = req[q]
    BY <1>5, PrepareMoves
  <2>2. req[r].kind = "prompt"
    BY <1>5 DEF prepare, At, RequestsOK, StepOfKind, Types, Request, SettingKind, None
  <2>3. StepOfKind(req'[r])
    BY <2>1, <2>2 DEF StepOfKind, None
  <2> QED
    BY <2>1, <2>2, <2>3 DEF ReqOK, RequestsOK, SettingKind
<1>6. ASSUME load_session_mcp_servers PROVE ReqOK'
  <2>1. req' = [r \in Req |-> IF req[r].kind = "transition" THEN [req[r] EXCEPT !.n = 1] ELSE req[r]]
    BY <1>6 DEF load_session_mcp_servers
  <2>2. \A r \in Req : /\ req'[r] \in Request /\ req'[r].kind = req[r].kind /\ req'[r].pc = req[r].pc
                       /\ req'[r].value = req[r].value /\ req'[r].previous = req[r].previous
                       /\ req[r].kind = "transition" => req'[r].n = 1
    BY <2>1 DEF Types, Request
  <2>3. req' \in [Req -> Request]
    BY <2>1, <2>2
  <2> QED
    BY <2>2, <2>3 DEF ReqOK, RequestsOK, StepOfKind
<1>7. ASSUME handle_non_prompt_command PROVE ReqOK'
  <2> DEFINE c == Head(queue)
  <2>1. queue # <<>> /\ (Answer(c, [req[c.of] EXCEPT !.pc = "store"]) \/ Answer(c, Idle))
    BY <1>7 DEF handle_non_prompt_command, rpc_fails
  <2>2. /\ c \in Commands
        /\ c.of # None => /\ c.of \in Req /\ At(c.of, "wait") /\ [req[c.of] EXCEPT !.pc = "store"] \in Request
    <3>1. c \in Commands /\ (c.of # None => c.of \in Req /\ At(c.of, "wait"))
      BY <2>1, HeadWaits
    <3>2. \A q \in Req : [req[q] EXCEPT !.pc = "store"] \in Request
      BY DEF Types, Request, Pc
    <3> HIDE DEF c
    <3> QED
      BY <3>1, <3>2
  <2>3. CASE c.of = None
    <3>1. req' = req
      BY <2>1, <2>3 DEF Answer
    <3> QED
      BY <3>1 DEF ReqOK, RequestsOK, Types
  <2>4. ASSUME c.of # None, Answer(c, Idle) PROVE ReqOK'
    BY <2>1, <2>2, <2>4, AnswerMoves, IdleIs DEF ReqOK, RequestsOK, SettingKind, None
  <2>5. ASSUME c.of # None, Answer(c, [req[c.of] EXCEPT !.pc = "store"]) PROVE ReqOK'
    <3>1. /\ req' \in [Req -> Request] /\ req'[c.of] = [req[c.of] EXCEPT !.pc = "store"]
          /\ \A q \in Req \ {c.of} : req'[q] = req[q]
      BY <2>1, <2>2, <2>5, AnswerMoves
    <3>2. /\ c.of \in Req /\ req[c.of].pc = "wait" /\ req[c.of] \in Request
      BY <2>2, <2>5 DEF At, Types
    <3>3. /\ req'[c.of].pc = "store" /\ req'[c.of].kind = req[c.of].kind
          /\ req'[c.of].value = req[c.of].value /\ req'[c.of].previous = req[c.of].previous
          /\ req'[c.of].n = req[c.of].n
      BY <3>1, <3>2 DEF Request
    <3>4. StepOfKind(req'[c.of])
      BY <3>2, <3>3 DEF RequestsOK, StepOfKind
    <3> QED
      BY <3>1, <3>2, <3>3, <3>4 DEF ReqOK, RequestsOK
  <2> QED
    BY <2>1, <2>3, <2>4, <2>5
<1>8. ASSUME agent_exits \/ daemon_restart PROVE ReqOK'
  <2>1. \A r \in Req : req'[r] = req[r] \/ req'[r] = Idle
    BY <1>8 DEF agent_exits, daemon_restart
  <2>2. req' \in [Req -> Request]
    BY <1>8, IdleIs DEF agent_exits, daemon_restart, Types
  <2> QED
    BY <2>1, <2>2, IdleIs DEF ReqOK, RequestsOK, SettingKind, None
<1>9. ASSUME send_initial_config_options \/ replace_config \/ patch_mcp_server \/ UNCHANGED vars
      PROVE  ReqOK'
  <2>1. req' = req
    BY <1>9 DEF send_initial_config_options, Push, replace_config, patch_mcp_server, vars
  <2> QED
    BY <2>1 DEF ReqOK, RequestsOK, Types
<1> QED
  BY <1>1, <1>2, <1>3, <1>4, <1>5, <1>6, <1>7, <1>8, <1>9 DEF Next

------------------------------------------------------------------------------
(* What the daemon and its agent hold is well-formed                           *)

StoredOK == stored \in [profile : Value \union {None}, model : Value]

LEMMA FailStores ==
    ASSUME Types, RequestsOK, NEW r \in Req, Fail(r)
    PROVE  StoredOK'
BY DEF Fail, Types, RequestsOK, StoredOK

LEMMA StoredStep ==
    ASSUME Sound, [Next]_vars
    PROVE  StoredOK'
<1> USE DEF Sound
<1>1. ASSUME NEW r \in Req,
             startup_fails(r) \/ export_fails(r) \/ append_fails(r) \/ rebind_start(r) \/ close_actor(r)
      PROVE  StoredOK'
  <2>1. Fail(r) \/ stored' = stored
    BY <1>1 DEF startup_fails, export_fails, append_fails, rebind_start, close_actor
  <2> QED
    BY <2>1, FailStores DEF StoredOK, Types
<1>2. ASSUME NEW r \in Req, NEW v \in Value, transition_history(r, v) PROVE StoredOK'
  BY <1>2 DEF transition_history, Types, StoredOK
<1>3. ASSUME NEW r \in Req, store(r) PROVE StoredOK'
  <2>1. req[r].kind \in SettingKind
    BY <1>3 DEF store, At, RequestsOK, StepOfKind, Types, Request
  <2>2. req[r].value \in Value /\ OptionOf(r) \in {"profile", "model"}
    BY <2>1 DEF RequestsOK, OptionOf
  <2> QED
    BY <1>3, <2>2 DEF store, Types, StoredOK
<1>4. ASSUME NEW r \in Req, rebind_finish(r) PROVE StoredOK'
  BY <1>4 DEF rebind_finish, Types, StoredOK
<1>5. ASSUME daemon_restart PROVE StoredOK'
  BY <1>5 DEF daemon_restart, Types, StoredOK
<1>6. \/ stored' = stored
      \/ \E r \in Req, v \in Value : transition_history(r, v)
      \/ \E r \in Req : \/ startup_fails(r) \/ export_fails(r) \/ append_fails(r) \/ rebind_start(r)
                        \/ close_actor(r) \/ store(r) \/ rebind_finish(r)
      \/ daemon_restart
  BY DEF Next, vars, set_session_profile, switch_model, send_prompt, ensure_live_session,
         register_live_session, publish, send, queue_transfer, rebind_ends, begin_prompt, prepare,
         prepared, prompt_ends, Drop, load_session_mcp_servers, send_initial_config_options, Push,
         handle_non_prompt_command, agent_exits, replace_config, patch_mcp_server
<1> QED
  BY <1>1, <1>2, <1>3, <1>4, <1>5, <1>6 DEF StoredOK, Types

FilesOK == allow \in [Value -> SUBSET Server] /\ enabled \subseteq Server /\ offers \subseteq Option

LEMMA FilesStep ==
    ASSUME Types, [Next]_vars
    PROVE  FilesOK'
<1>1. ASSUME replace_config PROVE FilesOK'
  BY <1>1 DEF replace_config, Types, FilesOK
<1>2. ASSUME patch_mcp_server PROVE FilesOK'
  BY <1>2 DEF patch_mcp_server, Types, FilesOK
<1>3. UNCHANGED files \/ replace_config \/ patch_mcp_server
  BY DEF Next, vars, files, set_session_profile, switch_model, transition_history, send_prompt,
         ensure_live_session, register_live_session, publish, startup_fails, send, store, rebind_start,
         export_fails, close_actor, rebind_finish, queue_transfer, rebind_ends, append_fails,
         begin_prompt, prepare, prepared, prompt_ends, Drop, load_session_mcp_servers,
         send_initial_config_options, Push, handle_non_prompt_command, agent_exits, daemon_restart
<1> QED
  BY <1>1, <1>2, <1>3 DEF FilesOK, Types, files

ActorOK ==
    /\ actor \in [pc : ActorPc, attached : SUBSET Server,
                  value : [Option -> Value \union {None}], model : Value \union {None}]
    /\ actor.pc # "none" => actor.model \in Value

LEMMA NoActorIs ==
    /\ NoActor \in [pc : ActorPc, attached : SUBSET Server,
                    value : [Option -> Value \union {None}], model : Value \union {None}]
    /\ NoActor.pc = "none"
BY DEF NoActor, ActorPc

LEMMA SpawnMakes ==
    ASSUME NEW m \in Value, Spawn(m)
    PROVE  /\ ActorOK' /\ actor'.pc = "spawned" /\ actor'.model = m /\ queue' = <<>>
<1>1. NoActor = [pc |-> "none", attached |-> {}, value |-> [o \in Option |-> None], model |-> None]
  BY DEF NoActor
<1>2. actor' = [NoActor EXCEPT !.pc = "spawned", !.model = m] /\ queue' = <<>>
  BY DEF Spawn
<1>3. actor'.pc = "spawned" /\ actor'.model = m
  BY <1>1, <1>2
<1>4. actor' \in [pc : ActorPc, attached : SUBSET Server,
                  value : [Option -> Value \union {None}], model : Value \union {None}]
  BY <1>2, NoActorIs DEF ActorPc
<1> QED
  BY <1>2, <1>3, <1>4 DEF ActorOK

\* An option is pushed to the agent, or the attempt fails.
LEMMA PushMoves ==
    ASSUME Types, NEW o \in Option, NEW v \in Value, NEW pc \in ActorPc, Push(o, v, pc),
           actor.pc # "none"
    PROVE  /\ ActorOK' /\ actor'.pc = pc /\ actor'.model = actor.model
           /\ actor'.attached = actor.attached
           /\ ~blurred' => /\ ~blurred /\ actor'.value[o] = v
                           /\ \A p \in Option \ {o} : actor'.value[p] = actor.value[p]
<1>1. ASSUME actor' = [actor EXCEPT !.pc = pc, !.value[o] = v]
      PROVE  /\ ActorOK' /\ actor'.pc = pc /\ actor'.model = actor.model
             /\ actor'.attached = actor.attached
             /\ actor'.value = [actor.value EXCEPT ![o] = v]
  BY <1>1 DEF Types, ActorOK
<1>2. ASSUME actor' = [actor EXCEPT !.pc = pc]
      PROVE  ActorOK' /\ actor'.pc = pc /\ actor'.model = actor.model /\ actor'.attached = actor.attached
  BY <1>2 DEF Types, ActorOK
<1> QED
  BY <1>1, <1>2 DEF Push, Types

LEMMA ActorStep ==
    ASSUME Sound, [Next]_vars
    PROVE  ActorOK'
<1> USE DEF Sound
<1>1. ASSUME NEW r \in Req, publish(r) \/ rebind_finish(r) PROVE ActorOK'
  BY <1>1 DEF publish, rebind_finish, AfterStart, AfterModel, Types, ActorOK, ActorPc
<1>2. ASSUME NEW r \in Req, register_live_session(r) PROVE ActorOK'
  BY <1>2, SpawnMakes DEF register_live_session, Types
<1>3. ASSUME NEW r \in Req, close_actor(r), actor' # actor PROVE ActorOK'
  <2>1. At(r, "close") /\ Spawn(IF req[r].kind = "switch" THEN req[r].value ELSE stored.model)
    BY <1>3 DEF close_actor
  <2>2. req[r].kind = "switch" => req[r].value \in Value
    BY DEF RequestsOK, SettingKind
  <2> QED
    BY <2>1, <2>2, SpawnMakes DEF Types
<1>4. ASSUME load_session_mcp_servers PROVE ActorOK'
  <2>1. Effective(Current("profile")) \subseteq Server
    BY DEF Effective, Types
  <2>2. actor' = [actor EXCEPT !.pc = "loaded", !.attached = Effective(Current("profile"))]
        /\ actor.pc = "spawned"
    BY <1>4 DEF load_session_mcp_servers
  <2> QED
    BY <2>1, <2>2 DEF Types, ActorOK, ActorPc
<1>5. ASSUME send_initial_config_options PROVE ActorOK'
  <2>1. \/ actor.pc = "setup" /\ Push("model", actor.model, AfterModel)
        \/ actor.pc = "profile" /\ Push("profile", Current("profile"), "loop")
    BY <1>5 DEF send_initial_config_options
  <2>2. /\ Current("profile") \in Value /\ AfterModel \in ActorPc /\ "loop" \in ActorPc
        /\ "model" \in Option /\ "profile" \in Option
        /\ actor.pc = "setup" => actor.model \in Value
    BY NoneIsNew DEF Types, Current, AfterModel, ActorPc, Option
  <2> QED
    BY <2>1, <2>2, PushMoves
<1>6. ASSUME handle_non_prompt_command PROVE ActorOK'
  <2>1. Head(queue) \in Commands
    BY <1>6, HeadWaits DEF handle_non_prompt_command
  <2>2. \/ actor' = [actor EXCEPT !.value[Head(queue).option] = Head(queue).value]
        \/ actor' = actor
    BY <1>6 DEF handle_non_prompt_command, rpc_fails
  <2> QED
    BY <2>1, <2>2 DEF Types, ActorOK, Commands
<1>7. ASSUME actor' = NoActor PROVE ActorOK'
  BY <1>7, NoActorIs DEF ActorOK
<1>8. \/ actor' = actor \/ actor' = NoActor
      \/ \E r \in Req : publish(r) \/ rebind_finish(r) \/ register_live_session(r) \/ close_actor(r)
      \/ load_session_mcp_servers \/ send_initial_config_options \/ handle_non_prompt_command
  BY DEF Next, vars, set_session_profile, switch_model, transition_history, send_prompt,
         ensure_live_session, startup_fails, send, store, rebind_start, export_fails, queue_transfer,
         rebind_ends, append_fails, begin_prompt, prepare, prepared, prompt_ends, Drop, agent_exits,
         replace_config, patch_mcp_server, daemon_restart
<1> QED
  BY <1>1, <1>2, <1>3, <1>4, <1>5, <1>6, <1>7, <1>8 DEF ActorOK, Types

------------------------------------------------------------------------------
(* The channel of the actor                                                    *)

ChannelOK == queue \in Seq(Commands) /\ QueueOK

\* Whoever waits goes on waiting for the same command.
WaitersStay == \A r \in Req : At(r, "wait") => req'[r] = req[r]

LEMMA CommandsAre ==
    ASSUME Types
    PROVE  /\ Len(queue) \in Nat /\ DOMAIN queue = 1..Len(queue)
           /\ \A i \in 1..Len(queue) : queue[i] \in Commands /\ queue[i].of \in Req \union {None}
<1>1. Len(queue) \in Nat /\ queue \in [1..Len(queue) -> Commands] /\ DOMAIN queue = 1..Len(queue)
  BY LenProperties DEF Types
<1> QED
  BY <1>1 DEF Commands

\* A channel of commands each of which is waited for by its own caller, if at all.
LEMMA ChannelIs ==
    ASSUME queue' \in Seq(Commands),
           \A i \in 1..Len(queue'), c \in Commands : queue'[i] = c /\ c.of # None =>
               At(c.of, "wait")' /\ c = Command(c.of)',
           \A i, j \in 1..Len(queue') : queue'[i].of = queue'[j].of /\ queue'[i].of # None => i = j
    PROVE  ChannelOK'
<1>1. Len(queue') \in Nat /\ queue' \in [1..Len(queue') -> Commands]
  BY LenProperties
<1> QED
  BY <1>1 DEF ChannelOK, QueueOK, At, Command, OptionOf

LEMMA ChannelRests ==
    ASSUME Types, QueueOK, queue' = queue, WaitersStay
    PROVE  ChannelOK'
<1>1. \A r \in Req : At(r, "wait") => At(r, "wait")' /\ Command(r)' = Command(r)
  BY DEF WaitersStay, At, Command, OptionOf
<1>2. /\ Len(queue) \in Nat
      /\ \A i \in 1..Len(queue) : queue[i] \in Commands /\ queue[i].of \in Req \union {None}
  BY CommandsAre
<1>3. ASSUME NEW i \in 1..Len(queue'), NEW c \in Commands, queue'[i] = c, c.of # None
      PROVE  At(c.of, "wait")' /\ c = Command(c.of)'
  BY <1>1, <1>2, <1>3 DEF QueueOK
<1> QED
  BY <1>2, <1>3, ChannelIs DEF QueueOK, Types

LEMMA ChannelEmpties == ASSUME queue' = <<>> PROVE ChannelOK'
BY DEF ChannelOK, QueueOK

LEMMA ChannelStep ==
    ASSUME Sound, [Next]_vars
    PROVE  ChannelOK'
<1> USE DEF Sound
<1>0. /\ Len(queue) \in Nat /\ DOMAIN queue = 1..Len(queue)
      /\ \A i \in 1..Len(queue) : queue[i] \in Commands /\ queue[i].of \in Req \union {None}
  BY CommandsAre
<1>1. ASSUME NEW r \in Req, send(r) PROVE ChannelOK'
  <2>1. CASE queue' = queue
    <3>1. req' = [req EXCEPT ![r] = Idle] \/ req' = [req EXCEPT ![r].pc = "wait"]
      BY <1>1 DEF send, End, Goto
    <3>2. WaitersStay
      BY <1>1, <3>1 DEF send, At, WaitersStay, Types
    <3> QED
      BY <2>1, <3>2, ChannelRests
  <2>2. CASE queue' # queue
    <3>1. /\ queue' = Append(queue, Command(r)) /\ Goto(r, "wait") /\ req[r].pc = "send"
      BY <1>1, <2>2 DEF send, At
    <3>2. /\ req'[r].pc = "wait" /\ req'[r].kind = req[r].kind /\ req'[r].value = req[r].value
          /\ \A q \in Req \ {r} : req'[q] = req[q]
      BY <3>1, GotoMoves DEF Pc
    <3>3. Command(r)' = Command(r) /\ At(r, "wait")' /\ Command(r).of = r
      BY <3>2 DEF Command, OptionOf, At
    <3>4. \A q \in Req : At(q, "wait") => q # r /\ At(q, "wait")' /\ Command(q)' = Command(q)
      BY <3>1, <3>2 DEF Command, OptionOf, At
    <3>5. Command(r) \in Commands
      <4>1. req[r].kind \in SettingKind
        BY <3>1 DEF RequestsOK, StepOfKind, Types, Request
      <4> QED
        BY <4>1 DEF RequestsOK, Command, Commands, OptionOf, Option
    <3>6. /\ queue' \in Seq(Commands) /\ Len(queue') = Len(queue) + 1
          /\ \A i \in 1..Len(queue) : queue'[i] = queue[i]
          /\ queue'[Len(queue) + 1] = Command(r)
      BY <3>1, <3>5, AppendProperties DEF Types
    <3>7. \A i \in 1..Len(queue) : queue[i].of # r
      <4> SUFFICES ASSUME NEW i \in 1..Len(queue), queue[i].of = r PROVE FALSE
        OBVIOUS
      <4>1. At(r, "wait")
        BY NoneIsNew DEF QueueOK
      <4> QED
        BY <3>1, <4>1 DEF At
    <3>8. ASSUME NEW i \in 1..Len(queue'), NEW c \in Commands, queue'[i] = c, c.of # None
          PROVE  At(c.of, "wait")' /\ c = Command(c.of)'
      <4>1. CASE i \in 1..Len(queue)
        <5>1. c = queue[i] /\ c.of \in Req
          BY <1>0, <3>6, <3>8, <4>1
        <5>2. At(c.of, "wait") /\ c = Command(c.of)
          BY <3>8, <4>1, <5>1 DEF QueueOK
        <5> QED
          BY <3>4, <5>1, <5>2
      <4>2. CASE i = Len(queue) + 1
        <5>1. c = Command(r) /\ c.of = r
          BY <3>3, <3>6, <3>8, <4>2
        <5> QED
          BY <3>3, <5>1
      <4> QED
        BY <1>0, <3>6, <4>1, <4>2
    <3>9. ASSUME NEW i \in 1..Len(queue'), NEW j \in 1..Len(queue'), queue'[i].of = queue'[j].of,
                 queue'[i].of # None
          PROVE  i = j
      <4>1. CASE i \in 1..Len(queue) /\ j \in 1..Len(queue)
        BY <3>6, <3>9, <4>1 DEF QueueOK
      <4>2. CASE i = Len(queue) + 1 \/ j = Len(queue) + 1
        BY <1>0, <3>3, <3>6, <3>7, <3>9, <4>2
      <4> QED
        BY <1>0, <3>6, <4>1, <4>2
    <3> QED
      BY <3>6, <3>8, <3>9, ChannelIs
  <2> QED
    BY <2>1, <2>2
<1>2. ASSUME handle_non_prompt_command PROVE ChannelOK'
  <2> DEFINE c == Head(queue)
  <2>1. /\ queue # <<>> /\ queue' = Tail(queue)
        /\ Answer(c, [req[c.of] EXCEPT !.pc = "store"]) \/ Answer(c, Idle)
    BY <1>2 DEF handle_non_prompt_command, rpc_fails
  <2>2. c = queue[1] /\ 1 \in 1..Len(queue)
    BY <2>1, HeadWaits
  <2>3. /\ queue' \in Seq(Commands) /\ Len(queue') = Len(queue) - 1
        /\ \A i \in 1..Len(queue') : queue'[i] = queue[i + 1]
    BY <2>1, HeadTailProperties DEF Types
  <2>4. \A q \in Req : q # c.of => req'[q] = req[q]
    BY <2>1 DEF Answer, Types
  <2> HIDE DEF c
  <2>5. ASSUME NEW i \in 1..Len(queue'), NEW d \in Commands, queue'[i] = d, d.of # None
        PROVE  At(d.of, "wait")' /\ d = Command(d.of)'
    <3>1. i + 1 \in 1..Len(queue) /\ i + 1 # 1 /\ queue[i + 1] = d
      BY <1>0, <2>3, <2>5
    <3>2. d.of # c.of /\ d.of \in Req /\ At(d.of, "wait") /\ d = Command(d.of)
      BY <1>0, <2>2, <2>5, <3>1 DEF QueueOK
    <3>3. req'[d.of] = req[d.of]
      BY <2>4, <3>2
    <3> QED
      BY <3>2, <3>3 DEF At, Command, OptionOf
  <2>6. ASSUME NEW i \in 1..Len(queue'), NEW j \in 1..Len(queue'), queue'[i].of = queue'[j].of,
               queue'[i].of # None
        PROVE  i = j
    <3>1. i + 1 \in 1..Len(queue) /\ j + 1 \in 1..Len(queue)
          /\ queue'[i] = queue[i + 1] /\ queue'[j] = queue[j + 1]
      BY <1>0, <2>3
    <3>2. i + 1 = j + 1
      BY <2>6, <3>1 DEF QueueOK
    <3> QED
      BY <3>2
  <2> QED
    BY <2>3, <2>5, <2>6, ChannelIs
<1>3. ASSUME NEW r \in Req, Drop(r) PROVE ChannelOK'
  <2>1. /\ queue' = [n \in DOMAIN queue |->
                        IF queue[n].of = r THEN [queue[n] EXCEPT !.of = None] ELSE queue[n]]
        /\ DOMAIN queue = 1..Len(queue) /\ End(r)
    BY <1>3 DEF Drop, Types
  <2>2. \A q \in Req \ {r} : req'[q] = req[q]
    BY <2>1, EndFrees
  <2>3. /\ DOMAIN queue' = 1..Len(queue) /\ queue' = [i \in 1..Len(queue) |-> queue'[i]]
        /\ \A i \in 1..Len(queue) : /\ queue'[i] \in Commands
                                    /\ queue'[i].of # r
                                    /\ queue'[i].of # None => queue'[i] = queue[i]
    BY <1>0, <2>1, NoneIsNew DEF Commands
  <2>4. queue' \in [1..Len(queue) -> Commands]
    BY <2>3
  <2>5. queue' \in Seq(Commands) /\ Len(queue') = Len(queue)
    BY <1>0, <2>4, SeqDef, LenProperties
  <2>6. ASSUME NEW i \in 1..Len(queue'), NEW c \in Commands, queue'[i] = c, c.of # None
        PROVE  At(c.of, "wait")' /\ c = Command(c.of)'
    <3>1. c = queue[i] /\ c.of # r /\ c.of \in Req /\ i \in 1..Len(queue)
      BY <1>0, <2>3, <2>5, <2>6
    <3>2. At(c.of, "wait") /\ c = Command(c.of) /\ req'[c.of] = req[c.of]
      BY <2>2, <2>6, <3>1 DEF QueueOK
    <3> QED
      BY <3>2 DEF At, Command, OptionOf
  <2>7. ASSUME NEW i \in 1..Len(queue'), NEW j \in 1..Len(queue'), queue'[i].of = queue'[j].of,
               queue'[i].of # None
        PROVE  i = j
    BY <2>3, <2>5, <2>7 DEF QueueOK
  <2> QED
    BY <2>5, <2>6, <2>7, ChannelIs
<1>4. ASSUME NEW r \in Req, register_live_session(r) PROVE ChannelOK'
  BY <1>4, ChannelEmpties DEF register_live_session, Spawn
<1>5. ASSUME NEW r \in Req, close_actor(r) PROVE ChannelOK'
  <2>1. CASE queue' = <<>>
    BY <2>1, ChannelEmpties
  <2>2. CASE queue' # <<>>
    <3>1. queue' = queue /\ End(r) /\ At(r, "close")
      BY <1>5, <2>2 DEF close_actor, Spawn, Fail
    <3>2. WaitersStay
      BY <3>1, EndFrees DEF WaitersStay, At
    <3> QED
      BY <3>1, <3>2, ChannelRests
  <2> QED
    BY <2>1, <2>2
<1>6. ASSUME agent_exits \/ daemon_restart PROVE ChannelOK'
  BY <1>6, ChannelEmpties DEF agent_exits, daemon_restart
<1>7. ASSUME NEW r \in Req,
             \/ \E v \in Value : set_session_profile(r, v) \/ switch_model(r, v) \/ transition_history(r, v)
             \/ send_prompt(r)
      PROVE  ChannelOK'
  <2>1. queue' = queue /\ ~At(r, "wait") /\ \E x : req' = [req EXCEPT ![r] = x]
    BY <1>7 DEF set_session_profile, switch_model, transition_history, send_prompt, Begin, At
  <2>2. WaitersStay
    BY <2>1 DEF WaitersStay, Types
  <2> QED
    BY <2>1, <2>2, ChannelRests
<1>8. ASSUME NEW r \in Req,
             \/ ensure_live_session(r) \/ publish(r) \/ startup_fails(r) \/ store(r) \/ rebind_start(r)
             \/ export_fails(r) \/ rebind_finish(r) \/ queue_transfer(r) \/ rebind_ends(r)
             \/ append_fails(r) \/ begin_prompt(r) \/ prepare(r) \/ prepared(r) \/ prompt_ends(r)
      PROVE  ChannelOK'
  <2>1. queue' = queue /\ ~At(r, "wait")
    BY <1>8 DEF ensure_live_session, publish, startup_fails, store, rebind_start, export_fails,
                rebind_finish, queue_transfer, rebind_ends, append_fails, begin_prompt, prepare,
                prepared, prompt_ends, At
  <2>2. End(r) \/ (\E pc \in Pc : Goto(r, pc)) \/ prepare(r)
    BY <1>8 DEF ensure_live_session, NextPc, publish, startup_fails, store, rebind_start, export_fails,
                rebind_finish, queue_transfer, rebind_ends, append_fails, begin_prompt,
                prepared, prompt_ends, Fail, Pc
  <2>3. \A q \in Req \ {r} : req'[q] = req[q]
    BY <2>2, EndFrees, GotoMoves, PrepareMoves
  <2> QED
    BY <2>1, <2>3, ChannelRests DEF WaitersStay
<1>9. ASSUME load_session_mcp_servers PROVE ChannelOK'
  <2>1. queue' = queue
        /\ req' = [r \in Req |-> IF req[r].kind = "transition" THEN [req[r] EXCEPT !.n = 1] ELSE req[r]]
    BY <1>9 DEF load_session_mcp_servers
  <2>2. WaitersStay
    BY <2>1 DEF WaitersStay, At, RequestsOK, StepOfKind
  <2> QED
    BY <2>1, <2>2, ChannelRests
<1>10. ASSUME send_initial_config_options \/ replace_config \/ patch_mcp_server \/ UNCHANGED vars
       PROVE  ChannelOK'
  <2>1. req' = req /\ queue' = queue
    BY <1>10 DEF send_initial_config_options, Push, replace_config, patch_mcp_server, vars
  <2> QED
    BY <2>1, ChannelRests DEF WaitersStay
<1> QED
  BY <1>1, <1>2, <1>3, <1>4, <1>5, <1>6, <1>7, <1>8, <1>9, <1>10 DEF Next
------------------------------------------------------------------------------
(* Who starts an agent                                                         *)

Awaited == {"starting", "replacing"}

\* Nobody begins to wait for the agent to start, and it goes no further while somebody does.
LEMMA StartRests ==
    ASSUME StartOK,
           \A q \in Req : req'[q].pc \in Awaited => req[q].pc \in Awaited,
           \A q \in Req : req'[q].pc \in Awaited => actor'.pc \in {"spawned", "loaded"},
           state' = "dormant" => actor'.pc \in {"none", "spawned", "loaded"}
    PROVE  StartOK'
BY DEF StartOK, Awaited

\* One request begins to wait for an agent that it just started.
LEMMA StartBegins ==
    ASSUME Types, StartOK, NEW r \in Req, NEW pc \in Awaited, Goto(r, pc), actor'.pc = "spawned",
           actor.pc \notin {"spawned", "loaded"}
    PROVE  StartOK'
<1>1. \A q \in Req : req[q].pc \notin Awaited
  BY DEF StartOK, Awaited
<1>2. \A q \in Req \ {r} : req'[q] = req[q]
  BY GotoMoves DEF Pc, Awaited
<1> QED
  BY <1>1, <1>2 DEF StartOK, Awaited

LEMMA StartStep ==
    ASSUME Sound, [Next]_vars
    PROVE  StartOK'
<1> USE DEF Sound
<1>1. ASSUME NEW r \in Req, register_live_session(r) PROVE StartOK'
  <2>1. Goto(r, "starting") /\ Spawn(stored.model) /\ actor.pc = "none"
    BY <1>1 DEF register_live_session
  <2>2. actor'.pc = "spawned"
    BY <2>1, SpawnMakes DEF Types
  <2> QED
    BY <2>1, <2>2, StartBegins DEF Awaited
<1>2. ASSUME NEW r \in Req, close_actor(r) PROVE StartOK'
  <2>1. CASE Goto(r, "replacing")
    <3>1. \/ Spawn(IF req[r].kind = "switch" THEN req[r].value ELSE stored.model)
          \/ Fail(r)
      BY <1>2 DEF close_actor
    <3>2. ~Fail(r)
      BY <2>1, GotoMoves, EndFrees, IdleIs DEF Fail, Pc
    <3>3. req[r].kind = "switch" => req[r].value \in Value
      BY DEF RequestsOK, SettingKind
    <3>4. actor'.pc = "spawned"
      BY <3>1, <3>2, <3>3, SpawnMakes DEF Types
    <3>5. actor.pc \in {"none", "loop"}
      BY <1>2, <3>2 DEF close_actor
    <3> QED
      BY <2>1, <3>4, <3>5, StartBegins DEF Awaited
  <2>2. CASE ~Goto(r, "replacing")
    <3>1. End(r) /\ actor' = actor /\ state' = state
      BY <1>2, <2>2 DEF close_actor, Fail
    <3> QED
      BY <3>1, EndFrees, IdleIs, StartRests DEF StartOK, Awaited
  <2> QED
    BY <2>1, <2>2
<1>3. ASSUME NEW r \in Req, publish(r) \/ rebind_finish(r) PROVE StartOK'
  <2>1. /\ req[r].pc \in Awaited /\ state' = "idle"
        /\ Goto(r, "live") \/ Goto(r, "finished")
    BY <1>3 DEF publish, rebind_finish, At, Awaited
  <2>2. \A q \in Req : req'[q].pc \notin Awaited
    BY <2>1, GotoMoves DEF StartOK, Awaited, Pc
  <2> QED
    BY <2>1, <2>2, StartRests
<1>4. ASSUME NEW r \in Req, startup_fails(r) \/ (Drop(r) /\ req[r].pc \in Awaited) PROVE StartOK'
  <2>1. End(r) /\ req[r].pc \in Awaited /\ actor' = NoActor
    BY <1>4 DEF startup_fails, Drop, Fail, Awaited
  <2>2. \A q \in Req : req'[q].pc \notin Awaited
    BY <2>1, EndFrees, IdleIs DEF StartOK, Awaited
  <2> QED
    BY <2>1, <2>2, StartRests, NoActorIs
<1>5. ASSUME load_session_mcp_servers PROVE StartOK'
  <2>1. /\ actor.pc = "spawned" /\ state' = state
        /\ actor' = [actor EXCEPT !.pc = "loaded", !.attached = Effective(Current("profile"))]
        /\ req' = [r \in Req |-> IF req[r].kind = "transition" THEN [req[r] EXCEPT !.n = 1] ELSE req[r]]
    BY <1>5 DEF load_session_mcp_servers
  <2>2. actor'.pc = "loaded"
    BY <2>1 DEF Types
  <2>3. \A q \in Req : req'[q].pc = req[q].pc
    BY <2>1 DEF Types, Request
  <2> QED
    BY <2>2, <2>3, StartRests
<1>6. ASSUME send_initial_config_options PROVE StartOK'
  <2>1. actor.pc \in {"setup", "profile"} /\ req' = req /\ state' = state
    BY <1>6 DEF send_initial_config_options, Push
  <2> QED
    BY <2>1, StartRests DEF StartOK, Awaited
<1>7. ASSUME handle_non_prompt_command PROVE StartOK'
  <2>1. /\ actor.pc = "loop" /\ state' = state /\ queue # <<>>
        /\ Answer(Head(queue), [req[Head(queue).of] EXCEPT !.pc = "store"]) \/ Answer(Head(queue), Idle)
    BY <1>7 DEF handle_non_prompt_command, rpc_fails
  <2>2. \A q \in Req : req'[q].pc \notin Awaited
    <3>1. \A q \in Req : req[q].pc \notin Awaited
      BY <2>1 DEF StartOK, Awaited
    <3>2. Head(queue).of \in Req \union {None}
      BY <2>1, HeadWaits
    <3> DEFINE c == Head(queue).of
    <3>3. c \in Req => [req[c] EXCEPT !.pc = "store"].pc = "store"
      BY DEF Types, Request
    <3>4. \E x : (c \in Req => x.pc \in {"store", "free"}) /\ Answer(Head(queue), x)
      BY <2>1, <3>3, IdleIs
    <3> QED
      BY <3>1, <3>2, <3>4 DEF Answer, Types, Awaited
  <2> QED
    BY <2>1, <2>2, StartRests DEF StartOK
<1>8. ASSUME agent_exits \/ daemon_restart PROVE StartOK'
  <2>1. /\ actor' = NoActor
        /\ \A q \in Req : req'[q] = req[q] \/ req'[q] = Idle
        /\ actor.pc \in {"setup", "profile", "loop"} \/ \A q \in Req : req'[q] = Idle
    BY <1>8 DEF agent_exits, daemon_restart
  <2>2. \A q \in Req : req'[q].pc \notin Awaited
    BY <2>1, IdleIs DEF StartOK, Awaited
  <2> QED
    BY <2>1, <2>2, NoActorIs, StartRests
<1>9. ASSUME NEW r \in Req,
             \/ \E v \in Value : set_session_profile(r, v) \/ switch_model(r, v) \/ transition_history(r, v)
             \/ send_prompt(r) \/ ensure_live_session(r) \/ send(r) \/ store(r) \/ rebind_start(r)
             \/ export_fails(r) \/ queue_transfer(r) \/ rebind_ends(r) \/ append_fails(r)
             \/ begin_prompt(r) \/ prepare(r) \/ prepared(r) \/ prompt_ends(r)
             \/ (Drop(r) /\ req[r].pc \notin Awaited)
      PROVE  StartOK'
  <2>1. actor' = actor /\ (state' = "dormant" => state = "dormant")
    BY <1>9 DEF set_session_profile, switch_model, transition_history, send_prompt,
                ensure_live_session, send, store, rebind_start, export_fails, queue_transfer,
                rebind_ends, append_fails, begin_prompt, prepare, prepared, prompt_ends, Drop, Awaited
  <2>2. \A q \in Req : req'[q].pc \in Awaited => req'[q] = req[q]
    <3>1. CASE \E v \in Value : set_session_profile(r, v) \/ switch_model(r, v) \/ transition_history(r, v)
      <4>1. \E v \in Value, kind \in SettingKind, pc \in Pc \ Awaited : Begin(r, kind, v, pc)
        BY <3>1 DEF set_session_profile, switch_model, transition_history, SettingKind, Pc, Awaited
      <4>2. PICK v \in Value, kind \in SettingKind, pc \in Pc \ Awaited : Begin(r, kind, v, pc)
        BY <4>1
      <4>3. v \in Value \union {None} /\ kind \in {"prompt"} \union SettingKind /\ pc \in Pc
        OBVIOUS
      <4>4. req'[r].pc = pc /\ \A q \in Req \ {r} : req'[q] = req[q]
        <5>1. /\ req' = [req EXCEPT ![r] = [kind |-> kind, pc |-> pc, value |-> v,
                                            previous |-> Current("profile"), n |-> 0]]
              /\ req \in [Req -> Request]
          BY <4>2 DEF Begin, Types
        <5> QED
          BY <5>1
      <4> QED
        BY <4>4
    <3>2. CASE send_prompt(r)
      BY <3>2, BeginMakes DEF send_prompt, Awaited, Pc
    <3>3. CASE prepare(r)
      BY <3>3, PrepareMoves DEF Awaited
    <3>4. CASE \/ ensure_live_session(r) \/ send(r) \/ store(r) \/ rebind_start(r)
               \/ export_fails(r) \/ queue_transfer(r) \/ rebind_ends(r) \/ append_fails(r)
               \/ begin_prompt(r) \/ prepared(r) \/ prompt_ends(r) \/ Drop(r)
      <4>1. End(r) \/ \E pc \in Pc \ Awaited : Goto(r, pc)
        BY <3>4 DEF ensure_live_session, NextPc, send, store, rebind_start, export_fails,
                    queue_transfer, rebind_ends, append_fails, begin_prompt, prepared, prompt_ends,
                    Drop, Fail, Pc, Awaited
      <4>2. ASSUME End(r) PROVE \A q \in Req : req'[q].pc \in Awaited => req'[q] = req[q]
        <5>1. req'[r] = Idle /\ \A q \in Req \ {r} : req'[q] = req[q]
          BY <4>2, EndFrees DEF Sound
        <5> QED
          BY <5>1, IdleIs DEF Awaited
      <4>3. ASSUME NEW pc \in Pc \ Awaited, Goto(r, pc)
            PROVE  \A q \in Req : req'[q].pc \in Awaited => req'[q] = req[q]
        <5>1. req'[r].pc = pc /\ \A q \in Req \ {r} : req'[q] = req[q]
          BY <4>3, GotoMoves DEF Sound
        <5> QED
          BY <5>1
      <4> QED
        BY <4>1, <4>2, <4>3
    <3> QED
      BY <1>9, <3>1, <3>2, <3>3, <3>4
  <2> QED
    BY <2>1, <2>2, StartRests DEF StartOK, Awaited
<1>10. ASSUME replace_config \/ patch_mcp_server \/ UNCHANGED vars PROVE StartOK'
  BY <1>10 DEF replace_config, patch_mcp_server, vars, StartOK
<1> QED
  BY <1>1, <1>2, <1>3, <1>4, <1>5, <1>6, <1>7, <1>8, <1>9, <1>10 DEF Next

LEMMA SoundStep ==
    ASSUME Sound, [Next]_vars
    PROVE  Sound'
<1>1. prompts' \in 0..2
  <2>1. \/ prompts' = prompts \/ prompts' = 0
        \/ \E r \in Req : prepared(r)
    BY DEF Next, vars, pipeline, set_session_profile, switch_model, transition_history, send_prompt,
           ensure_live_session, register_live_session, publish, startup_fails, send, store, rebind_start,
           export_fails, close_actor, rebind_finish, queue_transfer, rebind_ends, append_fails,
           begin_prompt, prepare, prompt_ends, Drop, load_session_mcp_servers,
           send_initial_config_options, Push, handle_non_prompt_command, agent_exits,
           replace_config, patch_mcp_server, daemon_restart
  <2>2. ASSUME NEW r \in Req, prepared(r) PROVE prompts' \in 0..2
    BY <2>2 DEF prepared
  <2> QED
    BY <2>1, <2>2 DEF Sound, Types
<1>2. StoredOK' /\ FilesOK' /\ ActorOK' /\ ReqOK' /\ ChannelOK' /\ StartOK'
  BY StoredStep, FilesStep, ActorStep, ReqStep, ChannelStep, StartStep DEF Sound
<1> QED
  BY <1>1, <1>2 DEF Sound, Types, StoredOK, FilesOK, ActorOK, ReqOK, ChannelOK
------------------------------------------------------------------------------
(* How a step leaves the agent and the daemon's record in agreement           *)

\* A request that changes no setting may do what it likes; one that does goes on,
\* and neither begins nor ends to write the store, or to wait for an agent.
Follows(q) ==
    /\ req[q].kind \in SettingKind \/ req'[q].kind \in SettingKind =>
          /\ req'[q].kind = req[q].kind /\ req'[q].value = req[q].value
          /\ req'[q].previous = req[q].previous /\ req'[q].n = req[q].n
          /\ At(q, "store")' <=> At(q, "store")
          /\ req'[q].pc \in {"finished", "append"} /\ q \in Untried => req[q].pc \in {"finished", "append"}
    /\ At(q, "starting")' => At(q, "starting")

StoringKind == \A q \in Req : At(q, "store") => req[q].kind \in SettingKind

LEMMA StorersSet == ASSUME Sound PROVE StoringKind
BY DEF Sound, Types, RequestsOK, StepOfKind, Request, At, StoringKind, SettingKind

LEMMA Followed ==
    ASSUME Sound, Sound', Agreed, \A q \in Req : Follows(q),
           UNCHANGED <<stored, offers, actor>>, applied' <=> applied,
           moved' \/ UNCHANGED <<allow, enabled, moved>>
    PROVE  Agreed'
<1>1. /\ StoringKind /\ StoringKind'
      /\ \A q \in Req : q \in Setting <=> req[q].kind \in SettingKind
      /\ \A q \in Req : q \in Setting' <=> req'[q].kind \in SettingKind
      /\ Setting \subseteq Req /\ Setting' \subseteq Req
  <2>1. StoringKind'
    BY StorersSet, PTL
  <2> QED
    BY <2>1, StorersSet DEF Setting, SettingKind
<1>2. Setting' = Setting
  BY <1>1 DEF Follows
<1>3. Untried' = Untried
  BY DEF Untried, Follows, SettingKind
<1>4. Switching' = Switching /\ Storing' = Storing
  BY DEF Switching, Storing, Follows, SettingKind
<1>5. Starting' = Starting /\ Current("profile")' = Current("profile")
  BY DEF Starting, Current
<1>6. OneSetting'
  BY <1>2, <1>5 DEF OneSetting, Agreed, Follows, SettingKind
<1>7. StoreOK'
  BY <1>1 DEF StoreOK, Agreed, Follows, StoringKind, OptionOf, At
<1>8. ModelOK'
  BY <1>4 DEF ModelOK, Agreed, Follows
<1>9. TriedOK'
  BY <1>3 DEF TriedOK, Agreed, Follows, Untried, SettingKind
<1>10. ProfileOK'
  BY <1>3, <1>4, <1>5 DEF ProfileOK, Agreed, Follows, Untried, SettingKind
<1>11. AccessOK'
  BY <1>3, <1>5 DEF AccessOK, Agreed, Follows, Untried, SettingKind, Effective
<1> QED
  BY <1>6, <1>7, <1>8, <1>9, <1>10, <1>11 DEF Agreed

\* A request moves on within its work.
LEMMA MovedOn ==
    ASSUME Sound, Sound', Agreed, NEW r \in Req, NEW pc \in Pc, Goto(r, pc),
           req[r].pc # "store", pc \notin {"store", "starting"},
           pc \in {"finished", "append"} => req[r].pc \in {"finished", "append"},
           UNCHANGED <<stored, files, actor, moved, applied>>
    PROVE  Agreed'
<1>1. /\ req'[r].pc = pc /\ req'[r].kind = req[r].kind /\ req'[r].value = req[r].value
      /\ req'[r].previous = req[r].previous /\ req'[r].n = req[r].n
      /\ \A q \in Req \ {r} : req'[q] = req[q]
  BY GotoMoves DEF Sound
<1>2. \A q \in Req : Follows(q)
  BY <1>1 DEF Follows, At
<1> QED
  BY <1>2, Followed DEF files

\* A request ends without having written the store.  A transition puts the profile back, if no
\* agent started with its own.
LEMMA Ended ==
    ASSUME Sound, Sound', Agreed, NEW r \in Req, End(r), req[r].pc # "store",
           actor' = actor \/ actor' = NoActor, UNCHANGED <<files, moved>>,
           r \in Untried => stored' = [stored EXCEPT !.profile = req[r].previous] /\ (applied' <=> applied),
           r \notin Untried => \/ stored' = stored /\ (applied' <=> applied)
                               \/ applied' /\ stored'.model = stored.model /\ r \in Setting
    PROVE  Agreed'
<1>0. Types /\ RequestsOK /\ StoringKind /\ StoringKind' /\ StartOK' /\ Types'
  <2>1. StoringKind'
    BY StorersSet, PTL
  <2> QED
    BY <2>1, StorersSet DEF Sound
<1>1. req'[r] = Idle /\ \A q \in Req \ {r} : req'[q] = req[q]
  BY <1>0, EndFrees
<1>2. CASE r \notin Setting
  <2>1. \A q \in Req : Follows(q)
    BY <1>1, <1>2, IdleIs DEF Follows, At, Setting, SettingKind, None
  <2>2. r \notin Untried /\ stored' = stored /\ (applied' <=> applied)
    BY <1>2 DEF Setting, Untried
  <2>3. CASE actor' = actor
    BY <2>1, <2>2, <2>3, Followed DEF files
  <2>4. CASE actor' = NoActor
    <3>1. actor'.pc = "none"
      BY <2>4, NoActorIs
    <3>2. /\ Setting' = Setting /\ Untried' \subseteq Untried /\ Current("profile")' = Current("profile")
      BY <1>1, <1>2, <2>2, IdleIs DEF Setting, Untried, Current, None
    <3>3. OneSetting'
      BY <3>1, <3>2 DEF OneSetting, Agreed, Starting
    <3>4. StoreOK' /\ ModelOK'
      BY <1>0, <3>1 DEF StoreOK, ModelOK, StartOK, At
    <3>5. TriedOK'
      BY <1>1, <2>2, <3>1, <3>2 DEF TriedOK, Agreed, Untried
    <3>6. ProfileOK' /\ AccessOK'
      BY <1>1, <2>2, <3>1, <3>2, IdleIs DEF ProfileOK, AccessOK, Agreed, None
    <3> QED
      BY <3>3, <3>4, <3>5, <3>6 DEF Agreed
  <2> QED
    BY <2>3, <2>4
<1>3. CASE r \in Setting
  <2>1. \A q \in Setting : q = r
    BY <1>3 DEF Agreed, OneSetting
  <2>2. \A q \in Req : req'[q].kind \notin SettingKind /\ ~At(q, "store")'
    BY <1>0, <1>1, <2>1, IdleIs DEF Setting, SettingKind, None, StoringKind, At
  <2>3. Setting' = {} /\ Untried' = {} /\ ~Storing /\ ~Switching
    <3>1. ~Storing /\ ~Switching
      BY <2>1 DEF Storing, Switching, Setting, At
    <3> QED
      BY <2>2, <3>1 DEF Setting, Untried, SettingKind
  <2>4. stored'.model = stored.model /\ offers' = offers /\ allow' = allow /\ enabled' = enabled
    BY <1>0 DEF Types, files
  <2>5. OneSetting' /\ StoreOK' /\ TriedOK'
    BY <2>2, <2>3 DEF OneSetting, StoreOK, TriedOK, SettingKind
  <2>6. ModelOK'
    <3>1. CASE actor' = actor
      BY <1>1, <2>3, <2>4, <3>1, IdleIs DEF ModelOK, Agreed, At
    <3>2. CASE actor' = NoActor
      BY <1>0, <3>2, NoActorIs DEF ModelOK, StartOK, At
    <3> QED
      BY <3>1, <3>2
  <2>7. ASSUME r \in Untried PROVE Current("profile")' = req[r].previous /\ (applied' <=> applied)
    <3>1. req[r].previous \in Value
      BY <2>7, <1>0 DEF Untried, RequestsOK
    <3> QED
      BY <2>7, <3>1, <1>0, NoneIsNew DEF Current, Types
  <2>8. ASSUME r \notin Untried, ~applied' PROVE Untried = {} /\ ~applied /\ Current("profile")' = Current("profile")
    BY <2>1, <2>8 DEF Untried, Setting, Current
  <2>9. ProfileOK'
    <3>1. CASE actor' = actor
      BY <2>3, <2>4, <2>7, <2>8, <3>1 DEF ProfileOK, Agreed
    <3>2. CASE actor' = NoActor
      BY <3>2, NoActorIs DEF ProfileOK
    <3> QED
      BY <3>1, <3>2
  <2>10. AccessOK'
    <3>1. CASE actor' = actor
      BY <2>2, <2>3, <2>4, <2>7, <2>8, <3>1 DEF AccessOK, Agreed, Effective, SettingKind
    <3>2. CASE actor' = NoActor
      BY <2>2, <3>2, NoActorIs DEF AccessOK, SettingKind
    <3> QED
      BY <3>1, <3>2
  <2> QED
    BY <2>5, <2>6, <2>9, <2>10 DEF Agreed
<1> QED
  BY <1>2, <1>3
\* The agent has started, and the session is published: nobody else is at work on a setting.
LEMMA Started ==
    ASSUME Sound, Sound', Agreed, NEW r \in Req, NEW pc \in {"live", "finished"}, Goto(r, pc),
           req[r].pc \in Awaited, actor.pc = "loaded", actor' = [actor EXCEPT !.pc = AfterStart],
           stored'.profile = stored.profile, stored'.model = actor.model,
           UNCHANGED <<files, moved, applied>>
    PROVE  Agreed'
<1>1. /\ req'[r].pc = pc /\ req'[r].kind = req[r].kind /\ req'[r].value = req[r].value
      /\ req'[r].previous = req[r].previous /\ req'[r].n = req[r].n
      /\ \A q \in Req \ {r} : req'[q] = req[q]
  BY GotoMoves DEF Sound, Pc
<1>2. /\ actor'.pc = AfterStart /\ actor'.value = actor.value /\ actor'.attached = actor.attached
      /\ actor'.model = actor.model
  BY DEF Sound, Types
<1>3. AfterStart \in {"setup", "profile", "loop"}
  BY DEF AfterStart, AfterModel
<1>4. /\ \A q \in Req : ~At(q, "store") /\ ~At(q, "store")' /\ ~At(q, "starting")'
      /\ Untried = {}
  <2>1. \A q \in Req : ~At(q, "store")
    BY DEF Agreed, StoreOK
  <2>2. \A q \in Req : ~At(q, "store")'
    BY <1>1, <2>1 DEF At
  <2>3. \A q \in Req : ~At(q, "starting")'
    BY <1>2, <1>3 DEF Sound, StartOK, At
  <2> QED
    BY <2>1, <2>2, <2>3 DEF Agreed, TriedOK
<1>5. Setting' = Setting /\ Untried' = Untried /\ Current("profile")' = Current("profile") /\ Starting
  BY <1>1 DEF Setting, Untried, Current, Starting
<1>6. OneSetting'
  BY <1>1, <1>5 DEF OneSetting, Agreed
<1>7. StoreOK'
  BY <1>4 DEF StoreOK
<1>8. ModelOK'
  BY <1>2, <1>4 DEF ModelOK, AfterStart, AfterModel, files
<1>9. TriedOK'
  BY <1>4, <1>5 DEF TriedOK
<1>10. ProfileOK'
  BY <1>2 DEF ProfileOK, AfterStart, AfterModel, files
<1>11. AccessOK'
  BY <1>1, <1>2, <1>4, <1>5 DEF AccessOK, Agreed, Effective, files
<1> QED
  BY <1>6, <1>7, <1>8, <1>9, <1>10, <1>11 DEF Agreed

\* The only request for a setting starts an agent for it.
LEMMA Spawned ==
    ASSUME Sound, Sound', Agreed, NEW r \in Req, NEW pc \in Awaited, Goto(r, pc),
           Setting \subseteq {r}, req[r].kind # "set", NEW m \in Value, Spawn(m),
           pc = "starting" => m = stored.model,
           pc = "replacing" => \A q \in Req : ~At(q, "starting"),
           UNCHANGED <<stored, files, moved, applied>>
    PROVE  Agreed'
<1>1. /\ req'[r].pc = pc /\ req'[r].kind = req[r].kind /\ req'[r].value = req[r].value
      /\ req'[r].previous = req[r].previous /\ req'[r].n = req[r].n
      /\ \A q \in Req \ {r} : req'[q] = req[q]
  BY GotoMoves DEF Sound, Pc, Awaited
<1>2. actor'.pc = "spawned" /\ actor'.model = m
  BY SpawnMakes
<1>3. /\ StoringKind' /\ Setting' \subseteq {r} /\ \A q \in Req : req'[q].kind # "set"
  <2>1. StoringKind'
    BY StorersSet, PTL
  <2> QED
    BY <1>1, <2>1 DEF Setting
<1>4. OneSetting'
  BY <1>3 DEF OneSetting
<1>5. StoreOK'
  BY <1>1, <1>3 DEF StoreOK, StoringKind, Setting, SettingKind, At, Awaited
<1>6. ModelOK'
  BY <1>1, <1>2 DEF ModelOK, At, Awaited
<1>7. TriedOK'
  BY <1>1, <1>2, <1>3 DEF TriedOK, Untried, Setting, Awaited
<1>8. ProfileOK' /\ AccessOK'
  BY <1>2, <1>3 DEF ProfileOK, AccessOK
<1> QED
  BY <1>4, <1>5, <1>6, <1>7, <1>8 DEF Agreed

\* The settings are at rest when a request for one begins.
LEMMA Rest ==
    ASSUME Sound, Agreed, Setting = {}, ~Starting
    PROVE  /\ \A q \in Req : req[q].kind \notin SettingKind /\ ~At(q, "store") /\ ~At(q, "starting")
           /\ Untried = {} /\ ~Switching /\ ~Storing
           /\ actor.pc \in {"none", "loop"}
<1>1. \A q \in Req : req[q].kind \notin SettingKind
  BY DEF Setting, SettingKind
<1>2. \A q \in Req : ~At(q, "store")
  BY <1>1, StorersSet DEF StoringKind
<1>3. actor.pc \in {"none", "loop"}
  BY DEF Starting, Sound, Types, ActorPc
<1>4. \A q \in Req : ~At(q, "starting")
  BY <1>3 DEF Sound, StartOK, At
<1> QED
  BY <1>1, <1>2, <1>3, <1>4 DEF Untried, SettingKind, Switching, Storing

LEMMA SetBegins ==
    ASSUME Sound, Sound', Agreed, NEW r \in Req, NEW v \in Value, set_session_profile(r, v), ~blurred'
    PROVE  Agreed'
<1> DEFINE pc == IF state # "dormant" /\ "profile" \in offers THEN "send" ELSE "store"
<1>1. /\ Begin(r, "set", v, pc) /\ moved' = (moved \/ Current("profile") # v)
      /\ UNCHANGED <<stored, files, actor, applied>>
  BY DEF set_session_profile
<1>2. /\ req'[r].kind = "set" /\ req'[r].pc = pc /\ req'[r].value = v
      /\ \A q \in Req \ {r} : req'[q] = req[q]
      /\ Setting = {} /\ ~Starting
  BY <1>1, BeginMakes DEF Sound, SettingKind, Pc
<1>3. /\ \A q \in Req : req[q].kind \notin SettingKind /\ ~At(q, "store") /\ ~At(q, "starting")
      /\ Untried = {} /\ ~Switching /\ ~Storing /\ actor.pc \in {"none", "loop"}
  BY <1>2, Rest
<1>4. /\ Setting' = {r} /\ Untried' = {} /\ ~Starting' /\ Current("profile")' = Current("profile")
      /\ \A q \in Req : ~At(q, "starting")'
      /\ \A q \in Req : At(q, "store")' => q = r
  BY <1>1, <1>2, <1>3 DEF Setting, Untried, Starting, Current, SettingKind, At
<1>5. OneSetting'
  BY <1>4 DEF OneSetting
<1>6. StoreOK'
  <2>1. At(r, "store")' /\ actor.pc = "loop" => "profile" \notin offers
    BY <1>2 DEF At, Sound, StartOK
  <2>2. OptionOf(r)' = "profile"
    BY <1>2 DEF OptionOf
  <2> QED
    BY <1>1, <1>3, <1>4, <2>1, <2>2 DEF StoreOK, files
<1>7. ModelOK'
  BY <1>1, <1>3, <1>4 DEF ModelOK, Agreed, files
<1>8. TriedOK' /\ ProfileOK'
  BY <1>1, <1>3, <1>4 DEF TriedOK, ProfileOK, Agreed, files
<1>9. AccessOK'
  BY <1>1, <1>2, <1>3, <1>4 DEF AccessOK, Agreed, Effective, SettingKind, files
<1> QED
  BY <1>5, <1>6, <1>7, <1>8, <1>9 DEF Agreed

LEMMA SwitchBegins ==
    ASSUME Sound, Sound', Agreed, NEW r \in Req, NEW v \in Value, switch_model(r, v), ~blurred'
    PROVE  Agreed'
<1>1. Begin(r, "switch", v, "live") /\ UNCHANGED <<stored, files, actor, moved, applied>>
  BY DEF switch_model
<1>2. /\ req'[r].kind = "switch" /\ req'[r].pc = "live" /\ req'[r].value = v
      /\ \A q \in Req \ {r} : req'[q] = req[q]
      /\ Setting = {} /\ ~Starting
  BY <1>1, BeginMakes DEF Sound, SettingKind, Pc
<1>3. /\ \A q \in Req : req[q].kind \notin SettingKind /\ ~At(q, "store") /\ ~At(q, "starting")
      /\ Untried = {} /\ ~Switching /\ ~Storing /\ actor.pc \in {"none", "loop"}
  BY <1>2, Rest
<1>4. /\ Setting' = {r} /\ Untried' = {} /\ Current("profile")' = Current("profile")
      /\ \A q \in Req : ~At(q, "starting")' /\ ~At(q, "store")' /\ req'[q].kind # "set"
  BY <1>1, <1>2, <1>3 DEF Setting, Untried, Current, SettingKind, At
<1>5. OneSetting' /\ StoreOK'
  BY <1>4 DEF OneSetting, StoreOK
<1>6. ModelOK'
  BY <1>1, <1>3, <1>4 DEF ModelOK, Agreed, files
<1>7. TriedOK' /\ ProfileOK' /\ AccessOK'
  BY <1>1, <1>3, <1>4 DEF TriedOK, ProfileOK, AccessOK, Agreed, Effective, files
<1> QED
  BY <1>5, <1>6, <1>7 DEF Agreed

LEMMA TransitionBegins ==
    ASSUME Sound, Sound', Agreed, NEW r \in Req, NEW v \in Value, transition_history(r, v), ~blurred'
    PROVE  Agreed'
<1>1. /\ Begin(r, "transition", v, "live") /\ stored' = [stored EXCEPT !.profile = v]
      /\ UNCHANGED <<files, actor, moved, applied>>
  BY DEF transition_history
<1>2. /\ req'[r].kind = "transition" /\ req'[r].pc = "live" /\ req'[r].n = 0
      /\ req'[r].previous = Current("profile")
      /\ \A q \in Req \ {r} : req'[q] = req[q]
      /\ Setting = {} /\ ~Starting
  BY <1>1, BeginMakes DEF Sound, SettingKind, Pc
<1>3. /\ \A q \in Req : req[q].kind \notin SettingKind /\ ~At(q, "store") /\ ~At(q, "starting")
      /\ Untried = {} /\ ~Switching /\ ~Storing /\ actor.pc \in {"none", "loop"}
  BY <1>2, Rest
<1>4. /\ Setting' = {r} /\ Untried' = {r} /\ stored'.model = stored.model
      /\ \A q \in Req : ~At(q, "starting")' /\ ~At(q, "store")' /\ req'[q].kind # "set"
  BY <1>1, <1>2, <1>3 DEF Setting, Untried, SettingKind, At, Sound, Types
<1>5. OneSetting' /\ StoreOK'
  BY <1>4 DEF OneSetting, StoreOK
<1>6. ModelOK'
  BY <1>1, <1>3, <1>4 DEF ModelOK, Agreed, files
<1>7. TriedOK'
  BY <1>1, <1>2, <1>3, <1>4 DEF TriedOK
<1>8. ProfileOK' /\ AccessOK'
  BY <1>1, <1>2, <1>3, <1>4 DEF ProfileOK, AccessOK, Agreed, Effective, files
<1> QED
  BY <1>5, <1>6, <1>7, <1>8 DEF Agreed
\* The daemon records what the agent was told.
LEMMA StoreAgrees ==
    ASSUME Sound, Sound', Agreed, NEW r \in Req, store(r)
    PROVE  Agreed'
<1>1. /\ At(r, "store") /\ End(r) /\ stored' = [stored EXCEPT ![OptionOf(r)] = req[r].value]
      /\ UNCHANGED <<files, actor, moved, applied>>
  BY DEF store
<1>2. req'[r] = Idle /\ \A q \in Req \ {r} : req'[q] = req[q]
  BY <1>1, EndFrees DEF Sound
<1>3. /\ req[r].kind \in {"set", "switch"} /\ req[r].value \in Value
      /\ \A q \in Setting : q = r
      /\ actor.pc \in {"none", "loop"}
      /\ actor.pc = "loop" /\ OptionOf(r) \in offers => actor.value[OptionOf(r)] = req[r].value
  <2>1. req[r].kind \in {"set", "switch"} /\ r \in Setting
    BY <1>1 DEF Sound, Types, RequestsOK, StepOfKind, Request, SettingKind, At, Setting
  <2> QED
    BY <1>1, <2>1 DEF Sound, RequestsOK, SettingKind, Agreed, OneSetting, StoreOK
<1>4. /\ \A q \in Req : req'[q].kind \notin SettingKind /\ ~At(q, "store")'
      /\ \A q \in Req : ~At(q, "starting")'
  <2>1. \A q \in Req : req'[q].kind \notin SettingKind
    BY <1>2, <1>3, IdleIs DEF Setting, SettingKind, None
  <2>2. StoringKind'
    BY StorersSet, PTL
  <2>3. \A q \in Req : ~At(q, "starting")'
    BY <1>1, <1>3 DEF Sound, StartOK, At
  <2> QED
    BY <2>1, <2>2, <2>3 DEF StoringKind
<1>5. Setting' = {} /\ Untried = {} /\ Untried' = {}
  BY <1>3, <1>4 DEF Setting, Untried, SettingKind
<1>6. CASE req[r].kind = "set"
  <2>1. /\ OptionOf(r) = "profile" /\ stored'.profile = req[r].value /\ stored'.model = stored.model
        /\ Current("profile")' = req[r].value
    BY <1>1, <1>3, <1>6, NoneIsNew DEF OptionOf, Sound, Types, Current
  <2>2. ~Switching
    BY <1>3, <1>6 DEF Switching, Setting
  <2>3. OneSetting' /\ StoreOK' /\ TriedOK'
    BY <1>1, <1>3, <1>4, <1>5 DEF OneSetting, StoreOK, TriedOK, Starting, SettingKind
  <2>4. ModelOK'
    BY <1>1, <1>3, <1>4, <2>1, <2>2 DEF ModelOK, Agreed, files
  <2>5. ProfileOK'
    BY <1>1, <1>3, <1>5, <2>1 DEF ProfileOK, files
  <2>6. AccessOK'
    BY <1>1, <1>4, <1>5, <1>6, <2>1 DEF AccessOK, Agreed, Effective, SettingKind, files
  <2> QED
    BY <2>3, <2>4, <2>5, <2>6 DEF Agreed
<1>7. CASE req[r].kind = "switch"
  <2>1. /\ OptionOf(r) = "model" /\ stored'.model = req[r].value
        /\ Current("profile")' = Current("profile")
    BY <1>1, <1>3, <1>7 DEF OptionOf, Sound, Types, Current
  <2>2. ~Storing
    BY <1>3, <1>7 DEF Storing, Setting
  <2>3. OneSetting' /\ StoreOK' /\ TriedOK'
    BY <1>1, <1>3, <1>4, <1>5 DEF OneSetting, StoreOK, TriedOK, Starting, SettingKind
  <2>4. ModelOK'
    BY <1>1, <1>3, <1>4, <2>1 DEF ModelOK, files
  <2>5. ProfileOK'
    BY <1>1, <1>5, <2>1, <2>2 DEF ProfileOK, Agreed, files
  <2>6. AccessOK'
    BY <1>1, <1>4, <1>5, <2>1 DEF AccessOK, Agreed, Effective, SettingKind, files
  <2> QED
    BY <2>3, <2>4, <2>5, <2>6 DEF Agreed
<1> QED
  BY <1>3, <1>6, <1>7

\* A new agent is told the settings of the daemon; nobody writes those meanwhile.
LEMMA PushAgrees ==
    ASSUME Sound, Sound', Agreed, send_initial_config_options, ~blurred'
    PROVE  Agreed'
<1>1. /\ UNCHANGED <<stored, files, req, moved, applied>>
      /\ actor.pc \in {"setup", "profile"}
      /\ \/ actor.pc = "setup" /\ Push("model", actor.model, AfterModel)
         \/ actor.pc = "profile" /\ Push("profile", Current("profile"), "loop")
  BY DEF send_initial_config_options, Push
<1>2. /\ actor'.attached = actor.attached
      /\ actor.pc = "setup" => /\ actor'.pc = AfterModel
                               /\ actor'.value["model"] = actor.model
      /\ actor.pc = "profile" => /\ actor'.pc = "loop" /\ actor'.value["profile"] = Current("profile")
                                 /\ actor'.value["model"] = actor.value["model"]
  <2>1. /\ AfterModel \in ActorPc /\ "loop" \in ActorPc
        /\ "model" \in Option /\ "profile" \in Option /\ "model" # "profile"
        /\ actor.pc = "setup" => actor.model \in Value
        /\ Current("profile") \in Value
    BY NoneIsNew DEF Sound, Types, AfterModel, ActorPc, Option, Current
  <2> QED
    BY <1>1, <2>1, PushMoves DEF Sound
<1>3. AfterModel \in {"profile", "loop"} /\ (AfterModel = "loop" => "profile" \notin offers)
  BY DEF AfterModel
<1>4. /\ \A q \in Req : ~At(q, "store") /\ ~At(q, "starting")
      /\ Untried = {} /\ ~Switching /\ ~Storing
  BY <1>1 DEF Agreed, StoreOK, TriedOK, Sound, StartOK, Switching, Storing, At
<1>5. /\ Setting' = Setting /\ Untried' = Untried /\ Current("profile")' = Current("profile")
      /\ \A q \in Req : At(q, "store")' = At(q, "store") /\ At(q, "starting")' = At(q, "starting")
  BY <1>1 DEF Setting, Untried, Current, At
<1>6. OneSetting' /\ StoreOK' /\ TriedOK'
  BY <1>1, <1>4, <1>5 DEF OneSetting, Agreed, StoreOK, TriedOK, Starting
<1>7. ModelOK'
  BY <1>1, <1>2, <1>3, <1>4, <1>5 DEF ModelOK, Agreed, files
<1>8. ProfileOK'
  BY <1>1, <1>2, <1>3, <1>4, <1>5 DEF ProfileOK, files
<1>9. AccessOK'
  BY <1>1, <1>2, <1>4, <1>5 DEF AccessOK, Agreed, Effective, files
<1> QED
  BY <1>6, <1>7, <1>8, <1>9 DEF Agreed

\* The agent carries out the command of the only request for a setting, or refuses it.
LEMMA CommandAgrees ==
    ASSUME Sound, Sound', Agreed, CallersStay, handle_non_prompt_command
    PROVE  Agreed'
<1>0. PICK c \in Commands : c = Head(queue) /\ queue # <<>> /\ c.of # None /\ c.of \in Req
  BY HeadWaits DEF CallersStay, Sound, handle_non_prompt_command
<1>1. /\ actor.pc = "loop" /\ UNCHANGED <<stored, files, moved, applied>>
      /\ \/ /\ actor' = [actor EXCEPT !.value[c.option] = c.value]
            /\ Answer(c, [req[c.of] EXCEPT !.pc = "store"])
         \/ actor' = actor /\ Answer(c, Idle)
  BY <1>0 DEF handle_non_prompt_command, rpc_fails
<1> DEFINE r == c.of
<1>2. /\ r \in Req /\ req[r].pc = "wait" /\ c.option = OptionOf(r) /\ c.value = req[r].value
  BY <1>0, HeadWaits DEF Sound, Command, At
<1>3. req[r].kind \in {"set", "switch"} /\ req[r].value \in Value /\ \A q \in Setting : q = r
  <2>1. req[r].kind \in {"set", "switch"} /\ r \in Setting
    BY <1>2 DEF Sound, Types, RequestsOK, StepOfKind, Request, SettingKind, Setting
  <2> QED
    BY <1>2, <2>1 DEF Sound, RequestsOK, SettingKind, Agreed, OneSetting
<1>4. CASE actor' = actor /\ Answer(c, Idle)
  <2>1. End(r)
    BY <1>0, <1>4 DEF Answer, End
  <2>2. r \notin Untried
    BY <1>3 DEF Untried
  <2> QED
    BY <1>1, <1>2, <1>4, <2>1, <2>2, Ended
<1>5. CASE actor' = [actor EXCEPT !.value[c.option] = c.value]
           /\ Answer(c, [req[r] EXCEPT !.pc = "store"])
  <2>1. Goto(r, "store")
    BY <1>0, <1>5 DEF Answer, Goto, Sound, Types
  <2>2. /\ req'[r].pc = "store" /\ req'[r].kind = req[r].kind /\ req'[r].value = req[r].value
        /\ req'[r].previous = req[r].previous /\ req'[r].n = req[r].n
        /\ \A q \in Req \ {r} : req'[q] = req[q]
    BY <1>2, <2>1, GotoMoves DEF Sound, Pc
  <2> HIDE DEF r
  <2>3. /\ actor'.pc = "loop" /\ actor'.attached = actor.attached
        /\ actor'.value[OptionOf(r)] = req[r].value
        /\ \A o \in Option \ {OptionOf(r)} : actor'.value[o] = actor.value[o]
    BY <1>1, <1>2, <1>5 DEF Sound, Types, OptionOf, Option
  <2>4. /\ \A q \in Req : At(q, "store") => FALSE
        /\ \A q \in Req : At(q, "store")' => q = r
        /\ ~Switching /\ ~Storing
    <3>1. \A q \in Req : ~At(q, "store")
      BY <1>2, <1>3, StorersSet DEF StoringKind, Setting, SettingKind, At
    <3> QED
      BY <2>2, <3>1 DEF Switching, Storing, At
  <2>5. /\ Setting' = Setting /\ Untried' = Untried /\ Untried = {}
        /\ Current("profile")' = Current("profile")
    BY <1>1, <1>3, <2>2 DEF Setting, Untried, Current
  <2>6. /\ OptionOf(r)' = OptionOf(r) /\ "profile" \in Option /\ "model" \in Option
        /\ req[r].kind = "set" => OptionOf(r) = "profile" /\ Storing'
        /\ req[r].kind = "switch" => OptionOf(r) = "model" /\ Switching'
    BY <1>2, <2>2 DEF OptionOf, Option, Storing, Switching, At
  <2>7. OneSetting'
    BY <1>3, <2>3, <2>5 DEF OneSetting, Starting
  <2>8. StoreOK'
    BY <1>1, <1>2, <2>2, <2>3, <2>4, <2>6 DEF StoreOK, files
  <2>9. ModelOK'
    <3>1. \A q \in Req : ~At(q, "starting")'
      BY <2>3 DEF Sound, StartOK, At
    <3> QED
      BY <1>1, <1>3, <2>3, <2>4, <2>6, <3>1 DEF ModelOK, Agreed, files
  <2>10. TriedOK'
    BY <2>5 DEF TriedOK
  <2>11. ProfileOK'
    BY <1>1, <1>3, <2>3, <2>4, <2>5, <2>6 DEF ProfileOK, Agreed, files
  <2>12. AccessOK'
    BY <1>1, <1>2, <2>2, <2>3, <2>5 DEF AccessOK, Agreed, Effective, files
  <2> QED
    BY <2>7, <2>8, <2>9, <2>10, <2>11, <2>12 DEF Agreed
<1> QED
  BY <1>1, <1>4, <1>5

\* The agent starts with the servers of the profile of this moment.
LEMMA LoadAgrees ==
    ASSUME Sound, Sound', Agreed, load_session_mcp_servers
    PROVE  Agreed'
<1>1. /\ actor.pc = "spawned" /\ UNCHANGED <<stored, files>>
      /\ actor' = [actor EXCEPT !.pc = "loaded", !.attached = Effective(Current("profile"))]
      /\ req' = [r \in Req |-> IF req[r].kind = "transition" THEN [req[r] EXCEPT !.n = 1] ELSE req[r]]
  BY DEF load_session_mcp_servers
<1>2. actor'.pc = "loaded" /\ actor'.model = actor.model /\ actor'.attached = Effective(Current("profile"))
  BY <1>1 DEF Sound, Types
<1>3. \A q \in Req : /\ req'[q].kind = req[q].kind /\ req'[q].pc = req[q].pc
                     /\ req'[q].value = req[q].value
                     /\ req[q].kind = "transition" => req'[q].n = 1
  BY <1>1 DEF Sound, Types, Request
<1>4. /\ Setting' = Setting /\ Untried' = {} /\ Starting
      /\ Effective(Current("profile"))' = Effective(Current("profile"))
  BY <1>1, <1>3 DEF Setting, Untried, Starting, Effective, Current, files
<1>5. OneSetting'
  BY <1>3, <1>4 DEF OneSetting, Agreed
<1>6. StoreOK'
  BY <1>1, <1>3 DEF StoreOK, Agreed, At
<1>7. ModelOK'
  BY <1>1, <1>2, <1>3 DEF ModelOK, Agreed, At
<1>8. TriedOK' /\ ProfileOK'
  BY <1>2, <1>4 DEF TriedOK, ProfileOK
<1>9. AccessOK'
  BY <1>2, <1>3, <1>4 DEF AccessOK, Agreed, OneSetting
<1> QED
  BY <1>5, <1>6, <1>7, <1>8, <1>9 DEF Agreed

\* The agent is gone, and with it whoever waits for its answers.
LEMMA Gone ==
    ASSUME Sound, Sound', Agreed, actor' = NoActor,
           \A q \in Req : req'[q] = req[q] \/ req'[q] = Idle,
           UNCHANGED <<stored, files, moved>> \/ \A q \in Req : req'[q] = Idle
    PROVE  Agreed'
<1>1. actor'.pc = "none"
  BY NoActorIs
<1>2. \A q \in Req : req'[q].kind \in SettingKind => req'[q] = req[q]
  BY IdleIs DEF SettingKind, None
<1>3. Setting' \subseteq Setting
  BY <1>2 DEF Setting, SettingKind
<1>4. \A q \in Untried' : q \in Untried /\ req'[q] = req[q]
  BY <1>2 DEF Untried, SettingKind
<1>5. OneSetting'
  BY <1>1, <1>3 DEF OneSetting, Agreed, Starting
<1>6. StoreOK'
  BY <1>1 DEF StoreOK
<1>7. ModelOK'
  BY <1>1 DEF ModelOK, Sound, StartOK, At
<1>8. TriedOK'
  BY <1>1, <1>4 DEF TriedOK, Agreed
<1>9. ProfileOK'
  BY <1>1 DEF ProfileOK
<1>10. AccessOK'
  <2>1. CASE UNCHANGED <<stored, files, moved>>
    BY <1>1, <1>2, <2>1 DEF AccessOK, Agreed, Current, SettingKind
  <2>2. CASE \A q \in Req : req'[q] = Idle
    BY <1>1, <2>2, IdleIs DEF AccessOK, None
  <2> QED
    BY <2>1, <2>2
<1> QED
  BY <1>5, <1>6, <1>7, <1>8, <1>9, <1>10 DEF Agreed
\* Only a restart of the daemon ends what has been blurred.
LEMMA BlurStays ==
    ASSUME [Next]_vars, ~daemon_restart, ~blurred'
    PROVE  ~blurred
BY DEF Next, vars, set_session_profile, switch_model, transition_history, Begin, send_prompt,
       ensure_live_session, register_live_session, publish, startup_fails, send, store, rebind_start,
       export_fails, close_actor, rebind_finish, queue_transfer, rebind_ends, append_fails,
       begin_prompt, prepare, prepared, prompt_ends, Drop, load_session_mcp_servers,
       send_initial_config_options, Push, handle_non_prompt_command, rpc_fails, agent_exits,
       replace_config, patch_mcp_server

\* A failure is an end as Ended wants it.
LEMMA Failed ==
    ASSUME Sound, Sound', Agreed, NEW r \in Req, Fail(r), req[r].pc # "store",
           actor' = actor \/ actor' = NoActor, UNCHANGED <<files, moved>>
    PROVE  Agreed'
<1>1. End(r)
  BY DEF Fail
<1>2. ASSUME r \in Untried
      PROVE  stored' = [stored EXCEPT !.profile = req[r].previous] /\ (applied' <=> applied)
  <2>1. req[r].kind = "transition" /\ ~(req[r].n = 1)
    BY <1>2 DEF Untried
  <2>2. stored' = [stored EXCEPT !.profile = req[r].previous]
    BY <2>1 DEF Fail
  <2>3. applied' <=> applied
    BY <2>1, Zenon DEF Fail
  <2> QED
    BY <2>2, <2>3
<1>3. ASSUME r \notin Untried
      PROVE  \/ stored' = stored /\ (applied' <=> applied)
             \/ applied' /\ stored'.model = stored.model /\ r \in Setting
  <2>1. CASE req[r].kind = "transition"
    <3>1. req[r].n = 1
      BY <1>3, <2>1 DEF Sound, RequestsOK, Untried
    <3> QED
      BY <2>1, <3>1 DEF Fail, Sound, Types, Setting
  <2>2. CASE req[r].kind # "transition"
    BY <2>2 DEF Fail
  <2> QED
    BY <2>1, <2>2
<1> QED
  BY <1>1, <1>2, <1>3, Ended

LEMMA AgreedStep ==
    ASSUME Sound, Sound', Agreed, CallersStay, Next, ~daemon_restart, ~blurred'
    PROVE  Agreed'
<1>1. ASSUME NEW r \in Req, NEW v \in Value,
             set_session_profile(r, v) \/ switch_model(r, v) \/ transition_history(r, v)
      PROVE  Agreed'
  BY <1>1, SetBegins, SwitchBegins, TransitionBegins
<1>2. ASSUME NEW r \in Req, send_prompt(r) PROVE Agreed'
  <2>1. /\ Begin(r, "prompt", None, "live") /\ UNCHANGED <<stored, files, actor, moved, applied>>
    BY <1>2 DEF send_prompt
  <2>2. /\ req[r].pc = "free" /\ req'[r].kind = "prompt" /\ req'[r].pc = "live"
        /\ \A q \in Req \ {r} : req'[q] = req[q]
    BY <2>1, BeginMakes DEF Sound, Pc
  <2>3. req[r].kind \notin SettingKind
    BY <2>2 DEF Sound, RequestsOK, StepOfKind, SettingKind
  <2>4. \A q \in Req : Follows(q)
    BY <2>2, <2>3 DEF Follows, At, SettingKind
  <2> QED
    BY <2>1, <2>4, Followed DEF files
<1>3. ASSUME NEW r \in Req, ensure_live_session(r) PROVE Agreed'
  <2>1. \E pc \in Pc \ {"store", "starting", "finished", "append"} :
           Goto(r, pc) /\ UNCHANGED <<stored, files, actor, moved, applied>> /\ req[r].pc # "store"
    BY <1>3 DEF ensure_live_session, NextPc, Pc, At
  <2> QED
    BY <2>1, MovedOn
<1>4. ASSUME NEW r \in Req, register_live_session(r) PROVE Agreed'
  <2>1. /\ Goto(r, "starting") /\ Spawn(stored.model) /\ req[r].pc = "live" /\ Setting \ {r} = {}
        /\ UNCHANGED <<stored, files, moved, applied>>
    BY <1>4 DEF register_live_session, At
  <2>2. Setting \subseteq {r} /\ req[r].kind # "set" /\ stored.model \in Value
    BY <2>1 DEF Sound, RequestsOK, StepOfKind, Types
  <2> QED
    BY <2>1, <2>2, Spawned DEF Awaited
<1>5. ASSUME NEW r \in Req, publish(r) PROVE Agreed'
  <2>1. /\ Goto(r, "live") /\ req[r].pc = "starting" /\ actor.pc = "loaded"
        /\ actor' = [actor EXCEPT !.pc = AfterStart]
        /\ UNCHANGED <<stored, files, moved, applied>>
    BY <1>5 DEF publish, At
  <2>2. stored'.model = actor.model /\ stored'.profile = stored.profile
    BY <2>1 DEF Agreed, ModelOK, At
  <2> QED
    BY <2>1, <2>2, Started DEF Awaited
<1>6. ASSUME NEW r \in Req, rebind_finish(r) PROVE Agreed'
  <2>1. /\ Goto(r, "finished") /\ req[r].pc = "replacing" /\ actor.pc = "loaded"
        /\ actor' = [actor EXCEPT !.pc = AfterStart] /\ stored' = [stored EXCEPT !.model = actor.model]
        /\ UNCHANGED <<files, moved, applied>>
    BY <1>6 DEF rebind_finish, At
  <2>2. stored'.model = actor.model /\ stored'.profile = stored.profile
    BY <2>1 DEF Sound, Types
  <2> QED
    BY <2>1, <2>2, Started DEF Awaited
<1>7. ASSUME NEW r \in Req, startup_fails(r) PROVE Agreed'
  <2>1. Fail(r) /\ req[r].pc # "store" /\ actor' = NoActor /\ UNCHANGED <<files, moved>>
    BY <1>7 DEF startup_fails
  <2> QED
    BY <2>1, Failed
<1>8. ASSUME NEW r \in Req, export_fails(r) \/ append_fails(r) PROVE Agreed'
  <2>1. Fail(r) /\ req[r].pc # "store" /\ actor' = actor /\ UNCHANGED <<files, moved>>
    BY <1>8 DEF export_fails, append_fails, At
  <2> QED
    BY <2>1, Failed
<1>9. ASSUME NEW r \in Req, send(r) PROVE Agreed'
  <2>1. /\ req[r].pc = "send" /\ UNCHANGED <<stored, files, actor, moved, applied>>
        /\ Goto(r, "wait") \/ End(r)
    BY <1>9 DEF send, At
  <2>2. CASE Goto(r, "wait")
    BY <2>1, <2>2, MovedOn DEF Pc
  <2>3. CASE End(r)
    <3>1. r \notin Untried
      BY <2>1 DEF Untried, Sound, RequestsOK, StepOfKind
    <3> QED
      BY <2>1, <2>3, <3>1, Ended
  <2> QED
    BY <2>1, <2>2, <2>3
<1>10. ASSUME NEW r \in Req, rebind_start(r) PROVE Agreed'
  <2>1. req[r].pc = "rebind" /\ UNCHANGED <<files, actor, moved>>
    BY <1>10 DEF rebind_start, At
  <2>2. CASE Fail(r)
    BY <2>1, <2>2, Failed
  <2>3. CASE Goto(r, "close") /\ UNCHANGED <<stored, applied>>
    BY <2>1, <2>3, MovedOn DEF Pc
  <2> QED
    BY <1>10, <2>2, <2>3 DEF rebind_start
<1>11. ASSUME NEW r \in Req, close_actor(r) PROVE Agreed'
  <2>1. req[r].pc = "close" /\ UNCHANGED <<files, moved>> /\ actor.pc \in {"none", "loop"}
    BY <1>11 DEF close_actor, At
  <2>2. CASE Fail(r) /\ actor' = actor
    BY <2>1, <2>2, Failed
  <2>3. CASE /\ Spawn(IF req[r].kind = "switch" THEN req[r].value ELSE stored.model)
             /\ Goto(r, "replacing") /\ UNCHANGED <<stored, applied>>
    <3>1. req[r].kind \in {"switch", "transition"} /\ r \in Setting
      BY <2>1 DEF Sound, Types, RequestsOK, StepOfKind, Request, SettingKind, Setting
    <3>2. Setting \subseteq {r} /\ (req[r].kind = "switch" => req[r].value \in Value) /\ stored.model \in Value
      BY <3>1 DEF Agreed, OneSetting, Sound, RequestsOK, SettingKind, Types
    <3>3. \A q \in Req : ~At(q, "starting")
      BY <2>1 DEF Sound, StartOK, At
    <3> DEFINE m == IF req[r].kind = "switch" THEN req[r].value ELSE stored.model
    <3>4. m \in Value /\ Spawn(m)
      BY <2>3, <3>2
    <3> HIDE DEF m
    <3> QED
      BY <2>1, <2>3, <3>1, <3>2, <3>3, <3>4, Spawned DEF Awaited
  <2> QED
    BY <1>11, <2>2, <2>3 DEF close_actor
<1>12. ASSUME NEW r \in Req, store(r) PROVE Agreed'
  BY <1>12, StoreAgrees
<1>13. ASSUME NEW r \in Req, queue_transfer(r) PROVE Agreed'
  <2>1. Goto(r, "append") /\ req[r].pc = "finished" /\ UNCHANGED <<stored, files, actor, moved, applied>>
    BY <1>13 DEF queue_transfer, At
  <2> QED
    BY <2>1, MovedOn DEF Pc
<1>14. ASSUME NEW r \in Req, rebind_ends(r) PROVE Agreed'
  <2>1. End(r) /\ req[r].pc = "append" /\ UNCHANGED <<stored, files, actor, moved, applied>>
    BY <1>14 DEF rebind_ends, At
  <2>2. r \notin Untried
    BY <2>1 DEF Agreed, TriedOK
  <2> QED
    BY <2>1, <2>2, Ended
<1>15. ASSUME NEW r \in Req, begin_prompt(r) PROVE Agreed'
  <2>1. /\ req[r].pc = "begin" /\ UNCHANGED <<stored, files, actor, moved, applied>>
        /\ Goto(r, "prepare") \/ End(r)
    BY <1>15 DEF begin_prompt, At
  <2>2. CASE Goto(r, "prepare")
    BY <2>1, <2>2, MovedOn DEF Pc
  <2>3. CASE End(r)
    <3>1. r \notin Untried
      BY <2>1 DEF Untried, Sound, RequestsOK, StepOfKind
    <3> QED
      BY <2>1, <2>3, <3>1, Ended
  <2> QED
    BY <2>1, <2>2, <2>3
<1>16. ASSUME NEW r \in Req, prepare(r) PROVE Agreed'
  <2>1. /\ req'[r].pc = "insert" /\ req'[r].kind = req[r].kind /\ \A q \in Req \ {r} : req'[q] = req[q]
        /\ UNCHANGED <<stored, files, actor, moved, applied>>
    BY <1>16, PrepareMoves DEF prepare, Sound
  <2>2. req[r].kind \notin SettingKind
    BY <1>16 DEF prepare, At, Sound, RequestsOK, StepOfKind, SettingKind
  <2>3. \A q \in Req : Follows(q)
    BY <2>1, <2>2 DEF Follows, At
  <2> QED
    BY <2>1, <2>3, Followed DEF files
<1>17. ASSUME NEW r \in Req, prepared(r) PROVE Agreed'
  <2>1. Goto(r, "sent") /\ req[r].pc = "insert" /\ UNCHANGED <<stored, files, actor, moved, applied>>
    BY <1>17 DEF prepared, At
  <2> QED
    BY <2>1, MovedOn DEF Pc
<1>18. ASSUME NEW r \in Req, prompt_ends(r) PROVE Agreed'
  <2>1. End(r) /\ req[r].pc = "sent" /\ UNCHANGED <<stored, files, actor, moved, applied>>
    BY <1>18 DEF prompt_ends, At
  <2>2. r \notin Untried
    BY <2>1 DEF Untried, Sound, RequestsOK, StepOfKind
  <2> QED
    BY <2>1, <2>2, Ended
<1>19. ASSUME NEW r \in Req, Drop(r) PROVE Agreed'
  BY <1>19 DEF Drop
<1>20. ASSUME load_session_mcp_servers PROVE Agreed'
  BY <1>20, LoadAgrees
<1>21. ASSUME send_initial_config_options PROVE Agreed'
  BY <1>21, PushAgrees
<1>22. ASSUME handle_non_prompt_command PROVE Agreed'
  BY <1>22, CommandAgrees
<1>23. ASSUME agent_exits PROVE Agreed'
  <2>1. /\ actor' = NoActor /\ UNCHANGED <<stored, files, moved>>
        /\ \A q \in Req : req'[q] = req[q] \/ req'[q] = Idle
    BY <1>23 DEF agent_exits
  <2> QED
    BY <2>1, Gone
<1>24. ASSUME replace_config \/ patch_mcp_server PROVE Agreed'
  <2>1. moved' /\ UNCHANGED <<stored, offers, actor, req, applied>>
    BY <1>24 DEF replace_config, patch_mcp_server
  <2>2. \A q \in Req : Follows(q)
    BY <2>1 DEF Follows, At
  <2> QED
    BY <2>1, <2>2, Followed
<1> QED
  BY <1>1, <1>2, <1>3, <1>4, <1>5, <1>6, <1>7, <1>8, <1>9, <1>10, <1>11, <1>12, <1>13, <1>14, <1>15,
     <1>16, <1>17, <1>18, <1>19, <1>20, <1>21, <1>22, <1>23, <1>24 DEF Next
------------------------------------------------------------------------------
(* The channel while nobody goes away, and the transcript                     *)

LEMMA CallersStep ==
    ASSUME Sound, Sound', CallersStay, Next, ~blurred'
    PROVE  CallersStay'
<1>0. /\ Len(queue) \in Nat /\ DOMAIN queue = 1..Len(queue)
      /\ \A i \in 1..Len(queue) : queue[i] \in Commands /\ queue[i].of \in Req \union {None}
  BY CommandsAre DEF Sound
<1>1. CASE queue' = queue
  BY <1>1 DEF CallersStay
<1>2. CASE queue' = <<>>
  BY <1>2 DEF CallersStay
<1>3. CASE queue # <<>> /\ queue' = Tail(queue)
  <2>1. /\ Len(queue') = Len(queue) - 1 /\ \A i \in 1..Len(queue') : queue'[i] = queue[i + 1]
    BY <1>3, HeadTailProperties DEF Sound, Types
  <2> QED
    BY <1>0, <2>1 DEF CallersStay
<1>4. ASSUME NEW r \in Req, queue' = Append(queue, Command(r)), req[r].pc = "send" PROVE CallersStay'
  <2>1. Command(r) \in Commands /\ Command(r).of # None
    <3>1. req[r].kind \in SettingKind
      BY <1>4 DEF Sound, Types, RequestsOK, StepOfKind, Request
    <3> QED
      BY <3>1, NoneIsNew DEF Sound, RequestsOK, Command, Commands, OptionOf, Option
  <2>2. /\ Len(queue') = Len(queue) + 1 /\ queue'[Len(queue) + 1] = Command(r)
        /\ \A i \in 1..Len(queue) : queue'[i] = queue[i]
    BY <1>4, <2>1, AppendProperties DEF Sound, Types
  <2> QED
    BY <1>0, <2>1, <2>2 DEF CallersStay
<1>5. \/ queue' = queue \/ queue' = <<>> \/ (queue # <<>> /\ queue' = Tail(queue))
      \/ \E r \in Req : queue' = Append(queue, Command(r)) /\ req[r].pc = "send"
  BY DEF Next, set_session_profile, switch_model, transition_history, send_prompt,
         ensure_live_session, register_live_session, Spawn, publish, startup_fails, send, store,
         rebind_start, export_fails, close_actor, rebind_finish, queue_transfer, rebind_ends,
         append_fails, begin_prompt, prepare, prepared, prompt_ends, Drop, load_session_mcp_servers,
         send_initial_config_options, Push, handle_non_prompt_command, agent_exits,
         replace_config, patch_mcp_server, daemon_restart, At
<1> QED
  BY <1>1, <1>2, <1>3, <1>4, <1>5

\* While the pipeline rests, nobody new inserts what it prepared.
LEMMA TransferRests ==
    ASSUME TransferOK, UNCHANGED pipeline,
           \A q \in Req : At(q, "insert")' => At(q, "insert")
    PROVE  TransferOK'
BY DEF TransferOK, pipeline

LEMMA TransferStep ==
    ASSUME Sound, TransferOK, [Next]_vars
    PROVE  TransferOK'
<1>1. ASSUME NEW r \in Req, queue_transfer(r) PROVE TransferOK'
  <2>1. Goto(r, "append") /\ prompts' = 0 /\ transfer' = TRUE /\ owed' = ~Early
    BY <1>1 DEF queue_transfer
  <2>2. \A q \in Req : At(q, "insert")' => At(q, "insert")
    BY <2>1, GotoMoves DEF At, Sound, Pc
  <2>3. owed' => \A q \in Req : ~At(q, "insert")
    BY <2>1 DEF Early, At
  <2> QED
    BY <2>1, <2>2, <2>3 DEF TransferOK
<1>2. ASSUME NEW r \in Req, prepare(r) PROVE TransferOK'
  BY <1>2 DEF prepare, TransferOK
<1>3. ASSUME NEW r \in Req, prepared(r) PROVE TransferOK'
  <2>1. At(r, "insert") /\ owed' = owed
    BY <1>3 DEF prepared
  <2> QED
    BY <2>1 DEF TransferOK
<1>4. ASSUME daemon_restart PROVE TransferOK'
  BY <1>4 DEF daemon_restart, TransferOK
<1>5. ASSUME NEW r \in Req, NEW v \in Value,
             \/ set_session_profile(r, v) \/ switch_model(r, v) \/ transition_history(r, v)
             \/ send_prompt(r)
      PROVE  TransferOK'
  <2>1. UNCHANGED pipeline
    BY <1>5 DEF set_session_profile, switch_model, transition_history, send_prompt
  <2>2. \A q \in Req : At(q, "insert")' => At(q, "insert")
    <3>1. \/ Begin(r, "set", v, "send") \/ Begin(r, "set", v, "store") \/ Begin(r, "switch", v, "live")
          \/ Begin(r, "transition", v, "live") \/ Begin(r, "prompt", None, "live")
      BY <1>5 DEF set_session_profile, switch_model, transition_history, send_prompt
    <3>2. req'[r].pc \in {"send", "store", "live"} /\ \A q \in Req \ {r} : req'[q] = req[q]
      BY <3>1, BeginMakes DEF Sound, SettingKind, Pc
    <3> QED
      BY <3>2 DEF At
  <2> QED
    BY <2>1, <2>2, TransferRests
<1>6. ASSUME NEW r \in Req,
             \/ ensure_live_session(r) \/ register_live_session(r) \/ publish(r) \/ startup_fails(r)
             \/ send(r) \/ store(r) \/ rebind_start(r) \/ export_fails(r) \/ close_actor(r)
             \/ rebind_finish(r) \/ rebind_ends(r) \/ append_fails(r) \/ begin_prompt(r)
             \/ prompt_ends(r) \/ Drop(r)
      PROVE  TransferOK'
  <2>1. UNCHANGED pipeline /\ (End(r) \/ \E pc \in Pc \ {"insert"} : Goto(r, pc))
    BY <1>6 DEF ensure_live_session, NextPc, register_live_session, publish, startup_fails, send, store,
                rebind_start, export_fails, close_actor, rebind_finish, rebind_ends, append_fails,
                begin_prompt, prompt_ends, Drop, Fail, Pc
  <2>2. req'[r].pc # "insert" /\ \A q \in Req \ {r} : req'[q] = req[q]
    BY <2>1, EndFrees, GotoMoves, IdleIs DEF Sound
  <2> QED
    BY <2>1, <2>2, TransferRests DEF At
<1>7. ASSUME load_session_mcp_servers PROVE TransferOK'
  <2>1. /\ UNCHANGED pipeline
        /\ req' = [r \in Req |-> IF req[r].kind = "transition" THEN [req[r] EXCEPT !.n = 1] ELSE req[r]]
    BY <1>7 DEF load_session_mcp_servers
  <2>2. \A q \in Req : req'[q].pc = req[q].pc
    BY <2>1 DEF Sound, Types, Request
  <2> QED
    BY <2>1, <2>2, TransferRests DEF At
<1>8. ASSUME handle_non_prompt_command PROVE TransferOK'
  <2>1. PICK c \in Commands : c = Head(queue)
    BY <1>8, HeadWaits DEF Sound, handle_non_prompt_command
  <2>2. /\ UNCHANGED pipeline
        /\ Answer(c, [req[c.of] EXCEPT !.pc = "store"]) \/ Answer(c, Idle)
    BY <1>8, <2>1 DEF handle_non_prompt_command, rpc_fails
  <2>3. \A q \in Req : req'[q].pc = "insert" => req[q].pc = "insert"
    BY <2>1, <2>2, IdleIs DEF Answer, Sound, Types, Commands, Request
  <2> QED
    BY <2>2, <2>3, TransferRests DEF At
<1>9. ASSUME agent_exits PROVE TransferOK'
  <2>1. UNCHANGED pipeline /\ \A q \in Req : req'[q] = req[q] \/ req'[q] = Idle
    BY <1>9 DEF agent_exits
  <2> QED
    BY <2>1, IdleIs, TransferRests DEF At
<1>10. ASSUME send_initial_config_options \/ replace_config \/ patch_mcp_server \/ UNCHANGED vars
       PROVE  TransferOK'
  <2>1. UNCHANGED pipeline /\ req' = req
    BY <1>10 DEF send_initial_config_options, Push, replace_config, patch_mcp_server, vars, pipeline
  <2> QED
    BY <2>1, TransferRests DEF At
<1> QED
  BY NoneIsNew, <1>1, <1>2, <1>3, <1>4, <1>5, <1>6, <1>7, <1>8, <1>9, <1>10 DEF Next

------------------------------------------------------------------------------
(* The invariant                                                               *)

LEMMA InitInv == Init => Inv
<1> SUFFICES ASSUME Init PROVE Inv
  OBVIOUS
<1>1. \A r \in Req : req[r] = Idle
  BY DEF Init
<1>2. actor = NoActor /\ queue = <<>> /\ owed = FALSE
  BY DEF Init
<1>3. Types
  <2>1. stored \in [profile : Value \union {None}, model : Value]
    BY NoneIsNew DEF Init
  <2>2. allow \in [Value -> SUBSET Server] /\ enabled \subseteq Server /\ offers \subseteq Option
    BY ConfiguredAssumption DEF Init
  <2>3. req \in [Req -> Request]
    BY IdleIs DEF Init
  <2>4. prompts \in 0..2 /\ queue \in Seq(Commands)
    BY DEF Init
  <2> QED
    BY <1>2, <2>1, <2>2, <2>3, <2>4, NoActorIs DEF Types
<1>4. RequestsOK
  BY <1>1, IdleIs DEF RequestsOK, SettingKind, None
<1>5. QueueOK /\ CallersStay
  BY <1>2 DEF QueueOK, CallersStay
<1>6. StartOK
  BY <1>1, <1>2, IdleIs, NoActorIs DEF StartOK
<1>7. Agreed
  <2>1. Setting = {} /\ Untried = {}
    BY <1>1, IdleIs DEF Setting, Untried, None
  <2> QED
    BY <1>1, <1>2, <2>1, IdleIs, NoActorIs
       DEF Agreed, OneSetting, Starting, StoreOK, ModelOK, TriedOK, ProfileOK, AccessOK, At, None
<1>8. TransferOK
  BY <1>2 DEF TransferOK
<1> QED
  BY <1>3, <1>4, <1>5, <1>6, <1>7, <1>8 DEF Inv, Sound

LEMMA InvStep == Inv /\ [Next]_vars => Inv'
<1> SUFFICES ASSUME Inv, [Next]_vars PROVE Inv'
  OBVIOUS
<1>1. Sound /\ TransferOK /\ Sound' /\ TransferOK'
  BY SoundStep, TransferStep DEF Inv
<1>2. ASSUME ~blurred' PROVE Agreed' /\ CallersStay'
  <2>1. CASE daemon_restart
    <3>1. /\ actor' = NoActor /\ queue' = <<>> /\ \A q \in Req : req'[q] = Idle
      BY <2>1 DEF daemon_restart
    <3>2. Setting' = {} /\ Untried' = {}
      BY <3>1, IdleIs DEF Setting, Untried, None
    <3>3. Agreed'
      BY <3>1, <3>2, IdleIs, NoActorIs
         DEF Agreed, OneSetting, Starting, StoreOK, ModelOK, TriedOK, ProfileOK, AccessOK, At, None
    <3> QED
      BY <3>1, <3>3 DEF CallersStay
  <2>2. CASE ~daemon_restart /\ Next
    <3>1. Agreed /\ CallersStay
      BY <1>2, <2>2, BlurStays DEF Inv
    <3> QED
      BY <1>1, <1>2, <2>2, <3>1, AgreedStep, CallersStep
  <2>3. CASE UNCHANGED vars
    <3>1. Agreed /\ CallersStay
      BY <1>2, <2>3 DEF Inv, vars
    <3>2. Agreed'
      BY <1>1, <2>3, <3>1, Followed DEF vars, Follows, At
    <3> QED
      BY <2>3, <3>1, <3>2 DEF CallersStay, vars
  <2> QED
    BY <2>1, <2>2, <2>3
<1> QED
  BY <1>1, <1>2 DEF Inv

\* What a request, the daemon and the agent hold of a setting agree at every step of the
\* request, and the transcript of a transition is kept for the prompt that owes it
\* (set_session_profile, switch_model, transition_history, PromptPipeline::prepare).
THEOREM Invariance == Spec => []Inv
<1> QED
  BY InitInv, InvStep, PTL DEF Spec

\* The agent works with the profile, the model and the servers that the daemon shows for it
\* once the settings are at rest (set_session_profile, switch_model, transition_history).
THEOREM SettingsReachAgent == Spec => []AgentMatches
<1>1. Inv => OptionsAgree
  <2> SUFFICES ASSUME Inv, Quiet, ~blurred, ~applied, NEW o \in offers PROVE actor.value[o] = Current(o)
    BY DEF OptionsAgree
  <2>1. Agreed /\ Types /\ Setting = {} /\ actor.pc = "loop"
    BY DEF Inv, Sound, Quiet
  <2>2. Untried = {} /\ ~Storing /\ ~Switching
    BY <2>1 DEF Untried, Storing, Switching, Setting
  <2>3. CASE o = "profile"
    BY <2>1, <2>2, <2>3 DEF Agreed, ProfileOK
  <2>4. CASE o = "model"
    <3>1. actor.value["model"] = stored.model /\ stored.model \in Value
      BY <2>1, <2>2, <2>4 DEF Agreed, ModelOK, Types
    <3> QED
      BY <2>4, <3>1, NoneIsNew DEF Current
  <2> QED
    BY <2>1, <2>3, <2>4 DEF Types, Option
<1>2. Inv => AccessFollowsProfile
  <2> SUFFICES ASSUME Inv, Quiet, ~blurred, ~moved, ~applied
               PROVE  actor.attached = Effective(Current("profile"))
    BY DEF AccessFollowsProfile
  <2>1. Agreed /\ Untried = {} /\ actor.pc = "loop"
    BY DEF Inv, Quiet, Untried, Setting
  <2> QED
    BY <2>1 DEF Agreed, AccessOK
<1> QED
  BY <1>1, <1>2, Invariance, PTL DEF AgentMatches

\* A transcript that the next prompt owes the agent waits for it, as the first prompt of the
\* new agent (queue_transfer, prepare).
THEOREM TranscriptIsKept == Spec => []TranscriptWaits
<1>1. Inv => TranscriptWaits
  BY DEF Inv, TransferOK, TranscriptWaits
<1> QED
  BY <1>1, Invariance, PTL
=============================================================================
