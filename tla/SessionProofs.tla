---------------------------- MODULE SessionProofs ----------------------------
(* Theorems about SessionLifecycle for any number of operations, actors,       *)
(* restarts and faults, proved with TLAPS.  The inductive invariant has three  *)
(* layers: the prompts and who holds the sender of their result; what the      *)
(* sticky bit of a cancel stands for; and who may spawn an actor when.         *)
EXTENDS SessionLifecycle, SequenceTheorems, TLAPS

PC == {"new", "ensure", "go", "done", "spawning", "published", "prepare", "lost", "admitted",
       "send", "mark", "grace", "close", "closing", "closed", "export", "replacing", "respawn"}
OpType == [kind : Kind, pc : PC, gen : 0..MaxGen, answered : BOOLEAN,
           dog : {"off", "armed", "fired"}]
ActorType == [at : AliveAt \union {"none", "dead"}, queue : Seq(Command), turn : 0..MaxOps,
              sticky : BOOLEAN, report : BOOLEAN]
LiveType == [state : State, gen : Gen] \union {Absent}

Types ==
    /\ live \in LiveType
    /\ dormant \in BOOLEAN /\ disk \in BOOLEAN /\ doubled \in BOOLEAN
    /\ lock \in {0} \union Op
    /\ actor \in [Gen -> ActorType]
    /\ op \in [Op -> OpType]
    /\ cancelled \subseteq Op /\ cleared \subseteq Op
    /\ \A i \in Op : op[i].pc \in {"spawning", "respawn", "prepare", "admitted", "send", "export",
                                   "replacing"} => op[i].gen \in Gen

(* Operations are called in order, and nothing is live before the first.       *)
CalledInOrder ==
    /\ \A i, j \in Op : i < j /\ ~At(j, "new") => ~At(i, "new")
    /\ IsLive => \E i \in Op : ~At(i, "new")
    /\ lock # 0 => op[lock].pc \in {"spawning", "published"}

------------------------------------------------------------------------------
(* The prompts: who holds the sender of a result does so alone, for a prompt   *)
(* of its own generation that waits for it.                                    *)

TurnsInLoop ==
    \A g \in Gen : /\ actor[g].turn # 0 => actor[g].at \in {"opening", "draining", "turn"}
                   /\ ~Alive(g) => actor[g].queue = <<>>

HeldAreWaiting ==
    /\ \A g \in Gen : \A p \in Held(g) : At(p, "admitted") /\ ~op[p].answered /\ op[p].gen = g
    /\ \A i \in Op : op[i].answered => op[i].pc \in {"admitted", "done"}

HeldOnce ==
    \A g \in Gen : \A n \in Commands(g, "prompt") :
       /\ actor[g].queue[n].op # actor[g].turn
       /\ \A m \in Commands(g, "prompt") : actor[g].queue[m].op = actor[g].queue[n].op => m = n

PromptInv == TurnsInLoop /\ HeldAreWaiting /\ HeldOnce /\ AdmittedIsHeard /\ RunningIsOwned

(* A cancelled prompt that may still go out has its bit set.                   *)
StickyBit ==
    /\ \A g \in Gen, p \in cancelled \ cleared :
          Alive(g) /\ (p \in Held(g) \/ (At(p, "prepare") /\ op[p].gen = g)) => actor[g].sticky
    /\ \A p \in cancelled : op[p].pc \in {"prepare", "admitted", "lost", "done"}

------------------------------------------------------------------------------
(* Who spawns: a restore behind the lock, the first creation, or a rebind of   *)
(* the live session, and never two of these at once.                           *)

RestoresAlone ==
    \A i \in Op : At(i, "spawning") =>
       /\ ~IsLive
       /\ lock = i \/ (i = 1 /\ lock = 0 /\ ~dormant)
       /\ \A j \in Op : ~Rebinding(j)

\* A record is dormant again only after a restart, which ends every operation.
NotDormantAgain ==
    \A i \in Op : At(i, "published") \/ Rebinding(i) => IsLive \/ ~dormant

RebindsAlone ==
    \A i \in Op : Rebinding(i) =>
       /\ \A j \in Op : Rebinding(j) => i = j
       /\ IsLive => IF At(i, "respawn") THEN ~Alive(live.gen) ELSE op[i].gen = live.gen

SpawnedAreNew ==
    \A i \in Op : op[i].pc \in {"spawning", "respawn"} =>
       op[i].gen \in Gen /\ actor[op[i].gen].at \in {"starting", "ready", "dead"}

SpawnInv ==
    /\ RestoresAlone /\ NotDormantAgain
    /\ ~doubled => RebindsAlone /\ SpawnedAreNew /\ NoOrphan

\* The entry names an actor that was registered, and so does an admitted prompt.
LiveWasSpawned ==
    /\ IsLive => actor[live.gen].at \in Registered \union {"dead"}
    /\ \A i \in Op : At(i, "prepare") => actor[op[i].gen].at # "none"

WellFormed == Types /\ CalledInOrder /\ LiveWasSpawned
Inv == WellFormed /\ PromptInv /\ StickyBit /\ SpawnInv

------------------------------------------------------------------------------
(* Lemmas about the small steps                                                *)

LEMMA RecordTypes ==
    /\ NoActor \in ActorType /\ NewActor \in ActorType /\ DeadActor \in ActorType
    /\ NewActor.at = "starting" /\ DeadActor.at = "dead" /\ NoActor.at = "none"
    /\ NewActor.turn = 0 /\ DeadActor.turn = 0 /\ NoActor.turn = 0
    /\ NewActor.queue = <<>> /\ DeadActor.queue = <<>> /\ NoActor.queue = <<>>
    /\ \A r \in BOOLEAN : LET d == [DeadActor EXCEPT !.report = r]
                          IN  d \in ActorType /\ d.at = "dead" /\ d.turn = 0 /\ d.queue = <<>>
    /\ NewOp \in OpType /\ NewOp.pc = "new" /\ ~NewOp.answered
    /\ Over \in OpType /\ Over.pc = "done" /\ ~Over.answered
<1>1. <<>> \in Seq(Command)
  BY EmptySeq
<1>2. NoActor \in ActorType
  BY <1>1, BoundsAssumption DEF NoActor, ActorType
<1>3. NewActor \in ActorType /\ DeadActor \in ActorType
  BY <1>2 DEF NewActor, DeadActor, ActorType, AliveAt, Registered, Loop
<1>4. \A r \in BOOLEAN : [DeadActor EXCEPT !.report = r] \in ActorType
  BY <1>3 DEF ActorType
<1>5. NewOp \in OpType
  BY BoundsAssumption DEF NewOp, OpType, PC, Kind
<1>6. Over \in OpType
  BY <1>5 DEF Over, OpType, PC
<1> QED
  BY <1>2, <1>3, <1>4, <1>5, <1>6 DEF NewOp, Over, NewActor, DeadActor, NoActor

(* An operation that rests keeps its place, and all it has unless it is done.  *)
LEMMA RestKeeps ==
    ASSUME NEW o \in OpType
    PROVE  /\ Rest(o) \in OpType /\ Rest(o).pc = o.pc
           /\ o.pc # "done" => Rest(o) = o
           /\ Rest(o).answered => o.answered
BY RecordTypes DEF Rest

Others(i) == \A j \in Op \ {i} : op'[j] = op[j]

(* Operation i goes to pc and takes along what it has, unless it is done.      *)
GoesTo(i, pc) ==
    /\ op' \in [Op -> OpType] /\ Others(i) /\ op'[i].pc = pc
    /\ op'[i].answered => op[i].answered
    /\ pc # "done" => /\ op'[i].kind = op[i].kind /\ op'[i].gen = op[i].gen
                      /\ op'[i].answered = op[i].answered

LEMMA GotoSteps ==
    ASSUME Types, NEW i \in Op, NEW pc \in PC, Goto(i, pc)
    PROVE  GoesTo(i, pc)
<1> DEFINE o == [op[i] EXCEPT !.pc = pc]
<1>1. op \in [Op -> OpType]
  BY DEF Types
<1>2. o \in OpType /\ o.pc = pc /\ o.answered = op[i].answered /\ o.kind = op[i].kind
      /\ o.gen = op[i].gen
  BY <1>1 DEF OpType
<1>3. op' = [op EXCEPT ![i] = Rest(o)]
  BY <1>1 DEF Goto
<1> HIDE DEF o
<1>4. /\ Rest(o) \in OpType /\ Rest(o).pc = pc
      /\ pc # "done" => Rest(o) = o
      /\ Rest(o).answered => o.answered
  BY <1>2, RestKeeps
<1> QED
  BY <1>1, <1>2, <1>3, <1>4 DEF GoesTo, Others

(* The state of the entry changes, not whose entry it is.                      *)
LiveKept ==
    /\ live' \in LiveType /\ live'.gen = live.gen
    /\ live'.state = "absent" <=> live.state = "absent"

LEMMA LiveSteps ==
    ASSUME Types
    PROVE  /\ IsLive => live.state \in State /\ live.gen \in Gen
           /\ ~IsLive => live = Absent
           /\ live' = live => LiveKept
           /\ \A s \in State : IsLive /\ SetState(s) => LiveKept /\ live'.state = s
           /\ \A s \in State : update_state(s) =>
                 LiveKept /\ live'.state = IF IsLive THEN s ELSE "absent"
           /\ \A e, s \in State : update_state_if(e, s) =>
                 LiveKept /\ live'.state = IF live.state = e THEN s ELSE live.state
           /\ \A g : mark_failed_if_current(g) =>
                 LiveKept /\ live'.state \in {live.state, "failed"}
<1>1. live \in LiveType
  BY DEF Types
<1>2. /\ IsLive => live \in [state : State, gen : Gen]
      /\ ~IsLive => live = Absent
  BY <1>1 DEF LiveType, IsLive, Absent, State
<1>3. \A s \in State : IsLive /\ SetState(s) => LiveKept /\ live'.state = s
  BY <1>2 DEF SetState, LiveKept, LiveType, State, IsLive
<1>4. live' = live => LiveKept
  BY <1>1 DEF LiveKept
<1>5. "failed" \in State /\ \A e \in State : live.state = e => IsLive
  BY DEF State, IsLive
<1>6. live.state = "absent" <=> ~IsLive
  BY DEF IsLive
<1> QED
  BY <1>2, <1>3, <1>4, <1>5, <1>6 DEF update_state, update_state_if, mark_failed_if_current

(* A command goes to the back of a queue, or to nobody.                        *)
Pushed(g, k, i) ==
    /\ actor' \in [Gen -> ActorType]
    /\ \A h \in Gen : /\ actor'[h].at = actor[h].at /\ actor'[h].turn = actor[h].turn
                      /\ actor'[h].sticky = actor[h].sticky
                      /\ h # g => actor'[h] = actor[h]
    /\ actor'[g].queue = IF Alive(g) THEN Append(actor[g].queue, [kind |-> k, op |-> i])
                         ELSE actor[g].queue

LEMMA PushSteps ==
    ASSUME Types, NEW g \in Gen, NEW k \in {"prompt", "cancel", "close"}, NEW i \in Op, Push(g, k, i)
    PROVE  Pushed(g, k, i)
<1>1. actor \in [Gen -> ActorType] /\ actor[g].queue \in Seq(Command)
  BY DEF Types, ActorType
<1>2. [kind |-> k, op |-> i] \in Command
  BY DEF Command
<1>3. Append(actor[g].queue, [kind |-> k, op |-> i]) \in Seq(Command)
  BY <1>1, <1>2, AppendProperties
<1>4. CASE Alive(g)
  <2>1. actor' = [actor EXCEPT ![g].queue = Append(actor[g].queue, [kind |-> k, op |-> i])]
    BY <1>4 DEF Push
  <2> HIDE DEF Alive
  <2> QED
    BY <1>1, <1>3, <1>4, <2>1 DEF Pushed, ActorType
<1>5. CASE ~Alive(g)
  BY <1>1, <1>5 DEF Push, Pushed
<1> QED
  BY <1>4, <1>5

(* The prompts of S are answered, and nothing else changes.                    *)
Answered(S) ==
    /\ op' \in [Op -> OpType]
    /\ \A i \in Op : /\ op'[i].pc = op[i].pc /\ op'[i].gen = op[i].gen /\ op'[i].kind = op[i].kind
                     /\ op'[i].dog = op[i].dog
                     /\ op'[i].answered <=> op[i].answered \/ i \in S

LEMMA AnswerSteps ==
    ASSUME Types, NEW S, Answer(S)
    PROVE  Answered(S)
BY DEF Types, Answer, Answered, OpType

(* A generation is spawned by an operation that goes on to wait for it.        *)
Spawned(i, pc, g) ==
    /\ actor[g].at = "none" /\ actor' \in [Gen -> ActorType]
    /\ actor'[g] = NewActor /\ \A h \in Gen \ {g} : actor'[h] = actor[h]
    /\ op' \in [Op -> OpType] /\ Others(i)
    /\ op'[i].pc = pc /\ op'[i].gen = g /\ op'[i].answered = op[i].answered
    /\ op'[i].kind = op[i].kind

LEMMA SpawnSteps ==
    ASSUME Types, NEW i \in Op, NEW pc \in {"spawning", "respawn"}, spawn(i, pc)
    PROVE  \E g \in Gen : Spawned(i, pc, g)
<1>1. PICK g \in Gen : /\ actor[g] = NoActor
                       /\ actor' = [actor EXCEPT ![g] = NewActor]
                       /\ op' = [op EXCEPT ![i].pc = pc, ![i].gen = g]
  BY DEF spawn
<1>2. actor \in [Gen -> ActorType] /\ op \in [Op -> OpType] /\ g \in 0..MaxGen
  BY BoundsAssumption DEF Types, Gen
<1>3. op' \in [Op -> OpType]
  <2>1. pc \in PC
    BY DEF PC
  <2> QED
    BY <1>1, <1>2, <2>1 DEF OpType
<1>4. /\ op'[i].pc = pc /\ op'[i].gen = g /\ op'[i].answered = op[i].answered
      /\ op'[i].kind = op[i].kind /\ Others(i)
  BY <1>1, <1>2 DEF OpType, Others
<1> QED
  BY <1>1, <1>2, <1>3, <1>4, RecordTypes DEF Spawned

(* An actor ends with its queue and its turn.                                  *)
Ended(g) ==
    /\ actor' \in [Gen -> ActorType]
    /\ actor'[g].at = "dead" /\ actor'[g].turn = 0 /\ actor'[g].queue = <<>>
    /\ \A h \in Gen \ {g} : actor'[h] = actor[h]
    /\ Answered(Held(g))

LEMMA EndSteps ==
    ASSUME Types, NEW g \in Gen, NEW r \in BOOLEAN, End(g, r)
    PROVE  Ended(g)
<1>1. Answered(Held(g))
  BY AnswerSteps DEF End
<1>2. actor \in [Gen -> ActorType] /\ actor' = [actor EXCEPT ![g] = [DeadActor EXCEPT !.report = r]]
  BY DEF Types, End
<1> QED
  BY <1>1, <1>2, RecordTypes DEF Ended

------------------------------------------------------------------------------
(* The steps, grouped by what they do to the registry, the actors and the      *)
(* operations.  Every invariant is proved for the groups, not for the actions. *)

\* Operation i goes to pc for the session of generation g.
GoesWith(i, pc, g) ==
    /\ op' \in [Op -> OpType] /\ Others(i) /\ op'[i].pc = pc /\ op'[i].gen = g
    /\ op'[i].kind = op[i].kind /\ op'[i].answered = op[i].answered

\* The actors keep what they do; only sticky bits change.
ActorsGoOn ==
    /\ actor' \in [Gen -> ActorType]
    /\ \A h \in Gen : /\ actor'[h].at = actor[h].at /\ actor'[h].queue = actor[h].queue
                      /\ actor'[h].turn = actor[h].turn
                      /\ h # live.gen => actor'[h].sticky = actor[h].sticky

\* i leaves where it is, or its watchdog moves; no actor notices.
Walk(i) ==
    /\ op' \in [Op -> OpType] /\ Others(i)
    /\ UNCHANGED <<actor, history>> /\ LiveKept
    /\ live'.state = "running" => live.state = "running"
    /\ dormant' \in BOOLEAN /\ (dormant' => dormant)
    /\ dormant' = dormant \/ At(i, "published") \/ (At(i, "close") /\ op'[i].pc # "close")
    /\ \/ /\ op'[i].pc = op[i].pc /\ op'[i].gen = op[i].gen /\ op'[i].kind = op[i].kind
          /\ op'[i].answered = op[i].answered /\ lock' = lock
       \/ /\ op[i].pc = "new" => Called(i)
          /\ op[i].pc # "lost" /\ (op[i].pc = "admitted" => op[i].answered)
          /\ op'[i].pc \in {"ensure", "go", "done", "lost", "grace", "close", "closed"}
          /\ op'[i].answered => op[i].answered
          /\ op[i].pc \in {"admitted", "done"} => op'[i].pc = "done"
          /\ op[i].pc = "prepare" => op'[i].pc \in {"done", "lost"}
          /\ op[i].pc \in {"prepare", "admitted"} /\ live'.state = "running"
                => op'[i].pc = "lost" /\ op'[i].gen = op[i].gen /\ op'[i].kind = op[i].kind
          /\ lock' \in {lock, IF lock = i THEN 0 ELSE lock}
          /\ op[i].pc \in {"spawning", "published"} => lock' = IF lock = i THEN 0 ELSE lock

Begins(i) ==
    /\ At(i, "go") /\ op[i].kind = "prompt" /\ GoesWith(i, "prepare", live.gen)
    /\ IsLive /\ LiveKept /\ live'.state = "running"
    /\ ActorsGoOn
    /\ Clear(live.gen)
    /\ UNCHANGED <<dormant, lock, cancelled, doubled>>

Dispatches(i) ==
    /\ At(i, "prepare") /\ GoesWith(i, "admitted", op[i].gen)
    /\ Alive(op[i].gen) /\ Pushed(op[i].gen, "prompt", i)
    /\ UNCHANGED <<live, dormant, lock, history>>

Sends(i) ==
    /\ \/ At(i, "send") /\ Pushed(op[i].gen, "cancel", i) /\ (GoesTo(i, "mark") \/ GoesTo(i, "done"))
       \/ At(i, "export") /\ Pushed(op[i].gen, "close", i) /\ (GoesTo(i, "replacing") \/ GoesTo(i, "done"))
    /\ UNCHANGED <<live, dormant, lock, history>>

Marks(i) ==
    /\ At(i, "go") /\ GoesWith(i, "send", live.gen)
    /\ IsLive /\ ActorsGoOn /\ actor'[live.gen].sticky
    /\ cancelled' = cancelled \union UnderWay(live.gen)
    /\ cleared' = cleared \ UnderWay(live.gen)
    /\ UNCHANGED <<live, dormant, lock, doubled>>

Removes(i) ==
    /\ op[i].pc \in {"close", "grace"} /\ GoesWith(i, "closing", live.gen)
    /\ IsLive /\ live' = Absent /\ dormant' = FALSE
    /\ Pushed(live.gen, "close", i)
    /\ UNCHANGED <<lock, history>>

Rebinds(i) ==
    /\ At(i, "go") /\ GoesWith(i, "export", live.gen)
    /\ IsLive /\ LiveKept /\ live'.state = "created"
    /\ doubled' = (doubled \/ \E j \in Op : Rebinding(j))
    /\ UNCHANGED <<dormant, lock, actor, cancelled, cleared>>

SpawnsFor(i) ==
    /\ \E g \in Gen :
          \/ Spawned(i, "spawning", g) /\ At(i, "ensure") /\ ~IsLive /\ dormant /\ lock = 0 /\ lock' = i
          \/ Spawned(i, "spawning", g) /\ Called(i) /\ i = 1 /\ ~dormant /\ lock' = lock
          \/ Spawned(i, "respawn", g) /\ At(i, "replacing") /\ ~Alive(op[i].gen) /\ lock' = lock
    /\ UNCHANGED <<live, dormant, history>>

Registers(i) ==
    /\ \/ At(i, "spawning") /\ GoesTo(i, "published")
       \/ At(i, "respawn") /\ IsLive /\ GoesTo(i, "done")
    /\ live' = [state |-> "idle", gen |-> op[i].gen] /\ live' \in LiveType
    /\ actor' \in [Gen -> ActorType]
    /\ actor[op[i].gen].at \in {"ready", "dead"}
    /\ actor'[op[i].gen].at = IF actor[op[i].gen].at = "ready" THEN "setup" ELSE "dead"
    /\ \A h \in Gen : /\ actor'[h].queue = actor[h].queue /\ actor'[h].turn = actor[h].turn
                      /\ actor'[h].sticky = actor[h].sticky
                      /\ h # op[i].gen => actor'[h] = actor[h]
    /\ UNCHANGED <<dormant, lock, history>>

\* The actor takes a step that is nobody's answer.
Advances(g) ==
    /\ actor' \in [Gen -> ActorType] /\ \A h \in Gen \ {g} : actor'[h] = actor[h]
    /\ actor'[g].queue = actor[g].queue /\ actor'[g].turn = actor[g].turn
    /\ actor'[g].sticky = actor[g].sticky
    /\ \/ actor'[g].at = actor[g].at
       \/ actor[g].at = "starting" /\ actor'[g].at = "ready"
       \/ actor[g].at = "setup" /\ actor'[g].at = "idle"
       \/ actor[g].at = "opening" /\ actor'[g].at = "draining"
       \/ actor[g].at = "draining" /\ actor'[g].at = "turn" /\ ~actor[g].sticky
    /\ LiveKept /\ (live'.state = "running" => live.state = "running")
    /\ UNCHANGED <<op, dormant, lock, history>>

Ends(g) == Ended(g) /\ UNCHANGED <<live, dormant, lock, history>>

\* The sticky bit is kept, or it is used up.
StickyKept(g) ==
    /\ \/ actor'[g].sticky = actor[g].sticky /\ cleared' = cleared
       \/ Clear(g)
    /\ cancelled' = cancelled

Dequeues(g, k) == HasCommand(g, k) /\ actor'[g].queue = Tail(actor[g].queue)

TurnEnds(g) ==
    /\ actor' \in [Gen -> ActorType] /\ \A h \in Gen \ {g} : actor'[h] = actor[h]
    /\ actor[g].at \in Loop /\ actor'[g].at = "idle" /\ actor'[g].turn = 0
    /\ actor'[g].queue = actor[g].queue \/ Dequeues(g, "cancel")
    /\ Answered({actor[g].turn}) /\ StickyKept(g)
    /\ UNCHANGED <<live, dormant, lock, doubled>>

Refuses(g) ==
    /\ actor' \in [Gen -> ActorType] /\ \A h \in Gen \ {g} : actor'[h] = actor[h]
    /\ actor[g].at \in Loop /\ actor'[g].at = actor[g].at /\ actor'[g].turn = actor[g].turn
    /\ Dequeues(g, "prompt") /\ Answered({Head(actor[g].queue).op}) /\ StickyKept(g)
    /\ UNCHANGED <<live, dormant, lock, doubled>>

Takes(g) ==
    /\ actor' \in [Gen -> ActorType] /\ \A h \in Gen \ {g} : actor'[h] = actor[h]
    /\ actor[g].at = "idle" /\ actor'[g].at = "opening"
    /\ Dequeues(g, "prompt") /\ actor'[g].turn = Head(actor[g].queue).op
    /\ actor'[g].sticky = actor[g].sticky
    /\ UNCHANGED <<op, live, dormant, lock, history>>

Restarts ==
    /\ live' = Absent /\ lock' = 0 /\ dormant' = disk /\ doubled' = FALSE
    /\ actor' \in [Gen -> ActorType]
    /\ \A g \in Gen : /\ actor'[g].at \in {"none", "dead"} /\ actor'[g].turn = 0
                      /\ actor'[g].queue = <<>>
                      /\ actor'[g].at = "none" => actor[g].at = "none"
    /\ op' = [i \in Op |-> IF At(i, "new") THEN NewOp ELSE Over]
    /\ UNCHANGED <<cancelled, cleared>>

OpStep(i) ==
    \/ Walk(i) \/ Begins(i) \/ Dispatches(i) \/ Sends(i) \/ Marks(i) \/ Removes(i) \/ Rebinds(i)
    \/ SpawnsFor(i) \/ Registers(i)

ActorStep(g) == Advances(g) \/ Ends(g) \/ TurnEnds(g) \/ Refuses(g) \/ Takes(g)

(* The steps of an operation that no actor notices.                            *)
LEMMA WalkSteps ==
    ASSUME Types, NEW i \in Op,
           \/ EnsureFast(i) \/ EnsureFails(i) \/ SpawnFails(i) \/ Published(i)
           \/ PrepareLost(i) \/ PrepareFails(i) \/ WatchResult(i)
           \/ CancelInterrupt(i) \/ CancelLost(i)
           \/ CloseDormant(i) \/ ClosePersist(i) \/ CloseAcked(i)
           \/ RebindExportFails(i) \/ RebindFails(i) \/ Abandon(i)
           \/ \E k \in Kind \ {"create"} : Call(i, k)
    PROVE  Walk(i)
<1>0. /\ op \in [Op -> OpType] /\ dormant \in BOOLEAN /\ lock \in {0} \union Op
      /\ {"ensure", "go", "done", "lost", "grace", "close", "closed"} \subseteq PC
  BY DEF Types, PC
<1>1. LiveKept \/ live' # live
  BY LiveSteps
<1>2. CASE EnsureFast(i) \/ EnsureFails(i) \/ CloseAcked(i) \/ ClosePersist(i)
  BY <1>0, <1>1, <1>2, GotoSteps DEF EnsureFast, EnsureFails, CloseAcked, ClosePersist, At, Walk, GoesTo
<1>3. CASE SpawnFails(i)
  BY <1>0, <1>1, <1>3, GotoSteps DEF SpawnFails, At, Walk, GoesTo, Release
<1>11. CASE Published(i)
  <2> DEFINE to == IF op[i].kind = "create" THEN "done" ELSE "go"
  <2>1. GoesTo(i, to) /\ to \in {"done", "go"}
    BY <1>0, <1>11, GotoSteps DEF Published
  <2>2. /\ At(i, "published") /\ live' = live /\ actor' = actor /\ history' = history
        /\ dormant' = (dormant /\ op[i].kind = "create")
        /\ lock' = IF lock = i THEN 0 ELSE lock
    BY <1>11 DEF Published, Release
  <2> HIDE DEF to
  <2> QED
    BY <1>0, <1>1, <2>1, <2>2 DEF At, Walk, GoesTo
<1>4. CASE PrepareLost(i) \/ PrepareFails(i)
  BY <1>0, <1>1, <1>4, LiveSteps, GotoSteps
     DEF PrepareLost, PrepareFails, At, Walk, GoesTo, State, bounds, history
<1>5. CASE WatchResult(i)
  <2> DEFINE o == [op[i] EXCEPT !.pc = "done", !.dog = Disarmed(op[i].dog)]
  <2>1. /\ op[i].pc = "admitted" /\ op[i].answered /\ op' = [op EXCEPT ![i] = Rest(o)]
        /\ UNCHANGED <<dormant, lock, actor, history>>
    BY <1>0, <1>5 DEF WatchResult, At
  <2>2. LiveKept /\ (live'.state = "running" => live.state = "running" /\ FALSE)
    BY <1>5, LiveSteps DEF WatchResult, State
  <2>3. o \in OpType /\ o.pc = "done"
    BY <1>0 DEF OpType, PC, Disarmed
  <2> HIDE DEF o
  <2>4. Rest(o) \in OpType /\ Rest(o).pc = "done"
    BY <2>3, RestKeeps
  <2>5. op' \in [Op -> OpType] /\ Others(i) /\ op'[i].pc = "done"
    BY <1>0, <2>1, <2>4 DEF Others
  <2> QED
    BY <1>0, <2>1, <2>2, <2>5 DEF Walk
<1>6. CASE CancelInterrupt(i) \/ CancelLost(i)
  BY <1>0, <1>6, LiveSteps, GotoSteps DEF CancelInterrupt, CancelLost, At, Walk, GoesTo, State
<1>7. CASE CloseDormant(i)
  BY <1>0, <1>1, <1>7, GotoSteps DEF CloseDormant, At, Walk, GoesTo
<1>8. CASE RebindExportFails(i) \/ RebindFails(i)
  BY <1>0, <1>8, LiveSteps, GotoSteps DEF RebindExportFails, RebindFails, At, Walk, GoesTo, State
<1>9. CASE Abandon(i)
  BY <1>0, <1>1, <1>9, GotoSteps DEF Abandon, At, Walk, GoesTo, Release
<1>10. ASSUME NEW k \in Kind \ {"create"}, Call(i, k) PROVE Walk(i)
  <2> DEFINE to == IF k = "close" THEN "close" ELSE "ensure"
  <2>1. /\ Called(i) /\ op[i].pc = "new" /\ op' = [op EXCEPT ![i].pc = to, ![i].kind = k]
        /\ UNCHANGED <<live, dormant, lock, actor, history>>
    BY <1>10 DEF Call, Called, At
  <2>2. to \in PC /\ to \in {"close", "ensure"}
    BY <1>0
  <2> HIDE DEF to
  <2>3. op' \in [Op -> OpType] /\ Others(i) /\ op'[i].pc = to /\ op'[i].answered = op[i].answered
    BY <1>0, <2>1, <2>2 DEF OpType, Others
  <2> QED
    BY <1>0, <1>1, <2>1, <2>2, <2>3 DEF Walk
<1> QED
  BY <1>2, <1>3, <1>4, <1>5, <1>6, <1>7, <1>8, <1>9, <1>10, <1>11

LEMMA WatchdogSteps ==
    ASSUME Types, NEW i \in Op, WatchdogElapses(i) \/ WatchdogFires(i) \/ WatchdogLeaves(i)
    PROVE  Walk(i)
<1>0. op \in [Op -> OpType] /\ dormant \in BOOLEAN
  BY DEF Types
<1>1. CASE WatchdogElapses(i) \/ WatchdogLeaves(i)
  <2>1. PICK d \in {"off", "fired"} : op' = [op EXCEPT ![i].dog = d]
    BY <1>1 DEF WatchdogElapses, WatchdogLeaves
  <2>2. UNCHANGED <<live, dormant, lock, actor, history>>
    BY <1>1 DEF WatchdogElapses, WatchdogLeaves
  <2>3. /\ op' \in [Op -> OpType] /\ Others(i)
        /\ op'[i].pc = op[i].pc /\ op'[i].gen = op[i].gen /\ op'[i].kind = op[i].kind
        /\ op'[i].answered = op[i].answered
    BY <1>0, <2>1 DEF OpType, Others
  <2> QED
    BY <1>0, <2>2, <2>3, LiveSteps DEF Walk
<1>2. CASE WatchdogFires(i)
  <2> DEFINE o == [op[i] EXCEPT !.dog = "off"]
  <2>1. op' = [op EXCEPT ![i] = Rest(o)] /\ UNCHANGED <<dormant, lock, actor, history>>
    BY <1>0, <1>2 DEF WatchdogFires
  <2>2. LiveKept /\ (live'.state = "running" => live.state = "running")
    BY <1>2, LiveSteps DEF WatchdogFires
  <2>3. /\ o \in OpType /\ o.pc = op[i].pc /\ o.gen = op[i].gen /\ o.kind = op[i].kind
        /\ o.answered = op[i].answered
    BY <1>0 DEF OpType
  <2> HIDE DEF o
  <2>4. /\ Rest(o) \in OpType /\ Rest(o).pc = o.pc /\ (o.pc # "done" => Rest(o) = o)
        /\ (Rest(o).answered => o.answered)
    BY <2>3, RestKeeps
  <2>5. op' \in [Op -> OpType] /\ Others(i) /\ op'[i] = Rest(o)
    BY <1>0, <2>1, <2>4 DEF Others
  <2>6. CASE op[i].pc = "done"
    BY <1>0, <2>1, <2>2, <2>3, <2>4, <2>5, <2>6 DEF Walk
  <2>7. CASE op[i].pc # "done"
    BY <1>0, <2>1, <2>2, <2>3, <2>4, <2>5, <2>7 DEF Walk
  <2> QED
    BY <2>6, <2>7
<1> QED
  BY <1>1, <1>2

(* The steps that end an operation when their condition does not hold, and go  *)
(* on when it does.                                                            *)
LEMMA AdmitSteps ==
    ASSUME Types, NEW i \in Op
    PROVE  /\ begin_prompt(i) => Begins(i) \/ Walk(i)
           /\ CancelMark(i) => Marks(i) \/ Walk(i)
           /\ rebind_start(i) => Rebinds(i) \/ Walk(i)
<1>0. /\ op \in [Op -> OpType] /\ actor \in [Gen -> ActorType] /\ dormant \in BOOLEAN
      /\ {"done", "prepare", "send", "export"} \subseteq PC
  BY DEF Types, PC
<1>1. live' = live => LiveKept
  BY LiveSteps
<1>2. ASSUME At(i, "go"), Goto(i, "done"), UNCHANGED <<live, dormant, lock, actor, history>>
      PROVE  Walk(i)
  BY <1>0, <1>1, <1>2, GotoSteps DEF At, Walk, GoesTo
<1>3. ASSUME IsLive, NEW pc \in PC, op' = [op EXCEPT ![i].pc = pc, ![i].gen = live.gen]
      PROVE  GoesWith(i, pc, live.gen)
  <2>1. live.gen \in 0..MaxGen
    BY <1>3, LiveSteps, BoundsAssumption DEF Gen
  <2>2. op' \in [Op -> OpType]
    BY <1>0, <1>3, <2>1 DEF OpType
  <2>3. /\ op'[i].pc = pc /\ op'[i].gen = live.gen /\ op'[i].kind = op[i].kind
        /\ op'[i].answered = op[i].answered
    BY <1>0, <1>3 DEF OpType
  <2>4. Others(i)
    BY <1>0, <1>3 DEF Others
  <2> QED
    BY <2>2, <2>3, <2>4 DEF GoesWith
<1>4. ASSUME IsLive, NEW b \in BOOLEAN, actor' = [actor EXCEPT ![live.gen].sticky = b]
      PROVE  ActorsGoOn /\ actor'[live.gen].sticky = b
  <2>1. live.gen \in Gen
    BY <1>4, LiveSteps
  <2> QED
    BY <1>0, <1>4, <2>1 DEF ActorsGoOn, ActorType
<1>5. ASSUME begin_prompt(i) PROVE Begins(i) \/ Walk(i)
  <2>1. CASE live.state \in {"idle", "interrupted"}
    <3>1. /\ SetState("running") /\ actor' = [actor EXCEPT ![live.gen].sticky = FALSE]
          /\ op' = [op EXCEPT ![i].pc = "prepare", ![i].gen = live.gen]
          /\ Clear(live.gen) /\ At(i, "go") /\ op[i].kind = "prompt"
          /\ UNCHANGED <<dormant, lock, cancelled, doubled>>
      BY <1>5, <2>1 DEF begin_prompt
    <3>2. IsLive
      BY <2>1 DEF IsLive
    <3>3. LiveKept /\ live'.state = "running"
      BY <3>1, <3>2, LiveSteps DEF State
    <3>4. GoesWith(i, "prepare", live.gen) /\ ActorsGoOn
      BY <1>0, <1>3, <1>4, <3>1, <3>2
    <3> QED
      BY <3>1, <3>2, <3>3, <3>4 DEF Begins
  <2>2. CASE live.state \notin {"idle", "interrupted"}
    BY <1>2, <1>5, <2>2 DEF begin_prompt, history
  <2> QED
    BY <2>1, <2>2
<1>6. ASSUME CancelMark(i) PROVE Marks(i) \/ Walk(i)
  <2>1. CASE live.state \notin {"absent", "failed"}
    <3>1. /\ actor' = [actor EXCEPT ![live.gen].sticky = TRUE]
          /\ op' = [op EXCEPT ![i].pc = "send", ![i].gen = live.gen]
          /\ cancelled' = cancelled \union UnderWay(live.gen)
          /\ cleared' = cleared \ UnderWay(live.gen)
          /\ At(i, "go")
          /\ UNCHANGED <<live, dormant, lock, doubled>>
      BY <1>6, <2>1 DEF CancelMark
    <3>2. IsLive
      BY <2>1 DEF IsLive
    <3>3. GoesWith(i, "send", live.gen) /\ ActorsGoOn /\ actor'[live.gen].sticky
      BY <1>0, <1>3, <1>4, <3>1, <3>2
    <3> QED
      BY <3>1, <3>2, <3>3 DEF Marks
  <2>2. CASE live.state \in {"absent", "failed"}
    BY <1>2, <1>6, <2>2 DEF CancelMark, history
  <2> QED
    BY <2>1, <2>2
<1>7. ASSUME rebind_start(i) PROVE Rebinds(i) \/ Walk(i)
  <2>1. CASE live.state = "idle"
    <3>1. /\ SetState("created") /\ op' = [op EXCEPT ![i].pc = "export", ![i].gen = live.gen]
          /\ doubled' = (doubled \/ \E j \in Op : Rebinding(j)) /\ At(i, "go")
          /\ UNCHANGED <<dormant, lock, actor, cancelled, cleared>>
      BY <1>7, <2>1 DEF rebind_start
    <3>2. IsLive
      BY <2>1 DEF IsLive
    <3>3. LiveKept /\ live'.state = "created"
      BY <3>1, <3>2, LiveSteps DEF State
    <3>4. GoesWith(i, "export", live.gen)
      BY <1>0, <1>3, <3>1, <3>2
    <3> QED
      BY <3>1, <3>2, <3>3, <3>4 DEF Rebinds
  <2>2. CASE live.state # "idle"
    BY <1>2, <1>7, <2>2 DEF rebind_start, history
  <2> QED
    BY <2>1, <2>2
<1> QED
  BY <1>5, <1>6, <1>7

LEMMA SendSteps ==
    ASSUME Types, NEW i \in Op
    PROVE  /\ Dispatch(i) => Dispatches(i) \/ Walk(i)
           /\ CancelSend(i) => Sends(i)
           /\ RebindClose(i) => Sends(i)
           /\ GraceExpires(i) => Removes(i) \/ Walk(i)
           /\ CloseLive(i) => Removes(i)
<1>0. /\ op \in [Op -> OpType] /\ dormant \in BOOLEAN
      /\ {"done", "admitted", "mark", "replacing", "closing"} \subseteq PC
  BY DEF Types, PC
<1>1. op[i].pc \in {"prepare", "send", "export"} => op[i].gen \in Gen
  BY DEF Types
<1>2. ASSUME Dispatch(i) PROVE Dispatches(i) \/ Walk(i)
  <2>1. CASE Alive(op[i].gen)
    <3>1. /\ At(i, "prepare") /\ Push(op[i].gen, "prompt", i)
          /\ op' = [op EXCEPT ![i].pc = "admitted", ![i].dog = "armed"]
          /\ UNCHANGED <<live, dormant, lock, history>>
      BY <1>2, <2>1 DEF Dispatch
    <3>2. Pushed(op[i].gen, "prompt", i)
      BY <1>1, <3>1, PushSteps DEF At
    <3>3. GoesWith(i, "admitted", op[i].gen)
      BY <1>0, <3>1 DEF GoesWith, Others, OpType
    <3> QED
      BY <2>1, <3>1, <3>2, <3>3 DEF Dispatches
  <2>2. CASE ~Alive(op[i].gen)
    <3>1. /\ At(i, "prepare") /\ update_state("failed") /\ Goto(i, "done")
          /\ UNCHANGED <<actor, dormant, lock, history>>
      BY <1>2, <2>2 DEF Dispatch
    <3>2. LiveKept /\ live'.state # "running"
      BY <3>1, LiveSteps DEF State
    <3> QED
      BY <1>0, <3>1, <3>2, GotoSteps DEF At, Walk, GoesTo
  <2> QED
    BY <2>1, <2>2
<1>3. ASSUME CancelSend(i) PROVE Sends(i)
  <2>1. /\ At(i, "send") /\ Push(op[i].gen, "cancel", i)
        /\ Goto(i, "mark") \/ Goto(i, "done")
        /\ UNCHANGED <<live, dormant, lock, history>>
    BY <1>3 DEF CancelSend
  <2>2. Pushed(op[i].gen, "cancel", i)
    BY <1>1, <2>1, PushSteps DEF At
  <2> QED
    BY <1>0, <2>1, <2>2, GotoSteps DEF Sends
<1>4. ASSUME RebindClose(i) PROVE Sends(i)
  <2>1. /\ At(i, "export") /\ Push(op[i].gen, "close", i)
        /\ Goto(i, "replacing") \/ Goto(i, "done")
        /\ UNCHANGED <<live, dormant, lock, history>>
    BY <1>4 DEF RebindClose
  <2>2. Pushed(op[i].gen, "close", i)
    BY <1>1, <2>1, PushSteps DEF At
  <2> QED
    BY <1>0, <2>1, <2>2, GotoSteps DEF Sends
<1>5. ASSUME op[i].pc \in {"close", "grace"}, IsLive, RemoveAndClose(i), UNCHANGED <<lock, history>>
      PROVE  Removes(i)
  <2>1. live.gen \in Gen /\ live.gen \in 0..MaxGen
    BY <1>5, LiveSteps, BoundsAssumption DEF Gen
  <2>2. Pushed(live.gen, "close", i)
    BY <1>5, <2>1, PushSteps DEF RemoveAndClose
  <2>3. op' = [op EXCEPT ![i].pc = "closing", ![i].gen = live.gen]
    BY <1>5 DEF RemoveAndClose
  <2>4. op' \in [Op -> OpType]
    BY <1>0, <2>1, <2>3 DEF OpType
  <2>5. GoesWith(i, "closing", live.gen)
    BY <1>0, <2>3, <2>4 DEF GoesWith, Others, OpType
  <2> QED
    BY <1>5, <2>2, <2>5 DEF Removes, RemoveAndClose
<1>6. ASSUME GraceExpires(i) PROVE Removes(i) \/ Walk(i)
  <2>1. CASE live.state = "interrupted"
    BY <1>5, <1>6, <2>1 DEF GraceExpires, At, IsLive
  <2>2. CASE live.state # "interrupted"
    <3>1. /\ At(i, "grace") /\ Goto(i, "done") /\ UNCHANGED <<live, dormant, actor, lock, history>>
      BY <1>6, <2>2 DEF GraceExpires
    <3> QED
      BY <1>0, <3>1, LiveSteps, GotoSteps DEF At, Walk, GoesTo
  <2> QED
    BY <2>1, <2>2
<1>7. ASSUME CloseLive(i) PROVE Removes(i)
  BY <1>5, <1>7 DEF CloseLive, At
<1> QED
  BY <1>2, <1>3, <1>4, <1>6, <1>7

LEMMA SpawningSteps ==
    ASSUME Types, NEW i \in Op
    PROVE  /\ Create(i) \/ Restore(i) \/ RebindSpawn(i) => SpawnsFor(i)
           /\ publish(i) => Registers(i)
           /\ rebind_finish(i) => Registers(i) \/ Walk(i)
<1>0. /\ op \in [Op -> OpType] /\ actor \in [Gen -> ActorType] /\ dormant \in BOOLEAN
      /\ {"done", "published"} \subseteq PC
  BY DEF Types, PC
<1>1. op[i].pc \in {"spawning", "respawn"} => op[i].gen \in Gen
  BY DEF Types
<1>2. ASSUME Create(i) PROVE SpawnsFor(i)
  BY <1>2, SpawnSteps DEF Create, SpawnsFor
<1>3. ASSUME Restore(i) PROVE SpawnsFor(i)
  BY <1>3, SpawnSteps DEF Restore, SpawnsFor
<1>4. ASSUME RebindSpawn(i) PROVE SpawnsFor(i)
  BY <1>4, SpawnSteps DEF RebindSpawn, SpawnsFor
<1>5. ASSUME NEW g \in Gen, IsReady(g), Register(g),
             live' = [state |-> "idle", gen |-> g]
      PROVE  /\ live' \in LiveType /\ actor' \in [Gen -> ActorType]
             /\ actor[g].at \in {"ready", "dead"}
             /\ actor'[g].at = IF actor[g].at = "ready" THEN "setup" ELSE "dead"
             /\ \A h \in Gen : /\ actor'[h].queue = actor[h].queue
                               /\ actor'[h].turn = actor[h].turn
                               /\ actor'[h].sticky = actor[h].sticky
                               /\ h # g => actor'[h] = actor[h]
  <2>1. live' \in LiveType
    BY <1>5 DEF LiveType, State
  <2>2. actor[g].at \in {"ready", "dead"}
    BY <1>5 DEF IsReady
  <2>3. PICK a \in {"ready", "dead", "setup"} :
           /\ a = IF actor[g].at = "ready" THEN "setup" ELSE actor[g].at
           /\ actor' = [actor EXCEPT ![g].at = a]
    BY <1>5, <2>2 DEF Register
  <2>4. a \in AliveAt \union {"none", "dead"}
    BY DEF AliveAt, Registered
  <2>5. actor' \in [Gen -> ActorType]
    BY <1>0, <2>3, <2>4 DEF ActorType
  <2> QED
    BY <1>0, <2>1, <2>2, <2>3, <2>5 DEF ActorType
<1>6. ASSUME publish(i) PROVE Registers(i)
  <2>1. /\ At(i, "spawning") /\ IsReady(op[i].gen) /\ Register(op[i].gen)
        /\ live' = [state |-> "idle", gen |-> op[i].gen]
        /\ Goto(i, "published") /\ UNCHANGED <<dormant, lock, history>>
    BY <1>6 DEF publish
  <2>2. op[i].gen \in Gen /\ GoesTo(i, "published")
    BY <1>0, <1>1, <2>1, GotoSteps DEF At
  <2> QED
    BY <1>5, <2>1, <2>2 DEF Registers
<1>7. ASSUME rebind_finish(i) PROVE Registers(i) \/ Walk(i)
  <2>1. /\ At(i, "respawn") /\ IsReady(op[i].gen)
        /\ Goto(i, "done") /\ UNCHANGED <<dormant, lock, history>>
    BY <1>7 DEF rebind_finish
  <2>2. op[i].gen \in Gen /\ GoesTo(i, "done")
    BY <1>0, <1>1, <2>1, GotoSteps DEF At
  <2>3. CASE IsLive
    <3>1. Register(op[i].gen) /\ live' = [state |-> "idle", gen |-> op[i].gen]
      BY <1>7, <2>3 DEF rebind_finish
    <3> QED
      BY <1>5, <2>1, <2>2, <2>3, <3>1 DEF Registers
  <2>4. CASE ~IsLive
    <3>1. live' = live /\ actor' = actor
      BY <1>7, <2>4 DEF rebind_finish
    <3> QED
      BY <1>0, <2>1, <2>2, <3>1, LiveSteps DEF At, Walk, GoesTo
  <2> QED
    BY <2>3, <2>4
<1> QED
  BY <1>2, <1>3, <1>4, <1>6, <1>7

(* The steps of an actor.                                                      *)
LEMMA AdvanceSteps ==
    ASSUME Types, NEW g \in Gen
    PROVE  /\ AgentUp(g) \/ SetupDone(g) \/ WatchTerminal(g) => Advances(g)
           /\ AgentDies(g) \/ Unregistered(g) \/ TakeClose(g) => Ends(g)
<1>0. actor \in [Gen -> ActorType]
  BY DEF Types
<1>1. ASSUME AgentUp(g) \/ SetupDone(g) PROVE Advances(g)
  <2>1. /\ \/ actor[g].at = "starting" /\ actor' = [actor EXCEPT ![g].at = "ready"]
           \/ actor[g].at = "setup" /\ actor' = [actor EXCEPT ![g].at = "idle"]
        /\ UNCHANGED <<live, op, dormant, lock, history>>
    BY <1>1 DEF AgentUp, SetupDone
  <2>2. {"ready", "idle"} \subseteq AliveAt
    BY DEF AliveAt, Registered, Loop
  <2>3. LiveKept /\ (live'.state = "running" => live.state = "running")
    BY <2>1, LiveSteps
  <2>4. CASE actor[g].at = "starting" /\ actor' = [actor EXCEPT ![g].at = "ready"]
    BY <1>0, <2>1, <2>2, <2>3, <2>4 DEF Advances, ActorType
  <2>5. CASE actor[g].at = "setup" /\ actor' = [actor EXCEPT ![g].at = "idle"]
    BY <1>0, <2>1, <2>2, <2>3, <2>5 DEF Advances, ActorType
  <2> QED
    BY <2>1, <2>4, <2>5
<1>2. ASSUME WatchTerminal(g) PROVE Advances(g)
  <2>1. /\ actor' = [actor EXCEPT ![g].report = FALSE] /\ mark_failed_if_current(g)
        /\ UNCHANGED <<op, dormant, lock, history>>
    BY <1>2 DEF WatchTerminal
  <2>2. LiveKept /\ (live'.state = "running" => live.state = "running")
    BY <2>1, LiveSteps
  <2> QED
    BY <1>0, <2>1, <2>2 DEF Advances, ActorType
<1>3. ASSUME AgentDies(g) \/ Unregistered(g) \/ TakeClose(g) PROVE Ends(g)
  <2>1. /\ \E r \in BOOLEAN : End(g, r)
        /\ UNCHANGED <<live, dormant, lock, history>>
    BY <1>3 DEF AgentDies, Unregistered, TakeClose
  <2> QED
    BY <2>1, EndSteps DEF Ends
<1> QED
  BY <1>1, <1>2, <1>3

LEMMA TurnSteps ==
    ASSUME Types, NEW g \in Gen
    PROVE  /\ AppendEvents(g) => Advances(g) \/ TurnEnds(g)
           /\ SendRequest(g) => Advances(g) \/ TurnEnds(g)
           /\ Reply(g) \/ TakeCancel(g) => TurnEnds(g)
           /\ RefuseNested(g) => Refuses(g)
           /\ TakePrompt(g) => Takes(g) \/ Refuses(g)
<1>0. /\ actor \in [Gen -> ActorType] /\ actor[g].queue \in Seq(Command)
      /\ {"idle", "opening", "draining", "turn"} \subseteq AliveAt
  BY DEF Types, ActorType, AliveAt, Registered, Loop
<1>1. actor[g].queue # <<>> =>
         /\ Head(actor[g].queue) \in Command /\ Head(actor[g].queue).op \in 0..MaxOps
         /\ Tail(actor[g].queue) \in Seq(Command)
  <2>1. \A c \in Command : c.op \in 0..MaxOps
    BY BoundsAssumption DEF Command, Op
  <2>2. actor[g].queue # <<>> =>
           Head(actor[g].queue) \in Command /\ Tail(actor[g].queue) \in Seq(Command)
    BY <1>0, HeadTailProperties
  <2> QED
    BY <2>1, <2>2
<1>2. ASSUME AppendEvents(g) PROVE Advances(g) \/ TurnEnds(g)
  <2>1. actor[g].at = "opening" /\ UNCHANGED <<live, dormant, lock, history>>
    BY <1>2 DEF AppendEvents
  <2>2. CASE actor' = [actor EXCEPT ![g].at = "draining"] /\ op' = op
    BY <1>0, <2>1, <2>2, LiveSteps DEF Advances, ActorType
  <2>3. CASE actor' = [actor EXCEPT ![g].at = "idle", ![g].turn = 0] /\ Answer({actor[g].turn})
    <3>1. Answered({actor[g].turn})
      BY <2>3, AnswerSteps
    <3>2. 0 \in 0..MaxOps
      BY BoundsAssumption
    <3>3. /\ actor' \in [Gen -> ActorType] /\ actor'[g].at = "idle" /\ actor'[g].turn = 0
          /\ actor'[g].queue = actor[g].queue /\ actor'[g].sticky = actor[g].sticky
          /\ \A h \in Gen \ {g} : actor'[h] = actor[h]
      BY <1>0, <2>3, <3>2 DEF ActorType
    <3> QED
      BY <2>1, <3>1, <3>3 DEF TurnEnds, StickyKept, Loop, history
  <2> QED
    BY <1>2, <2>2, <2>3 DEF AppendEvents
<1>3. ASSUME SendRequest(g) PROVE Advances(g) \/ TurnEnds(g)
  <2>1. actor[g].at = "draining" /\ UNCHANGED <<live, dormant, lock, cancelled, doubled>>
    BY <1>3 DEF SendRequest
  <2>2. CASE actor[g].sticky
    <3>1. /\ actor' = [actor EXCEPT ![g].at = "idle", ![g].turn = 0, ![g].sticky = FALSE]
          /\ Answer({actor[g].turn}) /\ Clear(g)
      BY <1>3, <2>2 DEF SendRequest
    <3>2. Answered({actor[g].turn})
      BY <3>1, AnswerSteps
    <3>3. 0 \in 0..MaxOps
      BY BoundsAssumption
    <3>4. /\ actor' \in [Gen -> ActorType] /\ actor'[g].at = "idle" /\ actor'[g].turn = 0
          /\ actor'[g].queue = actor[g].queue
          /\ \A h \in Gen \ {g} : actor'[h] = actor[h]
      BY <1>0, <3>1, <3>3 DEF ActorType
    <3> QED
      BY <2>1, <3>1, <3>2, <3>4 DEF TurnEnds, StickyKept, Loop
  <2>3. CASE ~actor[g].sticky
    <3>1. actor' = [actor EXCEPT ![g].at = "turn"] /\ UNCHANGED <<op, cleared>>
      BY <1>3, <2>3 DEF SendRequest
    <3> QED
      BY <1>0, <2>1, <2>3, <3>1, LiveSteps DEF Advances, ActorType, history
  <2> QED
    BY <2>2, <2>3
<1>4. ASSUME Reply(g) \/ TakeCancel(g) PROVE TurnEnds(g)
  <2>1. /\ actor[g].at \in Loop /\ Answer({actor[g].turn})
        /\ UNCHANGED <<live, dormant, lock, history>>
    BY <1>4 DEF Reply, TakeCancel, Loop
  <2>2. PICK q \in Seq(Command) :
           /\ q = actor[g].queue \/ (HasCommand(g, "cancel") /\ q = Tail(actor[g].queue))
           /\ actor' = [actor EXCEPT ![g].at = "idle", ![g].queue = q, ![g].turn = 0]
    <3>1. CASE Reply(g)
      <4>1. actor' = [actor EXCEPT ![g].at = "idle", ![g].turn = 0]
        BY <3>1 DEF Reply
      <4>2. actor' = [actor EXCEPT ![g].at = "idle", ![g].queue = actor[g].queue, ![g].turn = 0]
        BY <1>0, <4>1 DEF ActorType
      <4> QED
        BY <1>0, <4>2
    <3>2. CASE TakeCancel(g)
      <4>1. /\ HasCommand(g, "cancel")
            /\ actor' = [actor EXCEPT ![g].at = "idle", ![g].queue = Tail(actor[g].queue),
                                      ![g].turn = 0]
        BY <1>0, <3>2 DEF TakeCancel
      <4> QED
        BY <1>1, <4>1 DEF HasCommand
    <3> QED
      BY <1>4, <3>1, <3>2
  <2>3. 0 \in 0..MaxOps
    BY BoundsAssumption
  <2>4. /\ actor' \in [Gen -> ActorType] /\ actor'[g].at = "idle" /\ actor'[g].turn = 0
        /\ actor'[g].queue = q /\ actor'[g].sticky = actor[g].sticky
        /\ \A h \in Gen \ {g} : actor'[h] = actor[h]
    BY <1>0, <2>2, <2>3 DEF ActorType
  <2>5. Answered({actor[g].turn})
    BY <2>1, AnswerSteps
  <2> QED
    BY <2>1, <2>2, <2>4, <2>5 DEF TurnEnds, StickyKept, Dequeues, history
<1>5. ASSUME RefuseNested(g) PROVE Refuses(g)
  <2>1. /\ actor[g].at \in Loop /\ HasCommand(g, "prompt")
        /\ actor' = [actor EXCEPT ![g].queue = Tail(actor[g].queue)]
        /\ Answer({Head(actor[g].queue).op}) /\ UNCHANGED <<live, dormant, lock, history>>
    BY <1>0, <1>5 DEF RefuseNested, Loop
  <2>2. Tail(actor[g].queue) \in Seq(Command)
    BY <1>1, <2>1 DEF HasCommand
  <2>3. /\ actor' \in [Gen -> ActorType] /\ actor'[g].at = actor[g].at
        /\ actor'[g].turn = actor[g].turn /\ actor'[g].queue = Tail(actor[g].queue)
        /\ actor'[g].sticky = actor[g].sticky
        /\ \A h \in Gen \ {g} : actor'[h] = actor[h]
    BY <1>0, <2>1, <2>2 DEF ActorType
  <2>4. Answered({Head(actor[g].queue).op})
    BY <2>1, AnswerSteps
  <2> QED
    BY <2>1, <2>3, <2>4 DEF Refuses, StickyKept, Dequeues, history
<1>6. ASSUME TakePrompt(g) PROVE Takes(g) \/ Refuses(g)
  <2>1. /\ actor[g].at = "idle" /\ HasCommand(g, "prompt")
        /\ UNCHANGED <<live, dormant, lock, cancelled, doubled>>
    BY <1>6 DEF TakePrompt
  <2>2. Tail(actor[g].queue) \in Seq(Command) /\ Head(actor[g].queue).op \in 0..MaxOps
    BY <1>1, <2>1 DEF HasCommand
  <2>3. CASE actor[g].sticky
    <3>1. /\ actor' = [actor EXCEPT ![g].queue = Tail(actor[g].queue), ![g].sticky = FALSE]
          /\ Answer({Head(actor[g].queue).op}) /\ Clear(g)
      BY <1>0, <1>6, <2>3 DEF TakePrompt
    <3>2. /\ actor' \in [Gen -> ActorType] /\ actor'[g].at = actor[g].at
          /\ actor'[g].turn = actor[g].turn /\ actor'[g].queue = Tail(actor[g].queue)
          /\ \A h \in Gen \ {g} : actor'[h] = actor[h]
      BY <1>0, <2>2, <3>1 DEF ActorType
    <3>3. Answered({Head(actor[g].queue).op})
      BY <3>1, AnswerSteps
    <3> QED
      BY <2>1, <3>1, <3>2, <3>3 DEF Refuses, StickyKept, Dequeues, Loop
  <2>4. CASE ~actor[g].sticky
    <3>1. /\ actor' = [actor EXCEPT ![g].at = "opening", ![g].queue = Tail(actor[g].queue),
                                    ![g].turn = Head(actor[g].queue).op]
          /\ UNCHANGED <<op, cleared>>
      BY <1>0, <1>6, <2>4 DEF TakePrompt
    <3>2. /\ actor' \in [Gen -> ActorType] /\ actor'[g].at = "opening"
          /\ actor'[g].turn = Head(actor[g].queue).op /\ actor'[g].queue = Tail(actor[g].queue)
          /\ actor'[g].sticky = actor[g].sticky
          /\ \A h \in Gen \ {g} : actor'[h] = actor[h]
      BY <1>0, <2>2, <3>1 DEF ActorType
    <3> QED
      BY <2>1, <3>1, <3>2 DEF Takes, Dequeues, history
  <2> QED
    BY <2>3, <2>4
<1> QED
  BY <1>2, <1>3, <1>4, <1>5, <1>6

LEMMA RestartSteps ==
    ASSUME Types, Restart
    PROVE  Restarts
<1>1. /\ live' = Absent /\ lock' = 0 /\ dormant' = disk /\ doubled' = FALSE
      /\ actor' = [g \in Gen |-> IF actor[g] = NoActor THEN NoActor ELSE DeadActor]
      /\ op' = [i \in Op |-> IF At(i, "new") THEN NewOp ELSE Over]
      /\ UNCHANGED <<cancelled, cleared>>
  BY DEF Restart
<1>2. /\ actor' \in [Gen -> ActorType]
      /\ \A g \in Gen : /\ actor'[g].at \in {"none", "dead"} /\ actor'[g].turn = 0
                        /\ actor'[g].queue = <<>>
                        /\ actor'[g].at = "none" => actor[g].at = "none"
  BY <1>1, RecordTypes
<1> QED
  BY <1>1, <1>2 DEF Restarts

(* Every step is one of these.                                                 *)
Steps ==
    \/ \E i \in Op : OpStep(i)
    \/ \E g \in Gen : ActorStep(g)
    \/ Restarts
    \/ UNCHANGED vars

LEMMA StepShapes ==
    ASSUME Types, [Next]_vars
    PROVE  Steps
<1>1. ASSUME NEW i \in Op, DaemonOp(i) \/ EnvironmentOp(i) PROVE OpStep(i)
  BY <1>1, WalkSteps, WatchdogSteps, AdmitSteps, SendSteps, SpawningSteps
     DEF DaemonOp, EnvironmentOp, OpStep
<1>2. ASSUME NEW g \in Gen, DaemonActor(g) \/ EnvironmentActor(g) PROVE ActorStep(g)
  BY <1>2, AdvanceSteps, TurnSteps DEF DaemonActor, EnvironmentActor, ActorStep
<1> QED
  BY <1>1, <1>2, RestartSteps DEF Next, Daemon, Steps

------------------------------------------------------------------------------
(* The types and the order of calls                                            *)

LEMMA DiskTypes ==
    ASSUME Types, [Next]_vars
    PROVE  disk' \in BOOLEAN
<1>1. disk \in BOOLEAN
  BY DEF Types
<1>2. persist => disk' \in BOOLEAN
  BY DEF persist
<1>3. ASSUME NEW i \in Op, DaemonOp(i) \/ EnvironmentOp(i) PROVE disk' = disk \/ persist
  BY <1>3
     DEF DaemonOp, EnvironmentOp, EnsureFast, Restore, publish, SpawnFails, Published, begin_prompt,
         Dispatch, WatchResult, WatchdogElapses, WatchdogFires, CancelMark, CancelSend,
         CancelInterrupt, GraceExpires, CloseLive, CloseDormant, ClosePersist, CloseAcked,
         rebind_start, RebindClose, RebindSpawn, rebind_finish, RebindFails, RemoveAndClose,
         Create, EnsureFails, PrepareLost, PrepareFails, WatchdogLeaves, CancelLost,
         RebindExportFails, Abandon, Call
<1>4. ASSUME NEW g \in Gen, DaemonActor(g) \/ EnvironmentActor(g) PROVE disk' = disk
  BY <1>4
     DEF DaemonActor, EnvironmentActor, Unregistered, WatchTerminal, TakePrompt, AppendEvents,
         SendRequest, TakeCancel, TakeClose, RefuseNested, AgentUp, AgentDies, SetupDone, Reply
<1>5. Restart \/ UNCHANGED vars => disk' = disk
  BY DEF Restart, vars
<1> QED
  BY <1>1, <1>2, <1>3, <1>4, <1>5 DEF Next, Daemon

LEMMA StepTypes ==
    ASSUME Types, [Next]_vars
    PROVE  Types'
<1>0. /\ op \in [Op -> OpType] /\ actor \in [Gen -> ActorType] /\ live \in LiveType
      /\ dormant \in BOOLEAN /\ disk \in BOOLEAN /\ doubled \in BOOLEAN
      /\ lock \in {0} \union Op /\ cancelled \subseteq Op /\ cleared \subseteq Op
      /\ Absent \in LiveType
  BY DEF Types, LiveType
<1> DEFINE Named == {"spawning", "respawn", "prepare", "admitted", "send", "export", "replacing"}
           Simple == /\ live' \in LiveType /\ dormant' \in BOOLEAN /\ doubled' \in BOOLEAN
                     /\ lock' \in {0} \union Op /\ cancelled' \subseteq Op /\ cleared' \subseteq Op
                     /\ actor' \in [Gen -> ActorType] /\ op' \in [Op -> OpType]
           HaveGen == \A i \in Op : op'[i].pc \in Named => op'[i].gen \in Gen
<1>1. \A i \in Op : op[i].pc \in Named => op[i].gen \in Gen
  BY DEF Types
<1>2. IsLive => live.gen \in Gen
  BY LiveSteps
<1>3. \A g : Clear(g) => cleared' \subseteq Op
  BY <1>0 DEF Clear
<1>4. ASSUME NEW i \in Op, OpStep(i) PROVE Simple /\ HaveGen
  <2>1. CASE Walk(i)
    <3>1. Simple
      BY <1>0, <2>1 DEF Walk, LiveKept, history
    <3> QED
      BY <1>0, <1>1, <2>1, <3>1 DEF Walk, Others
  <2>2. CASE Begins(i)
    BY <1>0, <1>1, <1>2, <1>3, <2>2 DEF Begins, GoesWith, Others, ActorsGoOn, LiveKept
  <2>3. CASE Dispatches(i)
    BY <1>0, <1>1, <2>3 DEF Dispatches, GoesWith, Others, Pushed, At, history
  <2>4. CASE Sends(i)
    BY <1>0, <1>1, <2>4 DEF Sends, GoesTo, Others, Pushed, At, history
  <2>5. CASE Marks(i)
    <3>1. UnderWay(live.gen) \subseteq Op
      BY DEF UnderWay
    <3> QED
      BY <1>0, <1>1, <1>2, <2>5, <3>1 DEF Marks, GoesWith, Others, ActorsGoOn
  <2>6. CASE Removes(i)
    BY <1>0, <1>1, <1>2, <2>6 DEF Removes, GoesWith, Others, Pushed, history
  <2>7. CASE Rebinds(i)
    BY <1>0, <1>1, <1>2, <2>7 DEF Rebinds, GoesWith, Others, LiveKept
  <2>8. CASE SpawnsFor(i)
    BY <1>0, <1>1, <2>8 DEF SpawnsFor, Spawned, Others, history
  <2>9. CASE Registers(i)
    BY <1>0, <1>1, <2>9 DEF Registers, GoesTo, Others, history
  <2> QED
    BY <1>4, <2>1, <2>2, <2>3, <2>4, <2>5, <2>6, <2>7, <2>8, <2>9 DEF OpStep
<1>5. ASSUME NEW g \in Gen, ActorStep(g) PROVE Simple /\ HaveGen
  BY <1>0, <1>1, <1>3, <1>5
     DEF ActorStep, Advances, Ends, TurnEnds, Refuses, Takes, Ended, Answered, StickyKept, LiveKept,
         history
<1>6. ASSUME Restarts PROVE Simple /\ HaveGen
  <2>1. /\ op' \in [Op -> OpType] /\ \A i \in Op : op'[i].pc \in {"new", "done"}
    BY <1>6, RecordTypes DEF Restarts
  <2> QED
    BY <1>0, <1>6, <2>1 DEF Restarts
<1>7. ASSUME UNCHANGED vars PROVE Simple /\ HaveGen
  BY <1>0, <1>1, <1>7 DEF vars
<1>8. Simple /\ HaveGen /\ disk' \in BOOLEAN
  BY <1>4, <1>5, <1>6, <1>7, StepShapes, DiskTypes DEF Steps
<1> QED
  BY <1>8 DEF Types

\* An operation is called when it is its turn, and is never new again.
LEMMA CallsInTurn ==
    ASSUME Types, Steps, NEW j \in Op
    PROVE  /\ ~At(j, "new") => ~At(j, "new")'
           /\ At(j, "new") /\ ~At(j, "new")' => Called(j)
<1>1. ASSUME NEW i \in Op, OpStep(i)
      PROVE  /\ op'[j].pc = op[j].pc \/ (j = i /\ op'[j].pc # "new")
             /\ op[i].pc = "new" /\ op'[i].pc # "new" => Called(i)
  BY <1>1
     DEF OpStep, Walk, Begins, Dispatches, Sends, Marks, Removes, Rebinds, SpawnsFor, Registers,
         GoesWith, GoesTo, Spawned, Others, At, Called
<1>2. ASSUME NEW g \in Gen, ActorStep(g) PROVE op'[j].pc = op[j].pc
  BY <1>2 DEF ActorStep, Advances, Ends, TurnEnds, Refuses, Takes, Ended, Answered
<1>3. ASSUME Restarts PROVE op'[j].pc = "new" <=> op[j].pc = "new"
  BY <1>3, RecordTypes DEF Restarts, At
<1> QED
  BY <1>1, <1>2, <1>3 DEF Steps, vars, At

LEMMA OrderSteps ==
    ASSUME Types, CalledInOrder, Steps
    PROVE  CalledInOrder'
<1>1. ASSUME NEW i \in Op, NEW j \in Op, i < j, ~At(j, "new")'
      PROVE  ~At(i, "new")'
  <2>1. CASE At(j, "new")
    <3>1. Called(j)
      BY <1>1, <2>1, CallsInTurn
    <3>2. i \in 1..(j - 1)
      BY <1>1 DEF Op
    <3> QED
      BY <3>1, <3>2, CallsInTurn DEF Called
  <2>2. CASE ~At(j, "new")
    BY <1>1, <2>2, CallsInTurn DEF CalledInOrder
  <2> QED
    BY <2>1, <2>2
<1>2. IsLive' => IsLive \/ \E i \in Op : op[i].pc \in {"spawning", "respawn"}
  <2>1. ASSUME NEW i \in Op, OpStep(i), IsLive'
        PROVE  IsLive \/ op[i].pc \in {"spawning", "respawn"}
    BY <2>1
       DEF OpStep, Walk, Begins, Dispatches, Sends, Marks, Removes, Rebinds, SpawnsFor, Registers,
           LiveKept, IsLive, Absent, At
  <2>2. ASSUME NEW g \in Gen, ActorStep(g), IsLive' PROVE IsLive
    BY <2>2 DEF ActorStep, Advances, Ends, TurnEnds, Refuses, Takes, LiveKept, IsLive
  <2>3. Restarts => ~IsLive'
    BY DEF Restarts, IsLive, Absent
  <2> QED
    BY <2>1, <2>2, <2>3 DEF Steps, vars, IsLive
<1>3. IsLive' => \E i \in Op : ~At(i, "new")'
  <2> SUFFICES ASSUME IsLive' PROVE \E i \in Op : ~At(i, "new")'
    OBVIOUS
  <2>1. PICK i \in Op : ~At(i, "new")
    BY <1>2 DEF CalledInOrder, At
  <2> QED
    BY <2>1, CallsInTurn
<1>4. lock # 0 => lock \in Op /\ op[lock].pc \in {"spawning", "published"}
  BY DEF Types, CalledInOrder
<1>5. ASSUME lock' # 0 PROVE op'[lock'].pc \in {"spawning", "published"}
  <2>1. ASSUME NEW i \in Op, OpStep(i) PROVE op'[lock'].pc \in {"spawning", "published"}
    <3>1. CASE Walk(i)
      BY <1>4, <1>5, <3>1 DEF Walk, Others
    <3>2. CASE SpawnsFor(i)
      BY <1>4, <1>5, <3>2 DEF SpawnsFor, Spawned, Others, At, Called
    <3>3. CASE Registers(i)
      BY <1>4, <1>5, <3>3 DEF Registers, GoesTo, Others, At
    <3>4. CASE Begins(i) \/ Marks(i) \/ Removes(i) \/ Rebinds(i) \/ Dispatches(i) \/ Sends(i)
      BY <1>4, <1>5, <3>4
         DEF Begins, Dispatches, Sends, Marks, Removes, Rebinds, GoesWith, GoesTo, Others, At
    <3> QED
      BY <2>1, <3>1, <3>2, <3>3, <3>4 DEF OpStep
  <2>2. ASSUME NEW g \in Gen, ActorStep(g) PROVE op'[lock'].pc \in {"spawning", "published"}
    BY <1>4, <1>5, <2>2 DEF ActorStep, Advances, Ends, TurnEnds, Refuses, Takes, Ended, Answered
  <2>3. Restarts => lock' = 0
    BY DEF Restarts
  <2> QED
    BY <1>4, <1>5, <2>1, <2>2, <2>3 DEF Steps, vars
<1> QED
  BY <1>1, <1>3, <1>5 DEF CalledInOrder

(* What the steps do to where the actors are: none comes back, and only a spawn *)
(* starts one.                                                                 *)
LEMMA ActorsMoveOn ==
    ASSUME Types, Steps, NEW g \in Gen
    PROVE  /\ actor'[g].at = "none" => actor[g].at = "none"
           /\ actor[g].at = "dead" => actor'[g].at = "dead"
           /\ actor[g].at \in Registered \union {"dead"} => actor'[g].at \in Registered \union {"dead"}
<1>1. "setup" \in Registered /\ \A a \in Registered : a \notin {"none", "starting", "ready", "dead"}
  BY DEF Registered, Loop
<1>2. ASSUME NEW i \in Op, OpStep(i)
      PROVE  \/ actor'[g].at = actor[g].at
             \/ actor[g].at = "none" /\ actor'[g].at = "starting"
             \/ actor[g].at = "ready" /\ actor'[g].at = "setup"
  <2>1. CASE Walk(i)
    BY <2>1 DEF Walk
  <2>2. CASE SpawnsFor(i)
    BY <2>2, RecordTypes DEF SpawnsFor, Spawned
  <2>3. CASE Registers(i)
    BY <2>3 DEF Registers
  <2>4. CASE Begins(i) \/ Marks(i) \/ Removes(i) \/ Rebinds(i) \/ Dispatches(i) \/ Sends(i)
    BY <2>4 DEF Begins, Dispatches, Sends, Marks, Removes, Rebinds, ActorsGoOn, Pushed
  <2> QED
    BY <1>2, <2>1, <2>2, <2>3, <2>4 DEF OpStep
<1>3. ASSUME NEW h \in Gen, ActorStep(h)
      PROVE  \/ actor'[g].at = actor[g].at
             \/ actor'[g].at = "dead"
             \/ actor[g].at = "starting" /\ actor'[g].at = "ready"
             \/ actor[g].at \in Registered /\ actor'[g].at \in Registered
  BY <1>3 DEF ActorStep, Advances, Ends, TurnEnds, Refuses, Takes, Ended, Registered, Loop
<1>4. ASSUME Restarts
      PROVE  /\ actor'[g].at \in {"none", "dead"}
             /\ actor'[g].at = "none" => actor[g].at = "none"
  BY <1>4 DEF Restarts
<1>5. UNCHANGED vars => actor' = actor
  BY DEF vars
<1> QED
  BY <1>1, <1>2, <1>3, <1>4, <1>5 DEF Steps

LEMMA LiveSpawnedSteps ==
    ASSUME Types, LiveWasSpawned, Steps
    PROVE  LiveWasSpawned'
<1>1. IsLive => live.gen \in Gen
  BY LiveSteps
<1>2. IsLive => actor[live.gen].at \in Registered \union {"dead"}
  BY DEF LiveWasSpawned
<1>3. \A i \in Op : At(i, "prepare") => op[i].gen \in Gen /\ actor[op[i].gen].at # "none"
  BY DEF LiveWasSpawned, Types, At
<1>4. \A i \in Op : op[i].pc \in {"spawning", "respawn"} => op[i].gen \in Gen
  BY DEF Types
<1>5. "none" \notin Registered \union {"dead"} /\ "setup" \in Registered
  BY DEF Registered, Loop
<1>6. ASSUME IsLive' PROVE \/ IsLive /\ live'.gen = live.gen
                           \/ live'.gen \in Gen /\ actor'[live'.gen].at \in {"setup", "dead"}
  <2>1. ASSUME NEW i \in Op, Registers(i)
        PROVE  live'.gen \in Gen /\ actor'[live'.gen].at \in {"setup", "dead"}
    BY <1>4, <2>1 DEF Registers, At
  <2>2. ASSUME NEW i \in Op, OpStep(i), ~Registers(i) PROVE IsLive /\ live'.gen = live.gen
    BY <1>6, <2>2
       DEF OpStep, Walk, Begins, Dispatches, Sends, Marks, Removes, Rebinds, SpawnsFor,
           LiveKept, IsLive, Absent
  <2>3. ASSUME NEW g \in Gen, ActorStep(g) PROVE IsLive /\ live'.gen = live.gen
    BY <1>6, <2>3 DEF ActorStep, Advances, Ends, TurnEnds, Refuses, Takes, LiveKept, IsLive
  <2>4. ~Restarts
    BY <1>6 DEF Restarts, IsLive, Absent
  <2> QED
    BY <1>6, <2>1, <2>2, <2>3, <2>4 DEF Steps, vars, IsLive
<1>7. IsLive' => actor'[live'.gen].at \in Registered \union {"dead"}
  BY <1>1, <1>2, <1>5, <1>6, ActorsMoveOn
<1>8. ASSUME NEW i \in Op, At(i, "prepare")'
      PROVE  \/ At(i, "prepare") /\ op'[i].gen = op[i].gen
             \/ IsLive /\ op'[i].gen = live.gen
  <2>1. ASSUME NEW j \in Op, OpStep(j)
        PROVE  \/ At(i, "prepare") /\ op'[i].gen = op[i].gen
               \/ IsLive /\ op'[i].gen = live.gen
    <3>1. CASE Walk(j)
      BY <1>8, <3>1 DEF Walk, Others, At
    <3>2. CASE Begins(j) \/ Marks(j) \/ Removes(j) \/ Rebinds(j) \/ Dispatches(j)
      BY <1>8, <3>2 DEF Begins, Dispatches, Marks, Removes, Rebinds, GoesWith, Others, At
    <3>3. CASE Sends(j) \/ SpawnsFor(j) \/ Registers(j)
      BY <1>8, <3>3 DEF Sends, SpawnsFor, Registers, Spawned, GoesTo, Others, At
    <3> QED
      BY <2>1, <3>1, <3>2, <3>3 DEF OpStep
  <2>2. ASSUME NEW g \in Gen, ActorStep(g) PROVE At(i, "prepare") /\ op'[i].gen = op[i].gen
    BY <1>8, <2>2 DEF ActorStep, Advances, Ends, TurnEnds, Refuses, Takes, Ended, Answered, At
  <2>3. ~Restarts
    BY <1>8, RecordTypes DEF Restarts, At
  <2> QED
    BY <1>8, <2>1, <2>2, <2>3 DEF Steps, vars, At
<1>9. ASSUME NEW i \in Op, At(i, "prepare")' PROVE actor'[op'[i].gen].at # "none"
  BY <1>1, <1>2, <1>3, <1>5, <1>8, <1>9, ActorsMoveOn
<1> QED
  BY <1>7, <1>9 DEF LiveWasSpawned

LEMMA WellFormedSteps ==
    ASSUME WellFormed, [Next]_vars
    PROVE  WellFormed'
BY StepShapes, StepTypes, OrderSteps, LiveSpawnedSteps DEF WellFormed

------------------------------------------------------------------------------
(* The prompts an actor holds                                                  *)

\* The prompts in the channel of an actor.
Waiting(g) == {i \in Op : \E n \in Commands(g, "prompt") : actor[g].queue[n].op = i}

LEMMA HeldParts ==
    ASSUME NEW g
    PROVE  Held(g) = Waiting(g) \union {i \in Op : actor[g].turn = i}
BY DEF Held, Waiting

LEMMA SameQueue ==
    ASSUME NEW g, actor'[g].queue = actor[g].queue
    PROVE  Waiting(g)' = Waiting(g) /\ \A k : Commands(g, k)' = Commands(g, k)
BY DEF Waiting, Commands

LEMMA SameHeld ==
    ASSUME NEW g, actor'[g].queue = actor[g].queue, actor'[g].turn = actor[g].turn
    PROVE  Held(g)' = Held(g)
BY DEF Held, Commands

LEMMA NothingHeld ==
    ASSUME NEW g, actor[g].queue = <<>>, actor[g].turn = 0
    PROVE  Held(g) = {} /\ \A k : Commands(g, k) = {}
<1>1. \A k : Commands(g, k) = {}
  BY DEF Commands
<1>2. \A i \in Op : i # 0
  BY BoundsAssumption DEF Op
<1> QED
  BY <1>1, <1>2 DEF Held

LEMMA PushedCommands ==
    ASSUME Types, NEW g \in Gen, NEW k, NEW i \in Op, Pushed(g, k, i)
    PROVE  /\ \A j : Commands(g, j) \subseteq Commands(g, j)'
           /\ \A j : \A n \in Commands(g, j) : actor'[g].queue[n] = actor[g].queue[n]
           /\ \A j : \A n \in Commands(g, j)' :
                 \/ n \in Commands(g, j)
                 \/ j = k /\ Alive(g) /\ n = Len(actor[g].queue) + 1 /\ actor'[g].queue[n].op = i
           /\ Alive(g) => Commands(g, k)' # {}
           /\ Waiting(g)' = IF Alive(g) /\ k = "prompt" THEN Waiting(g) \union {i} ELSE Waiting(g)
<1> DEFINE q == actor[g].queue
           c == [kind |-> k, op |-> i]
<1>0. q \in Seq(Command) /\ c.kind = k /\ c.op = i
  BY DEF Types, ActorType
<1>1. CASE ~Alive(g)
  <2>1. actor'[g].queue = q
    BY <1>1 DEF Pushed
  <2> QED
    BY <1>1, <2>1, SameQueue
<1>2. CASE Alive(g)
  <2>1. actor'[g].queue = Append(q, c)
    BY <1>2 DEF Pushed
  <2> HIDE DEF c, q
  <2>2. q \in Seq(Command \union {c}) /\ c \in Command \union {c}
    BY <1>0
  <2>3. /\ DOMAIN Append(q, c) = 1..(Len(q) + 1) /\ DOMAIN q = 1..Len(q) /\ Len(q) \in Nat
        /\ \A n \in 1..Len(q) : Append(q, c)[n] = q[n]
        /\ Append(q, c)[Len(q) + 1] = c
    BY <2>2, AppendProperties
  <2>4. \A j : Commands(g, j) = {n \in 1..Len(q) : q[n].kind = j}
    BY <2>3 DEF Commands, q
  <2>5. \A j : Commands(g, j)' = {n \in 1..(Len(q) + 1) : Append(q, c)[n].kind = j}
    BY <2>1, <2>3 DEF Commands
  <2>6. \A j : \A n \in Commands(g, j) : n \in Commands(g, j)' /\ actor'[g].queue[n] = q[n]
    BY <2>1, <2>3, <2>4, <2>5
  <2>7. \A j : \A n \in Commands(g, j)' :
           n \in Commands(g, j) \/ (j = k /\ n = Len(q) + 1 /\ actor'[g].queue[n].op = i)
    BY <1>0, <2>1, <2>3, <2>4, <2>5
  <2>8. Len(q) + 1 \in Commands(g, k)' /\ actor'[g].queue[Len(q) + 1].op = i
    BY <1>0, <2>1, <2>3, <2>5
  <2>9. Waiting(g)' = IF k = "prompt" THEN Waiting(g) \union {i} ELSE Waiting(g)
    <3>1. \A n \in Commands(g, "prompt") : actor'[g].queue[n].op = actor[g].queue[n].op
      BY <2>6 DEF q
    <3> HIDE DEF Commands
    <3>2. Waiting(g) \subseteq Waiting(g)'
      BY <2>6, <3>1 DEF Waiting
    <3>3. k = "prompt" => i \in Waiting(g)'
      BY <2>8 DEF Waiting
    <3>4. \A p \in Waiting(g)' : p \in Waiting(g) \/ (k = "prompt" /\ p = i)
      BY <2>7, <3>1 DEF Waiting
    <3> QED
      BY <3>2, <3>3, <3>4
  <2> QED
    BY <1>2, <2>6, <2>7, <2>8, <2>9 DEF q
<1> QED
  BY <1>1, <1>2

LEMMA DequeuedCommands ==
    ASSUME Types, NEW g \in Gen, NEW k, Dequeues(g, k)
    PROVE  /\ 1 \in Commands(g, k) /\ Head(actor[g].queue) = actor[g].queue[1]
           /\ \A j : j # k => 1 \notin Commands(g, j)
           /\ \A j : \A n \in Commands(g, j)' :
                 /\ n \in Nat \ {0} /\ n + 1 \in Commands(g, j)
                 /\ actor'[g].queue[n] = actor[g].queue[n + 1]
           /\ \A j : \A n \in Commands(g, j) \ {1} :
                 n - 1 \in Commands(g, j)' /\ actor'[g].queue[n - 1] = actor[g].queue[n]
<1> DEFINE q == actor[g].queue
<1>0. q \in Seq(Command) /\ q # <<>> /\ Head(q).kind = k /\ actor'[g].queue = Tail(q)
  BY DEF Types, ActorType, Dequeues, HasCommand
<1>1. /\ DOMAIN q = 1..Len(q) /\ Len(q) \in Nat /\ Len(q) >= 1 /\ Head(q) = q[1]
      /\ DOMAIN Tail(q) = 1..(Len(q) - 1)
      /\ \A n \in 1..(Len(q) - 1) : Tail(q)[n] = q[n + 1]
  BY <1>0, HeadTailProperties, EmptySeq, LenProperties
<1> HIDE DEF q
<1>2. \A j : Commands(g, j) = {n \in 1..Len(q) : q[n].kind = j}
  BY <1>1 DEF Commands, q
<1>3. \A j : Commands(g, j)' = {n \in 1..(Len(q) - 1) : Tail(q)[n].kind = j}
  BY <1>0, <1>1 DEF Commands
<1>4. 1 \in Commands(g, k) /\ \A j : j # k => 1 \notin Commands(g, j)
  BY <1>0, <1>1, <1>2
<1>5. \A j : \A n \in Commands(g, j)' :
         n \in Nat \ {0} /\ n + 1 \in Commands(g, j) /\ actor'[g].queue[n] = q[n + 1]
  BY <1>0, <1>1, <1>2, <1>3
<1>6. \A j : \A n \in Commands(g, j) \ {1} : n - 1 \in Commands(g, j)' /\ actor'[g].queue[n - 1] = q[n]
  <2>1. \A n \in 1..Len(q) : n # 1 => n - 1 \in 1..(Len(q) - 1) /\ Tail(q)[n - 1] = q[n]
    BY <1>1
  <2> QED
    BY <1>0, <1>2, <1>3, <2>1
<1> QED
  BY <1>1, <1>4, <1>5, <1>6 DEF q

LEMMA DequeuedWaiting ==
    ASSUME Types, HeldOnce, NEW g \in Gen
    PROVE  /\ Dequeues(g, "cancel") => Waiting(g)' = Waiting(g)
           /\ Dequeues(g, "prompt") => /\ Head(actor[g].queue).op \in Waiting(g)
                                       /\ Waiting(g)' = Waiting(g) \ {Head(actor[g].queue).op}
<1>1. ASSUME Dequeues(g, "cancel") PROVE Waiting(g)' = Waiting(g)
  <2>1. 1 \notin Commands(g, "prompt")
    BY <1>1, DequeuedCommands
  <2>2. \A n \in Commands(g, "prompt")' :
           n + 1 \in Commands(g, "prompt") /\ actor'[g].queue[n] = actor[g].queue[n + 1]
    BY <1>1, DequeuedCommands
  <2>3. \A n \in Commands(g, "prompt") :
           n - 1 \in Commands(g, "prompt")' /\ actor'[g].queue[n - 1] = actor[g].queue[n]
    BY <1>1, <2>1, DequeuedCommands
  <2> QED
    BY <2>2, <2>3 DEF Waiting
<1>2. ASSUME Dequeues(g, "prompt")
      PROVE  /\ Head(actor[g].queue).op \in Waiting(g)
             /\ Waiting(g)' = Waiting(g) \ {Head(actor[g].queue).op}
  <2> DEFINE p == actor[g].queue[1].op
  <2>1. 1 \in Commands(g, "prompt") /\ Head(actor[g].queue).op = p
    BY <1>2, DequeuedCommands
  <2>2. \A n \in Commands(g, "prompt")' : /\ n \in Nat \ {0} /\ n + 1 \in Commands(g, "prompt")
                                          /\ actor'[g].queue[n] = actor[g].queue[n + 1]
    BY <1>2, DequeuedCommands
  <2>3. \A n \in Commands(g, "prompt") : n # 1 =>
           n - 1 \in Commands(g, "prompt")' /\ actor'[g].queue[n - 1] = actor[g].queue[n]
    BY <1>2, DequeuedCommands
  <2>4. \A n \in Commands(g, "prompt") : actor[g].queue[n].op = p => n = 1
    BY <2>1 DEF HeldOnce
  <2>5. p \in Op
    <3>1. actor[g].queue \in Seq(Command)
      BY DEF Types, ActorType
    <3>2. 1 \in DOMAIN actor[g].queue
      BY <2>1 DEF Commands
    <3>3. actor[g].queue[1] \in Command
      BY <3>1, <3>2, ElementOfSeq, LenProperties
    <3> QED
      BY <3>3 DEF Command
  <2>6. \A n \in Commands(g, "prompt")' : n + 1 # 1
    BY <2>2
  <2> HIDE DEF p
  <2>7. p \in Waiting(g)
    BY <2>1, <2>5 DEF Waiting, p
  <2>8. p \notin Waiting(g)'
    BY <2>2, <2>4, <2>6 DEF Waiting
  <2>9. Waiting(g)' \subseteq Waiting(g)
    BY <2>2 DEF Waiting
  <2>10. Waiting(g) \ {p} \subseteq Waiting(g)'
    BY <2>3 DEF Waiting, p
  <2> QED
    BY <2>1, <2>7, <2>8, <2>9, <2>10
<1> QED
  BY <1>1, <1>2

(* Only a dispatch adds to what an actor holds; an actor loses what it answers. *)
LEMMA HeldByOpStep ==
    ASSUME Types, TurnsInLoop, NEW i \in Op, NEW h \in Gen
    PROVE  /\ OpStep(i) /\ Held(h)' # Held(h) => Dispatches(i)
           /\ Dispatches(i) => Held(h)' = IF h = op[i].gen THEN Held(h) \union {i} ELSE Held(h)
<1>0. ASSUME actor'[h].queue = actor[h].queue, actor'[h].turn = actor[h].turn
      PROVE  Held(h)' = Held(h)
  BY <1>0, SameHeld
<1>1. ASSUME NEW g \in Gen, NEW k, NEW j \in Op, Pushed(g, k, j)
      PROVE  Held(h)' = IF h = g /\ Alive(g) /\ k = "prompt" THEN Held(h) \union {j} ELSE Held(h)
  <2>1. CASE h # g
    BY <1>0, <1>1, <2>1 DEF Pushed
  <2>2. CASE h = g
    <3>1. actor'[g].turn = actor[g].turn
      BY <1>1 DEF Pushed
    <3>2. Waiting(g)' = IF Alive(g) /\ k = "prompt" THEN Waiting(g) \union {j} ELSE Waiting(g)
      BY <1>1, PushedCommands
    <3>3. Held(g)' = Waiting(g)' \union {p \in Op : actor'[g].turn = p}
      BY HeldParts DEF Held, Waiting
    <3> HIDE DEF Alive
    <3> QED
      BY <2>2, <3>1, <3>2, <3>3, HeldParts
  <2> QED
    BY <2>1, <2>2
<1>2. Walk(i) \/ Begins(i) \/ Marks(i) \/ Rebinds(i) \/ Registers(i) => Held(h)' = Held(h)
  BY <1>0 DEF Walk, Begins, Marks, Rebinds, Registers, ActorsGoOn
<1>3. ASSUME SpawnsFor(i) PROVE Held(h)' = Held(h)
  <2>1. PICK g \in Gen : /\ actor[g].at = "none" /\ actor'[g] = NewActor
                         /\ \A j \in Gen \ {g} : actor'[j] = actor[j]
    BY <1>3 DEF SpawnsFor, Spawned
  <2>2. actor[g].queue = <<>> /\ actor[g].turn = 0
    BY <2>1 DEF TurnsInLoop, Alive, AliveAt, Registered, Loop
  <2> QED
    BY <1>0, <2>1, <2>2, RecordTypes
<1>4. Removes(i) => Held(h)' = Held(h)
  <2>1. Removes(i) => live.gen \in Gen /\ Pushed(live.gen, "close", i)
    BY LiveSteps DEF Removes
  <2> QED
    BY <1>1, <2>1
<1>5. Sends(i) => Held(h)' = Held(h)
  <2>1. Sends(i) => /\ op[i].gen \in Gen
                    /\ Pushed(op[i].gen, "cancel", i) \/ Pushed(op[i].gen, "close", i)
    BY DEF Sends, Types, At
  <2> QED
    BY <1>1, <2>1
<1>6. Dispatches(i) => Held(h)' = IF h = op[i].gen THEN Held(h) \union {i} ELSE Held(h)
  <2>1. Dispatches(i) => /\ op[i].gen \in Gen /\ Alive(op[i].gen)
                         /\ Pushed(op[i].gen, "prompt", i)
    BY DEF Dispatches, Types, At
  <2> QED
    BY <1>1, <2>1
<1> QED
  BY <1>2, <1>3, <1>4, <1>5, <1>6 DEF OpStep

LEMMA HeldByActorStep ==
    ASSUME Types, TurnsInLoop, HeldOnce, NEW g \in Gen
    PROVE  /\ \A h \in Gen \ {g} : ActorStep(g) => Held(h)' = Held(h)
           /\ Advances(g) \/ Takes(g) => Held(g)' = Held(g)
           /\ Ends(g) => Held(g)' = {}
           /\ TurnEnds(g) => Held(g)' = Held(g) \ {actor[g].turn}
           /\ Refuses(g) => /\ Held(g)' = Held(g) \ {Head(actor[g].queue).op}
                            /\ Head(actor[g].queue).op \in Held(g)
<1>0. Held(g)' = Waiting(g)' \union {p \in Op : actor'[g].turn = p}
  BY DEF Held, Waiting
<1>1. \A p \in Waiting(g) : p # actor[g].turn
  BY DEF Waiting, HeldOnce
<1>2. ASSUME NEW h \in Gen \ {g}, ActorStep(g) PROVE Held(h)' = Held(h)
  <2>1. actor'[h] = actor[h]
    BY <1>2 DEF ActorStep, Advances, Ends, TurnEnds, Refuses, Takes, Ended
  <2> QED
    BY <2>1, SameHeld
<1>3. Advances(g) => Held(g)' = Held(g)
  BY SameHeld DEF Advances
<1>4. ASSUME Takes(g) PROVE Held(g)' = Held(g)
  <2>1. /\ Dequeues(g, "prompt") /\ actor'[g].turn = Head(actor[g].queue).op /\ actor[g].at = "idle"
    BY <1>4 DEF Takes
  <2>2. actor[g].turn = 0 /\ 0 \notin Op
    BY <2>1 DEF TurnsInLoop, Op
  <2>3. Head(actor[g].queue).op \in Waiting(g)
        /\ Waiting(g)' = Waiting(g) \ {Head(actor[g].queue).op}
    BY <2>1, DequeuedWaiting
  <2>4. Waiting(g) \subseteq Op
    BY DEF Waiting
  <2> QED
    BY <1>0, <2>1, <2>2, <2>3, <2>4, HeldParts
<1>5. ASSUME Ends(g) PROVE Held(g)' = {}
  <2>1. actor'[g].queue = <<>> /\ actor'[g].turn = 0
    BY <1>5 DEF Ends, Ended
  <2>2. Waiting(g)' = {} /\ \A p \in Op : p # 0
    BY <2>1 DEF Waiting, Commands, Op
  <2> QED
    BY <1>0, <2>1, <2>2
<1>6. ASSUME TurnEnds(g) PROVE Held(g)' = Held(g) \ {actor[g].turn}
  <2>1. /\ actor'[g].turn = 0
        /\ actor'[g].queue = actor[g].queue \/ Dequeues(g, "cancel")
    BY <1>6 DEF TurnEnds
  <2>2. Waiting(g)' = Waiting(g)
    BY <2>1, SameQueue, DequeuedWaiting
  <2>3. 0 \notin Op
    BY DEF Op
  <2> QED
    BY <1>0, <1>1, <2>1, <2>2, <2>3, HeldParts
<1>7. ASSUME Refuses(g)
      PROVE  Held(g)' = Held(g) \ {Head(actor[g].queue).op} /\ Head(actor[g].queue).op \in Held(g)
  <2>1. Dequeues(g, "prompt") /\ actor'[g].turn = actor[g].turn
    BY <1>7 DEF Refuses
  <2>2. Head(actor[g].queue).op \in Waiting(g)
        /\ Waiting(g)' = Waiting(g) \ {Head(actor[g].queue).op}
    BY <2>1, DequeuedWaiting
  <2> QED
    BY <1>0, <1>1, <2>1, <2>2, HeldParts
<1> QED
  BY <1>2, <1>3, <1>4, <1>5, <1>6, <1>7

LEMMA TurnsInLoopSteps ==
    ASSUME Types, TurnsInLoop, Steps
    PROVE  TurnsInLoop'
<1> SUFFICES ASSUME NEW h \in Gen
             PROVE  /\ actor'[h].turn # 0 => actor'[h].at \in {"opening", "draining", "turn"}
                    /\ actor'[h].at \notin AliveAt => actor'[h].queue = <<>>
  BY DEF TurnsInLoop, Alive
<1>1. /\ actor[h].turn # 0 => actor[h].at \in {"opening", "draining", "turn"}
      /\ actor[h].at \notin AliveAt => actor[h].queue = <<>>
  BY DEF TurnsInLoop, Alive
<1>2. /\ Loop \subseteq AliveAt /\ {"starting", "ready", "setup"} \subseteq AliveAt
      /\ {"idle", "opening", "draining", "turn"} \subseteq Loop
  BY DEF AliveAt, Registered, Loop
<1>3. ASSUME NEW i \in Op, OpStep(i)
      PROVE  /\ actor'[h].turn # 0 => actor'[h].at \in {"opening", "draining", "turn"}
             /\ actor'[h].at \notin AliveAt => actor'[h].queue = <<>>
  <2>1. CASE Walk(i) \/ Begins(i) \/ Marks(i) \/ Rebinds(i)
    BY <1>1, <2>1 DEF Walk, Begins, Marks, Rebinds, ActorsGoOn
  <2>2. ASSUME NEW g \in Gen, NEW k, Pushed(g, k, i)
        PROVE  /\ actor'[h].turn = actor[h].turn /\ actor'[h].at = actor[h].at
               /\ actor[h].at \notin AliveAt => actor'[h].queue = actor[h].queue
    BY <2>2 DEF Pushed, Alive
  <2>3. CASE Dispatches(i) \/ Sends(i) \/ Removes(i)
    <3>1. \E g \in Gen, k \in {"prompt", "cancel", "close"} : Pushed(g, k, i)
      BY <2>3, LiveSteps DEF Dispatches, Sends, Removes, Types, At
    <3> QED
      BY <1>1, <2>2, <3>1
  <2>4. CASE SpawnsFor(i)
    BY <1>1, <1>2, <2>4, RecordTypes DEF SpawnsFor, Spawned
  <2>5. CASE Registers(i)
    BY <1>1, <1>2, <2>5 DEF Registers
  <2> QED
    BY <1>3, <2>1, <2>3, <2>4, <2>5 DEF OpStep
<1>4. ASSUME NEW g \in Gen, ActorStep(g)
      PROVE  /\ actor'[h].turn # 0 => actor'[h].at \in {"opening", "draining", "turn"}
             /\ actor'[h].at \notin AliveAt => actor'[h].queue = <<>>
  <2>1. CASE h # g
    BY <1>1, <1>4, <2>1 DEF ActorStep, Advances, Ends, TurnEnds, Refuses, Takes, Ended
  <2>2. CASE h = g
    <3>1. CASE Advances(g)
      BY <1>1, <1>2, <2>2, <3>1 DEF Advances
    <3>2. CASE Ends(g)
      BY <2>2, <3>2 DEF Ends, Ended
    <3>3. CASE TurnEnds(g) \/ Takes(g)
      BY <1>2, <2>2, <3>3 DEF TurnEnds, Takes
    <3>4. CASE Refuses(g)
      BY <1>1, <1>2, <2>2, <3>4 DEF Refuses
    <3> QED
      BY <1>4, <3>1, <3>2, <3>3, <3>4 DEF ActorStep
  <2> QED
    BY <2>1, <2>2
<1>5. Restarts => actor'[h].turn = 0 /\ actor'[h].queue = <<>>
  BY DEF Restarts
<1> QED
  BY <1>1, <1>3, <1>4, <1>5 DEF Steps, vars

Prompts == TurnsInLoop /\ HeldAreWaiting /\ HeldOnce /\ AdmittedIsHeard

\* What the registry and the other operations see of an operation that does not move.
SameOp(p) == /\ op'[p].pc = op[p].pc /\ op'[p].gen = op[p].gen /\ op'[p].kind = op[p].kind
             /\ op'[p].answered = op[p].answered

LEMMA OthersStay ==
    ASSUME NEW i \in Op, OpStep(i)
    PROVE  \A p \in Op \ {i} : SameOp(p)
BY DEF OpStep, Walk, Begins, Dispatches, Sends, Marks, Removes, Rebinds, SpawnsFor, Registers,
       GoesWith, GoesTo, Spawned, Others, SameOp

\* What becomes of operation i itself.
LEMMA OwnMoves ==
    ASSUME NEW i \in Op, OpStep(i)
    PROVE  /\ op'[i].answered => op[i].answered
           /\ At(i, "admitted") => SameOp(i) \/ (op[i].answered /\ op'[i].pc = "done")
           /\ At(i, "done") => op'[i].pc = "done"
           /\ op'[i].pc = "admitted" => Dispatches(i) \/ (SameOp(i) /\ Walk(i))
           /\ op'[i].pc = "prepare" => Begins(i) \/ (SameOp(i) /\ Walk(i))
           /\ LET admitted == {"prepare", "admitted", "lost", "done"}
              IN  op[i].pc \in admitted => op'[i].pc \in admitted
<1>1. CASE Walk(i)
  BY <1>1 DEF Walk, SameOp, At
<1>2. CASE Begins(i) \/ Dispatches(i) \/ Marks(i) \/ Removes(i) \/ Rebinds(i)
  BY <1>2 DEF Begins, Dispatches, Marks, Removes, Rebinds, GoesWith, SameOp, At
<1>3. CASE Sends(i) \/ SpawnsFor(i) \/ Registers(i)
  BY <1>3 DEF Sends, SpawnsFor, Registers, GoesTo, Spawned, SameOp, At, Called
<1> QED
  BY <1>1, <1>2, <1>3 DEF OpStep

LEMMA HeldStep ==
    ASSUME Types, Types', Prompts, Steps
    PROVE  HeldAreWaiting' /\ AdmittedIsHeard'
<1> USE DEF Prompts
<1> DEFINE Waits(p, g) == op'[p].pc = "admitted" /\ ~op'[p].answered /\ op'[p].gen = g
           Fine == /\ \A g \in Gen : \A p \in Held(g)' : Waits(p, g)
                   /\ \A i \in Op : op'[i].answered => op'[i].pc \in {"admitted", "done"}
                   /\ \A i \in Op, g \in Gen : Waits(i, g) => Alive(g)' /\ i \in Held(g)'
<1>0. /\ \A g \in Gen : \A p \in Held(g) : At(p, "admitted") /\ ~op[p].answered /\ op[p].gen = g
      /\ \A i \in Op : op[i].answered => op[i].pc \in {"admitted", "done"}
      /\ \A i \in Op, g \in Gen : At(i, "admitted") /\ ~op[i].answered /\ op[i].gen = g =>
            Alive(g) /\ i \in Held(g)
      /\ \A g : Held(g) \subseteq Op
  <2>1. \A i \in Op : At(i, "admitted") => op[i].gen \in Gen
    BY DEF Types, At
  <2>2. \A g : Held(g) \subseteq Op
    BY DEF Held
  <2> QED
    BY <2>1, <2>2 DEF HeldAreWaiting, AdmittedIsHeard
<1>1. \A g \in Gen : Alive(g)' <=> actor'[g].at \in AliveAt
  BY DEF Alive
<1>2. ASSUME NEW i \in Op, OpStep(i) PROVE Fine
  <2>1. \A p \in Op \ {i} : SameOp(p)
    BY <1>2, OthersStay
  <2>2. /\ op'[i].answered => op[i].answered
        /\ At(i, "admitted") => SameOp(i) \/ (op[i].answered /\ op'[i].pc = "done")
        /\ At(i, "done") => op'[i].pc = "done"
        /\ op'[i].pc = "admitted" => Dispatches(i) \/ (SameOp(i) /\ Walk(i))
    BY <1>2, OwnMoves
  <2>3. \A g \in Gen : Alive(g) => Alive(g)'
    <3>1. \A g \in Gen : actor'[g].at = actor[g].at
                      \/ actor'[g].at \in {"starting", "setup"}
      <4>1. CASE Walk(i) \/ Begins(i) \/ Marks(i) \/ Rebinds(i) \/ Dispatches(i) \/ Removes(i) \/ Sends(i)
        BY <4>1 DEF Walk, Begins, Marks, Rebinds, Dispatches, Removes, Sends, ActorsGoOn, Pushed
      <4>2. CASE SpawnsFor(i)
        BY <4>2, RecordTypes DEF SpawnsFor, Spawned
      <4>3. CASE Registers(i)
        BY <4>3 DEF Registers
      <4> QED
        BY <1>2, <4>1, <4>2, <4>3 DEF OpStep
    <3> QED
      BY <3>1 DEF Alive, AliveAt, Registered
  <2>4. \A p \in Op : op[p].answered /\ op[p].pc \in {"admitted", "done"} =>
           (op'[p].answered => op'[p].pc \in {"admitted", "done"})
    BY <2>1, <2>2 DEF SameOp, At
  <2>5. \A p \in Op : op'[p].answered => op'[p].pc \in {"admitted", "done"}
    BY <1>0, <2>1, <2>2, <2>4 DEF SameOp
  <2>6. CASE Dispatches(i)
    <3>1. /\ At(i, "prepare") /\ op'[i].pc = "admitted" /\ op'[i].gen = op[i].gen
          /\ op'[i].answered = op[i].answered /\ Alive(op[i].gen)
      BY <2>6 DEF Dispatches, GoesWith
    <3>2. op[i].gen \in Gen /\ ~op[i].answered
      BY <1>0, <3>1 DEF Types, At
    <3>3. \A g \in Gen : Held(g)' = IF g = op[i].gen THEN Held(g) \union {i} ELSE Held(g)
      BY <2>6, HeldByOpStep
    <3>4. \A g \in Gen : i \notin Held(g)
      BY <1>0, <3>1 DEF At
    <3>5. \A g \in Gen : \A p \in Held(g)' : Waits(p, g)
      BY <1>0, <2>1, <3>1, <3>2, <3>3 DEF SameOp, At
    <3>6. \A p \in Op, g \in Gen : Waits(p, g) => Alive(g) /\ p \in Held(g)'
      BY <1>0, <2>1, <3>1, <3>2, <3>3 DEF SameOp, At
    <3> QED
      BY <2>3, <2>5, <3>5, <3>6
  <2>7. CASE ~Dispatches(i)
    <3>1. \A g \in Gen : Held(g)' = Held(g)
      BY <1>2, <2>7, HeldByOpStep
    <3>2. \A g \in Gen : \A p \in Held(g)' : Waits(p, g)
      BY <1>0, <2>1, <2>2, <3>1 DEF SameOp, At
    <3>3. \A p \in Op, g \in Gen : Waits(p, g) => Alive(g) /\ p \in Held(g)'
      BY <1>0, <2>1, <2>2, <2>7, <3>1 DEF SameOp, At
    <3> QED
      BY <2>3, <2>5, <3>2, <3>3
  <2> QED
    BY <2>6, <2>7
<1>3. ASSUME NEW g \in Gen, ActorStep(g), NEW S,
             Held(g)' = Held(g) \ S, Answered(S), S \intersect Op \subseteq Held(g),
             Held(g)' # {} => Alive(g)'
      PROVE  Fine
  <2>1. \A h \in Gen \ {g} : Held(h)' = Held(h) /\ (Alive(h) => Alive(h)')
    <3>1. \A h \in Gen \ {g} : actor'[h] = actor[h]
      BY <1>3 DEF ActorStep, Advances, Ends, TurnEnds, Refuses, Takes, Ended
    <3> QED
      BY <1>3, <3>1, HeldByActorStep DEF Alive
  <2>2. \A p \in Op : /\ op'[p].pc = op[p].pc /\ op'[p].gen = op[p].gen
                      /\ op'[p].answered <=> op[p].answered \/ p \in S
    BY <1>3 DEF Answered
  <2>3. \A p \in Op : p \in S => op[p].pc = "admitted" /\ op[p].gen = g
    BY <1>0, <1>3 DEF At
  <2>4. \A h \in Gen : \A p \in Held(h)' : Waits(p, h)
    <3>1. \A p \in Held(g)' : Waits(p, g)
      BY <1>0, <1>3, <2>2 DEF At
    <3>2. \A h \in Gen \ {g} : \A p \in Held(h)' : Waits(p, h)
      BY <1>0, <2>1, <2>2, <2>3 DEF At
    <3> QED
      BY <3>1, <3>2
  <2>5. \A p \in Op, h \in Gen : Waits(p, h) => Alive(h)' /\ p \in Held(h)'
    BY <1>0, <1>3, <2>1, <2>2 DEF At
  <2> QED
    BY <1>0, <2>2, <2>3, <2>4, <2>5
<1>4. ASSUME NEW g \in Gen, ActorStep(g) PROVE Fine
  <2>1. Held(g) # {} => Alive(g)
    BY <1>0
  <2>2. CASE Advances(g) \/ Takes(g)
    <3>1. Answered({})
      BY <2>2 DEF Advances, Takes, Answered, Types
    <3>2. Held(g)' = Held(g) \ {}
      BY <2>2, HeldByActorStep DEF Prompts
    <3>3. Alive(g) => Alive(g)'
      BY <2>2 DEF Advances, Takes, Alive, AliveAt, Registered, Loop
    <3> QED
      BY <1>3, <1>4, <2>1, <3>1, <3>2, <3>3
  <2>3. CASE Ends(g)
    <3>1. Held(g)' = {} /\ Answered(Held(g))
      BY <2>3, HeldByActorStep DEF Ends, Ended
    <3> QED
      BY <1>3, <1>4, <3>1
  <2>4. CASE TurnEnds(g)
    <3>1. Held(g)' = Held(g) \ {actor[g].turn} /\ Answered({actor[g].turn})
      BY <2>4, HeldByActorStep DEF TurnEnds
    <3>2. {actor[g].turn} \intersect Op \subseteq Held(g)
      BY DEF Held
    <3>3. Alive(g)'
      BY <2>4 DEF TurnEnds, Alive, AliveAt, Registered, Loop
    <3> QED
      BY <1>3, <1>4, <3>1, <3>2, <3>3
  <2>5. CASE Refuses(g)
    <3> DEFINE p == Head(actor[g].queue).op
    <3>1. Held(g)' = Held(g) \ {p} /\ p \in Held(g) /\ Answered({p})
      BY <2>5, HeldByActorStep DEF Refuses
    <3>2. Alive(g)'
      BY <2>5 DEF Refuses, Alive, AliveAt, Registered, Loop
    <3> HIDE DEF p
    <3> QED
      BY <1>3, <1>4, <3>1, <3>2
  <2> QED
    BY <1>4, <2>2, <2>3, <2>4, <2>5 DEF ActorStep
<1>5. ASSUME Restarts PROVE Fine
  <2>1. \A i \in Op : op'[i].pc \in {"new", "done"} /\ ~op'[i].answered
    BY <1>5, RecordTypes DEF Restarts
  <2>2. \A g \in Gen : Held(g)' = {}
    BY <1>5 DEF Restarts, Held, Commands, Op
  <2> QED
    BY <2>1, <2>2
<1>6. UNCHANGED vars => Fine
  <2> SUFFICES ASSUME UNCHANGED vars PROVE Fine
    OBVIOUS
  <2>1. \A g \in Gen : Held(g)' = Held(g) /\ (Alive(g) <=> Alive(g)')
    BY SameHeld DEF vars, Alive
  <2> QED
    BY <1>0, <2>1 DEF vars, At
<1>7. Fine
  BY <1>2, <1>4, <1>5, <1>6 DEF Steps
<1>8. HeldAreWaiting'
  BY <1>7 DEF HeldAreWaiting, At
<1>9. \A i \in Op : op'[i].pc = "admitted" => op'[i].gen \in Gen
  BY DEF Types
<1>10. AdmittedIsHeard'
  BY <1>7, <1>9 DEF AdmittedIsHeard, At, Alive, Held, Commands
<1> QED
  BY <1>8, <1>10

LEMMA HeldOnceStep ==
    ASSUME Types, Prompts, Steps
    PROVE  HeldOnce'
<1> USE DEF Prompts
<1> DEFINE OnceAt(g) ==
              \A n \in Commands(g, "prompt") :
                 /\ actor[g].queue[n].op # actor[g].turn
                 /\ \A m \in Commands(g, "prompt") :
                       actor[g].queue[m].op = actor[g].queue[n].op => m = n
<1> SUFFICES ASSUME NEW h \in Gen PROVE OnceAt(h)'
  BY DEF HeldOnce
<1>1. OnceAt(h)
  BY DEF HeldOnce
<1>2. ASSUME actor'[h].queue = actor[h].queue,
             actor'[h].turn \in {0, actor[h].turn}
      PROVE  OnceAt(h)'
  <2>1. \A n \in Commands(h, "prompt") : actor[h].queue[n].op # 0
    <3>1. actor[h].queue \in Seq(Command)
      BY DEF Types, ActorType
    <3>2. \A n \in DOMAIN actor[h].queue : actor[h].queue[n] \in Command
      BY <3>1, ElementOfSeq, LenProperties
    <3> QED
      BY <3>2 DEF Commands, Command, Op
  <2>2. Commands(h, "prompt")' = Commands(h, "prompt")
    BY <1>2, SameQueue
  <2> QED
    BY <1>1, <1>2, <2>1, <2>2
<1>3. ASSUME actor'[h].queue = <<>> PROVE OnceAt(h)'
  BY <1>3 DEF Commands
<1>4. ASSUME NEW k, NEW i \in Op, Pushed(h, k, i), k = "prompt" => i \notin Held(h) PROVE OnceAt(h)'
  <2>1. /\ \A n \in Commands(h, "prompt") : actor'[h].queue[n] = actor[h].queue[n]
        /\ \A n \in Commands(h, "prompt")' :
              \/ n \in Commands(h, "prompt")
              \/ /\ "prompt" = k /\ n = Len(actor[h].queue) + 1 /\ actor'[h].queue[n].op = i
    BY <1>4, PushedCommands
  <2>2. actor'[h].turn = actor[h].turn
    BY <1>4 DEF Pushed
  <2>3. k = "prompt" => /\ actor[h].turn # i
                        /\ \A n \in Commands(h, "prompt") : actor[h].queue[n].op # i
    BY <1>4 DEF Held
  <2> HIDE DEF Commands
  <2> QED
    BY <1>1, <2>1, <2>2, <2>3
<1>5. ASSUME NEW k, Dequeues(h, k),
             \/ actor'[h].turn = actor[h].turn
             \/ actor'[h].turn = 0
             \/ k = "prompt" /\ actor'[h].turn = Head(actor[h].queue).op
      PROVE  OnceAt(h)'
  <2>1. /\ \A n \in Commands(h, "prompt")' : /\ n \in Nat \ {0} /\ n + 1 \in Commands(h, "prompt")
                                             /\ actor'[h].queue[n] = actor[h].queue[n + 1]
        /\ k = "prompt" => 1 \in Commands(h, "prompt") /\ Head(actor[h].queue) = actor[h].queue[1]
    BY <1>5, DequeuedCommands
  <2>2. \A n \in Commands(h, "prompt") : actor[h].queue[n].op # 0
    <3>1. actor[h].queue \in Seq(Command)
      BY DEF Types, ActorType
    <3>2. \A n \in DOMAIN actor[h].queue : actor[h].queue[n] \in Command
      BY <3>1, ElementOfSeq, LenProperties
    <3> QED
      BY <3>2 DEF Commands, Command, Op
  <2>3. ASSUME NEW n \in Commands(h, "prompt")' PROVE actor'[h].queue[n].op # actor'[h].turn
    <3>1. n + 1 \in Commands(h, "prompt") /\ n + 1 # 1 /\ actor'[h].queue[n].op = actor[h].queue[n + 1].op
      BY <2>1, <2>3
    <3> QED
      BY <1>1, <1>5, <2>1, <2>2, <3>1
  <2>4. ASSUME NEW n \in Commands(h, "prompt")', NEW m \in Commands(h, "prompt")',
               actor'[h].queue[m].op = actor'[h].queue[n].op
        PROVE  m = n
    <3>1. n + 1 \in Commands(h, "prompt") /\ m + 1 \in Commands(h, "prompt") /\ m \in Nat /\ n \in Nat
      BY <2>1
    <3>2. actor[h].queue[m + 1].op = actor[h].queue[n + 1].op
      BY <2>1, <2>4
    <3>3. m + 1 = n + 1
      BY <1>1, <3>1, <3>2
    <3> QED
      BY <3>1, <3>3
  <2> QED
    BY <2>3, <2>4
<1>6. ASSUME NEW i \in Op, OpStep(i) PROVE OnceAt(h)'
  <2>1. CASE Walk(i) \/ Begins(i) \/ Marks(i) \/ Rebinds(i) \/ Registers(i)
    <3>1. actor'[h].queue = actor[h].queue /\ actor'[h].turn = actor[h].turn
      BY <2>1 DEF Walk, Begins, Marks, Rebinds, Registers, ActorsGoOn
    <3> QED
      BY <1>2, <3>1
  <2>2. CASE SpawnsFor(i)
    <3>1. actor'[h] = actor[h] \/ actor'[h].queue = <<>>
      BY <2>2, RecordTypes DEF SpawnsFor, Spawned
    <3> QED
      BY <1>2, <1>3, <3>1
  <2>3. CASE Dispatches(i) \/ Sends(i) \/ Removes(i)
    <3>1. PICK g \in Gen, k \in {"prompt", "cancel", "close"} :
             Pushed(g, k, i) /\ (k = "prompt" => At(i, "prepare"))
      BY <2>3, LiveSteps DEF Dispatches, Sends, Removes, Types, At
    <3>2. k = "prompt" => i \notin Held(h)
      BY <3>1 DEF HeldAreWaiting, At
    <3>3. h # g => actor'[h] = actor[h]
      BY <3>1 DEF Pushed
    <3> HIDE DEF OnceAt
    <3> QED
      BY <1>2, <1>4, <3>1, <3>2, <3>3
  <2> QED
    BY <1>6, <2>1, <2>2, <2>3 DEF OpStep
<1>7. ASSUME NEW g \in Gen, ActorStep(g) PROVE OnceAt(h)'
  <2>1. CASE h # g
    <3>1. actor'[h] = actor[h]
      BY <1>7, <2>1 DEF ActorStep, Advances, Ends, TurnEnds, Refuses, Takes, Ended
    <3> QED
      BY <1>2, <3>1
  <2>2. CASE h = g
    <3>1. \/ actor'[h].queue = actor[h].queue /\ actor'[h].turn \in {0, actor[h].turn}
          \/ actor'[h].queue = <<>>
          \/ Dequeues(h, "cancel") /\ actor'[h].turn = 0
          \/ Dequeues(h, "prompt") /\ actor'[h].turn \in {actor[h].turn, Head(actor[h].queue).op}
      BY <1>7, <2>2 DEF ActorStep, Advances, Ends, TurnEnds, Refuses, Takes, Ended
    <3> HIDE DEF OnceAt
    <3> QED
      BY <1>2, <1>3, <1>5, <3>1
  <2> QED
    BY <2>1, <2>2
<1>8. Restarts => OnceAt(h)'
  BY <1>3 DEF Restarts
<1>9. UNCHANGED vars => OnceAt(h)'
  BY <1>2 DEF vars
<1> QED
  BY <1>6, <1>7, <1>8, <1>9 DEF Steps

LEMMA OwnedStep ==
    ASSUME Types, RunningIsOwned, Steps
    PROVE  RunningIsOwned'
<1> DEFINE Owns(p) == op[p].kind = "prompt" /\ op[p].gen = live.gen
                      /\ op[p].pc \in {"prepare", "admitted", "lost"}
<1> SUFFICES ASSUME live'.state = "running" PROVE \E p \in Op : Owns(p)'
  BY DEF RunningIsOwned
<1>1. ASSUME live.state = "running" PROVE \E p \in Op : Owns(p)
  BY <1>1 DEF RunningIsOwned
<1>2. ASSUME NEW i \in Op, OpStep(i) PROVE \E p \in Op : Owns(p)'
  <2>1. CASE Begins(i)
    <3>1. Owns(i)'
      BY <2>1 DEF Begins, GoesWith, LiveKept
    <3> QED
      BY <3>1
  <2>2. CASE ~Begins(i)
    <3>1. live.state = "running" /\ live'.gen = live.gen
      BY <1>2, <2>2
         DEF OpStep, Walk, Dispatches, Sends, Marks, Removes, Rebinds, SpawnsFor, Registers,
             LiveKept, Absent
    <3>2. PICK p \in Op : Owns(p)
      BY <1>1, <3>1
    <3>3. CASE p # i
      BY <1>2, <3>1, <3>2, <3>3, OthersStay DEF SameOp
    <3>4. CASE p = i
      <4>1. Walk(i) \/ Dispatches(i)
        BY <1>2, <2>2, <3>2, <3>4
           DEF OpStep, Sends, Marks, Removes, Rebinds, SpawnsFor, Registers, At, Called
      <4>2. Owns(i)'
        BY <3>1, <3>2, <3>4, <4>1 DEF Walk, Dispatches, GoesWith
      <4> QED
        BY <4>2
    <3> QED
      BY <3>3, <3>4
  <2> QED
    BY <2>1, <2>2
<1>3. ASSUME NEW g \in Gen, ActorStep(g) PROVE \E p \in Op : Owns(p)'
  <2>1. live.state = "running" /\ live'.gen = live.gen
    BY <1>3 DEF ActorStep, Advances, Ends, TurnEnds, Refuses, Takes, LiveKept
  <2>2. \A p \in Op : SameOp(p) \/ Answered(Held(g)) \/ \E x : Answered({x})
    BY <1>3 DEF ActorStep, Advances, Ends, TurnEnds, Refuses, Takes, Ended, SameOp
  <2>3. \A p \in Op : op'[p].pc = op[p].pc /\ op'[p].gen = op[p].gen /\ op'[p].kind = op[p].kind
    BY <2>2 DEF SameOp, Answered
  <2> QED
    BY <1>1, <2>1, <2>3
<1>4. ~Restarts
  BY DEF Restarts, Absent
<1> QED
  BY <1>1, <1>2, <1>3, <1>4 DEF Steps, vars

LEMMA StickyStep ==
    ASSUME Types, LiveWasSpawned, Prompts, StickyBit, Steps
    PROVE  StickyBit'
<1> USE DEF Prompts
<1> DEFINE admitted == {"prepare", "admitted", "lost", "done"}
           Speaks(p, g) == p \in cancelled \ cleared
                           /\ (p \in Held(g) \/ (At(p, "prepare") /\ op[p].gen = g))
           Fine == /\ \A g \in Gen, p \in Op : Alive(g)' /\ Speaks(p, g)' => actor'[g].sticky
                   /\ \A p \in cancelled' : op'[p].pc \in admitted
<1>0. /\ \A g \in Gen, p \in Op : Alive(g) /\ Speaks(p, g) => actor[g].sticky
      /\ \A p \in cancelled : op[p].pc \in admitted
      /\ \A g \in Gen : \A p \in Held(g) : op[p].pc = "admitted" /\ op[p].gen = g
      /\ cancelled \subseteq Op
  BY DEF StickyBit, HeldAreWaiting, Types, At
<1>1. \A g \in Gen : Alive(g)' <=> actor'[g].at \in AliveAt
  BY DEF Alive
<1>2. ASSUME NEW i \in Op, OpStep(i) PROVE Fine
  <2>1. \A p \in Op \ {i} : SameOp(p)
    BY <1>2, OthersStay
  <2>2. /\ op'[i].pc = "prepare" => Begins(i) \/ (SameOp(i) /\ Walk(i))
        /\ op[i].pc \in admitted => op'[i].pc \in admitted
    BY <1>2, OwnMoves
  <2>3. ASSUME NEW p \in cancelled' PROVE p \in Op /\ op'[p].pc \in admitted
    <3>1. p \in cancelled \/ (Marks(i) /\ p \in UnderWay(live.gen))
      BY <1>2, <2>3
         DEF OpStep, Walk, Begins, Dispatches, Sends, Marks, Removes, Rebinds, SpawnsFor,
             Registers, history
    <3>2. p \in Op /\ op[p].pc \in admitted
      BY <1>0, <3>1 DEF UnderWay
    <3> QED
      BY <2>1, <2>2, <3>2 DEF SameOp
  <2>4. CASE Begins(i)
    <3>1. /\ \A g \in Gen : Held(g)' = Held(g)
          /\ \A g \in Gen : /\ actor'[g].at = actor[g].at
                            /\ g # live.gen => actor'[g].sticky = actor[g].sticky
          /\ op'[i].gen = live.gen /\ cancelled' = cancelled
          /\ cleared' = cleared \union {p \in cancelled : op[p].gen = live.gen}
          /\ At(i, "go")
      <4>1. \A g \in Gen : Held(g)' = Held(g)
        BY <2>4, SameHeld DEF Begins, ActorsGoOn
      <4> QED
        BY <2>4, <4>1 DEF Begins, ActorsGoOn, GoesWith, Clear
    <3>2. i \notin cancelled
      BY <1>0, <3>1 DEF At
    <3>3. ASSUME NEW g \in Gen, NEW p \in Op, Alive(g)', Speaks(p, g)' PROVE actor'[g].sticky
      <4>1. p \in cancelled /\ p \notin cleared /\ p # i /\ op[p].gen # live.gen
        BY <3>1, <3>2, <3>3
      <4>2. Speaks(p, g) /\ op[p].gen = g
        BY <1>0, <2>1, <3>1, <3>3, <4>1 DEF SameOp, At
      <4>3. Alive(g)
        BY <3>1, <3>3 DEF Alive
      <4> QED
        BY <1>0, <3>1, <4>1, <4>2, <4>3
    <3> QED
      BY <2>3, <3>3
  <2>5. CASE Marks(i)
    <3>1. /\ \A g \in Gen : Held(g)' = Held(g)
          /\ \A g \in Gen : /\ actor'[g].at = actor[g].at
                            /\ g # live.gen => actor'[g].sticky = actor[g].sticky
                            /\ g = live.gen => actor'[g].sticky
          /\ cancelled' \ cleared' \subseteq (cancelled \ cleared) \union UnderWay(live.gen)
          /\ op'[i].pc = "send"
      <4>1. \A g \in Gen : Held(g)' = Held(g)
        BY <2>5, SameHeld DEF Marks, ActorsGoOn
      <4> QED
        BY <2>5, <4>1 DEF Marks, ActorsGoOn, GoesWith
    <3>2. ASSUME NEW g \in Gen, NEW p \in Op, Alive(g)', Speaks(p, g)' PROVE actor'[g].sticky
      <4>1. CASE g = live.gen
        BY <3>1, <4>1
      <4>2. CASE g # live.gen
        <5>1. p \in Held(g) \/ (At(p, "prepare") /\ op[p].gen = g)
          BY <2>1, <3>1, <3>2 DEF SameOp, At
        <5>2. op[p].gen = g
          BY <1>0, <5>1
        <5>3. p \notin UnderWay(live.gen)
          BY <4>2, <5>2 DEF UnderWay
        <5>4. Speaks(p, g)
          BY <3>1, <3>2, <5>1, <5>3
        <5>5. Alive(g)
          BY <3>1, <3>2 DEF Alive
        <5> QED
          BY <1>0, <3>1, <4>2, <5>4, <5>5
      <4> QED
        BY <4>1, <4>2
    <3> QED
      BY <2>3, <3>2
  <2>6. CASE ~Begins(i) /\ ~Marks(i)
    <3>1. cancelled' = cancelled /\ cleared' = cleared
      BY <1>2, <2>6
         DEF OpStep, Walk, Dispatches, Sends, Removes, Rebinds, SpawnsFor, Registers, history
    <3>2. \A g \in Gen : \/ actor'[g].sticky = actor[g].sticky /\ (Alive(g)' => Alive(g))
                         \/ actor[g].at = "none"
      <4>1. CASE Walk(i) \/ Rebinds(i) \/ Dispatches(i) \/ Removes(i) \/ Sends(i)
        BY <4>1 DEF Walk, Rebinds, Dispatches, Removes, Sends, Pushed, Alive
      <4>2. CASE SpawnsFor(i)
        BY <4>2 DEF SpawnsFor, Spawned, Alive
      <4>3. CASE Registers(i)
        <5>1. \A g \in Gen : actor'[g].sticky = actor[g].sticky
          BY <4>3 DEF Registers
        <5>2. \A g \in Gen : actor'[g].at \in AliveAt => actor[g].at \in AliveAt
          BY <4>3 DEF Registers, AliveAt, Registered, Loop
        <5> QED
          BY <5>1, <5>2 DEF Alive
      <4> QED
        BY <1>2, <2>6, <4>1, <4>2, <4>3 DEF OpStep
    <3>3. ASSUME NEW g \in Gen, NEW p \in Op, Alive(g)', Speaks(p, g)' PROVE actor'[g].sticky
      <4>1. CASE Dispatches(i) /\ p = i /\ g = op[i].gen
        <5>1. Speaks(p, g)
          BY <3>1, <3>3, <4>1 DEF Dispatches
        <5>2. Alive(g) /\ actor'[g].sticky = actor[g].sticky
          BY <4>1 DEF Dispatches, Pushed
        <5> QED
          BY <1>0, <5>1, <5>2
      <4>2. CASE ~(Dispatches(i) /\ p = i /\ g = op[i].gen)
        <5>1. p \in Held(g)' => p \in Held(g)
          BY <1>2, <4>2, HeldByOpStep
        <5>2. At(p, "prepare")' /\ op'[p].gen = g => At(p, "prepare") /\ op[p].gen = g
          BY <2>1, <2>2, <2>6 DEF SameOp, At
        <5>3. Speaks(p, g)
          BY <3>1, <3>3, <5>1, <5>2
        <5>4. actor[g].at # "none"
          <6>1. CASE p \in Held(g)
            BY <6>1, NothingHeld DEF TurnsInLoop, Alive, AliveAt, Registered, Loop
          <6>2. CASE At(p, "prepare") /\ op[p].gen = g
            BY <6>2 DEF LiveWasSpawned
          <6> QED
            BY <5>3, <6>1, <6>2
        <5>5. Alive(g) /\ actor'[g].sticky = actor[g].sticky
          BY <3>2, <3>3, <5>4
        <5> QED
          BY <1>0, <5>3, <5>5
      <4> QED
        BY <4>1, <4>2
    <3> QED
      BY <2>3, <3>3
  <2> QED
    BY <2>4, <2>5, <2>6
<1>3. ASSUME NEW g \in Gen, ActorStep(g) PROVE Fine
  <2>1. \A p \in Op : op'[p].pc = op[p].pc /\ op'[p].gen = op[p].gen
    BY <1>3 DEF ActorStep, Advances, Ends, TurnEnds, Refuses, Takes, Ended, Answered
  <2>2. \A h \in Gen : Held(h)' \subseteq Held(h)
    BY <1>3, HeldByActorStep DEF ActorStep
  <2>3. cancelled' = cancelled /\ (cleared' = cleared \/ Clear(g))
    BY <1>3 DEF ActorStep, Advances, Ends, TurnEnds, Refuses, Takes, StickyKept, history
  <2>4. \A h \in Gen : \/ actor'[h].sticky = actor[h].sticky /\ (Alive(h)' => Alive(h))
                       \/ ~Alive(h)'
                       \/ h = g /\ Clear(g)
    <3>1. CASE Ends(g)
      BY <3>1 DEF Ends, Ended, Alive, AliveAt, Registered, Loop
    <3>2. CASE Advances(g)
      BY <3>2 DEF Advances, Alive, AliveAt, Registered, Loop
    <3>3. CASE TurnEnds(g) \/ Refuses(g) \/ Takes(g)
      BY <3>3 DEF TurnEnds, Refuses, Takes, StickyKept, Alive, AliveAt, Registered, Loop
    <3> QED
      BY <1>3, <3>1, <3>2, <3>3 DEF ActorStep
  <2>5. ASSUME NEW h \in Gen, NEW p \in Op, Alive(h)', Speaks(p, h)' PROVE actor'[h].sticky
    <3>1. Speaks(p, h) /\ op[p].gen = h
      <4>1. cleared \subseteq cleared'
        BY <2>3 DEF Clear
      <4>2. p \in Held(h) \/ (At(p, "prepare") /\ op[p].gen = h)
        BY <2>1, <2>2, <2>5 DEF At
      <4> QED
        BY <1>0, <2>3, <2>5, <4>1, <4>2
    <3>2. Clear(g) => h # g
      BY <2>3, <2>5, <3>1 DEF Clear
    <3> QED
      BY <1>0, <2>4, <2>5, <3>1, <3>2
  <2> QED
    BY <1>0, <2>1, <2>3, <2>5
<1>4. ASSUME Restarts PROVE Fine
  <2>1. \A g \in Gen : ~Alive(g)'
    BY <1>4 DEF Restarts, Alive, AliveAt, Registered, Loop
  <2>2. \A p \in cancelled' : op'[p].pc \in admitted
    BY <1>0, <1>4, RecordTypes DEF Restarts, At
  <2> QED
    BY <2>1, <2>2
<1>5. ASSUME UNCHANGED vars PROVE Fine
  <2>1. \A g \in Gen : Held(g)' = Held(g) /\ (Alive(g) <=> Alive(g)')
    BY <1>5, SameHeld DEF vars, Alive
  <2> QED
    BY <1>0, <1>5, <2>1 DEF vars, At
<1>6. Fine
  BY <1>2, <1>3, <1>4, <1>5 DEF Steps
<1>7. cancelled' \subseteq Op
  <2>1. \A i \in Op : OpStep(i) => cancelled' \subseteq cancelled \union UnderWay(live.gen)
    BY DEF OpStep, Walk, Begins, Dispatches, Sends, Marks, Removes, Rebinds, SpawnsFor, Registers,
           history
  <2>2. \A g \in Gen : ActorStep(g) => cancelled' = cancelled
    BY DEF ActorStep, Advances, Ends, TurnEnds, Refuses, Takes, StickyKept, history
  <2>3. Restarts \/ UNCHANGED vars => cancelled' = cancelled
    BY DEF Restarts, vars
  <2>4. UnderWay(live.gen) \subseteq Op
    BY DEF UnderWay
  <2> QED
    BY <1>0, <2>1, <2>2, <2>3, <2>4 DEF Steps
<1> QED
  BY <1>6, <1>7 DEF StickyBit

------------------------------------------------------------------------------
(* Who may spawn                                                               *)

\* How an operation comes to where one spawns, and the entry to its state.
LEMMA SpawnMoves ==
    ASSUME NEW i \in Op, OpStep(i)
    PROVE  /\ At(i, "spawning")' => SpawnsFor(i) \/ (Walk(i) /\ SameOp(i) /\ lock' = lock)
           /\ At(i, "published")' =>
                 (Registers(i) /\ At(i, "spawning")) \/ (Walk(i) /\ SameOp(i))
           /\ Rebinding(i)' => \/ Rebinds(i) /\ At(i, "export")'
                               \/ Sends(i) /\ At(i, "export") /\ op'[i].gen = op[i].gen
                                  /\ At(i, "replacing")'
                               \/ SpawnsFor(i) /\ At(i, "replacing") /\ At(i, "respawn")'
                               \/ Walk(i) /\ SameOp(i)
<1>1. CASE Walk(i)
  BY <1>1 DEF Walk, SameOp, At, Rebinding
<1>2. CASE Begins(i) \/ Dispatches(i) \/ Marks(i) \/ Removes(i) \/ Rebinds(i)
  BY <1>2 DEF Begins, Dispatches, Marks, Removes, Rebinds, GoesWith, At, Rebinding
<1>3. CASE Sends(i) \/ SpawnsFor(i) \/ Registers(i)
  BY <1>3 DEF Sends, SpawnsFor, Registers, GoesTo, Spawned, At, Rebinding
<1> QED
  BY <1>1, <1>2, <1>3 DEF OpStep

LEMMA ActorsLeaveOps ==
    ASSUME Types, NEW g \in Gen, ActorStep(g)
    PROVE  /\ \A p \in Op : /\ op'[p].pc = op[p].pc /\ op'[p].gen = op[p].gen
                            /\ op'[p].kind = op[p].kind
           /\ LiveKept /\ dormant' = dormant /\ lock' = lock /\ doubled' = doubled
<1>1. CASE Advances(g)
  BY <1>1 DEF Advances, history
<1>2. CASE Ends(g) \/ TurnEnds(g) \/ Refuses(g)
  BY <1>2, LiveSteps DEF Ends, TurnEnds, Refuses, Ended, Answered, history
<1>3. CASE Takes(g)
  BY <1>3, LiveSteps DEF Takes, history
<1> QED
  BY <1>1, <1>2, <1>3 DEF ActorStep

LEMMA RegistryMoves ==
    ASSUME Types, NEW i \in Op, OpStep(i)
    PROVE  \/ Removes(i)
           \/ Registers(i)
           \/ LiveKept /\ (dormant' => dormant) /\ (doubled' = doubled \/ Rebinds(i))
<1>1. live' = live => LiveKept
  BY LiveSteps
<1> QED
  BY <1>1 DEF OpStep, Walk, Begins, Dispatches, Sends, Marks, Rebinds, SpawnsFor, history

LEMMA RestoresStep ==
    ASSUME Types, CalledInOrder, RestoresAlone, NotDormantAgain, Steps
    PROVE  RestoresAlone'
<1> DEFINE Alone(i) == /\ ~IsLive
                       /\ lock = i \/ (i = 1 /\ lock = 0 /\ ~dormant)
                       /\ \A j \in Op : ~Rebinding(j)
<1> SUFFICES ASSUME NEW i \in Op, At(i, "spawning")' PROVE Alone(i)'
  BY DEF RestoresAlone
<1>1. \A j \in Op : At(j, "spawning") => Alone(j)
  BY DEF RestoresAlone
<1>2. LiveKept => (IsLive <=> IsLive')
  BY DEF LiveKept, IsLive
<1>3. 0 \notin Op /\ \A j \in Op : j # 1 => 1 \in Op /\ 1 < j
  BY BoundsAssumption DEF Op
<1>4. ASSUME NEW k \in Op, OpStep(k) PROVE Alone(i)'
  <2>1. \A p \in Op \ {k} : SameOp(p)
    BY <1>4, OthersStay
  <2>2. CASE i = k
    <3>1. CASE Walk(i) /\ SameOp(i) /\ lock' = lock
      <4>1. Alone(i)
        BY <1>1, <1>4, <3>1 DEF SameOp, At
      <4>2. \A j \in Op : Rebinding(j)' => Rebinding(j)
        BY <2>1, <2>2, <3>1 DEF SameOp, Rebinding
      <4> QED
        BY <1>2, <3>1, <4>1, <4>2 DEF Walk
    <3>2. CASE SpawnsFor(i)
      <4>1. /\ live' = live /\ dormant' = dormant
            /\ \/ At(i, "ensure") /\ ~IsLive /\ dormant /\ lock = 0 /\ lock' = i
               \/ Called(i) /\ i = 1 /\ ~dormant /\ lock' = lock
        BY <3>2 DEF SpawnsFor, Spawned, At
      <4>2. \A j \in Op : Rebinding(j)' => Rebinding(j)
        BY <2>1, <2>2 DEF SameOp, Rebinding, At
      <4>3. CASE At(i, "ensure") /\ ~IsLive /\ dormant /\ lock = 0 /\ lock' = i
        BY <4>1, <4>2, <4>3 DEF NotDormantAgain, IsLive
      <4>4. CASE Called(i) /\ i = 1 /\ ~dormant /\ lock' = lock
        <5>1. \A j \in Op : At(j, "new")
          BY <1>3, <4>4 DEF CalledInOrder, Called
        <5>2. ~IsLive /\ \A j \in Op : ~Rebinding(j)
          BY <5>1 DEF CalledInOrder, Rebinding, At
        <5>3. lock = 0
          BY <5>1 DEF CalledInOrder, At, Types
        <5> QED
          BY <4>1, <4>2, <4>4, <5>2, <5>3 DEF IsLive
      <4> QED
        BY <4>1, <4>3, <4>4
    <3> QED
      BY <1>4, <2>2, <3>1, <3>2, SpawnMoves
  <2>3. CASE i # k
    <3>1. At(i, "spawning") /\ Alone(i)
      BY <1>1, <2>1, <2>3 DEF SameOp, At
    <3>2. At(k, "spawning") => FALSE
      BY <1>1, <1>3, <2>3, <3>1
    <3>3. ~Begins(k) /\ ~Marks(k) /\ ~Removes(k) /\ ~Rebinds(k) /\ ~Registers(k)
      BY <3>1, <3>2 DEF Begins, Marks, Removes, Rebinds, Registers
    <3>4. ~SpawnsFor(k)
      <4>1. ~At(i, "new") /\ (At(k, "replacing") => Rebinding(k))
        BY <3>1 DEF At, Rebinding
      <4>2. k = 1 => ~Called(k)
        BY <1>3, <2>3, <4>1 DEF CalledInOrder, Called
      <4> QED
        BY <1>3, <3>1, <4>1, <4>2 DEF SpawnsFor
    <3>5. Walk(k) \/ Dispatches(k) \/ Sends(k)
      BY <1>4, <3>3, <3>4 DEF OpStep
    <3>6. LiveKept /\ (dormant' => dormant) /\ (lock' = lock \/ (lock = k /\ lock' = 0))
      BY <3>5, LiveSteps DEF Walk, Dispatches, Sends
    <3>7. Rebinding(k)' => Rebinding(k)
      BY <1>4, <3>3, <3>4, SpawnMoves DEF SameOp, Rebinding, At
    <3>8. \A j \in Op : ~Rebinding(j)'
      BY <2>1, <3>1, <3>7 DEF SameOp, Rebinding
    <3> QED
      BY <1>2, <1>3, <2>3, <3>1, <3>6, <3>8
  <2> QED
    BY <2>2, <2>3
<1>5. ASSUME NEW g \in Gen, ActorStep(g) PROVE Alone(i)'
  <2>1. /\ \A p \in Op : op'[p].pc = op[p].pc
        /\ LiveKept /\ dormant' = dormant /\ lock' = lock
    BY <1>5, ActorsLeaveOps
  <2>2. Alone(i) /\ \A j \in Op : Rebinding(j)' => Rebinding(j)
    BY <1>1, <2>1 DEF At, Rebinding
  <2> QED
    BY <1>2, <2>1, <2>2
<1>6. ~Restarts
  BY RecordTypes DEF Restarts, At
<1>7. ASSUME UNCHANGED vars PROVE Alone(i)'
  <2>1. Alone(i)
    BY <1>1, <1>7 DEF vars, At
  <2> QED
    BY <1>7, <2>1 DEF vars, IsLive, Rebinding
<1> QED
  BY <1>4, <1>5, <1>6, <1>7 DEF Steps

LEMMA NotDormantStep ==
    ASSUME Types, NotDormantAgain, Steps
    PROVE  NotDormantAgain'
<1> DEFINE Here(i) == At(i, "published") \/ Rebinding(i)
<1> SUFFICES ASSUME NEW i \in Op, Here(i)' PROVE IsLive' \/ ~dormant'
  BY DEF NotDormantAgain
<1>1. Here(i) => IsLive \/ ~dormant
  BY DEF NotDormantAgain
<1>2. LiveKept => (IsLive <=> IsLive')
  BY DEF LiveKept, IsLive
<1>3. ASSUME NEW k \in Op, OpStep(k) PROVE IsLive' \/ ~dormant'
  <2>1. CASE Removes(k)
    BY <2>1 DEF Removes
  <2>2. CASE Registers(k)
    BY <2>2 DEF Registers, IsLive
  <2>3. CASE LiveKept /\ (dormant' => dormant) /\ ~Removes(k) /\ ~Registers(k)
    <3>1. CASE Here(i)
      BY <1>1, <1>2, <2>3, <3>1
    <3>2. CASE ~Here(i)
      <4>1. i = k
        BY <1>3, <3>2, OthersStay DEF SameOp, At, Rebinding
      <4>2. Rebinds(k)
        BY <1>3, <2>3, <3>2, <4>1, SpawnMoves DEF SameOp, At, Rebinding
      <4> QED
        BY <1>2, <4>2 DEF Rebinds
    <3> QED
      BY <3>1, <3>2
  <2> QED
    BY <1>3, <2>1, <2>2, <2>3, RegistryMoves
<1>4. ASSUME NEW g \in Gen, ActorStep(g) PROVE IsLive' \/ ~dormant'
  <2>1. /\ \A p \in Op : op'[p].pc = op[p].pc
        /\ LiveKept /\ dormant' = dormant
    BY <1>4, ActorsLeaveOps
  <2> QED
    BY <1>1, <1>2, <2>1 DEF At, Rebinding
<1>5. ~Restarts
  BY RecordTypes DEF Restarts, At, Rebinding
<1>6. UNCHANGED vars => IsLive' \/ ~dormant'
  BY <1>1 DEF vars, IsLive, At, Rebinding
<1> QED
  BY <1>3, <1>4, <1>5, <1>6 DEF Steps

LEMMA RebindsStep ==
    ASSUME Types, LiveWasSpawned, RestoresAlone, ~doubled => RebindsAlone, Steps
    PROVE  ~doubled' => RebindsAlone'
<1> DEFINE Names(i) == IsLive => IF At(i, "respawn") THEN ~Alive(live.gen) ELSE op[i].gen = live.gen
           Alone(i) == (\A j \in Op : Rebinding(j) => i = j) /\ Names(i)
<1> SUFFICES ASSUME ~doubled', NEW i \in Op, Rebinding(i)' PROVE Alone(i)'
  BY DEF RebindsAlone
<1>1. ~doubled => \A j \in Op : Rebinding(j) => Alone(j)
  BY DEF RebindsAlone
<1>2. /\ IsLive => live.gen \in Gen /\ actor[live.gen].at \in Registered \union {"dead"}
      /\ Registered \subseteq AliveAt
  BY LiveSteps DEF LiveWasSpawned, AliveAt
<1>3. LiveKept => (IsLive <=> IsLive') /\ live'.gen = live.gen
  BY DEF LiveKept, IsLive
<1>4. IsLive /\ ~Alive(live.gen) /\ live'.gen = live.gen => ~Alive(live.gen)'
  <2> SUFFICES ASSUME IsLive, ~Alive(live.gen), live'.gen = live.gen PROVE actor'[live.gen].at = "dead"
    BY DEF Alive, AliveAt, Registered, Loop
  <2>1. actor[live.gen].at = "dead"
    BY <1>2 DEF Alive
  <2> QED
    BY <1>2, <2>1, ActorsMoveOn
<1>5. ASSUME NEW k \in Op, OpStep(k) PROVE Alone(i)'
  <2>1. \A p \in Op \ {k} : SameOp(p)
    BY <1>5, OthersStay
  <2>2. CASE Rebinds(k)
    <3>1. /\ \A j \in Op : ~Rebinding(j)
          /\ LiveKept /\ op'[k].gen = live.gen /\ op'[k].pc = "export"
      BY <2>2 DEF Rebinds, GoesWith
    <3>2. i = k /\ \A j \in Op : Rebinding(j)' => j = k
      BY <2>1, <3>1 DEF SameOp, Rebinding
    <3> QED
      BY <1>3, <3>1, <3>2 DEF At
  <2>3. CASE ~Rebinds(k)
    <3>1. \A j \in Op : Rebinding(j)' => Rebinding(j)
      BY <1>5, <2>1, <2>3, SpawnMoves DEF SameOp, Rebinding, At
    <3>2. ~doubled
      BY <1>5, <2>3, RegistryMoves DEF Removes, Registers, history
    <3>3. Rebinding(i) /\ Alone(i) /\ \A j \in Op : Rebinding(j)' => i = j
      BY <1>1, <3>1, <3>2
    <3>4. CASE Removes(k)
      BY <3>3, <3>4 DEF Removes, IsLive, Absent
    <3>5. CASE Registers(k)
      <4>1. ~At(k, "spawning")
        BY <3>3 DEF RestoresAlone
      <4>2. k = i /\ op'[k].pc = "done"
        BY <3>3, <3>5, <4>1 DEF Registers, GoesTo, At, Rebinding
      <4> QED
        BY <4>2 DEF Rebinding
    <3>6. CASE LiveKept /\ ~Removes(k) /\ ~Registers(k)
      <4>1. IsLive' => IsLive
        BY <1>3, <3>6
      <4>2. CASE SameOp(i)
        BY <1>3, <1>4, <3>3, <3>6, <4>1, <4>2 DEF SameOp, At, Alive
      <4>3. CASE k = i /\ At(i, "export") /\ op'[i].gen = op[i].gen /\ op'[i].pc = "replacing"
        BY <1>3, <3>3, <3>6, <4>1, <4>3 DEF At
      <4>4. CASE k = i /\ SpawnsFor(i) /\ At(i, "replacing") /\ op'[i].pc = "respawn"
        <5>1. ~Alive(op[i].gen)
          BY <4>4 DEF SpawnsFor, Spawned, At, Called
        <5>2. IsLive => ~Alive(live.gen)
          BY <3>3, <4>4, <5>1 DEF At
        <5> QED
          BY <1>3, <1>4, <3>3, <3>6, <4>1, <4>4, <5>2 DEF At, Alive
      <4>5. i # k => SameOp(i)
        BY <2>1
      <4>6. i = k => SameOp(i) \/ (At(i, "export") /\ op'[i].gen = op[i].gen /\ op'[i].pc = "replacing")
                     \/ (SpawnsFor(i) /\ At(i, "replacing") /\ op'[i].pc = "respawn")
        BY <1>5, <2>3, SpawnMoves DEF At
      <4> QED
        BY <4>2, <4>3, <4>4, <4>5, <4>6
    <3> QED
      BY <1>5, <3>4, <3>5, <3>6, RegistryMoves DEF Rebinds
  <2> QED
    BY <2>2, <2>3
<1>6. ASSUME NEW g \in Gen, ActorStep(g) PROVE Alone(i)'
  <2>1. /\ \A p \in Op : op'[p].pc = op[p].pc /\ op'[p].gen = op[p].gen
        /\ LiveKept /\ doubled' = doubled
    BY <1>6, ActorsLeaveOps
  <2>2. Alone(i) /\ \A j \in Op : Rebinding(j)' => Rebinding(j)
    BY <1>1, <2>1 DEF Rebinding
  <2> QED
    BY <1>1, <1>3, <1>4, <2>1, <2>2 DEF At, Alive
<1>7. ~Restarts
  BY RecordTypes DEF Restarts, Rebinding
<1>8. ASSUME UNCHANGED vars PROVE Alone(i)'
  BY <1>1, <1>8 DEF vars, IsLive, Rebinding, At, Alive
<1> QED
  BY <1>5, <1>6, <1>7, <1>8 DEF Steps

\* With each of the three alone, one operation waits for an actor at a time.
LEMMA OneSpawner ==
    ASSUME RestoresAlone, RebindsAlone, NEW i \in Op, NEW j \in Op,
           op[i].pc \in {"spawning", "respawn"}, op[j].pc \in {"spawning", "respawn"}
    PROVE  i = j
<1>1. \A k \in Op : At(k, "respawn") => Rebinding(k)
  BY DEF At, Rebinding
<1>2. 0 \notin Op
  BY DEF Op
<1>3. op[i].pc = op[j].pc
  BY <1>1 DEF RestoresAlone, At
<1>4. CASE At(i, "spawning")
  BY <1>2, <1>3, <1>4 DEF RestoresAlone, At
<1>5. CASE At(i, "respawn")
  BY <1>1, <1>3, <1>5 DEF RebindsAlone, At
<1> QED
  BY <1>4, <1>5 DEF At

LEMMA OneActorHolds ==
    ASSUME RestoresAlone, RebindsAlone
    PROVE  OneActor
<1> SUFFICES ASSUME NEW g \in Gen, NEW h \in Gen, Kept(g), Kept(h) PROVE g = h
  BY DEF OneActor
<1>1. ASSUME NEW f \in Gen, Kept(f), ~(IsLive /\ live.gen = f)
      PROVE  /\ \E i \in Op : op[i].pc \in {"spawning", "respawn"} /\ op[i].gen = f
             /\ ~(IsLive /\ Alive(live.gen))
  <2>1. PICK i \in Op : op[i].pc \in {"spawning", "respawn"} /\ op[i].gen = f
    BY <1>1 DEF Kept, Spawner
  <2>2. CASE At(i, "spawning")
    BY <2>1, <2>2 DEF RestoresAlone
  <2>3. CASE At(i, "respawn")
    BY <2>1, <2>3 DEF RebindsAlone, Rebinding, At
  <2> QED
    BY <2>1, <2>2, <2>3 DEF At
<1>2. Alive(g) /\ Alive(h)
  BY DEF Kept
<1> QED
  BY <1>1, <1>2, OneSpawner

LEMMA SpawnedStep ==
    ASSUME Types, RestoresAlone, ~doubled => RebindsAlone /\ SpawnedAreNew, Steps
    PROVE  ~doubled' => SpawnedAreNew'
<1> DEFINE New(g) == g \in Gen /\ actor[g].at \in {"starting", "ready", "dead"}
           Waits(i) == op[i].pc \in {"spawning", "respawn"}
<1> SUFFICES ASSUME ~doubled', NEW i \in Op, Waits(i)'
             PROVE  op'[i].gen \in Gen /\ actor'[op'[i].gen].at \in {"starting", "ready", "dead"}
  BY DEF SpawnedAreNew
<1>1. ~doubled => \A j \in Op : Waits(j) => New(op[j].gen)
  BY DEF SpawnedAreNew
<1>2. ASSUME NEW k \in Op, OpStep(k)
      PROVE  op'[i].gen \in Gen /\ actor'[op'[i].gen].at \in {"starting", "ready", "dead"}
  <2>1. ~doubled
    BY <1>2, RegistryMoves DEF Removes, Registers, Rebinds, history
  <2>2. CASE SpawnsFor(i) /\ i = k
    BY <2>2, RecordTypes DEF SpawnsFor, Spawned
  <2>3. CASE SameOp(i)
    <3>1. Waits(i) /\ New(op[i].gen) /\ op'[i].gen = op[i].gen
      BY <1>1, <2>1, <2>3 DEF SameOp
    <3>2. CASE Registers(k)
      <4>1. k = i \/ op[k].gen # op[i].gen \/ actor'[op[i].gen].at \in {"starting", "ready", "dead"}
        <5>1. Waits(k)
          BY <3>2 DEF Registers, At
        <5> QED
          BY <2>1, <3>1, <5>1, OneSpawner
      <4>2. k = i => FALSE
        BY <2>3, <3>2, <3>1 DEF Registers, GoesTo, SameOp, At
      <4> QED
        BY <3>1, <3>2, <4>1, <4>2 DEF Registers
    <3>3. CASE SpawnsFor(k)
      BY <3>1, <3>3 DEF SpawnsFor, Spawned
    <3>4. CASE ~Registers(k) /\ ~SpawnsFor(k)
      BY <1>2, <3>1, <3>4
         DEF OpStep, Walk, Begins, Dispatches, Sends, Marks, Removes, Rebinds, ActorsGoOn, Pushed
    <3> QED
      BY <3>2, <3>3, <3>4
  <2>4. i # k => SameOp(i)
    BY <1>2, OthersStay
  <2>5. i = k => SpawnsFor(i) \/ SameOp(i)
    BY <1>2, SpawnMoves DEF At, Rebinding
  <2> QED
    BY <2>2, <2>3, <2>4, <2>5
<1>3. ASSUME NEW g \in Gen, ActorStep(g)
      PROVE  op'[i].gen \in Gen /\ actor'[op'[i].gen].at \in {"starting", "ready", "dead"}
  <2>1. op'[i].pc = op[i].pc /\ op'[i].gen = op[i].gen /\ doubled' = doubled
    BY <1>3, ActorsLeaveOps
  <2>2. New(op[i].gen)
    BY <1>1, <2>1
  <2>3. \A h \in Gen : actor[h].at \in {"starting", "ready", "dead"} =>
           actor'[h].at \in {"starting", "ready", "dead"}
    BY <1>3 DEF ActorStep, Advances, Ends, TurnEnds, Refuses, Takes, Ended, Loop
  <2> QED
    BY <2>1, <2>2, <2>3
<1>4. ~Restarts
  BY RecordTypes DEF Restarts
<1>5. ASSUME UNCHANGED vars
      PROVE  op'[i].gen \in Gen /\ actor'[op'[i].gen].at \in {"starting", "ready", "dead"}
  BY <1>1, <1>5 DEF vars
<1> QED
  BY <1>2, <1>3, <1>4, <1>5 DEF Steps

LEMMA OrphanStep ==
    ASSUME Types, RestoresAlone, ~doubled => RebindsAlone /\ SpawnedAreNew /\ NoOrphan, Steps
    PROVE  ~doubled' => NoOrphan'
<1> DEFINE Leaves(g) == actor[g].at \in {"starting", "ready"} \/ Commands(g, "close") # {}
<1> SUFFICES ASSUME ~doubled', NEW g \in Gen, Alive(g)', ~Kept(g)' PROVE Leaves(g)'
  BY DEF NoOrphan
<1>1. ~doubled => (Alive(g) /\ ~Kept(g) => Leaves(g))
  BY DEF NoOrphan
<1>2. ~doubled => (Spawner(g) # {} /\ Alive(g) => actor[g].at \in {"starting", "ready"})
  BY DEF SpawnedAreNew, Spawner, Alive, AliveAt, Registered, Loop
<1>3. ~(IsLive' /\ live'.gen = g) /\ Spawner(g)' = {}
  BY DEF Kept
<1>4. LiveKept => (IsLive <=> IsLive') /\ live'.gen = live.gen
  BY DEF LiveKept, IsLive
<1>5. ASSUME NEW k \in Op, OpStep(k) PROVE Leaves(g)'
  <2>1. ~doubled
    BY <1>5, RegistryMoves DEF Removes, Registers, Rebinds, history
  <2>2. CASE SpawnsFor(k)
    <3>1. actor'[g].at = "starting" \/ actor'[g] = actor[g]
      BY <2>2, RecordTypes DEF SpawnsFor, Spawned
    <3>2. CASE actor'[g] = actor[g]
      <4>1. Alive(g) /\ (Leaves(g) => Leaves(g)')
        BY <3>2 DEF Alive, Commands
      <4>2. ~(IsLive /\ live.gen = g)
        BY <1>3, <2>2 DEF SpawnsFor, IsLive
      <4> QED
        BY <1>1, <1>2, <2>1, <4>1, <4>2 DEF Kept
    <3> QED
      BY <3>1, <3>2
  <2>3. CASE Registers(k)
    <3>1. op[k].gen # g /\ actor'[g] = actor[g]
      BY <1>3, <2>3 DEF Registers, IsLive
    <3>2. Alive(g) /\ (Leaves(g) => Leaves(g)')
      BY <3>1 DEF Alive, Commands
    <3>3. ~(IsLive /\ live.gen = g)
      BY <2>1, <2>3, <3>2 DEF Registers, RestoresAlone, RebindsAlone, Rebinding, At
    <3> QED
      BY <1>1, <1>2, <2>1, <3>2, <3>3 DEF Kept
  <2>4. CASE Removes(k)
    <3>1. live.gen \in Gen /\ Pushed(live.gen, "close", k) /\ IsLive
      BY <2>4, LiveSteps DEF Removes
    <3>2. actor'[g].at = actor[g].at /\ (g # live.gen => actor'[g] = actor[g])
      BY <3>1 DEF Pushed
    <3>3. Alive(g)
      BY <3>2 DEF Alive
    <3>4. CASE g = live.gen
      BY <3>1, <3>3, <3>4, PushedCommands
    <3>5. CASE g # live.gen
      <4>1. Leaves(g) => Leaves(g)'
        BY <3>2, <3>5 DEF Commands
      <4> QED
        BY <1>1, <1>2, <2>1, <3>3, <3>5, <4>1 DEF Kept
    <3> QED
      BY <3>4, <3>5
  <2>5. CASE ~SpawnsFor(k) /\ ~Registers(k) /\ ~Removes(k)
    <3>1. ~(IsLive /\ live.gen = g)
      BY <1>3, <1>4, <1>5, <2>5, RegistryMoves
    <3>2. /\ actor'[g].at = actor[g].at
          /\ Commands(g, "close") # {} => Commands(g, "close")' # {}
      <4>1. CASE Walk(k) \/ Begins(k) \/ Marks(k) \/ Rebinds(k)
        <5>1. actor'[g].at = actor[g].at /\ actor'[g].queue = actor[g].queue
          BY <4>1 DEF Walk, Begins, Marks, Rebinds, ActorsGoOn
        <5> QED
          BY <5>1, SameQueue
      <4>2. CASE Dispatches(k) \/ Sends(k)
        <5>1. PICK h \in Gen, c \in {"prompt", "cancel", "close"} : Pushed(h, c, k)
          BY <4>2 DEF Dispatches, Sends, Types, At
        <5>2. h # g => actor'[g] = actor[g]
          BY <5>1 DEF Pushed
        <5>3. actor'[g].at = actor[g].at
          BY <5>1 DEF Pushed
        <5>4. CASE h = g
          BY <5>1, <5>3, <5>4, PushedCommands
        <5>5. CASE h # g
          BY <5>2, <5>5, SameQueue
        <5> QED
          BY <5>4, <5>5
      <4> QED
        BY <1>5, <2>5, <4>1, <4>2 DEF OpStep
    <3>3. Alive(g)
      BY <3>2 DEF Alive
    <3> QED
      BY <1>1, <1>2, <2>1, <3>1, <3>2, <3>3 DEF Kept
  <2> QED
    BY <2>2, <2>3, <2>4, <2>5
<1>6. ASSUME NEW h \in Gen, ActorStep(h) PROVE Leaves(g)'
  <2>1. /\ \A p \in Op : op'[p].pc = op[p].pc /\ op'[p].gen = op[p].gen
        /\ LiveKept /\ doubled' = doubled
    BY <1>6, ActorsLeaveOps
  <2>2. Spawner(g) = {} /\ ~(IsLive /\ live.gen = g)
    BY <1>3, <1>4, <2>1 DEF Spawner
  <2>3. Alive(g) => Leaves(g)
    BY <1>1, <2>1, <2>2 DEF Kept
  <2>4. CASE h # g
    <3>1. actor'[g] = actor[g]
      BY <1>6, <2>4 DEF ActorStep, Advances, Ends, TurnEnds, Refuses, Takes, Ended
    <3> QED
      BY <2>3, <3>1 DEF Alive, Commands
  <2>5. CASE h = g
    <3>1. CASE Advances(g)
      <4>1. Alive(g) /\ Commands(g, "close")' = Commands(g, "close")
        BY <3>1, SameQueue DEF Advances, Alive, AliveAt, Registered, Loop
      <4> QED
        BY <2>3, <3>1, <4>1 DEF Advances
    <3>2. ~Ends(g)
      BY DEF Ends, Ended, Alive, AliveAt, Registered, Loop
    <3>3. CASE TurnEnds(g) \/ Refuses(g) \/ Takes(g)
      <4>1. actor[g].at \in Loop
        BY <3>3 DEF TurnEnds, Refuses, Takes, Loop
      <4>2. Commands(g, "close") # {}
        BY <2>3, <4>1 DEF Alive, AliveAt, Registered, Loop
      <4>3. \/ actor'[g].queue = actor[g].queue
            \/ \E k \in {"prompt", "cancel"} : Dequeues(g, k)
        BY <3>3 DEF TurnEnds, Refuses, Takes
      <4>4. CASE actor'[g].queue = actor[g].queue
        BY <4>2, <4>4, SameQueue
      <4>5. CASE \E k \in {"prompt", "cancel"} : Dequeues(g, k)
        <5>1. PICK k \in {"prompt", "cancel"} : Dequeues(g, k)
          BY <4>5
        <5>2. PICK n \in Commands(g, "close") : TRUE
          BY <4>2
        <5>3. n # 1
          BY <5>1, DequeuedCommands
        <5>4. n - 1 \in Commands(g, "close")'
          BY <5>1, <5>3, DequeuedCommands
        <5> QED
          BY <5>4
      <4> QED
        BY <4>3, <4>4, <4>5
    <3> QED
      BY <1>6, <2>5, <3>1, <3>2, <3>3 DEF ActorStep
  <2> QED
    BY <2>4, <2>5
<1>7. ~Restarts
  BY DEF Restarts, Alive, AliveAt, Registered, Loop
<1>8. ASSUME UNCHANGED vars PROVE Leaves(g)'
  BY <1>1, <1>3, <1>8 DEF vars, Kept, Alive, IsLive, Spawner, Commands
<1> QED
  BY <1>5, <1>6, <1>7, <1>8 DEF Steps

------------------------------------------------------------------------------
(* The theorems                                                                *)

LEMMA InitInv == Init => Inv
<1> SUFFICES ASSUME Init PROVE Inv
  OBVIOUS
<1>1. /\ live = Absent /\ dormant \in BOOLEAN /\ disk = dormant /\ lock = 0
      /\ actor = [g \in Gen |-> NoActor] /\ op = [i \in Op |-> NewOp]
      /\ cancelled = {} /\ cleared = {} /\ doubled = FALSE
  BY DEF Init
<1>2. Absent \in LiveType /\ ~IsLive
  BY <1>1 DEF LiveType, IsLive, Absent
<1>3. /\ \A i \in Op : op[i].pc = "new" /\ ~op[i].answered
      /\ \A g \in Gen : actor[g].at = "none" /\ actor[g].turn = 0 /\ actor[g].queue = <<>>
  BY <1>1, RecordTypes
<1>4. Types
  BY <1>1, <1>2, <1>3, RecordTypes DEF Types
<1>5. CalledInOrder /\ LiveWasSpawned
  BY <1>1, <1>2, <1>3 DEF CalledInOrder, LiveWasSpawned, At
<1>6. \A g \in Gen : Held(g) = {} /\ Commands(g, "prompt") = {} /\ ~Alive(g)
  <2>1. \A g \in Gen : Held(g) = {} /\ Commands(g, "prompt") = {}
    BY <1>3, NothingHeld
  <2> QED
    BY <1>3, <2>1 DEF Alive, AliveAt, Registered, Loop
<1>7. live.state # "running"
  BY <1>1 DEF Absent
<1>8. PromptInv
  BY <1>3, <1>6, <1>7
     DEF PromptInv, TurnsInLoop, HeldAreWaiting, HeldOnce, AdmittedIsHeard, RunningIsOwned, At
<1>9. StickyBit
  BY <1>1 DEF StickyBit
<1>10. SpawnInv
  BY <1>3, <1>6
     DEF SpawnInv, RestoresAlone, NotDormantAgain, RebindsAlone, SpawnedAreNew, NoOrphan, Rebinding, At
<1> QED
  BY <1>4, <1>5, <1>8, <1>9, <1>10 DEF Inv, WellFormed

LEMMA StepInv == Inv /\ [Next]_vars => Inv'
<1> SUFFICES ASSUME Inv, [Next]_vars PROVE Inv'
  OBVIOUS
<1>1. /\ WellFormed /\ Types /\ CalledInOrder /\ LiveWasSpawned
      /\ Prompts /\ RunningIsOwned /\ StickyBit
      /\ RestoresAlone /\ NotDormantAgain
      /\ ~doubled => RebindsAlone /\ SpawnedAreNew /\ NoOrphan
  BY DEF Inv, WellFormed, PromptInv, Prompts, SpawnInv
<1>2. Steps
  BY <1>1, StepShapes
<1>3. WellFormed' /\ Types'
  BY <1>1, WellFormedSteps DEF WellFormed
<1>4. PromptInv'
  BY <1>1, <1>2, <1>3, TurnsInLoopSteps, HeldStep, HeldOnceStep, OwnedStep DEF PromptInv, Prompts
<1>5. StickyBit'
  BY <1>1, <1>2, StickyStep
<1>6. SpawnInv'
  BY <1>1, <1>2, RestoresStep, NotDormantStep, RebindsStep, SpawnedStep, OrphanStep DEF SpawnInv
<1> QED
  BY <1>3, <1>4, <1>5, <1>6 DEF Inv

(* The inductive invariant holds throughout, for any number of operations,     *)
(* actor generations, restarts and faults.                                     *)
THEOREM Invariance == Spec => []Inv
BY InitInv, StepInv, PTL DEF Spec

(* The daemon never keeps two agents at work for the session, and none is left *)
(* running that it has forgotten, unless two rebinds met: the restore lock of  *)
(* ensure_live_session, the state Created of a rebind and the close sent with  *)
(* every removal are enough, however operations, crashes and restarts fall.    *)
THEOREM AgentKnown == Spec => []AgentIsKnown
<1>1. Inv => AgentIsKnown
  BY OneActorHolds DEF Inv, SpawnInv, AgentIsKnown
<1> QED
  BY <1>1, Invariance, PTL

(* Every admitted prompt has its result or an actor that holds its sender:     *)
(* each way an actor takes, refuses, cancels or ends a prompt answers it, so   *)
(* the result watcher of send_prompt never waits for nothing.                  *)
THEOREM AdmittedHeard == Spec => []AdmittedIsHeard
<1>1. Inv => AdmittedIsHeard
  BY DEF Inv, PromptInv
<1> QED
  BY <1>1, Invariance, PTL

(* A Running session always has the prompt that made it Running, on the actor  *)
(* it runs on: begin_prompt and the watchers agree about who is at work.       *)
THEOREM RunningOwned == Spec => []RunningIsOwned
<1>1. Inv => RunningIsOwned
  BY DEF Inv, PromptInv
<1> QED
  BY <1>1, Invariance, PTL

\* Only an actor whose sticky bit is off sends a request.
LEMMA RequestsAreClear ==
    ASSUME Types, Steps, NEW g \in Gen, actor[g].at = "draining", actor'[g].at = "turn"
    PROVE  ~actor[g].sticky
<1>1. ASSUME NEW i \in Op, OpStep(i) PROVE FALSE
  <2>1. CASE Walk(i) \/ Begins(i) \/ Marks(i) \/ Rebinds(i) \/ Dispatches(i) \/ Removes(i) \/ Sends(i)
    BY <2>1 DEF Walk, Begins, Marks, Rebinds, Dispatches, Removes, Sends, ActorsGoOn, Pushed
  <2>2. CASE SpawnsFor(i)
    BY <2>2, RecordTypes DEF SpawnsFor, Spawned
  <2>3. CASE Registers(i)
    BY <2>3 DEF Registers
  <2> QED
    BY <1>1, <2>1, <2>2, <2>3 DEF OpStep
<1>2. ASSUME NEW h \in Gen, ActorStep(h) PROVE ~actor[g].sticky
  BY <1>2 DEF ActorStep, Advances, Ends, TurnEnds, Refuses, Takes, Ended
<1>3. ~Restarts /\ ~UNCHANGED vars
  BY DEF Restarts, vars
<1> QED
  BY <1>1, <1>2, <1>3 DEF Steps

(* A prompt under way when a cancel was issued does not reach the agent after  *)
(* it, as long as no other prompt reset or used up the bit: the bit is set     *)
(* before the command is sent and read before every request.                   *)
THEOREM CancelHolds == Spec => CancelSticks
<1> DEFINE Sticks == \A g \in Gen : actor[g].at = "draining" /\ actor'[g].at = "turn"
                        => actor[g].turn \notin cancelled \ cleared
<1>1. Inv /\ [Next]_vars => Sticks
  <2> SUFFICES ASSUME Inv, [Next]_vars, NEW g \in Gen,
                      actor[g].at = "draining", actor'[g].at = "turn",
                      actor[g].turn \in cancelled \ cleared
               PROVE  FALSE
    OBVIOUS
  <2>1. Types /\ StickyBit
    BY DEF Inv, WellFormed
  <2>2. ~actor[g].sticky
    BY <2>1, StepShapes, RequestsAreClear
  <2>3. actor[g].turn \in Held(g) /\ Alive(g)
    BY <2>1 DEF Types, Held, Alive, AliveAt, Registered, Loop
  <2> QED
    BY <2>1, <2>2, <2>3 DEF StickyBit
<1>2. Spec => [][Sticks]_vars
  BY <1>1, Invariance, PTL DEF Spec
<1> QED
  BY <1>2 DEF CancelSticks

(* A conversation that is on disk is lost only to a close or to the end of a   *)
(* cancel's grace period: no failing restore or rebind, no dying agent and no  *)
(* restart removes both its records.                                           *)
THEOREM ConversationsSurvive == Spec => ConversationSurvives
<1> DEFINE Survives == (IsLive \/ dormant) /\ disk =>
                          \/ live'.state # "absent" \/ dormant'
                          \/ \E i \in Op : op[i].pc \in {"close", "grace"} /\ op'[i].pc # op[i].pc
<1>1. Inv /\ [Next]_vars => Survives
  <2> SUFFICES ASSUME Inv, [Next]_vars, IsLive \/ dormant, disk,
                      \A i \in Op : op[i].pc \in {"close", "grace"} => op'[i].pc = op[i].pc
               PROVE  live'.state # "absent" \/ dormant'
    OBVIOUS
  <2>1. Types /\ NotDormantAgain /\ dormant \in BOOLEAN
    BY DEF Inv, WellFormed, SpawnInv, Types
  <2>2. LiveKept /\ IsLive => live'.state # "absent"
    BY DEF LiveKept, IsLive
  <2>3. ASSUME NEW i \in Op, OpStep(i) PROVE live'.state # "absent" \/ dormant'
    <3>1. ~Removes(i)
      BY DEF Removes, GoesWith
    <3>2. CASE Registers(i)
      BY <3>2 DEF Registers
    <3>3. CASE LiveKept
      <4>1. IsLive \/ dormant' = dormant \/ (Walk(i) /\ At(i, "published"))
        BY <2>3, <3>1, <3>3
           DEF OpStep, Walk, Begins, Dispatches, Sends, Marks, Rebinds, SpawnsFor, Registers, At
      <4> QED
        BY <2>1, <2>2, <3>3, <4>1 DEF NotDormantAgain
    <3> QED
      BY <2>1, <2>3, <3>1, <3>2, <3>3, RegistryMoves
  <2>4. ASSUME NEW g \in Gen, ActorStep(g) PROVE live'.state # "absent" \/ dormant'
    BY <2>1, <2>2, <2>4, ActorsLeaveOps
  <2>5. Restarts => dormant'
    BY DEF Restarts
  <2>6. UNCHANGED vars => live'.state # "absent" \/ dormant'
    BY DEF vars, IsLive
  <2> QED
    BY <2>1, <2>3, <2>4, <2>5, <2>6, StepShapes DEF Steps
<1>2. Spec => [][Survives]_vars
  BY <1>1, Invariance, PTL DEF Spec
<1> QED
  BY <1>2 DEF ConversationSurvives
=============================================================================
