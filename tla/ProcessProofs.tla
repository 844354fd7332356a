---------------------------- MODULE ProcessProofs ----------------------------
(* Theorems, proved with TLAPS, about the processes of a host: the commands an *)
(* agent runs in terminals (Terminals), for any number of callbacks, terminals *)
(* and permits; the daemon itself with the commands that start, stop and       *)
(* configure it (Host), for any number of processes, folders and commands; and *)
(* the programs it asks for the models of an agent (AgentProbe), for any       *)
(* number of calls and whatever the programs say.                              *)
EXTENDS Terminals, Host, AgentProbe, FiniteSetTheorems, SequenceTheorems,
        NaturalsInduction, WellFoundedInduction, TLAPS

(* Terminals.  The inductive invariant adds to the types what a terminal is    *)
(* before it is created and after its command has ended.                       *)

CommandType == [at : Busy \union {"none", "done"},
                child : {"none", "alive", "killed", "success", "failure"},
                kin : {"none", "alive"}, readers : SUBSET Stream]

RequestType == [kind : Kind, term : Terminal,
                at : Active \union {"new", "done", "over"},
                status : {NoStatus, "killed", "success", "failure"},
                lines : 0..MaxLines]

(* TypeOK without the two limits.                                              *)
Types ==
    /\ session \in {"open", "cancelled", "closed"}
    /\ registry \subseteq Terminal /\ killed \subseteq Terminal
    /\ cmd \in [Terminal -> CommandType]
    /\ pipe \in [Terminal -> [Stream -> 0..MaxLines]]
    /\ text \in [Terminal -> 0..MaxLines]
    /\ exit \in [Terminal -> {NoStatus, "killed", "success", "failure"}]
    /\ request \in [Request -> RequestType]

(* What a command has written, read or not, is bounded.                        *)
LinesBound == \A t \in Terminal : text[t] + pipe[t]["out"] + pipe[t]["err"] <= MaxLines

(* A terminal that is still to be created has no command.                      *)
Creating(r) == request[r].kind = "create" /\ request[r].at \in {"task", "checked"}

Fresh ==
    \A r \in Request :
       /\ Creating(r) => r \in Terminal
       /\ r \in Terminal /\ (request[r].at = "new" \/ Creating(r)) => cmd[r].at = "none"

(* A command that has not begun or has ended has no readers; a status is known *)
(* only of a command that was run, or could not start, and has ended.          *)
Ended ==
    \A t \in Terminal :
       /\ cmd[t].at \in {"none", "starting", "done"} => cmd[t].readers = {}
       /\ cmd[t].at = "draining" => cmd[t].child # "alive"
       /\ exit[t] # NoStatus => cmd[t].at = "done"

(* FinalOutput, with the reason: the status an agent was told is still there.  *)
StatusStands ==
    \A r \in Request :
       request[r].kind = "output" /\ request[r].at = "done" /\ request[r].status # NoStatus
          => exit[request[r].term] # NoStatus /\ request[r].lines = text[request[r].term]

Limits == Cardinality(registry) <= MaxTerminals /\ Cardinality(TasksRunning) <= MaxTasks

WellFormed == Types /\ LinesBound /\ Fresh /\ Ended

Inv == WellFormed /\ Limits /\ StatusStands /\ NoUnreachable

------------------------------------------------------------------------------
(* Lemmas about the updates the actions are made of                            *)

(* What the bounds say of terminals and requests.                             *)
LEMMA ConstantTypes ==
    /\ Terminal \subseteq Request /\ 1 \in Terminal /\ NewRequest \in RequestType
    /\ IsFiniteSet(Terminal) /\ IsFiniteSet(Request)
<1>1. Terminal \subseteq Request /\ 1 \in Terminal
  BY BoundsAssumption DEF Terminal, Request
<1>2. NewRequest \in RequestType
  BY <1>1, BoundsAssumption DEF NewRequest, RequestType, Kind, NoStatus
<1>3. IsFiniteSet(1..MaxCreates) /\ IsFiniteSet(1..MaxRequests)
  BY FS_Interval, BoundsAssumption
<1> QED
  BY <1>1, <1>2, <1>3 DEF Terminal, Request

(* An answered request keeps nothing, and the others what they had.            *)
LEMMA AnsweredKeeps ==
    ASSUME NEW r \in Request, request \in [Request -> RequestType], Answered(r)
    PROVE  /\ request' \in [Request -> RequestType]
           /\ request'[r].at = "over"
           /\ \A q \in Request \ {r} : request'[q] = request[q]
BY ConstantTypes DEF Answered, NewRequest, RequestType

(* A request that moves on keeps its kind, and the others what they had.      *)
LEMMA GotoKeeps ==
    ASSUME NEW r \in Request, NEW at \in Active \union {"over", "done"},
           request \in [Request -> RequestType], Goto(r, at)
    PROVE  /\ request' \in [Request -> RequestType]
           /\ request'[r].at = at /\ request'[r].kind = request[r].kind
           /\ \A q \in Request \ {r} : request'[q] = request[q]
BY DEF Goto, RequestType

------------------------------------------------------------------------------
(* The steps, grouped by what they leave alone                                 *)

(* The steps of the executor and of the processes of a command.                *)
CommandStep(t) ==
    \/ Spawn(t) \/ SpawnFails(t) \/ Stop(t) \/ Reap(t) \/ Finish(t)
    \/ \E s \in Stream : Read(t, s) \/ ReaderEnds(t, s) \/ Write(t, s)
    \/ Fork(t) \/ KinExits(t) \/ ChildExits(t)

(* The callbacks that leave the commands alone.                                *)
CallbackStep(r) ==
    \/ Abort(r) \/ CreateCheck(r) \/ NotFound(r) \/ terminal_output(r)
    \/ WaitStart(r) \/ WaitLook(r) \/ WaitWakes(r)
    \/ kill_terminal(r) \/ release_terminal(r)
    \/ \E k \in Kind, t \in Terminal : Arrive(r, k, t)

------------------------------------------------------------------------------
(* Types, lines, and the life of a command                                     *)

(* A callback changes its own request, the registry and tokens.                *)
LEMMA CallbackWellFormed ==
    ASSUME WellFormed, NEW r \in Request, UNCHANGED process, CallbackStep(r)
    PROVE  WellFormed'
<1>1. request \in [Request -> RequestType]
  BY DEF WellFormed, Types
<1>2. /\ request' \in [Request -> RequestType]
      /\ \A q \in Request \ {r} : request'[q] = request[q]
      /\ Creating(r)' => r \in Terminal /\ (request[r].at = "new" \/ Creating(r))
      /\ request'[r].at # "new"
  <2>1. CASE Answered(r)
    BY <1>1, <2>1, AnsweredKeeps DEF Creating
  <2>2. CASE Goto(r, "checked") /\ CreateCheck(r)
    BY <1>1, <2>2, GotoKeeps DEF Active, Creating, CreateCheck, At, WellFormed, Fresh
  <2>3. CASE Goto(r, "looking") \/ Goto(r, "waiting")
    BY <1>1, <2>3, GotoKeeps DEF Active, Creating
  <2>4. CASE terminal_output(r)
    <3>1. request[r].term \in Terminal
      BY <1>1 DEF RequestType
    <3>2. /\ exit[request[r].term] \in {NoStatus, "killed", "success", "failure"}
          /\ text[request[r].term] \in 0..MaxLines
      BY <3>1 DEF WellFormed, Types
    <3> DEFINE q1 == [request EXCEPT ![r].at = "done"]
               q2 == [q1 EXCEPT ![r].status = exit[request[r].term]]
               q3 == [q2 EXCEPT ![r].lines = text[request[r].term]]
    <3>3. request' = q3
      BY <2>4 DEF terminal_output
    <3>4. q1 \in [Request -> RequestType] /\ q1[r].at = "done"
      BY <1>1 DEF RequestType
    <3>5. \A q \in Request \ {r} : q1[q] = request[q]
      BY <1>1
    <3> HIDE DEF q1
    <3>6. /\ q2 \in [Request -> RequestType] /\ q2[r].at = "done"
          /\ \A q \in Request \ {r} : q2[q] = request[q]
      BY <3>2, <3>4, <3>5 DEF RequestType
    <3> HIDE DEF q2
    <3>7. /\ q3 \in [Request -> RequestType] /\ q3[r].at = "done"
          /\ \A q \in Request \ {r} : q3[q] = request[q]
      BY <3>2, <3>6 DEF RequestType
    <3> QED
      BY <3>3, <3>7 DEF Creating
  <2>5. ASSUME NEW k \in Kind, NEW t \in Terminal, Arrive(r, k, t), ~Answered(r)
        PROVE  /\ request' \in [Request -> RequestType]
               /\ \A q \in Request \ {r} : request'[q] = request[q]
               /\ Creating(r)' => r \in Terminal /\ (request[r].at = "new" \/ Creating(r))
               /\ request'[r].at # "new"
    <3>1. request' = [request EXCEPT ![r] = [@ EXCEPT !.kind = k, !.term = t, !.at = "task"]]
      BY <2>5 DEF Arrive
    <3> DEFINE fresh == [[[request[r] EXCEPT !.kind = k] EXCEPT !.term = t] EXCEPT !.at = "task"]
    <3>2. request' = [request EXCEPT ![r] = fresh]
      BY <1>1, <3>1
    <3>3. request[r] \in RequestType
      BY <1>1
    <3>4. [request[r] EXCEPT !.kind = k] \in RequestType
      BY <3>3 DEF RequestType
    <3>5. [[request[r] EXCEPT !.kind = k] EXCEPT !.term = t] \in RequestType
      BY <3>4 DEF RequestType
    <3>6. fresh \in RequestType /\ fresh.at = "task" /\ fresh.kind = k
      BY <3>5, <3>4, <3>3 DEF RequestType, Active
    <3> HIDE DEF fresh
    <3> QED
      BY <1>1, <2>5, <3>2, <3>6 DEF Arrive, Creating
  <2> QED
    BY <2>1, <2>2, <2>3, <2>4, <2>5
       DEF CallbackStep, Abort, CreateCheck, NotFound, WaitStart, WaitLook, WaitWakes,
           kill_terminal, release_terminal
<1>3. session' \in {"open", "cancelled", "closed"} /\ registry' \subseteq Terminal /\ killed' \subseteq Terminal
  <2>1. request[r].term \in Terminal
    BY <1>1 DEF RequestType
  <2> QED
    BY <2>1 DEF WellFormed, Types, CallbackStep, Arrive, Abort, CreateCheck, NotFound, terminal_output, WaitStart, WaitLook,
                WaitWakes, kill_terminal, release_terminal
<1>4. Types' /\ LinesBound' /\ Ended'
  BY <1>2, <1>3 DEF WellFormed, Types, LinesBound, Ended, process
<1>5. Fresh'
  BY <1>2 DEF WellFormed, Fresh, Creating, process
<1> QED
  BY <1>4, <1>5 DEF WellFormed

(* A create gives its terminal a command that has not begun.                  *)
LEMMA CreateWellFormed ==
    ASSUME WellFormed, NEW r \in Request, CreateInsert(r)
    PROVE  WellFormed'
<1>1. /\ request \in [Request -> RequestType] /\ cmd \in [Terminal -> CommandType]
      /\ Creating(r) /\ r \in Terminal /\ cmd[r].at = "none"
  BY DEF WellFormed, Types, Fresh, CreateInsert, At, Creating
<1>2. /\ request' \in [Request -> RequestType] /\ request'[r].at = "over"
      /\ \A q \in Request \ {r} : request'[q] = request[q]
  BY <1>1, AnsweredKeeps DEF CreateInsert
<1>3. /\ cmd' \in [Terminal -> CommandType]
      /\ \A t \in Terminal \ {r} : cmd'[t] = cmd[t]
      /\ cmd'[r].readers = cmd[r].readers
      /\ cmd'[r].at \in {"none", "starting"}
  BY <1>1 DEF CreateInsert, CommandType, Busy
<1>4. Types' /\ LinesBound'
  BY <1>1, <1>2, <1>3 DEF WellFormed, Types, LinesBound, CreateInsert
<1>5. Fresh'
  BY <1>2, <1>3 DEF WellFormed, Fresh, Creating
<1>6. Ended'
  BY <1>1, <1>3 DEF WellFormed, Ended, CreateInsert
<1> QED
  BY <1>4, <1>5, <1>6 DEF WellFormed

(* The end of the session touches no command and no request.                  *)
LEMMA EndWellFormed ==
    ASSUME WellFormed, CancelHandlers \/ cancel_terminals
    PROVE  WellFormed'
<1>1. Types'
  BY DEF WellFormed, Types, CancelHandlers, cancel_terminals, process
<1>2. LinesBound' /\ Fresh' /\ Ended'
  BY DEF WellFormed, LinesBound, Fresh, Creating, Ended, CancelHandlers, cancel_terminals, process
<1> QED
  BY <1>1, <1>2 DEF WellFormed

(* What a step of terminal t may do to its command and to its status.          *)
StepOf(t) ==
    /\ cmd' \in [Terminal -> CommandType]
    /\ exit' \in [Terminal -> {NoStatus, "killed", "success", "failure"}]
    /\ \A u \in Terminal \ {t} : cmd'[u] = cmd[u] /\ exit'[u] = exit[u]
    /\ cmd'[t].at \in Busy => cmd[t].at \in Busy
    /\ cmd[t].at = "none" => cmd'[t].at = "none"
    /\ cmd'[t].at \in {"none", "starting", "done"} => cmd'[t].readers = {}
    /\ cmd'[t].at = "draining" => cmd'[t].child # "alive"
    /\ exit[t] # NoStatus => exit'[t] = exit[t]
    /\ exit'[t] # NoStatus => cmd'[t].at = "done"

(* The executor moves the command of one terminal, and ends it with a status. *)
LEMMA ExecutorSteps ==
    ASSUME WellFormed, NEW t \in Terminal,
           Spawn(t) \/ SpawnFails(t) \/ Stop(t) \/ Reap(t) \/ Finish(t)
    PROVE  StepOf(t)
<1>0. /\ cmd \in [Terminal -> CommandType]
      /\ exit \in [Terminal -> {NoStatus, "killed", "success", "failure"}]
      /\ cmd[t].at \in {"none", "starting", "done"} => cmd[t].readers = {}
      /\ cmd[t].at = "draining" => cmd[t].child # "alive"
      /\ exit[t] # NoStatus => cmd[t].at = "done"
  BY DEF WellFormed, Types, Ended
<1>1. CASE Spawn(t)
  BY <1>0, <1>1 DEF Spawn, StepOf, CommandType, Running, Busy, control
<1>2. CASE SpawnFails(t)
  BY <1>0, <1>2 DEF SpawnFails, StepOf, CommandType, Running, Busy, control
<1>3. CASE Stop(t)
  <2> DEFINE c1 == [cmd EXCEPT ![t].at = "reaping"]
             c2 == [c1 EXCEPT ![t].child = IF @ = "alive" THEN "killed" ELSE @]
             c3 == [c2 EXCEPT ![t].kin = "none"]
  <2>1. cmd' = c3
    BY <1>3 DEF Stop
  <2>2. c1 \in [Terminal -> CommandType] /\ c1[t].at = "reaping"
    BY <1>0 DEF CommandType, Busy
  <2>3. \A u \in Terminal \ {t} : c1[u] = cmd[u]
    BY <1>0
  <2> HIDE DEF c1
  <2>4. /\ c2 \in [Terminal -> CommandType] /\ c2[t].at = "reaping"
        /\ \A u \in Terminal \ {t} : c2[u] = cmd[u]
    BY <2>2, <2>3 DEF CommandType
  <2> HIDE DEF c2
  <2>5. /\ c3 \in [Terminal -> CommandType] /\ c3[t].at = "reaping"
        /\ \A u \in Terminal \ {t} : c3[u] = cmd[u]
    BY <2>4 DEF CommandType
  <2> QED
    BY <1>0, <1>3, <2>1, <2>5 DEF Stop, StepOf, Running, Busy
<1>4. CASE Reap(t)
  BY <1>0, <1>4 DEF Reap, StepOf, CommandType, Running, Busy, control
<1>5. CASE Finish(t)
  <2>1. Status(t) \in {NoStatus, "killed", "success", "failure"}
    BY <1>0, <1>5 DEF Finish, Running, Status, CommandType, NoStatus
  <2> QED
    BY <1>0, <1>5, <2>1 DEF Finish, StepOf, CommandType, Running, Busy, control
<1> QED
  BY <1>1, <1>2, <1>3, <1>4, <1>5

(* The processes and the readers never move the executor itself.              *)
LEMMA ProcessSteps ==
    ASSUME WellFormed, NEW t \in Terminal,
           \/ \E s \in Stream : Read(t, s) \/ ReaderEnds(t, s) \/ Write(t, s)
           \/ Fork(t) \/ KinExits(t) \/ ChildExits(t)
    PROVE  StepOf(t)
<1>0. /\ cmd \in [Terminal -> CommandType]
      /\ exit \in [Terminal -> {NoStatus, "killed", "success", "failure"}]
      /\ cmd[t].at \in {"none", "starting", "done"} => cmd[t].readers = {}
      /\ cmd[t].at = "draining" => cmd[t].child # "alive"
      /\ exit[t] # NoStatus => cmd[t].at = "done"
  BY DEF WellFormed, Types, Ended
<1>1. ASSUME NEW s \in Stream, Read(t, s) \/ Write(t, s)
      PROVE  StepOf(t)
  BY <1>0, <1>1 DEF Read, Write, StepOf
<1>2. ASSUME NEW s \in Stream, ReaderEnds(t, s)
      PROVE  StepOf(t)
  BY <1>0, <1>2 DEF ReaderEnds, StepOf, CommandType
<1>3. CASE Fork(t)
  BY <1>0, <1>3 DEF Fork, StepOf, CommandType
<1>4. CASE KinExits(t)
  BY <1>0, <1>4 DEF KinExits, StepOf, CommandType
<1>5. CASE ChildExits(t)
  BY <1>0, <1>5 DEF ChildExits, StepOf, CommandType
<1> QED
  BY <1>1, <1>2, <1>3, <1>4, <1>5

(* The lines move from the command to its pipe and from there to the text.     *)
LEMMA LineSteps ==
    ASSUME WellFormed, NEW t \in Terminal, NEW s \in Stream, Read(t, s) \/ Write(t, s)
    PROVE  /\ pipe' \in [Terminal -> [Stream -> 0..MaxLines]]
           /\ text' \in [Terminal -> 0..MaxLines]
           /\ LinesBound'
<1>1. /\ pipe \in [Terminal -> [Stream -> 0..MaxLines]] /\ text \in [Terminal -> 0..MaxLines]
      /\ \A u \in Terminal : text[u] + pipe[u]["out"] + pipe[u]["err"] <= MaxLines
      /\ MaxLines \in Nat
  BY BoundsAssumption DEF WellFormed, Types, LinesBound
<1>2. s = "out" \/ s = "err"
  BY DEF Stream
<1>3. /\ text[t] \in Nat /\ pipe[t]["out"] \in Nat /\ pipe[t]["err"] \in Nat
      /\ pipe[t] \in [Stream -> 0..MaxLines]
      /\ text[t] + pipe[t]["out"] + pipe[t]["err"] <= MaxLines
  BY <1>1 DEF Stream
<1>4. CASE Read(t, s)
  BY <1>1, <1>2, <1>3, <1>4 DEF Read, LinesBound, Stream
<1>5. CASE Write(t, s)
  BY <1>1, <1>2, <1>3, <1>5 DEF Write, LinesBound, Stream
<1> QED
  BY <1>4, <1>5

(* Such a step keeps the types, given that the lines stay within their bound. *)
LEMMA CommandWellFormed ==
    ASSUME WellFormed, NEW t \in Terminal, StepOf(t), UNCHANGED control,
           /\ pipe' \in [Terminal -> [Stream -> 0..MaxLines]]
           /\ text' \in [Terminal -> 0..MaxLines]
           /\ LinesBound'
    PROVE  WellFormed'
<1>1. Types'
  BY DEF WellFormed, Types, StepOf, control
<1>2. Fresh'
  BY DEF WellFormed, Types, Fresh, Creating, StepOf, control
<1>3. Ended'
  BY DEF WellFormed, Ended, StepOf
<1> QED
  BY <1>1, <1>2, <1>3 DEF WellFormed

------------------------------------------------------------------------------
(* The invariant, step by step                                                 *)

(* Every step belongs to one of the groups.                                   *)
LEMMA NextSteps ==
    ASSUME Next
    PROVE  \/ \E r \in Request : CallbackStep(r) \/ CreateInsert(r)
           \/ \E t \in Terminal : CommandStep(t)
           \/ CancelHandlers \/ cancel_terminals
BY DEF Next, Daemon, Callback, Executor, Process, StopCancelled, Deadline, CallbackStep, CommandStep

(* A callback other than create leaves commands, pipes and statuses alone.    *)
LEMMA CallbackFrame ==
    ASSUME NEW r \in Request, CallbackStep(r)
    PROVE  UNCHANGED process
BY DEF CallbackStep, Abort, CreateCheck, NotFound, terminal_output, WaitStart, WaitLook, WaitWakes,
       kill_terminal, release_terminal, Arrive

(* A step of a command leaves callbacks, registry and session alone.          *)
LEMMA CommandFrame ==
    ASSUME WellFormed, NEW t \in Terminal, CommandStep(t)
    PROVE  StepOf(t) /\ UNCHANGED control /\ WellFormed'
<1>1. StepOf(t)
  BY ExecutorSteps, ProcessSteps DEF CommandStep
<1>2. UNCHANGED control
  BY DEF CommandStep, Spawn, SpawnFails, Stop, Reap, Finish, Read, ReaderEnds, Write,
         Fork, KinExits, ChildExits
<1>3. /\ pipe' \in [Terminal -> [Stream -> 0..MaxLines]]
      /\ text' \in [Terminal -> 0..MaxLines]
      /\ LinesBound'
  <2>1. ASSUME NEW s \in Stream, Read(t, s) \/ Write(t, s)
        PROVE  /\ pipe' \in [Terminal -> [Stream -> 0..MaxLines]]
               /\ text' \in [Terminal -> 0..MaxLines]
               /\ LinesBound'
    BY <2>1, LineSteps
  <2>2. CASE UNCHANGED <<pipe, text>>
    BY <2>2 DEF WellFormed, Types, LinesBound
  <2> QED
    BY <2>1, <2>2 DEF CommandStep, Spawn, SpawnFails, Stop, Reap, Finish, ReaderEnds, Fork, KinExits, ChildExits
<1> QED
  BY <1>1, <1>2, <1>3, CommandWellFormed

(* Every step keeps the types, the lines and the life of a command.           *)
LEMMA StepWellFormed ==
    ASSUME WellFormed, [Next]_vars
    PROVE  WellFormed'
<1>1. CASE UNCHANGED vars
  BY <1>1 DEF vars, WellFormed, Types, LinesBound, Fresh, Creating, Ended
<1>2. ASSUME NEW r \in Request, CallbackStep(r)
      PROVE  WellFormed'
  BY <1>2, CallbackFrame, CallbackWellFormed
<1> QED
  BY <1>1, <1>2, NextSteps, CreateWellFormed, CommandFrame, EndWellFormed

(* The registry and the tasks stay within their limits: each is checked in the *)
(* step that adds to it.                                                       *)
LEMMA StepLimits ==
    ASSUME WellFormed, Limits, [Next]_vars
    PROVE  Limits'
<1>0. /\ registry \subseteq Terminal /\ IsFiniteSet(registry) /\ Cardinality(registry) \in Nat
      /\ IsFiniteSet(TasksRunning) /\ Cardinality(TasksRunning) \in Nat
      /\ MaxTerminals \in Nat /\ MaxTasks \in Nat
      /\ request \in [Request -> RequestType]
  <2>1. registry \subseteq Terminal /\ request \in [Request -> RequestType]
    BY DEF WellFormed, Types
  <2>2. TasksRunning \subseteq Request
    BY DEF TasksRunning
  <2>3. IsFiniteSet(registry) /\ IsFiniteSet(TasksRunning)
    BY <2>1, <2>2, ConstantTypes, FS_Subset
  <2> QED
    BY <2>1, <2>3, FS_CardinalityType, BoundsAssumption
<1>1. ASSUME registry' \subseteq registry
      PROVE  Cardinality(registry') <= MaxTerminals
  <2>1. IsFiniteSet(registry') /\ Cardinality(registry') <= Cardinality(registry)
    BY <1>0, <1>1, FS_Subset
  <2>2. Cardinality(registry') \in Nat
    BY <2>1, FS_CardinalityType
  <2> QED
    BY <1>0, <2>1, <2>2 DEF Limits
<1>2. ASSUME TasksRunning' \subseteq TasksRunning
      PROVE  Cardinality(TasksRunning') <= MaxTasks
  <2>1. IsFiniteSet(TasksRunning') /\ Cardinality(TasksRunning') <= Cardinality(TasksRunning)
    BY <1>0, <1>2, FS_Subset
  <2>2. Cardinality(TasksRunning') \in Nat
    BY <2>1, FS_CardinalityType
  <2> QED
    BY <1>0, <2>1, <2>2 DEF Limits
<1>3. CASE UNCHANGED <<registry, request>>
  BY <1>3 DEF Limits, TasksRunning
<1>4. ASSUME NEW r \in Request, CreateInsert(r)
      PROVE  Limits'
  <2>1. TasksRunning' \subseteq TasksRunning
    BY <1>0, <1>4, AnsweredKeeps DEF TasksRunning, CreateInsert, Active
  <2>2. CASE registry' = registry
    BY <1>1, <1>2, <2>1, <2>2 DEF Limits
  <2>3. CASE registry' = registry \union {r} /\ ~(Cardinality(registry) >= MaxTerminals)
    <3>1. \/ Cardinality(registry') = Cardinality(registry)
          \/ Cardinality(registry') = Cardinality(registry) + 1
      BY <1>0, <2>3, FS_AddElement
    <3> QED
      BY <1>0, <1>2, <2>1, <2>3, <3>1 DEF Limits
  <2> QED
    BY <1>4, <2>2, <2>3 DEF CreateInsert
<1>5. ASSUME NEW r \in Request, CallbackStep(r)
      PROVE  Limits'
  <2>1. registry' \subseteq registry
    BY <1>5 DEF CallbackStep, Abort, CreateCheck, NotFound, terminal_output, WaitStart, WaitLook, WaitWakes,
       kill_terminal, release_terminal, Arrive
  <2>2. CASE Answered(r)
    <3>1. TasksRunning' \subseteq TasksRunning
      BY <1>0, <2>2, AnsweredKeeps DEF TasksRunning, Active
    <3> QED
      BY <1>1, <1>2, <2>1, <3>1 DEF Limits
  <2>3. CASE request[r].at \in Active /\ ~Answered(r)
    <3>1. \A q \in Request \ {r} : request'[q] = request[q]
      BY <1>0, <1>5, <2>3, GotoKeeps
         DEF CallbackStep, Abort, CreateCheck, NotFound, terminal_output, WaitStart, WaitLook, WaitWakes,
             kill_terminal, release_terminal, Arrive, Goto
    <3>2. TasksRunning' \subseteq TasksRunning
      BY <2>3, <3>1 DEF TasksRunning
    <3> QED
      BY <1>1, <1>2, <2>1, <3>2 DEF Limits
  <2>4. ASSUME NEW k \in Kind, NEW t \in Terminal, Arrive(r, k, t), ~Answered(r)
        PROVE  Limits'
    <3>1. Cardinality(TasksRunning) < MaxTasks
      BY <2>4 DEF Arrive
    <3>2. \A q \in Request \ {r} : request'[q] = request[q]
      BY <1>0, <2>4 DEF Arrive
    <3>3. TasksRunning' \subseteq TasksRunning \union {r}
      BY <3>2 DEF TasksRunning
    <3>4. /\ IsFiniteSet(TasksRunning \union {r})
          /\ Cardinality(TasksRunning \union {r}) <= Cardinality(TasksRunning) + 1
          /\ Cardinality(TasksRunning \union {r}) \in Nat
      <4>1. /\ IsFiniteSet(TasksRunning \union {r})
            /\ \/ Cardinality(TasksRunning \union {r}) = Cardinality(TasksRunning)
               \/ Cardinality(TasksRunning \union {r}) = Cardinality(TasksRunning) + 1
        BY <1>0, FS_AddElement
      <4> QED
        BY <1>0, <4>1
    <3>5. /\ Cardinality(TasksRunning') <= Cardinality(TasksRunning \union {r})
          /\ Cardinality(TasksRunning') \in Nat
      BY <3>3, <3>4, FS_Subset, FS_CardinalityType
    <3> QED
      BY <1>0, <1>1, <2>1, <3>1, <3>4, <3>5 DEF Limits
  <2> QED
    BY <1>5, <2>2, <2>3, <2>4
       DEF CallbackStep, Abort, CreateCheck, NotFound, terminal_output, WaitStart, WaitLook, WaitWakes,
           kill_terminal, release_terminal, At, Active
<1>6. CASE CancelHandlers \/ cancel_terminals
  <2>1. registry' \subseteq registry /\ TasksRunning' \subseteq TasksRunning
    BY <1>6 DEF CancelHandlers, cancel_terminals, TasksRunning
  <2> QED
    BY <1>1, <1>2, <2>1 DEF Limits
<1> QED
  BY <1>3, <1>4, <1>5, <1>6, NextSteps, CommandFrame DEF vars, control

(* A status an agent was told stays, and no line is added after it.            *)
LEMMA StepStatusStands ==
    ASSUME WellFormed, StatusStands, [Next]_vars
    PROVE  StatusStands'
<1>0. request \in [Request -> RequestType] /\ WellFormed'
  BY StepWellFormed DEF WellFormed, Types
<1>1. ASSUME NEW r \in Request, CallbackStep(r) \/ CreateInsert(r)
      PROVE  StatusStands'
  <2>1. UNCHANGED <<exit, text>>
    BY <1>1, CallbackFrame DEF process, CreateInsert
  <2>2. \A q \in Request \ {r} : request'[q] = request[q]
    BY <1>0, <1>1, AnsweredKeeps, GotoKeeps
       DEF CallbackStep, Abort, CreateCheck, CreateInsert, NotFound, terminal_output, WaitStart, WaitLook,
           WaitWakes, kill_terminal, release_terminal, Arrive, Goto
  <2>3. CASE terminal_output(r)
    <3>1. /\ request'[r].term = request[r].term
          /\ request'[r].status = exit[request[r].term]
          /\ request'[r].lines = text[request[r].term]
      BY <1>0, <2>3 DEF terminal_output, RequestType
    <3> QED
      BY <2>1, <2>2, <3>1 DEF StatusStands
  <2>4. CASE request'[r].at # "done"
    BY <2>1, <2>2, <2>4 DEF StatusStands
  <2>5. terminal_output(r) \/ request'[r].at # "done"
    <3>1. CASE Answered(r)
      BY <1>0, <3>1, AnsweredKeeps
    <3>2. CASE Goto(r, "checked") \/ Goto(r, "looking") \/ Goto(r, "waiting")
      BY <1>0, <3>2, GotoKeeps DEF Active
    <3>3. ASSUME NEW k \in Kind, NEW t \in Terminal, Arrive(r, k, t), ~Answered(r)
          PROVE  request'[r].at # "done"
      BY <1>0, <3>3 DEF Arrive, RequestType
    <3> QED
      BY <1>1, <3>1, <3>2, <3>3
         DEF CallbackStep, Abort, CreateCheck, CreateInsert, NotFound, WaitStart, WaitLook,
             WaitWakes, kill_terminal, release_terminal
  <2> QED
    BY <2>3, <2>4, <2>5
<1>2. ASSUME NEW t \in Terminal, CommandStep(t)
      PROVE  StatusStands'
  <2>1. StepOf(t) /\ request' = request
    BY <1>2, CommandFrame DEF control
  <2>2. \A u \in Terminal : exit[u] # NoStatus => exit'[u] = exit[u]
    BY <2>1 DEF StepOf
  <2>3. \A u \in Terminal : exit[u] # NoStatus => text'[u] = text[u]
    <3>1. ASSUME NEW s \in Stream, Read(t, s)
          PROVE  exit[t] = NoStatus /\ \A u \in Terminal \ {t} : text'[u] = text[u]
      BY <3>1 DEF Read, WellFormed, Types, Ended
    <3>2. (\E s \in Stream : Read(t, s)) \/ text' = text
      BY <1>2 DEF CommandStep, Spawn, SpawnFails, Stop, Reap, Finish, ReaderEnds, Write, Fork, KinExits, ChildExits
    <3> QED
      BY <3>1, <3>2
  <2>4. \A r \in Request : request[r].term \in Terminal
    BY <1>0 DEF RequestType
  <2> QED
    BY <2>1, <2>2, <2>3, <2>4 DEF StatusStands
<1>3. CASE UNCHANGED <<exit, text, request>>
  BY <1>3 DEF StatusStands
<1> QED
  BY <1>1, <1>2, <1>3, NextSteps DEF vars, CancelHandlers, cancel_terminals, process

(* A command keeps its record or loses it together with its token.             *)
LEMMA StepNoUnreachable ==
    ASSUME WellFormed, NoUnreachable, [Next]_vars
    PROVE  NoUnreachable'
<1>0. /\ cmd \in [Terminal -> CommandType]
      /\ \A t \in Terminal : cmd[t].at \in Busy => t \in registry \/ Stopped(t)
      /\ \A r \in Request : Creating(r) => r \in Terminal
  BY DEF WellFormed, Types, NoUnreachable, Fresh
<1>1. ASSUME NEW r \in Request, CallbackStep(r)
      PROVE  NoUnreachable'
  <2>1. cmd' = cmd /\ session' = session
    BY <1>1, CallbackFrame
       DEF process, CallbackStep, Abort, CreateCheck, NotFound, terminal_output, WaitStart, WaitLook,
           WaitWakes, kill_terminal, release_terminal, Arrive
  <2>2. killed \subseteq killed' /\ registry \subseteq registry' \union killed'
    BY <1>1 DEF CallbackStep, Abort, CreateCheck, NotFound, terminal_output, WaitStart, WaitLook,
           WaitWakes, kill_terminal, release_terminal, Arrive
  <2> QED
    BY <1>0, <2>1, <2>2 DEF NoUnreachable, Stopped
<1>2. ASSUME NEW r \in Request, CreateInsert(r)
      PROVE  NoUnreachable'
  <2>1. \A t \in Terminal \ {r} : cmd'[t] = cmd[t]
    BY <1>0, <1>2 DEF CreateInsert
  <2>2. cmd' = cmd \/ r \in registry'
    BY <1>2 DEF CreateInsert
  <2> QED
    BY <1>0, <1>2, <2>1, <2>2 DEF CreateInsert, NoUnreachable, Stopped
<1>3. ASSUME NEW t \in Terminal, CommandStep(t)
      PROVE  NoUnreachable'
  <2>1. UNCHANGED control /\ \A u \in Terminal \ {t} : cmd'[u] = cmd[u]
    BY <1>3, CommandFrame DEF StepOf
  <2>2. cmd'[t].at \in Busy => cmd[t].at \in Busy
    BY <1>3, CommandFrame DEF StepOf
  <2> QED
    BY <1>0, <2>1, <2>2 DEF control, NoUnreachable, Stopped
<1>4. CASE CancelHandlers \/ cancel_terminals
  BY <1>0, <1>4 DEF CancelHandlers, cancel_terminals, process, NoUnreachable, Stopped
<1>5. CASE UNCHANGED vars
  BY <1>0, <1>5 DEF vars, NoUnreachable, Stopped
<1> QED
  BY <1>1, <1>2, <1>3, <1>4, <1>5, NextSteps

------------------------------------------------------------------------------
(* The theorems                                                                *)

(* The invariant holds initially.                                             *)
LEMMA InitInv == Init => Inv
<1> SUFFICES ASSUME Init PROVE Inv
  OBVIOUS
<1>1. Types
  BY BoundsAssumption, ConstantTypes
     DEF Init, Types, CommandType, NoCommand, NoStatus, Busy, Stream
<1>2. LinesBound
  BY BoundsAssumption DEF Init, LinesBound, Stream
<1>3. Fresh /\ Ended
  BY DEF Init, Fresh, Creating, Ended, NoCommand, NewRequest, NoStatus
<1>4. Limits
  <2>1. registry = {} /\ TasksRunning = {}
    BY DEF Init, TasksRunning, NewRequest, Active
  <2> QED
    BY <2>1, FS_EmptySet, BoundsAssumption DEF Limits
<1>5. StatusStands /\ NoUnreachable
  BY DEF Init, StatusStands, NoUnreachable, NewRequest, NoCommand, Busy
<1> QED
  BY <1>1, <1>2, <1>3, <1>4, <1>5 DEF Inv, WellFormed

(* The inductive invariant: types, the lines of a command, terminals without a *)
(* command, what an agent was told, and that every command can be reached      *)
(* (terminal.rs, shell/mod.rs:249-443).                                        *)
THEOREM TerminalsInvariance == Spec => []Inv
<1>1. Inv /\ [Next]_vars => Inv'
  BY StepWellFormed, StepLimits, StepStatusStands, StepNoUnreachable DEF Inv
<1> QED
  BY InitInv, <1>1, PTL DEF Spec

(* Types and limits: never more terminals than MAX_TERMINALS_PER_SESSION       *)
(* (terminal.rs:111) and never more callbacks than there are permits.          *)
THEOREM TypeCorrect == Spec => []TypeOK
<1>1. Inv => TypeOK
  BY DEF Inv, WellFormed, Types, Limits, TypeOK, CommandType, RequestType
<1> QED
  BY TerminalsInvariance, <1>1, PTL

(* An exit status comes with all the output: the readers end before the status *)
(* is known (shell/mod.rs:394-395), and nothing is written after it.           *)
THEOREM OutputComplete == Spec => []FinalOutput
<1>1. Inv => FinalOutput
  BY DEF Inv, StatusStands, FinalOutput
<1> QED
  BY TerminalsInvariance, <1>1, PTL

(* No command is out of reach: a record leaves the registry only with its      *)
(* token cancelled (terminal.rs:207-219, 240-247), and a record inserted while *)
(* the session closes has a token that is cancelled already.                   *)
THEOREM AllReachable == Spec => []NoUnreachable
<1>1. Inv => NoUnreachable
  BY DEF Inv
<1> QED
  BY TerminalsInvariance, <1>1, PTL

------------------------------------------------------------------------------
(* Host.  The inductive invariant is what the commands of a host keep as long  *)
(* as they do not overlap each other, a start or an end.                       *)

Steps == {"unused", "loaded", "checked", "probed", "built", "bound",
          "serving", "stopping", "closed", "gone"}
HostCommandType == [kind : {"none", "add", "remove", "stop"},
                pc : {"free", "loaded", "saved", "request", "wait", "exited"},
                ws : Ws \union {None}, read : SUBSET Ws, pid : Pid \union {None}]

(* Which steps a command of each kind goes through.                            *)
PlaceOfKind(r) ==
    /\ r.pc = "free" <=> r.kind = "none"
    /\ r.kind \in {"add", "remove"} => r.pc \in {"loaded", "saved", "request"} /\ r.ws \in Ws
    /\ r.kind = "stop" => r.pc \in {"wait", "exited"} /\ r.pid \in Pid

HostTypes ==
    /\ file \in SUBSET Ws /\ promised \in SUBSET Ws
    /\ pidFile \in Pid \union {None} /\ port \in Pid \union {None}
    /\ proc \in [Pid -> Steps] /\ memory \in [Pid -> SUBSET Ws] /\ signalled \in SUBSET Pid
    /\ cmds \in [Command -> HostCommandType] /\ \A c \in Command : PlaceOfKind(cmds[c])
    /\ allowRemote \in BOOLEAN /\ overlap \in BOOLEAN

(* A daemon has the port from bind until its connections are gone; one that    *)
(* ends in order was told to, and one that was told to had started.            *)
PortIsHeld == \A p \in Pid : proc[p] \in {"bound", "serving", "stopping"} <=> port = p
EndsAreTold ==
    \A p \in Pid : /\ proc[p] \in {"stopping", "closed"} => p \in signalled
                   /\ p \in signalled => proc[p] # "unused"

Sound == HostTypes /\ PortIsHeld /\ EndsAreTold

------------------------------------------------------------------------------
(* What is more as long as nothing overlaps                                    *)

(* One command, or one start, at a time, and no end beside a start or a folder *)
(* command.                                                                    *)
Alone ==
    /\ \A c, d \in BusyCommands : c = d
    /\ \A p, q \in Starting : p = q
    /\ Starting # {} => BusyCommands = {} /\ Ending = {}
    /\ (\E c \in BusyCommands : cmds[c].kind \in {"add", "remove"}) => Ending = {}

(* Past the look at the PID file nobody else serves, and nobody does before a  *)
(* daemon that gave up its port has removed the file.                          *)
OneServes ==
    /\ (\E p \in Starting : proc[p] # "loaded") => Serving = {}
    /\ (\E p \in Pid : proc[p] = "closed") => Serving = {}

(* A stop has signalled the daemon that serves.                                *)
StopsServer ==
    \A c \in Command : /\ AtStep(c, "stop", "wait") => Serving \subseteq {cmds[c].pid}
                       /\ AtStep(c, "stop", "exited") => Serving = {}

Folders == {c \in BusyCommands : cmds[c].kind \in {"add", "remove"}}

(* Daemons whose configuration may still be written.                           *)
Writing == {p \in Starting : proc[p] # "loaded" \/ Serving = {}} \union Serving

(* What is promised is in the memory of such a daemon, and where devices may   *)
(* register folders the file has nothing else.                                 *)
MemoryKeeps ==
    /\ \A p \in Writing : promised \subseteq memory[p]
    /\ \A p \in Pid : proc[p] = "stopping" => promised \subseteq memory[p]
MemoryFollows ==
    allowRemote /\ Folders = {} => \A p \in Writing : file \subseteq memory[p]

(* What is promised is in the file; while a folder command is under way it may *)
(* be in the memory of the daemon only, whose answer to the request of the     *)
(* command writes it.                                                          *)
Mends == allowRemote /\ Serving # {}
FileKeeps == Folders = {} => promised \subseteq file
CommandKeeps ==
    \A c \in Folders :
       /\ Mends \/ promised \subseteq file
       /\ cmds[c].pc = "loaded" => Mends \/ promised \subseteq cmds[c].read
       /\ cmds[c].kind = "remove" => cmds[c].ws \notin promised
       /\ cmds[c].kind = "remove" /\ allowRemote => \A p \in Serving : cmds[c].ws \in memory[p]
       /\ AtStep(c, "add", "saved") => Serving # {} \/ cmds[c].ws \in file
       /\ cmds[c].pc = "request" => Serving # {}

Turns == Alone /\ OneServes /\ PidNamesServer /\ StopsServer
Contents == MemoryKeeps /\ MemoryFollows /\ FileKeeps /\ CommandKeeps
HostInv == Sound /\ (~overlap => Turns /\ Contents)

------------------------------------------------------------------------------
(* Operators                                                                   *)

LEMMA NoCmdIs == /\ NoCmd \in HostCommandType /\ NoCmd.kind = "none" /\ NoCmd.pc = "free"
                 /\ PlaceOfKind(NoCmd)
BY DEF NoCmd, HostCommandType, PlaceOfKind, None

LEMMA SetMakes ==
    ASSUME HostTypes, NEW c \in Command, NEW r \in HostCommandType, PlaceOfKind(r), Set(c, r)
    PROVE  /\ cmds' \in [Command -> HostCommandType] /\ \A d \in Command : PlaceOfKind(cmds'[d])
           /\ cmds'[c] = r /\ \A d \in Command \ {c} : cmds'[d] = cmds[d]
BY DEF HostTypes, Set

LEMMA GotoMoves ==
    ASSUME HostTypes, NEW p \in Pid, NEW s \in Steps, Becomes(p, s)
    PROVE  /\ proc' \in [Pid -> Steps]
           /\ proc'[p] = s /\ \A q \in Pid \ {p} : proc'[q] = proc[q]
BY DEF HostTypes, Becomes

------------------------------------------------------------------------------
(* The layers that hold whatever overlaps                                      *)

\* How each action moves a daemon.
LEMMA DaemonsMove ==
    ASSUME Sound, [HostNext]_hostVars
    PROVE  /\ proc' \in [Pid -> Steps] /\ port' \in Pid \union {None}
           /\ PortIsHeld' /\ EndsAreTold'
           /\ signalled' \in SUBSET Pid
<1> USE DEF Sound, HostTypes, Steps
<1>1. ASSUME NEW p \in Pid, start(p) \/ check_status(p) \/ is_port_listening(p) \/ new(p)
      PROVE  /\ \E s \in {"loaded", "checked", "probed", "built", "gone"} : Becomes(p, s)
             /\ proc[p] \in {"unused", "loaded", "checked", "probed"}
             /\ UNCHANGED <<port, signalled>>
  BY <1>1 DEF start, check_status, is_port_listening, new
<1>2. ASSUME NEW p \in Pid, start(p) \/ check_status(p) \/ is_port_listening(p) \/ new(p) PROVE
      PortIsHeld' /\ EndsAreTold' /\ proc' \in [Pid -> Steps]
  BY <1>1, <1>2 DEF Becomes, PortIsHeld, EndsAreTold
<1>3. ASSUME NEW p \in Pid, bind(p) \/ write_pid(p) \/ write_pid_fails(p) \/ serve_cancelled(p)
                            \/ drain_connections(p) \/ remove_pid(p) \/ dies(p)
      PROVE  /\ signalled' = signalled /\ proc' \in [Pid -> Steps] /\ port' \in Pid \union {None}
             /\ PortIsHeld' /\ EndsAreTold'
  <2>1. CASE bind(p)
    BY <2>1, NoneAssumption DEF bind, Becomes, PortIsHeld, EndsAreTold
  <2>2. CASE write_pid(p)
    BY <2>2 DEF write_pid, Becomes, PortIsHeld, EndsAreTold
  <2>3. CASE write_pid_fails(p)
    BY <2>3, NoneAssumption DEF write_pid_fails, Becomes, PortIsHeld, EndsAreTold
  <2>4. CASE serve_cancelled(p)
    BY <2>4 DEF serve_cancelled, Becomes, PortIsHeld, EndsAreTold
  <2>5. CASE drain_connections(p)
    BY <2>5, NoneAssumption DEF drain_connections, Becomes, PortIsHeld, EndsAreTold
  <2>6. CASE remove_pid(p)
    BY <2>6 DEF remove_pid, Becomes, PortIsHeld, EndsAreTold
  <2>7. CASE dies(p)
    BY <2>7, NoneAssumption DEF dies, Becomes, PortIsHeld, EndsAreTold
  <2> QED
    BY <1>3, <2>1, <2>2, <2>3, <2>4, <2>5, <2>6, <2>7
<1>4. ASSUME \/ \E p \in Pid : save(p)
             \/ \E c \in Command : \/ folder_command(c) \/ save_file(c) \/ check_daemon(c)
                                   \/ register_request(c) \/ remove_request(c) \/ stop_waits(c)
                                   \/ stop_gives_up(c) \/ stop_removes_pid(c)
             \/ \E w \in Ws : remote_registration(w)
             \/ UNCHANGED hostVars
      PROVE  UNCHANGED <<proc, port, signalled>>
  BY <1>4 DEF save, folder_command, save_file, check_daemon, register_request, remove_request,
              stop_waits, stop_gives_up, stop_removes_pid, remote_registration, daemons, hostVars
<1>5. ASSUME NEW c \in Command, stop(c)
      PROVE  /\ UNCHANGED <<proc, port>> /\ signalled' \in SUBSET Pid
             /\ \/ signalled' = signalled
                \/ \E t \in Pid : proc[t] # "unused" /\ signalled' = signalled \union {t}
  BY <1>5 DEF stop, IsRunning, find_pid_listening_on, PortIsHeld
<1>6. UNCHANGED <<proc, port>> => PortIsHeld'
  BY DEF PortIsHeld
<1>7. /\ UNCHANGED <<proc, signalled>> => EndsAreTold'
      /\ \A c \in Command : stop(c) => EndsAreTold'
  BY <1>5 DEF EndsAreTold
<1> QED
  BY <1>1, <1>2, <1>3, <1>4, <1>5, <1>6, <1>7 DEF HostNext

LEMMA CommandsMove ==
    ASSUME Sound, [HostNext]_hostVars
    PROVE  cmds' \in [Command -> HostCommandType] /\ \A c \in Command : PlaceOfKind(cmds'[c])
<1> USE DEF Sound
<1>1. ASSUME NEW c \in Command, folder_command(c)
      PROVE  \E r \in HostCommandType : PlaceOfKind(r) /\ Set(c, r)
  <2>1. PICK kind \in {"add", "remove"}, w \in Ws :
           Set(c, [NoCmd EXCEPT !.kind = kind, !.pc = "loaded", !.ws = w, !.read = file])
    BY <1>1 DEF folder_command
  <2> DEFINE r == [NoCmd EXCEPT !.kind = kind, !.pc = "loaded", !.ws = w, !.read = file]
  <2>2. r \in HostCommandType /\ PlaceOfKind(r)
    BY DEF NoCmd, HostCommandType, PlaceOfKind, HostTypes
  <2> QED
    BY <2>1, <2>2
<1>2. ASSUME NEW c \in Command, save_file(c)
      PROVE  \E r \in HostCommandType : PlaceOfKind(r) /\ Set(c, r)
  <2>1. /\ [cmds[c] EXCEPT !.pc = "saved"] \in HostCommandType
        /\ PlaceOfKind([cmds[c] EXCEPT !.pc = "saved"])
    BY <1>2 DEF save_file, HostCommandType, PlaceOfKind, HostTypes
  <2> QED
    BY <1>2, <2>1 DEF save_file
<1>3. ASSUME NEW c \in Command, check_daemon(c)
      PROVE  \E r \in HostCommandType : PlaceOfKind(r) /\ Set(c, r)
  <2>1. /\ [cmds[c] EXCEPT !.pc = "request"] \in HostCommandType
        /\ PlaceOfKind([cmds[c] EXCEPT !.pc = "request"])
    BY <1>3 DEF check_daemon, HostCommandType, PlaceOfKind, HostTypes
  <2> QED
    BY <1>3, <2>1, NoCmdIs DEF check_daemon, End
<1>4. ASSUME NEW c \in Command, \/ register_request(c) \/ remove_request(c)
                                \/ stop_gives_up(c) \/ stop_removes_pid(c)
      PROVE  \E r \in HostCommandType : PlaceOfKind(r) /\ Set(c, r)
  BY <1>4, NoCmdIs DEF register_request, remove_request, stop_gives_up, stop_removes_pid, End
<1>5. ASSUME NEW c \in Command, stop_waits(c)
      PROVE  \E r \in HostCommandType : PlaceOfKind(r) /\ Set(c, r)
  <2>1. /\ [cmds[c] EXCEPT !.pc = "exited"] \in HostCommandType
        /\ PlaceOfKind([cmds[c] EXCEPT !.pc = "exited"])
    BY <1>5 DEF stop_waits, AtStep, HostCommandType, PlaceOfKind, HostTypes
  <2> QED
    BY <1>5, <2>1 DEF stop_waits
<1>6. ASSUME NEW c \in Command, stop(c)
      PROVE  cmds' = cmds \/ \E r \in HostCommandType : PlaceOfKind(r) /\ Set(c, r)
  <2> DEFINE r(p) == [NoCmd EXCEPT !.kind = "stop", !.pc = "wait", !.pid = p]
  <2>1. ASSUME NEW p \in Pid PROVE r(p) \in HostCommandType /\ PlaceOfKind(r(p))
    BY DEF NoCmd, HostCommandType, PlaceOfKind
  <2>2. cmds' = cmds \/ \E p \in Pid : Set(c, r(p))
    BY <1>6 DEF stop, IsRunning, find_pid_listening_on, HostTypes
  <2> QED
    BY <2>1, <2>2
<1>7. ASSUME \/ \E p \in Pid : \/ start(p) \/ check_status(p) \/ is_port_listening(p) \/ new(p)
                               \/ bind(p) \/ write_pid(p) \/ write_pid_fails(p) \/ save(p)
                               \/ serve_cancelled(p) \/ drain_connections(p) \/ remove_pid(p) \/ dies(p)
             \/ \E w \in Ws : remote_registration(w)
             \/ UNCHANGED hostVars
      PROVE  cmds' = cmds
  BY <1>7 DEF start, check_status, is_port_listening, new, bind, write_pid, write_pid_fails, save,
              serve_cancelled, drain_connections, remove_pid, dies, remote_registration, hostVars
<1>8. ASSUME NEW c \in Command, NEW r \in HostCommandType, PlaceOfKind(r), Set(c, r)
      PROVE  cmds' \in [Command -> HostCommandType] /\ \A d \in Command : PlaceOfKind(cmds'[d])
  BY <1>8, SetMakes
<1>9. cmds' = cmds \/ \E c \in Command, r \in HostCommandType : PlaceOfKind(r) /\ Set(c, r)
  BY <1>1, <1>2, <1>3, <1>4, <1>5, <1>6, <1>7 DEF HostNext
<1> QED
  BY <1>8, <1>9 DEF HostTypes

LEMMA SoundStep ==
    ASSUME Sound, [HostNext]_hostVars
    PROVE  Sound'
<1>1. /\ file' \in SUBSET Ws /\ memory' \in [Pid -> SUBSET Ws]
      /\ pidFile' \in Pid \union {None} /\ promised' \in SUBSET Ws
  <2> DEFINE DataTypes == /\ file \in SUBSET Ws /\ memory \in [Pid -> SUBSET Ws]
                          /\ pidFile \in Pid \union {None} /\ promised \in SUBSET Ws
  <2> USE DEF Sound, HostTypes
  <2>1. ASSUME NEW p \in Pid, \/ start(p) \/ check_status(p) \/ is_port_listening(p) \/ new(p)
                              \/ bind(p) \/ write_pid(p) \/ write_pid_fails(p) \/ save(p)
                              \/ serve_cancelled(p) \/ drain_connections(p) \/ remove_pid(p) \/ dies(p)
        PROVE  DataTypes'
    <3>1. CASE start(p) \/ new(p) \/ save(p)
      BY <3>1 DEF start, new, save, daemons
    <3> QED
      BY <2>1, <3>1 DEF check_status, AfterRead, is_port_listening, bind, write_pid, write_pid_fails,
                        serve_cancelled, drain_connections, remove_pid, dies
  <2>2. ASSUME NEW c \in Command, folder_command(c) \/ save_file(c) \/ check_daemon(c)
        PROVE  DataTypes'
    <3>1. Edited(cmds[c]) \in SUBSET Ws \/ cmds[c].kind = "none" \/ cmds[c].kind = "stop"
      BY DEF Edited, HostCommandType, PlaceOfKind
    <3>2. cmds[c].kind = "add" => cmds[c].ws \in Ws
      BY DEF PlaceOfKind
    <3> QED
      BY <2>2, <3>1, <3>2 DEF folder_command, save_file, check_daemon, AfterRead, daemons
  <2>3. ASSUME NEW c \in Command, register_request(c) \/ remove_request(c)
        PROVE  DataTypes'
    <3>1. cmds[c].ws \in Ws
      BY <2>3 DEF register_request, remove_request, AtStep, PlaceOfKind
    <3> QED
      BY <2>3, <3>1 DEF register_request, remove_request, Serving
  <2>4. ASSUME NEW c \in Command, stop(c) \/ stop_waits(c) \/ stop_gives_up(c) \/ stop_removes_pid(c)
        PROVE  DataTypes'
    BY <2>4 DEF stop, AfterRead, stop_waits, stop_gives_up, stop_removes_pid, daemons
  <2>5. ASSUME NEW w \in Ws, remote_registration(w)
        PROVE  DataTypes'
    BY <2>5 DEF remote_registration, Serving
  <2>6. UNCHANGED hostVars => DataTypes'
    BY DEF hostVars
  <2> QED
    BY <2>1, <2>2, <2>3, <2>4, <2>5, <2>6 DEF HostNext
<1>2. overlap' \in BOOLEAN /\ allowRemote' = allowRemote
  <2>1. /\ overlap' = overlap \/ (\E p \in Pid : Ends(p)) \/ Begins
        /\ allowRemote' = allowRemote
    BY DEF HostNext, start, check_status, is_port_listening, new, bind, write_pid, write_pid_fails, save,
           serve_cancelled, drain_connections, remove_pid, dies, remote_registration, hostVars,
           folder_command, save_file, check_daemon, register_request, remove_request, stop,
           stop_waits, stop_gives_up, stop_removes_pid
  <2> QED
    BY <2>1 DEF Ends, Begins, Sound, HostTypes
<1> QED
  BY <1>1, <1>2, DaemonsMove, CommandsMove DEF Sound, HostTypes

------------------------------------------------------------------------------
(* One at a time                                                               *)

LEMMA FirstOne ==
    ASSUME Begins, ~overlap'
    PROVE  BusyCommands = {} /\ Starting = {} /\ Ending = {}
BY DEF Begins

\* A command takes its next step, or ends.
LEMMA CommandGoesOn ==
    ASSUME Sound, NEW c \in Command,
           \/ save_file(c) \/ check_daemon(c) \/ register_request(c) \/ remove_request(c)
           \/ stop_waits(c) \/ stop_gives_up(c) \/ stop_removes_pid(c)
    PROVE  /\ UNCHANGED <<proc, signalled, port, overlap>>
           /\ \A d \in Command \ {c} : cmds'[d] = cmds[d]
           /\ \/ cmds'[c] = NoCmd
              \/ /\ cmds'[c].pc \in {"saved", "request", "exited"} /\ cmds'[c].kind = cmds[c].kind
                 /\ cmds'[c].ws = cmds[c].ws /\ cmds'[c].read = cmds[c].read /\ cmds'[c].pid = cmds[c].pid
           /\ c \in BusyCommands /\ BusyCommands' \subseteq BusyCommands
BY NoCmdIs DEF save_file, check_daemon, register_request, remove_request, stop_waits, stop_gives_up,
               stop_removes_pid, Sound, HostTypes, HostCommandType, PlaceOfKind, Set, End, AtStep, BusyCommands, daemons

LEMMA TurnsStep ==
    ASSUME Sound, [HostNext]_hostVars, ~overlap, Turns, ~overlap'
    PROVE  Turns'
<1> USE NoneAssumption DEF Sound, HostTypes, Steps
<1>1. ASSUME NEW p \in Pid, start(p) PROVE Turns'
  <2>1. /\ BusyCommands' = {} /\ Starting' = {p} /\ Serving' = Serving /\ pidFile' = pidFile
        /\ BusyCommands = {} /\ Ending' = {}
    BY <1>1, FirstOne DEF start, Becomes, BusyCommands, Starting, Serving, Ending, IsRunning, EndsAreTold
  <2>2. proc[p] = "unused" /\ Becomes(p, "loaded") /\ cmds' = cmds
    BY <1>1 DEF start
  <2> QED
    BY <2>1, <2>2 DEF Turns, Alone, OneServes, PidNamesServer, StopsServer, AtStep, Becomes, BusyCommands
<1>2. ASSUME NEW p \in Pid, check_status(p) \/ is_port_listening(p) \/ new(p) \/ bind(p) \/ write_pid(p)
      PROVE  Turns'
  <2>1. /\ cmds' = cmds /\ signalled' = signalled /\ BusyCommands' = BusyCommands
        /\ p \in Starting /\ Starting' \subseteq Starting /\ Ending' \subseteq Ending
        /\ \A q \in Pid \ {p} : proc'[q] = proc[q]
    BY <1>2 DEF check_status, is_port_listening, new, bind, write_pid, Becomes, Starting, Ending, IsRunning, BusyCommands
  <2>2. Alone'
    BY <2>1 DEF Turns, Alone
  <2>3. OneServes' /\ PidNamesServer'
    BY <1>2 DEF check_status, is_port_listening, new, bind, write_pid, Becomes, Turns, OneServes, Alone,
                PidNamesServer, Starting, Serving, Ending, IsRunning, AfterRead, PortIsHeld
  <2>4. StopsServer'
    BY <2>1 DEF Turns, Alone, StopsServer, AtStep, BusyCommands
  <2> QED
    BY <2>2, <2>3, <2>4 DEF Turns
<1>3. ASSUME NEW p \in Pid, \/ write_pid_fails(p) \/ serve_cancelled(p) \/ drain_connections(p)
                            \/ remove_pid(p) \/ dies(p)
      PROVE  Turns'
  <2>1. /\ cmds' = cmds /\ signalled' = signalled /\ BusyCommands' = BusyCommands
        /\ Starting' \subseteq Starting /\ Ending' \subseteq Ending /\ Serving' \subseteq Serving
        /\ \A q \in Pid \ {p} : proc'[q] = proc[q]
    BY <1>3 DEF write_pid_fails, serve_cancelled, drain_connections, remove_pid, dies, Becomes, Starting,
                Ending, IsRunning, Serving, BusyCommands
  <2>2. Alone' /\ StopsServer'
    BY <2>1 DEF Turns, Alone, StopsServer, AtStep, BusyCommands
  <2>3. OneServes'
    BY <1>3, <2>1 DEF write_pid_fails, serve_cancelled, drain_connections, remove_pid, dies, Becomes,
                      Turns, OneServes, Starting, Serving, PortIsHeld
  <2>4. PidNamesServer'
    BY <1>3, <2>1 DEF write_pid_fails, serve_cancelled, drain_connections, remove_pid, dies,
                      Turns, OneServes, PidNamesServer
  <2> QED
    BY <2>2, <2>3, <2>4 DEF Turns
<1>4. ASSUME (\E p \in Pid : save(p)) \/ (\E w \in Ws : remote_registration(w)) \/ UNCHANGED hostVars
      PROVE  Turns'
  <2>1. UNCHANGED <<proc, pidFile, signalled, cmds, overlap>>
    BY <1>4 DEF save, remote_registration, daemons, hostVars
  <2> QED
    BY <2>1 DEF Turns, Alone, OneServes, PidNamesServer, StopsServer, AtStep, Starting, Serving, Ending,
                IsRunning, BusyCommands
<1>5. ASSUME NEW c \in Command, folder_command(c) PROVE Turns'
  <2>1. /\ UNCHANGED <<proc, pidFile, signalled, port>>
        /\ BusyCommands = {} /\ Starting = {} /\ Ending = {}
    BY <1>5, FirstOne DEF folder_command, daemons
  <2>2. Starting' = {} /\ Ending' = {} /\ Serving' = Serving
    BY <2>1 DEF Starting, Ending, Serving, IsRunning
  <2>3. /\ \A d \in Command \ {c} : cmds'[d] = cmds[d]
        /\ cmds'[c].kind \in {"add", "remove"}
    BY <1>5 DEF folder_command, Set, NoCmd, HostCommandType
  <2>4. BusyCommands' \subseteq {c}
    BY <2>1, <2>3 DEF BusyCommands
  <2>5. Alone' /\ StopsServer'
    BY <2>1, <2>2, <2>3, <2>4 DEF Alone, StopsServer, AtStep, BusyCommands, Turns
  <2> QED
    BY <2>1, <2>2, <2>5 DEF Turns, OneServes, PidNamesServer
<1>6. ASSUME NEW c \in Command,
             \/ save_file(c) \/ check_daemon(c) \/ register_request(c) \/ remove_request(c)
             \/ stop_waits(c) \/ stop_gives_up(c) \/ stop_removes_pid(c)
      PROVE  Turns'
  <2>1. /\ UNCHANGED <<proc, signalled, port>> /\ c \in BusyCommands /\ BusyCommands' \subseteq BusyCommands
        /\ Starting' = Starting /\ Ending' = Ending /\ Serving' = Serving
    BY <1>6, CommandGoesOn DEF Starting, Ending, Serving, IsRunning
  <2>2. \A d \in BusyCommands' : cmds'[d].kind = cmds[d].kind /\ cmds'[d].pid = cmds[d].pid
    BY <1>6, CommandGoesOn, NoCmdIs DEF BusyCommands, HostCommandType
  <2>3. Alone' /\ OneServes'
    BY <2>1, <2>2 DEF Turns, Alone, OneServes
  <2>4. PidNamesServer'
    BY <1>6, <2>1 DEF save_file, check_daemon, register_request, remove_request, stop_waits,
                      stop_gives_up, stop_removes_pid, AtStep, AfterRead, Turns, PidNamesServer, StopsServer,
                      Serving, IsRunning
  <2>5. StopsServer'
    <3>1. ASSUME NEW d \in Command, AtStep(d, "stop", "wait")' PROVE Serving \subseteq {cmds'[d].pid}
      <4>1. d # c
        BY <1>6, <3>1, CommandGoesOn, NoCmdIs DEF AtStep
      <4> QED
        BY <1>6, <3>1, <4>1, CommandGoesOn DEF AtStep, Turns, StopsServer
    <3>2. ASSUME NEW d \in Command, AtStep(d, "stop", "exited")' PROVE Serving = {}
      <4>1. CASE d # c
        BY <1>6, <3>2, <4>1, CommandGoesOn DEF AtStep, Turns, StopsServer
      <4>2. CASE d = c
        <5>1. stop_waits(c)
          BY <1>6, <3>2, <4>2, NoCmdIs DEF save_file, check_daemon, register_request, remove_request,
                stop_gives_up, stop_removes_pid, AtStep, Set, End, HostCommandType, PlaceOfKind
        <5> QED
          BY <5>1 DEF stop_waits, AtStep, IsRunning, Serving, Turns, StopsServer, PlaceOfKind
      <4> QED
        BY <4>1, <4>2
    <3> QED
      BY <2>1, <3>1, <3>2 DEF StopsServer
  <2> QED
    BY <2>3, <2>4, <2>5 DEF Turns
<1>7. ASSUME NEW c \in Command, stop(c) PROVE Turns'
  <2>1. /\ UNCHANGED <<proc, port>> /\ signalled' \in SUBSET Pid
        /\ BusyCommands = {} /\ Starting = {} /\ Ending = {}
        /\ Starting' = {} /\ Serving' = Serving
    BY <1>7, FirstOne DEF stop, Starting, Serving, IsRunning, find_pid_listening_on
  <2>2. pidFile' = AfterRead
    BY <1>7 DEF stop
  <2>3. CASE cmds' = cmds
    <3>1. BusyCommands' = {}
      BY <2>1, <2>3 DEF BusyCommands
    <3> QED
      BY <2>1, <2>2, <3>1 DEF Turns, Alone, OneServes, PidNamesServer, StopsServer, AtStep, AfterRead,
                              Serving, IsRunning, BusyCommands
  <2>4. CASE cmds' # cmds
    <3> DEFINE target == IF IsRunning(pidFile) THEN pidFile ELSE port
    <3>1. /\ target \in Pid
          /\ Set(c, [NoCmd EXCEPT !.kind = "stop", !.pc = "wait", !.pid = target])
      BY <1>7, <2>4 DEF stop, IsRunning, find_pid_listening_on
    <3>2. /\ \A d \in Command \ {c} : cmds'[d] = cmds[d]
          /\ cmds'[c].kind = "stop" /\ cmds'[c].pc = "wait" /\ cmds'[c].pid = target
      BY <3>1 DEF Set, NoCmd
    <3>3. Serving \subseteq {target}
      BY <2>1 DEF Turns, PidNamesServer, Serving, IsRunning, PortIsHeld
    <3>4. BusyCommands' = {c}
      BY <2>1, <3>2 DEF BusyCommands
    <3>5. Alone' /\ StopsServer'
      BY <2>1, <3>2, <3>3, <3>4 DEF Alone, StopsServer, AtStep, BusyCommands
    <3> QED
      BY <2>1, <2>2, <3>5 DEF Turns, OneServes, PidNamesServer, AfterRead, Serving, IsRunning
  <2> QED
    BY <2>3, <2>4
<1> QED
  BY <1>1, <1>2, <1>3, <1>4, <1>5, <1>6, <1>7 DEF HostNext

------------------------------------------------------------------------------
(* What memory, file and commands hold                                         *)

\* A step that leaves the contents alone, beside no folder command.
LEMMA ContentsRest ==
    ASSUME UNCHANGED <<file, memory, promised, allowRemote>>, Contents,
           Folders = {}, Folders' = {}, Writing' \subseteq Writing,
           \A p \in Pid : proc'[p] = "stopping" => p \in Writing \/ proc[p] = "stopping"
    PROVE  Contents'
BY DEF Contents, MemoryKeeps, MemoryFollows, FileKeeps, CommandKeeps

LEMMA ContentsStep ==
    ASSUME Sound, [HostNext]_hostVars, ~overlap, Turns, Contents, ~overlap', Turns'
    PROVE  Contents'
<1> USE NoneAssumption DEF Sound, HostTypes, Steps
<1>1. ASSUME NEW p \in Pid, start(p) PROVE Contents'
  <2>1. /\ Folders = {} /\ Folders' = {} /\ Starting' = {p} /\ Serving' = Serving
        /\ \A q \in Pid : proc'[q] # "stopping"
    BY <1>1, FirstOne DEF start, Becomes, Folders, BusyCommands, Starting, Serving, Ending, IsRunning
  <2>2. /\ memory'[p] = file /\ \A q \in Pid \ {p} : memory'[q] = memory[q]
        /\ UNCHANGED <<file, promised, allowRemote>> /\ proc'[p] = "loaded"
        /\ p \notin Serving
    BY <1>1 DEF start, Becomes, Serving
  <2>3. Writing' \subseteq {p} \union Serving /\ Serving \subseteq Writing
    BY <2>1 DEF Writing
  <2>4. MemoryKeeps' /\ MemoryFollows'
    <3>1. \A q \in {p} \union Serving :
             /\ promised \subseteq memory'[q]
             /\ allowRemote => file \subseteq memory'[q]
      BY <2>1, <2>2, <2>3 DEF Contents, MemoryKeeps, MemoryFollows, FileKeeps, Serving
    <3> QED
      BY <2>1, <2>2, <2>3, <3>1 DEF MemoryKeeps, MemoryFollows
  <2> QED
    BY <2>1, <2>2, <2>4 DEF Contents, FileKeeps, CommandKeeps
<1>2. ASSUME NEW p \in Pid, check_status(p) \/ is_port_listening(p) \/ bind(p) \/ write_pid(p)
      PROVE  Contents'
  <2>1. /\ UNCHANGED <<file, memory, promised, allowRemote, cmds>>
        /\ p \in Starting /\ \A q \in Pid \ {p} : proc'[q] = proc[q]
        /\ proc'[p] # "stopping"
    BY <1>2 DEF check_status, is_port_listening, bind, write_pid, Becomes, Starting
  <2>2. Folders = {} /\ Folders' = {}
    BY <2>1 DEF Turns, Alone, Folders, BusyCommands
  <2>3. Writing' \subseteq Writing
    <3>1. CASE check_status(p)
      BY <3>1 DEF check_status, Becomes, Turns, PidNamesServer, Writing, Starting, Serving, IsRunning
    <3>2. CASE is_port_listening(p) \/ bind(p) \/ write_pid(p)
      BY <3>2 DEF is_port_listening, bind, write_pid, Becomes, Turns, Alone, Writing, Starting, Serving
    <3> QED
      BY <1>2, <3>1, <3>2
  <2> QED
    BY <2>1, <2>2, <2>3, ContentsRest
<1>3. ASSUME NEW p \in Pid, new(p) PROVE Contents'
  <2>1. /\ UNCHANGED <<memory, promised, allowRemote, cmds>> /\ file' \in {file, memory[p]}
        /\ p \in Starting /\ p \in Writing /\ proc'[p] = "built"
        /\ \A q \in Pid \ {p} : proc'[q] = proc[q]
    BY <1>3 DEF new, Becomes, Starting, Writing
  <2>2. Folders = {} /\ Folders' = {} /\ Serving = {} /\ Starting = {p}
    BY <1>3, <2>1 DEF new, Turns, Alone, OneServes, Folders, BusyCommands
  <2>3. Writing' \subseteq {p}
    BY <2>1, <2>2 DEF Writing, Starting, Serving
  <2> QED
    BY <2>1, <2>2, <2>3 DEF Contents, MemoryKeeps, MemoryFollows, FileKeeps, CommandKeeps
<1>4. ASSUME NEW p \in Pid, \/ write_pid_fails(p) \/ serve_cancelled(p) \/ drain_connections(p)
                            \/ remove_pid(p) \/ dies(p)
      PROVE  Contents'
  <2>1. /\ UNCHANGED <<file, memory, promised, allowRemote, cmds>>
        /\ \A q \in Pid \ {p} : proc'[q] = proc[q]
        /\ proc'[p] = "stopping" => p \in Serving
        /\ proc'[p] \in {"stopping", "closed", "gone"}
    BY <1>4 DEF write_pid_fails, serve_cancelled, drain_connections, remove_pid, dies, Becomes, Serving
  <2>2. Ends(p) \/ (proc[p] \in {"stopping", "closed"} /\ p \in Ending)
    BY <1>4 DEF write_pid_fails, serve_cancelled, drain_connections, remove_pid, dies, Ending
  <2>3. Folders = {} /\ Starting \ {p} = {}
    BY <2>2 DEF Ends, Folders, Turns, Alone
  <2>4. Folders' = {} /\ Writing' \subseteq Writing
    BY <2>1, <2>3 DEF Folders, BusyCommands, Writing, Starting, Serving
  <2> QED
    BY <2>1, <2>3, <2>4, ContentsRest DEF Writing
<1>5. ASSUME NEW p \in Pid, save(p) PROVE Contents'
  <2>1. /\ UNCHANGED <<proc, signalled, memory, promised, allowRemote, cmds>> /\ file' = memory[p]
        /\ p \in Serving \/ (p \in Ending /\ proc[p] = "stopping")
    BY <1>5 DEF save, daemons, Serving, Ending
  <2>2. /\ Folders' = Folders /\ Serving' = Serving /\ Writing' = Writing
        /\ Folders # {} => Serving # {}
    BY <2>1 DEF Folders, BusyCommands, Serving, Starting, Writing, Turns, Alone
  <2>3. promised \subseteq file'
    BY <2>1 DEF Contents, MemoryKeeps, Writing
  <2>4. MemoryKeeps' /\ FileKeeps' /\ CommandKeeps'
    BY <2>1, <2>2, <2>3 DEF Contents, MemoryKeeps, FileKeeps, CommandKeeps, Mends, AtStep
  <2>5. \A q \in Writing : q = p \/ proc[p] = "stopping"
    BY <2>1 DEF Writing, Serving, Starting, PortIsHeld, Turns, OneServes
  <2>6. proc[p] = "stopping" => Writing = {}
    BY <2>1 DEF Writing, Serving, Starting, PortIsHeld, Turns, Alone
  <2> QED
    BY <2>1, <2>2, <2>4, <2>5, <2>6 DEF Contents, MemoryFollows
<1>6. ASSUME NEW w \in Ws, remote_registration(w) PROVE Contents'
  <2>1. PICK p \in Serving : memory' = [memory EXCEPT ![p] = @ \union {w}] /\ file' = memory'[p]
    BY <1>6 DEF remote_registration
  <2>2. /\ UNCHANGED <<proc, cmds, allowRemote>> /\ allowRemote /\ promised' = promised \union {w}
        /\ \A c \in BusyCommands : cmds[c].kind = "remove" => cmds[c].ws # w
    BY <1>6 DEF remote_registration
  <2>3. file' = memory[p] \union {w} /\ \A q \in Pid \ {p} : memory'[q] = memory[q]
    BY <2>1 DEF Serving
  <2>4. Folders' = Folders /\ Serving' = Serving /\ Writing' = Writing /\ Writing = {p}
    BY <2>2 DEF Folders, BusyCommands, Serving, Starting, Writing, PortIsHeld, Turns, OneServes
  <2>5. promised' \subseteq file'
    BY <2>2, <2>3 DEF Contents, MemoryKeeps, Writing
  <2>6. \A q \in Pid : proc[q] # "stopping"
    BY <2>1 DEF PortIsHeld, Serving
  <2>7. MemoryKeeps' /\ MemoryFollows' /\ FileKeeps'
    BY <2>1, <2>2, <2>4, <2>5, <2>6 DEF MemoryKeeps, MemoryFollows, FileKeeps
  <2>8. CommandKeeps'
    <3>1. Mends' /\ \A c \in Folders : c \in BusyCommands
      BY <2>1, <2>2, <2>4 DEF Mends, Folders
    <3>2. \A q \in Serving : memory[q] \subseteq memory'[q]
      BY <2>1, <2>3 DEF Serving
    <3> QED
      BY <2>2, <2>4, <3>1, <3>2 DEF Contents, CommandKeeps, Mends, AtStep
  <2> QED
    BY <2>7, <2>8 DEF Contents
<1>7. ASSUME NEW c \in Command, folder_command(c) PROVE Contents'
  <2>1. /\ UNCHANGED <<proc, file, memory, allowRemote>>
        /\ BusyCommands = {} /\ Starting = {} /\ Ending = {}
    BY <1>7, FirstOne DEF folder_command, daemons
  <2>2. Folders = {} /\ Serving' = Serving /\ Writing' = Writing
    BY <2>1 DEF Folders, Serving, Writing, Starting
  <2>3. PICK kind \in {"add", "remove"}, w \in Ws :
           /\ kind = "remove" => w \in file
           /\ Set(c, [NoCmd EXCEPT !.kind = kind, !.pc = "loaded", !.ws = w, !.read = file])
           /\ promised' = IF kind = "remove" THEN promised \ {w} ELSE promised
    BY <1>7 DEF folder_command
  <2>4. cmds'[c].kind = kind /\ cmds'[c].pc = "loaded" /\ cmds'[c].ws = w /\ cmds'[c].read = file
    BY <2>3 DEF Set, NoCmd
  <2>5. \A d \in Command \ {c} : cmds'[d].pc = "free"
    BY <2>1, <2>3 DEF Set, BusyCommands
  <2>6. Folders' = {c}
    BY <2>4, <2>5 DEF Folders, BusyCommands
  <2>7. promised' \subseteq promised /\ promised \subseteq file
    BY <2>2, <2>3 DEF Contents, FileKeeps
  <2>8. MemoryKeeps' /\ MemoryFollows' /\ FileKeeps'
    BY <2>1, <2>2, <2>6, <2>7 DEF Contents, MemoryKeeps, MemoryFollows, FileKeeps
  <2>9. kind = "remove" /\ allowRemote => \A p \in Serving : w \in memory[p]
    BY <2>2, <2>3 DEF Contents, MemoryFollows, Writing
  <2>10. CommandKeeps'
    BY <2>1, <2>2, <2>3, <2>4, <2>6, <2>7, <2>9 DEF CommandKeeps, AtStep
  <2> QED
    BY <2>8, <2>10 DEF Contents
<1>8. ASSUME NEW c \in Command, save_file(c) PROVE Contents'
  <2>1. /\ UNCHANGED <<proc, memory, promised, allowRemote>> /\ file' = Edited(cmds[c])
        /\ cmds[c].pc = "loaded" /\ cmds[c].kind \in {"add", "remove"}
    BY <1>8 DEF save_file, daemons
  <2>2. c \in Folders /\ Folders = {c}
    BY <2>1 DEF Folders, BusyCommands, Turns, Alone
  <2>3. /\ cmds'[c] = [cmds[c] EXCEPT !.pc = "saved"] /\ \A d \in Command \ {c} : cmds'[d] = cmds[d]
    BY <1>8 DEF save_file, Set
  <2>4. cmds'[c].kind = cmds[c].kind /\ cmds'[c].pc = "saved" /\ cmds'[c].ws = cmds[c].ws
    BY <2>3 DEF HostCommandType
  <2>5. Folders' = {c} /\ Serving' = Serving /\ Writing' = Writing
    <3>1. \A d \in Command \ {c} : d \notin Folders /\ cmds'[d] = cmds[d]
      BY <2>2, <2>3
    <3>2. Folders' = {c}
      BY <2>1, <2>4, <3>1 DEF Folders, BusyCommands
    <3> QED
      BY <2>1, <3>2 DEF Serving, Writing, Starting
  <2>6. /\ Mends \/ promised \subseteq cmds[c].read
        /\ cmds[c].kind = "remove" => cmds[c].ws \notin promised
        /\ cmds[c].kind = "remove" /\ allowRemote => \A p \in Serving : cmds[c].ws \in memory[p]
    BY <2>1, <2>2 DEF Contents, CommandKeeps
  <2>7. (Mends \/ promised \subseteq file') /\ (cmds[c].kind = "add" => cmds[c].ws \in file')
    BY <2>1, <2>6 DEF Edited
  <2>8. CommandKeeps'
    BY <2>1, <2>4, <2>5, <2>6, <2>7 DEF CommandKeeps, Mends, AtStep
  <2> QED
    BY <2>1, <2>2, <2>5, <2>8 DEF Contents, MemoryKeeps, MemoryFollows, FileKeeps
<1>9. ASSUME NEW c \in Command, check_daemon(c) PROVE Contents'
  <2>1. /\ UNCHANGED <<proc, memory, file, allowRemote>> /\ cmds[c].pc = "saved"
        /\ cmds[c].kind \in {"add", "remove"}
    BY <1>9 DEF check_daemon, daemons, PlaceOfKind, HostCommandType
  <2>2. c \in Folders /\ Folders = {c} /\ Starting = {} /\ Ending = {}
    BY <2>1 DEF Folders, BusyCommands, Turns, Alone
  <2>3. Serving' = Serving /\ Writing' = Writing /\ Writing = Serving
    BY <2>1, <2>2 DEF Serving, Writing, Starting
  <2>4. \A d \in Command \ {c} : cmds'[d] = cmds[d]
    BY <1>9, CommandGoesOn
  <2>5. CASE IsRunning(pidFile)
    <3>1. promised' = promised /\ cmds' = [cmds EXCEPT ![c] = [@ EXCEPT !.pc = "request"]]
      BY <1>9, <2>5 DEF check_daemon, Set
    <3>2. Serving # {}
      BY <2>2, <2>5 DEF IsRunning, Starting, Ending, Serving
    <3>3. cmds'[c].kind = cmds[c].kind /\ cmds'[c].pc = "request" /\ cmds'[c].ws = cmds[c].ws
      BY <3>1 DEF HostCommandType
    <3>4. Folders' = {c}
      BY <2>1, <2>2, <2>4, <3>3 DEF Folders, BusyCommands
    <3>5. CommandKeeps'
      BY <2>1, <2>2, <2>3, <3>1, <3>2, <3>3, <3>4 DEF Contents, CommandKeeps, Mends, AtStep
    <3> QED
      BY <2>1, <2>2, <2>3, <3>1, <3>4, <3>5 DEF Contents, MemoryKeeps, MemoryFollows, FileKeeps
  <2>6. CASE ~IsRunning(pidFile)
    <3>1. /\ cmds'[c] = NoCmd
          /\ promised' = IF cmds[c].kind = "add" THEN promised \union {cmds[c].ws} ELSE promised
      BY <1>9, <2>6 DEF check_daemon, End, Set
    <3>2. Serving = {} /\ \A p \in Pid : proc[p] # "stopping"
      BY <2>2, <2>6 DEF IsRunning, Serving, Ending, Turns, PidNamesServer
    <3>3. Folders' = {}
      BY <2>2, <2>4, <3>1, NoCmdIs DEF Folders, BusyCommands
    <3>4. promised' \subseteq file
      BY <2>1, <2>2, <3>1, <3>2 DEF Contents, CommandKeeps, Mends, AtStep
    <3> QED
      BY <2>1, <2>3, <3>2, <3>3, <3>4 DEF Contents, MemoryKeeps, MemoryFollows, FileKeeps, CommandKeeps
  <2> QED
    BY <2>5, <2>6
<1>10. ASSUME NEW c \in Command, register_request(c) \/ remove_request(c) PROVE Contents'
  <2>1. /\ UNCHANGED <<proc, allowRemote>> /\ cmds'[c] = NoCmd /\ cmds[c].pc = "request"
        /\ cmds[c].kind \in {"add", "remove"}
    BY <1>10 DEF register_request, remove_request, AtStep, End, Set
  <2>2. c \in Folders /\ Folders = {c} /\ Starting = {} /\ Ending = {}
    BY <2>1 DEF Folders, BusyCommands, Turns, Alone
  <2>3. /\ Serving' = Serving /\ Writing' = Writing /\ Writing = Serving /\ Serving # {}
        /\ \A p \in Pid : proc[p] # "stopping"
    BY <2>1, <2>2 DEF Serving, Writing, Starting, Ending, Contents, CommandKeeps
  <2>4. Folders' = {}
    BY <1>10, <2>1, <2>2, CommandGoesOn, NoCmdIs DEF Folders, BusyCommands
  <2>5. PICK p \in Serving : Serving = {p}
    BY <2>3 DEF Serving, PortIsHeld
  <2>6. /\ cmds[c].kind = "remove" => cmds[c].ws \notin promised
        /\ cmds[c].kind = "remove" /\ allowRemote => cmds[c].ws \in memory[p]
        /\ allowRemote \/ promised \subseteq file
        /\ promised \subseteq memory[p]
    BY <2>2, <2>3, <2>5 DEF Contents, CommandKeeps, MemoryKeeps, Mends
  <2>7. promised' \subseteq file' /\ promised' \subseteq memory'[p]
        /\ (allowRemote => file' \subseteq memory'[p])
    <3>1. CASE register_request(c)
      BY <2>5, <2>6, <3>1 DEF register_request, AtStep, Serving
    <3>2. CASE remove_request(c)
      BY <2>5, <2>6, <3>2 DEF remove_request, AtStep, Serving
    <3> QED
      BY <1>10, <3>1, <3>2
  <2> QED
    BY <2>1, <2>3, <2>4, <2>5, <2>7 DEF Contents, MemoryKeeps, MemoryFollows, FileKeeps, CommandKeeps
<1>11. ASSUME NEW c \in Command, stop(c) \/ stop_waits(c) \/ stop_gives_up(c) \/ stop_removes_pid(c)
       PROVE  Contents'
  <2>1. /\ UNCHANGED <<proc, file, memory, promised, allowRemote>>
        /\ \A d \in Command \ {c} : cmds'[d] = cmds[d]
        /\ cmds[c].kind \in {"none", "stop"} /\ cmds'[c].kind \in {"none", "stop"}
    <3>1. CASE stop(c)
      <4>1. /\ UNCHANGED <<proc, file, memory, promised, allowRemote>> /\ cmds[c].pc = "free"
            /\ \/ cmds' = cmds
               \/ \E t : Set(c, [NoCmd EXCEPT !.kind = "stop", !.pc = "wait", !.pid = t])
        BY <3>1 DEF stop
      <4> QED
        BY <4>1 DEF Set, NoCmd, PlaceOfKind
    <3>2. CASE stop_waits(c) \/ stop_gives_up(c) \/ stop_removes_pid(c)
      BY <3>2, CommandGoesOn, NoCmdIs DEF stop_waits, stop_gives_up, stop_removes_pid, AtStep, daemons
    <3> QED
      BY <1>11, <3>1, <3>2
  <2>2. Serving' = Serving /\ Writing' = Writing /\ Folders' = Folders
    <3>1. Serving' = Serving /\ Writing' = Writing
      BY <2>1 DEF Serving, Writing, Starting
    <3>2. c \notin Folders /\ c \notin Folders'
      BY <2>1 DEF Folders
    <3>3. Folders' = Folders
      BY <2>1, <3>2 DEF Folders, BusyCommands
    <3> QED
      BY <3>1, <3>3
  <2>3. \A d \in Folders : cmds'[d] = cmds[d]
    BY <2>1 DEF Folders, BusyCommands
  <2>4. CommandKeeps'
    BY <2>1, <2>2, <2>3 DEF Contents, CommandKeeps, Mends, AtStep
  <2>5. MemoryKeeps' /\ MemoryFollows' /\ FileKeeps'
    BY <2>1, <2>2 DEF Contents, MemoryKeeps, MemoryFollows, FileKeeps
  <2> QED
    BY <2>4, <2>5 DEF Contents
<1>12. CASE UNCHANGED hostVars
  BY <1>12 DEF hostVars, Contents, MemoryKeeps, MemoryFollows, FileKeeps, CommandKeeps, Writing, Starting,
               Serving, Folders, BusyCommands, Mends, AtStep
<1> QED
  BY <1>1, <1>2, <1>3, <1>4, <1>5, <1>6, <1>7, <1>8, <1>9, <1>10, <1>11, <1>12 DEF HostNext

------------------------------------------------------------------------------
(* The theorems                                                                *)

LEMMA OverlapStays == ASSUME [HostNext]_hostVars, ~overlap' PROVE ~overlap
BY DEF HostNext, Begins, Ends, start, check_status, is_port_listening, new, bind, write_pid,
       write_pid_fails, save, serve_cancelled, drain_connections, remove_pid, dies,
       remote_registration, hostVars, folder_command, save_file, check_daemon, register_request,
       remove_request, stop, stop_waits, stop_gives_up, stop_removes_pid

(* What the commands of a host and its daemons keep (src/cli/mod.rs,           *)
(* src/app/daemon.rs): the types, who has the port and who was told to end;    *)
(* and, as long as nothing overlaps, who may act at once, what the PID file    *)
(* names and where the promised folders are.                                   *)
THEOREM HostInvariance == HostSpec => []HostInv
<1>1. HostInit => HostInv
  <2> SUFFICES ASSUME HostInit PROVE HostInv
    OBVIOUS
  <2> USE NoneAssumption, NoCmdIs DEF HostInit
  <2>1. Sound
    BY DEF Sound, HostTypes, PortIsHeld, EndsAreTold, Steps
  <2>2. BusyCommands = {} /\ Starting = {} /\ Serving = {} /\ Ending = {}
    BY DEF BusyCommands, Starting, Serving, Ending, IsRunning
  <2>3. Folders = {} /\ Writing = {}
    BY <2>2 DEF Folders, Writing
  <2>4. Turns
    BY <2>2 DEF Turns, Alone, OneServes, PidNamesServer, StopsServer, AtStep
  <2>5. Contents
    BY <2>3 DEF Contents, MemoryKeeps, MemoryFollows, FileKeeps, CommandKeeps
  <2> QED
    BY <2>1, <2>4, <2>5 DEF HostInv
<1>2. HostInv /\ [HostNext]_hostVars => HostInv'
  BY SoundStep, OverlapStays, TurnsStep, ContentsStep DEF HostInv
<1> QED
  BY <1>1, <1>2, PTL DEF HostSpec

(* A folder that was reported as registered is in config.toml until it is      *)
(* removed (add_folder, register_workspace).                                   *)
THEOREM FoldersKept == HostSpec => []FoldersAreKept
<1>1. HostInv => FoldersAreKept
  BY DEF HostInv, Contents, FileKeeps, FoldersAreKept, Folders
<1> QED
  BY <1>1, HostInvariance, PTL

(* The PID file names the daemon that serves (write_pid, remove_pid).          *)
THEOREM PidFileNames == HostSpec => []PidNamesServer
<1>1. HostInv => PidNamesServer
  BY DEF HostInv, Turns, PidNamesServer
<1> QED
  BY <1>1, HostInvariance, PTL

------------------------------------------------------------------------------
\* Of numbers, one is the least.
LEMMA LeastExists ==
    ASSUME NEW T, T \subseteq Nat, T # {}
    PROVE  \E x \in T : \A y \in T : x <= y
  <1>1. PICK x \in T : \A y \in T : ~(<<y, x>> \in OpToRel(<, Nat))
    BY NatLessThanWellFounded, WFMin, Zenon
  <1>2. \A y \in T : <<y, x>> \in OpToRel(<, Nat) <=> y < x
    BY DEF OpToRel
  <1>3. \A y \in T : ~(y < x)
    BY <1>1, <1>2
  <1> QED BY <1>3

------------------------------------------------------------------------------
(* Sets of numbers in their order                                              *)

Rank(S, n) == Cardinality({m \in S : m <= n})
Nth(S, k) == CHOOSE n \in S : Rank(S, n) = k

\* The ranks of a finite set count through it.
LEMMA RankIs ==
    ASSUME NEW S \in SUBSET Nat, IsFiniteSet(S)
    PROVE  /\ Cardinality(S) \in Nat
           /\ \A n \in S : Rank(S, n) \in 1..Cardinality(S)
           /\ \A m, n \in S : m < n => Rank(S, m) < Rank(S, n)
           /\ \A k \in 1..Cardinality(S) : \E n \in S : Rank(S, n) = k
  <1>1. Cardinality(S) \in Nat
    BY FS_CardinalityType
  <1>2. ASSUME NEW n \in S
        PROVE  Rank(S, n) \in 1..Cardinality(S)
    <2>1. PICK B : B = {m \in S : m <= n}
      OBVIOUS
    <2>2. B \in SUBSET S /\ n \in B
      BY <2>1
    <2>3. IsFiniteSet(B) /\ Cardinality(B) \in Nat /\ Cardinality(B) <= Cardinality(S) /\ Cardinality(B) # 0
      BY <2>2, FS_Subset, FS_CardinalityType, FS_EmptySet
    <2> QED BY <1>1, <2>1, <2>3 DEF Rank
  <1>3. ASSUME NEW m \in S, NEW n \in S, m < n
        PROVE  Rank(S, m) < Rank(S, n)
    <2>1. PICK A, B : A = {l \in S : l <= m} /\ B = {l \in S : l <= n}
      OBVIOUS
    <2>a. m \in Nat /\ n \in Nat /\ \A l \in S : l \in Nat
      OBVIOUS
    <2>b. \A l \in S : l <= m => l <= n
      BY <1>3, <2>a
    <2>c. \A l : (l \in A <=> l \in S /\ l <= m) /\ (l \in B <=> l \in S /\ l <= n)
      BY <2>1
    <2>d. n <= n /\ ~(n <= m)
      BY <1>3, <2>a
    <2>2. A \in SUBSET B /\ B \in SUBSET S /\ n \in B /\ n \notin A
      BY <2>b, <2>c, <2>d, Zenon
    <2>3. IsFiniteSet(B)
      BY <2>2, FS_Subset
    <2>4. /\ IsFiniteSet(A) /\ Cardinality(A) <= Cardinality(B)
          /\ Cardinality(B) = Cardinality(A) => B = A
      BY <2>2, <2>3, FS_Subset
    <2>5. Cardinality(A) \in Nat /\ Cardinality(B) \in Nat
      BY <2>3, <2>4, FS_CardinalityType
    <2>6. Cardinality(A) < Cardinality(B)
      BY <2>2, <2>4, <2>5
    <2> QED BY <2>1, <2>6 DEF Rank
  <1>4. ASSUME NEW k \in 1..Cardinality(S)
        PROVE  \E n \in S : Rank(S, n) = k
    <2> DEFINE I == 1..Cardinality(S)
               g == [n \in S |-> Rank(S, n)]
    <2>1. IsFiniteSet(I) /\ Cardinality(I) = Cardinality(S)
      BY <1>1, FS_Interval
    <2>2. g \in [S -> I]
      BY <1>2
    <2>3. \A m, n \in S : g[m] = g[n] => m = n
      <3> SUFFICES ASSUME NEW m \in S, NEW n \in S, g[m] = g[n], m # n PROVE FALSE
        OBVIOUS
      <3>1. m < n \/ n < m
        OBVIOUS
      <3>2. Rank(S, m) < Rank(S, n) \/ Rank(S, n) < Rank(S, m)
        BY <1>3, <3>1
      <3>3. Rank(S, m) = Rank(S, n) /\ Rank(S, m) \in 1..Cardinality(S)
        BY <1>2
      <3> QED BY <1>1, <3>2, <3>3
    <2>4. g \in Injection(S, I)
      BY <2>2, <2>3 DEF Injection, IsInjective
    <2> HIDE DEF I, g
    <2>5. g \in Surjection(S, I)
      BY <2>1, <2>4, FS_Injection
    <2>6. \E n \in S : g[n] = k
      BY <2>5 DEF Surjection, I
    <2> QED BY <2>6 DEF g
  <1> QED BY <1>1, <1>2, <1>3, <1>4

\* Nth(S, k) is the number of rank k.
LEMMA NthIs ==
    ASSUME NEW S \in SUBSET Nat, IsFiniteSet(S)
    PROVE  /\ Cardinality(S) \in Nat
           /\ \A k \in 1..Cardinality(S) : Nth(S, k) \in S /\ Rank(S, Nth(S, k)) = k
           /\ \A j, k \in 1..Cardinality(S) : j < k => Nth(S, j) < Nth(S, k)
           /\ \A n \in S : Rank(S, n) \in 1..Cardinality(S) /\ Nth(S, Rank(S, n)) = n
  <1>1. /\ Cardinality(S) \in Nat
        /\ \A n \in S : Rank(S, n) \in 1..Cardinality(S)
        /\ \A m, n \in S : m < n => Rank(S, m) < Rank(S, n)
        /\ \A k \in 1..Cardinality(S) : \E n \in S : Rank(S, n) = k
    BY RankIs
  <1>2. \A k \in 1..Cardinality(S) : Nth(S, k) \in S /\ Rank(S, Nth(S, k)) = k
    BY <1>1 DEF Nth
  <1>3. ASSUME NEW m \in S, NEW n \in S, Rank(S, m) <= Rank(S, n)
        PROVE  m <= n
    <2>1. ~(n < m)
      BY <1>1, <1>3
    <2> QED BY <2>1
  <1>4. ASSUME NEW j \in 1..Cardinality(S), NEW k \in 1..Cardinality(S), j < k
        PROVE  Nth(S, j) < Nth(S, k)
    <2>1. PICK m \in S, n \in S : m = Nth(S, j) /\ n = Nth(S, k) /\ Rank(S, m) = j /\ Rank(S, n) = k
      BY <1>2
    <2>2. m <= n /\ m # n
      BY <1>3, <1>4, <2>1
    <2> QED BY <2>1, <2>2
  <1>5. ASSUME NEW n \in S
        PROVE  Nth(S, Rank(S, n)) = n
    <2>1. PICK m \in S : m = Nth(S, Rank(S, n)) /\ Rank(S, m) = Rank(S, n)
      BY <1>1, <1>2
    <2>2. m <= n /\ n <= m
      BY <1>1, <1>3, <2>1
    <2> QED BY <2>1, <2>2
  <1> QED BY <1>1, <1>2, <1>4, <1>5

\* Some places of a list.
LEMMA ListedIs ==
    ASSUME NEW X, NEW list \in Seq(X), NEW at \in SUBSET (DOMAIN list)
    PROVE  /\ at \in SUBSET Nat /\ IsFiniteSet(at) /\ Cardinality(at) \in Nat
           /\ Listed(list, at) \in Seq(X)
           /\ Len(Listed(list, at)) = Cardinality(at)
           /\ DOMAIN Listed(list, at) = 1..Cardinality(at)
           /\ \A k \in 1..Cardinality(at) : Listed(list, at)[k] = list[Nth(at, k)]
           /\ Range(Listed(list, at)) = {list[n] : n \in at}
  <1>1. DOMAIN list = 1..Len(list) /\ Len(list) \in Nat
    OBVIOUS
  <1>2. at \in SUBSET Nat /\ IsFiniteSet(at)
    <2>1. IsFiniteSet(DOMAIN list)
      BY <1>1, FS_Interval
    <2>2. IsFiniteSet(at)
      BY <2>1, FS_Subset
    <2>3. \A n \in at : n \in DOMAIN list
      OBVIOUS
    <2>4. \A n \in at : n \in Nat
      BY <1>1, <2>3
    <2> QED BY <2>2, <2>4
  <1>3. /\ Cardinality(at) \in Nat
        /\ \A k \in 1..Cardinality(at) : Nth(at, k) \in at
        /\ \A n \in at : Rank(at, n) \in 1..Cardinality(at) /\ Nth(at, Rank(at, n)) = n
    BY <1>2, NthIs
  <1>4. PICK l : l = [k \in 1..Cardinality(at) |-> list[Nth(at, k)]]
    OBVIOUS
  <1>5. Listed(list, at) = l
    <2>1. Listed(list, at) = [k \in 1..Cardinality(at) |-> list[Nth(at, k)]]
      <3> DEFINE N(k) == CHOOSE n \in at : Cardinality({m \in at : m <= n}) = k
      <3>1. Listed(list, at) = [k \in 1..Cardinality(at) |-> list[N(k)]]
        BY Zenon DEF Listed
      <3>2. \A n \in at : Cardinality({m \in at : m <= n}) = Rank(at, n)
        BY Zenon DEF Rank
      <3>3. ASSUME NEW k \in 1..Cardinality(at)
            PROVE  N(k) = Nth(at, k)
        <4>1. Nth(at, k) \in at /\ Rank(at, Nth(at, k)) = k
          BY <1>2, NthIs
        <4>2. N(k) \in at /\ Cardinality({m \in at : m <= N(k)}) = k
          BY <3>2, <4>1
        <4> HIDE DEF N
        <4>3. Rank(at, N(k)) = k
          BY <3>2, <4>2
        <4> QED BY <1>3, <4>2, <4>3
      <3> HIDE DEF N
      <3> QED BY <3>1, <3>3
    <2> QED BY <1>4, <2>1, Zenon
  <1>6. \A k \in 1..Cardinality(at) : l[k] = list[Nth(at, k)] /\ l[k] \in X
    BY <1>1, <1>3, <1>4
  <1>7. l \in Seq(X) /\ Len(l) = Cardinality(at) /\ DOMAIN l = 1..Cardinality(at)
    BY <1>3, <1>4, <1>6
  <1>8. {l[k] : k \in DOMAIN l} = {list[n] : n \in at}
    BY <1>3, <1>6, <1>7
  <1> QED BY <1>2, <1>3, <1>5, <1>6, <1>7, <1>8 DEF Range

\* The least of some numbers.
LEMMA LeastIs ==
    ASSUME NEW S \in SUBSET Nat, S # {}
    PROVE  Least(S) \in S /\ \A m \in S : Least(S) <= m
  BY LeastExists DEF Least

\* A part of a list without repetitions has none.
LEMMA ListedInjective ==
    ASSUME NEW X, NEW list \in Seq(X), NEW at \in SUBSET (DOMAIN list),
           \A m, n \in at : list[m] = list[n] => m = n
    PROVE  IsInjective(Listed(list, at))
  <1>1. /\ at \in SUBSET Nat /\ IsFiniteSet(at) /\ DOMAIN Listed(list, at) = 1..Cardinality(at)
        /\ \A k \in 1..Cardinality(at) : Listed(list, at)[k] = list[Nth(at, k)]
    BY ListedIs
  <1>2. /\ \A k \in 1..Cardinality(at) : Nth(at, k) \in at /\ Rank(at, Nth(at, k)) = k
    BY <1>1, NthIs
  <1>3. ASSUME NEW j \in 1..Cardinality(at), NEW k \in 1..Cardinality(at),
               list[Nth(at, j)] = list[Nth(at, k)]
        PROVE  j = k
    <2>1. Nth(at, j) = Nth(at, k)
      BY <1>2, <1>3
    <2> QED BY <1>2, <2>1
  <1> QED BY <1>1, <1>3 DEF IsInjective

------------------------------------------------------------------------------
(* What is made of the words of an agent                                       *)

OptionType == [isModel : BOOLEAN, current : STRING, choices : Seq(STRING)]
Offers(o) == Range(o.choices) \ {""}

\* The choices of an option, each once, the current first.
LEMMA OfferedIs ==
    ASSUME NEW o \in OptionType
    PROVE  /\ Offered(o) \in Seq(STRING) /\ IsInjective(Offered(o))
           /\ Range(Offered(o)) = Offers(o)
           /\ o.current \in Offers(o) => Offered(o)[1] = o.current
           /\ Offered(o) = <<>> <=> Offers(o) = {}
  <1> DEFINE v == o.choices
             New == {n \in DOMAIN v : v[n] # "" /\ \A m \in 1..(n - 1) : v[m] # v[n]}
  <1>1. v \in Seq(STRING) /\ o.current \in STRING /\ DOMAIN v = 1..Len(v) /\ Len(v) \in Nat
    BY DEF OptionType
  <1>2. PICK at, w : at = New /\ w = v
    OBVIOUS
  <1>3. w \in Seq(STRING) /\ at \in SUBSET (DOMAIN w) /\ DOMAIN w = 1..Len(w) /\ Len(w) \in Nat
    BY <1>1, <1>2
  <1>4. \A m, n \in at : w[m] = w[n] => m = n
    <2> SUFFICES ASSUME NEW m \in at, NEW n \in at, w[m] = w[n], m < n PROVE FALSE
      BY <1>3
    <2>1. m \in 1..(n - 1)
      BY <1>3
    <2> QED BY <1>2, <2>1
  <1>5. {w[n] : n \in at} = Offers(o)
    <2>1. ASSUME NEW c \in Offers(o)
          PROVE  \E n \in at : w[n] = c
      <3>1. {n \in DOMAIN w : w[n] = c} # {} /\ c # ""
        BY <1>2 DEF Offers, Range
      <3>2. PICK n \in DOMAIN w : w[n] = c /\ \A m \in DOMAIN w : w[m] = c => n <= m
        <4>1. {n \in DOMAIN w : w[n] = c} \in SUBSET Nat
          BY <1>3
        <4> QED BY <3>1, <4>1, LeastExists
      <3>3. \A m \in 1..(n - 1) : m \in DOMAIN w /\ ~(n <= m)
        BY <1>3
      <3>4. \A m \in 1..(n - 1) : w[m] # w[n]
        BY <3>2, <3>3
      <3> QED BY <1>2, <3>1, <3>2, <3>4
    <2>2. \A n \in at : w[n] \in Offers(o)
      BY <1>2, <1>3 DEF Offers, Range
    <2> QED BY <2>1, <2>2
  <1>6. PICK kept : kept = Listed(w, at)
    OBVIOUS
  <1>7. kept \in Seq(STRING) /\ IsInjective(kept) /\ Range(kept) = Offers(o)
    <2>1. kept \in Seq(STRING) /\ Range(kept) = {w[n] : n \in at}
      BY <1>3, <1>6, ListedIs
    <2>2. IsInjective(kept)
      BY <1>3, <1>4, <1>6, ListedInjective
    <2> QED BY <1>5, <2>1, <2>2
  <1>8. Offered(o) = IF o.current \in Range(kept)
                     THEN <<o.current>> \o Listed(kept, {n \in DOMAIN kept : kept[n] # o.current})
                     ELSE kept
    BY <1>2, <1>6 DEF Offered
  <1>9. CASE o.current \notin Range(kept)
    <2>1. Offered(o) = kept
      BY <1>8, <1>9
    <2>2. kept = <<>> <=> Range(kept) = {}
      BY <1>7 DEF Range
    <2> QED BY <1>7, <1>9, <2>1, <2>2
  <1>10. CASE o.current \in Range(kept)
    <2>1. PICK rest : rest = {n \in DOMAIN kept : kept[n] # o.current}
      OBVIOUS
    <2>2. PICK tail : tail = Listed(kept, rest)
      OBVIOUS
    <2>3. rest \in SUBSET (DOMAIN kept) /\ \A m, n \in rest : kept[m] = kept[n] => m = n
      BY <1>7, <2>1 DEF IsInjective
    <2>4. /\ tail \in Seq(STRING) /\ IsInjective(tail)
          /\ Range(tail) = {kept[n] : n \in rest}
      BY <1>7, <2>2, <2>3, ListedIs, ListedInjective
    <2>5. Range(tail) = Offers(o) \ {o.current}
      BY <1>7, <2>1, <2>4 DEF Range
    <2>6. Offered(o) = <<o.current>> \o tail
      BY <1>8, <1>10, <2>1, <2>2
    <2>7. /\ Offered(o) \in Seq(STRING) /\ Len(Offered(o)) = 1 + Len(tail)
          /\ Offered(o)[1] = o.current
          /\ \A n \in 2..(1 + Len(tail)) : Offered(o)[n] = tail[n - 1]
      BY <1>1, <2>4, <2>6
    <2>8. PICK a : a = Offered(o)
      OBVIOUS
    <2>9. /\ a \in Seq(STRING) /\ DOMAIN a = 1..(1 + Len(tail)) /\ a[1] = o.current
          /\ \A n \in 2..(1 + Len(tail)) : a[n] = tail[n - 1] /\ n - 1 \in DOMAIN tail
          /\ \A n \in DOMAIN tail : n + 1 \in 2..(1 + Len(tail)) /\ a[n + 1] = tail[n]
      BY <2>4, <2>7, <2>8
    <2>10. Range(a) = {o.current} \union Range(tail)
      <3>1. \A n \in DOMAIN a : n = 1 \/ n \in 2..(1 + Len(tail))
        BY <2>9
      <3>2. \A n \in DOMAIN a : a[n] \in {o.current} \union Range(tail)
        BY <2>9, <3>1 DEF Range
      <3>3. 1 \in DOMAIN a
        BY <2>4, <2>9
      <3>4. \A n \in DOMAIN tail : n + 1 \in DOMAIN a /\ a[n + 1] = tail[n]
        BY <2>9
      <3>5. ASSUME NEW x \in Range(tail)
            PROVE  x \in Range(a)
        <4>1. PICK n \in DOMAIN tail : tail[n] = x
          BY DEF Range
        <4>2. n + 1 \in DOMAIN a /\ a[n + 1] = x
          BY <3>4, <4>1
        <4> QED BY <4>2, Zenon DEF Range
      <3>6. o.current \in Range(a)
        BY <2>9, <3>3, Zenon DEF Range
      <3>7. Range(a) \subseteq {o.current} \union Range(tail)
        BY <3>2, Zenon DEF Range
      <3> QED BY <3>5, <3>6, <3>7
    <2>11. IsInjective(a)
      <3> SUFFICES ASSUME NEW m \in DOMAIN a, NEW n \in DOMAIN a, a[m] = a[n], m < n
                   PROVE  FALSE
        BY <2>9 DEF IsInjective
      <3>1. n \in 2..(1 + Len(tail)) /\ (m = 1 \/ m \in 2..(1 + Len(tail)))
        BY <2>9
      <3>2. a[n] = tail[n - 1] /\ n - 1 \in DOMAIN tail /\ a[n] \in Range(tail)
        BY <2>9, <3>1 DEF Range
      <3>3. CASE m = 1
        BY <2>5, <2>9, <3>2, <3>3
      <3>4. CASE m \in 2..(1 + Len(tail))
        <4>1. a[m] = tail[m - 1] /\ m - 1 \in DOMAIN tail
          BY <2>9, <3>4
        <4>2. m - 1 = n - 1
          BY <2>4, <3>2, <4>1 DEF IsInjective
        <4> QED BY <2>9, <4>2
      <3> QED BY <3>1, <3>3, <3>4
    <2>12. a # <<>> /\ o.current \in Offers(o)
      BY <1>7, <1>10, <2>9
    <2> QED BY <2>5, <2>8, <2>9, <2>10, <2>11, <2>12
  <1> QED BY <1>9, <1>10

\* The models of a session's options are what the first option offers that is about
\* models and offers any.
LEMMA SessionConfigIs ==
    ASSUME NEW config \in Seq(OptionType)
    PROVE  LET models == models_from_session_config(config) IN
           /\ models \in Seq(STRING)
           /\ \/ models = <<>>
              \/ /\ IsInjective(models)
                 /\ \E n \in DOMAIN config :
                       /\ config[n].isModel /\ Offers(config[n]) = Range(models)
                       /\ config[n].current \in Offers(config[n]) => models[1] = config[n].current
                       /\ \A m \in 1..(n - 1) : config[m].isModel => Offers(config[m]) = {}
  <1>1. PICK usable : usable = {n \in DOMAIN config : config[n].isModel /\ Offered(config[n]) # <<>>}
    OBVIOUS
  <1>2. models_from_session_config(config) =
            IF usable = {} THEN <<>> ELSE Offered(config[Least(usable)])
    BY <1>1 DEF models_from_session_config
  <1>3. CASE usable = {}
    BY <1>2, <1>3
  <1>4. CASE usable # {}
    <2>1. PICK n : n = Least(usable)
      OBVIOUS
    <2>2. usable \in SUBSET Nat
      BY <1>1
    <2>3. n \in usable /\ \A m \in usable : n <= m
      BY <1>4, <2>1, <2>2, LeastIs
    <2>4. n \in DOMAIN config /\ config[n] \in OptionType /\ config[n].isModel
      BY <1>1, <2>3
    <2>5. ASSUME NEW m \in 1..(n - 1), config[m].isModel
          PROVE  Offers(config[m]) = {}
      <3>1. m \in DOMAIN config /\ ~(n <= m)
        BY <2>4
      <3>2. Offered(config[m]) = <<>> /\ config[m] \in OptionType
        BY <1>1, <2>3, <2>5, <3>1
      <3> QED BY <3>2, OfferedIs
    <2>6. models_from_session_config(config) = Offered(config[n])
      BY <1>2, <1>4, <2>1
    <2>7. /\ Offered(config[n]) \in Seq(STRING)
          /\ IsInjective(Offered(config[n])) /\ Range(Offered(config[n])) = Offers(config[n])
          /\ config[n].current \in Offers(config[n]) => Offered(config[n])[1] = config[n].current
      BY <2>4, OfferedIs
    <2> QED BY <2>4, <2>5, <2>6, <2>7
  <1> QED BY <1>3, <1>4

\* What is made of the output of Cursor are lines of it.
LEMMA CliIs ==
    ASSUME NEW c, c.out \in Seq(Lines)
    PROVE  /\ models_from_cli(c) \in Seq(Lines)
           /\ models_from_cli(c) # <<>> =>
                c.run = "ended" /\ Range(models_from_cli(c)) \subseteq Range(c.out) \ {"note"}
  <1>1. PICK lines : lines = read_capped(c.out)
    OBVIOUS
  <1>2. /\ lines \in Seq(Lines) /\ Len(lines) <= Len(c.out)
        /\ \A n \in DOMAIN lines : n \in DOMAIN c.out /\ lines[n] = c.out[n]
    <2>1. PICK k \in Nat : k = (IF Len(c.out) < MaxProbeOutput THEN Len(c.out) ELSE MaxProbeOutput)
                           /\ k <= Len(c.out)
      BY ProbeAssumption
    <2>2. lines = SubSeq(c.out, 1, k)
      BY <1>1, <2>1 DEF read_capped
    <2> QED BY <2>1, <2>2
  <1>3. CASE models_from_cli(c) = <<>>
    BY <1>3
  <1>4. CASE models_from_cli(c) # <<>>
    <2>1. c.run = "ended" /\ models_from_cli(c) = parse_list_models(lines)
      BY <1>1, <1>4 DEF models_from_cli
    <2>2. PICK at : at = {n \in DOMAIN lines : lines[n] # "note"}
      OBVIOUS
    <2>3. models_from_cli(c) = Listed(lines, at)
      BY <1>4, <2>1, <2>2 DEF parse_list_models
    <2>4. at \in SUBSET (DOMAIN lines)
      BY <2>2
    <2>5. Range(Listed(lines, at)) = {lines[n] : n \in at} /\ Listed(lines, at) \in Seq(Lines)
      BY <1>2, <2>4, ListedIs
    <2>6. \A n \in at : lines[n] \in Range(c.out) \ {"note"}
      BY <1>2, <2>2 DEF Range
    <2> QED BY <2>1, <2>3, <2>5, <2>6
  <1> QED BY <1>3, <1>4

\* No key is found only where there is none.
LEMMA KeyIs ==
    ASSUME machine \in Machine
    PROVE  read_local_api_key = "" =>
             /\ machine.env = ""
             /\ \A i \in DOMAIN machine.credentials : machine.credentials[i].value = ""
  <1>1. PICK creds : creds = machine.credentials
    OBVIOUS
  <1>2. creds \in Seq([key : {"windsurf_api_key", "api_key"}, value : STRING])
    BY <1>1, ProbeAssumption
  <1>3. /\ DOMAIN creds \in SUBSET Nat
        /\ \A n \in DOMAIN creds : creds[n].key \in {"windsurf_api_key", "api_key"}
    <2>1. PICK L : L = [key : {"windsurf_api_key", "api_key"}, value : STRING]
      OBVIOUS
    <2>2. creds \in Seq(L)
      BY <1>2, <2>1
    <2>3. DOMAIN creds = 1..Len(creds) /\ Len(creds) \in Nat
      BY <2>2
    <2>4. \A n \in 1..Len(creds) : creds[n] \in L
      BY <2>2
    <2> QED BY <2>1, <2>3, <2>4
  <1> DEFINE Of(key) == {n \in DOMAIN creds : creds[n].key = key /\ creds[n].value # ""}
             wanted == IF Of("windsurf_api_key") # {} THEN "windsurf_api_key" ELSE "api_key"
  <1>4. PICK key, S : key = wanted /\ S = Of(key)
    OBVIOUS
  <1>5. read_local_api_key =
           CASE machine.env # "" -> machine.env
             [] machine.env = "" /\ S # {} -> creds[Least(S)].value
             [] OTHER -> ""
    BY <1>1, <1>4 DEF read_local_api_key
  <1>6. S \in SUBSET Nat /\ \A n \in S : creds[n].value # ""
    BY <1>3, <1>4
  <1>7. ASSUME S # {}
        PROVE  creds[Least(S)].value # ""
    BY <1>6, <1>7, LeastIs
  <1>8. read_local_api_key = "" => machine.env = "" /\ S = {}
    BY <1>5, <1>7
  <1>9. S = {} => Of("windsurf_api_key") = {} /\ Of("api_key") = {}
    BY <1>4
  <1> QED BY <1>1, <1>3, <1>8, <1>9

------------------------------------------------------------------------------
(* The harnesses that are installed                                            *)

\* A program is there if and only if one of the places it is looked for has it.
LEMMA CommandIs ==
    ASSUME NEW h \in Range(HARNESSES)
    PROVE  find_first_command(h) # <<>> <=>
             \E place \in machine.exe :
                /\ \E a \in Range(PathDirs) \union Range(search_paths[h]), b \in Range(commands[h]) :
                      place = <<a, b>>
  <1> DEFINE inPath == {p \in (DOMAIN commands[h]) \X (DOMAIN PathDirs) :
                           <<PathDirs[p[2]], commands[h][p[1]]>> \in machine.exe}
             beside == {p \in (DOMAIN search_paths[h]) \X (DOMAIN commands[h]) :
                           <<search_paths[h][p[1]], commands[h][p[2]]>> \in machine.exe}
  <1>1. find_first_command(h) =
           CASE inPath # {} -> <<PathDirs[First(inPath)[2]], commands[h][First(inPath)[1]]>>
             [] inPath = {} /\ beside # {} ->
                   <<search_paths[h][First(beside)[1]], commands[h][First(beside)[2]]>>
             [] OTHER -> <<>>
    BY DEF find_first_command
  <1>2. \A a, b : <<a, b>> # <<>>
    OBVIOUS
  <1>3. find_first_command(h) # <<>> <=> inPath # {} \/ beside # {}
    <2> HIDE DEF inPath, beside
    <2> QED BY <1>1, <1>2
  <1>4. inPath # {} <=> \E a \in Range(PathDirs), b \in Range(commands[h]) : <<a, b>> \in machine.exe
    <2>1. ASSUME NEW i \in DOMAIN commands[h], NEW j \in DOMAIN PathDirs,
                 <<PathDirs[j], commands[h][i]>> \in machine.exe
          PROVE  inPath # {}
      <3>1. <<i, j>> \in inPath
        BY <2>1
      <3> QED BY <3>1
    <2>2. ASSUME NEW p \in inPath
          PROVE  \E i \in DOMAIN commands[h], j \in DOMAIN PathDirs :
                    <<PathDirs[j], commands[h][i]>> \in machine.exe
      OBVIOUS
    <2> HIDE DEF inPath
    <2>3. inPath # {} <=> \E i \in DOMAIN commands[h], j \in DOMAIN PathDirs :
                            <<PathDirs[j], commands[h][i]>> \in machine.exe
      BY <2>1, <2>2
    <2> QED BY <2>3, Zenon DEF Range
  <1>5. beside # {} <=>
           \E a \in Range(search_paths[h]), b \in Range(commands[h]) : <<a, b>> \in machine.exe
    <2>1. ASSUME NEW j \in DOMAIN search_paths[h], NEW i \in DOMAIN commands[h],
                 <<search_paths[h][j], commands[h][i]>> \in machine.exe
          PROVE  beside # {}
      <3>1. <<j, i>> \in beside
        BY <2>1
      <3> QED BY <3>1
    <2>2. ASSUME NEW p \in beside
          PROVE  \E j \in DOMAIN search_paths[h], i \in DOMAIN commands[h] :
                    <<search_paths[h][j], commands[h][i]>> \in machine.exe
      OBVIOUS
    <2> HIDE DEF beside
    <2>3. beside # {} <=> \E j \in DOMAIN search_paths[h], i \in DOMAIN commands[h] :
                            <<search_paths[h][j], commands[h][i]>> \in machine.exe
      BY <2>1, <2>2
    <2> QED BY <2>3, Zenon DEF Range
  <1> QED BY <1>3, <1>4, <1>5

\* The harnesses are those of the registry, in its order.
LEMMA HarnessesAre ==
    /\ DOMAIN HARNESSES = 1..5 /\ HARNESSES \in Seq(Range(HARNESSES))
    /\ \A n \in 1..5 : HARNESSES[n] \in Range(HARNESSES)
    /\ \A m, n \in 1..5 : HARNESSES[m] = HARNESSES[n] => m = n
    /\ Live \subseteq Range(HARNESSES)
    /\ \A h \in Live : search_paths[h] = <<h>>
    /\ \A h \in Range(HARNESSES) \ Live : search_paths[h] = <<>>
  <1>1. /\ HARNESSES = [n \in 1..5 |-> HARNESSES[n]] /\ Len(HARNESSES) = 5 /\ DOMAIN HARNESSES = 1..5
        /\ HARNESSES[1] = "claude-code" /\ HARNESSES[2] = "codex" /\ HARNESSES[3] = "cursor"
        /\ HARNESSES[4] = "devin" /\ HARNESSES[5] = "mistral-vibe"
    <2>1. HARNESSES = <<"claude-code", "codex", "cursor", "devin", "mistral-vibe">>
      BY DEF HARNESSES
    <2>2. Len(HARNESSES) = 5 /\ DOMAIN HARNESSES = 1..5
      BY <2>1
    <2>3. /\ HARNESSES[1] = "claude-code" /\ HARNESSES[2] = "codex" /\ HARNESSES[3] = "cursor"
          /\ HARNESSES[4] = "devin" /\ HARNESSES[5] = "mistral-vibe"
      BY <2>1
    <2>4. HARNESSES = [n \in 1..5 |-> HARNESSES[n]]
      BY <2>1
    <2> QED BY <2>2, <2>3, <2>4
  <1>2. \A n \in 1..5 : HARNESSES[n] \in Range(HARNESSES)
    BY <1>1 DEF Range
  <1>3. \A n \in 1..5 : n = 1 \/ n = 2 \/ n = 3 \/ n = 4 \/ n = 5
    OBVIOUS
  <1>4. \A m, n \in 1..5 : HARNESSES[m] = HARNESSES[n] => m = n
    BY <1>1, <1>3
  <1>5. Live \subseteq Range(HARNESSES)
    BY <1>1, <1>2 DEF Live
  <1>6. HARNESSES \in Seq(Range(HARNESSES))
    <2>1. PICK R : R = Range(HARNESSES)
      OBVIOUS
    <2>2. \A n \in DOMAIN HARNESSES : HARNESSES[n] \in R
      BY <1>1, <1>2, <2>1
    <2>3. HARNESSES \in Seq(R)
      BY <1>1, <2>2
    <2> QED BY <2>1, <2>3
  <1> QED BY <1>1, <1>2, <1>4, <1>5, <1>6 DEF search_paths

Pending == Listed(HARNESSES, Installed)

\* A call that tells of what it found tells of the harnesses in their order, of each
\* once, and of those that are installed.
LEMMA PendingIs ==
    ASSUME NEW a, machine \in Machine, Pending = [i \in DOMAIN a.agents |-> a.agents[i].id]
    PROVE  OrderIsKept(a)
  <1> DEFINE Turn(h) == CHOOSE i \in DOMAIN HARNESSES : HARNESSES[i] = h
  <1>1. PICK at : at = Installed
    OBVIOUS
  <1>2. at \in SUBSET (DOMAIN HARNESSES)
    BY <1>1 DEF Installed
  <1>3. PICK ids : ids = Pending
    OBVIOUS
  <1>4. /\ at \in SUBSET Nat /\ IsFiniteSet(at) /\ DOMAIN ids = 1..Cardinality(at)
        /\ \A k \in 1..Cardinality(at) : ids[k] = HARNESSES[Nth(at, k)]
        /\ Range(ids) = {HARNESSES[n] : n \in at}
    <2>1. PICK R : R = Range(HARNESSES)
      OBVIOUS
    <2>2. HARNESSES \in Seq(R)
      BY <2>1, HarnessesAre
    <2>3. ids = Listed(HARNESSES, at)
      BY <1>1, <1>3 DEF Pending
    <2> QED BY <1>2, <2>2, <2>3, ListedIs
  <1>5. /\ Cardinality(at) \in Nat
        /\ \A k \in 1..Cardinality(at) : Nth(at, k) \in at
        /\ \A j, k \in 1..Cardinality(at) : j < k => Nth(at, j) < Nth(at, k)
    BY <1>4, NthIs
  <1>6. \A n \in 1..5 : Turn(HARNESSES[n]) = n
    BY HarnessesAre
  <1> HIDE DEF Turn
  <1>7. \A i, j \in DOMAIN ids : i < j => Turn(ids[i]) < Turn(ids[j])
    <2>1. \A k \in DOMAIN ids : Turn(ids[k]) = Nth(at, k)
      BY <1>2, <1>4, <1>5, <1>6, HarnessesAre
    <2> QED BY <1>4, <1>5, <2>1
  <1>8. ASSUME NEW h \in Range(HARNESSES)
        PROVE  h \in Range(ids) <=>
                 \E place \in machine.exe :
                    /\ place[2] \in Range(commands[h])
                    /\ place[1] \in Range(PathDirs) \/ (h \in Live /\ place[1] = h)
    <2>1. h \in Range(ids) <=> find_first_command(h) # <<>>
      <3>1. PICK n \in 1..5 : HARNESSES[n] = h
        BY HarnessesAre DEF Range
      <3>2. h \in Range(ids) <=> n \in at
        BY <1>2, <1>4, <3>1, HarnessesAre
      <3> QED BY <1>1, <3>1, <3>2, HarnessesAre DEF Installed
    <2>2. \A p : p \in Range(search_paths[h]) <=> h \in Live /\ p = h
      <3>1. \A p : p \in Range(<<h>>) <=> p = h
        BY DEF Range
      <3>2. \A p : p \notin Range(<<>>)
        BY DEF Range
      <3>3. CASE h \in Live
        BY <3>1, <3>3, HarnessesAre
      <3>4. CASE h \notin Live
        BY <3>2, <3>4, HarnessesAre
      <3> QED BY <3>3, <3>4
    <2>3. \A place \in machine.exe : place = <<place[1], place[2]>>
      BY ProbeAssumption
    <2>4. ASSUME NEW place \in machine.exe
          PROVE  (\E p \in Range(PathDirs) \union Range(search_paths[h]), b \in Range(commands[h]) :
                     place = <<p, b>>) <=>
                 /\ place[2] \in Range(commands[h])
                 /\ place[1] \in Range(PathDirs) \/ (h \in Live /\ place[1] = h)
      BY <2>2, <2>3
    <2> QED BY <2>1, <2>4, CommandIs
  <1> QED BY <1>3, <1>7, <1>8 DEF OrderIsKept, Turn

------------------------------------------------------------------------------
(* The invariant of AgentProbe                                                 *)

SaidType == [id : 0..3, body : {"ok", "garbage", "error"}, config : Seq(OptionType)]
ModelsType == Seq(STRING) \union Seq(Lines)
ProbeType == [at : {"none", "reading", "kill", "drain", "over"}, step : 0..3, models : ModelsType]
ChildType == [run : {"none", "alive", "ended", "failed", "killed"}, kin : BOOLEAN,
              out : Seq(SaidType) \union Seq(Lines), read : Nat, login : {"none", "browser", "key"}]

ProbeTypes ==
    /\ machine \in Machine
    /\ calls = [r \in Caller |-> calls[r]]
    /\ \A r \in Caller :
          /\ calls[r] = [at |-> calls[r].at, pending |-> calls[r].pending, answer |-> calls[r].answer]
          /\ calls[r].at \in {"idle", "probing", "answered", "gone"}
    /\ probe \in [Caller -> [Live -> ProbeType]]
    /\ child \in [Caller -> [Live -> ChildType]]
    /\ cache = [fresh |-> cache.fresh, answer |-> cache.answer]

(* Of the requests to Devin those before n are answered, each after the one    *)
(* before, in what was read.                                                   *)
Ok(c, k, n) == c.out[k].id = n /\ c.out[k].body = "ok"
ToldBefore(c, n) ==
    /\ n = 2 => \E i \in 1..c.read : Ok(c, i, 1)
    /\ n = 3 => \E i, j \in 1..c.read : i < j /\ Ok(c, i, 1) /\ Ok(c, j, 2)

NoKey == read_local_api_key = ""

(* The task p that asks Devin, and its program c.                              *)
DevinOK(p, c) ==
    /\ c.out \in Seq(SaidType) /\ c.read <= Len(c.out)
    /\ p.at = "reading" => p.models = <<>> /\ p.step \in 1..3 /\ ToldBefore(c, p.step)
    /\ DevinIsQuoted([models |-> p.models, warning |-> p.models = <<>>], c)
    /\ p.at = "drain" => c.run # "alive"
    /\ c.login = "browser" => NoKey

(* The task p that reads what Cursor prints, and its program c.                *)
CursorOK(p, c) ==
    /\ c.out \in Seq(Lines)
    /\ p.at = "reading" => p.models = <<>>
    /\ CursorIsQuoted([models |-> p.models], c)

HarnessOK(h, p, c) == (h = "devin" => DevinOK(p, c)) /\ (h = "cursor" => CursorOK(p, c))

CallOK(r) ==
    /\ calls[r].at = "idle" => probe[r] = [h \in Live |-> NoProbe] /\ child[r] = [h \in Live |-> NoChild]
    /\ calls[r].at = "probing" => calls[r].pending = Pending
    /\ calls[r].at \in {"probing", "answered"} =>
          \A h \in Live : probe[r][h].at \in {"none", "over"} => child[r][h].run # "alive"
    /\ calls[r].at = "answered" => \A h \in Live : probe[r][h].at \in {"none", "over"}

AnswerOK(a) ==
    /\ OrderIsKept(a) /\ a.by \in Caller /\ calls[a.by].at = "answered"
    /\ \A i \in DOMAIN a.agents :
          /\ a.agents[i].id = "devin" => DevinIsQuoted(a.agents[i], child[a.by]["devin"])
          /\ a.agents[i].id = "cursor" => CursorIsQuoted(a.agents[i], child[a.by]["cursor"])

ProbeInv ==
    /\ ProbeTypes
    /\ \A r \in Caller : CallOK(r) /\ \A h \in Live : HarnessOK(h, probe[r][h], child[r][h])
    /\ \A r \in Caller : calls[r].at = "answered" => AnswerOK(calls[r].answer)
    /\ cache.fresh => AnswerOK(cache.answer)

\* Nothing was asked of, and nothing said by, a program that was not started.
LEMMA NothingYet ==
    /\ NoProbe \in ProbeType /\ NoChild \in ChildType
    /\ \A h \in Live : HarnessOK(h, NoProbe, NoChild)
  <1>1. <<>> \in ModelsType /\ <<>> \in Seq(SaidType) /\ <<>> \in Seq(Lines) /\ Len(<<>>) = 0
    BY DEF ModelsType
  <1>2. NoProbe \in ProbeType /\ NoChild \in ChildType
    BY <1>1 DEF NoProbe, ProbeType, NoChild, ChildType
  <1>3. DevinOK(NoProbe, NoChild)
    <2>1. DevinIsQuoted([models |-> NoProbe.models, warning |-> NoProbe.models = <<>>], NoChild)
      BY DEF DevinIsQuoted, NoProbe
    <2>2. /\ NoChild.out = <<>> /\ NoChild.read = 0 /\ NoChild.login = "none"
          /\ NoProbe.at = "none"
      BY DEF NoProbe, NoChild
    <2> QED BY <1>1, <2>1, <2>2 DEF DevinOK
  <1>4. CursorOK(NoProbe, NoChild)
    BY <1>1 DEF CursorOK, NoProbe, NoChild, CursorIsQuoted
  <1> QED BY <1>2, <1>3, <1>4 DEF HarnessOK

\* The invariant holds before any call.
LEMMA ProbeInitInv == ProbeInit => ProbeInv
  <1> SUFFICES ASSUME ProbeInit PROVE ProbeInv
    OBVIOUS
  <1>1. ProbeTypes
    BY NothingYet DEF ProbeInit, ProbeTypes
  <1>2. \A r \in Caller : CallOK(r) /\ \A h \in Live : HarnessOK(h, probe[r][h], child[r][h])
    BY NothingYet DEF ProbeInit, CallOK
  <1>3. /\ \A r \in Caller : calls[r].at # "answered"
        /\ ~cache.fresh
    BY DEF ProbeInit
  <1> QED BY <1>1, <1>2, <1>3 DEF ProbeInv

(* Three messages answer the requests, and the last offers the models.         *)
Exchange(models, a, b, m) ==
    /\ a.id = 1 /\ a.body = "ok" /\ b.id = 2 /\ b.body = "ok" /\ m.id = 3 /\ m.body = "ok"
    /\ \E n \in DOMAIN m.config :
          /\ m.config[n].isModel /\ Offers(m.config[n]) = Range(models)
          /\ m.config[n].current \in Offers(m.config[n]) => models[1] = m.config[n].current
          /\ \A l \in 1..(n - 1) : m.config[l].isModel => Offers(m.config[l]) = {}

(* DevinIsQuoted, of the lines that a program said and how many were read.     *)
Quoted(info, out, read) ==
    IF info.models = <<>> THEN info.warning
    ELSE /\ ~info.warning /\ IsInjective(info.models)
         /\ \E i, j, k \in 1..read : i < j /\ j < k /\ Exchange(info.models, out[i], out[j], out[k])

\* What is quoted depends on the lines of a program and on how many were read.
LEMMA QuotedIs == \A info, c : DevinIsQuoted(info, c) <=> Quoted(info, c.out, c.read)
  BY DEF DevinIsQuoted, Quoted, Offers, Exchange

\* Of a program of Devin it matters what was read.
LEMMA QuotedSame ==
    ASSUME NEW info, NEW c, NEW d, c.out = d.out, c.read = d.read, DevinIsQuoted(info, c)
    PROVE  DevinIsQuoted(info, d)
  BY QuotedIs, Zenon

\* What was answered stands, as long as nobody touches what the programs said.
LEMMA AnswerStays ==
    ASSUME NEW a, AnswerOK(a), machine' = machine, calls'[a.by].at = "answered",
           \A h \in Live : /\ child'[a.by][h].out = child[a.by][h].out
                           /\ child'[a.by][h].read = child[a.by][h].read
                           /\ child'[a.by][h].run = child[a.by][h].run
    PROVE  AnswerOK(a)'
  <1>1. OrderIsKept(a)'
    BY DEF AnswerOK, OrderIsKept
  <1>2. ASSUME NEW i \in DOMAIN a.agents, a.agents[i].id = "devin"
        PROVE  DevinIsQuoted(a.agents[i], child[a.by]["devin"])'
    <2>1. DevinIsQuoted(a.agents[i], child[a.by]["devin"])
      BY <1>2 DEF AnswerOK
    <2>2. /\ child'[a.by]["devin"].out = child[a.by]["devin"].out
          /\ child'[a.by]["devin"].read = child[a.by]["devin"].read
      BY DEF Live
    <2> QED BY <2>1, <2>2, QuotedSame
  <1>3. ASSUME NEW i \in DOMAIN a.agents, a.agents[i].id = "cursor"
        PROVE  CursorIsQuoted(a.agents[i], child[a.by]["cursor"])'
    <2>1. CursorIsQuoted(a.agents[i], child[a.by]["cursor"])
      BY <1>3 DEF AnswerOK
    <2>2. /\ child'[a.by]["cursor"].out = child[a.by]["cursor"].out
          /\ child'[a.by]["cursor"].run = child[a.by]["cursor"].run
      BY DEF Live
    <2> QED BY <2>1, <2>2 DEF CursorIsQuoted
  <1> QED BY <1>1, <1>2, <1>3 DEF AnswerOK

\* A task and its program take a step.
LEMMA TaskSteps ==
    ASSUME ProbeInv, NEW r \in Caller, NEW h \in Live, NEW p \in ProbeType, NEW c \in ChildType,
           probe' = [probe EXCEPT ![r][h] = p], child' = [child EXCEPT ![r][h] = c],
           UNCHANGED <<machine, calls, cache>>, calls[r].at # "idle", HarnessOK(h, p, c),
           p.at \in {"none", "over"} => c.run # "alive" \/ calls[r].at = "gone",
           calls[r].at = "answered" =>
               /\ p.at = probe[r][h].at /\ c.run = child[r][h].run
               /\ c.out = child[r][h].out /\ c.read = child[r][h].read
    PROVE  ProbeInv'
  <1>1. /\ probe \in [Caller -> [Live -> ProbeType]] /\ child \in [Caller -> [Live -> ChildType]]
        /\ machine \in Machine
    BY DEF ProbeInv, ProbeTypes
  <1>2. /\ probe' \in [Caller -> [Live -> ProbeType]] /\ child' \in [Caller -> [Live -> ChildType]]
        /\ probe'[r][h] = p /\ child'[r][h] = c
        /\ \A q \in Caller, g \in Live : q # r \/ g # h =>
              probe'[q][g] = probe[q][g] /\ child'[q][g] = child[q][g]
        /\ \A q \in Caller \ {r} : probe'[q] = probe[q] /\ child'[q] = child[q]
    BY <1>1
  <1>3. ProbeTypes'
    BY <1>2 DEF ProbeInv, ProbeTypes
  <1>4. ASSUME NEW g, NEW u, NEW v, HarnessOK(g, u, v)
        PROVE  HarnessOK(g, u, v)'
    <2>1. NoKey' = NoKey
      BY DEF NoKey, read_local_api_key
    <2>2. DevinOK(u, v) => DevinOK(u, v)'
      BY <2>1 DEF DevinOK
    <2>3. CursorOK(u, v) => CursorOK(u, v)'
      BY DEF CursorOK
    <2> QED BY <1>4, <2>2, <2>3 DEF HarnessOK
  <1>5. ASSUME NEW q \in Caller, NEW g \in Live
        PROVE  HarnessOK(g, probe[q][g], child[q][g])'
    BY <1>2, <1>4 DEF ProbeInv
  <1>6. ASSUME NEW q \in Caller
        PROVE  CallOK(q)'
    <2>1. Pending' = Pending
      BY DEF Pending, Installed, find_first_command
    <2> QED BY <1>2, <2>1 DEF ProbeInv, CallOK
  <1>7. ASSUME NEW a, AnswerOK(a)
        PROVE  AnswerOK(a)'
    <2>1. a.by \in Caller /\ calls[a.by].at = "answered"
      BY <1>7 DEF AnswerOK
    <2>2. \A g \in Live : /\ child'[a.by][g].out = child[a.by][g].out
                          /\ child'[a.by][g].read = child[a.by][g].read
                          /\ child'[a.by][g].run = child[a.by][g].run
      BY <1>2, <2>1
    <2> QED BY <1>7, <2>1, <2>2, AnswerStays
  <1> QED BY <1>3, <1>5, <1>6, <1>7 DEF ProbeInv

\* A program that has more to say, or has ended, has said what was read.
LEMMA DevinGoes ==
    ASSUME NEW p \in ProbeType, NEW c \in ChildType, NEW d \in ChildType, DevinOK(p, c),
           d.out \in Seq(SaidType), Len(d.out) >= Len(c.out), d.read = c.read, d.login = c.login,
           \A k \in DOMAIN c.out : d.out[k] = c.out[k], d.run # "alive" \/ d.run = c.run
    PROVE  DevinOK(p, d)
  <1>1. /\ c.out \in Seq(SaidType) /\ c.read <= Len(c.out)
        /\ c.read \in Nat /\ Len(c.out) \in Nat /\ Len(d.out) \in Nat
    BY DEF DevinOK, ChildType
  <1>2. \A k \in 1..c.read : d.out[k] = c.out[k]
    BY <1>1
  <1>3. ASSUME NEW info, DevinIsQuoted(info, c)
        PROVE  DevinIsQuoted(info, d)
    <2>1. Quoted(info, c.out, c.read)
      BY <1>3, QuotedIs
    <2>2. Quoted(info, d.out, c.read)
      <3>1. CASE info.models = <<>>
        BY <2>1, <3>1 DEF Quoted
      <3>2. CASE info.models # <<>>
        <4>1. PICK i \in 1..c.read, j \in 1..c.read, k \in 1..c.read :
                 i < j /\ j < k /\ Exchange(info.models, c.out[i], c.out[j], c.out[k])
          BY <2>1, <3>2 DEF Quoted
        <4>2. d.out[i] = c.out[i] /\ d.out[j] = c.out[j] /\ d.out[k] = c.out[k]
          BY <1>2
        <4>3. ~info.warning /\ IsInjective(info.models)
          BY <2>1, <3>2 DEF Quoted
        <4> QED BY <3>2, <4>1, <4>2, <4>3 DEF Quoted
      <3> QED BY <3>1, <3>2
    <2> QED BY <2>2, QuotedIs
  <1>4. DevinIsQuoted([models |-> p.models, warning |-> p.models = <<>>], d)
    BY <1>3 DEF DevinOK
  <1>5. p.at = "reading" => p.models = <<>> /\ p.step \in 1..3 /\ ToldBefore(d, p.step)
    BY <1>2 DEF DevinOK, ToldBefore, Ok
  <1> QED BY <1>1, <1>4, <1>5 DEF DevinOK

\* What a program says is a line, or a message of the types.
LEMMA MessageIs == \A n \in 1..3 : Message(n) \subseteq SaidType
  <1>1. <<>> \in Seq(OptionType)
    OBVIOUS
  <1>2. Configs \subseteq Seq(OptionType)
    BY ProbeAssumption DEF OptionType
  <1>3. ASSUME NEW n \in 1..3, NEW m \in Message(n)
        PROVE  /\ m = [id |-> m.id, body |-> m.body, config |-> m.config]
               /\ m.id \in 0..3 /\ m.body \in {"ok", "garbage", "error"}
               /\ m.config \in {<<>>} \union Configs
    <2>1. CASE m \in [id : {0}, body : {"ok", "garbage"}, config : {<<>>}]
      BY <2>1
    <2>2. CASE m \in [id : 1..n, body : {"error"}, config : {<<>>}]
      BY <2>2
    <2>3. CASE m \in [id : 1..n \ {3}, body : {"ok"}, config : {<<>>}]
      BY <2>3
    <2>4. CASE n = 3 /\ m \in [id : {3}, body : {"ok"}, config : Configs]
      BY <2>4
    <2> QED BY <1>3, <2>1, <2>2, <2>3, <2>4 DEF Message
  <1>4. ASSUME NEW n \in 1..3, NEW m \in Message(n)
        PROVE  m \in SaidType
    <2>1. m.config \in Seq(OptionType)
      BY <1>1, <1>2, <1>3
    <2> QED BY <1>3, <2>1 DEF SaidType
  <1> QED BY <1>4

\* What the invariant says of one program and of the call it runs for.
LEMMA Parts ==
    ASSUME ProbeInv, NEW r \in Caller, NEW h \in Live
    PROVE  /\ probe \in [Caller -> [Live -> ProbeType]] /\ child \in [Caller -> [Live -> ChildType]]
           /\ probe[r][h] \in ProbeType /\ child[r][h] \in ChildType
           /\ HarnessOK(h, probe[r][h], child[r][h]) /\ CallOK(r) /\ machine \in Machine
           /\ probe = [probe EXCEPT ![r][h] = probe[r][h]]
           /\ child = [child EXCEPT ![r][h] = child[r][h]]
           /\ calls[r].at = "idle" => probe[r][h] = NoProbe /\ child[r][h] = NoChild
           /\ calls[r].at = "answered" => probe[r][h].at \in {"none", "over"} /\ child[r][h].run # "alive"
           /\ calls[r].at = "probing" /\ probe[r][h].at \in {"none", "over"} => child[r][h].run # "alive"
           /\ calls[r].at \in {"idle", "probing", "answered", "gone"}
  <1>1. /\ probe \in [Caller -> [Live -> ProbeType]] /\ child \in [Caller -> [Live -> ChildType]]
        /\ machine \in Machine /\ calls[r].at \in {"idle", "probing", "answered", "gone"}
    BY DEF ProbeInv, ProbeTypes
  <1>2. HarnessOK(h, probe[r][h], child[r][h]) /\ CallOK(r)
    BY DEF ProbeInv
  <1>3. probe = [probe EXCEPT ![r][h] = probe[r][h]] /\ child = [child EXCEPT ![r][h] = child[r][h]]
    BY <1>1
  <1> QED BY <1>1, <1>2, <1>3 DEF CallOK

\* A line in the pipe changes nothing of what was read.
LEMMA SaysKeeps ==
    ASSUME ProbeInv, NEW r \in Caller, NEW h \in Live, Says(r, h)
    PROVE  ProbeInv'
  <1> DEFINE p == probe[r][h]
  <1>1. p.at = "reading" /\ child[r][h].run = "alive"
    BY DEF Says, ProbeAt
  <1>2. PICK said \in IF h = "devin" THEN Message(probe[r][h].step) ELSE Lines :
           child' = [child EXCEPT ![r][h].out = Append(@, said)]
    BY DEF Says
  <1>3. PICK d : d = [child[r][h] EXCEPT !.out = Append(@, said)]
    OBVIOUS
  <1>4. p \in ProbeType /\ child[r][h] \in ChildType /\ HarnessOK(h, p, child[r][h])
    BY Parts
  <1>5. child' = [child EXCEPT ![r][h] = d]
    BY <1>2, <1>3
  <1>6. calls[r].at \in {"probing", "gone"}
    BY <1>1, Parts DEF NoProbe
  <1>7. CASE h = "devin"
    <2>1. /\ child[r][h].out \in Seq(SaidType) /\ p.step \in 1..3 /\ DevinOK(p, child[r][h])
      BY <1>1, <1>4, <1>7 DEF HarnessOK, DevinOK
    <2>2. said \in SaidType
      BY <1>2, <1>7, <2>1, MessageIs
    <2>3. /\ d \in ChildType /\ d.out \in Seq(SaidType) /\ Len(d.out) >= Len(child[r][h].out)
          /\ d.read = child[r][h].read /\ d.login = child[r][h].login /\ d.run = child[r][h].run
          /\ \A k \in DOMAIN child[r][h].out : d.out[k] = child[r][h].out[k]
      <3>1. PICK out, out1 : out = child[r][h].out /\ out1 = Append(out, said)
        OBVIOUS
      <3>2. /\ out1 \in Seq(SaidType) /\ Len(out1) = Len(out) + 1
            /\ \A k \in 1..Len(out) : out1[k] = out[k]
        BY <2>1, <2>2, <3>1, AppendProperties
      <3>3. d = [child[r][h] EXCEPT !.out = out1]
        BY <1>3, <3>1
      <3>4. d.out = out1 /\ Len(d.out) >= Len(out) /\ d \in ChildType
        <4>1. Len(out) \in Nat /\ Len(out1) >= Len(out)
          BY <2>1, <3>1, <3>2
        <4>2. out1 \in Seq(SaidType) \union Seq(Lines)
          BY <3>2
        <4>3. d.out = out1 /\ d \in ChildType
          BY <1>4, <3>3, <4>2 DEF ChildType
        <4> QED BY <4>1, <4>3
      <3>5. DOMAIN out = 1..Len(out)
        BY <2>1, <3>1
      <3> QED BY <1>4, <3>1, <3>2, <3>3, <3>4, <3>5 DEF ChildType
    <2>4. DevinOK(p, d)
      BY <1>4, <2>1, <2>3, DevinGoes
    <2>5. HarnessOK(h, p, d)
      BY <1>7, <2>4 DEF HarnessOK
    <2> QED BY <1>1, <1>4, <1>5, <1>6, <2>3, <2>5, Parts, TaskSteps DEF Says
  <1>8. CASE h = "cursor"
    <2>1. child[r][h].out \in Seq(Lines) /\ p.models = <<>> /\ said \in Lines
      BY <1>1, <1>2, <1>4, <1>8 DEF HarnessOK, CursorOK
    <2>2. d \in ChildType /\ d.out \in Seq(Lines) /\ d.run = "alive"
      <3>1. PICK out1 : out1 = Append(child[r][h].out, said)
        OBVIOUS
      <3>2. out1 \in Seq(Lines)
        BY <2>1, <3>1, AppendProperties
      <3>3. d = [child[r][h] EXCEPT !.out = out1]
        BY <1>3, <3>1
      <3> QED BY <1>1, <1>4, <3>2, <3>3 DEF ChildType
    <2>3. HarnessOK(h, p, d)
      BY <1>8, <2>1, <2>2 DEF HarnessOK, CursorOK, CursorIsQuoted
    <2> QED BY <1>1, <1>4, <1>5, <1>6, <2>2, <2>3, Parts, TaskSteps DEF Says
  <1> QED BY <1>7, <1>8 DEF Live

\* A step of a program that leaves what it said alone.
LEMMA ProgramKeeps ==
    ASSUME ProbeInv, NEW r \in Caller, NEW h \in Live, NEW d \in ChildType,
           child' = [child EXCEPT ![r][h] = d], UNCHANGED <<machine, calls, probe, cache>>,
           d.out = child[r][h].out, d.read = child[r][h].read, d.login = child[r][h].login,
           \/ d.run = child[r][h].run
           \/ child[r][h].run = "alive" /\ d.run # "alive",
           calls[r].at # "idle"
    PROVE  ProbeInv'
  <1> DEFINE p == probe[r][h]
  <1>1. p \in ProbeType /\ child[r][h] \in ChildType /\ HarnessOK(h, p, child[r][h])
    BY Parts
  <1>2. HarnessOK(h, p, d)
    <2>1. CASE h = "devin"
      <3>1. DevinOK(p, child[r][h]) /\ child[r][h].out \in Seq(SaidType)
        BY <1>1, <2>1 DEF HarnessOK, DevinOK
      <3>2. DevinOK(p, d)
        BY <1>1, <3>1, DevinGoes
      <3> QED BY <2>1, <3>2 DEF HarnessOK
    <2>2. CASE h = "cursor"
      BY <1>1, <2>2 DEF HarnessOK, CursorOK, CursorIsQuoted
    <2> QED BY <2>1, <2>2 DEF Live
  <1>3. probe' = [probe EXCEPT ![r][h] = p] /\ UNCHANGED <<machine, calls, cache>>
    BY Parts
  <1>4. /\ p.at \in {"none", "over"} => d.run # "alive" \/ calls[r].at = "gone"
        /\ calls[r].at = "answered" => d.run = child[r][h].run
    BY Parts
  <1> HIDE DEF p
  <1> QED BY <1>1, <1>2, <1>3, <1>4, TaskSteps DEF p

\* A program that ends says no more.
LEMMA ExitsKeeps ==
    ASSUME ProbeInv, NEW r \in Caller, NEW h \in Live, Exits(r, h)
    PROVE  ProbeInv'
  <1>1. PICK how \in {"ended", "failed"}, kin \in BOOLEAN :
           child' = [child EXCEPT ![r][h] = [@ EXCEPT !.run = how, !.kin = kin]]
    BY DEF Exits
  <1>2. child[r][h].run = "alive" /\ child[r][h] \in ChildType /\ calls[r].at # "idle"
    BY Parts DEF Exits, NoChild
  <1>3. PICK d : d = [child[r][h] EXCEPT !.run = how, !.kin = kin]
    OBVIOUS
  <1>4. /\ d \in ChildType /\ d.run = how /\ d.out = child[r][h].out /\ d.read = child[r][h].read
        /\ d.login = child[r][h].login
    BY <1>2, <1>3 DEF ChildType
  <1>5. child' = [child EXCEPT ![r][h] = d]
    BY <1>1, <1>3
  <1> QED BY <1>2, <1>4, <1>5, ProgramKeeps DEF Exits

\* Nothing is said of the processes a program leaves behind.
LEMMA KinEndsKeeps ==
    ASSUME ProbeInv, NEW r \in Caller, NEW h \in Live, KinEnds(r, h)
    PROVE  ProbeInv'
  <1>1. PICK d : d = [child[r][h] EXCEPT !.kin = FALSE]
    OBVIOUS
  <1>2. child[r][h] \in ChildType /\ calls[r].at # "idle"
    BY Parts DEF KinEnds, NoChild
  <1>3. /\ d \in ChildType /\ d.run = child[r][h].run /\ d.out = child[r][h].out
        /\ d.read = child[r][h].read /\ d.login = child[r][h].login
    BY <1>1, <1>2 DEF ChildType
  <1>4. child' = [child EXCEPT ![r][h] = d]
    BY <1>1 DEF KinEnds
  <1> QED BY <1>2, <1>3, <1>4, ProgramKeeps DEF KinEnds

------------------------------------------------------------------------------
(* The exchange with Devin                                                     *)

\* A line more was read: what was asked stays asked, and an answer in turn leads to
\* the next request, or to the models.
LEMMA DevinReads ==
    ASSUME NEW p \in ProbeType, NEW c \in ChildType, NEW d \in ChildType, DevinOK(p, c),
           p.at = "reading", c.read < Len(c.out), d.out = c.out, d.read = c.read + 1,
           d.login = "browser" => NoKey,
           NEW q \in ProbeType, NEW m, m = c.out[c.read + 1],
           \/ q = p
           \/ q.at = "kill" /\ q.models = <<>>
           \/ /\ m.id = p.step /\ m.body = "ok" /\ p.step < 3
              /\ q.at = "reading" /\ q.models = <<>> /\ q.step = p.step + 1
           \/ /\ m.id = p.step /\ m.body = "ok" /\ p.step = 3
              /\ q.at = "kill" /\ q.models = models_from_session_config(m.config)
    PROVE  DevinOK(q, d)
  <1>1. /\ c.out \in Seq(SaidType) /\ c.read \in Nat /\ d.read \in Nat /\ d.read <= Len(c.out)
        /\ d.read \in 1..Len(c.out) /\ p.models = <<>> /\ p.step \in 1..3 /\ ToldBefore(c, p.step)
    BY DEF DevinOK, ChildType
  <1>2. m \in SaidType
    BY <1>1
  <1>3. \A i \in 1..c.read : i \in 1..d.read /\ i < d.read
    BY <1>1
  <1>4. ToldBefore(d, p.step)
    BY <1>1, <1>3 DEF ToldBefore, Ok
  <1>5. \A u : u.models = <<>> => DevinIsQuoted([models |-> u.models, warning |-> u.models = <<>>], d)
    BY DEF DevinIsQuoted
  <1>6. CASE q = p
    <2>1. DevinIsQuoted([models |-> p.models, warning |-> p.models = <<>>], d)
      BY <1>1, <1>5
    <2> QED BY <1>1, <1>4, <1>6, <2>1 DEF DevinOK
  <1>7. CASE q.at = "kill" /\ q.models = <<>>
    <2>1. DevinIsQuoted([models |-> q.models, warning |-> q.models = <<>>], d)
      BY <1>5, <1>7
    <2> QED BY <1>1, <1>7, <2>1 DEF DevinOK
  <1>8. CASE /\ m.id = p.step /\ m.body = "ok" /\ p.step < 3
             /\ q.at = "reading" /\ q.models = <<>> /\ q.step = p.step + 1
    <2>1. Ok(d, d.read, p.step) /\ d.read \in 1..d.read
      BY <1>1, <1>8 DEF Ok
    <2>2. ToldBefore(d, q.step)
      <3>1. CASE p.step = 1
        BY <1>8, <2>1, <3>1 DEF ToldBefore
      <3>2. CASE p.step = 2
        <4>1. PICK i \in 1..c.read : Ok(c, i, 1)
          BY <1>1, <3>2 DEF ToldBefore
        <4>2. i \in 1..d.read /\ i < d.read /\ Ok(d, i, 1)
          BY <1>3, <4>1 DEF Ok
        <4> QED BY <1>8, <2>1, <3>2, <4>2 DEF ToldBefore
      <3> QED BY <1>1, <1>8, <3>1, <3>2
    <2>3. DevinIsQuoted([models |-> q.models, warning |-> q.models = <<>>], d)
      BY <1>5, <1>8
    <2> QED BY <1>1, <1>8, <2>2, <2>3 DEF DevinOK
  <1>9. CASE /\ m.id = p.step /\ m.body = "ok" /\ p.step = 3
             /\ q.at = "kill" /\ q.models = models_from_session_config(m.config)
    <2>1. m.config \in Seq(OptionType)
      BY <1>2 DEF SaidType
    <2>2. CASE q.models = <<>>
      BY <1>7, <1>9, <2>2
    <2>3. CASE q.models # <<>>
      <3>1. PICK i \in 1..c.read, j \in 1..c.read : i < j /\ Ok(c, i, 1) /\ Ok(c, j, 2)
        BY <1>1, <1>9 DEF ToldBefore
      <3>2. Exchange(q.models, d.out[i], d.out[j], d.out[d.read]) /\ IsInjective(q.models)
        <4>1. PICK models : models = models_from_session_config(m.config)
          OBVIOUS
        <4>2. /\ IsInjective(models)
              /\ \E n \in DOMAIN m.config :
                    /\ m.config[n].isModel /\ Offers(m.config[n]) = Range(models)
                    /\ m.config[n].current \in Offers(m.config[n]) => models[1] = m.config[n].current
                    /\ \A l \in 1..(n - 1) : m.config[l].isModel => Offers(m.config[l]) = {}
          BY <1>9, <2>1, <2>3, <4>1, SessionConfigIs
        <4>3. /\ d.out[i].id = 1 /\ d.out[i].body = "ok" /\ d.out[j].id = 2 /\ d.out[j].body = "ok"
              /\ d.out[d.read] = m /\ m.id = 3 /\ m.body = "ok"
          BY <1>9, <3>1 DEF Ok
        <4> QED BY <1>9, <4>1, <4>2, <4>3 DEF Exchange
      <3>3. i \in 1..d.read /\ j \in 1..d.read /\ d.read \in 1..d.read /\ j < d.read
        BY <1>1, <1>3
      <3>4. Quoted([models |-> q.models, warning |-> q.models = <<>>], d.out, d.read)
        BY <2>3, <3>1, <3>2, <3>3 DEF Quoted
      <3>5. DevinIsQuoted([models |-> q.models, warning |-> q.models = <<>>], d)
        BY <3>4, QuotedIs
      <3> QED BY <1>1, <1>9, <3>5 DEF DevinOK
    <2> QED BY <2>2, <2>3
  <1> QED BY <1>6, <1>7, <1>8, <1>9

\* The answer to a request is read after those to the requests before it.
LEMMA WaitKeeps ==
    ASSUME ProbeInv, NEW r \in Caller, wait_for_response(r)
    PROVE  ProbeInv'
  <1> DEFINE p == probe[r]["devin"]
             c == child[r]["devin"]
             m == c.out[c.read + 1]
             answers == m.id \in {p.step}
  <1>1. "devin" \in Live
    BY DEF Live
  <1>2. /\ p \in ProbeType /\ c \in ChildType /\ DevinOK(p, c)
        /\ probe = [probe EXCEPT ![r]["devin"] = p]
        /\ child \in [Caller -> [Live -> ChildType]] /\ probe \in [Caller -> [Live -> ProbeType]]
    BY <1>1, Parts DEF HarnessOK
  <1>3. /\ p.at = "reading" /\ c.read < Len(c.out) /\ UNCHANGED <<machine, calls, cache>>
    BY DEF wait_for_response, Take, ProbeAt
  <1>4. calls[r].at \in {"probing", "gone"}
    BY <1>1, <1>3, Parts DEF NoProbe
  <1>5. /\ c.out \in Seq(SaidType) /\ c.read \in Nat /\ Len(c.out) \in Nat /\ p.step \in 1..3
        /\ p.models = <<>> /\ (c.login = "browser" => NoKey)
    BY <1>2, <1>3 DEF DevinOK, ChildType
  <1>6. m \in SaidType
    BY <1>3, <1>5
  <1>7. PICK login : login = IF answers /\ m.body = "ok" /\ p.step = 1 /\ PipesOpen(c) THEN Login ELSE c.login
    OBVIOUS
  <1>8. PICK d : d = [c EXCEPT !.read = c.read + 1, !.login = login]
    OBVIOUS
  <1>9. child' = [child EXCEPT ![r]["devin"] = d]
    <2>1. child' = [child EXCEPT ![r]["devin"] = [c EXCEPT !.read = c.read + 1, !.login =
                       IF answers /\ m.body = "ok" /\ p.step = 1 /\ PipesOpen(c) THEN Login ELSE c.login]]
      BY DEF wait_for_response, Take
    <2> HIDE DEF p, c, m, answers
    <2> QED BY <1>7, <1>8, <2>1
  <1>10. /\ login \in {"none", "browser", "key"}
         /\ login = "browser" => NoKey
    <2>1. Login \in {"browser", "key"} /\ (Login = "browser" => NoKey)
      BY DEF Login, NoKey
    <2>2. c.login \in {"none", "browser", "key"}
      BY <1>2 DEF ChildType
    <2> HIDE DEF p, c, m, answers
    <2> QED BY <1>5, <1>7, <2>1, <2>2
  <1>11. /\ d \in ChildType /\ d.read = c.read + 1 /\ d.out = c.out /\ d.login = login /\ d.run = c.run
    <2> HIDE DEF p, c, m, answers
    <2>1. PICK n \in Nat : n = c.read + 1
      BY <1>5
    <2>2. d = [c EXCEPT !.read = n, !.login = login]
      BY <1>8, <2>1
    <2> QED BY <1>2, <1>10, <2>1, <2>2 DEF ChildType
  <1>12. PICK none, next, last :
            /\ none = [p EXCEPT !.at = "kill", !.models = <<>>]
            /\ next = [p EXCEPT !.step = @ + 1]
            /\ last = [p EXCEPT !.at = "kill", !.models = models_from_session_config(m.config)]
    OBVIOUS
  <1>13. \/ probe' = [probe EXCEPT ![r]["devin"] = none]
         \/ probe' = [probe EXCEPT ![r]["devin"] = p]
         \/ probe' = [probe EXCEPT ![r]["devin"] = next] /\ answers /\ m.body = "ok" /\ p.step < 3
         \/ probe' = [probe EXCEPT ![r]["devin"] = last] /\ answers /\ m.body = "ok" /\ p.step = 3
    <2>1. CASE m.body = "garbage" \/ (m.body = "error" /\ answers)
      BY <1>12, <2>1 DEF wait_for_response, Take, Settle
    <2>2. CASE m.body # "garbage" /\ ~answers
      BY <1>2, <2>2 DEF wait_for_response, Take
    <2>3. CASE m.body = "ok" /\ answers /\ p.step < 3
      <3>1. Proceed(r)
        BY <2>3 DEF wait_for_response, Take
      <3> QED BY <1>12, <2>3, <3>1 DEF Proceed, Settle
    <2>4. CASE m.body = "ok" /\ answers /\ p.step = 3
      <3>1. Settle(r, "devin", models_from_session_config(m.config))
        BY <2>4 DEF wait_for_response, Take
      <3> QED BY <1>12, <2>4, <3>1 DEF Settle
    <2>5. m.body \in {"ok", "garbage", "error"}
      BY <1>6 DEF SaidType
    <2> HIDE DEF p, c, m, answers
    <2> QED BY <1>5, <2>1, <2>2, <2>3, <2>4, <2>5
  <1>14. /\ none \in ProbeType /\ none.at = "kill" /\ none.models = <<>>
         /\ p.step < 3 => next \in ProbeType
         /\ next.at = "reading" /\ next.models = <<>> /\ next.step = p.step + 1
         /\ last \in ProbeType /\ last.at = "kill" /\ last.models = models_from_session_config(m.config)
    <2>1. <<>> \in ModelsType
      BY DEF ModelsType
    <2>2. models_from_session_config(m.config) \in ModelsType
      <3>1. m.config \in Seq(OptionType)
        BY <1>6 DEF SaidType
      <3> QED BY <3>1, SessionConfigIs DEF ModelsType
    <2>3. PICK models : models = models_from_session_config(m.config)
      OBVIOUS
    <2> HIDE DEF p, c, m
    <2>4. none \in ProbeType /\ none.at = "kill" /\ none.models = <<>>
      BY <1>2, <1>12, <2>1 DEF ProbeType
    <2>5. last \in ProbeType /\ last.at = "kill" /\ last.models = models
      BY <1>2, <1>12, <2>2, <2>3 DEF ProbeType
    <2>6. next.at = "reading" /\ next.models = <<>> /\ next.step = p.step + 1
      BY <1>2, <1>3, <1>5, <1>12 DEF ProbeType
    <2>7. p.step < 3 => next \in ProbeType
      <3>1. p.step < 3 => p.step + 1 \in 0..3
        BY <1>5
      <3> QED BY <1>2, <1>12, <3>1 DEF ProbeType
    <2> QED BY <2>3, <2>4, <2>5, <2>6, <2>7
  <1>15. PICK q \in ProbeType : probe' = [probe EXCEPT ![r]["devin"] = q] /\ DevinOK(q, d)
                                /\ q.at \in {"kill", "reading"}
    <2>1. ASSUME NEW q \in ProbeType, q = p \/ (q.at = "kill" /\ q.models = <<>>)
          PROVE  DevinOK(q, d)
      <3> HIDE DEF p, c
      <3> QED BY <1>2, <1>3, <1>10, <1>11, <2>1, DevinReads
    <2>2. ASSUME answers, m.body = "ok", p.step < 3
          PROVE  DevinOK(next, d)
      <3>1. m.id = p.step /\ next \in ProbeType
        BY <1>14, <2>2
      <3> HIDE DEF p, c, answers
      <3>2. next.at = "reading" /\ next.models = <<>> /\ next.step = p.step + 1
        BY <1>14
      <3>3. m = c.out[c.read + 1]
        OBVIOUS
      <3>4. /\ m.id = p.step /\ m.body = "ok" /\ p.step < 3
            /\ next.at = "reading" /\ next.models = <<>> /\ next.step = p.step + 1
        BY <2>2, <3>1, <3>2
      <3>5. d.login = "browser" => NoKey
        BY <1>10, <1>11
      <3>6. DevinOK(p, c) /\ p \in ProbeType /\ c \in ChildType /\ p.at = "reading" /\ c.read < Len(c.out)
        BY <1>2, <1>3
      <3> HIDE DEF m
      <3> QED BY <1>11, <3>1, <3>3, <3>4, <3>5, <3>6, DevinReads
    <2>3. ASSUME answers, m.body = "ok", p.step = 3
          PROVE  DevinOK(last, d)
      <3>1. m.id = p.step
        BY <2>3
      <3> HIDE DEF p, c, answers
      <3> QED BY <1>2, <1>3, <1>10, <1>11, <1>14, <2>3, <3>1, DevinReads
    <2> HIDE DEF p, c, m, answers
    <2> QED BY <1>2, <1>3, <1>13, <1>14, <2>1, <2>2, <2>3
  <1>16. HarnessOK("devin", q, d)
    BY <1>15 DEF HarnessOK
  <1> HIDE DEF p, c, m, answers
  <1> QED BY <1>1, <1>3, <1>4, <1>9, <1>11, <1>15, <1>16, TaskSteps

------------------------------------------------------------------------------
(* The end of a probe, and the calls                                           *)

\* A probe that is past its exchange keeps its models or gives them up.
LEMMA OverKeeps ==
    ASSUME NEW h \in Live, NEW p \in ProbeType, NEW c \in ChildType, HarnessOK(h, p, c),
           NEW q \in ProbeType, NEW d \in ChildType, q.at \in {"kill", "drain", "over"},
           q.models = p.models \/ q.models = <<>>, q.at = "drain" => d.run # "alive",
           d.out = c.out, d.read = c.read, d.login = c.login, d.run = c.run \/ c.run = "alive"
    PROVE  HarnessOK(h, q, d)
  <1>1. CASE h = "devin"
    <2>1. DevinOK(p, c)
      BY <1>1 DEF HarnessOK
    <2>2. \A u : u.models = <<>> => DevinIsQuoted([models |-> u.models, warning |-> u.models = <<>>], d)
      BY DEF DevinIsQuoted
    <2>3. DevinIsQuoted([models |-> p.models, warning |-> p.models = <<>>], d)
      BY <2>1, QuotedSame DEF DevinOK
    <2>4. DevinIsQuoted([models |-> q.models, warning |-> q.models = <<>>], d)
      BY <2>2, <2>3
    <2>5. DevinOK(q, d)
      BY <2>1, <2>4 DEF DevinOK
    <2> QED BY <1>1, <2>5 DEF HarnessOK
  <1>2. CASE h = "cursor"
    BY <1>2 DEF HarnessOK, CursorOK, CursorIsQuoted
  <1> QED BY <1>1, <1>2 DEF Live

\* A probe that ends early has no models.
LEMMA EndKeeps ==
    ASSUME ProbeInv, NEW r \in Caller, NEW h \in Live,
           \/ h = "devin" /\ disconnected(r)
           \/ times_out(r, h)
    PROVE  ProbeInv'
  <1> DEFINE p == probe[r][h]
             c == child[r][h]
  <1>1. /\ p \in ProbeType /\ c \in ChildType /\ HarnessOK(h, p, c) /\ child = [child EXCEPT ![r][h] = c]
    BY Parts
  <1>2. p.at = "reading" /\ Settle(r, h, <<>>) /\ UNCHANGED <<machine, calls, child, cache>>
    BY DEF disconnected, times_out, ProbeAt
  <1>3. calls[r].at \in {"probing", "gone"}
    <2>1. /\ calls[r].at = "idle" => p = NoProbe
          /\ calls[r].at = "answered" => p.at \in {"none", "over"}
          /\ calls[r].at \in {"idle", "probing", "answered", "gone"}
      BY Parts
    <2> HIDE DEF p, c
    <2> QED BY <1>2, <2>1 DEF NoProbe
  <1>4. PICK q : q = [p EXCEPT !.at = "kill", !.models = <<>>]
    OBVIOUS
  <1>5. probe' = [probe EXCEPT ![r][h] = q]
    BY <1>2, <1>4 DEF Settle
  <1>6. q \in ProbeType /\ q.at = "kill" /\ q.models = <<>>
    <2>1. <<>> \in ModelsType
      BY DEF ModelsType
    <2> HIDE DEF p, c
    <2> QED BY <1>1, <1>4, <2>1 DEF ProbeType
  <1>7. HarnessOK(h, q, c)
    <2> HIDE DEF p, c
    <2> QED BY <1>1, <1>6, OverKeeps
  <1>8. child' = [child EXCEPT ![r][h] = c]
    BY <1>1, <1>2
  <1> HIDE DEF p, c
  <1> QED BY <1>1, <1>2, <1>3, <1>5, <1>6, <1>7, <1>8, TaskSteps

\* What Cursor printed is taken when the program has ended.
LEMMA RunBoundedKeeps ==
    ASSUME ProbeInv, NEW r \in Caller, run_bounded(r)
    PROVE  ProbeInv'
  <1> DEFINE p == probe[r]["cursor"]
             c == child[r]["cursor"]
  <1>1. "cursor" \in Live
    BY DEF Live
  <1>2. /\ p \in ProbeType /\ c \in ChildType /\ CursorOK(p, c) /\ child = [child EXCEPT ![r]["cursor"] = c]
    BY <1>1, Parts DEF HarnessOK
  <1>3. p.at = "reading" /\ c.run # "alive" /\ UNCHANGED <<machine, calls, child, cache>>
    BY DEF run_bounded, ProbeAt, PipesOpen
  <1>4. calls[r].at \in {"probing", "gone"}
    BY <1>1, <1>3, Parts DEF NoProbe
  <1>5. PICK q : q = [p EXCEPT !.at = "over", !.models = models_from_cli(c)]
    OBVIOUS
  <1>6. probe' = [probe EXCEPT ![r]["cursor"] = q]
    BY <1>5 DEF run_bounded
  <1>7. /\ models_from_cli(c) \in Seq(Lines)
        /\ models_from_cli(c) # <<>> =>
             c.run = "ended" /\ Range(models_from_cli(c)) \subseteq Range(c.out) \ {"note"}
    BY <1>2, CliIs DEF CursorOK
  <1>8. q \in ProbeType /\ q.at = "over" /\ q.models = models_from_cli(c)
    BY <1>2, <1>5, <1>7 DEF ProbeType, ModelsType
  <1>9. HarnessOK("cursor", q, c)
    <2> HIDE DEF p, c
    <2> QED BY <1>2, <1>7, <1>8 DEF HarnessOK, CursorOK, CursorIsQuoted
  <1>10. child' = [child EXCEPT ![r]["cursor"] = c]
    BY <1>2, <1>3
  <1>11. c.run # "alive" /\ q.at = "over" /\ calls[r].at # "answered" /\ calls[r].at # "idle"
    BY <1>3, <1>4, <1>8
  <1> HIDE DEF p, c
  <1> QED BY <1>1, <1>2, <1>3, <1>6, <1>8, <1>9, <1>10, <1>11, TaskSteps

\* A program that is killed runs no more.
LEMMA TerminateKeeps ==
    ASSUME ProbeInv, NEW r \in Caller, NEW h \in Live, terminate(r, h)
    PROVE  ProbeInv'
  <1> DEFINE p == probe[r][h]
             c == child[r][h]
             at == IF h = "devin" THEN "drain" ELSE "over"
  <1>1. /\ p \in ProbeType /\ c \in ChildType /\ HarnessOK(h, p, c) /\ child = [child EXCEPT ![r][h] = c]
    BY Parts
  <1>2. p.at = "kill" /\ ProbeGoto(r, h, at) /\ UNCHANGED <<machine, calls, cache>>
    BY DEF terminate, ProbeAt
  <1>3. calls[r].at \in {"probing", "gone"}
    BY <1>2, Parts DEF NoProbe
  <1>4. PICK q : q = [p EXCEPT !.at = at]
    OBVIOUS
  <1>5. probe' = [probe EXCEPT ![r][h] = q]
    BY <1>2, <1>4 DEF ProbeGoto
  <1>6. q \in ProbeType /\ q.at \in {"drain", "over"} /\ q.models = p.models
    BY <1>1, <1>4 DEF ProbeType
  <1>7. PICK d \in ChildType : /\ child' = [child EXCEPT ![r][h] = d] /\ d.run # "alive"
                               /\ d.out = c.out /\ d.read = c.read /\ d.login = c.login
                               /\ d.run = c.run \/ c.run = "alive"
    <2>1. CASE c.run = "alive"
      <3>1. PICK kin \in BOOLEAN : child' = [child EXCEPT ![r][h] = [@ EXCEPT !.run = "killed", !.kin = kin]]
        BY <2>1 DEF terminate
      <3>2. PICK d : d = [c EXCEPT !.run = "killed", !.kin = kin]
        OBVIOUS
      <3>3. child' = [child EXCEPT ![r][h] = d]
        BY <3>1, <3>2
      <3>4. /\ d \in ChildType /\ d.run = "killed" /\ d.out = c.out /\ d.read = c.read
            /\ d.login = c.login
        BY <1>1, <3>2 DEF ChildType
      <3> QED BY <2>1, <3>3, <3>4
    <2>2. CASE c.run # "alive"
      <3>1. child' = child
        BY <2>2 DEF terminate
      <3> QED BY <1>1, <2>2, <3>1
    <2> QED BY <2>1, <2>2
  <1>8. HarnessOK(h, q, d)
    <2> HIDE DEF p, c, at
    <2> QED BY <1>1, <1>6, <1>7, OverKeeps
  <1> HIDE DEF p, c, at
  <1> QED BY <1>2, <1>3, <1>5, <1>6, <1>7, <1>8, TaskSteps

\* The task of Devin is over after its program.
LEMMA DrainKeeps ==
    ASSUME ProbeInv, NEW r \in Caller, drain(r)
    PROVE  ProbeInv'
  <1> DEFINE p == probe[r]["devin"]
             c == child[r]["devin"]
  <1>1. "devin" \in Live
    BY DEF Live
  <1>2. /\ p \in ProbeType /\ c \in ChildType /\ HarnessOK("devin", p, c)
        /\ child = [child EXCEPT ![r]["devin"] = c]
    BY <1>1, Parts
  <1>3. p.at = "drain" /\ ProbeGoto(r, "devin", "over") /\ UNCHANGED <<machine, calls, child, cache>>
    BY DEF drain, ProbeAt
  <1>4. calls[r].at \in {"probing", "gone"} /\ c.run # "alive"
    <2>1. /\ calls[r].at = "idle" => p = NoProbe
          /\ calls[r].at = "answered" => p.at \in {"none", "over"}
          /\ calls[r].at \in {"idle", "probing", "answered", "gone"}
      BY <1>1, Parts
    <2>2. c.run # "alive"
      BY <1>2, <1>3 DEF HarnessOK, DevinOK
    <2> HIDE DEF p, c
    <2> QED BY <1>3, <2>1, <2>2 DEF NoProbe
  <1>5. PICK q : q = [p EXCEPT !.at = "over"]
    OBVIOUS
  <1>6. probe' = [probe EXCEPT ![r]["devin"] = q]
    BY <1>3, <1>5 DEF ProbeGoto
  <1>7. q \in ProbeType /\ q.at = "over" /\ q.models = p.models
    BY <1>2, <1>5 DEF ProbeType
  <1>8. HarnessOK("devin", q, c)
    <2> HIDE DEF p, c
    <2> QED BY <1>1, <1>2, <1>7, OverKeeps
  <1>9. child' = [child EXCEPT ![r]["devin"] = c]
    BY <1>2, <1>3
  <1> HIDE DEF p, c
  <1> QED BY <1>1, <1>2, <1>3, <1>4, <1>6, <1>7, <1>8, <1>9, TaskSteps


\* What was answered stays when another call takes a step.
LEMMA AnswersStay ==
    ASSUME NEW r \in Caller, machine' = machine, calls[r].at # "answered",
           \A q \in Caller \ {r} : calls'[q] = calls[q] /\ child'[q] = child[q],
           NEW a, AnswerOK(a)
    PROVE  AnswerOK(a)'
  <1>1. a.by \in Caller \ {r} /\ calls[a.by].at = "answered"
    BY DEF AnswerOK
  <1>2. calls'[a.by].at = "answered" /\ child'[a.by] = child[a.by]
    BY <1>1
  <1> QED BY <1>2, AnswerStays

\* The step of a call leaves the others alone.
LEMMA CallSteps ==
    ASSUME ProbeInv, NEW r \in Caller, machine' = machine, ProbeTypes', calls[r].at # "answered",
           \A q \in Caller \ {r} :
              calls'[q] = calls[q] /\ probe'[q] = probe[q] /\ child'[q] = child[q],
           CallOK(r)', \A h \in Live : HarnessOK(h, probe'[r][h], child'[r][h]),
           calls'[r].at = "answered" => AnswerOK(calls[r].answer)',
           cache'.fresh => AnswerOK(cache.answer)'
    PROVE  ProbeInv'
  <1>1. NoKey' = NoKey /\ Pending' = Pending
    BY DEF NoKey, read_local_api_key, Pending, Installed, find_first_command
  <1>2. ASSUME NEW h, NEW u, NEW v
        PROVE  HarnessOK(h, u, v)' <=> HarnessOK(h, u, v)
    BY <1>1 DEF HarnessOK, DevinOK, CursorOK
  <1>3. ASSUME NEW q \in Caller \ {r}
        PROVE  CallOK(q)' /\ \A h \in Live : HarnessOK(h, probe[q][h], child[q][h])'
    <2>1. CallOK(q) /\ \A h \in Live : HarnessOK(h, probe[q][h], child[q][h])
      BY DEF ProbeInv
    <2>2. \A h \in Live : HarnessOK(h, probe[q][h], child[q][h])'
      BY <1>2, <2>1
    <2>3. CallOK(q)'
      BY <1>1, <2>1 DEF CallOK
    <2> QED BY <2>2, <2>3
  <1>4. \A h \in Live : HarnessOK(h, probe[r][h], child[r][h])'
    BY <1>2
  <1>5. ASSUME NEW q \in Caller \ {r}, calls'[q].at = "answered"
        PROVE  AnswerOK(calls[q].answer)'
    <2>1. AnswerOK(calls[q].answer) /\ calls'[q].answer = calls[q].answer
      BY <1>5 DEF ProbeInv
    <2>2. PICK a : a = calls[q].answer
      OBVIOUS
    <2>3. AnswerOK(a)'
      BY <2>1, <2>2, AnswersStay
    <2> QED BY <2>1, <2>2, <2>3
  <1> QED BY <1>3, <1>4, <1>5 DEF ProbeInv

\* The answer of the cache is as good as when it was given.
LEMMA CachedKeeps ==
    ASSUME ProbeInv, NEW r \in Caller, autodetect_cached(r)
    PROVE  ProbeInv'
  <1>1. /\ calls[r].at = "idle" /\ cache.fresh /\ UNCHANGED <<machine, probe, child, cache>>
        /\ calls' = [calls EXCEPT ![r] = [at |-> "answered", pending |-> <<>>, answer |-> cache.answer]]
    BY DEF autodetect_cached, Answer
  <1>2. ProbeTypes /\ CallOK(r) /\ \A h \in Live : HarnessOK(h, probe[r][h], child[r][h])
    BY DEF ProbeInv
  <1>3. /\ calls'[r] = [at |-> "answered", pending |-> <<>>, answer |-> cache.answer]
        /\ \A q \in Caller \ {r} : calls'[q] = calls[q]
        /\ calls' = [q \in Caller |-> calls'[q]]
    BY <1>1, <1>2 DEF ProbeTypes
  <1>4. ProbeTypes'
    BY <1>1, <1>2, <1>3 DEF ProbeTypes
  <1>5. CallOK(r)'
    <2>1. \A h \in Live : probe[r][h] = NoProbe /\ child[r][h] = NoChild
      BY <1>1, <1>2 DEF CallOK
    <2> QED BY <1>1, <1>3, <2>1 DEF CallOK, NoProbe, NoChild
  <1>6. PICK a : a = cache.answer
    OBVIOUS
  <1>7. AnswerOK(a)
    BY <1>1, <1>6 DEF ProbeInv
  <1>8. AnswerOK(a)'
    BY <1>1, <1>3, <1>7, AnswersStay
  <1>9. AnswerOK(calls[r].answer)' /\ AnswerOK(cache.answer)'
    BY <1>1, <1>3, <1>6, <1>8
  <1> QED BY <1>1, <1>2, <1>3, <1>4, <1>5, <1>9, CallSteps

\* The programs are started for the harnesses that were found.
LEMMA WithKeeps ==
    ASSUME ProbeInv, NEW r \in Caller, autodetect_with(r)
    PROVE  ProbeInv'
  <1>1. /\ calls[r].at = "idle" /\ ~cache.fresh /\ UNCHANGED <<machine, cache>>
        /\ calls' = [calls EXCEPT ![r].at = "probing", ![r].pending = Pending]
    BY DEF autodetect_with, Pending
  <1>2. ProbeTypes /\ CallOK(r)
    BY DEF ProbeInv
  <1>3. PICK broken :
           /\ probe' = [probe EXCEPT ![r] = [h \in Live |->
                CASE h \notin Range(Pending) -> NoProbe
                  [] h \in broken -> [NoProbe EXCEPT !.at = "over"]
                  [] OTHER -> [NoProbe EXCEPT !.at = "reading", !.step = 1]]]
           /\ child' = [child EXCEPT ![r] = [h \in Live |->
                IF h \in Range(Pending) /\ h \notin broken THEN [NoChild EXCEPT !.run = "alive"] ELSE NoChild]]
           /\ broken \subseteq Range(Pending)
    BY DEF autodetect_with, Pending
  <1>4. PICK over, reading, alive :
           /\ over = [NoProbe EXCEPT !.at = "over"]
           /\ reading = [NoProbe EXCEPT !.at = "reading", !.step = 1]
           /\ alive = [NoChild EXCEPT !.run = "alive"]
    OBVIOUS
  <1>5. /\ over \in ProbeType /\ reading \in ProbeType /\ alive \in ChildType
        /\ over.at = "over" /\ over.models = <<>>
        /\ reading.at = "reading" /\ reading.step = 1 /\ reading.models = <<>>
        /\ alive.out = <<>> /\ alive.read = 0 /\ alive.login = "none"
    <2>1. /\ over = [at |-> "over", step |-> 0, models |-> <<>>]
          /\ reading = [at |-> "reading", step |-> 1, models |-> <<>>]
          /\ alive = [run |-> "alive", kin |-> FALSE, out |-> <<>>, read |-> 0, login |-> "none"]
      BY <1>4 DEF NoProbe, NoChild
    <2>2. <<>> \in ModelsType /\ <<>> \in Seq(SaidType) \union Seq(Lines)
      BY DEF ModelsType
    <2>3. over \in ProbeType /\ reading \in ProbeType
      BY <2>1, <2>2 DEF ProbeType
    <2>4. alive \in ChildType
      BY <2>1, <2>2 DEF ChildType
    <2> QED BY <2>1, <2>3, <2>4
  <1>6. \A h \in Live : HarnessOK(h, over, NoChild) /\ HarnessOK(h, reading, alive)
    <2>1. <<>> \in Seq(SaidType) /\ <<>> \in Seq(Lines) /\ Len(<<>>) = 0
      OBVIOUS
    <2>2. \A u, v : u.models = <<>> =>
             /\ DevinIsQuoted([models |-> u.models, warning |-> u.models = <<>>], v)
             /\ CursorIsQuoted([models |-> u.models], v)
      BY DEF DevinIsQuoted, CursorIsQuoted
    <2>3. /\ NoChild.out = <<>> /\ NoChild.read = 0 /\ NoChild.login = "none"
      BY DEF NoChild
    <2>4. DevinOK(over, NoChild) /\ DevinOK(reading, alive)
      <3>1. /\ DevinIsQuoted([models |-> over.models, warning |-> over.models = <<>>], NoChild)
            /\ DevinIsQuoted([models |-> reading.models, warning |-> reading.models = <<>>], alive)
        BY <1>5, <2>2
      <3>2. ToldBefore(alive, 1)
        BY DEF ToldBefore
      <3>3. DevinOK(over, NoChild)
        BY <1>5, <2>1, <2>3, <3>1 DEF DevinOK
      <3>4. DevinOK(reading, alive)
        BY <1>5, <2>1, <3>1, <3>2 DEF DevinOK
      <3> QED BY <3>3, <3>4
    <2>5. CursorOK(over, NoChild) /\ CursorOK(reading, alive)
      BY <1>5, <2>1, <2>2, <2>3 DEF CursorOK
    <2> QED BY <2>4, <2>5 DEF HarnessOK
  <1>7. ASSUME NEW h \in Live
        PROVE  \/ probe'[r][h] = NoProbe /\ child'[r][h] = NoChild
               \/ probe'[r][h] = over /\ child'[r][h] = NoChild
               \/ probe'[r][h] = reading /\ child'[r][h] = alive
    <2>1. /\ probe'[r][h] = CASE h \notin Range(Pending) -> NoProbe
                              [] h \in broken -> over
                              [] OTHER -> reading
          /\ child'[r][h] = IF h \in Range(Pending) /\ h \notin broken THEN alive ELSE NoChild
      BY <1>2, <1>3, <1>4 DEF ProbeTypes
    <2> QED BY <1>3, <2>1
  <1>8. ProbeTypes'
    <2>1. /\ calls'[r].at = "probing" /\ calls'[r].pending = Pending
          /\ calls'[r] = [at |-> "probing", pending |-> Pending, answer |-> calls'[r].answer]
          /\ \A q \in Caller \ {r} : calls'[q] = calls[q]
          /\ calls' = [q \in Caller |-> calls'[q]]
      <3>1. calls[r] = [at |-> calls[r].at, pending |-> calls[r].pending, answer |-> calls[r].answer]
        BY <1>2 DEF ProbeTypes
      <3>2. calls = [q \in Caller |-> calls[q]]
        BY <1>2 DEF ProbeTypes
      <3>3. PICK call : call = [[calls[r] EXCEPT !.at = "probing"] EXCEPT !.pending = Pending]
        OBVIOUS
      <3>4. call = [at |-> "probing", pending |-> Pending, answer |-> calls[r].answer]
        BY <3>1, <3>3
      <3>5. calls' = [calls EXCEPT ![r] = call]
        BY <1>1, <3>2, <3>3
      <3> QED BY <3>2, <3>4, <3>5
    <2>2. probe' \in [Caller -> [Live -> ProbeType]] /\ child' \in [Caller -> [Live -> ChildType]]
      <3>1. /\ [h \in Live |-> probe'[r][h]] \in [Live -> ProbeType]
            /\ [h \in Live |-> child'[r][h]] \in [Live -> ChildType]
        BY <1>5, <1>7, NothingYet
      <3>2. probe'[r] = [h \in Live |-> probe'[r][h]] /\ child'[r] = [h \in Live |-> child'[r][h]]
        BY <1>2, <1>3 DEF ProbeTypes
      <3>3. /\ probe' = [probe EXCEPT ![r] = probe'[r]] /\ child' = [child EXCEPT ![r] = child'[r]]
        BY <1>2, <1>3 DEF ProbeTypes
      <3> QED BY <1>2, <3>1, <3>2, <3>3 DEF ProbeTypes
    <2> QED BY <1>1, <1>2, <2>1, <2>2 DEF ProbeTypes
  <1>9. \A q \in Caller \ {r} :
            calls'[q] = calls[q] /\ probe'[q] = probe[q] /\ child'[q] = child[q]
    BY <1>1, <1>2, <1>3 DEF ProbeTypes
  <1>10. /\ calls'[r].at = "probing" /\ calls'[r].pending = Pending
    <2>1. /\ calls[r] = [at |-> calls[r].at, pending |-> calls[r].pending, answer |-> calls[r].answer]
          /\ calls = [q \in Caller |-> calls[q]]
      BY <1>2 DEF ProbeTypes
    <2> QED BY <1>1, <2>1
  <1>11. CallOK(r)'
    <2>1. Pending' = Pending
      BY <1>1 DEF Pending, Installed, find_first_command
    <2>2. \A h \in Live : probe'[r][h].at \in {"none", "over"} => child'[r][h].run # "alive"
      BY <1>5, <1>7 DEF NoChild
    <2> QED BY <1>10, <2>1, <2>2 DEF CallOK
  <1>12. \A h \in Live : HarnessOK(h, probe'[r][h], child'[r][h])
    BY <1>6, <1>7, NothingYet
  <1> QED BY <1>1, <1>8, <1>9, <1>10, <1>11, <1>12, CallSteps

\* What a probe ended with is what a call tells of the harness.
LEMMA TellsProbe ==
    ASSUME NEW r \in Caller, NEW h
    PROVE  /\ AgentInfo(r, h).id = h
           /\ h \in Live => /\ AgentInfo(r, h).models = probe[r][h].models
                            /\ AgentInfo(r, h).warning = Warned(h, probe[r][h].models)
  BY DEF AgentInfo, Live

\* When every task is over, what they have found is the answer.
LEMMA AnswersKeeps ==
    ASSUME ProbeInv, NEW r \in Caller, autodetect_answers(r)
    PROVE  ProbeInv'
  <1>1. PICK pending : pending = calls[r].pending
    OBVIOUS
  <1>2. PICK a : a = [by |-> r, agents |-> [i \in DOMAIN pending |-> AgentInfo(r, pending[i])]]
    OBVIOUS
  <1>3. /\ calls[r].at = "probing" /\ UNCHANGED <<machine, probe, child>>
        /\ \A h \in Live : probe[r][h].at \in {"none", "over"}
        /\ calls' = [calls EXCEPT ![r] = [at |-> "answered", pending |-> <<>>, answer |-> a]]
        /\ cache' = [fresh |-> TRUE, answer |-> a]
    BY <1>1, <1>2 DEF autodetect_answers, Answer
  <1>4. ProbeTypes /\ CallOK(r) /\ \A h \in Live : HarnessOK(h, probe[r][h], child[r][h])
    BY DEF ProbeInv
  <1>5. /\ calls'[r] = [at |-> "answered", pending |-> <<>>, answer |-> a]
        /\ \A q \in Caller \ {r} : calls'[q] = calls[q]
        /\ calls' = [q \in Caller |-> calls'[q]]
    BY <1>3, <1>4 DEF ProbeTypes
  <1>6. ProbeTypes'
    BY <1>3, <1>4, <1>5 DEF ProbeTypes
  <1>7. CallOK(r)'
    BY <1>3, <1>4, <1>5 DEF CallOK
  <1>8. /\ a.by = r /\ DOMAIN a.agents = DOMAIN pending
        /\ \A i \in DOMAIN pending : a.agents[i] = AgentInfo(r, pending[i])
    BY <1>2
  <1>9. OrderIsKept(a)
    <2>1. pending = Pending
      BY <1>1, <1>3, <1>4 DEF CallOK
    <2>2. Pending = [i \in DOMAIN a.agents |-> a.agents[i].id]
      <3>1. \A i \in DOMAIN pending : a.agents[i].id = pending[i]
        BY <1>8, TellsProbe
      <3>2. pending = [i \in DOMAIN pending |-> pending[i]]
        BY <2>1 DEF Pending, Listed
      <3> QED BY <1>8, <2>1, <3>1, <3>2
    <2> QED BY <1>4, <2>2, PendingIs DEF ProbeTypes
  <1>10. ASSUME NEW i \in DOMAIN a.agents, a.agents[i].id = "devin"
         PROVE  DevinIsQuoted(a.agents[i], child[r]["devin"])
    <2>1. "devin" \in Live
      BY DEF Live
    <2>2. a.agents[i] = AgentInfo(r, "devin")
      BY <1>8, <1>10, TellsProbe
    <2>3. PICK models : models = probe[r]["devin"].models
      OBVIOUS
    <2>4. a.agents[i].models = models /\ a.agents[i].warning = (models = <<>>)
      BY <2>1, <2>2, <2>3, TellsProbe DEF Warned
    <2>5. DevinIsQuoted([models |-> models, warning |-> models = <<>>], child[r]["devin"])
      BY <1>4, <2>1, <2>3 DEF HarnessOK, DevinOK
    <2>6. Quoted(a.agents[i], child[r]["devin"].out, child[r]["devin"].read)
      <3>1. Quoted([models |-> models, warning |-> models = <<>>], child[r]["devin"].out, child[r]["devin"].read)
        BY <2>5, QuotedIs
      <3> QED BY <2>4, <3>1 DEF Quoted
    <2> QED BY <2>6, QuotedIs
  <1>11. ASSUME NEW i \in DOMAIN a.agents, a.agents[i].id = "cursor"
         PROVE  CursorIsQuoted(a.agents[i], child[r]["cursor"])
    <2>1. "cursor" \in Live
      BY DEF Live
    <2>2. a.agents[i].models = probe[r]["cursor"].models
      BY <1>8, <1>11, <2>1, TellsProbe
    <2>3. CursorIsQuoted([models |-> probe[r]["cursor"].models], child[r]["cursor"])
      BY <1>4, <2>1 DEF HarnessOK, CursorOK
    <2> QED BY <2>2, <2>3 DEF CursorIsQuoted
  <1>12. AnswerOK(a)'
    <2>1. OrderIsKept(a)'
      BY <1>3, <1>9 DEF OrderIsKept
    <2>2. calls'[a.by].at = "answered" /\ a.by = r
      BY <1>5, <1>8
    <2> QED BY <1>3, <1>8, <1>10, <1>11, <2>1, <2>2 DEF AnswerOK
  <1>13. AnswerOK(calls[r].answer)' /\ AnswerOK(cache.answer)'
    BY <1>3, <1>5, <1>12
  <1>14. \A h \in Live : HarnessOK(h, probe'[r][h], child'[r][h])
    BY <1>3, <1>4
  <1> QED BY <1>3, <1>5, <1>6, <1>7, <1>13, <1>14, CallSteps

\* A call that is dropped answers nothing, and no answer is from it.
LEMMA DroppedKeeps ==
    ASSUME ProbeInv, NEW r \in Caller, dropped(r)
    PROVE  ProbeInv'
  <1>1. /\ calls[r].at = "probing" /\ UNCHANGED <<machine, child, cache>>
        /\ calls' = [calls EXCEPT ![r].at = "gone", ![r].pending = <<>>]
        /\ probe' = [probe EXCEPT ![r] = [h \in Live |-> NoProbe]]
    BY DEF dropped
  <1>2. ProbeTypes /\ \A h \in Live : HarnessOK(h, probe[r][h], child[r][h])
    BY DEF ProbeInv
  <1>3. /\ calls[r] = [at |-> calls[r].at, pending |-> calls[r].pending, answer |-> calls[r].answer]
        /\ calls = [q \in Caller |-> calls[q]]
    BY <1>2 DEF ProbeTypes
  <1>4. /\ calls'[r] = [at |-> "gone", pending |-> <<>>, answer |-> calls[r].answer]
        /\ \A q \in Caller \ {r} : calls'[q] = calls[q]
        /\ calls' = [q \in Caller |-> calls'[q]]
    <2>1. PICK call : call = [[calls[r] EXCEPT !.at = "gone"] EXCEPT !.pending = <<>>]
      OBVIOUS
    <2>2. call = [at |-> "gone", pending |-> <<>>, answer |-> calls[r].answer]
      BY <1>3, <2>1
    <2>3. calls' = [calls EXCEPT ![r] = call]
      BY <1>1, <1>3, <2>1
    <2> QED BY <1>3, <2>2, <2>3
  <1>5. /\ probe' \in [Caller -> [Live -> ProbeType]]
        /\ \A h \in Live : probe'[r][h] = NoProbe
        /\ \A q \in Caller \ {r} : probe'[q] = probe[q]
    BY <1>1, <1>2, NothingYet DEF ProbeTypes
  <1>6. ProbeTypes'
    BY <1>1, <1>2, <1>4, <1>5 DEF ProbeTypes
  <1>7. CallOK(r)'
    BY <1>4 DEF CallOK
  <1>8. ASSUME NEW h \in Live
        PROVE  HarnessOK(h, NoProbe, child[r][h])
    <2>1. HarnessOK(h, probe[r][h], child[r][h])
      BY <1>2
    <2>2. NoProbe.at = "none" /\ NoProbe.models = <<>>
      BY DEF NoProbe
    <2>3. /\ DevinIsQuoted([models |-> NoProbe.models, warning |-> NoProbe.models = <<>>], child[r][h])
          /\ CursorIsQuoted([models |-> NoProbe.models], child[r][h])
      BY <2>2 DEF DevinIsQuoted, CursorIsQuoted
    <2> QED BY <2>1, <2>2, <2>3 DEF HarnessOK, DevinOK, CursorOK
  <1>9. \A h \in Live : HarnessOK(h, probe'[r][h], child'[r][h])
    BY <1>1, <1>5, <1>8
  <1>10. cache'.fresh => AnswerOK(cache.answer)'
    <2>1. PICK a : a = cache.answer
      OBVIOUS
    <2>2. cache.fresh => AnswerOK(a)'
      BY <1>1, <1>4, <2>1, AnswersStay DEF ProbeInv
    <2> QED BY <1>1, <2>1, <2>2
  <1>11. /\ calls[r].at # "answered" /\ calls'[r].at # "answered"
         /\ \A q \in Caller \ {r} :
               calls'[q] = calls[q] /\ probe'[q] = probe[q] /\ child'[q] = child[q]
    <2>1. calls[r].at # "answered" /\ child' = child
      BY <1>1
    <2>2. calls'[r].at # "answered"
      BY <1>4
    <2> QED BY <1>4, <1>5, <2>1, <2>2
  <1>12. machine' = machine
    BY <1>1
  <1> QED BY <1>6, <1>7, <1>9, <1>10, <1>11, <1>12, CallSteps

\* Nothing changes, or the cooldown passes.
LEMMA CoolKeeps ==
    ASSUME ProbeInv, UNCHANGED <<machine, calls, probe, child>>,
           cache' = cache \/ cache' = [fresh |-> FALSE, answer |-> cache.answer]
    PROVE  ProbeInv'
  <1>1. NoKey' = NoKey /\ Pending' = Pending
    BY DEF NoKey, read_local_api_key, Pending, Installed, find_first_command
  <1>2. ASSUME NEW h, NEW u, NEW v, HarnessOK(h, u, v)
        PROVE  HarnessOK(h, u, v)'
    BY <1>1, <1>2 DEF HarnessOK, DevinOK, CursorOK
  <1>3. ProbeTypes'
    BY DEF ProbeInv, ProbeTypes
  <1>4. ASSUME NEW q \in Caller
        PROVE  CallOK(q)' /\ \A h \in Live : HarnessOK(h, probe[q][h], child[q][h])'
    <2>1. CallOK(q) /\ \A h \in Live : HarnessOK(h, probe[q][h], child[q][h])
      BY DEF ProbeInv
    <2>2. \A h \in Live : HarnessOK(h, probe[q][h], child[q][h])'
      BY <1>2, <2>1
    <2>3. CallOK(q)'
      BY <1>1, <2>1 DEF CallOK
    <2> QED BY <2>2, <2>3
  <1>5. ASSUME NEW a, AnswerOK(a)
        PROVE  AnswerOK(a)'
    <2>1. calls[a.by].at = "answered"
      BY <1>5 DEF AnswerOK
    <2> QED BY <1>5, <2>1, AnswerStays
  <1>6. \A q \in Caller : calls'[q].at = "answered" => AnswerOK(calls[q].answer)'
    <2> SUFFICES ASSUME NEW q \in Caller, calls'[q].at = "answered"
                 PROVE  AnswerOK(calls[q].answer)'
      OBVIOUS
    <2>1. PICK a : a = calls[q].answer
      OBVIOUS
    <2>2. AnswerOK(a)'
      BY <1>5, <2>1 DEF ProbeInv
    <2> QED BY <2>1, <2>2
  <1>7. cache'.fresh => AnswerOK(cache.answer)'
    <2>1. PICK a : a = cache.answer
      OBVIOUS
    <2>2. cache.fresh => AnswerOK(a)'
      BY <1>5, <2>1 DEF ProbeInv
    <2> QED BY <2>1, <2>2
  <1> QED BY <1>3, <1>4, <1>6, <1>7 DEF ProbeInv

------------------------------------------------------------------------------
(* The theorems about AgentProbe                                               *)

(* The inductive invariant of the detection of agents (autodetect_with,        *)
(* with_acp_child, autodetect_agents): the types, what Devin was asked and has *)
(* answered in turn, what either program has said when its models are taken,   *)
(* and what is told in an answer and kept in the cache.                        *)
THEOREM ProbeInvariance == ProbeSpec => []ProbeInv
<1>1. ProbeInv /\ [ProbeNext]_probeVars => ProbeInv'
  <2> SUFFICES ASSUME ProbeInv, [ProbeNext]_probeVars PROVE ProbeInv'
    OBVIOUS
  <2>1. CASE UNCHANGED probeVars
    BY <2>1, CoolKeeps DEF probeVars
  <2>2. CASE cooldown_passes
    <3>1. cache = [fresh |-> cache.fresh, answer |-> cache.answer]
      BY DEF ProbeInv, ProbeTypes
    <3>2. cache' = [fresh |-> FALSE, answer |-> cache.answer]
      BY <2>2, <3>1 DEF cooldown_passes
    <3>3. cache'.fresh = FALSE
      BY <3>2
    <3>4. cache' = cache \/ cache' = [fresh |-> FALSE, answer |-> cache.answer]
      BY <3>2
    <3> QED BY <2>2, <3>2, <3>3, <3>4, CoolKeeps DEF cooldown_passes
  <2>3. ASSUME NEW r \in Caller,
               \/ autodetect_cached(r) \/ autodetect_with(r) \/ autodetect_answers(r) \/ dropped(r)
        PROVE  ProbeInv'
    BY <2>3, CachedKeeps, WithKeeps, AnswersKeeps, DroppedKeeps
  <2>4. ASSUME NEW r \in Caller,
               wait_for_response(r) \/ disconnected(r) \/ run_bounded(r) \/ drain(r)
        PROVE  ProbeInv'
    <3>1. "devin" \in Live
      BY DEF Live
    <3> QED BY <2>4, <3>1, WaitKeeps, EndKeeps, RunBoundedKeeps, DrainKeeps
  <2>5. ASSUME NEW r \in Caller, NEW h \in Live,
               Says(r, h) \/ Exits(r, h) \/ KinEnds(r, h) \/ times_out(r, h) \/ terminate(r, h)
        PROVE  ProbeInv'
    BY <2>5, SaysKeeps, ExitsKeeps, KinEndsKeeps, EndKeeps, TerminateKeeps
  <2> QED BY <2>1, <2>2, <2>3, <2>4, <2>5 DEF ProbeNext
<1> QED
  BY ProbeInitInv, <1>1, PTL DEF ProbeSpec

(* What a call answers is whole and what the programs said, of programs that   *)
(* are gone; Devin is sent to a browser only where there is no key             *)
(* (autodetect_with, with_acp_child, wait_for_response, run_bounded,           *)
(* autodetect_agents).                                                         *)
THEOREM ProbesClean == ProbeSpec => []ProbesAreClean
<1>1. ProbeInv => ProbesAreClean
  <2> SUFFICES ASSUME ProbeInv PROVE ProbesAreClean
    OBVIOUS
  <2>1. ASSUME NEW r \in Caller, calls[r].at = "answered"
        PROVE  /\ OrderIsKept(calls[r].answer)
               /\ \A h \in Live : child[r][h].run # "alive"
               /\ \A i \in DOMAIN calls[r].answer.agents :
                     /\ calls[r].answer.agents[i].id = "devin" =>
                           DevinIsQuoted(calls[r].answer.agents[i], child[calls[r].answer.by]["devin"])
                     /\ calls[r].answer.agents[i].id = "cursor" =>
                           CursorIsQuoted(calls[r].answer.agents[i], child[calls[r].answer.by]["cursor"])
    <3>1. AnswerOK(calls[r].answer) /\ CallOK(r)
      BY <2>1 DEF ProbeInv
    <3>2. \A h \in Live : child[r][h].run # "alive"
      BY <2>1, <3>1 DEF CallOK
    <3> QED BY <3>1, <3>2 DEF AnswerOK
  <2>2. ASSUME NEW r \in Caller, child[r]["devin"].login = "browser"
        PROVE  /\ machine.env = ""
               /\ \A i \in DOMAIN machine.credentials : machine.credentials[i].value = ""
    <3>1. "devin" \in Live
      BY DEF Live
    <3>2. NoKey /\ machine \in Machine
      BY <2>2, <3>1 DEF ProbeInv, ProbeTypes, HarnessOK, DevinOK
    <3> QED BY <3>2, KeyIs DEF NoKey
  <2> QED BY <2>1, <2>2 DEF ProbesAreClean
<1> QED
  BY <1>1, ProbeInvariance, PTL
=============================================================================
