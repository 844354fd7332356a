----------------------------- MODULE EventsProofs -----------------------------
(* Theorems about the four models of a session's events for every value of     *)
(* their constants, proved with TLAPS.                                         *)
(* EventDelivery: NothingSkipped says that an event not yet sent is on its     *)
(* way; it is not inductive, since the check against last_seen_id drops an     *)
(* event because of what a cursor says.  The strengthening is that every       *)
(* cursor tells the truth: what lies below it is covered by something other    *)
(* than a publication.                                                         *)
(* PromptContext: a prompt tells the files of the tracker as long as it is     *)
(* with its agent, so that the invariant follows the files of a report, and    *)
(* the entries of the workspace, from the session to the prompt.               *)
(* EventReaders: a page is the first or the last of the ids of its session in  *)
(* ascending order, so that the invariant says of lists of rows what the       *)
(* property says of sets.                                                      *)
(* Transcripts: Exported goes through the events one by one; what it has made  *)
(* of the first n of them is Ready, by induction over n.                       *)
EXTENDS EventsSystem, FiniteSetTheorems, FunctionTheorems, SequenceTheorems, NaturalsInduction,
        WellFoundedInduction, TLAPS

TaskType == [at : {"none", "query", "send", "failed"}, cursor : 0..MaxEvents,
             todo : Seq(Event), last : 0..MaxEvents]
PubType == [at : {"idle", "stored", "passed", "queued", "full"}, id : 0..MaxEvents]

Types ==
    /\ log \in 0..MaxEvents
    /\ pub \in [Appender -> PubType]
    /\ conn \in [at : {"none", "up", "closed", "gone"}, last : 0..MaxEvents,
                 after : {NoCursor} \union 0..MaxEvents]
    /\ queue \in Seq(Event)
    /\ task \in [Task -> TaskType]
    /\ sent \subseteq Event
    /\ missed \subseteq Event /\ overtaken \subseteq Event /\ cut \subseteq Event

(* Ids and cursors are those of stored rows, and an appender publishes its own.*)
Stored ==
    /\ conn.last <= log /\ \A e \in missed : e <= log
    /\ \A a \in Appender : /\ pub[a].id <= log
                           /\ pub[a].at = "idle" <=> pub[a].id = 0
    /\ \A a, b \in Appender : pub[a].id = pub[b].id /\ pub[a].id # 0 => a = b

(* A replay goes on from its cursor, row by row.                               *)
Replays ==
    \A t \in Task : /\ task[t].cursor <= log /\ task[t].last <= log
                    /\ \A n \in DOMAIN task[t].todo : task[t].todo[n] = task[t].last + n
                    /\ \A n \in DOMAIN task[t].todo : task[t].todo[n] <= log
                    /\ task[t].at # "send" => task[t].todo = <<>>

(* An event schedules its resync at most once, at the end of its publication.  *)
OneResyncEach ==
    \A e \in Event : e > log \/ (\E a \in Appender : pub[a].id = e) => task[e] = NoTask

(* Only a registered connection has anything queued or replayed; before that   *)
(* an event is in publication or was broadcast without it.                     *)
Unregistered ==
    /\ conn.at # "up" => queue = <<>> /\ task = [t \in Task |-> NoTask]
    /\ conn.at = "none" =>
          /\ conn.after = NoCursor
          /\ \A a \in Appender : pub[a].at \in {"idle", "stored"}
          /\ \A e \in 1..log : e \in missed \/ \E a \in Appender : pub[a].id = e

WellFormed == Types /\ Stored /\ Replays /\ OneResyncEach /\ Unregistered

(* Covered: sent, queued, or sure to be replayed, or lost in one of the three  *)
(* ways; a publication does not count, for it may end at the check.            *)
Covered(e) ==
    \/ e \in sent \/ e \in Queued \/ Excused(e)
    \/ \E t \in Task : e \in Todo(t) \/ (task[t].at = "query" /\ task[t].cursor < e)

UpTo(m) == \A e \in Due : e <= m => Covered(e)

(* Every cursor tells the truth: last_seen_id, the event that is about to move *)
(* it, and where a replay starts and stands.                                   *)
CursorsTell ==
    conn.at = "up" =>
       /\ UpTo(conn.last)
       /\ \A a \in Appender : pub[a].at = "queued" => UpTo(pub[a].id)
       /\ \A t \in Task : /\ task[t].at = "query" => UpTo(task[t].cursor)
                          /\ task[t].at = "send" => UpTo(task[t].last)

Inv == WellFormed /\ CursorsTell /\ NothingSkipped

------------------------------------------------------------------------------
(* Lemmas about sequences and the operators                                    *)

(* Appending adds one element.                                                 *)
LEMMA AppendElements ==
    ASSUME NEW S, NEW q \in Seq(S), NEW x \in S
    PROVE  /\ Append(q, x) \in Seq(S)
           /\ \A e : (\E n \in DOMAIN Append(q, x) : Append(q, x)[n] = e)
                        <=> (e = x \/ \E n \in DOMAIN q : q[n] = e)
BY AppendProperties

(* What is queued when an event is appended to the queue.                      *)
LEMMA QueuedGrows ==
    ASSUME queue \in Seq(Event), NEW x \in Event, queue' = Append(queue, x)
    PROVE  Queued' = Queued \union {x}
<1>1. \A e : (\E n \in DOMAIN queue' : queue'[n] = e)
                <=> (e = x \/ \E n \in DOMAIN queue : queue[n] = e)
  BY AppendElements
<1> QED
  BY <1>1 DEF Queued

(* Taking the head leaves the others.                                          *)
LEMMA TailElements ==
    ASSUME NEW S, NEW q \in Seq(S), q # <<>>
    PROVE  /\ Head(q) \in S /\ Tail(q) \in Seq(S)
           /\ Head(q) = q[1] /\ 1 \in DOMAIN q
           /\ \A n \in DOMAIN Tail(q) : n + 1 \in DOMAIN q /\ Tail(q)[n] = q[n + 1]
           /\ \A n \in DOMAIN q : n # 1 => n - 1 \in DOMAIN Tail(q) /\ Tail(q)[n - 1] = q[n]
<1>1. Len(q) \in Nat /\ Len(q) # 0 /\ DOMAIN q = 1..Len(q) /\ q \in [1..Len(q) -> S]
  BY LenProperties, EmptySeq
<1>2. /\ Head(q) \in S /\ Tail(q) \in Seq(S) /\ Len(Tail(q)) = Len(q) - 1
      /\ \A n \in 1..Len(Tail(q)) : Tail(q)[n] = q[n + 1]
  BY HeadTailProperties
<1>3. DOMAIN Tail(q) = 1..(Len(q) - 1)
  BY <1>2, LenProperties
<1>4. Head(q) = q[1]
  BY <1>1, SMT
<1> QED
  BY <1>1, <1>2, <1>3, <1>4

(* A query returns the rows behind the cursor, up to its limit.                *)
LEMMA QueryRows ==
    ASSUME NEW c \in 0..log, log \in 0..MaxEvents
    PROVE  /\ query_all(c) \in Seq(Event)
           /\ \A n \in DOMAIN query_all(c) : query_all(c)[n] = c + n /\ c + n <= log
           /\ \A e \in 1..log : e > c => \/ c + QueryLimit < e
                                         \/ \E n \in DOMAIN query_all(c) : query_all(c)[n] = e
<1> DEFINE N == IF log - c < QueryLimit THEN Larger(log - c, 0) ELSE QueryLimit
<1>1. N \in Nat /\ c + N <= log
  BY BoundsAssumption DEF Larger
<1>2. query_all(c) = [n \in 1..N |-> c + n]
  BY DEF query_all
<1>3. \A e \in 1..log : e > c => c + QueryLimit < e \/ (e - c \in 1..N /\ c + (e - c) = e)
  BY BoundsAssumption DEF Larger
<1> HIDE DEF N
<1>4. \A n \in 1..N : c + n \in Event /\ c + n <= log
  BY <1>1, BoundsAssumption DEF Event
<1>5. query_all(c) \in [1..N -> Event]
  BY <1>2, <1>4
<1>6. query_all(c) \in Seq(Event)
  BY <1>1, <1>5, SeqDef
<1>7. DOMAIN query_all(c) = 1..N /\ \A n \in 1..N : query_all(c)[n] = c + n
  BY <1>2
<1> QED
  BY <1>3, <1>4, <1>6, <1>7

------------------------------------------------------------------------------
(* Types, ids and replays                                                      *)

(* The records that the steps write.                                           *)
LEMMA RecordTypes ==
    /\ Event \subseteq 0..MaxEvents /\ Event \subseteq Task /\ Feed \in Task /\ Feed \notin Event
    /\ NoTask \in TaskType /\ Idle \in PubType
    /\ \A c \in 0..MaxEvents : NewTask(c) \in TaskType
<1>1. Event \subseteq 0..MaxEvents /\ Event \subseteq Task /\ Feed \in Task /\ Feed \notin Event
  BY BoundsAssumption DEF Event, Task, Feed
<1>2. <<>> \in Seq(Event)
  BY EmptySeq
<1>3. NoTask \in TaskType
  BY <1>2, BoundsAssumption DEF NoTask, TaskType
<1>4. Idle \in PubType
  BY BoundsAssumption DEF Idle, PubType
<1>5. \A c \in 0..MaxEvents : NewTask(c) \in TaskType
  BY <1>2, BoundsAssumption DEF NewTask, TaskType
<1> QED
  BY <1>1, <1>3, <1>4, <1>5

(* Every step keeps the types.                                                 *)
LEMMA StepTypes ==
    ASSUME WellFormed, [Next]_vars
    PROVE  Types'
<1>0. Types
  BY DEF WellFormed
<1>a. ASSUME NEW a \in Appender
      PROVE  pub[a].id \in 0..MaxEvents /\ (pub[a].at # "idle" => pub[a].id \in Event)
  BY BoundsAssumption DEF WellFormed, Types, PubType, Stored, Event
<1>t. ASSUME NEW t \in Task
      PROVE  task[t].cursor \in 0..log /\ task[t].last \in 0..log /\ task[t].todo \in Seq(Event)
  BY BoundsAssumption DEF WellFormed, Types, TaskType, Replays
<1>p. ASSUME NEW a \in Appender, NEW at \in {"stored", "passed", "queued", "full"},
             Step(a, at) \/ Done(a)
      PROVE  pub' \in [Appender -> PubType]
  <2>1. pub \in [Appender -> PubType] /\ Idle \in PubType
    BY <1>0, RecordTypes DEF Types
  <2> QED
    BY <1>p, <2>1 DEF Step, Done, PubType
<1>1. ASSUME NEW a \in Appender, append(a) PROVE Types'
  <2>1. [at |-> "stored", id |-> log + 1] \in PubType /\ log + 1 \in 0..MaxEvents
    BY <1>0, <1>1, BoundsAssumption DEF append, PubType, Types
  <2> QED
    BY <1>0, <1>1, <2>1 DEF append, Types, history
<1>2. ASSUME NEW a \in Appender, CheckSeen(a) PROVE Types'
  <2>1. pub[a].id \in Event
    BY <1>2, <1>a DEF CheckSeen, Publishing
  <2>2. pub' \in [Appender -> PubType]
    BY <1>2, <1>p DEF CheckSeen
  <2> QED
    BY <1>0, <1>2, <2>1, <2>2 DEF CheckSeen, Types
<1>3. ASSUME NEW a \in Appender, TrySend(a) PROVE Types'
  <2>1. pub[a].id \in Event
    BY <1>3, <1>a DEF TrySend, Publishing
  <2>2. Append(queue, pub[a].id) \in Seq(Event)
    BY <1>0, <2>1, AppendProperties DEF Types
  <2>3. Behind(pub[a].id) \subseteq Event
    BY <1>a, <1>0, BoundsAssumption DEF Behind, Idle, Types, PubType, WellFormed, Stored, Event
  <2>4. pub' \in [Appender -> PubType]
    BY <1>3, <1>p DEF TrySend
  <2> QED
    BY <1>0, <1>3, <2>1, <2>2, <2>3, <2>4 DEF TrySend, Types
<1>4. ASSUME NEW a \in Appender, NoteSent(a) PROVE Types'
  BY <1>0, <1>4, <1>a, RecordTypes DEF NoteSent, Done, Larger, Types, history
<1>5. ASSUME NEW a \in Appender, schedule_resync(a) PROVE Types'
  <2>1. NewTask(conn.last) \in TaskType
    BY <1>0, RecordTypes DEF Types
  <2> QED
    BY <1>0, <1>5, <2>1, RecordTypes DEF schedule_resync, Done, Types, history
<1>6. ASSUME NEW t \in Task, ResyncQuery(t) PROVE Types'
  <2>1. query_all(task[t].cursor) \in Seq(Event)
    BY <1>0, <1>t, QueryRows DEF Types
  <2>2. task' \in [Task -> TaskType]
    <3>1. task[t].cursor \in 0..MaxEvents /\ task \in [Task -> TaskType]
      BY <1>0, <1>t, BoundsAssumption DEF Types
    <3> QED
      BY <1>6, <2>1, <3>1 DEF ResyncQuery, TaskType
  <2> QED
    BY <1>0, <1>6, <2>2 DEF ResyncQuery, Types
<1>7. ASSUME NEW t \in Task, ResyncSend(t) PROVE Types'
  <2>1. task[t].todo \in Seq(Event) /\ task[t].todo # <<>>
    BY <1>t, <1>7 DEF ResyncSend
  <2>2. Head(task[t].todo) \in Event /\ Tail(task[t].todo) \in Seq(Event)
    BY <2>1, TailElements
  <2>3. Append(queue, Head(task[t].todo)) \in Seq(Event)
    BY <1>0, <2>2, AppendProperties DEF Types
  <2>4. task' \in [Task -> TaskType]
    <3>1. Head(task[t].todo) \in 0..MaxEvents /\ task \in [Task -> TaskType]
      BY <1>0, <2>2, RecordTypes DEF Types
    <3> QED
      BY <1>7, <2>2, <3>1 DEF ResyncSend, TaskType
  <2> QED
    BY <1>0, <1>7, <2>3, <2>4 DEF ResyncSend, Types, history
<1>8. ASSUME NEW t \in Task, ResyncDone(t) PROVE Types'
  <2>1. task[t].last \in 0..MaxEvents
    BY <1>0, <1>t, BoundsAssumption DEF Types
  <2> QED
    BY <1>0, <1>8, <2>1, RecordTypes DEF ResyncDone, Larger, Types, history
<1>9. CASE Pump
  <2>1. Head(queue) \in Event /\ Tail(queue) \in Seq(Event)
    BY <1>0, <1>9, HeadTailProperties DEF Pump, Types
  <2> QED
    BY <1>0, <1>9, <2>1 DEF Pump, Types, history
<1>10. CASE unregister
  BY <1>0, <1>10 DEF unregister, Types, history
<1>11. ASSUME NEW t \in Task, ResyncFails(t) PROVE Types'
  <2>1. task' \in [Task -> TaskType]
    BY <1>0, <1>11 DEF ResyncFails, TaskType, Types
  <2> QED
    BY <1>0, <1>11, <2>1 DEF ResyncFails, Types, history
<1>12. CASE Register
  BY <1>0, <1>12, RecordTypes, BoundsAssumption DEF Register, Types, history
<1>13. CASE Disconnect
  BY <1>0, <1>13, EmptySeq, RecordTypes DEF Disconnect, Types, history
<1>14. CASE UNCHANGED vars
  BY <1>0, <1>14 DEF vars, Types
<1> QED
  BY <1>1, <1>2, <1>3, <1>4, <1>5, <1>6, <1>7, <1>8, <1>9, <1>10, <1>11, <1>12, <1>13, <1>14
     DEF Next, Daemon, Broadcast, Resync

(* What an appender does to its own entry, or the others to none.              *)
Publishes(a, at, id) ==
    /\ pub' = [pub EXCEPT ![a] = pub'[a]]
    /\ pub'[a].at = at /\ pub'[a].id = id

\* What the steps of a publication leave alone (sync/mod.rs:627-649).
LEMMA PublishSteps ==
    ASSUME Types, NEW a \in Appender
    PROVE  /\ \A at : Step(a, at) => Publishes(a, at, pub[a].id)
           /\ Done(a) => Publishes(a, "idle", 0)
           /\ append(a) => Publishes(a, "stored", log + 1)
<1>1. pub \in [Appender -> PubType]
  BY DEF Types
<1> QED
  BY <1>1 DEF Step, Done, append, Publishes, Idle, PubType

(* Ids stay unique, and below the highest row.                                 *)
LEMMA StepStored ==
    ASSUME WellFormed, [Next]_vars
    PROVE  Stored'
<1>0. /\ log \in Nat /\ conn.last \in Nat /\ pub \in [Appender -> PubType]
      /\ \A a \in Appender : pub[a].id \in Nat
      /\ \A e \in missed : e \in Nat
      /\ \A t \in Task : task[t].last \in Nat /\ task[t].last <= log
  BY DEF WellFormed, Types, PubType, TaskType, Replays, Event
<1>s. Stored
  BY DEF WellFormed
<1>p. ASSUME NEW a \in Appender, UNCHANGED log,
             Done(a) \/ \E at \in {"passed", "queued", "full"} : Step(a, at) /\ pub[a].at # "idle"
      PROVE  /\ \A b \in Appender : pub'[b].id <= log' /\ (pub'[b].at = "idle" <=> pub'[b].id = 0)
             /\ \A b, c \in Appender : pub'[b].id = pub'[c].id /\ pub'[b].id # 0 => b = c
  <2>1. /\ pub' = [pub EXCEPT ![a] = pub'[a]]
        /\ \/ pub'[a].id = 0 /\ pub'[a].at = "idle"
           \/ pub'[a].id = pub[a].id /\ pub'[a].at # "idle" /\ pub[a].at # "idle"
    BY <1>p, PublishSteps DEF WellFormed, Publishes
  <2> QED
    BY <1>0, <1>s, <1>p, <2>1 DEF Stored
<1>1. ASSUME NEW a \in Appender, append(a) PROVE Stored'
  <2>1. Publishes(a, "stored", log + 1) /\ log' = log + 1 /\ UNCHANGED <<conn, missed>>
    BY <1>1, PublishSteps DEF append, WellFormed, history
  <2> QED
    BY <1>0, <1>s, <2>1 DEF Stored, Publishes
<1>2. ASSUME NEW a \in Appender, CheckSeen(a) PROVE Stored'
  BY <1>0, <1>s, <1>2, <1>p DEF CheckSeen, Publishing, Stored
<1>3. ASSUME NEW a \in Appender, TrySend(a) PROVE Stored'
  <2>1. conn'.last = conn.last
    BY <1>3 DEF TrySend, WellFormed, Types
  <2> QED
    BY <1>0, <1>s, <1>3, <1>p, <2>1 DEF TrySend, Publishing, Stored
<1>4. ASSUME NEW a \in Appender, NoteSent(a) PROVE Stored'
  <2>1. conn'.last = Larger(conn.last, pub[a].id)
    BY <1>4 DEF NoteSent, WellFormed, Types
  <2> QED
    BY <1>0, <1>s, <1>4, <1>p, <2>1 DEF NoteSent, Larger, Stored, history
<1>5. ASSUME NEW a \in Appender, schedule_resync(a) PROVE Stored'
  BY <1>0, <1>s, <1>5, <1>p DEF schedule_resync, Stored, history
<1>6. ASSUME NEW t \in Task, ResyncDone(t) PROVE Stored'
  <2>1. conn'.last = Larger(conn.last, task[t].last)
    BY <1>6 DEF ResyncDone, WellFormed, Types
  <2> QED
    BY <1>0, <1>s, <1>6, <2>1 DEF ResyncDone, Larger, Stored, history
<1>7. CASE Register
  <2>1. conn'.last \in 0..log
    BY <1>0, <1>7 DEF Register
  <2> QED
    BY <1>0, <1>s, <1>7, <2>1 DEF Register, Stored, history
<1>8. CASE unregister \/ Disconnect
  <2>1. conn'.last = conn.last
    BY <1>8 DEF unregister, Disconnect, WellFormed, Types
  <2> QED
    BY <1>s, <1>8, <2>1 DEF unregister, Disconnect, Stored, history
<1>9. ASSUME UNCHANGED <<log, pub, conn, missed>> PROVE Stored'
  BY <1>s, <1>9 DEF Stored
<1> QED
  BY <1>1, <1>2, <1>3, <1>4, <1>5, <1>6, <1>7, <1>8, <1>9
     DEF Next, Daemon, Broadcast, Resync, ResyncQuery, ResyncSend, ResyncFails, Pump, vars, history

(* A new row is behind every replay, and a replay sends what comes next.       *)
LEMMA StepReplays ==
    ASSUME WellFormed, [Next]_vars
    PROVE  Replays'
<1>0. log \in 0..MaxEvents /\ log \in Nat /\ task \in [Task -> TaskType] /\ conn.last \in 0..log
  BY DEF WellFormed, Types, Stored
<1>r. Replays
  BY DEF WellFormed
<1>t. ASSUME NEW t \in Task
      PROVE  /\ task[t].cursor \in 0..log /\ task[t].last \in 0..log /\ task[t].todo \in Seq(Event)
  BY <1>0, <1>r DEF TaskType, Replays
<1>1. ASSUME UNCHANGED task, log' \in Nat, log' >= log PROVE Replays'
  <2> SUFFICES ASSUME NEW t \in Task
      PROVE  /\ task[t].cursor <= log' /\ task[t].last <= log'
             /\ \A n \in DOMAIN task[t].todo : task[t].todo[n] = task[t].last + n
             /\ \A n \in DOMAIN task[t].todo : task[t].todo[n] <= log'
             /\ task[t].at # "send" => task[t].todo = <<>>
    BY <1>1 DEF Replays
  <2>1. \A n \in DOMAIN task[t].todo : task[t].todo[n] \in Nat
    <3>1. task[t].todo \in [1..Len(task[t].todo) -> Event]
      BY <1>t, LenProperties
    <3> QED
      BY <3>1 DEF Event
  <2> QED
    BY <1>0, <1>1, <1>r, <1>t, <2>1 DEF Replays
<1>2. ASSUME NEW t \in Task, UNCHANGED log, task' = [task EXCEPT ![t] = task'[t]],
             task'[t].cursor <= log, task'[t].last <= log,
             \A n \in DOMAIN task'[t].todo : task'[t].todo[n] = task'[t].last + n,
             \A n \in DOMAIN task'[t].todo : task'[t].todo[n] <= log,
             task'[t].at # "send" => task'[t].todo = <<>>
      PROVE  Replays'
  BY <1>0, <1>2, <1>r DEF Replays
<1>3. ASSUME NEW c \in 0..log, NEW t \in Task, UNCHANGED log,
             task' = [task EXCEPT ![t] = NewTask(c)] \/ task' = [task EXCEPT ![t] = NoTask]
      PROVE  Replays'
  <2>1. /\ task' = [task EXCEPT ![t] = task'[t]]
        /\ task'[t].cursor <= log /\ task'[t].last <= log /\ task'[t].todo = <<>>
    BY <1>0, <1>3 DEF NewTask, NoTask
  <2> QED
    BY <1>2, <1>3, <2>1
<1>4. ASSUME NEW a \in Appender, append(a) PROVE Replays'
  BY <1>0, <1>1, <1>4 DEF append
<1>5. ASSUME NEW a \in Appender, schedule_resync(a) PROVE Replays'
  <2>1. pub[a].id \in Task
    BY <1>0, <1>5
       DEF schedule_resync, Publishing, WellFormed, Stored, Types, PubType, Task, Event
  <2> QED
    BY <1>0, <1>1, <1>3, <1>5, <2>1, log >= log DEF schedule_resync
<1>6. CASE Register
  BY <1>0, <1>1, <1>3, <1>6, RecordTypes DEF Register
<1>7. CASE Disconnect
  BY <1>0, <1>7 DEF Disconnect, Replays, NoTask
<1>8. ASSUME NEW t \in Task, ResyncQuery(t) PROVE Replays'
  <2>0. UNCHANGED log /\ task' = [task EXCEPT ![t] = task'[t]] /\ task'[t].at = "send"
    BY <1>0, <1>8 DEF ResyncQuery, TaskType
  <2>1. /\ task'[t].todo = query_all(task[t].cursor)
        /\ task'[t].cursor = task[t].cursor /\ task'[t].last = task[t].cursor
    BY <1>0, <1>8 DEF ResyncQuery, TaskType
  <2>2. \A n \in DOMAIN task'[t].todo : /\ task'[t].todo[n] = task'[t].last + n
                                      /\ task'[t].todo[n] <= log
    BY <1>0, <1>t, <2>1, QueryRows
  <2>3. task'[t].cursor <= log /\ task'[t].last <= log
    BY <1>0, <1>t, <2>1
  <2> QED
    BY <1>2, <2>0, <2>2, <2>3
<1>9. ASSUME NEW t \in Task, ResyncSend(t) PROVE Replays'
  <2> DEFINE q == task[t].todo
  <2>0. UNCHANGED log /\ task' = [task EXCEPT ![t] = task'[t]] /\ task'[t].at = "send"
    BY <1>0, <1>9 DEF ResyncSend, TaskType
  <2>1. /\ task'[t].todo = Tail(q)
        /\ task'[t].cursor = task[t].cursor /\ task'[t].last = Head(q)
    BY <1>0, <1>9 DEF ResyncSend, TaskType
  <2>2. q \in Seq(Event) /\ q # <<>>
    BY <1>9, <1>t DEF ResyncSend
  <2>3. /\ Head(q) = task[t].last + 1 /\ Head(q) <= log
        /\ \A n \in DOMAIN Tail(q) : Tail(q)[n] = task[t].last + (n + 1) /\ Tail(q)[n] <= log
    <3>1. /\ \A n \in DOMAIN q : q[n] = task[t].last + n
          /\ \A n \in DOMAIN q : q[n] <= log
      BY <1>r DEF Replays
    <3> QED
      BY <2>2, <3>1, TailElements
  <2>4. Tail(q) \in Seq(Event) /\ DOMAIN Tail(q) = 1..Len(Tail(q))
    BY <2>2, TailElements, LenProperties
  <2> HIDE DEF q
  <2>5. \A n \in 1..Len(Tail(q)) : task[t].last + (n + 1) = (task[t].last + 1) + n
    BY <1>0, <1>t
  <2>6. \A n \in DOMAIN task'[t].todo : /\ task'[t].todo[n] = task'[t].last + n
                                      /\ task'[t].todo[n] <= log
    BY <2>1, <2>3, <2>4, <2>5
  <2>7. task'[t].cursor <= log /\ task'[t].last <= log
    BY <1>0, <1>t, <2>1, <2>3
  <2> QED
    BY <1>2, <2>0, <2>6, <2>7
<1>10. ASSUME NEW t \in Task, ResyncDone(t) PROVE Replays'
  BY <1>0, <1>3, <1>10 DEF ResyncDone
<1>11. ASSUME NEW t \in Task, ResyncFails(t) PROVE Replays'
  <2>1. /\ task' = [task EXCEPT ![t] = task'[t]]
        /\ task'[t].todo = task[t].todo /\ task[t].at # "send"
        /\ task'[t].cursor = task[t].cursor /\ task'[t].last = task[t].last
    BY <1>0, <1>11 DEF ResyncFails, TaskType
  <2> QED
    BY <1>2, <1>11, <1>r, <2>1 DEF ResyncFails, Replays
<1>12. ASSUME UNCHANGED <<log, task>> PROVE Replays'
  BY <1>0, <1>1, <1>12
<1> QED
  BY <1>4, <1>5, <1>6, <1>7, <1>8, <1>9, <1>10, <1>11, <1>12
     DEF Next, Daemon, Broadcast, Resync, CheckSeen, TrySend, NoteSent, Pump, unregister, vars

(* An id leaves publication when its resync is scheduled, and never comes back.*)
LEMMA StepOneResyncEach ==
    ASSUME WellFormed, [Next]_vars
    PROVE  OneResyncEach'
<1>0. /\ log \in Nat /\ task \in [Task -> TaskType] /\ pub \in [Appender -> PubType]
      /\ \A e \in Event : e \in Task /\ e \in Nat /\ e # 0 /\ e # Feed
  BY RecordTypes DEF WellFormed, Types, Event, Feed
<1>o. OneResyncEach
  BY DEF WellFormed
<1>1. ASSUME UNCHANGED <<log, task>>, \A b \in Appender : pub'[b].id \in {0, pub[b].id}
      PROVE  OneResyncEach'
  BY <1>0, <1>o, <1>1 DEF OneResyncEach
<1>2. ASSUME NEW a \in Appender, append(a) PROVE OneResyncEach'
  <2>1. /\ Publishes(a, "stored", log + 1) /\ log' = log + 1 /\ UNCHANGED task
    BY <1>2, PublishSteps DEF append, WellFormed
  <2>2. \A b \in Appender : pub'[b].id = log + 1 \/ pub'[b].id = pub[b].id
    BY <1>0, <2>1 DEF Publishes
  <2> QED
    BY <1>0, <1>o, <2>1, <2>2 DEF OneResyncEach
<1>p. ASSUME NEW a \in Appender, Done(a) \/ \E at : Step(a, at)
      PROVE  \A b \in Appender : pub'[b].id \in {0, pub[b].id}
  BY <1>0, <1>p, PublishSteps DEF WellFormed, Publishes
<1>3. ASSUME NEW a \in Appender, CheckSeen(a) \/ TrySend(a) \/ NoteSent(a) PROVE OneResyncEach'
  BY <1>1, <1>3, <1>p DEF CheckSeen, TrySend, NoteSent
<1>4. ASSUME NEW a \in Appender, schedule_resync(a) PROVE OneResyncEach'
  <2>1. /\ \A b \in Appender : pub'[b].id \in {0, pub[b].id}
        /\ pub'[a].id = 0 /\ UNCHANGED log /\ pub[a].id # 0 /\ pub[a].id <= log
    BY <1>0, <1>4, <1>p, PublishSteps
       DEF schedule_resync, Publishing, WellFormed, Stored, Publishes
  <2>2. \A b \in Appender : pub'[b].id # pub[a].id
    BY <1>0, <2>1 DEF WellFormed, Stored
  <2>3. \A t \in Task : t # pub[a].id => task'[t] = task[t]
    BY <1>0, <1>4 DEF schedule_resync
  <2> QED
    BY <1>0, <1>o, <2>1, <2>2, <2>3 DEF OneResyncEach
<1>5. ASSUME NEW t \in Task, Resync(t) \/ ResyncFails(t) PROVE OneResyncEach'
  <2>1. task[t] # NoTask /\ UNCHANGED <<log, pub>> /\ \A u \in Task \ {t} : task'[u] = task[u]
    BY <1>0, <1>5 DEF Resync, ResyncQuery, ResyncSend, ResyncDone, ResyncFails, NoTask
  <2> QED
    BY <1>0, <1>o, <2>1 DEF OneResyncEach
<1>6. CASE Register
  <2>1. UNCHANGED <<log, pub>> /\ \A u \in Event : task'[u] = task[u]
    BY <1>0, <1>6 DEF Register
  <2> QED
    BY <1>o, <2>1 DEF OneResyncEach
<1>7. CASE Disconnect
  BY <1>0, <1>7 DEF Disconnect, OneResyncEach
<1>8. ASSUME UNCHANGED <<log, task, pub>> PROVE OneResyncEach'
  BY <1>o, <1>8 DEF OneResyncEach
<1> QED
  BY <1>2, <1>3, <1>4, <1>5, <1>6, <1>7, <1>8
     DEF Next, Daemon, Broadcast, Pump, unregister, vars

(* Nothing is queued or replayed for a connection that is not registered.      *)
LEMMA StepUnregistered ==
    ASSUME WellFormed, [Next]_vars
    PROVE  Unregistered'
<1>0. /\ log \in Nat /\ task \in [Task -> TaskType] /\ pub \in [Appender -> PubType]
  BY DEF WellFormed, Types
<1>u. Unregistered
  BY DEF WellFormed
<1>1. ASSUME NEW a \in Appender, append(a) PROVE Unregistered'
  <2>1. /\ Publishes(a, "stored", log + 1) /\ log' = log + 1
        /\ UNCHANGED <<conn, queue, task, missed>>
    BY <1>1, PublishSteps DEF append, WellFormed, history
  <2>2. \A b \in Appender : b # a => pub'[b] = pub[b]
    BY <1>0, <2>1 DEF Publishes
  <2>3. pub[a].id = 0
    BY <1>1 DEF append, Idle
  <2> QED
    BY <1>0, <1>u, <2>1, <2>2, <2>3 DEF Unregistered, Publishes
<1>2. ASSUME NEW a \in Appender, CheckSeen(a) PROVE Unregistered'
  <2>1. UNCHANGED <<log, conn, queue, task>>
    BY <1>2 DEF CheckSeen
  <2>2. CASE conn.at = "none"
    <3>1. Publishes(a, "idle", 0) /\ missed' = missed \union {pub[a].id}
      BY <1>2, <2>2, PublishSteps DEF CheckSeen, WellFormed
    <3>2. \A b \in Appender : b # a => pub'[b] = pub[b]
      BY <1>0, <3>1 DEF Publishes
    <3> QED
      BY <1>u, <2>1, <2>2, <3>1, <3>2 DEF Unregistered, Publishes
  <2> QED
    BY <1>u, <2>1, <2>2 DEF Unregistered
<1>3. ASSUME NEW a \in Appender, TrySend(a) PROVE Unregistered'
  <2>1. conn.at # "none"
    BY <1>3, <1>u DEF TrySend, Publishing, Unregistered
  <2>2. CASE conn.at = "up"
    BY <1>3, <2>2 DEF TrySend, Unregistered
  <2>3. CASE conn.at # "up"
    <3>1. conn'.at = "gone" /\ UNCHANGED <<queue, task>>
      BY <1>3, <2>3 DEF TrySend, WellFormed, Types
    <3> QED
      BY <1>u, <2>3, <3>1 DEF Unregistered
  <2> QED
    BY <2>2, <2>3
<1>4. ASSUME NEW a \in Appender, NoteSent(a) PROVE Unregistered'
  <2>1. conn.at # "none"
    BY <1>4, <1>u DEF NoteSent, Publishing, Unregistered
  <2>2. conn'.at = conn.at /\ UNCHANGED <<queue, task>>
    BY <1>4 DEF NoteSent, WellFormed, Types
  <2> QED
    BY <1>u, <2>1, <2>2 DEF Unregistered
<1>5. ASSUME NEW a \in Appender, schedule_resync(a) PROVE Unregistered'
  <2>1. conn.at # "none"
    BY <1>5, <1>u DEF schedule_resync, Publishing, Unregistered
  <2> QED
    BY <1>5, <1>u, <2>1 DEF schedule_resync, Unregistered
<1>6. ASSUME NEW t \in Task, Resync(t) \/ ResyncFails(t) PROVE Unregistered'
  <2>1. conn.at = "up"
    BY <1>6, <1>u
       DEF Resync, ResyncQuery, ResyncSend, ResyncDone, ResyncFails, NoTask, Unregistered
  <2>2. conn'.at = conn.at
    BY <1>6 DEF Resync, ResyncQuery, ResyncSend, ResyncDone, ResyncFails, WellFormed, Types
  <2> QED
    BY <2>1, <2>2 DEF Unregistered
<1>7. CASE Register
  BY <1>7 DEF Register, Unregistered
<1>8. CASE Disconnect
  BY <1>8 DEF Disconnect, Unregistered, WellFormed, Types
<1>9. CASE unregister
  <2>1. conn'.at = "gone" /\ conn.at = "closed" /\ UNCHANGED <<queue, task>>
    BY <1>9 DEF unregister, WellFormed, Types
  <2> QED
    BY <1>u, <2>1 DEF Unregistered
<1>10. CASE Pump
  BY <1>10 DEF Pump, Unregistered
<1>11. CASE UNCHANGED vars
  BY <1>u, <1>11 DEF vars, Unregistered
<1> QED
  BY <1>1, <1>2, <1>3, <1>4, <1>5, <1>6, <1>7, <1>8, <1>9, <1>10, <1>11
     DEF Next, Daemon, Broadcast

\* Every action keeps the types, and the ids and cursors those of stored rows.
LEMMA StepWellFormed ==
    ASSUME WellFormed, [Next]_vars
    PROVE  WellFormed'
BY StepTypes, StepStored, StepReplays, StepOneResyncEach, StepUnregistered DEF WellFormed

------------------------------------------------------------------------------
(* Cursors, and what is skipped                                                *)

(* While it is registered, a connection is owed the same, and new rows.        *)
LEMMA DueStays ==
    ASSUME WellFormed, [Next]_vars, conn.at = "up", conn'.at = "up"
    PROVE  /\ conn'.after = conn.after /\ missed' = missed
           /\ \A e \in Due' : e <= log => e \in Due
           /\ \A e \in Due' : e > log => \E a \in Appender : pub'[a].id = e
<1>0. log \in Nat /\ pub \in [Appender -> PubType]
  BY DEF WellFormed, Types
<1>1. conn'.after = conn.after /\ missed' = missed
  BY DEF WellFormed, Types, Next, vars, Daemon, Broadcast, Resync, append, CheckSeen, TrySend,
         NoteSent, schedule_resync, Register, Pump, Disconnect, unregister, ResyncQuery,
         ResyncFails, ResyncSend, ResyncDone, history
<1>2. UNCHANGED log \/ \E a \in Appender : append(a)
  BY DEF Next, vars, Daemon, Broadcast, Resync, CheckSeen, TrySend,
         NoteSent, schedule_resync, Register, Pump, Disconnect, unregister, ResyncQuery,
         ResyncFails, ResyncSend, ResyncDone
<1>3. ASSUME NEW a \in Appender, append(a) PROVE log' = log + 1 /\ pub'[a].id = log + 1
  BY <1>0, <1>3 DEF append
<1>4. \A e \in Due' : e <= log => e \in Due
  BY <1>0, <1>1, <1>2, <1>3 DEF Due
<1>5. \A e \in Due' : e > log => \E a \in Appender : pub'[a].id = e
  BY <1>0, <1>2, <1>3 DEF Due
<1> QED
  BY <1>1, <1>4, <1>5

(* What is covered stays covered: a replay hands its rows to the queue and the *)
(* queue hands them to the socket.                                             *)
LEMMA CoveredStays ==
    ASSUME WellFormed, [Next]_vars, conn.at = "up", conn'.at = "up",
           NEW e \in 1..log, Covered(e)
    PROVE  Covered(e)'
<1>0. /\ log \in 0..MaxEvents /\ task \in [Task -> TaskType] /\ queue \in Seq(Event) /\ e \in Event
      /\ \A t \in Task : task[t].cursor \in 0..log /\ task[t].todo \in Seq(Event)
  BY BoundsAssumption DEF WellFormed, Types, TaskType, Replays, Event
<1>1. ASSUME sent \subseteq sent', overtaken \subseteq overtaken', cut \subseteq cut',
             e \in Queued => e \in sent' \/ e \in Queued',
             \A t \in Task : \/ task'[t] = task[t]
                             \/ task[t] = NoTask
                             \/ e \notin Todo(t) /\ task[t].at = "send"
      PROVE  Covered(e)'
  <2>1. ASSUME NEW t \in Task, e \in Todo(t) PROVE e \in Todo(t)'
    <3>1. task[t] # NoTask
      BY <2>1 DEF Todo, NoTask
    <3> QED
      BY <1>1, <2>1, <3>1 DEF Todo
  <2>2. ASSUME NEW t \in Task, task[t].at \in {"query", "failed"}
        PROVE  task'[t] = task[t]
    BY <1>1, <2>2 DEF NoTask
  <2> QED
    BY <1>1, <2>1, <2>2 DEF Covered, Excused
<1>q. ASSUME UNCHANGED queue PROVE Queued' = Queued
  BY <1>q DEF Queued
<1>2. ASSUME NEW a \in Appender, Broadcast(a) PROVE Covered(e)'
  <2>1. CASE CheckSeen(a) \/ NoteSent(a)
    BY <1>1, <1>q, <2>1 DEF CheckSeen, NoteSent, history
  <2>2. CASE TrySend(a)
    <3>1. pub[a].id \in Event
      BY <2>2, BoundsAssumption
         DEF TrySend, Publishing, WellFormed, Types, PubType, Stored, Event
    <3>2. e \in Queued => e \in Queued'
      BY <1>0, <2>2, <3>1, QueuedGrows DEF TrySend, Queued
    <3>3. UNCHANGED <<task, sent, cut>> /\ overtaken \subseteq overtaken'
      BY <2>2 DEF TrySend
    <3> QED
      BY <1>1, <3>2, <3>3
  <2>3. CASE schedule_resync(a)
    <3>1. pub[a].id \in Event /\ task[pub[a].id] = NoTask
      BY <2>3, BoundsAssumption
         DEF schedule_resync, Publishing, WellFormed, Types, PubType, Stored, OneResyncEach, Event
    <3>2. \A t \in Task : task'[t] = task[t] \/ task[t] = NoTask
      BY <1>0, <2>3, <3>1 DEF schedule_resync
    <3> QED
      BY <1>1, <1>q, <2>3, <3>2 DEF schedule_resync, history
  <2> QED
    BY <1>2, <2>1, <2>2, <2>3 DEF Broadcast
<1>3. ASSUME NEW t \in Task, ResyncQuery(t) PROVE Covered(e)'
  <2>1. \A u \in Task \ {t} : task'[u] = task[u]
    BY <1>0, <1>3 DEF ResyncQuery
  <2>2. task[t].at = "query" /\ task'[t].todo = query_all(task[t].cursor)
    BY <1>0, <1>3 DEF ResyncQuery, TaskType
  <2>3. task[t].cursor < e => e \in Todo(t)' \/ e \in cut'
    <3>1. ASSUME task[t].cursor + QueryLimit < e PROVE e \in cut'
      BY <1>0, <1>3, <3>1 DEF ResyncQuery
    <3>2. ASSUME task[t].cursor < e, ~(task[t].cursor + QueryLimit < e) PROVE e \in Todo(t)'
      BY <1>0, <2>2, <3>2, QueryRows DEF Todo
    <3> QED
      BY <3>1, <3>2
  <2>4. e \notin Todo(t)
    BY <2>2 DEF Todo, WellFormed, Replays
  <2>5. UNCHANGED <<sent, queue, overtaken>> /\ cut \subseteq cut'
    BY <1>3 DEF ResyncQuery
  <2>6. CASE task[t].cursor < e
    BY <2>3, <2>6 DEF Covered, Excused
  <2>7. CASE ~(task[t].cursor < e)
    <3>1. \A u \in Task : e \in Todo(u) => u # t /\ e \in Todo(u)'
      BY <2>1, <2>4 DEF Todo
    <3>2. \A u \in Task : task[u].cursor < e => u # t /\ task'[u] = task[u]
      BY <2>1, <2>7
    <3> QED
      BY <2>5, <3>1, <3>2 DEF Covered, Excused, Queued
  <2> QED
    BY <2>6, <2>7
<1>4. ASSUME NEW t \in Task, ResyncSend(t) PROVE Covered(e)'
  <2> DEFINE q == task[t].todo
  <2>1. q \in Seq(Event) /\ q # <<>> /\ task[t].at = "send"
    BY <1>0, <1>4 DEF ResyncSend
  <2>2. /\ \A u \in Task \ {t} : task'[u] = task[u]
        /\ task'[t].todo = Tail(q)
        /\ queue' = Append(queue, Head(q))
        /\ UNCHANGED <<sent, overtaken, cut>>
    BY <1>0, <1>4 DEF ResyncSend, TaskType, history
  <2>3. e \in Todo(t) => e = Head(q) \/ e \in Todo(t)'
    <3>1. \A n \in DOMAIN q : n # 1 => n - 1 \in DOMAIN Tail(q) /\ Tail(q)[n - 1] = q[n]
      BY <2>1, TailElements
    <3>2. Head(q) = q[1]
      BY <2>1, TailElements
    <3>3. Todo(t) = {q[n] : n \in DOMAIN q} /\ Todo(t)' = {Tail(q)[n] : n \in DOMAIN Tail(q)}
      BY <2>2 DEF Todo
    <3> HIDE DEF q
    <3> QED
      BY <3>1, <3>2, <3>3
  <2>4. e \in Queued \/ e = Head(q) => e \in Queued'
    <3>1. Head(q) \in Event
      BY <2>1, TailElements
    <3> HIDE DEF q
    <3> QED
      BY <1>0, <2>2, <3>1, QueuedGrows
  <2>5. \A u \in Task : e \in Todo(u) => e \in Queued' \/ e \in Todo(u)'
    BY <2>2, <2>3, <2>4 DEF Todo
  <2>6. \A u \in Task : task[u].at \in {"query", "failed"} => task'[u] = task[u]
    BY <2>1, <2>2
  <2> HIDE DEF q
  <2> QED
    BY <2>2, <2>4, <2>5, <2>6 DEF Covered, Excused
<1>5. ASSUME NEW t \in Task, ResyncDone(t) PROVE Covered(e)'
  <2>1. /\ e \notin Todo(t) /\ task[t].at = "send" /\ \A u \in Task \ {t} : task'[u] = task[u]
    BY <1>0, <1>5 DEF ResyncDone, Todo
  <2> QED
    BY <1>1, <1>q, <1>5, <2>1 DEF ResyncDone, history
<1>6. ASSUME NEW t \in Task, ResyncFails(t) PROVE Covered(e)'
  <2>1. /\ \A u \in Task \ {t} : task'[u] = task[u]
        /\ task'[t].at = "failed" /\ task'[t].cursor = task[t].cursor
        /\ task'[t].todo = task[t].todo /\ task[t].at = "query"
    BY <1>0, <1>6 DEF ResyncFails, TaskType
  <2>2. UNCHANGED <<sent, queue, overtaken, cut>>
    BY <1>6 DEF ResyncFails, history
  <2>3. \A u \in Task : e \in Todo(u) => e \in Todo(u)'
    BY <2>1 DEF Todo
  <2>4. \A u \in Task : task[u].at \in {"query", "failed"} /\ task[u].cursor < e
            => task'[u].at \in {"query", "failed"} /\ task'[u].cursor < e
    BY <2>1
  <2> QED
    BY <2>2, <2>3, <2>4 DEF Covered, Excused, Queued
<1>7. CASE Pump
  <2>1. e \in Queued => e = Head(queue) \/ e \in Queued'
    <3>1. queue # <<>> /\ queue' = Tail(queue)
      BY <1>7 DEF Pump
    <3>2. \A n \in DOMAIN queue : n # 1 => n - 1 \in DOMAIN Tail(queue) /\ Tail(queue)[n - 1] = queue[n]
      BY <1>0, <3>1, TailElements
    <3>3. Head(queue) = queue[1]
      BY <1>0, <3>1, TailElements
    <3> QED
      BY <3>1, <3>2, <3>3 DEF Queued
  <2> QED
    BY <1>1, <1>7, <2>1 DEF Pump, history
<1>8. CASE Register \/ Disconnect \/ unregister
  BY <1>8 DEF Register, Disconnect, unregister, WellFormed, Types
<1>9. ASSUME NEW a \in Appender, append(a) PROVE Covered(e)'
  BY <1>1, <1>q, <1>9 DEF append, history
<1>10. CASE UNCHANGED vars
  BY <1>1, <1>q, <1>10 DEF vars
<1> QED
  BY <1>2, <1>3, <1>4, <1>5, <1>6, <1>7, <1>8, <1>9, <1>10 DEF Next, Daemon, Resync

(* What is below an old cursor stays covered, whatever is published meanwhile. *)
LEMMA CoverageStays ==
    ASSUME WellFormed, [Next]_vars, conn.at = "up", conn'.at = "up"
    PROVE  \A e \in Due' : e <= log => /\ e \in Due
                                       /\ Covered(e) => Covered(e)'
<1>1. ASSUME NEW e \in Due', e <= log PROVE e \in Due /\ (Covered(e) => Covered(e)')
  <2>1. e \in Due
    BY <1>1, DueStays
  <2>2. e \in 1..log
    BY <2>1 DEF Due
  <2> QED
    BY <2>1, <2>2, CoveredStays
<1> QED
  BY <1>1

(* An event that is owed is covered, or still in publication.                  *)
LEMMA OwedIsCovered ==
    NothingSkipped <=>
        (conn.at = "up" => \A e \in Due : Covered(e) \/ \E a \in Appender : pub[a].id = e)
BY DEF NothingSkipped, OnItsWay, Covered

(* A connection that registers has cursors with nothing owed below them.       *)
LEMMA RegisterTells ==
    ASSUME WellFormed, Register
    PROVE  CursorsTell' /\ NothingSkipped'
<1>0. /\ log \in Nat /\ task = [t \in Task |-> NoTask] /\ UNCHANGED <<log, pub, missed>>
      /\ \A a \in Appender : pub[a].at \in {"idle", "stored"}
      /\ \A e \in 1..log : e \in missed \/ \E a \in Appender : pub[a].id = e
  BY DEF WellFormed, Types, Unregistered, Register, history
<1>1. CASE conn' = [at |-> "up", last |-> 0, after |-> NoCursor] /\ task' = task
  <2>1. \A e \in Due' : e \in 1..log /\ e \notin missed
    BY <1>0, <1>1 DEF Due
  <2>2. \A t \in Task : task'[t].at = "none"
    BY <1>0, <1>1 DEF NoTask
  <2>3. CursorsTell'
    BY <1>0, <1>1, <2>1, <2>2 DEF CursorsTell, UpTo
  <2>4. NothingSkipped'
    BY <1>0, <2>1 DEF NothingSkipped, OnItsWay
  <2> QED
    BY <2>3, <2>4
<1>2. ASSUME NEW c \in 0..log, conn' = [at |-> "up", last |-> c, after |-> c],
             task' = [task EXCEPT ![Feed] = NewTask(c)]
      PROVE  CursorsTell' /\ NothingSkipped'
  <2>1. \A e \in Due' : e > c
    BY <1>0, <1>2 DEF Due, NoCursor
  <2>2. /\ \A t \in Task \ {Feed} : task'[t].at = "none"
        /\ Feed \in Task /\ task'[Feed].at = "query" /\ task'[Feed].cursor = c
    BY <1>0, <1>2, RecordTypes DEF NoTask, NewTask
  <2>3. \A e \in Due' : e \in Nat
    BY <1>0 DEF Due
  <2>4. CursorsTell'
    BY <1>0, <1>2, <2>1, <2>2, <2>3 DEF CursorsTell, UpTo
  <2>5. NothingSkipped'
    BY <2>1, <2>2, <2>3 DEF NothingSkipped, OnItsWay
  <2> QED
    BY <2>4, <2>5
<1> QED
  BY <1>1, <1>2 DEF Register

(* Only an appender touches its entry, and few steps touch the replays.        *)
LEMMA Frames ==
    ASSUME Types, [Next]_vars
    PROVE  /\ \A a \in Appender : pub'[a] = pub[a] \/ append(a) \/ Broadcast(a)
           /\ \/ UNCHANGED task
              \/ \E a \in Appender : schedule_resync(a)
              \/ \E t \in Task : Resync(t) \/ ResyncFails(t)
              \/ Register \/ Disconnect
<1>1. UNCHANGED pub \/ \E a \in Appender : append(a) \/ Broadcast(a)
  BY DEF Next, vars, Daemon, Resync, Register, Pump, Disconnect, unregister, ResyncQuery,
         ResyncFails, ResyncSend, ResyncDone
<1>2. ASSUME NEW a \in Appender, append(a) \/ Broadcast(a)
      PROVE  \A b \in Appender \ {a} : pub'[b] = pub[b]
  BY <1>2
     DEF Types, append, Broadcast, CheckSeen, TrySend, NoteSent, schedule_resync, Done, Step
<1>3. \/ UNCHANGED task
      \/ \E a \in Appender : schedule_resync(a)
      \/ \E t \in Task : Resync(t) \/ ResyncFails(t)
      \/ Register \/ Disconnect
  BY DEF Next, vars, Daemon, Broadcast, append, CheckSeen, TrySend, NoteSent, Pump, unregister
<1> QED
  BY <1>1, <1>2, <1>3

(* Every cursor keeps telling the truth: it moves to an event that was queued, *)
(* or to the end of a replay, and what is below was covered before.            *)
LEMMA StepCursorsTell ==
    ASSUME Inv, [Next]_vars
    PROVE  CursorsTell'
<1>1. CASE conn'.at # "up"
  BY <1>1 DEF CursorsTell
<1>2. CASE conn.at # "up" /\ conn'.at = "up"
  <2>1. Register
    BY <1>2
       DEF Inv, WellFormed, Types, Next, vars, Daemon, Broadcast, Resync, append, CheckSeen,
                TrySend, NoteSent, schedule_resync, Pump, Disconnect, unregister, ResyncQuery,
                ResyncFails, ResyncSend, ResyncDone
  <2> QED
    BY <2>1, RegisterTells DEF Inv
<1>3. CASE conn.at = "up" /\ conn'.at = "up"
  <2>0. /\ log \in Nat /\ task \in [Task -> TaskType] /\ pub \in [Appender -> PubType]
        /\ conn.last \in 0..log /\ \A e \in Due' : e \in Nat /\ e >= 1
        /\ \A t \in Task : task[t].cursor \in 0..log /\ task[t].last \in 0..log
        /\ \A a \in Appender : pub[a].id \in 0..log
    <3>1. log' \in Nat
      BY StepWellFormed DEF Inv, WellFormed, Types
    <3> QED
      BY <3>1 DEF Inv, WellFormed, Types, TaskType, PubType, Stored, Replays, Due
  <2>1. \A e \in Due' : e <= log => e \in Due /\ (Covered(e) => Covered(e)')
    BY <1>3, CoverageStays DEF Inv
  <2>2. ASSUME NEW m \in Nat, NEW n \in 0..log, UpTo(n), m <= n
        PROVE  \A e \in Due' : e <= m => Covered(e)'
    BY <2>0, <2>1, <2>2 DEF UpTo
  <2>3. /\ UpTo(conn.last)
        /\ \A a \in Appender : pub[a].at = "queued" => UpTo(pub[a].id)
        /\ \A t \in Task : /\ task[t].at = "query" => UpTo(task[t].cursor)
                           /\ task[t].at = "send" => UpTo(task[t].last)
    BY <1>3 DEF Inv, CursorsTell
  <2>4. \A e \in Due' : e <= conn'.last => Covered(e)'
    <3>1. \/ conn'.last = conn.last
          \/ \E a \in Appender : pub[a].at = "queued" /\ conn'.last = Larger(conn.last, pub[a].id)
          \/ \E t \in Task : task[t].at = "send" /\ conn'.last = Larger(conn.last, task[t].last)
      BY <1>3
         DEF Inv, WellFormed, Types, Next, vars, Daemon, Broadcast, Resync, append, CheckSeen,
                  TrySend, NoteSent, schedule_resync, Pump, Disconnect, unregister, ResyncQuery,
                  ResyncFails, ResyncSend, ResyncDone, Publishing, Register
    <3>2. \A e \in Due' : e <= conn.last => Covered(e)'
      BY <2>0, <2>2, <2>3
    <3>3. \A a \in Appender : pub[a].at = "queued" => \A e \in Due' : e <= pub[a].id => Covered(e)'
      BY <2>0, <2>2, <2>3
    <3>4. \A t \in Task : task[t].at = "send" => \A e \in Due' : e <= task[t].last => Covered(e)'
      BY <2>0, <2>2, <2>3
    <3> QED
      BY <2>0, <3>1, <3>2, <3>3, <3>4 DEF Larger
  <2>5. ASSUME NEW a \in Appender, pub'[a].at = "queued"
        PROVE  \A e \in Due' : e <= pub'[a].id => Covered(e)'
    <3>1. CASE pub'[a] = pub[a]
      BY <2>0, <2>2, <2>3, <2>5, <3>1
    <3>2. CASE TrySend(a) /\ pub'[a] # pub[a]
      <4>1. /\ queue' = Append(queue, pub[a].id)
            /\ overtaken' = overtaken \union Behind(pub[a].id)
            /\ pub'[a].id = pub[a].id /\ UNCHANGED log
        BY <1>3, <2>0, <2>5, <3>2 DEF TrySend, Step, Done, Idle, PubType
      <4>2. pub[a].id \in Event /\ queue \in Seq(Event)
        BY <3>2, BoundsAssumption
           DEF TrySend, Publishing, Inv, WellFormed, Types, PubType, Stored, Event
      <4>3. pub[a].id \in Queued'
        BY <4>1, <4>2, QueuedGrows
      <4>4. ASSUME NEW e \in Due', e <= pub[a].id PROVE Covered(e)'
        <5>1. e \in Due /\ (Covered(e) => Covered(e)')
          BY <2>0, <2>1, <4>4
        <5>2. CASE Covered(e)
          BY <5>1, <5>2
        <5>3. ASSUME NEW b \in Appender, pub[b].id = e PROVE Covered(e)'
          <6>1. CASE e = pub[a].id
            BY <4>3, <6>1 DEF Covered
          <6>2. CASE e # pub[a].id
            <7>1. e < pub[a].id /\ pub[b] # Idle
              BY <2>0, <4>4, <5>3, <6>2 DEF Idle
            <7>2. e \in overtaken'
              BY <4>1, <5>3, <7>1 DEF Behind
            <7> QED
              BY <7>2 DEF Covered, Excused
          <6> QED
            BY <6>1, <6>2
        <5> QED
          BY <1>3, <5>1, <5>2, <5>3, OwedIsCovered DEF Inv
      <4> QED
        BY <4>1, <4>4
    <3>3. pub'[a] = pub[a] \/ TrySend(a)
      <4>1. CASE append(a) \/ CheckSeen(a) \/ NoteSent(a) \/ schedule_resync(a)
        BY <2>0, <2>5, <4>1
           DEF append, CheckSeen, NoteSent, schedule_resync, Done, Step, Idle, PubType
      <4> QED
        BY <4>1, Frames DEF Inv, WellFormed, Broadcast
    <3> QED
      BY <3>1, <3>2, <3>3
  <2>6. ASSUME NEW t \in Task, task'[t].at = "query"
        PROVE  \A e \in Due' : e <= task'[t].cursor => Covered(e)'
    <3>1. \/ task'[t] = task[t]
          \/ task'[t] = NewTask(conn.last)
      <4>1. ASSUME NEW u \in Task, Resync(u) \/ ResyncFails(u) PROVE task'[t] = task[t]
        <5>1. /\ task[u].at \in {"query", "send"}
              /\ task'[u].at \in {"send", "failed", "none"}
          BY <2>0, <4>1
             DEF Resync, ResyncQuery, ResyncSend, ResyncDone, ResyncFails, NoTask, TaskType
        <5>2. \A v \in Task \ {u} : task'[v] = task[v]
          BY <2>0, <4>1 DEF Resync, ResyncQuery, ResyncSend, ResyncDone, ResyncFails
        <5> QED
          BY <2>6, <5>1, <5>2
      <4>2. ASSUME NEW a \in Appender, schedule_resync(a)
            PROVE  task'[t] = task[t] \/ task'[t] = NewTask(conn.last)
        BY <2>0, <4>2 DEF schedule_resync
      <4>3. ~Register /\ ~Disconnect
        BY <1>3 DEF Register, Disconnect, Inv, WellFormed, Types
      <4> QED
        BY <4>1, <4>2, <4>3, Frames DEF Inv, WellFormed
    <3> QED
      BY <2>0, <2>2, <2>3, <2>6, <3>1 DEF NewTask
  <2>7. ASSUME NEW t \in Task, task'[t].at = "send"
        PROVE  \A e \in Due' : e <= task'[t].last => Covered(e)'
    <3>1. CASE task'[t] = task[t]
      BY <2>0, <2>2, <2>3, <2>7, <3>1
    <3>2. CASE ResyncQuery(t)
      <4>1. task[t].at = "query" /\ task'[t].last = task[t].cursor
        BY <2>0, <3>2 DEF ResyncQuery, TaskType
      <4> QED
        BY <2>0, <2>2, <2>3, <4>1
    <3>3. CASE ResyncSend(t)
      <4>1. /\ task[t].at = "send" /\ task'[t].last = Head(task[t].todo)
            /\ queue' = Append(queue, Head(task[t].todo)) /\ task[t].todo # <<>>
        BY <2>0, <3>3 DEF ResyncSend, TaskType
      <4>2. task[t].todo \in Seq(Event) /\ queue \in Seq(Event)
        BY <2>0 DEF TaskType, Inv, WellFormed, Types
      <4>3. /\ Head(task[t].todo) \in Event
            /\ Head(task[t].todo) = task[t].last + 1
        <5>1. \A n \in DOMAIN task[t].todo : task[t].todo[n] = task[t].last + n
          BY DEF Inv, WellFormed, Replays
        <5> QED
          BY <4>1, <4>2, <5>1, TailElements
      <4>4. Head(task[t].todo) \in Queued'
        BY <4>1, <4>2, <4>3, QueuedGrows
      <4>5. \A e \in Due' : e <= task[t].last => Covered(e)'
        BY <2>0, <2>2, <2>3, <4>1
      <4>6. \A e \in Due' : e = Head(task[t].todo) => Covered(e)'
        BY <4>4 DEF Covered
      <4>7. \A e \in Due' : e <= task'[t].last => e <= task[t].last \/ e = Head(task[t].todo)
        BY <2>0, <4>1, <4>3
      <4> QED
        BY <4>5, <4>6, <4>7
    <3>4. task'[t] = task[t] \/ ResyncQuery(t) \/ ResyncSend(t)
      <4>1. ASSUME NEW u \in Task, ResyncDone(u) \/ ResyncFails(u) PROVE task'[t] = task[t]
        <5>1. task'[u].at \in {"failed", "none"}
          BY <2>0, <4>1 DEF ResyncDone, ResyncFails, NoTask, TaskType
        <5>2. \A v \in Task \ {u} : task'[v] = task[v]
          BY <2>0, <4>1 DEF ResyncDone, ResyncFails
        <5> QED
          BY <2>7, <5>1, <5>2
      <4>2. ASSUME NEW u \in Task \ {t}, ResyncQuery(u) \/ ResyncSend(u)
            PROVE  task'[t] = task[t]
        BY <2>0, <4>2 DEF ResyncQuery, ResyncSend
      <4>3. ASSUME NEW a \in Appender, schedule_resync(a) PROVE task'[t] = task[t]
        BY <2>0, <2>7, <4>3 DEF schedule_resync, NewTask
      <4>4. ~Register /\ ~Disconnect
        BY <1>3 DEF Register, Disconnect, Inv, WellFormed, Types
      <4> QED
        BY <4>1, <4>2, <4>3, <4>4, Frames DEF Inv, WellFormed, Resync
    <3> QED
      BY <3>1, <3>2, <3>3, <3>4
  <2> QED
    BY <2>4, <2>5, <2>6, <2>7 DEF CursorsTell, UpTo
<1> QED
  BY <1>1, <1>2, <1>3

(* A publication ends with its event sent to the queue, or below a cursor, or  *)
(* with a resync that starts below the event.                                  *)
LEMMA StepNothingSkipped ==
    ASSUME Inv, [Next]_vars
    PROVE  NothingSkipped'
<1>1. CASE conn'.at # "up"
  BY <1>1 DEF NothingSkipped
<1>2. CASE conn.at # "up" /\ conn'.at = "up"
  <2>1. Register
    BY <1>2
       DEF Inv, WellFormed, Types, Next, vars, Daemon, Broadcast, Resync, append, CheckSeen,
                TrySend, NoteSent, schedule_resync, Pump, Disconnect, unregister, ResyncQuery,
                ResyncFails, ResyncSend, ResyncDone
  <2> QED
    BY <2>1, RegisterTells DEF Inv
<1>3. CASE conn.at = "up" /\ conn'.at = "up"
  <2>0. /\ log \in Nat /\ pub \in [Appender -> PubType] /\ task \in [Task -> TaskType]
        /\ \A b \in Appender : pub[b].id \in 0..log
    BY DEF Inv, WellFormed, Types, PubType, Stored
  <2>1. \A e \in Due' : e <= log => e \in Due /\ (Covered(e) => Covered(e)')
    BY <1>3, CoverageStays DEF Inv
  <2>2. ASSUME NEW e \in Due, NEW b \in Appender, pub[b].id = e, pub'[b].id # e, Covered(e) => Covered(e)'
        PROVE  Covered(e)'
    <3>0. conn.last \in Nat /\ e \in Nat /\ e # 0 /\ e \in Event
      BY <2>0, BoundsAssumption DEF Due, Inv, WellFormed, Types, Event
    <3>1. CASE CheckSeen(b)
      <4>1. e <= conn.last
        BY <1>3, <2>0, <2>2, <3>0, <3>1 DEF CheckSeen, Step, PubType
      <4> QED
        BY <1>3, <2>2, <4>1 DEF Inv, CursorsTell, UpTo
    <3>2. CASE TrySend(b)
      BY <1>3, <2>0, <2>2, <3>2 DEF TrySend, Step, PubType
    <3>3. CASE NoteSent(b)
      BY <1>3, <2>2, <3>0, <3>3 DEF NoteSent, Publishing, Inv, CursorsTell, UpTo
    <3>4. CASE schedule_resync(b)
      <4>1. CASE e <= conn.last
        BY <1>3, <2>2, <4>1 DEF Inv, CursorsTell, UpTo
      <4>2. CASE e > conn.last
        <5>1. e \in Task /\ task'[e] = NewTask(conn.last)
          BY <1>3, <2>0, <2>2, <3>0, <3>4, RecordTypes DEF schedule_resync
        <5> QED
          BY <3>0, <4>2, <5>1 DEF NewTask, Covered
      <4> QED
        BY <3>0, <4>1, <4>2
    <3>5. Broadcast(b)
      BY <2>0, <2>2, <3>0, Frames DEF Inv, WellFormed, append, Idle
    <3> QED
      BY <3>1, <3>2, <3>3, <3>4, <3>5 DEF Broadcast
  <2>3. ASSUME NEW e \in Due' PROVE Covered(e)' \/ \E a \in Appender : pub'[a].id = e
    <3>1. CASE e > log
      BY <1>3, <3>1, DueStays DEF Inv
    <3>2. CASE e <= log
      <4>1. e \in Due /\ (Covered(e) => Covered(e)')
        BY <2>1, <3>2
      <4> QED
        BY <1>3, <2>2, <4>1, OwedIsCovered DEF Inv
    <3> QED
      BY <2>0, <3>1, <3>2, StepWellFormed DEF Due, Inv, WellFormed, Types
  <2> QED
    BY <2>3 DEF NothingSkipped, OnItsWay, Covered
<1> QED
  BY <1>1, <1>2, <1>3

------------------------------------------------------------------------------
(* The theorems                                                                *)

\* Nothing is stored at the start.
LEMMA InitInv == Init => Inv
<1> SUFFICES ASSUME Init PROVE Inv
  OBVIOUS
<1>1. Types
  BY BoundsAssumption, RecordTypes, EmptySeq DEF Init, Types, NoCursor
<1>2. Stored /\ Replays /\ OneResyncEach /\ Unregistered
  BY RecordTypes DEF Init, Stored, Replays, OneResyncEach, Unregistered, Idle, NoTask
<1> QED
  BY <1>1, <1>2 DEF Init, Inv, WellFormed, CursorsTell, NothingSkipped

(* The invariant holds of every state.                                         *)
THEOREM Invariance == Spec => []Inv
<1>1. Inv /\ [Next]_vars => Inv'
  BY StepWellFormed, StepCursorsTell, StepNothingSkipped DEF Inv
<1> QED
  BY InitInv, <1>1, PTL DEF Spec

(* No event is skipped: the check against last_seen_id drops an event only if  *)
(* it is sent, queued or about to be replayed (sync/mod.rs:161-203, 627-649).  *)
THEOREM NoEventSkipped == Spec => []NothingSkipped
<1>1. Inv => NothingSkipped
  BY DEF Inv
<1> QED
  BY Invariance, <1>1, PTL

(* Every cursor tells the truth: what is below last_seen_id, or below the      *)
(* cursor of a replay, needs no publication any more (sync/mod.rs:161-203).    *)
THEOREM CursorsTellTruth == Spec => []CursorsTell
<1>1. Inv => CursorsTell
  BY DEF Inv
<1> QED
  BY Invariance, <1>1, PTL

------------------------------------------------------------------------------
\* Of numbers, one is the least.
LEMMA Least ==
    ASSUME NEW T, T \subseteq Nat, T # {}
    PROVE  \E x \in T : \A y \in T : x <= y
  <1>1. PICK x \in T : \A y \in T : ~(<<y, x>> \in OpToRel(<, Nat))
    BY NatLessThanWellFounded, WFMin, Zenon
  <1>2. \A y \in T : <<y, x>> \in OpToRel(<, Nat) <=> y < x
    BY DEF OpToRel
  <1>3. \A y \in T : ~(y < x)
    BY <1>1, <1>2
  <1> QED BY <1>3

------------------------------------------------------------------------------
(* Sets of numbers in their order                                              *)

Rank(S, n) == Cardinality({m \in S : m <= n})
Nth(S, k) == CHOOSE n \in S : Rank(S, n) = k

\* The ranks of a finite set count through it.
LEMMA RankIs ==
    ASSUME NEW S \in SUBSET Nat, IsFiniteSet(S)
    PROVE  /\ Cardinality(S) \in Nat
           /\ \A n \in S : Rank(S, n) \in 1..Cardinality(S)
           /\ \A m, n \in S : m < n => Rank(S, m) < Rank(S, n)
           /\ \A k \in 1..Cardinality(S) : \E n \in S : Rank(S, n) = k
  <1>1. Cardinality(S) \in Nat
    BY FS_CardinalityType
  <1>2. ASSUME NEW n \in S
        PROVE  Rank(S, n) \in 1..Cardinality(S)
    <2>1. PICK B : B = {m \in S : m <= n}
      OBVIOUS
    <2>2. B \in SUBSET S /\ n \in B
      BY <2>1
    <2>3. IsFiniteSet(B) /\ Cardinality(B) \in Nat /\ Cardinality(B) <= Cardinality(S) /\ Cardinality(B) # 0
      BY <2>2, FS_Subset, FS_CardinalityType, FS_EmptySet
    <2> QED BY <1>1, <2>1, <2>3 DEF Rank
  <1>3. ASSUME NEW m \in S, NEW n \in S, m < n
        PROVE  Rank(S, m) < Rank(S, n)
    <2>1. PICK A, B : A = {l \in S : l <= m} /\ B = {l \in S : l <= n}
      OBVIOUS
    <2>a. m \in Nat /\ n \in Nat /\ \A l \in S : l \in Nat
      OBVIOUS
    <2>b. \A l \in S : l <= m => l <= n
      BY <1>3, <2>a
    <2>c. \A l : (l \in A <=> l \in S /\ l <= m) /\ (l \in B <=> l \in S /\ l <= n)
      BY <2>1
    <2>d. n <= n /\ ~(n <= m)
      BY <1>3, <2>a
    <2>2. A \in SUBSET B /\ B \in SUBSET S /\ n \in B /\ n \notin A
      BY <2>b, <2>c, <2>d, Zenon
    <2>3. IsFiniteSet(B)
      BY <2>2, FS_Subset
    <2>4. /\ IsFiniteSet(A) /\ Cardinality(A) <= Cardinality(B)
          /\ Cardinality(B) = Cardinality(A) => B = A
      BY <2>2, <2>3, FS_Subset
    <2>5. Cardinality(A) \in Nat /\ Cardinality(B) \in Nat
      BY <2>3, <2>4, FS_CardinalityType
    <2>6. Cardinality(A) < Cardinality(B)
      BY <2>2, <2>4, <2>5
    <2> QED BY <2>1, <2>6 DEF Rank
  <1>4. ASSUME NEW k \in 1..Cardinality(S)
        PROVE  \E n \in S : Rank(S, n) = k
    <2> DEFINE I == 1..Cardinality(S)
               g == [n \in S |-> Rank(S, n)]
    <2>1. IsFiniteSet(I) /\ Cardinality(I) = Cardinality(S)
      BY <1>1, FS_Interval
    <2>2. g \in [S -> I]
      BY <1>2
    <2>3. \A m, n \in S : g[m] = g[n] => m = n
      <3> SUFFICES ASSUME NEW m \in S, NEW n \in S, g[m] = g[n], m # n PROVE FALSE
        OBVIOUS
      <3>1. m < n \/ n < m
        OBVIOUS
      <3>2. Rank(S, m) < Rank(S, n) \/ Rank(S, n) < Rank(S, m)
        BY <1>3, <3>1
      <3>3. Rank(S, m) = Rank(S, n) /\ Rank(S, m) \in 1..Cardinality(S)
        BY <1>2
      <3> QED BY <1>1, <3>2, <3>3
    <2>4. g \in Injection(S, I)
      BY <2>2, <2>3 DEF Injection, IsInjective
    <2> HIDE DEF I, g
    <2>5. g \in Surjection(S, I)
      BY <2>1, <2>4, FS_Injection
    <2>6. \E n \in S : g[n] = k
      BY <2>5 DEF Surjection, I
    <2> QED BY <2>6 DEF g
  <1> QED BY <1>1, <1>2, <1>3, <1>4

\* Nth(S, k) is the number of rank k.
LEMMA NthIs ==
    ASSUME NEW S \in SUBSET Nat, IsFiniteSet(S)
    PROVE  /\ Cardinality(S) \in Nat
           /\ \A k \in 1..Cardinality(S) : Nth(S, k) \in S /\ Rank(S, Nth(S, k)) = k
           /\ \A j, k \in 1..Cardinality(S) : j < k => Nth(S, j) < Nth(S, k)
           /\ \A n \in S : Rank(S, n) \in 1..Cardinality(S) /\ Nth(S, Rank(S, n)) = n
  <1>1. /\ Cardinality(S) \in Nat
        /\ \A n \in S : Rank(S, n) \in 1..Cardinality(S)
        /\ \A m, n \in S : m < n => Rank(S, m) < Rank(S, n)
        /\ \A k \in 1..Cardinality(S) : \E n \in S : Rank(S, n) = k
    BY RankIs
  <1>2. \A k \in 1..Cardinality(S) : Nth(S, k) \in S /\ Rank(S, Nth(S, k)) = k
    BY <1>1 DEF Nth
  <1>3. ASSUME NEW m \in S, NEW n \in S, Rank(S, m) <= Rank(S, n)
        PROVE  m <= n
    <2>1. ~(n < m)
      BY <1>1, <1>3
    <2> QED BY <2>1
  <1>4. ASSUME NEW j \in 1..Cardinality(S), NEW k \in 1..Cardinality(S), j < k
        PROVE  Nth(S, j) < Nth(S, k)
    <2>1. PICK m \in S, n \in S : m = Nth(S, j) /\ n = Nth(S, k) /\ Rank(S, m) = j /\ Rank(S, n) = k
      BY <1>2
    <2>2. m <= n /\ m # n
      BY <1>3, <1>4, <2>1
    <2> QED BY <2>1, <2>2
  <1>5. ASSUME NEW n \in S
        PROVE  Nth(S, Rank(S, n)) = n
    <2>1. PICK m \in S : m = Nth(S, Rank(S, n)) /\ Rank(S, m) = Rank(S, n)
      BY <1>1, <1>2
    <2>2. m <= n /\ n <= m
      BY <1>1, <1>3, <2>1
    <2> QED BY <2>1, <2>2
  <1> QED BY <1>1, <1>2, <1>4, <1>5

------------------------------------------------------------------------------
(* Lists of paths                                                              *)

\* The instance counts as FiniteSets does.
LEMMA SameCount == \A S : Context!Cardinality(S) = Cardinality(S)
  BY Zenon DEF Context!Cardinality, Cardinality

\* Some positions of a list.
LEMMA ListedIs ==
    ASSUME NEW X, NEW list \in Seq(X), NEW at \in SUBSET (DOMAIN list)
    PROVE  /\ at \in SUBSET Nat /\ IsFiniteSet(at) /\ Cardinality(at) \in Nat
           /\ Context!Listed(list, at) \in Seq(X)
           /\ Len(Context!Listed(list, at)) = Cardinality(at)
           /\ DOMAIN Context!Listed(list, at) = 1..Cardinality(at)
           /\ \A k \in 1..Cardinality(at) : Context!Listed(list, at)[k] = list[Nth(at, k)]
           /\ Context!Members(Context!Listed(list, at)) = {list[n] : n \in at}
  <1>1. DOMAIN list = 1..Len(list) /\ Len(list) \in Nat
    OBVIOUS
  <1>2. at \in SUBSET Nat /\ IsFiniteSet(at)
    <2>1. IsFiniteSet(DOMAIN list)
      BY <1>1, FS_Interval
    <2>2. IsFiniteSet(at)
      BY <2>1, FS_Subset
    <2>3. \A n \in at : n \in DOMAIN list
      OBVIOUS
    <2>4. \A n \in at : n \in Nat
      BY <1>1, <2>3
    <2> QED BY <2>2, <2>4
  <1>3. /\ Cardinality(at) \in Nat
        /\ \A k \in 1..Cardinality(at) : Nth(at, k) \in at
        /\ \A n \in at : Rank(at, n) \in 1..Cardinality(at) /\ Nth(at, Rank(at, n)) = n
    BY <1>2, NthIs
  <1>4. PICK l : l = [k \in 1..Cardinality(at) |-> list[Nth(at, k)]]
    OBVIOUS
  <1>5. Context!Listed(list, at) = l
    <2>1. Context!Listed(list, at) = [k \in 1..Cardinality(at) |-> list[Nth(at, k)]]
      <3> DEFINE N(k) == CHOOSE n \in at : Context!Cardinality({m \in at : m <= n}) = k
      <3>1. Context!Listed(list, at) = [k \in 1..Context!Cardinality(at) |-> list[N(k)]]
        BY Zenon DEF Context!Listed
      <3>2. \A n \in at : Context!Cardinality({m \in at : m <= n}) = Rank(at, n)
        BY SameCount, Zenon DEF Rank
      <3>3. ASSUME NEW k \in 1..Cardinality(at)
            PROVE  N(k) = Nth(at, k)
        <4>1. Nth(at, k) \in at /\ Rank(at, Nth(at, k)) = k
          BY <1>2, NthIs
        <4>2. N(k) \in at /\ Context!Cardinality({m \in at : m <= N(k)}) = k
          BY <3>2, <4>1
        <4> HIDE DEF N
        <4>3. Rank(at, N(k)) = k
          BY <3>2, <4>2
        <4> QED BY <1>3, <4>2, <4>3
      <3> HIDE DEF N
      <3>4. Context!Cardinality(at) = Cardinality(at)
        BY SameCount
      <3> QED BY <3>1, <3>3, <3>4
    <2> QED BY <1>4, <2>1, Zenon
  <1>6. \A k \in 1..Cardinality(at) : l[k] = list[Nth(at, k)] /\ l[k] \in X
    BY <1>1, <1>3, <1>4
  <1>7. l \in Seq(X) /\ Len(l) = Cardinality(at) /\ DOMAIN l = 1..Cardinality(at)
    BY <1>3, <1>4, <1>6
  <1>8. {l[k] : k \in DOMAIN l} = {list[n] : n \in at}
    BY <1>3, <1>6, <1>7
  <1> QED BY <1>2, <1>3, <1>5, <1>6, <1>7, <1>8 DEF Context!Members

\* What is told of a list: paths in the workspace that are new, each once, as many
\* as the limit lets, and all if they are fewer.
Tells(list, limit, seen, b) ==
    /\ b \in Seq(File) /\ Len(b) <= limit
    /\ \A m, n \in DOMAIN b : b[m] = b[n] => m = n
    /\ \A f \in Context!Members(b) : Context!relative_path(f) /\ f \notin seen
    /\ Len(b) < limit =>
          Context!Members(b) = {f \in Context!Members(list) : Context!relative_path(f) /\ f \notin seen}

\* What bounded leaves of the files tells the first of them, up to the limit.
LEMMA BoundedTells ==
    ASSUME NEW list \in Seq(File), NEW limit \in Nat, NEW seen
    PROVE  Tells(list, limit, seen, Context!bounded_relative_paths(list, limit, seen))
  <1> DEFINE Fits(n) == Context!relative_path(list[n]) /\ list[n] \notin seen
             New == {n \in DOMAIN list : Fits(n) /\ \A m \in 1..(n - 1) : list[m] # list[n]}
  <1>0. DOMAIN list = 1..Len(list) /\ Len(list) \in Nat
    OBVIOUS
  <1>1. PICK new : new = New
    OBVIOUS
  <1>2. PICK kept : kept = {n \in new : Rank(new, n) <= limit}
    OBVIOUS
  <1>3. new \in SUBSET (DOMAIN list) /\ kept \in SUBSET (DOMAIN list)
    BY <1>1, <1>2
  <1>4. PICK b : b = Context!Listed(list, kept)
    OBVIOUS
  <1>5. Context!bounded_relative_paths(list, limit, seen) = b
    <2>1. \A n : Fits(n) /\ (\A m \in 1..(n - 1) : list[m] # list[n])
                 <=> /\ Context!relative_path(list[n]) /\ list[n] \notin seen
                     /\ \A m \in 1..(n - 1) : list[m] # list[n]
      OBVIOUS
    <2>2. New = {n \in DOMAIN list : /\ Context!relative_path(list[n]) /\ list[n] \notin seen
                                     /\ \A m \in 1..(n - 1) : list[m] # list[n]}
      BY <2>1, Zenon
    <2>3. new = {n \in DOMAIN list : /\ Context!relative_path(list[n]) /\ list[n] \notin seen
                                     /\ \A m \in 1..(n - 1) : list[m] # list[n]}
      BY <1>1, <2>2, Zenon
    <2> HIDE DEF New
    <2>4. Context!bounded_relative_paths(list, limit, seen)
              = Context!Listed(list, {n \in new : Rank(new, n) <= limit})
      BY <2>3, SameCount, Zenon DEF Context!bounded_relative_paths, Rank
    <2> QED BY <1>2, <1>4, <2>4, Zenon
  <1>6. /\ b \in Seq(File) /\ Len(b) = Cardinality(kept) /\ DOMAIN b = 1..Cardinality(kept)
        /\ \A k \in 1..Cardinality(kept) : b[k] = list[Nth(kept, k)]
        /\ Context!Members(b) = {list[n] : n \in kept}
        /\ kept \in SUBSET Nat /\ IsFiniteSet(kept) /\ Cardinality(kept) \in Nat
    BY <1>3, <1>4, ListedIs
  <1>7. new \in SUBSET Nat /\ IsFiniteSet(new)
    BY <1>3, ListedIs
  <1>8. /\ Cardinality(new) \in Nat
        /\ \A k \in 1..Cardinality(new) : Nth(new, k) \in new /\ Rank(new, Nth(new, k)) = k
        /\ \A n \in new : Rank(new, n) \in 1..Cardinality(new) /\ Nth(new, Rank(new, n)) = n
    BY <1>7, NthIs
  <1>9. /\ \A k \in 1..Cardinality(kept) : Nth(kept, k) \in kept
        /\ \A j, k \in 1..Cardinality(kept) : j < k => Nth(kept, j) < Nth(kept, k)
    BY <1>6, NthIs
  <1>10. \A m, n \in new : list[m] = list[n] => m = n
    <2> SUFFICES ASSUME NEW m \in new, NEW n \in new, list[m] = list[n], m < n PROVE FALSE
      BY <1>7
    <2> QED BY <1>0, <1>1, <1>3
  <1>11. Len(b) <= limit
    <2> DEFINE g == [n \in kept |-> Rank(new, n)]
               I == 1..limit
    <2>1. g \in [kept -> I]
      BY <1>2, <1>8
    <2>2. \A m, n \in kept : g[m] = g[n] => m = n
      BY <1>2, <1>8
    <2>3. g \in Injection(kept, I)
      BY <2>1, <2>2 DEF Injection, IsInjective
    <2>4. IsFiniteSet(I) /\ Cardinality(I) = limit
      BY FS_Interval
    <2> HIDE DEF g, I
    <2>5. Cardinality(kept) <= Cardinality(I)
      BY <2>3, <2>4, FS_Injection
    <2> QED BY <1>6, <2>4, <2>5
  <1>12. \A m, n \in DOMAIN b : b[m] = b[n] => m = n
    <2> SUFFICES ASSUME NEW m \in DOMAIN b, NEW n \in DOMAIN b, b[m] = b[n], m # n PROVE FALSE
      OBVIOUS
    <2>1. PICK i, j : i = Nth(kept, m) /\ j = Nth(kept, n)
      OBVIOUS
    <2>2. i \in kept /\ j \in kept /\ list[i] = list[j]
      BY <1>6, <1>9, <2>1
    <2>3. i = j
      BY <1>2, <1>10, <2>2
    <2>4. m < n \/ n < m
      BY <1>6
    <2>5. i < j \/ j < i
      BY <1>6, <1>9, <2>1, <2>4
    <2> QED BY <1>6, <2>2, <2>3, <2>5
  <1>13. \A f \in Context!Members(b) : Context!relative_path(f) /\ f \notin seen
    BY <1>1, <1>2, <1>6
  <1>14. ASSUME Len(b) < limit
         PROVE  Context!Members(b)
                    = {f \in Context!Members(list) : Context!relative_path(f) /\ f \notin seen}
    <2>1. kept = new
      <3> SUFFICES ASSUME NEW n \in new, n \notin kept PROVE FALSE
        BY <1>2
      <3>1. limit <= Cardinality(new)
        BY <1>2, <1>8
      <3> DEFINE g == [k \in 1..limit |-> Nth(new, k)]
                 I == 1..limit
      <3>2. g \in [I -> kept]
        BY <1>2, <1>8, <3>1
      <3>3. \A j, k \in I : g[j] = g[k] => j = k
        BY <1>8, <3>1
      <3>4. g \in Injection(I, kept)
        BY <3>2, <3>3 DEF Injection, IsInjective
      <3>5. Cardinality(I) = limit
        BY FS_Interval
      <3> HIDE DEF g, I
      <3>6. Cardinality(I) <= Cardinality(kept)
        BY <1>6, <3>4, FS_Injection
      <3> QED BY <1>6, <1>14, <3>5, <3>6
    <2>2. ASSUME NEW f \in Context!Members(list), Context!relative_path(f), f \notin seen
          PROVE  f \in {list[n] : n \in new}
      <3> DEFINE T == {n \in DOMAIN list : list[n] = f}
      <3>1. T \subseteq Nat /\ T # {}
        BY <1>0, <2>2 DEF Context!Members
      <3>2. PICK n \in T : \A m \in T : n <= m
        BY <3>1, Least
      <3>3. \A m \in 1..(n - 1) : m \in DOMAIN list /\ m < n /\ list[m] # f
        BY <1>0, <3>2
      <3> QED BY <1>1, <2>2, <3>2, <3>3
    <2>3. \A n \in new : list[n] \in Context!Members(list) /\ Fits(n)
      BY <1>1 DEF Context!Members
    <2> QED BY <1>6, <2>1, <2>2, <2>3
  <1> QED BY <1>5, <1>6, <1>11, <1>12, <1>13, <1>14 DEF Tells

------------------------------------------------------------------------------
(* What is known of a prompt                                                   *)

Editors == [open : Seq(File), edits : Seq(File), selection : SUBSET File]
Pcs == {"new", "begun", "gathering", "paths", "edits", "selection", "counting", "prepared",
        "accepted", "logged", "arrived", "lost", "done", "gone"}
PromptType ==
    [pc : Pcs, agent : Nat, n : Nat, entries : {"none", "given", "unavailable"}, open : Seq(File),
     edits : Seq(File), selection : SUBSET File, editor : Editors, torn : BOOLEAN, hit : BOOLEAN]

\* What a request has still to write of its report fits the tracker.
Fits(what, f) ==
    \/ f \in {"open", "edits"} /\ what[f] \in Seq(File)
    \/ f = "selection" /\ what[f] \subseteq File
Reports(x) ==
    /\ x = [left |-> x.left, what |-> x.what]
    /\ x.left \in Seq({"open", "edits", "selection"})
    /\ \A n \in DOMAIN x.left : Fits(x.what, x.left[n])

ContextTypes ==
    /\ state \in {"idle", "running", "interrupted", "changing", "failed", "closed", "cleared"}
    /\ agent \in [n : Nat, up : BOOLEAN, resets : Nat]
    /\ count \in Nat /\ tracker \in Editors
    /\ reporting = [d \in Device |-> reporting[d]]
    /\ \A d \in Device : Reports(reporting[d])
    /\ prompt \in [Prompt -> PromptType]
    /\ blurred \in BOOLEAN /\ late \in BOOLEAN

\* A closed session has no agent, and no prompt on the way to it.
ContextEnds ==
    state \in {"closed", "cleared"} =>
        ~agent.up /\ \A p \in Prompt : prompt[p].pc \notin {"accepted", "logged"}

\* What prompt x tells of the report in its editor, as far as it has come.  It is sure
\* of it unless it is torn, or was read after the tracker t was cleared.
Sure(x, cleared) == ~x.torn /\ (x.pc = "arrived" \/ ~cleared)
Edited(x, sure) ==
    /\ Len(x.open) + Len(x.edits) <= Limit
    /\ \A m, n \in DOMAIN x.edits : x.edits[m] = x.edits[n] => m = n
    /\ \A f \in Context!Members(x.edits) :
          Context!relative_path(f) /\ f \notin Context!Members(x.open)
    /\ sure => Tells(x.editor.edits, Limit - Len(x.open), Context!Members(x.open), x.edits)
Selected(x) == {f \in x.editor.selection : Context!relative_path(f)}
Later == {"prepared", "accepted", "logged", "arrived"}
Editing(x, cleared, t) ==
    /\ x.pc \in {"edits", "selection", "counting"} \union Later => Tells(x.editor.open, Limit, {}, x.open)
    /\ x.pc \in {"selection", "counting"} \union Later => Edited(x, Sure(x, cleared))
    /\ \A f \in x.selection : Context!relative_path(f)
    /\ x.pc \in {"counting"} \union Later /\ Sure(x, cleared) /\ Embeds => x.selection = Selected(x)
    /\ x.pc \in {"edits", "selection"} /\ ~x.torn /\ ~cleared => t = x.editor
    /\ x.pc = "new" => x.entries = "none"
    /\ x.pc = "done" => /\ x.open = <<>> /\ x.edits = <<>> /\ x.selection = {}
                        /\ x.editor = Context!NoEditor
PromptsEdited == \A p \in Prompt : Editing(prompt[p], state = "cleared", tracker)

\* The prompts that are prepared after a reset are for the agent it was for; a count
\* is one of theirs, and the first of them has the entries of the workspace.
HasEntries(a) == \E q \in Prompt : prompt[q].entries # "none" /\ prompt[q].agent = a
EntriesKept ==
    /\ agent.resets = 0 => /\ \A p \in Prompt : Context!Preparing(p) => prompt[p].agent = agent.n
                           /\ count # 0 => HasEntries(agent.n)
    /\ \A p \in Prompt :
          prompt[p].pc \in {"paths", "edits", "selection", "counting", "prepared", "accepted",
                            "logged", "arrived", "done"} =>
              prompt[p].entries # "none" \/ HasEntries(prompt[p].agent)

\* Nothing of a cleared session is still to be written.
ContextCleared ==
    state = "cleared" /\ ~late =>
        /\ count = 0 /\ tracker = Context!NoEditor
        /\ \A d \in Device : reporting[d].left = <<>>
        /\ \A p \in Prompt : ~Context!Preparing(p)

ContextInv ==
    ContextTypes /\ ContextEnds /\ PromptsEdited /\ (blurred \/ EntriesKept) /\ ContextCleared

------------------------------------------------------------------------------
(* How steps change prompts                                                    *)

\* A list without files has none.
LEMMA EmptyLists ==
    /\ Context!NoEditor \in Editors /\ Context!NewPrompt \in PromptType
    /\ Reports(Context!NoReport)
    /\ Context!NoEditor.open = <<>> /\ Context!NoEditor.edits = <<>> /\ Context!NoEditor.selection = {}
  BY
     DEF Context!NoEditor, Context!NewPrompt, Context!NoReport, Editors, PromptType, Pcs,
         Reports

\* The prompt p becomes y, and the others stay.
Put(p, y) ==
    /\ y \in PromptType /\ prompt' \in [Prompt -> PromptType]
    /\ prompt'[p] = y /\ \A q \in Prompt \ {p} : prompt'[q] = prompt[q]
Alike(x, y) ==
    /\ y.agent = x.agent /\ y.entries = x.entries /\ y.open = x.open /\ y.edits = x.edits
    /\ y.selection = x.selection /\ y.editor = x.editor /\ y.torn = x.torn
Emptied(x, y) ==
    /\ y.agent = x.agent /\ y.entries = x.entries
    /\ y.open = <<>> /\ y.edits = <<>> /\ y.selection = {}
    /\ y.editor = Context!NoEditor /\ y.torn = FALSE

\* What a prompt is once a field of it is set.
LEMMA PutIs ==
    ASSUME prompt \in [Prompt -> PromptType], NEW p \in Prompt, NEW y \in PromptType,
           prompt' = [prompt EXCEPT ![p] = y]
    PROVE  Put(p, y)
  BY DEF Put

\* What is known of a prompt that is over.
LEMMA OverIs ==
    ASSUME NEW x \in PromptType, NEW pc \in Pcs
    PROVE  /\ Context!Over(x, pc) \in PromptType
           /\ Context!Over(x, pc).pc = pc /\ Emptied(x, Context!Over(x, pc))
  <1> DEFINE Blank(y) == /\ y.open = <<>> /\ y.edits = <<>> /\ y.selection = {}
                         /\ y.editor = Context!NoEditor /\ y.torn = FALSE
  <1>1. PICK y : y = [Context!NewPrompt EXCEPT !.pc = pc]
    OBVIOUS
  <1>2. y \in PromptType /\ y.pc = pc /\ Blank(y)
    BY <1>1, EmptyLists DEF Context!NewPrompt, PromptType
  <1>3. PICK z : z = [y EXCEPT !.agent = x.agent]
    OBVIOUS
  <1>4. z \in PromptType /\ z.pc = pc /\ z.agent = x.agent /\ Blank(z)
    BY <1>2, <1>3 DEF PromptType
  <1>5. PICK w : w = [z EXCEPT !.entries = x.entries]
    OBVIOUS
  <1>6. w \in PromptType /\ w.pc = pc /\ w.agent = x.agent /\ w.entries = x.entries /\ Blank(w)
    BY <1>4, <1>5 DEF PromptType
  <1>7. Context!Over(x, pc) = w
    BY <1>1, <1>3, <1>5 DEF Context!Over
  <1> QED BY <1>6, <1>7 DEF Emptied

\* A prompt goes on to its next step.
LEMMA GotoIs ==
    ASSUME prompt \in [Prompt -> PromptType], NEW p \in Prompt, NEW pc \in Pcs, Context!Goto(p, pc)
    PROVE  \E y : Put(p, y) /\ y.pc = pc /\ Alike(prompt[p], y)
  <1>1. PICK x : x = prompt[p] /\ x \in PromptType
    OBVIOUS
  <1>2. PICK y : y = [x EXCEPT !.pc = pc]
    OBVIOUS
  <1>3. y \in PromptType /\ y.pc = pc /\ Alike(x, y)
    BY <1>1, <1>2 DEF PromptType, Alike
  <1>4. prompt' = [prompt EXCEPT ![p] = y]
    BY <1>1, <1>2 DEF Context!Goto
  <1>5. Put(p, y)
    BY <1>3, <1>4, PutIs
  <1> QED BY <1>1, <1>3, <1>5

\* end_prompt is a step of one prompt.
LEMMA EndIs ==
    ASSUME prompt \in [Prompt -> PromptType], NEW p \in Prompt, NEW pc \in Pcs, Context!End(p, pc)
    PROVE  \E y : Put(p, y) /\ y.pc = pc /\ Emptied(prompt[p], y)
  <1>1. PICK x : x = prompt[p] /\ x \in PromptType
    OBVIOUS
  <1>2. PICK y : y = Context!Over(x, pc)
    OBVIOUS
  <1>3. y \in PromptType /\ y.pc = pc /\ Emptied(x, y)
    BY <1>1, <1>2, OverIs
  <1>4. prompt' = [prompt EXCEPT ![p] = y]
    BY <1>1, <1>2 DEF Context!End
  <1>5. Put(p, y)
    BY <1>3, <1>4, PutIs
  <1> QED BY <1>1, <1>3, <1>5

\* begin_prompt is a step of one prompt.
LEMMA BeginIs ==
    ASSUME ContextTypes, NEW p \in Prompt, Context!begin_prompt(p)
    PROVE  \E y : Put(p, y) /\ y.pc = "begun" /\ y.agent = agent.n /\ y.selection = {}
  <1>1. PICK y : y = [Context!NewPrompt EXCEPT !.pc = "begun", !.agent = agent.n]
    OBVIOUS
  <1>2. y \in PromptType /\ y.pc = "begun" /\ y.agent = agent.n /\ y.selection = {}
    BY <1>1, EmptyLists DEF Context!NewPrompt, PromptType, Pcs, ContextTypes
  <1>3. prompt' = [prompt EXCEPT ![p] = y]
    BY <1>1 DEF Context!begin_prompt
  <1>4. Put(p, y)
    BY <1>2, <1>3, PutIs DEF ContextTypes
  <1> QED BY <1>2, <1>4

\* prepare takes the entries and the tracker of the session for one prompt.
LEMMA PrepareIs ==
    ASSUME ContextTypes, NEW p \in Prompt, Context!prepare(p)
    PROVE  \E y : /\ Put(p, y) /\ y.pc = (IF count = 0 THEN "gathering" ELSE "paths")
                  /\ Alike(prompt[p], y)
  <1>1. PICK x : x = prompt[p] /\ x \in PromptType
    BY DEF ContextTypes
  <1>2. PICK pc \in Pcs : pc = (IF count = 0 THEN "gathering" ELSE "paths")
    BY DEF Pcs
  <1>3. PICK z : z = [x EXCEPT !.pc = pc]
    OBVIOUS
  <1>4. PICK y : y = [z EXCEPT !.n = count]
    OBVIOUS
  <1>5. z \in PromptType /\ z.pc = pc /\ Alike(x, z)
    BY <1>1, <1>3 DEF PromptType, Alike
  <1>6. y \in PromptType /\ y.pc = pc /\ Alike(x, y)
    BY <1>4, <1>5 DEF PromptType, Alike, ContextTypes
  <1>7. prompt' = [prompt EXCEPT ![p] = y]
    <2>1. prompt' = [[prompt EXCEPT ![p].pc = pc] EXCEPT ![p].n = count]
      BY <1>2 DEF Context!prepare
    <2>2. [prompt EXCEPT ![p].pc = pc] = [prompt EXCEPT ![p] = z]
      BY <1>1, <1>3
    <2> QED BY <1>4, <2>1, <2>2 DEF ContextTypes
  <1>8. Put(p, y)
    BY <1>6, <1>7, PutIs DEF ContextTypes
  <1> QED BY <1>1, <1>2, <1>6, <1>8

\* The first prompt of an agent takes the entries.
LEMMA FirstIs ==
    ASSUME ContextTypes, NEW p \in Prompt, Context!first_prompt_resources(p)
    PROVE  \E y : /\ Put(p, y) /\ y.pc = "paths" /\ y.entries # "none" /\ y.agent = prompt[p].agent
                  /\ y.selection = prompt[p].selection
  <1>1. PICK x : x = prompt[p] /\ x \in PromptType
    BY DEF ContextTypes
  <1>2. PICK e \in {"given", "unavailable"} :
            prompt' = [prompt EXCEPT ![p].pc = "paths", ![p].entries = e]
    BY DEF Context!first_prompt_resources
  <1>3. PICK z : z = [x EXCEPT !.pc = "paths"]
    OBVIOUS
  <1>4. PICK y : y = [z EXCEPT !.entries = e]
    OBVIOUS
  <1>5. z \in PromptType /\ z.pc = "paths" /\ z.agent = x.agent /\ z.selection = x.selection
    BY <1>1, <1>3 DEF PromptType, Pcs
  <1>6. /\ y \in PromptType /\ y.pc = "paths" /\ y.entries = e /\ y.agent = x.agent
        /\ y.selection = x.selection
    BY <1>4, <1>5 DEF PromptType
  <1>7. prompt' = [prompt EXCEPT ![p] = y]
    <2>1. prompt' = [[prompt EXCEPT ![p].pc = "paths"] EXCEPT ![p].entries = e]
      BY <1>2
    <2>2. [prompt EXCEPT ![p].pc = "paths"] = [prompt EXCEPT ![p] = z]
      BY <1>1, <1>3
    <2> QED BY <1>4, <2>1, <2>2 DEF ContextTypes
  <1>8. Put(p, y)
    BY <1>6, <1>7, PutIs DEF ContextTypes
  <1> QED BY <1>1, <1>6, <1>8

\* The open files of a report are read.
LEMMA ReadOpenIs ==
    ASSUME ContextTypes, NEW p \in Prompt, Context!read_open(p)
    PROVE  \E y : /\ Put(p, y) /\ y.pc = "edits" /\ y.agent = prompt[p].agent
                  /\ y.entries = prompt[p].entries /\ y.selection = prompt[p].selection
                  /\ y.editor = tracker
                  /\ y.open = Context!bounded_relative_paths(tracker.open, Limit, {})
  <1> DEFINE first == Context!bounded_relative_paths(tracker.open, Limit, {})
             waits == Context!Pending # {}
  <1>1. PICK x : x = prompt[p] /\ x \in PromptType
    BY DEF ContextTypes
  <1>2. PICK l, t : l = first /\ t = waits
    OBVIOUS
  <1>3. l \in Seq(File) /\ t \in BOOLEAN
    BY <1>2, BoundedTells, ReportAssumption DEF ContextTypes, Editors, Tells
  <1>4. PICK a : a = [x EXCEPT !.pc = "edits"]
    OBVIOUS
  <1>5. PICK b : b = [a EXCEPT !.editor = tracker]
    OBVIOUS
  <1>6. PICK c : c = [b EXCEPT !.torn = t]
    OBVIOUS
  <1>7. PICK y : y = [c EXCEPT !.open = l]
    OBVIOUS
  <1> DEFINE Kept(y0) == /\ y0 \in PromptType /\ y0.pc = "edits" /\ y0.agent = x.agent
                         /\ y0.entries = x.entries /\ y0.selection = x.selection
  <1>8. Kept(a)
    BY <1>1, <1>4 DEF PromptType, Pcs
  <1>9. Kept(b) /\ b.editor = tracker
    BY <1>5, <1>8 DEF PromptType, ContextTypes
  <1>10. Kept(c) /\ c.editor = tracker
    BY <1>3, <1>6, <1>9 DEF PromptType
  <1>11. Kept(y) /\ y.editor = tracker /\ y.open = l
    BY <1>3, <1>7, <1>10 DEF PromptType
  <1>12. prompt' = [prompt EXCEPT ![p] = y]
    <2>1. prompt' = [[[[prompt EXCEPT ![p].pc = "edits"] EXCEPT ![p].editor = tracker]
                        EXCEPT ![p].torn = t] EXCEPT ![p].open = l]
      BY <1>2 DEF Context!read_open
    <2>2. PICK P : P = [prompt EXCEPT ![p] = a]
      OBVIOUS
    <2>3. [prompt EXCEPT ![p].pc = "edits"] = P
      BY <1>1, <1>4, <2>2
    <2>4. PICK Q : Q = [prompt EXCEPT ![p] = b]
      OBVIOUS
    <2>5. [P EXCEPT ![p].editor = tracker] = Q
      BY <1>5, <2>2, <2>4 DEF ContextTypes
    <2>6. PICK R : R = [prompt EXCEPT ![p] = c]
      OBVIOUS
    <2>7. [Q EXCEPT ![p].torn = t] = R
      BY <1>6, <2>4, <2>6 DEF ContextTypes
    <2>8. [R EXCEPT ![p].open = l] = [prompt EXCEPT ![p] = y]
      BY <1>7, <2>6 DEF ContextTypes
    <2> QED BY <2>1, <2>3, <2>5, <2>7, <2>8
  <1>13. Put(p, y)
    BY <1>11, <1>12, PutIs DEF ContextTypes
  <1> QED BY <1>1, <1>2, <1>11, <1>13

\* The edited files of a report are read.
LEMMA ReadEditsIs ==
    ASSUME ContextTypes, NEW p \in Prompt, Context!read_edits(p), Len(prompt[p].open) <= Limit
    PROVE  \E y : /\ Put(p, y) /\ y.pc = (IF Embeds THEN "selection" ELSE "counting")
                  /\ y.agent = prompt[p].agent /\ y.entries = prompt[p].entries
                  /\ y.selection = prompt[p].selection /\ y.editor = prompt[p].editor
                  /\ y.torn = prompt[p].torn /\ y.open = prompt[p].open
                  /\ y.edits = Context!bounded_relative_paths(tracker.edits,
                                   Limit - Len(prompt[p].open), Context!Members(prompt[p].open))
  <1>1. PICK x : x = prompt[p] /\ x \in PromptType
    BY DEF ContextTypes
  <1> DEFINE first == Context!bounded_relative_paths(tracker.edits, Limit - Len(x.open),
                                                    Context!Members(x.open))
  <1>2. PICK l, pc : l = first /\ pc = (IF Embeds THEN "selection" ELSE "counting")
    OBVIOUS
  <1>3. l \in Seq(File) /\ pc \in Pcs
    <2>1. Limit - Len(x.open) \in Nat
      BY <1>1, ReportAssumption DEF PromptType
    <2>2. tracker.edits \in Seq(File)
      BY DEF ContextTypes, Editors
    <2>3. l \in Seq(File)
      BY <1>2, <2>1, <2>2, BoundedTells DEF Tells
    <2> QED BY <1>2, <2>3 DEF Pcs
  <1>4. PICK z : z = [x EXCEPT !.pc = pc]
    OBVIOUS
  <1>5. PICK y : y = [z EXCEPT !.edits = l]
    OBVIOUS
  <1> DEFINE Kept(y0) == /\ y0 \in PromptType /\ y0.pc = pc /\ y0.agent = x.agent
                         /\ y0.entries = x.entries /\ y0.selection = x.selection
                         /\ y0.editor = x.editor /\ y0.torn = x.torn /\ y0.open = x.open
  <1>6. Kept(z)
    BY <1>1, <1>3, <1>4 DEF PromptType
  <1>7. Kept(y) /\ y.edits = l
    BY <1>3, <1>5, <1>6 DEF PromptType
  <1>8. prompt' = [prompt EXCEPT ![p] = y]
    <2>1. prompt' = [[prompt EXCEPT ![p].pc = pc] EXCEPT ![p].edits = l]
      BY <1>1, <1>2 DEF Context!read_edits
    <2>2. [prompt EXCEPT ![p].pc = pc] = [prompt EXCEPT ![p] = z]
      BY <1>1, <1>4
    <2> QED BY <1>5, <2>1, <2>2 DEF ContextTypes
  <1>9. Put(p, y)
    BY <1>7, <1>8, PutIs DEF ContextTypes
  <1> QED BY <1>1, <1>2, <1>7, <1>9

\* The selection of a report is read.
LEMMA SelectionIs ==
    ASSUME ContextTypes, NEW p \in Prompt, Context!selection_resource(p)
    PROVE  \E y : /\ Put(p, y) /\ y.pc = "counting"
                  /\ y.agent = prompt[p].agent /\ y.entries = prompt[p].entries
                  /\ y.selection = {f \in tracker.selection : Context!relative_path(f)}
                  /\ y.editor = prompt[p].editor /\ y.torn = prompt[p].torn
                  /\ y.open = prompt[p].open /\ y.edits = prompt[p].edits
  <1>1. PICK x : x = prompt[p] /\ x \in PromptType
    BY DEF ContextTypes
  <1>2. PICK l : l = {f \in tracker.selection : Context!relative_path(f)}
    OBVIOUS
  <1>3. l \in SUBSET File
    BY <1>2 DEF ContextTypes, Editors
  <1>4. PICK z : z = [x EXCEPT !.pc = "counting"]
    OBVIOUS
  <1>5. PICK y : y = [z EXCEPT !.selection = l]
    OBVIOUS
  <1> DEFINE Kept(y0) == /\ y0 \in PromptType /\ y0.pc = "counting" /\ y0.agent = x.agent
                         /\ y0.entries = x.entries /\ y0.edits = x.edits
                         /\ y0.editor = x.editor /\ y0.torn = x.torn /\ y0.open = x.open
  <1>6. Kept(z)
    BY <1>1, <1>4 DEF PromptType, Pcs
  <1>7. Kept(y) /\ y.selection = l
    BY <1>3, <1>5, <1>6 DEF PromptType
  <1>8. prompt' = [prompt EXCEPT ![p] = y]
    <2>1. prompt' = [[prompt EXCEPT ![p].pc = "counting"] EXCEPT ![p].selection = l]
      BY <1>2 DEF Context!selection_resource
    <2>2. [prompt EXCEPT ![p].pc = "counting"] = [prompt EXCEPT ![p] = z]
      BY <1>1, <1>4
    <2> QED BY <1>5, <2>1, <2>2 DEF ContextTypes
  <1>9. Put(p, y)
    BY <1>7, <1>8, PutIs DEF ContextTypes
  <1> QED BY <1>1, <1>2, <1>7, <1>9

\* A report is counted before the tracker holds it.
LEMMA CountedIs ==
    ASSUME ContextTypes, NEW p \in Prompt, Context!counted(p)
    PROVE  \E y : Put(p, y) /\ y.pc = "prepared" /\ Alike(prompt[p], y)
  <1>1. PICK x : x = prompt[p] /\ x \in PromptType
    BY DEF ContextTypes
  <1>2. PICK z : z = [x EXCEPT !.pc = "prepared"]
    OBVIOUS
  <1>3. PICK y : y = [z EXCEPT !.n = 0]
    OBVIOUS
  <1>4. z \in PromptType /\ z.pc = "prepared" /\ Alike(x, z)
    BY <1>1, <1>2 DEF PromptType, Pcs, Alike
  <1>5. y \in PromptType /\ y.pc = "prepared" /\ Alike(x, y)
    BY <1>3, <1>4 DEF PromptType, Alike
  <1>6. prompt' = [prompt EXCEPT ![p] = y]
    <2>1. prompt' = [[prompt EXCEPT ![p].pc = "prepared"] EXCEPT ![p].n = 0]
      BY DEF Context!counted
    <2>2. [prompt EXCEPT ![p].pc = "prepared"] = [prompt EXCEPT ![p] = z]
      BY <1>1, <1>2
    <2> QED BY <1>3, <2>1, <2>2 DEF ContextTypes
  <1>7. Put(p, y)
    BY <1>5, <1>6, PutIs DEF ContextTypes
  <1> QED BY <1>1, <1>5, <1>7

\* All prompts at once: a report comes in, the turn is cancelled, the actor goes.
Shaken(x, y) ==
    /\ y.pc = x.pc /\ y.agent = x.agent /\ y.entries = x.entries
    /\ y.open = x.open /\ y.edits = x.edits /\ y.selection = x.selection /\ y.editor = x.editor
    /\ x.torn => y.torn

\* What the tracker holds between the fields of a report.
LEMMA TornIs ==
    ASSUME ContextTypes, NEW d \in Device, Context!with_entry_mut(d)
    PROVE  /\ prompt' \in [Prompt -> PromptType]
           /\ \A p \in Prompt : /\ Shaken(prompt[p], prompt'[p])
                                /\ prompt[p].pc \in {"edits", "selection"} => prompt'[p].torn
                                /\ prompt[p].pc \notin {"edits", "selection"} =>
                                      prompt'[p].torn = prompt[p].torn
  <1>1. prompt' = [p \in Prompt |->
                      [prompt[p] EXCEPT !.torn = prompt[p].torn \/ Context!Reading(p)]]
    BY DEF Context!with_entry_mut
  <1>2. ASSUME NEW p \in Prompt
        PROVE  /\ prompt'[p] \in PromptType /\ Shaken(prompt[p], prompt'[p])
               /\ prompt[p].pc \in {"edits", "selection"} => prompt'[p].torn
               /\ prompt[p].pc \notin {"edits", "selection"} => prompt'[p].torn = prompt[p].torn
    <2>1. PICK x : x = prompt[p] /\ x \in PromptType
      BY DEF ContextTypes
    <2>2. PICK t \in BOOLEAN : t = (x.torn \/ Context!Reading(p))
      OBVIOUS
    <2>3. PICK y : y = [x EXCEPT !.torn = t]
      OBVIOUS
    <2>4. y \in PromptType /\ y.torn = t
      BY <2>1, <2>3 DEF PromptType
    <2>5. Shaken(x, y)
      BY <2>1, <2>2, <2>3 DEF PromptType, Shaken
    <2>6. prompt'[p] = y
      BY <1>1, <2>1, <2>2, <2>3
    <2>7. Context!Reading(p) <=> x.pc \in {"edits", "selection"}
      BY <2>1 DEF Context!Reading
    <2>8. x.torn \in BOOLEAN
      BY <2>1 DEF PromptType
    <2> QED BY <2>1, <2>2, <2>4, <2>5, <2>6, <2>7, <2>8
  <1> QED BY <1>1, <1>2

\* A cancel resets the session.
LEMMA CancelIs ==
    ASSUME ContextTypes, Context!cancel_session
    PROVE  /\ prompt' \in [Prompt -> PromptType]
           /\ \A p \in Prompt : Alike(prompt[p], prompt'[p]) /\ prompt'[p].pc = prompt[p].pc
  <1>1. prompt' = [p \in Prompt |-> [prompt[p] EXCEPT !.hit = Context!InActor(p)]]
    BY DEF Context!cancel_session
  <1>2. ASSUME NEW p \in Prompt
        PROVE  /\ prompt'[p] \in PromptType
               /\ Alike(prompt[p], prompt'[p]) /\ prompt'[p].pc = prompt[p].pc
    <2>1. PICK x : x = prompt[p] /\ x \in PromptType
      BY DEF ContextTypes
    <2>2. PICK t \in BOOLEAN : t = Context!InActor(p)
      <3>1. Context!InActor(p) \in BOOLEAN
        BY DEF Context!InActor
      <3> QED BY <3>1, Zenon
    <2>3. PICK y : y = [x EXCEPT !.hit = t]
      OBVIOUS
    <2>4. y \in PromptType /\ Alike(x, y) /\ y.pc = x.pc
      BY <2>1, <2>3 DEF PromptType, Alike
    <2>5. prompt'[p] = y
      BY <1>1, <2>1, <2>2, <2>3
    <2> QED BY <2>1, <2>4, <2>5
  <1> QED BY <1>1, <1>2

\* A session without an agent has no entries to tell.
LEMMA DroppedIs ==
    ASSUME ContextTypes, prompt' = Context!Dropped
    PROVE  /\ prompt' \in [Prompt -> PromptType]
           /\ \A p \in Prompt :
                 IF prompt[p].pc \in {"accepted", "logged"}
                 THEN prompt'[p].pc = "lost" /\ Emptied(prompt[p], prompt'[p])
                 ELSE prompt'[p] = prompt[p]
  <1>1. ASSUME NEW p \in Prompt, prompt[p].pc \in {"accepted", "logged"}
        PROVE  /\ prompt'[p] \in PromptType /\ prompt'[p].pc = "lost"
               /\ Emptied(prompt[p], prompt'[p])
    <2>1. PICK x : x = prompt[p] /\ x \in PromptType
      BY DEF ContextTypes
    <2>2. PICK y : y = Context!Over(x, "lost")
      OBVIOUS
    <2>3. y \in PromptType /\ y.pc = "lost" /\ Emptied(x, y)
      BY <2>1, <2>2, OverIs DEF Pcs
    <2>4. prompt'[p] = y
      BY <1>1, <2>1, <2>2 DEF Context!Dropped, Context!InActor
    <2> QED BY <2>1, <2>3, <2>4
  <1>2. ASSUME NEW p \in Prompt, prompt[p].pc \notin {"accepted", "logged"}
        PROVE  prompt'[p] = prompt[p]
    BY <1>2 DEF Context!Dropped, Context!InActor
  <1>3. prompt' = [p \in Prompt |-> prompt'[p]]
    BY DEF Context!Dropped
  <1>4. \A p \in Prompt : prompt[p] \in PromptType
    BY DEF ContextTypes
  <1>5. \A p \in Prompt : prompt'[p] \in PromptType
    BY <1>1, <1>2, <1>4
  <1>6. prompt' \in [Prompt -> PromptType]
    BY <1>3, <1>5
  <1> QED BY <1>1, <1>2, <1>6

------------------------------------------------------------------------------
(* The types                                                                   *)

ContextStep == [Context!Next]_(Context!vars)

\* No prompt, no report and no file at the start.
LEMMA ContextTypesInit == Context!Init => ContextInv
  <1> SUFFICES ASSUME Context!Init PROVE ContextInv
    OBVIOUS
  <1>1. ContextTypes
    BY EmptyLists DEF Context!Init, ContextTypes
  <1>2. \A p \in Prompt : prompt[p] = Context!NewPrompt
    BY DEF Context!Init
  <1>3. /\ Context!NewPrompt.pc = "new" /\ Context!NewPrompt.selection = {}
        /\ Context!NewPrompt.entries = "none"
    BY DEF Context!NewPrompt
  <1>4. \A p \in Prompt : prompt[p].pc = "new" /\ prompt[p].selection = {} /\ prompt[p].entries = "none"
    BY <1>2, <1>3
  <1>5. ContextEnds
    BY DEF ContextEnds, Context!Init
  <1>6. PromptsEdited
    BY <1>4 DEF PromptsEdited, Editing, Later
  <1>7. EntriesKept
    BY <1>4 DEF EntriesKept, Context!Init, Context!Preparing
  <1>8. ContextCleared
    BY DEF ContextCleared, Context!Init
  <1> QED BY <1>1, <1>5, <1>6, <1>7, <1>8 DEF ContextInv

\* A report that begins.
LEMMA ReportBegins ==
    ASSUME ContextTypes, NEW d \in Device, NEW r \in Report, Context!session_context(d, r)
    PROVE  /\ reporting' = [e \in Device |-> reporting'[e]]
           /\ \A e \in Device : Reports(reporting'[e])
  <1> DEFINE at == {n \in DOMAIN Context!Field : Context!Field[n] \in DOMAIN r}
             Names == {"open", "edits", "selection"}
  <1>1. Context!Field \in Seq(Names)
    BY DEF Context!Field
  <1>2. PICK l : l = Context!Listed(Context!Field, at)
    OBVIOUS
  <1>3. at \in SUBSET (DOMAIN Context!Field)
    OBVIOUS
  <1> HIDE DEF at
  <1>4. l \in Seq(Names) /\ Context!Members(l) = {Context!Field[n] : n \in at}
    BY <1>1, <1>2, <1>3, ListedIs
  <1>5. \A f \in Context!Members(l) : f \in DOMAIN r
    BY <1>4 DEF at
  <1>6. \A n \in DOMAIN l : l[n] \in DOMAIN r
    BY <1>5 DEF Context!Members
  <1>7. \A n \in DOMAIN l : Fits(r, l[n])
    BY <1>6, ReportAssumption DEF Fits
  <1>8. PICK x : x = [left |-> l, what |-> r]
    OBVIOUS
  <1>9. Reports(x)
    BY <1>4, <1>7, <1>8 DEF Reports
  <1>10. reporting' = [reporting EXCEPT ![d] = x]
    BY <1>2, <1>8 DEF Context!session_context, at
  <1> QED BY <1>9, <1>10 DEF ContextTypes

\* A field is written.
LEMMA ReportGoesOn ==
    ASSUME ContextTypes, NEW d \in Device, Context!with_entry_mut(d)
    PROVE  /\ tracker' \in Editors
           /\ reporting' = [e \in Device |-> reporting'[e]]
           /\ \A e \in Device : Reports(reporting'[e])
  <1>1. PICK x : x = reporting[d] /\ Reports(x) /\ x.left # <<>>
    BY DEF ContextTypes, Context!with_entry_mut
  <1>2. PICK f : f = Head(x.left)
    OBVIOUS
  <1>3. Fits(x.what, f)
    BY <1>1, <1>2 DEF Reports
  <1>4. tracker' = [tracker EXCEPT ![f] = x.what[f]]
    BY <1>1, <1>2 DEF Context!with_entry_mut
  <1>5. tracker' \in Editors
    <2>1. CASE f = "open" /\ x.what[f] \in Seq(File)
      BY <1>4, <2>1 DEF ContextTypes, Editors
    <2>2. CASE f = "edits" /\ x.what[f] \in Seq(File)
      BY <1>4, <2>2 DEF ContextTypes, Editors
    <2>3. CASE f = "selection" /\ x.what[f] \subseteq File
      BY <1>4, <2>3 DEF ContextTypes, Editors
    <2> QED BY <1>3, <2>1, <2>2, <2>3 DEF Fits
  <1>6. PICK y : y = Context!Rest(x)
    OBVIOUS
  <1>7. Reports(y)
    <2>1. CASE Len(x.left) = 1
      BY <1>6, <2>1, EmptyLists DEF Context!Rest
    <2>2. CASE Len(x.left) # 1
      <3>1. PICK l : l = Tail(x.left)
        OBVIOUS
      <3>2. y = [left |-> l, what |-> x.what]
        BY <1>1, <1>6, <2>2, <3>1 DEF Reports, Context!Rest
      <3>3. l \in Seq({"open", "edits", "selection"}) /\ \A n \in DOMAIN l : Fits(x.what, l[n])
        <4>1. x.left \in Seq({"open", "edits", "selection"})
          BY <1>1 DEF Reports
        <4>2. /\ l \in Seq({"open", "edits", "selection"})
              /\ \A n \in DOMAIN l : n + 1 \in DOMAIN x.left /\ l[n] = x.left[n + 1]
          BY <1>1, <3>1, <4>1
        <4> QED BY <1>1, <4>2 DEF Reports
      <3> QED BY <3>2, <3>3 DEF Reports
    <2> QED BY <2>1, <2>2
  <1>8. reporting' = [reporting EXCEPT ![d] = y]
    BY <1>1, <1>6 DEF Context!with_entry_mut
  <1> QED BY <1>5, <1>7, <1>8 DEF ContextTypes

\* Every step keeps the types.
LEMMA ContextTypesKept ==
    ASSUME ContextTypes, PromptsEdited, ContextStep
    PROVE  ContextTypes'
  <1>1. CASE \E d \in Device, r \in Report : Context!session_context(d, r)
    <2>1. PICK d \in Device, r \in Report : Context!session_context(d, r)
      BY <1>1
    <2>2. /\ reporting' = [e \in Device |-> reporting'[e]]
          /\ \A e \in Device : Reports(reporting'[e])
      BY <2>1, ReportBegins
    <2> QED BY <2>1, <2>2
               DEF Context!session_context, Context!session, Context!history, ContextTypes
  <1>2. CASE \E d \in Device : Context!with_entry_mut(d)
    <2>1. PICK d \in Device : Context!with_entry_mut(d)
      BY <1>2
    <2>2. /\ tracker' \in Editors /\ reporting' = [e \in Device |-> reporting'[e]]
          /\ \A e \in Device : Reports(reporting'[e])
      BY <2>1, ReportGoesOn
    <2>3. prompt' \in [Prompt -> PromptType]
      BY <2>1, TornIs
    <2> QED BY <2>1, <2>2, <2>3
               DEF Context!with_entry_mut, Context!session, Context!history, ContextTypes
  <1>3. ASSUME NEW p \in Prompt, Context!begin_prompt(p)
        PROVE  ContextTypes'
    <2>1. PICK y : Put(p, y)
      BY <1>3, BeginIs
    <2> QED BY <1>3, <2>1 DEF Put, Context!begin_prompt, Context!history, ContextTypes
  <1>4. ASSUME NEW p \in Prompt, Context!resolve_fails(p)
        PROVE  ContextTypes'
    <2>1. PICK y : Put(p, y)
      BY <1>4, EndIs DEF Context!resolve_fails, Pcs, ContextTypes
    <2> QED BY <1>4, <2>1
               DEF Put, Context!resolve_fails, Context!session, Context!history, ContextTypes
  <1>5. ASSUME NEW p \in Prompt, Context!prepare(p)
        PROVE  ContextTypes'
    <2>1. PICK y : Put(p, y)
      BY <1>5, PrepareIs
    <2>2. blurred' \in BOOLEAN
      BY <1>5 DEF Context!prepare, ContextTypes
    <2> QED BY <1>5, <2>1, <2>2 DEF Put, Context!prepare, Context!session, ContextTypes
  <1>6. ASSUME NEW p \in Prompt, Context!first_prompt_resources(p)
        PROVE  ContextTypes'
    <2>1. PICK y : Put(p, y)
      BY <1>6, FirstIs
    <2> QED BY <1>6, <2>1
               DEF Put, Context!first_prompt_resources, Context!session, Context!history,
                              ContextTypes
  <1>7. ASSUME NEW p \in Prompt, Context!read_open(p)
        PROVE  ContextTypes'
    <2>1. PICK y : Put(p, y)
      BY <1>7, ReadOpenIs
    <2> QED BY <1>7, <2>1
               DEF Put, Context!read_open, Context!session, Context!history, ContextTypes
  <1>8. ASSUME NEW p \in Prompt, Context!read_edits(p)
        PROVE  ContextTypes'
    <2>1. Len(prompt[p].open) <= Limit
      BY <1>8 DEF PromptsEdited, Editing, Tells, Context!read_edits, Context!At
    <2>2. PICK y : Put(p, y)
      BY <1>8, <2>1, ReadEditsIs
    <2> QED BY <1>8, <2>2
               DEF Put, Context!read_edits, Context!session, Context!history, ContextTypes
  <1>9. ASSUME NEW p \in Prompt, Context!selection_resource(p)
        PROVE  ContextTypes'
    <2>1. PICK y : Put(p, y)
      BY <1>9, SelectionIs
    <2> QED BY <1>9, <2>1 DEF Put, Context!selection_resource, Context!session, Context!history,
                              ContextTypes
  <1>10. ASSUME NEW p \in Prompt, Context!counted(p)
         PROVE  ContextTypes'
    <2>1. PICK y : Put(p, y)
      BY <1>10, CountedIs
    <2>2. count' \in Nat
      BY <1>10 DEF Context!counted, ContextTypes, PromptType
    <2> QED BY <1>10, <2>1, <2>2
               DEF Put, Context!counted, Context!session, Context!history, ContextTypes
  <1>11. ASSUME NEW p \in Prompt, Context!try_send(p)
         PROVE  ContextTypes'
    <2>1. \E y : Put(p, y)
      BY <1>11, GotoIs, EndIs DEF Context!try_send, Pcs, ContextTypes
    <2> QED BY <1>11, <2>1 DEF Put, Context!try_send, Context!history, ContextTypes
  <1>12. ASSUME NEW p \in Prompt, Context!await_prompt(p)
         PROVE  ContextTypes'
    <2>1. \E y : Put(p, y)
      BY <1>12, GotoIs, EndIs DEF Context!await_prompt, Pcs, ContextTypes
    <2> QED BY <1>12, <2>1 DEF Put, Context!await_prompt, Context!history, ContextTypes
  <1>13. ASSUME NEW p \in Prompt, Context!send_request(p)
         PROVE  ContextTypes'
    <2>1. \E y : Put(p, y)
      BY <1>13, GotoIs, EndIs DEF Context!send_request, Pcs, ContextTypes
    <2> QED BY <1>13, <2>1 DEF Put, Context!send_request, Context!history, ContextTypes
  <1>14. ASSUME NEW p \in Prompt, Context!prompt_ends(p)
         PROVE  ContextTypes'
    <2>1. \E y : Put(p, y)
      <3>1. PICK pc \in {"done", "gone"} : Context!End(p, pc)
        BY <1>14 DEF Context!prompt_ends
      <3> QED BY <3>1, EndIs DEF Pcs, ContextTypes
    <2> QED BY <1>14, <2>1 DEF Put, Context!prompt_ends, Context!history, ContextTypes
  <1>15. CASE Context!cancel_session
    <2>1. prompt' \in [Prompt -> PromptType]
      BY <1>15, CancelIs
    <2> QED BY <1>15, <2>1 DEF Context!cancel_session, Context!history, ContextTypes
  <1>16. CASE Context!rebind_start
    <2>1. prompt' \in [Prompt -> PromptType]
      BY <1>16, DroppedIs DEF Context!rebind_start
    <2> QED BY <1>16, <2>1 DEF Context!rebind_start, Context!history, ContextTypes
  <1>17. CASE Context!rebind_finish
    BY <1>17 DEF Context!rebind_finish, Context!history, ContextTypes
  <1>18. CASE Context!reset
    <2>1. agent' \in [n : Nat, up : BOOLEAN, resets : Nat]
      BY <1>18 DEF Context!reset, Context!Reset, ContextTypes
    <2>2. blurred' \in BOOLEAN
      BY <1>18 DEF Context!reset, Context!Reset, ContextTypes
    <2> QED BY <1>18, <2>1, <2>2 DEF Context!reset, Context!Reset, ContextTypes
  <1>19. CASE Context!close_session
    <2>1. prompt' \in [Prompt -> PromptType]
      BY <1>19, DroppedIs DEF Context!close_session
    <2> QED BY <1>19, <2>1 DEF Context!close_session, Context!history, ContextTypes
  <1>20. CASE Context!clear
    <2>1. late' \in BOOLEAN
      BY <1>20 DEF Context!clear
    <2> QED BY <1>20, <2>1, EmptyLists DEF Context!clear, ContextTypes
  <1>21. CASE UNCHANGED Context!vars
    BY <1>21 DEF Context!vars, ContextTypes
  <1> QED BY <1>1, <1>2, <1>3, <1>4, <1>5, <1>6, <1>7, <1>8, <1>9, <1>10, <1>11, <1>12, <1>13,
             <1>14, <1>15, <1>16, <1>17, <1>18, <1>19, <1>20, <1>21 DEF ContextStep, Context!Next

------------------------------------------------------------------------------
(* The end of a session                                                        *)

\* A step of the prompt p changes the places of the others in nothing.
LEMMA ContextEndsKept ==
    ASSUME ContextTypes, PromptsEdited, ContextEnds, ContextStep
    PROVE  ContextEnds'
  <1> DEFINE Off(pc) == pc \notin {"accepted", "logged"}
  <1>1. ASSUME NEW p \in Prompt, NEW y, Put(p, y), Off(y.pc) \/ (agent.up \/ ~Off(prompt[p].pc)),
               agent' = agent,
               state' \in {"closed", "cleared"} => state \in {"closed", "cleared"}
        PROVE  ContextEnds'
    BY <1>1 DEF ContextEnds, Put
  <1>2. ASSUME \A p \in Prompt : Off(prompt[p].pc) => Off(prompt'[p].pc),
               agent.up = FALSE => agent'.up = FALSE,
               state' \in {"closed", "cleared"} => state \in {"closed", "cleared"}
        PROVE  ContextEnds'
    BY <1>2 DEF ContextEnds, ContextTypes
  <1>3. CASE \E d \in Device, r \in Report : Context!session_context(d, r)
    BY <1>2, <1>3 DEF Context!session_context, Context!session
  <1>4. CASE \E d \in Device : Context!with_entry_mut(d)
    <2>1. PICK d \in Device : Context!with_entry_mut(d)
      BY <1>4
    <2>2. \A p \in Prompt : prompt'[p].pc = prompt[p].pc
      BY <2>1, TornIs DEF Shaken
    <2> QED BY <1>2, <2>1, <2>2 DEF Context!with_entry_mut, Context!session
  <1>5. ASSUME NEW p \in Prompt, Context!begin_prompt(p)
        PROVE  ContextEnds'
    BY <1>5 DEF Context!begin_prompt, ContextEnds
  <1>6. ASSUME NEW p \in Prompt, Context!resolve_fails(p)
        PROVE  ContextEnds'
    <2>1. PICK y : Put(p, y) /\ y.pc = "gone"
      BY <1>6, EndIs DEF Context!resolve_fails, Pcs, ContextTypes
    <2> QED BY <1>1, <1>6, <2>1 DEF Context!resolve_fails, Context!session
  <1>7. ASSUME NEW p \in Prompt, Context!prepare(p)
        PROVE  ContextEnds'
    <2>1. PICK y : Put(p, y) /\ y.pc = (IF count = 0 THEN "gathering" ELSE "paths")
      BY <1>7, PrepareIs
    <2>2. Off(y.pc)
      BY <2>1
    <2> QED BY <1>1, <1>7, <2>1, <2>2 DEF Context!prepare, Context!session
  <1>8. ASSUME NEW p \in Prompt, Context!first_prompt_resources(p)
        PROVE  ContextEnds'
    <2>1. PICK y : Put(p, y) /\ y.pc = "paths"
      BY <1>8, FirstIs
    <2> QED BY <1>1, <1>8, <2>1 DEF Context!first_prompt_resources, Context!session
  <1>9. ASSUME NEW p \in Prompt, Context!read_open(p)
        PROVE  ContextEnds'
    <2>1. PICK y : Put(p, y) /\ y.pc = "edits"
      BY <1>9, ReadOpenIs
    <2> QED BY <1>1, <1>9, <2>1 DEF Context!read_open, Context!session
  <1>10. ASSUME NEW p \in Prompt, Context!read_edits(p)
         PROVE  ContextEnds'
    <2>1. Len(prompt[p].open) <= Limit
      BY <1>10 DEF PromptsEdited, Editing, Tells, Context!read_edits, Context!At
    <2>2. PICK y : Put(p, y) /\ y.pc = (IF Embeds THEN "selection" ELSE "counting")
      BY <1>10, <2>1, ReadEditsIs
    <2>3. Off(y.pc)
      BY <2>2
    <2> QED BY <1>1, <1>10, <2>2, <2>3 DEF Context!read_edits, Context!session
  <1>11. ASSUME NEW p \in Prompt, Context!selection_resource(p)
         PROVE  ContextEnds'
    <2>1. PICK y : Put(p, y) /\ y.pc = "counting"
      BY <1>11, SelectionIs
    <2> QED BY <1>1, <1>11, <2>1 DEF Context!selection_resource, Context!session
  <1>12. ASSUME NEW p \in Prompt, Context!counted(p)
         PROVE  ContextEnds'
    <2>1. PICK y : Put(p, y) /\ y.pc = "prepared"
      BY <1>12, CountedIs
    <2> QED BY <1>1, <1>12, <2>1 DEF Context!counted, Context!session
  <1>13. ASSUME NEW p \in Prompt, Context!try_send(p)
         PROVE  ContextEnds'
    <2>1. CASE prompt[p].agent = agent.n /\ agent.up
      <3>1. \E y : Put(p, y)
        BY <1>13, <2>1, GotoIs DEF Context!try_send, Pcs, ContextTypes
      <3> QED BY <1>1, <1>13, <2>1, <3>1 DEF Context!try_send
    <2>2. CASE ~(prompt[p].agent = agent.n /\ agent.up)
      <3>1. PICK y : Put(p, y) /\ y.pc = "gone"
        BY <1>13, <2>2, EndIs DEF Context!try_send, Pcs, ContextTypes
      <3>2. state' \in {"closed", "cleared"} => state \in {"closed", "cleared"}
        BY <1>13, <2>2 DEF Context!try_send
      <3> QED BY <1>1, <1>13, <3>1, <3>2 DEF Context!try_send
    <2> QED BY <2>1, <2>2
  <1>14. ASSUME NEW p \in Prompt, Context!await_prompt(p)
         PROVE  ContextEnds'
    <2>1. \E y : Put(p, y)
      BY <1>14, GotoIs, EndIs DEF Context!await_prompt, Pcs, ContextTypes
    <2>2. ~Off(prompt[p].pc)
      BY <1>14 DEF Context!await_prompt, Context!At
    <2> QED BY <1>1, <1>14, <2>1, <2>2 DEF Context!await_prompt
  <1>15. ASSUME NEW p \in Prompt, Context!send_request(p)
         PROVE  ContextEnds'
    <2>1. \E y : Put(p, y)
      BY <1>15, GotoIs, EndIs DEF Context!send_request, Pcs, ContextTypes
    <2>2. ~Off(prompt[p].pc)
      BY <1>15 DEF Context!send_request, Context!At
    <2> QED BY <1>1, <1>15, <2>1, <2>2 DEF Context!send_request
  <1>16. ASSUME NEW p \in Prompt, Context!prompt_ends(p)
         PROVE  ContextEnds'
    <2>1. PICK pc \in {"done", "gone"} : Context!End(p, pc)
      BY <1>16 DEF Context!prompt_ends
    <2>2. PICK y : Put(p, y) /\ y.pc = pc
      BY <2>1, EndIs DEF Pcs, ContextTypes
    <2>3. Off(y.pc)
      BY <2>2
    <2>4. state' \in {"closed", "cleared"} => state \in {"closed", "cleared"}
      BY <1>16 DEF Context!prompt_ends
    <2> QED BY <1>1, <1>16, <2>2, <2>3, <2>4 DEF Context!prompt_ends
  <1>17. CASE Context!cancel_session
    BY <1>17 DEF Context!cancel_session, ContextEnds
  <1>18. CASE Context!rebind_start
    BY <1>18 DEF Context!rebind_start, ContextEnds
  <1>19. CASE Context!rebind_finish
    BY <1>19 DEF Context!rebind_finish, ContextEnds
  <1>20. CASE Context!reset
    <2>1. agent'.up = agent.up
      BY <1>20 DEF Context!reset, Context!Reset, ContextTypes
    <2> QED BY <1>2, <1>20, <2>1 DEF Context!reset, Context!Reset
  <1>21. CASE Context!close_session
    <2>1. \A p \in Prompt : Off(prompt'[p].pc)
      BY <1>21, DroppedIs DEF Context!close_session
    <2>2. ~agent'.up
      BY <1>21 DEF Context!close_session, ContextTypes
    <2> QED BY <2>1, <2>2 DEF ContextEnds
  <1>22. CASE Context!clear
    BY <1>22 DEF Context!clear, ContextEnds
  <1>23. CASE UNCHANGED Context!vars
    BY <1>2, <1>23 DEF Context!vars
  <1> QED BY <1>3, <1>4, <1>5, <1>6, <1>7, <1>8, <1>9, <1>10, <1>11, <1>12, <1>13,
             <1>14, <1>15, <1>16, <1>17, <1>18, <1>19, <1>20, <1>21, <1>22, <1>23
             DEF ContextStep, Context!Next

------------------------------------------------------------------------------
(* What prompts tell                                                           *)

\* It stays while a prompt goes on unchanged.
LEMMA AlikeEdits ==
    ASSUME NEW x \in PromptType, NEW y \in PromptType, NEW c \in BOOLEAN, NEW t,
           Alike(x, y), Editing(x, c, t),
           \/ y.pc \in {"gathering", "paths"}
           \/ x.pc \in {"counting", "prepared", "accepted"} /\ y.pc \in {"prepared", "accepted", "logged"}
           \/ x.pc = "logged" /\ y.pc = "arrived" /\ ~c
           \/ y.pc = x.pc
    PROVE  Editing(y, c, t)
  <1>1. Edited(x, Sure(x, c)) = Edited(y, Sure(x, c)) /\ Selected(y) = Selected(x)
    BY DEF Alike, Edited, Selected
  <1>2. CASE y.pc \in {"gathering", "paths"}
    BY <1>2 DEF Editing, Alike, Later
  <1>3. CASE \/ x.pc \in {"counting", "prepared", "accepted"} /\ y.pc \in {"prepared", "accepted", "logged"}
             \/ x.pc = "logged" /\ y.pc = "arrived" /\ ~c
    <2>1. Sure(y, c) = Sure(x, c)
      BY <1>3 DEF Sure, Alike
    <2> QED BY <1>1, <1>3, <2>1 DEF Editing, Alike, Later
  <1>4. CASE y.pc = x.pc
    <2>1. Sure(y, c) = Sure(x, c)
      BY <1>4 DEF Sure, Alike
    <2> QED BY <1>1, <1>4, <2>1 DEF Editing, Alike, Later
  <1> QED BY <1>2, <1>3, <1>4

\* An editor that nothing reports has nothing edited.
LEMMA EmptyEdits ==
    ASSUME NEW x, NEW y, NEW c, NEW t, Emptied(x, y), y.pc \in {"lost", "gone", "done"}
    PROVE  Editing(y, c, t)
  BY DEF Emptied, Editing, Later

\* A prompt keeps the edits it took from the tracker.
LEMMA PromptsEditedKept ==
    ASSUME ContextTypes, ContextEnds, PromptsEdited, ContextStep
    PROVE  PromptsEdited'
  <1>1. PICK c \in BOOLEAN : c = (state = "cleared")
    OBVIOUS
  <1>2. PICK t : t = tracker
    OBVIOUS
  <1>3. \A p \in Prompt : prompt[p] \in PromptType /\ Editing(prompt[p], c, t)
    BY <1>1, <1>2 DEF PromptsEdited, ContextTypes
  <1>4. ASSUME NEW p \in Prompt, NEW y, Put(p, y), Editing(y, c, t), tracker' = tracker,
               state' = "cleared" <=> state = "cleared"
        PROVE  PromptsEdited'
    <2>1. \A q \in Prompt : Editing(prompt'[q], c, t)
      BY <1>3, <1>4 DEF Put
    <2>2. c = (state' = "cleared") /\ tracker' = t
      BY <1>1, <1>2, <1>4
    <2> QED BY <2>1, <2>2 DEF PromptsEdited
  <1>5. ASSUME \A p \in Prompt : Editing(prompt'[p], c, t), tracker' = tracker,
               state' = "cleared" <=> state = "cleared"
        PROVE  PromptsEdited'
    <2>2. c = (state' = "cleared") /\ tracker' = t
      BY <1>1, <1>2, <1>5
    <2> QED BY <1>5, <2>2 DEF PromptsEdited
  <1>6. CASE \E d \in Device, r \in Report : Context!session_context(d, r)
    BY <1>3, <1>5, <1>6 DEF Context!session_context, Context!session
  <1>7. CASE \E d \in Device : Context!with_entry_mut(d)
    <2>1. PICK d \in Device : Context!with_entry_mut(d)
      BY <1>7
    <2>2. PICK u : u = tracker'
      OBVIOUS
    <2>3. ASSUME NEW p \in Prompt
          PROVE  Editing(prompt'[p], c, u)
      <3>1. PICK x, y : x = prompt[p] /\ y = prompt'[p]
        OBVIOUS
      <3>2. /\ Shaken(x, y)
            /\ x.pc \in {"edits", "selection"} => y.torn
            /\ x.pc \notin {"edits", "selection"} => y.torn = x.torn
            /\ x \in PromptType /\ y \in PromptType
        BY <2>1, <3>1, TornIs, <1>3
      <3>3. \A f \in y.selection : Context!relative_path(f)
        BY <1>3, <3>1, <3>2 DEF Editing, Shaken
      <3>4. Sure(y, c) => Sure(x, c)
        BY <3>2 DEF Sure, Shaken, PromptType
      <3>5. Selected(y) = Selected(x) /\ y.selection = x.selection
        BY <3>2 DEF Selected, Shaken
      <3>6. Edited(x, Sure(x, c)) => Edited(y, Sure(y, c))
        BY <3>2, <3>4 DEF Edited, Shaken
      <3>7. Editing(x, c, t)
        BY <1>3, <3>1
      <3>8. Editing(y, c, u)
        BY <3>2, <3>3, <3>4, <3>5, <3>6, <3>7 DEF Editing, Shaken, Later
      <3> QED BY <3>1, <3>8
    <2>4. c = (state' = "cleared")
      BY <1>1, <2>1 DEF Context!with_entry_mut, Context!session
    <2> QED BY <2>2, <2>3, <2>4 DEF PromptsEdited
  <1>8. ASSUME NEW p \in Prompt, Context!begin_prompt(p)
        PROVE  PromptsEdited'
    <2>1. PICK y : Put(p, y) /\ y.pc = "begun" /\ y.selection = {}
      BY <1>8, BeginIs
    <2>2. Editing(y, c, t)
      BY <2>1 DEF Editing, Later
    <2> QED BY <1>4, <1>8, <2>1, <2>2 DEF Context!begin_prompt
  <1>9. ASSUME NEW p \in Prompt, Context!resolve_fails(p)
        PROVE  PromptsEdited'
    <2>1. PICK y : Put(p, y) /\ y.pc = "gone" /\ Emptied(prompt[p], y)
      BY <1>9, EndIs DEF Context!resolve_fails, Pcs, ContextTypes
    <2> QED BY <1>4, <1>9, <2>1, EmptyEdits DEF Context!resolve_fails, Context!session
  <1>10. ASSUME NEW p \in Prompt, Context!prepare(p)
         PROVE  PromptsEdited'
    <2>1. PICK y : /\ Put(p, y) /\ y.pc = (IF count = 0 THEN "gathering" ELSE "paths")
                   /\ Alike(prompt[p], y)
      BY <1>10, PrepareIs
    <2>2. y \in PromptType /\ y.pc \in {"gathering", "paths"}
      BY <2>1 DEF Put
    <2>3. Editing(y, c, t)
      BY <1>3, <2>1, <2>2, AlikeEdits
    <2> QED BY <1>4, <1>10, <2>1, <2>3 DEF Context!prepare, Context!session
  <1>11. ASSUME NEW p \in Prompt, Context!first_prompt_resources(p)
         PROVE  PromptsEdited'
    <2>1. PICK y : Put(p, y) /\ y.pc = "paths" /\ y.selection = prompt[p].selection
      BY <1>11, FirstIs
    <2>2. Editing(y, c, t)
      BY <1>3, <2>1 DEF Editing, Later
    <2> QED BY <1>4, <1>11, <2>1, <2>2 DEF Context!first_prompt_resources, Context!session
  <1>12. ASSUME NEW p \in Prompt, Context!read_open(p)
         PROVE  PromptsEdited'
    <2>1. PICK y : /\ Put(p, y) /\ y.pc = "edits" /\ y.selection = prompt[p].selection
                   /\ y.editor = tracker
                   /\ y.open = Context!bounded_relative_paths(tracker.open, Limit, {})
      BY <1>12, ReadOpenIs
    <2>2. Tells(y.editor.open, Limit, {}, y.open)
      BY <2>1, BoundedTells, ReportAssumption DEF ContextTypes, Editors
    <2>3. Editing(y, c, t)
      BY <1>2, <1>3, <2>1, <2>2 DEF Editing, Later
    <2> QED BY <1>4, <1>12, <2>1, <2>3 DEF Context!read_open, Context!session
  <1>13. ASSUME NEW p \in Prompt, Context!read_edits(p)
         PROVE  PromptsEdited'
    <2>1. PICK x : x = prompt[p] /\ x \in PromptType /\ x.pc = "edits" /\ Editing(x, c, t)
      BY <1>3, <1>13 DEF Context!read_edits, Context!At
    <2>2. Tells(x.editor.open, Limit, {}, x.open)
      BY <2>1 DEF Editing
    <2>3. PICK l : l = Context!bounded_relative_paths(t.edits, Limit - Len(x.open), Context!Members(x.open))
      OBVIOUS
    <2>4. PICK y : /\ Put(p, y) /\ y.pc = (IF Embeds THEN "selection" ELSE "counting")
                   /\ y.selection = x.selection /\ y.editor = x.editor
                   /\ y.torn = x.torn /\ y.open = x.open /\ y.edits = l
      BY <1>2, <1>13, <2>1, <2>2, <2>3, ReadEditsIs DEF Tells
    <2>5. Limit - Len(x.open) \in Nat /\ Limit \in Nat /\ Len(x.open) \in Nat
      BY <2>1, <2>2, ReportAssumption DEF Tells, PromptType
    <2>6. t.edits \in Seq(File)
      BY <1>2 DEF ContextTypes, Editors
    <2>7. Tells(t.edits, Limit - Len(x.open), Context!Members(x.open), l)
      BY <2>3, <2>5, <2>6, BoundedTells
    <2>8. Sure(y, c) => t = x.editor
      BY <2>1, <2>4 DEF Editing, Sure
    <2>9. Sure(y, c) => Tells(y.editor.edits, Limit - Len(y.open), Context!Members(y.open), y.edits)
      BY <2>4, <2>7, <2>8
    <2>10. Len(l) \in Nat /\ Len(l) <= Limit - Len(x.open)
      BY <2>7 DEF Tells
    <2>11. Len(y.open) + Len(y.edits) <= Limit
      BY <2>4, <2>5, <2>10
    <2>12. Edited(y, Sure(y, c))
      BY <2>4, <2>7, <2>9, <2>11 DEF Edited, Tells
    <2>13. y.pc \in {"selection", "counting"} /\ (y.pc = "counting" => ~Embeds)
      BY <2>4
    <2>14. Editing(y, c, t)
      BY <2>1, <2>2, <2>4, <2>12, <2>13 DEF Editing, Later
    <2> QED BY <1>4, <1>13, <2>4, <2>14 DEF Context!read_edits, Context!session
  <1>14. ASSUME NEW p \in Prompt, Context!selection_resource(p)
         PROVE  PromptsEdited'
    <2>1. PICK x : x = prompt[p] /\ x \in PromptType /\ x.pc = "selection" /\ Editing(x, c, t)
      BY <1>3, <1>14 DEF Context!selection_resource, Context!At
    <2>2. PICK y : /\ Put(p, y) /\ y.pc = "counting"
                   /\ y.selection = {f \in t.selection : Context!relative_path(f)}
                   /\ y.editor = x.editor /\ y.torn = x.torn
                   /\ y.open = x.open /\ y.edits = x.edits
      BY <1>2, <1>14, <2>1, SelectionIs
    <2>3. Sure(y, c) => Sure(x, c) /\ t = x.editor
      BY <2>1, <2>2 DEF Editing, Sure
    <2>4. Edited(y, Sure(y, c))
      BY <2>1, <2>2, <2>3 DEF Editing, Edited
    <2>5. Sure(y, c) => y.selection = Selected(y)
      BY <2>2, <2>3 DEF Selected
    <2>6. Editing(y, c, t)
      BY <2>1, <2>2, <2>4, <2>5 DEF Editing, Later
    <2> QED BY <1>4, <1>14, <2>2, <2>6 DEF Context!selection_resource, Context!session
  <1>15. ASSUME NEW p \in Prompt, Context!counted(p)
         PROVE  PromptsEdited'
    <2>1. PICK y : Put(p, y) /\ y.pc = "prepared" /\ Alike(prompt[p], y)
      BY <1>15, CountedIs
    <2>2. prompt[p].pc = "counting" /\ y \in PromptType
      BY <1>15, <2>1 DEF Context!counted, Context!At, Put
    <2>3. Editing(y, c, t)
      BY <1>3, <2>1, <2>2, AlikeEdits
    <2> QED BY <1>4, <1>15, <2>1, <2>3 DEF Context!counted, Context!session
  <1>16. ASSUME NEW p \in Prompt, NEW pc \in {"accepted", "logged", "arrived"}, Context!Goto(p, pc),
                \/ pc = "accepted" /\ prompt[p].pc = "prepared"
                \/ pc = "logged" /\ prompt[p].pc = "accepted"
                \/ pc = "arrived" /\ prompt[p].pc = "logged",
                tracker' = tracker, state' = "cleared" <=> state = "cleared"
         PROVE  PromptsEdited'
    <2>1. PICK y : Put(p, y) /\ y.pc = pc /\ Alike(prompt[p], y)
      BY <1>16, GotoIs DEF Pcs, ContextTypes
    <2>2. y \in PromptType
      BY <2>1 DEF Put
    <2>3. pc = "arrived" => ~c
      BY <1>1, <1>16 DEF ContextEnds
    <2>4. Editing(y, c, t)
      BY <1>3, <1>16, <2>1, <2>2, <2>3, AlikeEdits
    <2> QED BY <1>4, <1>16, <2>1, <2>4
  <1>17. ASSUME NEW p \in Prompt, NEW pc \in {"lost", "done", "gone"}, Context!End(p, pc),
                tracker' = tracker, state' = "cleared" <=> state = "cleared"
         PROVE  PromptsEdited'
    <2>1. PICK y : Put(p, y) /\ y.pc = pc /\ Emptied(prompt[p], y)
      BY <1>17, EndIs DEF Pcs, ContextTypes
    <2>2. Editing(y, c, t)
      BY <2>1, EmptyEdits
    <2> QED BY <1>4, <1>17, <2>1, <2>2
  <1>18. ASSUME NEW p \in Prompt, Context!try_send(p)
         PROVE  PromptsEdited'
    <2>1. tracker' = tracker /\ (state' = "cleared" <=> state = "cleared") /\ prompt[p].pc = "prepared"
      BY <1>18 DEF Context!try_send, Context!At
    <2>2. Context!Goto(p, "accepted") \/ Context!End(p, "gone")
      BY <1>18 DEF Context!try_send
    <2> QED BY <1>16, <1>17, <2>1, <2>2
  <1>19. ASSUME NEW p \in Prompt, Context!await_prompt(p)
         PROVE  PromptsEdited'
    <2>1. tracker' = tracker /\ state' = state /\ prompt[p].pc = "accepted"
      BY <1>19 DEF Context!await_prompt, Context!At
    <2>2. Context!Goto(p, "logged") \/ Context!End(p, "lost")
      BY <1>19 DEF Context!await_prompt
    <2> QED BY <1>16, <1>17, <2>1, <2>2
  <1>20. ASSUME NEW p \in Prompt, Context!send_request(p)
         PROVE  PromptsEdited'
    <2>1. tracker' = tracker /\ state' = state /\ prompt[p].pc = "logged"
      BY <1>20 DEF Context!send_request, Context!At
    <2>2. Context!Goto(p, "arrived") \/ Context!End(p, "lost")
      BY <1>20 DEF Context!send_request
    <2> QED BY <1>16, <1>17, <2>1, <2>2
  <1>21. ASSUME NEW p \in Prompt, Context!prompt_ends(p)
         PROVE  PromptsEdited'
    <2>1. tracker' = tracker /\ (state' = "cleared" <=> state = "cleared")
      BY <1>21 DEF Context!prompt_ends
    <2>2. \E pc \in {"lost", "done", "gone"} : Context!End(p, pc)
      BY <1>21 DEF Context!prompt_ends
    <2> QED BY <1>17, <2>1, <2>2
  <1>22. CASE Context!cancel_session
    <2>1. ASSUME NEW p \in Prompt
          PROVE  Editing(prompt'[p], c, t)
      <3>1. PICK x, y : x = prompt[p] /\ y = prompt'[p]
        OBVIOUS
      <3>2. x \in PromptType /\ y \in PromptType /\ Alike(x, y) /\ y.pc = x.pc /\ Editing(x, c, t)
        BY <1>3, <1>22, <3>1, CancelIs
      <3>3. Editing(y, c, t)
        BY <3>2, AlikeEdits
      <3> QED BY <3>1, <3>3
    <2> QED BY <1>5, <1>22, <2>1 DEF Context!cancel_session
  <1>23. ASSUME prompt' = Context!Dropped, tracker' = tracker, state' = "cleared" <=> state = "cleared"
         PROVE  PromptsEdited'
    <2>1. ASSUME NEW p \in Prompt
          PROVE  Editing(prompt'[p], c, t)
      <3>1. PICK x, y : x = prompt[p] /\ y = prompt'[p]
        OBVIOUS
      <3>2. CASE x.pc \in {"accepted", "logged"}
        <4>1. y.pc = "lost" /\ Emptied(x, y)
          BY <1>23, <3>1, <3>2, DroppedIs
        <4>2. Editing(y, c, t)
          BY <4>1, EmptyEdits
        <4> QED BY <3>1, <4>2
      <3>3. CASE x.pc \notin {"accepted", "logged"}
        BY <1>3, <1>23, <3>1, <3>3, DroppedIs
      <3> QED BY <3>2, <3>3
    <2> QED BY <1>5, <1>23, <2>1
  <1>24. CASE Context!rebind_start
    BY <1>23, <1>24 DEF Context!rebind_start
  <1>25. CASE Context!close_session
    BY <1>23, <1>25 DEF Context!close_session
  <1>26. CASE Context!rebind_finish
    BY <1>3, <1>5, <1>26 DEF Context!rebind_finish
  <1>27. CASE Context!reset
    BY <1>3, <1>5, <1>27 DEF Context!reset, Context!Reset
  <1>28. CASE Context!clear
    <2>1. state' = "cleared" /\ ~c /\ prompt' = prompt
      BY <1>1, <1>28 DEF Context!clear
    <2>2. PICK u : u = tracker'
      OBVIOUS
    <2>3. ASSUME NEW p \in Prompt
          PROVE  Editing(prompt'[p], TRUE, u)
      <3>1. PICK x : x = prompt[p] /\ x \in PromptType /\ Editing(x, c, t)
        BY <1>3
      <3>2. Sure(x, TRUE) => Sure(x, c)
        BY <2>1 DEF Sure
      <3>3. Editing(x, TRUE, u)
        BY <3>1, <3>2 DEF Editing, Edited
      <3> QED BY <2>1, <3>1, <3>3
    <2>4. TRUE = (state' = "cleared")
      BY <2>1
    <2> QED BY <2>2, <2>3, <2>4 DEF PromptsEdited
  <1>29. CASE UNCHANGED Context!vars
    BY <1>3, <1>5, <1>29 DEF Context!vars
  <1> QED BY <1>6, <1>7, <1>8, <1>9, <1>10, <1>11, <1>12, <1>13, <1>14, <1>15,
             <1>18, <1>19, <1>20, <1>21, <1>22, <1>24, <1>25, <1>26, <1>27, <1>28, <1>29
             DEF ContextStep, Context!Next
------------------------------------------------------------------------------
(* The entries of the workspace                                                *)

Prep == {"begun", "gathering", "paths", "edits", "selection", "counting"}
Past == {"paths", "edits", "selection", "counting", "prepared", "accepted", "logged", "arrived",
         "done"}
\* Prompt x becomes y, when n is the agent of the session.
Onward(x, y, n) ==
    /\ x.entries # "none" => y.entries # "none" /\ y.agent = x.agent
    /\ y.pc \in Prep => y.agent = n \/ (x.pc \in Prep /\ y.agent = x.agent)
    /\ y.pc \in Past => \/ y.entries # "none" \/ HasEntries(y.agent)
                        \/ x.pc \in Past /\ y.agent = x.agent

\* The entries of a prompt stay as long as it does.
LEMMA EntriesStay ==
    ASSUME ContextTypes, EntriesKept, \A q \in Prompt : Onward(prompt[q], prompt'[q], agent.n),
           agent'.n = agent.n, agent'.resets = agent.resets,
           count' # 0 /\ agent.resets = 0 => count # 0 \/ HasEntries(agent.n)
    PROVE  EntriesKept'
  <1>1. ASSUME NEW a, HasEntries(a)
        PROVE  \E q \in Prompt : prompt'[q].entries # "none" /\ prompt'[q].agent = a
    BY <1>1 DEF HasEntries, Onward
  <1>2. PICK n : n = agent.n
    OBVIOUS
  <1>3. ASSUME agent.resets = 0, NEW p \in Prompt, prompt'[p].pc \in Prep
        PROVE  prompt'[p].agent = agent'.n
    <2>1. prompt'[p].agent = n \/ (prompt[p].pc \in Prep /\ prompt'[p].agent = prompt[p].agent)
      BY <1>2, <1>3 DEF Onward
    <2> QED BY <1>2, <1>3, <2>1 DEF EntriesKept, Context!Preparing, Prep
  <1>4. ASSUME agent.resets = 0, count' # 0
        PROVE  \E q \in Prompt : prompt'[q].entries # "none" /\ prompt'[q].agent = agent'.n
    <2>1. HasEntries(n)
      BY <1>2, <1>4 DEF EntriesKept
    <2> QED BY <1>1, <1>2, <2>1
  <1>5. ASSUME NEW p \in Prompt, prompt'[p].pc \in Past, prompt'[p].entries = "none"
        PROVE  \E q \in Prompt : prompt'[q].entries # "none" /\ prompt'[q].agent = prompt'[p].agent
    <2>1. PICK x, y : x = prompt[p] /\ y = prompt'[p]
      OBVIOUS
    <2>2. HasEntries(y.agent) \/ (x.pc \in Past /\ y.agent = x.agent)
      BY <1>5, <2>1 DEF Onward
    <2>3. x.entries = "none"
      BY <1>5, <2>1 DEF Onward
    <2>4. HasEntries(y.agent)
      BY <2>1, <2>2, <2>3 DEF EntriesKept, Past
    <2> QED BY <1>1, <2>1, <2>4
  <1> QED BY <1>3, <1>4, <1>5 DEF EntriesKept, HasEntries, Context!Preparing, Prep, Past

\* One prompt goes on.
LEMMA EntriesMove ==
    ASSUME ContextTypes, EntriesKept, NEW p \in Prompt, NEW y, Put(p, y),
           Onward(prompt[p], y, agent.n), agent' = agent,
           count' # 0 /\ agent.resets = 0 => count # 0 \/ HasEntries(agent.n)
    PROVE  EntriesKept'
  <1>1. PICK n : n = agent.n
    OBVIOUS
  <1>2. \A q \in Prompt : Onward(prompt[q], prompt'[q], n)
    BY <1>1 DEF Put, Onward
  <1> QED BY <1>1, <1>2, EntriesStay

\* The entries are told, or still to be told, unless an agent came meanwhile.
LEMMA EntriesKeptStays ==
    ASSUME ContextTypes, PromptsEdited, EntriesKept, ContextStep
    PROVE  blurred' \/ EntriesKept'
  <1>1. ASSUME NEW p \in Prompt, prompt[p].pc = "new"
        PROVE  prompt[p].entries = "none"
    BY <1>1 DEF PromptsEdited, Editing
  <1>2. ASSUME NEW p \in Prompt, NEW pc \in {"accepted", "logged", "arrived"}, Context!Goto(p, pc),
               prompt[p].pc \in {"prepared", "accepted", "logged"}, agent' = agent, count' = count
        PROVE  EntriesKept'
    <2>1. PICK y : Put(p, y) /\ y.pc = pc /\ Alike(prompt[p], y)
      BY <1>2, GotoIs DEF Pcs, ContextTypes
    <2>2. Onward(prompt[p], y, agent.n)
      BY <1>2, <2>1 DEF Onward, Alike, Prep, Past
    <2> QED BY <1>2, <2>1, <2>2, EntriesMove
  <1>3. ASSUME NEW p \in Prompt, NEW pc \in {"lost", "done", "gone"}, Context!End(p, pc),
               pc = "done" => prompt[p].pc = "arrived", agent' = agent, count' = count
        PROVE  EntriesKept'
    <2>1. PICK y : Put(p, y) /\ y.pc = pc /\ Emptied(prompt[p], y)
      BY <1>3, EndIs DEF Pcs, ContextTypes
    <2>2. Onward(prompt[p], y, agent.n)
      BY <1>3, <2>1 DEF Onward, Emptied, Prep, Past
    <2> QED BY <1>3, <2>1, <2>2, EntriesMove
  <1>4. ASSUME \A q \in Prompt : Onward(prompt[q], prompt'[q], agent.n),
               agent'.n = agent.n, agent'.resets = agent.resets, count' # 0 => count # 0
        PROVE  EntriesKept'
    BY <1>4, EntriesStay
  <1>5. ASSUME prompt' = prompt
        PROVE  \A q \in Prompt : Onward(prompt[q], prompt'[q], agent.n)
    BY <1>5 DEF Onward
  <1>6. CASE \E d \in Device, r \in Report : Context!session_context(d, r)
    BY <1>4, <1>5, <1>6 DEF Context!session_context, Context!session
  <1>7. CASE \E d \in Device : Context!with_entry_mut(d)
    <2>1. PICK d \in Device : Context!with_entry_mut(d)
      BY <1>7
    <2>2. \A q \in Prompt : Onward(prompt[q], prompt'[q], agent.n)
      BY <2>1, TornIs DEF Shaken, Onward
    <2> QED BY <1>4, <2>1, <2>2 DEF Context!with_entry_mut, Context!session
  <1>8. ASSUME NEW p \in Prompt, Context!begin_prompt(p)
        PROVE  EntriesKept'
    <2>1. PICK y : Put(p, y) /\ y.pc = "begun" /\ y.agent = agent.n
      BY <1>8, BeginIs
    <2>2. Onward(prompt[p], y, agent.n)
      BY <1>1, <1>8, <2>1 DEF Onward, Prep, Past, Context!begin_prompt, Context!At
    <2> QED BY <1>8, <2>1, <2>2, EntriesMove DEF Context!begin_prompt
  <1>9. ASSUME NEW p \in Prompt, Context!resolve_fails(p)
        PROVE  EntriesKept'
    BY <1>3, <1>9 DEF Context!resolve_fails, Context!session
  <1>10. ASSUME NEW p \in Prompt, Context!prepare(p)
         PROVE  blurred' \/ EntriesKept'
    <2>1. CASE agent.resets > 0
      BY <1>10, <2>1 DEF Context!prepare
    <2>2. CASE agent.resets = 0
      <3>1. PICK y : /\ Put(p, y) /\ y.pc = (IF count = 0 THEN "gathering" ELSE "paths")
                     /\ Alike(prompt[p], y)
        BY <1>10, PrepareIs
      <3>2. prompt[p].pc = "begun"
        BY <1>10 DEF Context!prepare, Context!At
      <3>3. y.agent = agent.n /\ (count # 0 => HasEntries(agent.n))
        BY <2>2, <3>1, <3>2 DEF EntriesKept, Context!Preparing, Alike
      <3>4. y.pc \in Past => HasEntries(y.agent)
        <4>1. PICK n : n = agent.n
          OBVIOUS
        <4>2. y.agent = n /\ (count # 0 => HasEntries(n))
          BY <3>3, <4>1
        <4> QED BY <3>1, <4>2 DEF Past
      <3>5. Onward(prompt[p], y, agent.n)
        BY <3>1, <3>3, <3>4 DEF Onward, Alike
      <3> QED BY <1>10, <3>1, <3>5, EntriesMove DEF Context!prepare, Context!session
    <2> QED BY <2>1, <2>2 DEF ContextTypes
  <1>11. ASSUME NEW p \in Prompt, Context!first_prompt_resources(p)
         PROVE  EntriesKept'
    <2>1. PICK y : Put(p, y) /\ y.pc = "paths" /\ y.entries # "none" /\ y.agent = prompt[p].agent
      BY <1>11, FirstIs
    <2>2. Onward(prompt[p], y, agent.n)
      BY <1>11, <2>1 DEF Onward, Prep, Past, Context!first_prompt_resources, Context!At
    <2> QED BY <1>11, <2>1, <2>2, EntriesMove
               DEF Context!first_prompt_resources, Context!session
  <1>12. ASSUME NEW p \in Prompt, Context!read_open(p)
         PROVE  EntriesKept'
    <2>1. PICK y : /\ Put(p, y) /\ y.pc = "edits" /\ y.agent = prompt[p].agent
                   /\ y.entries = prompt[p].entries
      BY <1>12, ReadOpenIs
    <2>2. Onward(prompt[p], y, agent.n)
      BY <1>12, <2>1 DEF Onward, Prep, Past, Context!read_open, Context!At
    <2> QED BY <1>12, <2>1, <2>2, EntriesMove DEF Context!read_open, Context!session
  <1>13. ASSUME NEW p \in Prompt, Context!read_edits(p)
         PROVE  EntriesKept'
    <2>1. Len(prompt[p].open) <= Limit
      BY <1>13 DEF PromptsEdited, Editing, Tells, Context!read_edits, Context!At
    <2>2. PICK y : /\ Put(p, y) /\ y.pc = (IF Embeds THEN "selection" ELSE "counting")
                   /\ y.agent = prompt[p].agent /\ y.entries = prompt[p].entries
      BY <1>13, <2>1, ReadEditsIs
    <2>3. Onward(prompt[p], y, agent.n)
      BY <1>13, <2>2 DEF Onward, Prep, Past, Context!read_edits, Context!At
    <2> QED BY <1>13, <2>2, <2>3, EntriesMove DEF Context!read_edits, Context!session
  <1>14. ASSUME NEW p \in Prompt, Context!selection_resource(p)
         PROVE  EntriesKept'
    <2>1. PICK y : /\ Put(p, y) /\ y.pc = "counting" /\ y.agent = prompt[p].agent
                   /\ y.entries = prompt[p].entries
      BY <1>14, SelectionIs
    <2>2. Onward(prompt[p], y, agent.n)
      BY <1>14, <2>1 DEF Onward, Prep, Past, Context!selection_resource, Context!At
    <2> QED BY <1>14, <2>1, <2>2, EntriesMove DEF Context!selection_resource, Context!session
  <1>15. ASSUME NEW p \in Prompt, Context!counted(p)
         PROVE  EntriesKept'
    <2>1. PICK y : Put(p, y) /\ y.pc = "prepared" /\ Alike(prompt[p], y)
      BY <1>15, CountedIs
    <2>2. prompt[p].pc = "counting"
      BY <1>15 DEF Context!counted, Context!At
    <2>3. Onward(prompt[p], y, agent.n)
      BY <2>1, <2>2 DEF Onward, Alike, Prep, Past
    <2>4. PICK n : n = agent.n
      OBVIOUS
    <2>5. PICK x : x = prompt[p]
      OBVIOUS
    <2>6. agent.resets = 0 => x.agent = n
      BY <2>2, <2>4, <2>5 DEF EntriesKept, Context!Preparing
    <2>7. x.entries # "none" \/ HasEntries(x.agent)
      BY <2>2, <2>5 DEF EntriesKept
    <2>8. HasEntries(x.agent)
      BY <2>5, <2>7 DEF HasEntries
    <2>9. agent.resets = 0 => HasEntries(agent.n)
      BY <2>4, <2>6, <2>8
    <2> QED BY <1>15, <2>1, <2>3, <2>9, EntriesMove DEF Context!counted, Context!session
  <1>16. ASSUME NEW p \in Prompt, Context!try_send(p)
         PROVE  EntriesKept'
    BY <1>2, <1>3, <1>16 DEF Context!try_send, Context!At
  <1>17. ASSUME NEW p \in Prompt, Context!await_prompt(p)
         PROVE  EntriesKept'
    BY <1>2, <1>3, <1>17 DEF Context!await_prompt, Context!At
  <1>18. ASSUME NEW p \in Prompt, Context!send_request(p)
         PROVE  EntriesKept'
    BY <1>2, <1>3, <1>18 DEF Context!send_request, Context!At
  <1>19. ASSUME NEW p \in Prompt, Context!prompt_ends(p)
         PROVE  EntriesKept'
    <2>1. CASE prompt[p].pc = "arrived"
      BY <1>3, <1>19, <2>1 DEF Context!prompt_ends, Context!At
    <2>2. CASE prompt[p].pc # "arrived"
      BY <1>3, <1>19, <2>2 DEF Context!prompt_ends, Context!At
    <2> QED BY <2>1, <2>2
  <1>20. CASE Context!cancel_session
    <2>1. \A q \in Prompt : Onward(prompt[q], prompt'[q], agent.n)
      BY <1>20, CancelIs DEF Alike, Onward
    <2> QED BY <1>4, <1>20, <2>1 DEF Context!cancel_session
  <1>21. ASSUME prompt' = Context!Dropped
         PROVE  \A q \in Prompt : Onward(prompt[q], prompt'[q], agent.n)
    BY <1>21, DroppedIs DEF Emptied, Onward, Prep, Past
  <1>22. CASE Context!rebind_start
    <2>1. agent'.n = agent.n /\ agent'.resets = agent.resets
      BY <1>22 DEF Context!rebind_start, ContextTypes
    <2> QED BY <1>4, <1>21, <1>22, <2>1 DEF Context!rebind_start
  <1>23. CASE Context!close_session
    <2>1. agent'.n = agent.n /\ agent'.resets = agent.resets
      BY <1>23 DEF Context!close_session, ContextTypes
    <2> QED BY <1>4, <1>21, <1>23, <2>1 DEF Context!close_session
  <1>24. CASE Context!rebind_finish
    <2>1. agent'.resets # 0 /\ prompt' = prompt
      BY <1>24 DEF Context!rebind_finish, ContextTypes
    <2> QED BY <2>1 DEF EntriesKept, HasEntries
  <1>25. CASE Context!reset
    <2>1. CASE \E p \in Prompt : Context!Preparing(p)
      BY <1>25, <2>1 DEF Context!reset, Context!Reset
    <2>2. CASE ~\E p \in Prompt : Context!Preparing(p)
      <3>1. count' = 0 /\ prompt' = prompt
        BY <1>25 DEF Context!reset, Context!Reset
      <3> QED BY <2>2, <3>1 DEF EntriesKept, HasEntries, Context!Preparing
    <2> QED BY <2>1, <2>2
  <1>26. CASE Context!clear
    BY <1>4, <1>5, <1>26 DEF Context!clear
  <1>27. CASE UNCHANGED Context!vars
    BY <1>4, <1>5, <1>27 DEF Context!vars
  <1> QED BY <1>6, <1>7, <1>8, <1>9, <1>10, <1>11, <1>12, <1>13, <1>14, <1>15, <1>16, <1>17,
             <1>18,
             <1>19, <1>20, <1>22, <1>23, <1>24, <1>25, <1>26, <1>27 DEF ContextStep, Context!Next
------------------------------------------------------------------------------
(* What a cleared session leaves                                               *)

\* A request that was over when the session was cleared writes nothing of it again.
LEMMA ContextClearedKept ==
    ASSUME ContextTypes, PromptsEdited, ContextCleared, ContextStep
    PROVE  ContextCleared'
  <1> SUFFICES ASSUME state' = "cleared", ~late'
               PROVE  /\ count' = 0 /\ tracker' = Context!NoEditor
                      /\ \A d \in Device : reporting'[d].left = <<>>
                      /\ \A p \in Prompt : prompt'[p].pc \notin Prep
    BY DEF ContextCleared, Context!Preparing, Prep
  <1>1. CASE Context!clear
    BY <1>1 DEF Context!clear, Context!Pending, Context!Preparing, Prep
  <1>2. CASE ~Context!clear
    <2>1. state = "cleared" /\ ~late
      <3>1. late' = late
        BY <1>2
           DEF ContextStep, Context!vars, Context!Next, Context!history,
               Context!session_context,
                    Context!with_entry_mut, Context!begin_prompt, Context!resolve_fails,
                    Context!prepare, Context!first_prompt_resources, Context!read_open,
                    Context!read_edits, Context!selection_resource, Context!counted,
                    Context!try_send, Context!await_prompt, Context!send_request,
                    Context!prompt_ends, Context!cancel_session, Context!rebind_start,
                    Context!rebind_finish, Context!reset, Context!Reset, Context!close_session
      <3>2. ASSUME state # "cleared"
            PROVE  state' # "cleared"
        BY <1>2, <3>2 DEF ContextStep, Context!vars, Context!Next, Context!session,
                    Context!session_context,
                    Context!with_entry_mut, Context!begin_prompt, Context!resolve_fails,
                    Context!prepare, Context!first_prompt_resources, Context!read_open,
                    Context!read_edits, Context!selection_resource, Context!counted,
                    Context!try_send, Context!await_prompt, Context!send_request,
                    Context!prompt_ends, Context!cancel_session, Context!rebind_start,
                    Context!rebind_finish, Context!reset, Context!Reset, Context!close_session
      <3> QED BY <3>1, <3>2
    <2>2. /\ count = 0 /\ tracker = Context!NoEditor
          /\ \A d \in Device : reporting[d].left = <<>>
          /\ \A p \in Prompt : prompt[p].pc \notin Prep
      BY <2>1 DEF ContextCleared, Context!Preparing, Prep
    <2>3. ASSUME NEW p \in Prompt, NEW pc \in Pcs \ Prep, Context!Goto(p, pc) \/ Context!End(p, pc)
          PROVE  \A q \in Prompt : prompt'[q].pc \notin Prep
      <3>1. PICK y : Put(p, y) /\ y.pc = pc
        BY <2>3, GotoIs, EndIs DEF ContextTypes
      <3> QED BY <2>2, <3>1 DEF Put
    <2>4. ASSUME NEW p \in Prompt, Context!try_send(p)
          PROVE  \A q \in Prompt : prompt'[q].pc \notin Prep
      BY <2>3, <2>4 DEF Context!try_send, Pcs, Prep
    <2>5. ASSUME NEW p \in Prompt, Context!await_prompt(p)
          PROVE  \A q \in Prompt : prompt'[q].pc \notin Prep
      BY <2>3, <2>5 DEF Context!await_prompt, Pcs, Prep
    <2>6. ASSUME NEW p \in Prompt, Context!send_request(p)
          PROVE  \A q \in Prompt : prompt'[q].pc \notin Prep
      BY <2>3, <2>6 DEF Context!send_request, Pcs, Prep
    <2>7. ASSUME NEW p \in Prompt, Context!prompt_ends(p)
          PROVE  \A q \in Prompt : prompt'[q].pc \notin Prep
      <3>1. PICK pc \in {"done", "gone"} : Context!End(p, pc)
        BY <2>7 DEF Context!prompt_ends
      <3> QED BY <2>3, <3>1 DEF Pcs, Prep
    <2>8. ASSUME NEW p \in Prompt,
                 \/ Context!try_send(p) \/ Context!await_prompt(p)
                 \/ Context!send_request(p) \/ Context!prompt_ends(p)
          PROVE  /\ count' = count /\ tracker' = tracker /\ reporting' = reporting
                 /\ \A q \in Prompt : prompt'[q].pc \notin Prep
      <3>1. \A q \in Prompt : prompt'[q].pc \notin Prep
        BY <2>4, <2>5, <2>6, <2>7, <2>8
      <3> QED BY <2>8, <3>1 DEF Context!try_send, Context!await_prompt, Context!send_request,
                                Context!prompt_ends
    <2>9. ASSUME NEW p \in Prompt
          PROVE  /\ ~Context!begin_prompt(p) /\ ~Context!resolve_fails(p) /\ ~Context!prepare(p)
                 /\ ~Context!first_prompt_resources(p) /\ ~Context!read_open(p)
                 /\ ~Context!read_edits(p) /\ ~Context!selection_resource(p) /\ ~Context!counted(p)
      BY <2>1, <2>2 DEF Context!begin_prompt, Context!resolve_fails, Context!prepare,
             Context!first_prompt_resources, Context!read_open, Context!read_edits,
             Context!selection_resource, Context!counted, Context!At, Prep
    <2>10. /\ \A d \in Device, r \in Report : ~Context!session_context(d, r)
           /\ \A d \in Device : ~Context!with_entry_mut(d)
           /\ ~Context!cancel_session /\ ~Context!rebind_start /\ ~Context!rebind_finish
           /\ ~Context!close_session
      BY <2>1, <2>2 DEF Context!session_context, Context!with_entry_mut, Context!cancel_session,
             Context!rebind_start, Context!rebind_finish, Context!close_session
    <2>11. CASE Context!reset
      BY <2>2, <2>11 DEF Context!reset, Context!Reset
    <2>12. CASE UNCHANGED Context!vars
      BY <2>2, <2>12 DEF Context!vars
    <2> QED BY <1>2, <2>2, <2>8, <2>9, <2>10, <2>11, <2>12 DEF ContextStep, Context!Next
  <1> QED BY <1>1, <1>2

\* ContextInv is inductive.
LEMMA ContextKept == ContextInv /\ ContextStep => ContextInv'
  <1> SUFFICES ASSUME ContextInv, ContextStep PROVE ContextInv'
    OBVIOUS
  <1>1. blurred => blurred'
    BY DEF ContextInv, ContextStep, Context!vars, Context!Next, Context!history,
           Context!session_context, Context!with_entry_mut, Context!begin_prompt,
           Context!resolve_fails, Context!prepare, Context!first_prompt_resources,
           Context!read_open, Context!read_edits, Context!selection_resource, Context!counted,
           Context!try_send, Context!await_prompt, Context!send_request, Context!prompt_ends,
           Context!cancel_session, Context!rebind_start, Context!rebind_finish, Context!reset,
           Context!Reset, Context!close_session, Context!clear
  <1>2. ContextTypes' /\ ContextEnds' /\ PromptsEdited' /\ ContextCleared'
    BY ContextTypesKept, ContextEndsKept, PromptsEditedKept, ContextClearedKept DEF ContextInv
  <1>3. blurred' \/ EntriesKept'
    BY <1>1, EntriesKeptStays DEF ContextInv
  <1> QED BY <1>2, <1>3 DEF ContextInv

\* The files of two lists are those of each.
LEMMA JoinedIs ==
    ASSUME NEW S, NEW a \in Seq(S), NEW b \in Seq(S)
    PROVE  /\ a \o b \in Seq(S) /\ Len(a \o b) = Len(a) + Len(b)
           /\ Context!Members(a \o b) = Context!Members(a) \union Context!Members(b)
           /\ (/\ \A m, n \in DOMAIN a : a[m] = a[n] => m = n
               /\ \A m, n \in DOMAIN b : b[m] = b[n] => m = n
               /\ \A f \in Context!Members(b) : f \notin Context!Members(a)) =>
                 \A m, n \in DOMAIN (a \o b) : (a \o b)[m] = (a \o b)[n] => m = n
  <1>1. PICK c : c = a \o b
    OBVIOUS
  <1>2. /\ c \in Seq(S) /\ Len(c) = Len(a) + Len(b) /\ Len(a) \in Nat /\ Len(b) \in Nat
        /\ DOMAIN c = 1..(Len(a) + Len(b)) /\ DOMAIN a = 1..Len(a) /\ DOMAIN b = 1..Len(b)
        /\ \A n \in 1..Len(a) : c[n] = a[n]
        /\ \A n \in 1..Len(b) : c[Len(a) + n] = b[n]
    BY <1>1
  <1>3. \A n \in DOMAIN c : n \in DOMAIN a \/ (n - Len(a) \in DOMAIN b /\ c[n] = b[n - Len(a)] /\ n > Len(a))
    <2>1. ASSUME NEW n \in DOMAIN c, n \notin DOMAIN a
          PROVE  n - Len(a) \in DOMAIN b /\ c[n] = b[n - Len(a)] /\ n > Len(a)
      <3>1. n - Len(a) \in 1..Len(b) /\ n = Len(a) + (n - Len(a))
        BY <1>2, <2>1
      <3> QED BY <1>2, <2>1, <3>1
    <2> QED BY <2>1
  <1>4. Context!Members(c) = Context!Members(a) \union Context!Members(b)
    <2>1. \A n \in DOMAIN c : c[n] \in Context!Members(a) \union Context!Members(b)
      BY <1>2, <1>3 DEF Context!Members
    <2>2. \A n \in DOMAIN a : n \in DOMAIN c /\ c[n] = a[n]
      BY <1>2
    <2>3. \A n \in DOMAIN b : Len(a) + n \in DOMAIN c /\ c[Len(a) + n] = b[n]
      BY <1>2
    <2> QED BY <2>1, <2>2, <2>3 DEF Context!Members
  <1>5. ASSUME \A m, n \in DOMAIN a : a[m] = a[n] => m = n,
               \A m, n \in DOMAIN b : b[m] = b[n] => m = n,
               \A f \in Context!Members(b) : f \notin Context!Members(a),
               NEW m \in DOMAIN c, NEW n \in DOMAIN c, c[m] = c[n]
        PROVE  m = n
    <2>1. ASSUME NEW i \in DOMAIN a, NEW j \in DOMAIN b
          PROVE  a[i] # b[j]
      BY <1>5 DEF Context!Members
    <2>2. \A i \in DOMAIN a : c[i] = a[i]
      BY <1>2
    <2>3. CASE m \in DOMAIN a /\ n \in DOMAIN a
      BY <1>5, <2>2, <2>3
    <2>4. CASE m \in DOMAIN a /\ n \notin DOMAIN a
      BY <1>3, <1>5, <2>1, <2>2, <2>4
    <2>5. CASE m \notin DOMAIN a /\ n \in DOMAIN a
      BY <1>3, <1>5, <2>1, <2>2, <2>5
    <2>6. CASE m \notin DOMAIN a /\ n \notin DOMAIN a
      <3>1. m - Len(a) = n - Len(a)
        BY <1>3, <1>5, <2>6
      <3> QED BY <1>2, <3>1
    <2> QED BY <2>3, <2>4, <2>5, <2>6
  <1> QED BY <1>1, <1>2, <1>4, <1>5

\* What a prompt tells of the editor when it reaches the agent.
LEMMA ArrivedTells ==
    ASSUME ContextTypes, PromptsEdited, NEW p \in Prompt, prompt[p].pc = "arrived"
    PROVE  Context!EditorIsTold(p)
  <1>1. PICK x : x = prompt[p] /\ x \in PromptType /\ x.pc = "arrived"
    BY DEF ContextTypes
  <1>2. PICK c : Editing(x, c, tracker)
    BY <1>1 DEF PromptsEdited
  <1>3. PICK e, told0 : e = x.editor /\ told0 = x.open \o x.edits
    OBVIOUS
  <1>4. /\ Tells(e.open, Limit, {}, x.open) /\ Edited(x, ~x.torn)
        /\ \A f \in x.selection : Context!relative_path(f)
        /\ ~x.torn /\ Embeds => x.selection = Selected(x)
    BY <1>1, <1>2, <1>3 DEF Editing, Later, Sure
  <1>5. /\ x.open \in Seq(File) /\ x.edits \in Seq(File) /\ Len(x.open) \in Nat /\ Len(x.edits) \in Nat
        /\ e.open \in Seq(File) /\ e.edits \in Seq(File) /\ x.torn \in BOOLEAN
    BY <1>1, <1>3 DEF PromptType, Editors
  <1>6. \A f \in Context!Members(x.edits) : f \notin Context!Members(x.open)
    BY <1>4 DEF Edited
  <1>7. /\ Len(told0) = Len(x.open) + Len(x.edits)
        /\ Context!Members(told0) = Context!Members(x.open) \union Context!Members(x.edits)
        /\ \A m, n \in DOMAIN told0 : told0[m] = told0[n] => m = n
    <2>1. /\ \A m, n \in DOMAIN x.open : x.open[m] = x.open[n] => m = n
          /\ \A m, n \in DOMAIN x.edits : x.edits[m] = x.edits[n] => m = n
      BY <1>4 DEF Tells, Edited
    <2>2. PICK a \in Seq(File), b \in Seq(File) : a = x.open /\ b = x.edits
      BY <1>5
    <2>3. /\ Len(a \o b) = Len(a) + Len(b)
          /\ Context!Members(a \o b) = Context!Members(a) \union Context!Members(b)
      BY JoinedIs
    <2>4. /\ \A m, n \in DOMAIN a : a[m] = a[n] => m = n
          /\ \A m, n \in DOMAIN b : b[m] = b[n] => m = n
          /\ \A f \in Context!Members(b) : f \notin Context!Members(a)
      BY <1>6, <2>1, <2>2
    <2>5. \A m, n \in DOMAIN (a \o b) : (a \o b)[m] = (a \o b)[n] => m = n
      BY <2>4, JoinedIs
    <2>6. told0 = a \o b
      BY <1>3, <2>2
    <2>7. \A m, n \in DOMAIN told0 : told0[m] = told0[n] => m = n
      BY <2>5, <2>6, Zenon
    <2>8. /\ Len(told0) = Len(a) + Len(b)
          /\ Context!Members(told0) = Context!Members(a) \union Context!Members(b)
      BY <2>3, <2>6, Zenon
    <2> QED BY <2>2, <2>7, <2>8, Zenon
  <1>8. Len(told0) <= Limit
    BY <1>4, <1>7 DEF Edited
  <1>9. \A f \in Context!Members(told0) \union x.selection : Context!relative_path(f)
    BY <1>4, <1>7 DEF Tells, Edited
  <1>10. ASSUME ~x.torn, Len(told0) < Limit
         PROVE  Context!Members(told0) =
                    {f \in Context!Members(e.open \o e.edits) : Context!relative_path(f)}
    <2>1. Len(x.open) < Limit /\ Len(x.edits) < Limit - Len(x.open)
      <3>1. PICK i \in Nat, j \in Nat : i = Len(x.open) /\ j = Len(x.edits)
        BY <1>5
      <3>2. i + j < Limit
        BY <1>7, <1>10, <3>1, Zenon
      <3>3. i < Limit /\ j < Limit - i
        BY <3>2, ReportAssumption
      <3> QED BY <3>1, <3>3, Zenon
    <2>2. Context!Members(x.open) = {f \in Context!Members(e.open) : Context!relative_path(f)}
      <3>1. Context!Members(x.open) =
                {f \in Context!Members(e.open) : Context!relative_path(f) /\ f \notin {}}
        BY <1>4, <2>1 DEF Tells
      <3> QED BY <3>1
    <2>3. Context!Members(x.edits) = {f \in Context!Members(e.edits) :
                                         Context!relative_path(f) /\ f \notin Context!Members(x.open)}
      BY <1>3, <1>4, <1>10, <2>1 DEF Edited, Tells
    <2>4. Context!Members(e.open \o e.edits) = Context!Members(e.open) \union Context!Members(e.edits)
      BY <1>5, JoinedIs
    <2> QED BY <1>7, <2>2, <2>3, <2>4
  <1>11. Context!Told(p) = told0 /\ prompt[p] = x /\ prompt[p].editor = e
    BY <1>1, <1>3 DEF Context!Told
  <1>12. ~x.torn /\ Embeds => x.selection = {f \in e.selection : Context!relative_path(f)}
    BY <1>3, <1>4 DEF Selected
  <1> QED BY <1>7, <1>8, <1>9, <1>10, <1>11, <1>12 DEF Context!EditorIsTold

\* Of a prompt that is done, nothing is left that could be wrong.
LEMMA DoneTells ==
    ASSUME ContextTypes, PromptsEdited, NEW p \in Prompt, prompt[p].pc = "done"
    PROVE  Context!EditorIsTold(p)
  <1>1. PICK x : x = prompt[p]
    OBVIOUS
  <1>2. /\ x.open = <<>> /\ x.edits = <<>> /\ x.selection = {} /\ x.editor = Context!NoEditor
    BY <1>1 DEF PromptsEdited, Editing
  <1>3. Context!Told(p) = <<>>
    BY <1>1, <1>2 DEF Context!Told
  <1>4. Context!Members(<<>>) = {} /\ DOMAIN <<>> = {} /\ Len(<<>>) = 0
    BY DEF Context!Members
  <1>5. Context!Members(Context!NoEditor.open \o Context!NoEditor.edits) = {}
    BY EmptyLists, <1>4
  <1>6. prompt[p].editor = Context!NoEditor /\ prompt[p].selection = {}
    BY <1>1, <1>2
  <1> QED BY <1>3, <1>4, <1>5, <1>6, EmptyLists, ReportAssumption DEF Context!EditorIsTold

\* What a prompt tells its agent is complete and within its limit, however reports,
\* cancels, new agents and the end of the session come in between.
THEOREM PromptsToldWell == Context!Spec => []PromptsTell
  <1>1. Context!Init => ContextInv
    BY ContextTypesInit
  <1>2. ContextInv /\ [Context!Next]_(Context!vars) => ContextInv'
    BY ContextKept DEF ContextStep
  <1>3. ContextInv => PromptsTell
    <2> SUFFICES ASSUME ContextInv PROVE PromptsTell
      OBVIOUS
    <2>1. ASSUME NEW p \in Prompt, Context!Got(p)
          PROVE  Context!EditorIsTold(p)
      BY <2>1, ArrivedTells, DoneTells DEF ContextInv, Context!Got
    <2>2. ASSUME NEW p \in Prompt, Context!Got(p), ~blurred
          PROVE  Context!EntriesAreTold(p)
      BY <2>2 DEF ContextInv, EntriesKept, HasEntries, Context!Got, Context!EntriesAreTold
    <2>3. state = "cleared" => late \/ (count = 0 /\ tracker = Context!NoEditor)
      BY DEF ContextInv, ContextCleared
    <2> QED BY <2>1, <2>2, <2>3 DEF PromptsTell, Context!PromptsTell
  <1> QED BY <1>1, <1>2, <1>3, PTL DEF Context!Spec

------------------------------------------------------------------------------
(* Pages of events                                                             *)

\* The instance counts as FiniteSets does.
LEMMA SameCountOfRows == \A S : Readers!Cardinality(S) = Cardinality(S)
  BY Zenon DEF Readers!Cardinality, Cardinality

Increasing(q) == \A m, n \in DOMAIN q : m < n => q[m] < q[n]

\* A finite set of numbers in ascending order.
LEMMA AscendingIs ==
    ASSUME NEW S \in SUBSET Nat, IsFiniteSet(S)
    PROVE  /\ Readers!Ascending(S) \in Seq(S) /\ Readers!Ascending(S) \in Seq(Nat)
           /\ Len(Readers!Ascending(S)) = Cardinality(S)
           /\ Cardinality(S) \in Nat
           /\ \A k \in 1..Cardinality(S) : Readers!Ascending(S)[k] = Nth(S, k)
           /\ Readers!Elements(Readers!Ascending(S)) = S
           /\ Increasing(Readers!Ascending(S))
  <1>1. /\ Cardinality(S) \in Nat
        /\ \A k \in 1..Cardinality(S) : Nth(S, k) \in S /\ Rank(S, Nth(S, k)) = k
        /\ \A j, k \in 1..Cardinality(S) : j < k => Nth(S, j) < Nth(S, k)
        /\ \A n \in S : Rank(S, n) \in 1..Cardinality(S) /\ Nth(S, Rank(S, n)) = n
    BY NthIs
  <1> DEFINE N(k) == CHOOSE e \in S : Readers!Cardinality({f \in S : f <= e}) = k
  <1>2. Readers!Ascending(S) = [n \in 1..Readers!Cardinality(S) |-> N(n)]
    BY Zenon DEF Readers!Ascending
  <1>3. \A n \in S : Readers!Cardinality({f \in S : f <= n}) = Rank(S, n)
    BY SameCountOfRows, Zenon DEF Rank
  <1>4. ASSUME NEW k \in 1..Cardinality(S)
        PROVE  N(k) = Nth(S, k)
    <2>1. Nth(S, k) \in S /\ Rank(S, Nth(S, k)) = k
      BY <1>1
    <2>2. N(k) \in S /\ Readers!Cardinality({f \in S : f <= N(k)}) = k
      BY <1>3, <2>1
    <2> HIDE DEF N
    <2>3. Rank(S, N(k)) = k
      BY <1>3, <2>2
    <2> QED BY <1>1, <2>2, <2>3
  <1> HIDE DEF N
  <1>5. Readers!Cardinality(S) = Cardinality(S)
    BY SameCountOfRows
  <1>6. PICK q : q = [n \in 1..Cardinality(S) |-> Nth(S, n)]
    OBVIOUS
  <1>7. Readers!Ascending(S) = q
    BY <1>2, <1>4, <1>5, <1>6
  <1>8. q \in Seq(S) /\ q \in Seq(Nat) /\ Len(q) = Cardinality(S) /\ DOMAIN q = 1..Cardinality(S)
    <2>1. \A k \in 1..Cardinality(S) : Nth(S, k) \in Nat
      BY <1>1
    <2> QED BY <1>1, <1>6, <2>1
  <1>9. {q[n] : n \in DOMAIN q} = S
    BY <1>1, <1>6, <1>8
  <1>10. Increasing(q)
    BY <1>1, <1>6, <1>8 DEF Increasing
  <1> QED BY <1>1, <1>6, <1>7, <1>8, <1>9, <1>10 DEF Readers!Elements

\* As many numbers come first in an increasing list as their place says.
LEMMA CountIs ==
    ASSUME NEW q \in Seq(Nat), Increasing(q), NEW n \in 0..Len(q)
    PROVE  \A T : T = {q[m] : m \in 1..n} => IsFiniteSet(T) /\ Cardinality(T) = n
  <1>1. SUFFICES ASSUME NEW T, T = {q[m] : m \in 1..n}
                 PROVE  IsFiniteSet(T) /\ Cardinality(T) = n
    OBVIOUS
  <1>2. PICK g : g = [m \in 1..n |-> q[m]]
    OBVIOUS
  <1>3. IsFiniteSet(1..n) /\ Cardinality(1..n) = n
    BY FS_Interval
  <1>4. g \in Surjection(1..n, T)
    BY <1>1, <1>2 DEF Surjection
  <1>5. \A i, j \in 1..n : g[i] = g[j] => i = j
    <2>1. ASSUME NEW i \in 1..n, NEW j \in 1..n, i < j
          PROVE  g[i] # g[j]
      <3>1. q[i] < q[j] /\ q[i] \in Nat /\ q[j] \in Nat
        BY <2>1 DEF Increasing
      <3> QED BY <1>2, <3>1
    <2> QED BY <2>1
  <1>6. g \in Injection(1..n, T)
    BY <1>4, <1>5 DEF Surjection, Injection, IsInjective
  <1> QED BY <1>3, <1>4, <1>6, FS_Surjection

\* An increasing list is its numbers in ascending order.
LEMMA IncreasingIs ==
    ASSUME NEW q \in Seq(Nat), Increasing(q)
    PROVE  q = Readers!Ascending(Readers!Elements(q))
  <1>1. PICK S : S = Readers!Elements(q)
    OBVIOUS
  <1>2. S = {q[m] : m \in 1..Len(q)} /\ S \in SUBSET Nat
    BY <1>1 DEF Readers!Elements
  <1>3. IsFiniteSet(S) /\ Cardinality(S) = Len(q)
    <2>1. Len(q) \in 0..Len(q)
      OBVIOUS
    <2> QED BY <1>2, <2>1, CountIs
  <1>4. /\ Readers!Ascending(S) \in Seq(S) /\ Len(Readers!Ascending(S)) = Cardinality(S)
        /\ \A k \in 1..Cardinality(S) : Readers!Ascending(S)[k] = Nth(S, k)
    BY <1>2, <1>3, AscendingIs
  <1>5. ASSUME NEW k \in 1..Len(q)
        PROVE  Nth(S, k) = q[k]
    <2>1. PICK A, B : A = {m \in S : m <= q[k]} /\ B = {q[m] : m \in 1..k}
      OBVIOUS
    <2>2. ASSUME NEW m \in 1..Len(q)
          PROVE  q[m] \in Nat /\ (q[m] <= q[k] <=> m <= k)
      <3>1. q[m] \in Nat /\ q[k] \in Nat /\ DOMAIN q = 1..Len(q)
        OBVIOUS
      <3>2. (m < k => q[m] < q[k]) /\ (k < m => q[k] < q[m])
        BY <3>1 DEF Increasing
      <3> QED BY <3>1, <3>2
    <2>3. \A x : x \in A <=> x \in B
      <3>1. ASSUME NEW x \in A
            PROVE  x \in B
        <4>1. PICK m \in 1..Len(q) : x = q[m] /\ q[m] <= q[k]
          BY <1>2, <2>1
        <4>2. m \in 1..k
          BY <2>2, <4>1
        <4> QED BY <2>1, <4>1, <4>2
      <3>2. ASSUME NEW x \in B
            PROVE  x \in A
        <4>1. PICK m \in 1..k : x = q[m]
          BY <2>1
        <4>2. m \in 1..Len(q) /\ q[m] <= q[k]
          BY <2>2
        <4> QED BY <1>2, <2>1, <4>1, <4>2
      <3> QED BY <3>1, <3>2
    <2>4. Cardinality(A) = k
      <3>1. A = B
        BY <2>3, Zenon
      <3>2. \A T : T = {q[m] : m \in 1..k} => Cardinality(T) = k
        BY CountIs
      <3>3. Cardinality(B) = k
        BY <2>1, <3>2, Zenon
      <3> QED BY <3>1, <3>3
    <2>5. q[k] \in S
      BY <1>2
    <2>6. Nth(S, Rank(S, q[k])) = q[k]
      BY <1>2, <1>3, <2>5, NthIs
    <2> QED BY <2>1, <2>4, <2>6 DEF Rank
  <1>6. q = [k \in 1..Len(q) |-> q[k]]
    OBVIOUS
  <1>7. Readers!Ascending(S) = [k \in 1..Len(q) |-> Readers!Ascending(S)[k]]
    BY <1>3, <1>4
  <1> QED BY <1>1, <1>3, <1>4, <1>5, <1>6, <1>7

\* What a page of the numbers of S is: those of T.
PageOf(p, T) ==
    /\ p \in Seq(Nat) /\ Increasing(p) /\ Readers!Elements(p) = T
    /\ Len(p) \in Nat /\ Len(p) = Cardinality(T)
    /\ p = <<>> <=> T = {}
    /\ p # <<>> => /\ p[1] \in T /\ p[Len(p)] \in T
                   /\ \A e \in T : p[1] <= e /\ e <= p[Len(p)]

\* The first and the last of an ascending list are its least and its greatest.
LEMMA EndsOfPage ==
    ASSUME NEW p \in Seq(Nat), Increasing(p)
    PROVE  /\ p = <<>> <=> Readers!Elements(p) = {}
           /\ p # <<>> => /\ p[1] \in Readers!Elements(p) /\ p[Len(p)] \in Readers!Elements(p)
                          /\ \A e \in Readers!Elements(p) : p[1] <= e /\ e <= p[Len(p)]
  <1>1. DOMAIN p = 1..Len(p) /\ Len(p) \in Nat /\ \A n \in 1..Len(p) : p[n] \in Nat
    OBVIOUS
  <1>2. CASE p = <<>>
    BY <1>2 DEF Readers!Elements
  <1>3. CASE p # <<>>
    <2>1. Len(p) >= 1
      BY <1>1, <1>3
    <2>2. \A n \in 1..Len(p) : p[1] <= p[n] /\ p[n] <= p[Len(p)]
      BY <1>1, <2>1 DEF Increasing
    <2>3. PICK S : S = {p[n] : n \in 1..Len(p)}
      OBVIOUS
    <2>4. /\ p[1] \in S /\ p[Len(p)] \in S
          /\ \A e \in S : p[1] <= e /\ e <= p[Len(p)]
      BY <1>1, <2>1, <2>2, <2>3
    <2>5. Readers!Elements(p) = S
      BY <1>1, <2>3 DEF Readers!Elements
    <2> QED BY <1>3, <2>4, <2>5
  <1> QED BY <1>2, <1>3

\* An ascending list of rows is what a page may hold.
LEMMA AscendingPage ==
    ASSUME NEW S \in SUBSET Nat, IsFiniteSet(S)
    PROVE  PageOf(Readers!Ascending(S), S)
  <1>1. PICK p : p = Readers!Ascending(S)
    OBVIOUS
  <1>2. /\ p \in Seq(Nat) /\ Len(p) = Cardinality(S) /\ Cardinality(S) \in Nat
        /\ Readers!Elements(p) = S /\ Increasing(p)
    BY <1>1, AscendingIs
  <1> QED BY <1>1, <1>2, EndsOfPage DEF PageOf

Few(T, limit) == Cardinality(T) < limit

\* The newest of the numbers of S: if they are fewer than the limit, they are all.
LEMMA NewestIs ==
    ASSUME NEW b \in Nat, NEW S \in SUBSET (1..b), NEW limit \in Nat \ {0}
    PROVE  \E T \in SUBSET S : /\ PageOf(Readers!Newest(limit, S), T)
                               /\ \A e \in T, f \in S : e < f => f \in T
                               /\ Few(T, limit) => \A e \in S : e \in T
  <1>1. PICK T : T = {e \in S : Cardinality({f \in S : f > e}) < limit}
    OBVIOUS
  <1>2. T \in SUBSET S /\ S \in SUBSET Nat /\ \A e \in S : e \in Nat /\ e <= b
    BY <1>1
  <1>3. IsFiniteSet(1..b)
    BY FS_Interval
  <1>4. IsFiniteSet(S)
    BY <1>3, FS_Subset
  <1>5. IsFiniteSet(T)
    BY <1>2, <1>4, FS_Subset
  <1>6. Readers!Newest(limit, S) = Readers!Ascending(T)
    <2>1. Readers!Newest(limit, S) =
              Readers!Ascending({e \in S : Readers!Cardinality({f \in S : f > e}) < limit})
      BY Zenon DEF Readers!Newest
    <2>2. {e \in S : Readers!Cardinality({f \in S : f > e}) < limit} = T
      BY <1>1, SameCountOfRows
    <2> QED BY <2>1, <2>2
  <1> DEFINE Above(e) == {f \in S : f > e}
  <1>7. \A e \in S : /\ Above(e) \in SUBSET S
                     /\ \A f \in S : f > e => Above(f) \in SUBSET Above(e)
    <2>1. ASSUME NEW e \in S, NEW f \in S, f > e, NEW g \in S, g > f
          PROVE  g > e
      BY <1>2, <2>1
    <2> QED BY <2>1
  <1> HIDE DEF Above
  <1>8. \A e \in S : IsFiniteSet(Above(e)) /\ Cardinality(Above(e)) \in Nat
    BY <1>4, <1>7, FS_Subset, FS_CardinalityType
  <1>9. \A e \in S : \A A \in SUBSET Above(e) : Cardinality(A) <= Cardinality(Above(e)) /\ Cardinality(A) \in Nat
    BY <1>8, FS_Subset, FS_CardinalityType
  <1>10. \A e \in S : e \in T <=> Cardinality(Above(e)) < limit
    BY <1>1 DEF Above
  <1>11. ASSUME NEW e \in T, NEW f \in S, f > e
         PROVE  f \in T
    BY <1>2, <1>7, <1>8, <1>9, <1>10, <1>11
  <1>12. ASSUME Cardinality(T) < limit, T # S
         PROVE  FALSE
    <2> DEFINE D == {b - e : e \in S \ T}
    <2>1. D \subseteq Nat /\ D # {}
      <3>1. \A e \in S : b - e \in Nat
        BY <1>2
      <3>2. \E e \in S : e \notin T
        BY <1>2, <1>12
      <3> QED BY <3>1, <3>2
    <2>2. PICK d \in D : \A c \in D : d <= c
      BY <2>1, Least
    <2>3. PICK e \in S \ T : d = b - e
      BY <2>2
    <2>4. ASSUME NEW f \in S \ T
          PROVE  f <= e
      <3>1. b - e <= b - f
        BY <2>2, <2>3
      <3> QED BY <1>2, <2>3, <3>1
    <2>5. Above(e) \in SUBSET T
      <3>1. ASSUME NEW f \in S, f > e
            PROVE  f \in T
        <4>1. ~(f <= e)
          BY <1>2, <2>3, <3>1
        <4> QED BY <2>4, <4>1
      <3> QED BY <3>1 DEF Above
    <2>6. Cardinality(Above(e)) <= Cardinality(T) /\ Cardinality(T) \in Nat
      BY <1>5, <2>5, FS_Subset, FS_CardinalityType
    <2>7. ~(Cardinality(Above(e)) < limit)
      BY <1>10, <2>3
    <2> QED BY <1>8, <1>12, <2>3, <2>6, <2>7
  <1>13. PageOf(Readers!Newest(limit, S), T)
    BY <1>2, <1>5, <1>6, AscendingPage
  <1> QED BY <1>2, <1>11, <1>12, <1>13 DEF Few

\* The first of the numbers of S.
LEMMA EarliestIs ==
    ASSUME NEW b \in Nat, NEW S \in SUBSET (1..b), NEW limit \in Nat \ {0}
    PROVE  \E T \in SUBSET S : /\ PageOf(Readers!First(limit, S), T)
                               /\ \A e \in T, f \in S : f < e => f \in T
  <1>1. PICK T : T = {e \in S : Cardinality({f \in S : f < e}) < limit}
    OBVIOUS
  <1>2. T \in SUBSET S /\ S \in SUBSET Nat /\ \A e \in S : e \in Nat
    BY <1>1
  <1>3. IsFiniteSet(1..b)
    BY FS_Interval
  <1>4. IsFiniteSet(S)
    BY <1>3, FS_Subset
  <1>5. IsFiniteSet(T)
    BY <1>2, <1>4, FS_Subset
  <1>6. Readers!First(limit, S) = Readers!Ascending(T)
    <2>1. Readers!First(limit, S) =
              Readers!Ascending({e \in S : Readers!Cardinality({f \in S : f < e}) < limit})
      BY Zenon DEF Readers!First
    <2>2. {e \in S : Readers!Cardinality({f \in S : f < e}) < limit} = T
      BY <1>1, SameCountOfRows
    <2> QED BY <2>1, <2>2
  <1> DEFINE Below(e) == {f \in S : f < e}
  <1>7. \A e \in S : /\ Below(e) \in SUBSET S
                     /\ \A f \in S : f < e => Below(f) \in SUBSET Below(e)
    <2>1. ASSUME NEW e \in S, NEW f \in S, f < e, NEW g \in S, g < f
          PROVE  g < e
      BY <1>2, <2>1
    <2> QED BY <2>1
  <1> HIDE DEF Below
  <1>8. \A e \in S : IsFiniteSet(Below(e)) /\ Cardinality(Below(e)) \in Nat
    BY <1>4, <1>7, FS_Subset, FS_CardinalityType
  <1>9. \A e \in S : \A A \in SUBSET Below(e) : Cardinality(A) <= Cardinality(Below(e)) /\ Cardinality(A) \in Nat
    BY <1>8, FS_Subset, FS_CardinalityType
  <1>10. \A e \in S : e \in T <=> Cardinality(Below(e)) < limit
    BY <1>1 DEF Below
  <1>11. ASSUME NEW e \in T, NEW f \in S, f < e
         PROVE  f \in T
    BY <1>2, <1>7, <1>8, <1>9, <1>10, <1>11
  <1>12. PageOf(Readers!First(limit, S), T)
    BY <1>2, <1>5, <1>6, AscendingPage
  <1> QED BY <1>2, <1>11, <1>12

\* The rows of a session that a query reads, in their order.
LEMMA LinesIs ==
    ASSUME NEW a \in Seq(Nat), NEW b \in Seq(Nat), Increasing(a), Increasing(b),
           \A i \in Readers!Elements(a), j \in Readers!Elements(b) : i < j
    PROVE  /\ a \o b \in Seq(Nat) /\ Increasing(a \o b)
           /\ Readers!Elements(a \o b) = Readers!Elements(a) \union Readers!Elements(b)
           /\ a # <<>> => a \o b # <<>> /\ (a \o b)[1] = a[1]
           /\ b # <<>> => a \o b # <<>> /\ (a \o b)[Len(a \o b)] = b[Len(b)]
           /\ a = <<>> => a \o b = b
           /\ b = <<>> => a \o b = a
  <1>1. PICK c : c = a \o b
    OBVIOUS
  <1>2. /\ c \in Seq(Nat) /\ Len(c) = Len(a) + Len(b) /\ Len(a) \in Nat /\ Len(b) \in Nat
        /\ DOMAIN c = 1..(Len(a) + Len(b)) /\ DOMAIN a = 1..Len(a) /\ DOMAIN b = 1..Len(b)
        /\ \A n \in 1..Len(a) : c[n] = a[n]
        /\ \A n \in 1..Len(b) : c[Len(a) + n] = b[n]
    BY <1>1
  <1>3. Readers!Elements(c) = Readers!Elements(a) \union Readers!Elements(b)
    <2>1. Context!Members(a \o b) = Context!Members(a) \union Context!Members(b)
      BY JoinedIs
    <2>2. \A q : Context!Members(q) = Readers!Elements(q)
      BY Zenon DEF Context!Members, Readers!Elements
    <2> QED BY <1>1, <2>1, <2>2
  <1>4. ASSUME NEW n \in DOMAIN c, n \notin DOMAIN a
        PROVE  n - Len(a) \in DOMAIN b /\ c[n] = b[n - Len(a)] /\ n > Len(a)
    <2>1. n - Len(a) \in 1..Len(b) /\ n = Len(a) + (n - Len(a))
      BY <1>2, <1>4
    <2> QED BY <1>2, <1>4, <2>1
  <1>5. ASSUME NEW m \in DOMAIN c, NEW n \in DOMAIN c, m < n
        PROVE  c[m] < c[n]
    <2>1. CASE n \in DOMAIN a
      <3>1. m \in DOMAIN a
        BY <1>2, <1>5, <2>1
      <3> QED BY <1>2, <1>5, <2>1, <3>1 DEF Increasing
    <2>2. CASE n \notin DOMAIN a /\ m \in DOMAIN a
      <3>1. PICK i \in DOMAIN a, j \in DOMAIN b : c[m] = a[i] /\ c[n] = b[j]
        BY <1>2, <1>4, <2>2
      <3>2. a[i] \in Readers!Elements(a) /\ b[j] \in Readers!Elements(b)
        BY DEF Readers!Elements
      <3> QED BY <3>1, <3>2
    <2>3. CASE n \notin DOMAIN a /\ m \notin DOMAIN a
      <3>1. PICK i \in DOMAIN b, j \in DOMAIN b :
                i = m - Len(a) /\ j = n - Len(a) /\ c[m] = b[i] /\ c[n] = b[j]
        BY <1>4, <2>3
      <3>2. i < j
        BY <1>2, <1>5, <3>1
      <3> QED BY <3>1, <3>2 DEF Increasing
    <2> QED BY <2>1, <2>2, <2>3
  <1>6. a # <<>> => c # <<>> /\ c[1] = a[1]
    BY <1>2
  <1>7. b # <<>> => c # <<>> /\ c[Len(c)] = b[Len(b)]
    BY <1>2
  <1>8. (a = <<>> => c = b) /\ (b = <<>> => c = a)
    BY <1>1
  <1> QED BY <1>1, <1>2, <1>3, <1>5, <1>6, <1>7, <1>8 DEF Increasing

\* The watched rows of a table; and the list that has them from one to another.
Of(r) == {e \in DOMAIN r : r[e] = Watched}
Whole(g, start, r) ==
    /\ g \in Seq(Nat) /\ Increasing(g) /\ start \in BOOLEAN
    /\ Readers!Elements(g) \subseteq Of(r)
    /\ g # <<>> => \A e \in Of(r) :
                      e \in Readers!Elements(g) <=> (start \/ g[1] <= e) /\ e <= g[Len(g)]

\* The ids of a session are ids of rows.
LEMMA OfIs ==
    ASSUME NEW r \in Seq(Session)
    PROVE  Of(r) \in SUBSET (1..Len(r)) /\ Len(r) \in Nat /\ \A e \in Of(r) : e \in Nat /\ e >= 1
  BY DEF Of

\* The page of a session just opened is whole (session_events).
LEMMA WholeOpened ==
    ASSUME NEW r \in Seq(Session)
    PROVE  Whole(Readers!Newest(PageSize, Of(r)), Len(Readers!Newest(PageSize, Of(r))) < PageSize, r)
  <1>1. PICK p : p = Readers!Newest(PageSize, Of(r))
    OBVIOUS
  <1>2. PICK T \in SUBSET Of(r) : /\ PageOf(p, T)
                                  /\ \A e \in T, f \in Of(r) : e < f => f \in T
                                  /\ Few(T, PageSize) => \A e \in Of(r) : e \in T
    <2>1. PICK b \in Nat : Of(r) \in SUBSET (1..b)
      BY <1>1, OfIs
    <2>2. PageSize \in Nat \ {0}
      BY ReadersAssumption
    <2>3. \E T \in SUBSET Of(r) :
              /\ PageOf(Readers!Newest(PageSize, Of(r)), T)
              /\ \A e \in T, f \in Of(r) : e < f => f \in T
              /\ Few(T, PageSize) => \A e \in Of(r) : e \in T
      BY <2>1, <2>2, NewestIs
    <2> QED BY <1>1, <2>3
  <1>3. /\ p \in Seq(Nat) /\ Increasing(p) /\ Readers!Elements(p) = T
        /\ Len(p) \in Nat /\ Len(p) = Cardinality(T)
        /\ p # <<>> => /\ p[1] \in T /\ p[Len(p)] \in T
                       /\ \A e \in T : p[1] <= e /\ e <= p[Len(p)]
    BY <1>2 DEF PageOf
  <1>4. ASSUME p # <<>>, NEW e \in Of(r)
        PROVE  e \in T <=> (Len(p) < PageSize \/ p[1] <= e) /\ e <= p[Len(p)]
    <2>1. PICK a : a = p[1] /\ a \in T
      BY <1>3, <1>4
    <2>2. e \in Nat /\ a \in Nat /\ a \in Of(r)
      BY <2>1, OfIs
    <2>3. a <= e => e \in T
      <3>1. CASE e = a
        BY <2>1, <3>1
      <3>2. CASE e > a
        BY <1>2, <2>1, <3>2
      <3> QED BY <2>2, <3>1, <3>2
    <2>4. Len(p) < PageSize => e \in T
      BY <1>2, <1>3, <1>4 DEF Few
    <2> QED BY <1>3, <1>4, <2>1, <2>3, <2>4
  <1> QED BY <1>1, <1>2, <1>3, <1>4 DEF Whole

\* So it is with the rows before it.
LEMMA WholeOlder ==
    ASSUME NEW r \in Seq(Session), NEW g, Whole(g, FALSE, r), g # <<>>,
           NEW p, p = Readers!Newest(PageSize, {e \in Of(r) : e < g[1]})
    PROVE  Whole(p \o g, Len(p) < PageSize, r)
  <1>1. PICK S : S = {e \in Of(r) : e < g[1]}
    OBVIOUS
  <1>2. PICK T \in SUBSET S : /\ PageOf(p, T)
                              /\ \A e \in T, f \in S : e < f => f \in T
                              /\ Few(T, PageSize) => \A e \in S : e \in T
    <2>1. PICK b \in Nat : S \in SUBSET (1..b)
      BY <1>1, OfIs
    <2>2. PageSize \in Nat \ {0}
      BY ReadersAssumption
    <2>3. \E T \in SUBSET S :
              /\ PageOf(Readers!Newest(PageSize, S), T)
              /\ \A e \in T, f \in S : e < f => f \in T
              /\ Few(T, PageSize) => \A e \in S : e \in T
      BY <2>1, <2>2, NewestIs
    <2> QED BY <1>1, <2>3
  <1>3. /\ p \in Seq(Nat) /\ Increasing(p) /\ Readers!Elements(p) = T
        /\ Len(p) \in Nat /\ Len(p) = Cardinality(T)
        /\ p # <<>> => /\ p[1] \in T /\ p[Len(p)] \in T
                       /\ \A e \in T : p[1] <= e /\ e <= p[Len(p)]
        /\ p = <<>> <=> T = {}
    BY <1>2 DEF PageOf
  <1>4. PICK G : G = Readers!Elements(g)
    OBVIOUS
  <1>5. /\ g \in Seq(Nat) /\ Increasing(g) /\ G \subseteq Of(r)
        /\ \A e \in Of(r) : e \in G <=> g[1] <= e /\ e <= g[Len(g)]
    BY <1>4 DEF Whole
  <1>6. g[1] \in G /\ g[Len(g)] \in G /\ \A e \in G : g[1] <= e /\ e <= g[Len(g)]
    BY <1>4, <1>5, EndsOfPage
  <1>7. \A e \in Of(r) : e \in Nat
    BY OfIs
  <1>8. \A i \in T, j \in G : i < j
    BY <1>1, <1>2, <1>5, <1>6, <1>7
  <1>9. PICK c : c = p \o g
    OBVIOUS
  <1>10. /\ c \in Seq(Nat) /\ Increasing(c) /\ Readers!Elements(c) = T \union G
         /\ p # <<>> => c[1] = p[1]
         /\ p = <<>> => c = g
         /\ c # <<>> /\ c[Len(c)] = g[Len(g)]
    BY <1>3, <1>4, <1>5, <1>8, <1>9, LinesIs
  <1>11. ASSUME NEW e \in Of(r)
         PROVE  e \in T \union G <=> (Len(p) < PageSize \/ c[1] <= e) /\ e <= c[Len(c)]
    <2>1. PICK a \in Nat, z \in Nat : a = g[1] /\ z = g[Len(g)] /\ a <= z
      BY <1>5, <1>6, <1>7
    <2>2. e \in Nat /\ (e \in G <=> a <= e /\ e <= z) /\ (e \in S <=> e < a)
      BY <1>1, <1>5, <1>7, <2>1
    <2>3. CASE e \in S
      <3>1. e <= z /\ e \notin G
        BY <2>1, <2>2, <2>3
      <3>2. CASE p = <<>>
        <4>1. e \notin T /\ Len(p) = 0 /\ Cardinality(T) < PageSize
          BY <1>3, <3>2, ReadersAssumption
        <4> QED BY <1>2, <2>3, <4>1 DEF Few
      <3>3. CASE p # <<>>
        <4>1. PICK b : b = p[1] /\ b \in T /\ c[1] = b
          BY <1>3, <1>10, <3>3
        <4>2. b \in Nat /\ (e \in T => b <= e)
          BY <1>1, <1>2, <1>3, <1>7, <3>3, <4>1
        <4>3. b <= e => e \in T
          <5>1. CASE e = b
            BY <4>1, <5>1
          <5>2. CASE e > b
            BY <1>2, <2>3, <4>1, <5>2
          <5> QED BY <2>2, <4>2, <5>1, <5>2
        <4>4. Len(p) < PageSize => e \in T
          BY <1>2, <1>3, <2>3 DEF Few
        <4> QED BY <1>10, <2>1, <3>1, <4>1, <4>2, <4>3, <4>4
      <3> QED BY <3>2, <3>3
    <2>4. CASE e \notin S
      <3>1. e \notin T /\ a <= e
        BY <1>2, <2>1, <2>2, <2>4
      <3>2. c[1] <= e
        <4>1. CASE p = <<>>
          BY <1>10, <2>1, <3>1, <4>1
        <4>2. CASE p # <<>>
          <5>1. PICK b : b = p[1] /\ b \in T /\ c[1] = b
            BY <1>3, <1>10, <4>2
          <5>2. b \in Nat /\ b < a
            BY <1>1, <1>2, <1>7, <2>1, <5>1
          <5> QED BY <2>1, <2>2, <3>1, <5>1, <5>2
        <4> QED BY <4>1, <4>2
      <3> QED BY <1>10, <2>1, <2>2, <3>1, <3>2
    <2> QED BY <2>3, <2>4
  <1>12. T \union G \subseteq Of(r)
    BY <1>1, <1>2, <1>5
  <1>13. Whole(c, Len(p) < PageSize, r)
    BY <1>3, <1>10, <1>11, <1>12, ReadersAssumption DEF Whole
  <1> QED BY <1>9, <1>13

\* So it is with the rows after it.
LEMMA WholeNewer ==
    ASSUME NEW r \in Seq(Session), NEW g, NEW start, Whole(g, start, r), g # <<>>,
           NEW p, p = Readers!First(PageSize, {e \in Of(r) : e > g[Len(g)]})
    PROVE  Whole(g \o p, start, r)
  <1>1. PICK S : S = {e \in Of(r) : e > g[Len(g)]}
    OBVIOUS
  <1>2. PICK T \in SUBSET S : PageOf(p, T) /\ \A e \in T, f \in S : f < e => f \in T
    <2>1. PICK b \in Nat : S \in SUBSET (1..b)
      BY <1>1, OfIs
    <2>2. PageSize \in Nat \ {0}
      BY ReadersAssumption
    <2>3. \E T \in SUBSET S :
              /\ PageOf(Readers!First(PageSize, S), T)
              /\ \A e \in T, f \in S : f < e => f \in T
      BY <2>1, <2>2, EarliestIs
    <2> QED BY <1>1, <2>3
  <1>3. /\ p \in Seq(Nat) /\ Increasing(p) /\ Readers!Elements(p) = T
        /\ p # <<>> => /\ p[Len(p)] \in T
                       /\ \A e \in T : e <= p[Len(p)]
        /\ p = <<>> <=> T = {}
    BY <1>2 DEF PageOf
  <1>4. PICK G : G = Readers!Elements(g)
    OBVIOUS
  <1>5. /\ g \in Seq(Nat) /\ Increasing(g) /\ G \subseteq Of(r) /\ start \in BOOLEAN
        /\ \A e \in Of(r) : e \in G <=> (start \/ g[1] <= e) /\ e <= g[Len(g)]
    BY <1>4 DEF Whole
  <1>6. g[1] \in G /\ g[Len(g)] \in G /\ \A e \in G : g[1] <= e /\ e <= g[Len(g)]
    BY <1>4, <1>5, EndsOfPage
  <1>7. \A e \in Of(r) : e \in Nat
    BY OfIs
  <1>8. \A i \in G, j \in T : i < j
    BY <1>1, <1>2, <1>5, <1>6, <1>7
  <1>9. PICK c : c = g \o p
    OBVIOUS
  <1>10. /\ c \in Seq(Nat) /\ Increasing(c) /\ Readers!Elements(c) = G \union T
         /\ c # <<>> /\ c[1] = g[1]
         /\ p # <<>> => c[Len(c)] = p[Len(p)]
         /\ p = <<>> => c = g
    BY <1>3, <1>4, <1>5, <1>8, <1>9, LinesIs
  <1>11. ASSUME NEW e \in Of(r)
         PROVE  e \in G \union T <=> (start \/ c[1] <= e) /\ e <= c[Len(c)]
    <2>1. PICK a \in Nat, z \in Nat : a = g[1] /\ z = g[Len(g)] /\ a <= z
      BY <1>5, <1>6, <1>7
    <2>2. e \in Nat /\ (e \in G <=> (start \/ a <= e) /\ e <= z) /\ (e \in S <=> e > z)
      BY <1>1, <1>5, <1>7, <2>1
    <2>3. CASE p = <<>>
      BY <1>3, <1>10, <2>1, <2>2, <2>3
    <2>4. CASE p # <<>>
      <3>1. PICK b : b = p[Len(p)] /\ b \in T /\ c[Len(c)] = b
        BY <1>3, <1>10, <2>4
      <3>2. b \in Nat /\ b > z /\ (e \in T => e <= b)
        BY <1>1, <1>2, <1>3, <1>7, <2>1, <2>4, <3>1
      <3>3. e \in S /\ e <= b => e \in T
        <4>1. CASE e = b
          BY <3>1, <4>1
        <4>2. CASE e < b
          BY <1>2, <3>1, <4>2
        <4> QED BY <2>2, <3>2, <4>1, <4>2
      <3>4. e \in T => e \in S
        BY <1>2
      <3> QED BY <1>10, <2>1, <2>2, <3>1, <3>2, <3>3, <3>4
    <2> QED BY <2>3, <2>4
  <1>12. T \union G \subseteq Of(r)
    BY <1>1, <1>2, <1>5
  <1>13. Whole(c, start, r)
    BY <1>5, <1>10, <1>11, <1>12 DEF Whole
  <1> QED BY <1>9, <1>13

\* A row appended later is above every page.
LEMMA WholeStays ==
    ASSUME NEW r \in Seq(Session), NEW g, NEW start, Whole(g, start, r), NEW s \in Session
    PROVE  Whole(g, start, Append(r, s))
  <1>1. PICK t : t = Append(r, s)
    OBVIOUS
  <1>2. /\ t \in Seq(Session) /\ Len(t) = Len(r) + 1 /\ Len(r) \in Nat /\ DOMAIN r = 1..Len(r)
        /\ DOMAIN t = 1..(Len(r) + 1) /\ \A n \in 1..Len(r) : t[n] = r[n]
    BY <1>1
  <1>3. \A e \in Of(t) : e \in Nat /\ (e \in Of(r) \/ e > Len(r))
    BY <1>2 DEF Of
  <1>4. Of(r) \subseteq Of(t)
    BY <1>2 DEF Of
  <1>5. ASSUME g # <<>>, NEW e \in Of(t)
        PROVE  e \in Readers!Elements(g) <=> (start \/ g[1] <= e) /\ e <= g[Len(g)]
    <2>1. CASE e \in Of(r)
      BY <1>5, <2>1 DEF Whole
    <2>2. CASE e \notin Of(r)
      <3>1. g[Len(g)] \in Readers!Elements(g)
        BY <1>5, EndsOfPage DEF Whole
      <3>2. g[Len(g)] \in 1..Len(r)
        BY <3>1, OfIs DEF Whole
      <3>3. ~(e <= g[Len(g)])
        BY <1>2, <1>3, <2>2, <3>2
      <3> QED BY <2>2, <3>3 DEF Whole
    <2> QED BY <2>1, <2>2
  <1>6. Whole(g, start, t)
    BY <1>4, <1>5 DEF Whole
  <1> QED BY <1>1, <1>6
------------------------------------------------------------------------------
(* The readers                                                                 *)

SubType == [pc : {"none", "counted", "registered", "reading"}, cursor : Nat, replay : Seq(Nat),
            last : Nat, live : Seq(Nat), lagged : BOOLEAN]
ReadersTypes ==
    /\ rows \in Seq(Session) /\ flying \subseteq 1..Len(rows)
    /\ sub \in SubType
    /\ page = [got |-> page.got, start |-> page.start]
PagesKept == Whole(page.got, page.start, rows)

\* What is to come of the events after x.last: they are published or in the channel x.live;
\* those up to it are told (t), lost (s) or in the replay.
Covers(x, n, f, t, s) ==
    /\ Readers!Elements(x.live) \subseteq 1..n /\ x.cursor <= n
    /\ x.pc = "reading" =>
          /\ x.last <= n /\ \A e \in Readers!Elements(x.replay) : e <= x.last
          /\ \A e \in 1..n : e > x.cursor =>
                \/ e \in t \union Readers!Elements(x.replay) \union s
                \/ e \in f /\ e > x.last
                \/ e \in Readers!Elements(x.live) /\ e > x.last
SubscriberKept == Covers(sub, Len(rows), flying, told, skipped)
ReadersInv == ReadersTypes /\ PagesKept /\ SubscriberKept
ReadersStep == [Readers!Next]_(Readers!vars)

\* Nobody reads at the start.
LEMMA ReadersInit == Readers!Init => ReadersInv
  <1> SUFFICES ASSUME Readers!Init PROVE ReadersInv
    OBVIOUS
  <1>1. Readers!Elements(<<>>) = {} /\ Increasing(<<>>) /\ <<>> \in Seq(Nat)
    BY DEF Readers!Elements, Increasing
  <1>2. ReadersTypes
    BY DEF Readers!Init, Readers!NewSub, ReadersTypes, SubType
  <1>3. PagesKept
    BY <1>1 DEF Readers!Init, PagesKept, Whole
  <1>4. SubscriberKept
    BY <1>1 DEF Readers!Init, Readers!NewSub, SubscriberKept, Covers
  <1> QED BY <1>2, <1>3, <1>4 DEF ReadersInv

\* The queries of a device.
LEMMA QueriesAre ==
    ASSUME rows \in Seq(Session)
    PROVE  /\ Readers!session_events(Watched, -1, PageSize) = Readers!Newest(PageSize, Of(rows))
           /\ \A n \in Nat \ {0} :
                 /\ Readers!session_events(Watched, -n - 1, PageSize) =
                        Readers!Newest(PageSize, {e \in Of(rows) : e < n})
                 /\ Readers!session_events(Watched, n, PageSize) =
                        Readers!First(PageSize, {e \in Of(rows) : e > n})
  <1>1. Readers!RowLimit(PageSize) = PageSize /\ PageSize \in Nat
    BY ReadersAssumption DEF Readers!RowLimit
  <1>2. {e \in Readers!Id : rows[e] = Watched /\ (0 > 0 => e < 0)} = Of(rows)
    BY DEF Readers!Id, Of
  <1>3. Readers!session_events(Watched, -1, PageSize) = Readers!query_before(Watched, 0, PageSize)
    <2>1. PICK m \in Int : m = -1
      OBVIOUS
    <2>2. m < 0 /\ -m - 1 = 0
      <3>1. m + 1 = 0
        BY <2>1
      <3> QED BY <3>1
    <2>3. Readers!session_events(Watched, m, PageSize) = Readers!query_before(Watched, -m - 1, PageSize)
      BY <2>2 DEF Readers!session_events
    <2> QED BY <2>1, <2>2, <2>3
  <1>4. Readers!query_before(Watched, 0, PageSize) = Readers!Newest(PageSize, Of(rows))
    BY <1>1, <1>2 DEF Readers!query_before
  <1>5. ASSUME NEW n \in Nat \ {0}
        PROVE  /\ Readers!session_events(Watched, -n - 1, PageSize) =
                      Readers!Newest(PageSize, {e \in Of(rows) : e < n})
               /\ Readers!session_events(Watched, n, PageSize) =
                      Readers!First(PageSize, {e \in Of(rows) : e > n})
    <2>1. -n - 1 < 0 /\ -(-n - 1) - 1 = n /\ ~(n < 0) /\ n > 0
      OBVIOUS
    <2>2. Readers!session_events(Watched, -n - 1, PageSize) = Readers!query_before(Watched, n, PageSize)
      BY <2>1 DEF Readers!session_events
    <2>3. Readers!session_events(Watched, n, PageSize) = Readers!query(Watched, n, PageSize)
      BY <2>1 DEF Readers!session_events
    <2>4. {e \in Readers!Id : rows[e] = Watched /\ (n > 0 => e < n)} = {e \in Of(rows) : e < n}
      BY <2>1 DEF Readers!Id, Of
    <2>5. {e \in Readers!Id : rows[e] = Watched /\ e > n} = {e \in Of(rows) : e > n}
      BY DEF Readers!Id, Of
    <2> QED BY <1>1, <2>2, <2>3, <2>4, <2>5 DEF Readers!query_before, Readers!query
  <1> QED BY <1>3, <1>4, <1>5

\* Every step keeps the pages whole.
LEMMA PagesKeptStays ==
    ASSUME ReadersTypes, PagesKept, ReadersStep
    PROVE  PagesKept' /\ page' = [got |-> page'.got, start |-> page'.start]
  <1>1. PICK g, start, r : g = page.got /\ start = page.start /\ r = rows
    OBVIOUS
  <1>2. r \in Seq(Session) /\ Whole(g, start, r)
    BY <1>1 DEF ReadersTypes, PagesKept
  <1>3. CASE page' = page /\ rows' = rows
    BY <1>3 DEF ReadersTypes, PagesKept
  <1>4. ASSUME NEW s \in Session, Readers!append_blocking(s)
        PROVE  PagesKept' /\ page' = [got |-> page'.got, start |-> page'.start]
    <2>1. page' = page /\ rows' = Append(r, s)
      BY <1>1, <1>4 DEF Readers!append_blocking
    <2>2. Whole(g, start, Append(r, s))
      BY <1>2, WholeStays
    <2> QED BY <1>1, <2>1, <2>2 DEF ReadersTypes, PagesKept
  <1>5. ASSUME NEW h, NEW b, page' = [got |-> h, start |-> b], rows' = rows, Whole(h, b, r)
        PROVE  PagesKept' /\ page' = [got |-> page'.got, start |-> page'.start]
    <2>1. page'.got = h /\ page'.start = b /\ rows' = r
      BY <1>1, <1>5
    <2> QED BY <1>5, <2>1 DEF PagesKept
  <1>6. CASE Readers!open_session
    <2>1. PICK p : p = Readers!Newest(PageSize, Of(r))
      OBVIOUS
    <2>2. page' = [got |-> p, start |-> Len(p) < PageSize] /\ rows' = rows
      BY <1>1, <1>2, <1>6, <2>1, QueriesAre DEF Readers!open_session
    <2>3. Whole(p, Len(p) < PageSize, r)
      BY <1>2, <2>1, WholeOpened
    <2> QED BY <1>5, <2>2, <2>3
  <1>7. ASSUME g # <<>>
        PROVE  g[1] \in Nat \ {0} /\ g[Len(g)] \in Nat \ {0}
    <2>1. g[1] \in Of(r) /\ g[Len(g)] \in Of(r)
      BY <1>2, <1>7, EndsOfPage DEF Whole
    <2> QED BY <1>2, <2>1, OfIs
  <1>8. CASE Readers!older
    <2>1. g # <<>> /\ ~start
      BY <1>1, <1>8 DEF Readers!older, Readers!Read
    <2>2. PICK n \in Nat \ {0} : n = g[1]
      BY <1>7, <2>1
    <2>3. PICK p : p = Readers!Newest(PageSize, {e \in Of(r) : e < g[1]})
      OBVIOUS
    <2>4. Readers!session_events(Watched, -n - 1, PageSize) = p
      BY <1>1, <1>2, <2>2, <2>3, QueriesAre
    <2>5. page' = [got |-> p \o g, start |-> Len(p) < PageSize] /\ rows' = rows
      BY <1>1, <1>8, <2>2, <2>4 DEF Readers!older
    <2>6. Whole(g, FALSE, r)
      BY <1>2, <2>1 DEF Whole
    <2>7. Whole(p \o g, Len(p) < PageSize, r)
      BY <1>2, <2>1, <2>3, <2>6, WholeOlder
    <2> QED BY <1>5, <2>5, <2>7
  <1>9. CASE Readers!newer
    <2>1. g # <<>>
      BY <1>1, <1>9 DEF Readers!newer, Readers!Read
    <2>2. PICK n \in Nat \ {0} : n = g[Len(g)]
      BY <1>7, <2>1
    <2>3. PICK p : p = Readers!First(PageSize, {e \in Of(r) : e > g[Len(g)]})
      OBVIOUS
    <2>4. Readers!session_events(Watched, n, PageSize) = p
      BY <1>1, <1>2, <2>2, <2>3, QueriesAre
    <2>5. page' = [page EXCEPT !.got = g \o p] /\ rows' = rows
      BY <1>1, <1>9, <2>2, <2>4 DEF Readers!newer
    <2>6. page' = [got |-> g \o p, start |-> start]
      BY <1>1, <2>5 DEF ReadersTypes
    <2>7. Whole(g \o p, start, r)
      BY <1>2, <2>1, <2>3, WholeNewer
    <2> QED BY <1>5, <2>5, <2>6, <2>7
  <1>10. ASSUME NEW e \in flying, Readers!publish_live(e)
         PROVE  page' = page /\ rows' = rows
    BY <1>10 DEF Readers!publish_live
  <1>11. ASSUME Readers!count \/ Readers!subscribe \/ Readers!replay \/ Readers!recv_or_lag
                  \/ Readers!cancelled
         PROVE  page' = page /\ rows' = rows
    BY <1>11 DEF Readers!count, Readers!subscribe, Readers!replay, Readers!Replayed,
                 Readers!recv_or_lag, Readers!cancelled
  <1> QED BY <1>3, <1>4, <1>6, <1>8, <1>9, <1>10, <1>11
             DEF ReadersStep, Readers!vars, Readers!Next

------------------------------------------------------------------------------
(* The subscription                                                            *)

\* The greatest id of a list is one of it and above the others.
LEMMA LargestIs ==
    ASSUME NEW n \in Nat, NEW S \in SUBSET (0..n), NEW low \in 0..n
    PROVE  /\ Readers!Largest(S, low) \in S \union {low}
           /\ \A e \in S \union {low} : e <= Readers!Largest(S, low)
  <1> DEFINE T == S \union {low}
             D == {n - e : e \in T}
  <1>1. D \subseteq Nat /\ D # {} /\ \A e \in T : e \in Nat
    OBVIOUS
  <1>2. PICK d \in D : \A c \in D : d <= c
    BY <1>1, Least
  <1>3. PICK m \in T : d = n - m
    BY <1>2
  <1>4. ASSUME NEW e \in T
        PROVE  e <= m
    <2>1. n - e \in D
      OBVIOUS
    <2>2. n - m <= n - e
      BY <1>2, <1>3, <2>1
    <2>3. e \in Nat /\ m \in Nat
      BY <1>1
    <2> HIDE DEF D, T
    <2> QED BY <2>2, <2>3
  <1>5. Readers!Largest(S, low) = CHOOSE k \in T : \A e \in T : e <= k
    <2>1. PICK U : U = S \union {low}
      OBVIOUS
    <2>2. Readers!Largest(S, low) = CHOOSE k \in U : \A e \in U : e <= k
      BY <2>1, Zenon DEF Readers!Largest
    <2> QED BY <2>1, <2>2
  <1> HIDE DEF T
  <1>6. Readers!Largest(S, low) \in T /\ \A e \in T : e <= Readers!Largest(S, low)
    BY <1>3, <1>4, <1>5
  <1> QED BY <1>6 DEF T

\* The elements of a list when one comes and when the first goes.
LEMMA ElementsAre ==
    ASSUME NEW q \in Seq(Nat)
    PROVE  /\ \A e \in Nat : /\ Append(q, e) \in Seq(Nat)
                             /\ Readers!Elements(Append(q, e)) = Readers!Elements(q) \union {e}
           /\ q # <<>> => /\ Tail(q) \in Seq(Nat) /\ Head(q) \in Nat /\ Head(q) \in Readers!Elements(q)
                          /\ Readers!Elements(q) = {Head(q)} \union Readers!Elements(Tail(q))
  <1>1. DOMAIN q = 1..Len(q) /\ Len(q) \in Nat
    OBVIOUS
  <1>2. ASSUME NEW e \in Nat
        PROVE  /\ Append(q, e) \in Seq(Nat)
               /\ Readers!Elements(Append(q, e)) = Readers!Elements(q) \union {e}
    <2>1. PICK t : t = Append(q, e)
      OBVIOUS
    <2>2. /\ t \in Seq(Nat) /\ DOMAIN t = 1..(Len(q) + 1) /\ t[Len(q) + 1] = e
          /\ \A n \in 1..Len(q) : t[n] = q[n]
      BY <2>1
    <2>3. {t[n] : n \in DOMAIN t} = {q[n] : n \in DOMAIN q} \union {e}
      BY <1>1, <2>2
    <2> QED BY <2>1, <2>2, <2>3 DEF Readers!Elements
  <1>3. ASSUME q # <<>>
        PROVE  /\ Tail(q) \in Seq(Nat) /\ Head(q) \in Nat /\ Head(q) \in Readers!Elements(q)
               /\ Readers!Elements(q) = {Head(q)} \union Readers!Elements(Tail(q))
    <2>1. PICK t, h : t = Tail(q) /\ h = Head(q)
      OBVIOUS
    <2>2. /\ t \in Seq(Nat) /\ DOMAIN t = 1..(Len(q) - 1) /\ Len(q) >= 1 /\ h = q[1] /\ h \in Nat
          /\ \A n \in 1..(Len(q) - 1) : t[n] = q[n + 1]
      BY <1>3, <2>1
    <2>3. \A n \in 1..Len(q) : n = 1 \/ (n - 1 \in DOMAIN t /\ q[n] = t[n - 1])
      BY <1>1, <2>2
    <2>4. \A n \in DOMAIN t : n + 1 \in 1..Len(q) /\ t[n] = q[n + 1]
      BY <1>1, <2>2
    <2>5. PICK Q, R : Q = {q[n] : n \in DOMAIN q} /\ R = {t[n] : n \in DOMAIN t}
      OBVIOUS
    <2>6. ASSUME NEW x \in Q
          PROVE  x = h \/ x \in R
      <3>1. PICK n \in DOMAIN q : x = q[n]
        BY <2>5
      <3>2. n = 1 \/ (n - 1 \in DOMAIN t /\ x = t[n - 1])
        BY <1>1, <2>3, <3>1
      <3>3. CASE n = 1
        BY <2>2, <3>1, <3>3
      <3>4. CASE n - 1 \in DOMAIN t /\ x = t[n - 1]
        BY <2>5, <3>4
      <3> QED BY <3>2, <3>3, <3>4
    <2>7. h \in Q /\ \A x \in R : x \in Q
      <3>1. 1 \in DOMAIN q
        BY <1>1, <2>2
      <3>2. h \in Q
        BY <2>2, <2>5, <3>1
      <3>3. ASSUME NEW x \in R
            PROVE  x \in Q
        <4>1. PICK n \in DOMAIN t : x = t[n]
          BY <2>5
        <4>2. n + 1 \in DOMAIN q /\ x = q[n + 1]
          BY <1>1, <2>4, <4>1
        <4> QED BY <2>5, <4>2
      <3> QED BY <3>2, <3>3
    <2>8. Q = {h} \union R
      BY <2>6, <2>7
    <2>9. Readers!Elements(q) = Q /\ Readers!Elements(t) = R
      BY <2>5, Zenon DEF Readers!Elements
    <2> QED BY <2>1, <2>2, <2>7, <2>8, <2>9
  <1> QED BY <1>2, <1>3

\* Every step keeps the subscriber told (subscribe, the channel, the recovery from a lag).
LEMMA SubscriberStays ==
    ASSUME ReadersTypes, SubscriberKept, ReadersStep
    PROVE  /\ rows' \in Seq(Session) /\ flying' \subseteq 1..Len(rows') /\ sub' \in SubType
           /\ SubscriberKept'
  <1>1. PICK x, n, f, t, s : x = sub /\ n = Len(rows) /\ f = flying /\ t = told /\ s = skipped
    OBVIOUS
  <1>2. /\ rows \in Seq(Session) /\ n \in Nat /\ f \subseteq 1..n /\ x \in SubType
        /\ DOMAIN rows = 1..n /\ Covers(x, n, f, t, s)
    BY <1>1 DEF ReadersTypes, SubscriberKept
  <1>3. /\ x.live \in Seq(Nat) /\ x.replay \in Seq(Nat) /\ x.last \in Nat /\ x.cursor \in Nat
        /\ x.lagged \in BOOLEAN
    BY <1>2 DEF SubType
  <1> DEFINE Goal == /\ rows' \in Seq(Session) /\ flying' \subseteq 1..Len(rows') /\ sub' \in SubType
                     /\ SubscriberKept'
  <1>4. ASSUME rows' = rows, NEW g, flying' = g, g \subseteq 1..n, NEW y \in SubType, sub' = y,
               NEW t2, told' = t2, NEW s2, skipped' = s2, Covers(y, n, g, t2, s2)
        PROVE  Goal
    <2>1. Len(rows') = n
      BY <1>1, <1>4
    <2> QED BY <1>2, <1>4, <2>1 DEF SubscriberKept
  <1>5. ASSUME NEW z \in Session, Readers!append_blocking(z)
        PROVE  Goal
    <2>1. PICK r : r = Append(rows, z)
      OBVIOUS
    <2>2. r \in Seq(Session) /\ Len(r) = n + 1
      BY <1>1, <1>2, <2>1
    <2>3. /\ rows' = r /\ flying' = f \union {n + 1} /\ sub' = x /\ told' = t /\ skipped' = s
      BY <1>1, <1>5, <2>1 DEF Readers!append_blocking, Readers!watch
    <2>4. f \union {n + 1} \subseteq 1..(n + 1)
      BY <1>2
    <2>5. Covers(x, n + 1, f \union {n + 1}, t, s)
      <3>1. Readers!Elements(x.live) \subseteq 1..(n + 1) /\ x.cursor <= n + 1
        BY <1>2, <1>3 DEF Covers
      <3>2. ASSUME x.pc = "reading"
            PROVE  /\ x.last <= n + 1 /\ \A e \in Readers!Elements(x.replay) : e <= x.last
                   /\ \A e \in 1..(n + 1) : e > x.cursor =>
                         \/ e \in t \union Readers!Elements(x.replay) \union s
                         \/ e \in f \union {n + 1} /\ e > x.last
                         \/ e \in Readers!Elements(x.live) /\ e > x.last
        <4>1. x.last <= n /\ \A e \in Readers!Elements(x.replay) : e <= x.last
          BY <1>2, <3>2 DEF Covers
        <4>2. ASSUME NEW e \in 1..(n + 1), e > x.cursor
              PROVE  \/ e \in t \union Readers!Elements(x.replay) \union s
                     \/ e \in f \union {n + 1} /\ e > x.last
                     \/ e \in Readers!Elements(x.live) /\ e > x.last
          <5>1. CASE e = n + 1
            BY <1>2, <1>3, <4>1, <5>1
          <5>2. CASE e # n + 1
            <6>1. e \in 1..n
              BY <1>2, <5>2
            <6> QED BY <1>2, <3>2, <4>2, <6>1 DEF Covers
          <5> QED BY <5>1, <5>2
        <4> QED BY <1>2, <1>3, <4>1, <4>2
      <3> QED BY <3>1, <3>2 DEF Covers
    <2>6. Len(rows') = n + 1
      BY <2>2, <2>3
    <2>7. Covers(sub', Len(rows'), flying', told', skipped')
      BY <2>3, <2>5, <2>6
    <2> QED BY <1>2, <2>2, <2>3, <2>4, <2>6, <2>7 DEF SubscriberKept
  <1>6. CASE Readers!open_session \/ Readers!older \/ Readers!newer \/ UNCHANGED Readers!vars
    BY <1>1, <1>2, <1>4, <1>6
       DEF Readers!open_session, Readers!older, Readers!newer, Readers!watch,
                                  Readers!vars
  <1>7. ASSUME NEW e \in flying, Readers!publish_live(e)
        PROVE  Goal
    <2>1. e \in f /\ e \in Nat /\ e \in 1..n /\ f \ {e} \subseteq 1..n
      BY <1>1, <1>2, <1>7
    <2>2. rows' = rows /\ flying' = f \ {e} /\ told' = t
      BY <1>1, <1>7 DEF Readers!publish_live
    <2>3. CASE x.pc \in {"none", "counted"}
      <3>1. sub' = x /\ skipped' = s
        BY <1>1, <1>7, <2>3 DEF Readers!publish_live
      <3>2. Covers(x, n, f \ {e}, t, s)
        BY <1>2, <2>3 DEF Covers
      <3> QED BY <1>2, <1>4, <2>1, <2>2, <3>1, <3>2
    <2>4. CASE x.pc \notin {"none", "counted"} /\ Len(x.live) < Capacity
      <3>1. PICK l : l = Append(x.live, e)
        OBVIOUS
      <3>2. PICK y : y = [x EXCEPT !.live = l]
        OBVIOUS
      <3>3. sub' = y /\ skipped' = s
        BY <1>1, <1>7, <2>4, <3>1, <3>2 DEF Readers!publish_live
      <3>4. l \in Seq(Nat) /\ Readers!Elements(l) = Readers!Elements(x.live) \union {e}
        BY <1>3, <2>1, <3>1, ElementsAre
      <3>5. /\ y \in SubType /\ y.pc = x.pc /\ y.cursor = x.cursor /\ y.replay = x.replay
            /\ y.last = x.last /\ y.live = l
        BY <1>2, <3>2, <3>4 DEF SubType
      <3>6. Covers(y, n, f \ {e}, t, s)
        BY <1>2, <2>1, <3>4, <3>5 DEF Covers
      <3> QED BY <1>4, <2>1, <2>2, <3>3, <3>5, <3>6
    <2>5. CASE x.pc \notin {"none", "counted"} /\ ~(Len(x.live) < Capacity)
      <3>1. x.live # <<>>
        BY <1>3, <2>5, ReadersAssumption
      <3>2. PICK h, q, l : h = Head(x.live) /\ q = Tail(x.live) /\ l = Append(q, e)
        OBVIOUS
      <3>3. PICK z : z = [x EXCEPT !.live = l]
        OBVIOUS
      <3>4. PICK y : y = [z EXCEPT !.lagged = TRUE]
        OBVIOUS
      <3>5. sub' = y /\ skipped' = s \union {h}
        BY <1>1, <1>7, <2>5, <3>2, <3>3, <3>4 DEF Readers!publish_live
      <3>6. q \in Seq(Nat) /\ Readers!Elements(x.live) = {h} \union Readers!Elements(q)
        BY <1>3, <3>1, <3>2, ElementsAre
      <3>7. l \in Seq(Nat) /\ Readers!Elements(l) = Readers!Elements(q) \union {e}
        BY <2>1, <3>2, <3>6, ElementsAre
      <3>8. /\ z \in SubType /\ z.pc = x.pc /\ z.cursor = x.cursor /\ z.replay = x.replay
            /\ z.last = x.last /\ z.live = l
        BY <1>2, <3>3, <3>7 DEF SubType
      <3>9. /\ y \in SubType /\ y.pc = x.pc /\ y.cursor = x.cursor /\ y.replay = x.replay
            /\ y.last = x.last /\ y.live = l
        BY <3>4, <3>8 DEF SubType
      <3>10. Covers(y, n, f \ {e}, t, s \union {h})
        BY <1>2, <2>1, <3>6, <3>7, <3>9 DEF Covers
      <3> QED BY <1>4, <2>1, <2>2, <3>5, <3>9, <3>10
    <2> QED BY <2>3, <2>4, <2>5
  <1>8. Readers!Elements(<<>>) = {}
    BY DEF Readers!Elements
  <1>9. CASE Readers!count
    <2>1. PICK new : new = Readers!NewSub
      OBVIOUS
    <2>2. new \in SubType /\ new.live = <<>>
      BY <2>1 DEF Readers!NewSub, SubType
    <2>3. PICK z : z = [new EXCEPT !.pc = "counted"]
      OBVIOUS
    <2>4. z \in SubType /\ z.pc = "counted" /\ z.live = <<>>
      BY <2>2, <2>3 DEF SubType
    <2>5. PICK y : y = [z EXCEPT !.cursor = n]
      OBVIOUS
    <2>6. /\ y \in SubType /\ y.pc = "counted" /\ y.cursor = n /\ y.live = <<>>
      BY <1>2, <2>5, <2>4 DEF SubType
    <2>7. Covers(y, n, f, t, s)
      BY <1>2, <1>8, <2>6 DEF Covers
    <2>8. rows' = rows /\ flying' = f /\ told' = t /\ skipped' = s /\ sub' = y
      BY <1>1, <1>9, <2>1, <2>3, <2>5 DEF Readers!count
    <2> QED BY <1>2, <1>4, <2>6, <2>7, <2>8
  <1>10. CASE Readers!subscribe
    <2>1. PICK y : y = [x EXCEPT !.pc = "registered"]
      OBVIOUS
    <2>2. y \in SubType /\ y.pc = "registered" /\ y.cursor = x.cursor /\ y.live = x.live
      BY <1>2, <2>1 DEF SubType
    <2>3. Covers(y, n, f, t, s)
      BY <1>2, <2>2 DEF Covers
    <2>4. rows' = rows /\ flying' = f /\ told' = t /\ skipped' = s /\ sub' = y
      BY <1>1, <1>10, <2>1 DEF Readers!subscribe
    <2> QED BY <1>2, <1>4, <2>2, <2>3, <2>4
  <1>11. CASE Readers!cancelled
    <2>1. PICK y : y = Readers!NewSub
      OBVIOUS
    <2>2. y \in SubType /\ y.pc = "none" /\ y.cursor = 0 /\ y.live = <<>>
      BY <2>1 DEF Readers!NewSub, SubType
    <2>3. Covers(y, n, f, {}, {})
      BY <1>2, <1>8, <2>2 DEF Covers
    <2>4. rows' = rows /\ flying' = f /\ told' = {} /\ skipped' = {} /\ sub' = y
      BY <1>1, <1>11, <2>1 DEF Readers!cancelled
    <2> QED BY <1>2, <1>4, <2>2, <2>3, <2>4
  <1>12. CASE Readers!replay
    <2>1. PICK S : S = {e \in Readers!Id : e > x.cursor}
      OBVIOUS
    <2>2. PICK q : q = Readers!First(QueryLimit, S)
      OBVIOUS
    <2>3. S \in SUBSET (1..n) /\ \A e \in 1..n : e > x.cursor => e \in S
      BY <1>2, <2>1 DEF Readers!Id
    <2>4. QueryLimit \in Nat \ {0}
      BY BoundsAssumption
    <2>5. PICK T \in SUBSET S : PageOf(q, T) /\ \A e \in T, g \in S : g < e => g \in T
      BY <1>2, <2>2, <2>3, <2>4, EarliestIs
    <2>6. Readers!query_all(x.cursor, 0) = q
      <3>1. Readers!RowLimit(0) = QueryLimit
        BY DEF Readers!RowLimit
      <3> QED BY <2>1, <2>2, <3>1 DEF Readers!query_all
    <2>7. q \in Seq(Nat) /\ Readers!Elements(q) = T
      BY <2>5 DEF PageOf
    <2>8. PICK m : m = Readers!Largest(T, x.cursor)
      OBVIOUS
    <2>9. m \in T \union {x.cursor} /\ \A e \in T \union {x.cursor} : e <= m
      <3>1. T \in SUBSET (0..n) /\ x.cursor \in 0..n
        BY <1>2, <1>3, <2>3, <2>5 DEF Covers
      <3> QED BY <1>2, <2>8, <3>1, LargestIs
    <2>10. m \in Nat /\ m <= n
      BY <1>2, <1>3, <2>3, <2>5, <2>9 DEF Covers
    <2>11. PICK u : u = skipped'
      OBVIOUS
    <2>12. u = s \union {e \in 1..n : e > m /\ e \notin f \union Readers!Elements(x.live)}
      BY <1>1, <1>2, <1>12, <2>6, <2>7, <2>8, <2>11
         DEF Readers!replay, Readers!Replayed, Readers!Id
    <2>13. PICK a : a = [x EXCEPT !.pc = "reading"]
      OBVIOUS
    <2>14. PICK b : b = [a EXCEPT !.replay = q]
      OBVIOUS
    <2>15. PICK y : y = [b EXCEPT !.last = m]
      OBVIOUS
    <2>16. a \in SubType /\ a.pc = "reading" /\ a.cursor = x.cursor /\ a.live = x.live
      BY <1>2, <2>13 DEF SubType
    <2>17. b \in SubType /\ b.pc = "reading" /\ b.cursor = x.cursor /\ b.live = x.live /\ b.replay = q
      BY <2>7, <2>14, <2>16 DEF SubType
    <2>18. /\ y \in SubType /\ y.pc = "reading" /\ y.cursor = x.cursor /\ y.live = x.live /\ y.replay = q
           /\ y.last = m
      BY <2>10, <2>15, <2>17 DEF SubType
    <2>19. sub' = y
      BY <1>1, <1>12, <2>6, <2>7, <2>8, <2>13, <2>14, <2>15 DEF Readers!replay, Readers!Replayed
    <2>20. ASSUME NEW e \in 1..n, e > x.cursor
           PROVE  \/ e \in t \union T \union u
                  \/ e \in f /\ e > m
                  \/ e \in Readers!Elements(x.live) /\ e > m
      <3>1. CASE e > m
        BY <2>12, <3>1
      <3>2. CASE ~(e > m)
        <4>1. m \in T
          BY <1>3, <2>9, <2>10, <2>20, <3>2
        <4>2. e \in S
          BY <2>3, <2>20
        <4>3. CASE e = m
          BY <4>1, <4>3
        <4>4. CASE e < m
          BY <2>5, <4>1, <4>2, <4>4
        <4> QED BY <1>2, <2>10, <3>2, <4>3, <4>4
      <3> QED BY <3>1, <3>2
    <2>21. Covers(y, n, f, t, u)
      <3>1. Readers!Elements(y.live) \subseteq 1..n /\ y.cursor <= n
        BY <1>2, <2>18 DEF Covers
      <3> QED BY <2>7, <2>9, <2>10, <2>18, <2>20, <3>1 DEF Covers
    <2>22. rows' = rows /\ flying' = f /\ told' = t
      BY <1>1, <1>12 DEF Readers!replay, Readers!Replayed
    <2> QED BY <1>2, <1>4, <2>11, <2>18, <2>19, <2>21, <2>22
  <1>13. CASE Readers!recv_or_lag
    <2>1. rows' = rows /\ flying' = f /\ x.pc = "reading"
      BY <1>1, <1>13 DEF Readers!recv_or_lag
    <2>2. /\ Readers!Elements(x.live) \subseteq 1..n /\ x.cursor <= n
          /\ x.last <= n /\ \A e \in Readers!Elements(x.replay) : e <= x.last
          /\ \A e \in 1..n : e > x.cursor =>
                \/ e \in t \union Readers!Elements(x.replay) \union s
                \/ e \in f /\ e > x.last
                \/ e \in Readers!Elements(x.live) /\ e > x.last
      BY <1>2, <2>1 DEF Covers
    <2>3. CASE x.replay # <<>>
      <3>1. PICK h, q, m : h = Head(x.replay) /\ q = Tail(x.replay) /\ m = Readers!Largest({h}, x.last)
        OBVIOUS
      <3>2. /\ q \in Seq(Nat) /\ h \in Nat /\ h \in Readers!Elements(x.replay)
            /\ Readers!Elements(x.replay) = {h} \union Readers!Elements(q)
        BY <1>3, <2>3, <3>1, ElementsAre
      <3>3. m = x.last
        <4>1. h <= x.last /\ {h} \in SUBSET (0..n) /\ x.last \in 0..n
          <5>1. h <= x.last /\ x.last <= n
            BY <2>2, <3>2
          <5> QED BY <1>2, <1>3, <3>2, <5>1
        <4>2. m \in {h} \union {x.last} /\ \A e \in {h} \union {x.last} : e <= m
          BY <1>2, <3>1, <4>1, LargestIs
        <4> QED BY <1>3, <3>2, <4>1, <4>2
      <3>4. PICK a : a = [x EXCEPT !.replay = q]
        OBVIOUS
      <3>5. PICK y : y = [a EXCEPT !.last = m]
        OBVIOUS
      <3>6. /\ a \in SubType /\ a.pc = x.pc /\ a.cursor = x.cursor /\ a.live = x.live /\ a.replay = q
        BY <1>2, <3>2, <3>4 DEF SubType
      <3>7. /\ y \in SubType /\ y.pc = x.pc /\ y.cursor = x.cursor /\ y.live = x.live /\ y.replay = q
            /\ y.last = x.last
        BY <1>3, <3>3, <3>5, <3>6 DEF SubType
      <3>8. sub' = y /\ told' = t \union {h} /\ skipped' = s
        BY <1>1, <1>13, <2>3, <3>1, <3>4, <3>5 DEF Readers!recv_or_lag
      <3>9. Covers(y, n, f, t \union {h}, s)
        BY <2>2, <3>2, <3>7 DEF Covers
      <3> QED BY <1>2, <1>4, <2>1, <3>7, <3>8, <3>9
    <2>4. CASE x.replay = <<>> /\ x.lagged
      <3>1. PICK y : y = [x EXCEPT !.lagged = FALSE]
        OBVIOUS
      <3>2. /\ y \in SubType /\ y.pc = x.pc /\ y.cursor = x.cursor /\ y.live = x.live
            /\ y.replay = x.replay /\ y.last = x.last
        BY <1>2, <3>1 DEF SubType
      <3>3. sub' = y /\ told' = t /\ skipped' = s
        BY <1>1, <1>13, <2>4, <3>1 DEF Readers!recv_or_lag
      <3>4. Covers(y, n, f, t, s)
        BY <2>2, <3>2 DEF Covers
      <3> QED BY <1>2, <1>4, <2>1, <3>2, <3>3, <3>4
    <2>5. CASE x.replay = <<>> /\ ~x.lagged
      <3>1. x.live # <<>>
        BY <1>1, <1>13, <2>5 DEF Readers!recv_or_lag
      <3>2. PICK h, q : h = Head(x.live) /\ q = Tail(x.live)
        OBVIOUS
      <3>3. /\ q \in Seq(Nat) /\ h \in Nat /\ h \in Readers!Elements(x.live)
            /\ Readers!Elements(x.live) = {h} \union Readers!Elements(q)
        BY <1>3, <3>1, <3>2, ElementsAre
      <3>4. PICK a : a = [x EXCEPT !.live = q]
        OBVIOUS
      <3>5. /\ a \in SubType /\ a.pc = x.pc /\ a.cursor = x.cursor /\ a.live = q
            /\ a.replay = x.replay /\ a.last = x.last
        BY <1>2, <3>3, <3>4 DEF SubType
      <3>6. h <= n /\ Readers!Elements(q) \subseteq 1..n
        BY <2>2, <3>3
      <3>7. CASE h > x.last
        <4>1. PICK y : y = [a EXCEPT !.last = h]
          OBVIOUS
        <4>2. /\ y \in SubType /\ y.pc = x.pc /\ y.cursor = x.cursor /\ y.live = q
              /\ y.replay = x.replay /\ y.last = h
          BY <3>3, <3>5, <4>1 DEF SubType
        <4>3. PICK u : u = skipped'
          OBVIOUS
        <4>4. u = s \union {e \in f \union Readers!Elements(x.live) : x.last < e /\ e < h}
          BY <1>1, <1>13, <2>5, <3>2, <3>7, <4>3 DEF Readers!recv_or_lag, Readers!Overtaken
        <4>5. sub' = y /\ told' = t \union {h}
          BY <1>1, <1>13, <2>5, <3>2, <3>4, <3>7, <4>1 DEF Readers!recv_or_lag
        <4>6. ASSUME NEW e \in 1..n, e > x.cursor
              PROVE  \/ e \in t \union {h} \union Readers!Elements(x.replay) \union u
                     \/ e \in f /\ e > h
                     \/ e \in Readers!Elements(q) /\ e > h
          <5>1. \/ e \in t \union Readers!Elements(x.replay) \union s
                \/ e \in f /\ e > x.last
                \/ e \in Readers!Elements(x.live) /\ e > x.last
            BY <2>2, <4>6
          <5>2. e < h \/ e = h \/ e > h
            BY <1>2, <3>3
          <5> QED BY <1>3, <3>3, <4>4, <5>1, <5>2
        <4>7. \A e \in Readers!Elements(x.replay) : e <= h
          BY <1>8, <2>5
        <4>8. Covers(y, n, f, t \union {h}, u)
          BY <2>2, <3>6, <4>2, <4>6, <4>7 DEF Covers
        <4> QED BY <1>2, <1>4, <2>1, <4>2, <4>3, <4>5, <4>8
      <3>8. CASE ~(h > x.last)
        <4>1. sub' = a /\ told' = t /\ skipped' = s
          BY <1>1, <1>13, <2>5, <3>2, <3>4, <3>8 DEF Readers!recv_or_lag
        <4>2. Covers(a, n, f, t, s)
          BY <2>2, <3>3, <3>5, <3>6, <3>8 DEF Covers
        <4> QED BY <1>2, <1>4, <2>1, <3>5, <4>1, <4>2
      <3> QED BY <3>7, <3>8
    <2> QED BY <1>3, <2>3, <2>4, <2>5
  <1> QED BY <1>5, <1>6, <1>7, <1>9, <1>10, <1>11, <1>12, <1>13 DEF ReadersStep, Readers!Next

\* A device's pages have no holes, and the watchdog is told of every event, whoever
\* appends in between.
THEOREM ReadersToldAll == Readers!Spec => []ReadersAreTold
  <1>1. Readers!Init => ReadersInv
    BY ReadersInit
  <1>2. ReadersInv /\ [Readers!Next]_(Readers!vars) => ReadersInv'
    BY PagesKeptStays, SubscriberStays DEF ReadersInv, ReadersStep, ReadersTypes
  <1>3. ReadersInv => ReadersAreTold
    <2> SUFFICES ASSUME ReadersInv PROVE ReadersAreTold
      OBVIOUS
    <2>1. page.got = Readers!Ascending(Readers!Elements(page.got))
      BY IncreasingIs DEF ReadersInv, PagesKept, Whole
    <2>2. ASSUME NEW e \in Readers!Id, rows[e] = Watched, Readers!Read
          PROVE  e \in Readers!Elements(page.got) <=>
                     (page.start \/ page.got[1] <= e) /\ e <= page.got[Len(page.got)]
      BY <2>2 DEF ReadersInv, PagesKept, Whole, Of, Readers!Id, Readers!Read
    <2>3. Readers!PagesAreWhole
      BY <2>1, <2>2 DEF Readers!PagesAreWhole
    <2>4. Readers!SubscriberIsTold
      <3>1. Readers!Id = 1..Len(rows)
        BY DEF ReadersInv, ReadersTypes, Readers!Id
      <3> QED BY <3>1 DEF ReadersInv, SubscriberKept, Covers, Readers!SubscriberIsTold
    <2> QED BY <2>3, <2>4 DEF ReadersAreTold
  <1> QED BY <1>1, <1>2, <1>3, PTL DEF Readers!Spec

------------------------------------------------------------------------------
(* Transcripts: what is known of the blocks that the first n events make       *)

Entries ==
    {Conversation!Payload(u) : u \in {v \in Conversation!Update : Conversation!Mapped(v)}}
        \union {[type |-> "PromptSubmitted", text |-> "words"]} \union Conversation!Ending
Spoken(e) == e.type = "StreamUpdate" => e.text \in Conversation!Text
BlockType == [who : {"User", "Tool", "Assistant"}, items : Seq(Nat)]

Right(m, who) ==
    (Conversation!Visible(m) \/ Conversation!Blank(m)) /\ Conversation!Speaker(m) = who
Has(out, m) == \E b \in DOMAIN out : \E i \in DOMAIN out[b].items : out[b].items[i] = m
Above(out, m) == \A b \in DOMAIN out : \A i \in DOMAIN out[b].items : out[b].items[i] < m
Rightly(out, n) ==
    \A b \in DOMAIN out : \A i \in DOMAIN out[b].items :
        out[b].items[i] \in 1..n /\ Right(out[b].items[i], out[b].who)
InOrder(out) ==
    \A b, c \in DOMAIN out : \A i \in DOMAIN out[b].items, j \in DOMAIN out[c].items :
        b < c \/ (b = c /\ i < j) => out[b].items[i] < out[c].items[j]
Apart(out) ==
    \A b \in DOMAIN out : b > 1 /\ out[b].who = "Assistant" => out[b - 1].who # "Assistant"
Good(out, n) == out \in Seq(BlockType) /\ Rightly(out, n) /\ InOrder(out) /\ Apart(out)
\* The next block may be the assistant's.
Open(out) == out = <<>> \/ out[Len(out)].who # "Assistant"
Ready(acc, n) ==
    /\ acc = [out |-> acc.out, assistant |-> acc.assistant]
    /\ Good(acc.out, n) /\ Open(acc.out)
    /\ acc.assistant \in Seq(Nat) /\ Increasing(acc.assistant)
    /\ \A i \in DOMAIN acc.assistant : /\ acc.assistant[i] \in 1..n
                                       /\ Right(acc.assistant[i], "Assistant")
                                       /\ Above(acc.out, acc.assistant[i])
    /\ \A m \in 1..n : Conversation!Visible(m) =>
          Has(acc.out, m) \/ \E i \in DOMAIN acc.assistant : acc.assistant[i] = m

\* What the first n events make holds of the first n + 1.
LEMMA GoodGrows ==
    ASSUME NEW n \in Nat, NEW out, Good(out, n)
    PROVE  Good(out, n + 1) /\ Above(out, n + 1)
  <1>1. \A b \in DOMAIN out : \A i \in DOMAIN out[b].items :
            out[b].items[i] \in 1..(n + 1) /\ out[b].items[i] < n + 1
    <2>1. \A k \in 1..n : k \in 1..(n + 1) /\ k < n + 1
      OBVIOUS
    <2> QED BY <2>1 DEF Good, Rightly
  <1> QED BY <1>1 DEF Good, Rightly, Above

\* One more block.
LEMMA GoodAppended ==
    ASSUME NEW n \in Nat, NEW out, Good(out, n), NEW who \in {"User", "Tool", "Assistant"},
           NEW items \in Seq(Nat), Increasing(items),
           \A i \in DOMAIN items : items[i] \in 1..n /\ Right(items[i], who) /\ Above(out, items[i]),
           who = "Assistant" => Open(out)
    PROVE  LET more == Append(out, Conversation!Block(who, items))
           IN  /\ Good(more, n)
               /\ who # "Assistant" => Open(more)
               /\ \A m : Has(out, m) \/ (\E i \in DOMAIN items : items[i] = m) => Has(more, m)
  <1>1. PICK x : x = Conversation!Block(who, items)
    OBVIOUS
  <1>2. x \in BlockType /\ x.who = who /\ x.items = items
    BY <1>1 DEF Conversation!Block, BlockType
  <1>3. PICK more : more = Append(out, x)
    OBVIOUS
  <1>4. PICK k \in Nat : k = Len(out) /\ DOMAIN out = 1..k
    BY DEF Good
  <1>5. /\ more \in Seq(BlockType) /\ DOMAIN more = 1..(k + 1) /\ Len(more) = k + 1
        /\ more[k + 1] = x /\ \A b \in 1..k : more[b] = out[b]
    BY <1>2, <1>3, <1>4 DEF Good
  <1>6. Rightly(more, n)
    <2>1. ASSUME NEW b \in 1..(k + 1), NEW i \in DOMAIN more[b].items
          PROVE  more[b].items[i] \in 1..n /\ Right(more[b].items[i], more[b].who)
      <3>1. CASE b = k + 1
        BY <1>2, <1>5, <2>1, <3>1
      <3>2. CASE b # k + 1
        <4>1. b \in 1..k /\ more[b] = out[b]
          BY <1>5, <3>2
        <4> QED BY <1>4, <2>1, <4>1 DEF Good, Rightly
      <3> QED BY <3>1, <3>2
    <2> QED BY <1>5, <2>1 DEF Rightly
  <1>7. InOrder(more)
    <2>1. ASSUME NEW b \in 1..(k + 1), NEW c \in 1..(k + 1), NEW i \in DOMAIN more[b].items,
                 NEW j \in DOMAIN more[c].items, b < c \/ (b = c /\ i < j)
          PROVE  more[b].items[i] < more[c].items[j]
      <3>1. CASE c # k + 1
        <4>1. b \in 1..k /\ c \in 1..k /\ more[b] = out[b] /\ more[c] = out[c]
          BY <1>5, <2>1, <3>1
        <4> QED BY <1>4, <2>1, <4>1 DEF Good, InOrder
      <3>2. CASE c = k + 1 /\ b # k + 1
        <4>1. b \in 1..k /\ more[b] = out[b] /\ more[c] = x
          BY <1>5, <3>2
        <4>2. Above(out, items[j]) /\ more[c].items[j] = items[j]
          BY <1>2, <2>1, <4>1
        <4> QED BY <1>4, <2>1, <4>1, <4>2 DEF Above
      <3>3. CASE c = k + 1 /\ b = k + 1
        <4>1. more[b].items = items /\ more[c].items = items /\ i < j
          BY <1>2, <1>5, <2>1, <3>3
        <4> QED BY <2>1, <4>1 DEF Increasing
      <3> QED BY <3>1, <3>2, <3>3
    <2> QED BY <1>5, <2>1 DEF InOrder
  <1>8. Apart(more)
    <2>1. ASSUME NEW b \in 1..(k + 1), b > 1, more[b].who = "Assistant"
          PROVE  more[b - 1].who # "Assistant"
      <3>1. b - 1 \in 1..k /\ more[b - 1] = out[b - 1]
        BY <1>4, <1>5, <2>1
      <3>2. CASE b = k + 1
        <4>1. Open(out) /\ out # <<>> /\ b - 1 = Len(out)
          BY <1>2, <1>4, <1>5, <2>1, <3>1, <3>2
        <4> QED BY <3>1, <4>1 DEF Open
      <3>3. CASE b # k + 1
        <4>1. b \in 1..k /\ more[b] = out[b]
          BY <1>5, <3>3
        <4> QED BY <1>4, <2>1, <3>1, <4>1 DEF Good, Apart
      <3> QED BY <3>2, <3>3
    <2> QED BY <1>5, <2>1 DEF Apart
  <1>9. who # "Assistant" => Open(more)
    BY <1>2, <1>5 DEF Open
  <1>10. ASSUME NEW m, Has(out, m) \/ \E i \in DOMAIN items : items[i] = m
         PROVE  Has(more, m)
    <2>1. CASE Has(out, m)
      <3>1. PICK b \in 1..k : \E i \in DOMAIN out[b].items : out[b].items[i] = m
        BY <1>4, <2>1 DEF Has
      <3>2. b \in DOMAIN more /\ more[b] = out[b]
        BY <1>5
      <3> QED BY <3>1, <3>2 DEF Has
    <2>2. CASE \E i \in DOMAIN items : items[i] = m
      <3>1. k + 1 \in DOMAIN more /\ more[k + 1].items = items
        BY <1>2, <1>5
      <3> QED BY <2>2, <3>1 DEF Has
    <2> QED BY <1>10, <2>1, <2>2
  <1> QED BY <1>1, <1>3, <1>5, <1>6, <1>7, <1>8, <1>9, <1>10 DEF Good

\* The assistant's text becomes a block, or is blank.
LEMMA Flushed ==
    ASSUME NEW n \in Nat, NEW acc, Ready(acc, n)
    PROVE  LET f == Conversation!flush_assistant(acc)
           IN  /\ f = [out |-> f.out, assistant |-> <<>>] /\ Good(f.out, n)
               /\ \A m \in 1..n : Conversation!Visible(m) => Has(f.out, m)
  <1>1. PICK f : f = Conversation!flush_assistant(acc)
    OBVIOUS
  <1>2. PICK out, items : out = acc.out /\ items = acc.assistant
    OBVIOUS
  <1>3. /\ acc = [out |-> out, assistant |-> items]
        /\ Good(out, n) /\ Open(out) /\ items \in Seq(Nat) /\ Increasing(items)
        /\ \A i \in DOMAIN items : items[i] \in 1..n /\ Right(items[i], "Assistant") /\ Above(out, items[i])
        /\ \A m \in 1..n : Conversation!Visible(m) => Has(out, m) \/ \E i \in DOMAIN items : items[i] = m
    BY <1>2 DEF Ready
  <1>4. CASE \E i \in DOMAIN items : chat[items[i]].text = "words"
    <2>1. PICK more : more = Append(out, Conversation!Block("Assistant", items))
      OBVIOUS
    <2>2. f = [out |-> more, assistant |-> <<>>]
      BY <1>1, <1>2, <1>4, <2>1 DEF Conversation!flush_assistant
    <2>3. Good(more, n) /\ \A m : Has(out, m) \/ (\E i \in DOMAIN items : items[i] = m) => Has(more, m)
      BY <1>3, <2>1, GoodAppended
    <2>4. f.out = more
      BY <2>2
    <2> QED BY <1>1, <1>3, <2>2, <2>3, <2>4
  <1>5. CASE ~\E i \in DOMAIN items : chat[items[i]].text = "words"
    <2>1. f = [out |-> out, assistant |-> <<>>] /\ f.out = out
      BY <1>1, <1>2, <1>3, <1>5 DEF Conversation!flush_assistant
    <2>2. ASSUME NEW m \in 1..n, Conversation!Visible(m)
          PROVE  Has(out, m)
      <3>1. SUFFICES ASSUME NEW i \in DOMAIN items, items[i] = m PROVE FALSE
        BY <1>3, <2>2
      <3>2. Conversation!Speaker(m) = "Assistant"
        BY <1>3, <3>1 DEF Right
      <3>3. chat[m].type \notin {"PromptSubmitted", "ToolStarted"}
        BY <3>2 DEF Conversation!Speaker
      <3>4. chat[m].text = "words"
        BY <2>2, <3>3 DEF Conversation!Visible
      <3> QED BY <1>5, <3>1, <3>4
    <2> QED BY <1>1, <1>3, <2>1, <2>2
  <1> QED BY <1>4, <1>5

\* An event that is a block of its own.
LEMMA BlockAdded ==
    ASSUME NEW n \in Nat, NEW acc, Ready(acc, n), NEW who \in {"User", "Tool"}, Right(n + 1, who)
    PROVE  Ready(Conversation!append_block(Conversation!flush_assistant(acc), who, n + 1), n + 1)
  <1>1. PICK f : f = Conversation!flush_assistant(acc)
    OBVIOUS
  <1>2. PICK out : out = f.out
    OBVIOUS
  <1>3. /\ f = [out |-> out, assistant |-> <<>>] /\ Good(out, n)
        /\ \A m \in 1..n : Conversation!Visible(m) => Has(out, m)
    BY <1>1, <1>2, Flushed
  <1>4. PICK items : items = <<n + 1>>
    OBVIOUS
  <1>5. /\ items \in Seq(Nat) /\ DOMAIN items = {1} /\ items[1] = n + 1 /\ Increasing(items)
    BY <1>4 DEF Increasing
  <1>6. Good(out, n + 1) /\ Above(out, n + 1)
    BY <1>3, GoodGrows
  <1>7. PICK more : more = Append(out, Conversation!Block(who, items))
    OBVIOUS
  <1>8. /\ Good(more, n + 1) /\ Open(more)
        /\ \A m : Has(out, m) \/ (\E i \in DOMAIN items : items[i] = m) => Has(more, m)
    <2>1. n + 1 \in Nat /\ n + 1 \in 1..(n + 1)
      OBVIOUS
    <2>2. \A i \in DOMAIN items : /\ items[i] \in 1..(n + 1) /\ Right(items[i], who)
                                  /\ Above(out, items[i])
      BY <1>5, <1>6, <2>1
    <2> QED BY <1>5, <1>6, <1>7, <2>1, <2>2, GoodAppended
  <1>9. Conversation!append_block(f, who, n + 1) = [out |-> more, assistant |-> <<>>]
    <2>1. Conversation!append_block(f, who, n + 1)
              = [f EXCEPT !.out = Append(f.out, Conversation!Block(who, <<n + 1>>))]
      BY Zenon DEF Conversation!append_block
    <2>2. Append(f.out, Conversation!Block(who, <<n + 1>>)) = more
      BY <1>2, <1>4, <1>7, Zenon
    <2>3. Conversation!append_block(f, who, n + 1) = [f EXCEPT !.out = more]
      BY <2>1, <2>2, Zenon
    <2> QED BY <1>3, <2>3
  <1>10. ASSUME NEW m \in 1..(n + 1), Conversation!Visible(m)
         PROVE  Has(more, m)
    <2>1. CASE m = n + 1
      BY <1>5, <1>8, <2>1
    <2>2. CASE m # n + 1
      <3>1. m \in 1..n
        BY <2>2
      <3> QED BY <1>3, <1>8, <1>10, <3>1
    <2> QED BY <2>1, <2>2
  <1>11. Ready([out |-> more, assistant |-> <<>>], n + 1)
    <2>1. DOMAIN <<>> = {} /\ <<>> \in Seq(Nat) /\ Increasing(<<>>)
      BY DEF Increasing
    <2> QED BY <1>8, <1>10, <2>1 DEF Ready
  <1> QED BY <1>1, <1>9, <1>11

\* Render takes one event: a block of its own, more text of the agent, or nothing.
LEMMA RenderKeeps ==
    ASSUME NEW n \in Nat, NEW acc, Ready(acc, n), Spoken(chat[n + 1])
    PROVE  Ready(Conversation!Render(acc, n + 1), n + 1)
  <1>1. PICK x : x = chat[n + 1]
    OBVIOUS
  <1>2. CASE x.type = "PromptSubmitted"
    <2>1. Right(n + 1, "User")
      BY <1>1, <1>2 DEF Right, Conversation!Visible, Conversation!Speaker
    <2>2. Conversation!Render(acc, n + 1) =
              Conversation!append_block(Conversation!flush_assistant(acc), "User", n + 1)
      BY <1>1, <1>2 DEF Conversation!Render
    <2> QED BY <2>1, <2>2, BlockAdded
  <1>3. CASE x.type = "ToolStarted"
    <2>1. Right(n + 1, "Tool")
      BY <1>1, <1>3 DEF Right, Conversation!Visible, Conversation!Speaker
    <2>2. Conversation!Render(acc, n + 1) =
              Conversation!append_block(Conversation!flush_assistant(acc), "Tool", n + 1)
      BY <1>1, <1>3 DEF Conversation!Render
    <2> QED BY <2>1, <2>2, BlockAdded
  <1>4. PICK out, items : out = acc.out /\ items = acc.assistant
    OBVIOUS
  <1>5. /\ acc = [out |-> out, assistant |-> items]
        /\ Good(out, n) /\ Open(out) /\ items \in Seq(Nat) /\ Increasing(items)
        /\ \A i \in DOMAIN items : items[i] \in 1..n /\ Right(items[i], "Assistant") /\ Above(out, items[i])
        /\ \A m \in 1..n : Conversation!Visible(m) => Has(out, m) \/ \E i \in DOMAIN items : items[i] = m
    BY <1>4 DEF Ready
  <1>6. Good(out, n + 1) /\ Above(out, n + 1)
    BY <1>5, GoodGrows
  <1>7. CASE x.type = "StreamUpdate" /\ ~x.thought /\ x.text # "empty"
    <2>1. Right(n + 1, "Assistant")
      BY <1>1, <1>7
         DEF Right, Conversation!Visible, Conversation!Blank, Conversation!Speaker, Spoken,
                        Conversation!Text
    <2>2. PICK l : l = Append(items, n + 1)
      OBVIOUS
    <2>3. Conversation!Render(acc, n + 1) = [out |-> out, assistant |-> l]
      <3>1. Conversation!Render(acc, n + 1) = [acc EXCEPT !.assistant = l]
        BY <1>1, <1>4, <1>7, <2>2 DEF Conversation!Render
      <3> QED BY <1>5, <3>1
    <2>4. PICK k \in Nat : k = Len(items) /\ DOMAIN items = 1..k
      BY <1>5
    <2>5. /\ l \in Seq(Nat) /\ DOMAIN l = 1..(k + 1) /\ l[k + 1] = n + 1
          /\ \A i \in 1..k : l[i] = items[i]
      BY <1>5, <2>2, <2>4
    <2>6. \A i \in 1..k : items[i] \in 1..n /\ items[i] < n + 1 /\ items[i] \in 1..(n + 1)
      BY <1>5, <2>4
    <2>7. Increasing(l)
      <3>1. ASSUME NEW i \in 1..(k + 1), NEW j \in 1..(k + 1), i < j
            PROVE  l[i] < l[j]
        <4>1. i \in 1..k
          BY <3>1
        <4>2. CASE j = k + 1
          BY <2>5, <2>6, <4>1, <4>2
        <4>3. CASE j # k + 1
          <5>1. j \in 1..k
            BY <4>3
          <5> QED BY <1>5, <2>4, <2>5, <3>1, <4>1, <5>1 DEF Increasing
        <4> QED BY <4>2, <4>3
      <3> QED BY <2>5, <3>1 DEF Increasing
    <2>8. ASSUME NEW i \in 1..(k + 1)
          PROVE  l[i] \in 1..(n + 1) /\ Right(l[i], "Assistant") /\ Above(out, l[i])
      <3>1. CASE i = k + 1
        BY <1>6, <2>1, <2>5, <3>1
      <3>2. CASE i # k + 1
        <4>1. i \in 1..k
          BY <3>2
        <4> QED BY <1>5, <2>4, <2>5, <2>6, <4>1
      <3> QED BY <3>1, <3>2
    <2>9. ASSUME NEW m \in 1..(n + 1), Conversation!Visible(m)
          PROVE  Has(out, m) \/ \E i \in 1..(k + 1) : l[i] = m
      <3>1. CASE m = n + 1
        BY <2>5, <3>1
      <3>2. CASE m # n + 1
        <4>1. m \in 1..n
          BY <3>2
        <4>2. Has(out, m) \/ \E i \in 1..k : items[i] = m
          BY <1>5, <2>4, <2>9, <4>1
        <4> QED BY <2>5, <4>2
      <3> QED BY <3>1, <3>2
    <2>10. Ready([out |-> out, assistant |-> l], n + 1)
      BY <1>5, <1>6, <2>5, <2>7, <2>8, <2>9 DEF Ready
    <2> QED BY <2>3, <2>10
  <1>8. CASE /\ x.type \notin {"PromptSubmitted", "ToolStarted"}
             /\ ~(x.type = "StreamUpdate" /\ ~x.thought /\ x.text # "empty")
    <2>1. Conversation!Render(acc, n + 1) = acc
      BY <1>1, <1>8 DEF Conversation!Render
    <2>2. ~Conversation!Visible(n + 1)
      BY <1>1, <1>8 DEF Conversation!Visible
    <2>3. ASSUME NEW m \in 1..(n + 1), Conversation!Visible(m)
          PROVE  Has(out, m) \/ \E i \in DOMAIN items : items[i] = m
      <3>1. m \in 1..n
        BY <2>2, <2>3
      <3> QED BY <1>5, <2>3, <3>1
    <2>4. \A i \in DOMAIN items : items[i] \in 1..(n + 1)
      BY <1>5
    <2>5. Ready(acc, n + 1)
      BY <1>4, <1>5, <1>6, <2>3, <2>4 DEF Ready
    <2> QED BY <2>1, <2>5
  <1> QED BY <1>2, <1>3, <1>7, <1>8

------------------------------------------------------------------------------
(* The recursion over the events                                               *)

Start == [out |-> <<>>, assistant |-> <<>>]
Steps(h, q) ==
    h = [n \in 0..q |-> IF n = 0 THEN Start ELSE Conversation!Render(h[n - 1], n)]
Rendered(q) == CHOOSE h : Steps(h, q)

\* The recursion in Exported is Rendered.
LEMMA ExportedIs ==
    ASSUME NEW limit
    PROVE  Conversation!Exported(limit) =
           Conversation!flush_assistant(
               Rendered(Conversation!Queried(limit))[Conversation!Queried(limit)]).out
  BY Zenon DEF Conversation!Exported, Rendered, Steps, Start

\* For every number of events the steps exist: the least without would have a
\* predecessor with.
LEMMA StepsExist == \A q \in Nat : \E h : Steps(h, q)
  <1> DEFINE T == {q \in Nat : ~\E h : Steps(h, q)}
  <1> SUFFICES ASSUME T # {} PROVE FALSE
    OBVIOUS
  <1>1. PICK q \in T : \A k \in T : q <= k
    <2>1. T \subseteq Nat
      OBVIOUS
    <2> QED BY <2>1, Least
  <1>2. q # 0
    <2>1. Steps([n \in {0} |-> Start], 0)
      <3>1. 0..0 = {0}
        OBVIOUS
      <3>2. [n \in {0} |-> Start] =
                [n \in 0..0 |-> IF n = 0 THEN Start
                                ELSE Conversation!Render([m \in {0} |-> Start][n - 1], n)]
        BY <3>1
      <3> QED BY <3>2, Zenon DEF Steps
    <2> QED BY <1>1, <2>1
  <1>3. q \in Nat /\ q - 1 \in Nat /\ q - 1 \notin T
    BY <1>1, <1>2
  <1>4. PICK g : Steps(g, q - 1)
    BY <1>3
  <1>5. g = [n \in 0..(q - 1) |-> IF n = 0 THEN Start ELSE Conversation!Render(g[n - 1], n)]
    BY <1>4, Zenon DEF Steps
  <1> DEFINE h == [n \in 0..q |-> IF n = 0 THEN Start ELSE Conversation!Render(g[n - 1], n)]
  <1>6. ASSUME NEW n \in 0..q, n # 0
        PROVE  g[n - 1] = h[n - 1]
    <2>1. n - 1 \in 0..(q - 1) /\ n - 1 \in 0..q
      BY <1>3, <1>6
    <2> QED BY <1>5, <2>1
  <1>7. Steps(h, q)
    <2>1. h = [n \in 0..q |-> IF n = 0 THEN Start ELSE Conversation!Render(h[n - 1], n)]
      BY <1>6
    <2> HIDE DEF h
    <2> QED BY <2>1, Zenon DEF Steps
  <1> HIDE DEF h
  <1> QED BY <1>1, <1>7

\* What Render makes of the events is ready at every one of them.
LEMMA AllReady ==
    ASSUME NEW q \in Nat, \A m \in 1..q : Spoken(chat[m])
    PROVE  \A n \in 0..q : Ready(Rendered(q)[n], n)
  <1> DEFINE T == {n \in 0..q : ~Ready(Rendered(q)[n], n)}
  <1> SUFFICES ASSUME T # {} PROVE FALSE
    OBVIOUS
  <1>1. PICK n \in T : \A k \in T : n <= k
    <2>1. T \subseteq Nat
      OBVIOUS
    <2> QED BY <2>1, Least
  <1>2. PICK r : r = Rendered(q)
    OBVIOUS
  <1>3. Steps(r, q)
    BY <1>2, StepsExist, Zenon DEF Rendered
  <1>4. \A k \in 0..q : r[k] = IF k = 0 THEN Start ELSE Conversation!Render(r[k - 1], k)
    <2>1. r = [k \in 0..q |-> IF k = 0 THEN Start ELSE Conversation!Render(r[k - 1], k)]
      BY <1>3, Zenon DEF Steps
    <2> QED BY <2>1
  <1>5. n \in 0..q
    BY <1>1
  <1>6. CASE n = 0
    <2>1. r[n] = Start
      BY <1>4, <1>5, <1>6
    <2>2. Ready(Start, 0)
      <3>1. /\ <<>> \in Seq(Nat) /\ <<>> \in Seq(BlockType) /\ DOMAIN <<>> = {}
            /\ 1..0 = {} /\ Start.out = <<>> /\ Start.assistant = <<>>
        BY DEF Start
      <3>2. Start = [out |-> Start.out, assistant |-> Start.assistant]
        BY DEF Start
      <3> QED BY <3>1, <3>2 DEF Ready, Good, Open, Rightly, InOrder, Apart, Increasing
    <2> QED BY <1>1, <1>2, <1>6, <2>1, <2>2
  <1>7. CASE n # 0
    <2>1. PICK k \in 0..q : k + 1 = n /\ k = n - 1
      BY <1>5, <1>7
    <2>2. k \in Nat /\ k < n /\ k \notin T /\ n \in 1..q
      BY <1>1, <1>5, <1>7, <2>1
    <2>3. Ready(r[k], k)
      BY <1>2, <2>2
    <2>4. Spoken(chat[k + 1])
      BY <2>1, <2>2
    <2>5. Ready(Conversation!Render(r[k], k + 1), k + 1)
      BY <2>2, <2>3, <2>4, RenderKeeps
    <2>6. r[n] = Conversation!Render(r[k], k + 1)
      BY <1>4, <1>5, <1>7, <2>1
    <2> QED BY <1>1, <1>2, <2>1, <2>5, <2>6
  <1> QED BY <1>6, <1>7

\* So is the transcript.
LEMMA ExportedWell ==
    ASSUME NEW limit, NEW q \in Nat, q = Conversation!Queried(limit),
           \A m \in 1..q : Spoken(chat[m])
    PROVE  /\ Good(Conversation!Exported(limit), q)
           /\ \A m \in 1..q : Conversation!Visible(m) => Has(Conversation!Exported(limit), m)
  <1>1. PICK acc : acc = Rendered(q)[q]
    OBVIOUS
  <1>2. Ready(acc, q)
    <2>1. q \in 0..q
      OBVIOUS
    <2> QED BY <1>1, <2>1, AllReady
  <1>3. Conversation!Exported(limit) = Conversation!flush_assistant(acc).out
    BY <1>1, ExportedIs, Zenon
  <1> QED BY <1>2, <1>3, Flushed

------------------------------------------------------------------------------
(* The recursion over the blocks                                               *)

SizesTo(h, blocks, b) ==
    h = [c \in 0..b |-> IF c = 0 THEN 0 ELSE h[c - 1] + Len(blocks[c].items)]
Sizes(blocks) == CHOOSE h : SizesTo(h, blocks, Len(blocks))

\* The recursion in Size is Sizes.
LEMMA SizeIs ==
    ASSUME NEW blocks
    PROVE  Conversation!Size(blocks) = Sizes(blocks)[Len(blocks)]
  BY Zenon DEF Conversation!Size, Sizes, SizesTo

\* For every number of blocks the sizes exist.
LEMMA SizesExist ==
    ASSUME NEW blocks
    PROVE  \A b \in Nat : \E h : SizesTo(h, blocks, b)
  <1> DEFINE T == {b \in Nat : ~\E h : SizesTo(h, blocks, b)}
  <1> SUFFICES ASSUME T # {} PROVE FALSE
    OBVIOUS
  <1>1. PICK b \in T : \A k \in T : b <= k
    <2>1. T \subseteq Nat
      OBVIOUS
    <2> QED BY <2>1, Least
  <1>2. b # 0
    <2>1. SizesTo([c \in {0} |-> 0], blocks, 0)
      <3>1. 0..0 = {0}
        OBVIOUS
      <3>2. [c \in {0} |-> 0] =
                [c \in 0..0 |-> IF c = 0 THEN 0 ELSE [d \in {0} |-> 0][c - 1] + Len(blocks[c].items)]
        BY <3>1
      <3> QED BY <3>2, Zenon DEF SizesTo
    <2> QED BY <1>1, <2>1
  <1>3. b \in Nat /\ b - 1 \in Nat /\ b - 1 \notin T
    BY <1>1, <1>2
  <1>4. PICK g : SizesTo(g, blocks, b - 1)
    BY <1>3
  <1>5. g = [c \in 0..(b - 1) |-> IF c = 0 THEN 0 ELSE g[c - 1] + Len(blocks[c].items)]
    BY <1>4, Zenon DEF SizesTo
  <1> DEFINE h == [c \in 0..b |-> IF c = 0 THEN 0 ELSE g[c - 1] + Len(blocks[c].items)]
  <1>6. ASSUME NEW c \in 0..b, c # 0
        PROVE  g[c - 1] = h[c - 1]
    <2>1. c - 1 \in 0..(b - 1) /\ c - 1 \in 0..b
      BY <1>3, <1>6
    <2> QED BY <1>5, <2>1
  <1>7. SizesTo(h, blocks, b)
    <2>1. h = [c \in 0..b |-> IF c = 0 THEN 0 ELSE h[c - 1] + Len(blocks[c].items)]
      BY <1>6
    <2> HIDE DEF h
    <2> QED BY <2>1, Zenon DEF SizesTo
  <1> HIDE DEF h
  <1> QED BY <1>1, <1>7

\* Size is a number, and that of no blocks is 0.
LEMMA SizeCounts ==
    ASSUME NEW blocks \in Seq(BlockType)
    PROVE  Conversation!Size(blocks) \in Nat /\ (blocks = <<>> => Conversation!Size(blocks) = 0)
  <1>1. PICK k \in Nat : k = Len(blocks)
    OBVIOUS
  <1>2. PICK r : r = Sizes(blocks)
    OBVIOUS
  <1>3. SizesTo(r, blocks, k)
    BY <1>1, <1>2, SizesExist, Zenon DEF Sizes
  <1>4. \A c \in 0..k : r[c] = IF c = 0 THEN 0 ELSE r[c - 1] + Len(blocks[c].items)
    <2>1. r = [c \in 0..k |-> IF c = 0 THEN 0 ELSE r[c - 1] + Len(blocks[c].items)]
      BY <1>3, Zenon DEF SizesTo
    <2> QED BY <2>1
  <1> DEFINE T == {c \in 0..k : r[c] \notin Nat}
  <1>5. T = {}
    <2> SUFFICES ASSUME T # {} PROVE FALSE
      OBVIOUS
    <2>1. PICK c \in T : \A d \in T : c <= d
      <3>1. T \subseteq Nat
        OBVIOUS
      <3> QED BY <3>1, Least
    <2>2. c \in 0..k /\ c # 0
      BY <1>4, <2>1
    <2>3. c - 1 \in 0..k /\ c - 1 \notin T
      BY <2>1, <2>2
    <2>4. r[c - 1] \in Nat
      BY <2>3
    <2>5. Len(blocks[c].items) \in Nat
      <3>1. blocks[c] \in BlockType
        BY <1>1, <2>2
      <3>2. blocks[c].items \in Seq(Nat)
        BY <3>1 DEF BlockType
      <3> QED BY <3>2
    <2> QED BY <1>4, <2>1, <2>2, <2>4, <2>5
  <1>6. Conversation!Size(blocks) = r[k] /\ k \in 0..k
    BY <1>1, <1>2, SizeIs
  <1> QED BY <1>1, <1>4, <1>5, <1>6

------------------------------------------------------------------------------
(* ConversationInv is inductive                                                *)

\* What a query of a session with so many events returns.
Reach(limit) == IF limit < EventLimit THEN limit ELSE EventLimit
Complete(out, n) == \A m \in 1..n : Conversation!Visible(m) => Has(out, m)

ConversationTypes ==
    /\ chat \in Seq(Entries)
    /\ export = [limit |-> export.limit, budget |-> export.budget, blocks |-> export.blocks,
                 cut |-> export.cut, note |-> export.note]
    /\ export.limit \in 0..Len(chat)
Transcribed == Good(export.blocks, Reach(export.limit)) /\ Complete(export.blocks, Reach(export.limit))
Budgeted ==
    /\ export.budget > 0 => export.cut + export.note <= export.budget
    /\ export.note > 0 <=> export.cut < Conversation!Size(export.blocks)
ConversationInv == ConversationTypes /\ Transcribed /\ Budgeted

\* A query returns no more than there is (EXPORT_EVENT_LIMIT).
LEMMA ReachIs == \A limit \in Nat : Reach(limit) \in Nat /\ Reach(limit) <= limit
  BY BudgetsAssumption DEF Reach

\* The text of an event is empty, blank or words.
LEMMA EntriesSpoken == \A e \in Entries : Spoken(e)
  <1> SUFFICES ASSUME NEW e \in Entries PROVE Spoken(e)
    OBVIOUS
  <1>1. CASE e \in Conversation!Ending \union {[type |-> "PromptSubmitted", text |-> "words"]}
    BY <1>1 DEF Conversation!Ending, Spoken, Conversation!Text
  <1>2. CASE \E u \in Conversation!Update : Conversation!Mapped(u) /\ e = Conversation!Payload(u)
    <2>1. PICK u \in Conversation!Update : e = Conversation!Payload(u)
      BY <1>2
    <2>2. CASE u.kind \in {"message", "thought"}
      <3>1. e = [type |-> "StreamUpdate", thought |-> u.kind = "thought", text |-> u.text]
        BY <2>1, <2>2 DEF Conversation!Payload
      <3>2. u.text \in Conversation!Text
        <4>1. CASE u \in [kind : {"message"}, text : Conversation!Text]
          BY <4>1
        <4>2. CASE u \in [kind : {"thought"}, text : {"words"}]
          BY <4>2 DEF Conversation!Text
        <4>3. CASE u \in [kind : {"tool", "result", "user", "unmapped"}]
          BY <2>2, <4>3
        <4> QED BY <4>1, <4>2, <4>3 DEF Conversation!Update
      <3> QED BY <3>1, <3>2 DEF Spoken
    <2>3. CASE u.kind \notin {"message", "thought"}
      BY <2>1, <2>3 DEF Conversation!Payload, Spoken
    <2> QED BY <2>2, <2>3
  <1> QED BY <1>1, <1>2 DEF Entries

\* Nothing is exported at the start.
LEMMA ConversationInit == Conversation!Init => ConversationInv
  <1> SUFFICES ASSUME Conversation!Init PROVE ConversationInv
    OBVIOUS
  <1>1. chat = <<>> /\ export = [limit |-> 0, budget |-> 0, blocks |-> <<>>, cut |-> 0, note |-> 0]
    BY DEF Conversation!Init, Conversation!NoExport
  <1>2. /\ export.limit = 0 /\ export.budget = 0 /\ export.blocks = <<>> /\ export.cut = 0
        /\ export.note = 0
    BY <1>1
  <1>3. ConversationTypes
    BY <1>1, <1>2 DEF ConversationTypes
  <1>4. Reach(0) = 0 /\ 1..0 = {} /\ <<>> \in Seq(BlockType) /\ DOMAIN <<>> = {}
    BY ReachIs
  <1>5. Transcribed
    BY <1>2, <1>4 DEF Transcribed, Good, Rightly, InOrder, Apart, Complete
  <1>6. Budgeted
    <2>1. Conversation!Size(export.blocks) = 0
      BY <1>2, <1>4, SizeCounts
    <2>2. ~(0 > 0) /\ ~(0 < 0)
      OBVIOUS
    <2> QED BY <1>2, <2>1, <2>2, Zenon DEF Budgeted
  <1> QED BY <1>3, <1>5, <1>6 DEF ConversationInv

\* What was told of these events stays true of them.
LEMMA TranscriptStays ==
    ASSUME NEW n \in Nat, NEW out, Good(out, n), Complete(out, n), \A m \in 1..n : chat'[m] = chat[m]
    PROVE  Good(out, n)' /\ Complete(out, n)'
  <1>1. ASSUME NEW m \in 1..n
        PROVE  /\ Conversation!Visible(m)' <=> Conversation!Visible(m)
               /\ Conversation!Blank(m)' <=> Conversation!Blank(m)
               /\ Conversation!Speaker(m)' = Conversation!Speaker(m)
    <2>1. chat'[m] = chat[m]
      OBVIOUS
    <2> QED BY <2>1 DEF Conversation!Visible, Conversation!Blank, Conversation!Speaker
  <1>2. Rightly(out, n)'
    <2>1. ASSUME NEW b \in DOMAIN out, NEW i \in DOMAIN out[b].items
          PROVE  out[b].items[i] \in 1..n /\ Right(out[b].items[i], out[b].who)'
      <3>1. PICK m, who : m = out[b].items[i] /\ who = out[b].who
        OBVIOUS
      <3>2. m \in 1..n /\ Right(m, who)
        BY <2>1, <3>1 DEF Good, Rightly
      <3>3. Right(m, who)'
        BY <1>1, <3>2 DEF Right
      <3> QED BY <3>1, <3>2, <3>3
    <2> QED BY <2>1 DEF Rightly
  <1>3. Complete(out, n)'
    BY <1>1 DEF Complete, Has
  <1> QED BY <1>2, <1>3 DEF Good, InOrder, Apart

\* One more event, or none, and the same transcript.
LEMMA EventKeeps ==
    ASSUME ConversationInv, export' = export,
           chat' = chat \/ \E e \in Entries : chat' = Append(chat, e)
    PROVE  ConversationInv'
  <1>1. PICK k \in Nat : k = Len(chat) /\ DOMAIN chat = 1..k
    BY DEF ConversationInv, ConversationTypes
  <1>2. /\ chat' \in Seq(Entries) /\ Len(chat') \in Nat /\ k <= Len(chat')
        /\ \A m \in 1..k : chat'[m] = chat[m]
    <2>1. CASE chat' = chat
      BY <1>1, <2>1 DEF ConversationInv, ConversationTypes
    <2>2. CASE \E e \in Entries : chat' = Append(chat, e)
      BY <1>1, <2>2 DEF ConversationInv, ConversationTypes
    <2> QED BY <2>1, <2>2
  <1>3. PICK x : x = export
    OBVIOUS
  <1>4. x.limit \in Nat /\ x.limit <= k
    BY <1>1, <1>3 DEF ConversationInv, ConversationTypes
  <1>5. PICK n \in Nat : n = Reach(x.limit) /\ n <= k
    BY <1>1, <1>4, ReachIs
  <1>6. PICK out : out = x.blocks
    OBVIOUS
  <1>7. Good(out, n) /\ Complete(out, n)
    BY <1>3, <1>5, <1>6 DEF ConversationInv, Transcribed
  <1>8. Good(out, n)' /\ Complete(out, n)'
    <2>1. \A m \in 1..n : chat'[m] = chat[m]
      BY <1>2, <1>5
    <2> QED BY <1>7, <2>1, TranscriptStays
  <1>9. x = export' /\ Reach(x.limit)' = n /\ x.blocks = out
    BY <1>3, <1>5, <1>6 DEF Reach
  <1>10. Transcribed'
    BY <1>8, <1>9 DEF Transcribed, Reach
  <1>11. ConversationTypes'
    BY <1>2, <1>3, <1>4, <1>9 DEF ConversationInv, ConversationTypes
  <1>12. Budgeted'
    BY <1>3, <1>9 DEF ConversationInv, Budgeted, Conversation!Size
  <1> QED BY <1>10, <1>11, <1>12 DEF ConversationInv

\* What truncate_export leaves is within the budget, or all.
LEMMA Truncated ==
    ASSUME NEW blocks \in Seq(BlockType), NEW budget \in Nat,
           NEW rest, rest = Conversation!truncate_export(blocks, budget)
    PROVE  /\ budget > 0 => rest.cut + rest.note <= budget
           /\ rest.note > 0 <=> rest.cut < Conversation!Size(blocks)
  <1>1. PICK size \in Nat : size = Conversation!Size(blocks)
    BY SizeCounts
  <1>2. CASE budget = 0 \/ size <= budget
    <2>1. rest = [cut |-> size, note |-> 0]
      BY <1>1, <1>2, Zenon DEF Conversation!truncate_export
    <2> QED BY <1>1, <1>2, <2>1
  <1>3. CASE ~(budget = 0 \/ size <= budget) /\ NoteSize >= budget
    <2>1. rest = [cut |-> 0, note |-> budget]
      BY <1>1, <1>3, Zenon DEF Conversation!truncate_export
    <2> QED BY <1>1, <1>3, <2>1
  <1>4. CASE ~(budget = 0 \/ size <= budget) /\ ~(NoteSize >= budget)
    <2>1. rest = [cut |-> budget - NoteSize, note |-> NoteSize]
      BY <1>1, <1>4, Zenon DEF Conversation!truncate_export
    <2> QED BY <1>1, <1>4, <2>1, BudgetsAssumption
  <1> QED BY <1>2, <1>3, <1>4

\* A transcript is made.
LEMMA ExportKeeps ==
    ASSUME ConversationInv, NEW budget \in Nat, Conversation!export_conversation(budget)
    PROVE  ConversationInv'
  <1>1. PICK q \in Nat : q = Conversation!Queried(EventLimit) /\ q = Reach(Len(chat)) /\ q <= Len(chat)
    <2>1. Len(chat) \in Nat
      BY DEF ConversationInv, ConversationTypes
    <2> QED BY <2>1, ReachIs, BudgetsAssumption DEF Reach, Conversation!Queried
  <1>2. PICK blocks : blocks = Conversation!Exported(EventLimit)
    OBVIOUS
  <1>3. PICK rest : rest = Conversation!truncate_export(blocks, budget)
    OBVIOUS
  <1>4. PICK k \in Nat : k = Len(chat) /\ DOMAIN chat = 1..k
    BY DEF ConversationInv, ConversationTypes
  <1>5. /\ export' = [limit |-> k, budget |-> budget, blocks |-> blocks,
                      cut |-> rest.cut, note |-> rest.note]
        /\ chat' = chat
    BY <1>2, <1>3, <1>4, Zenon DEF Conversation!export_conversation
  <1>6. Good(blocks, q) /\ Complete(blocks, q)
    <2>1. \A m \in 1..q : Spoken(chat[m])
      <3>1. \A m \in 1..k : chat[m] \in Entries
        BY <1>4 DEF ConversationInv, ConversationTypes
      <3> QED BY <1>1, <1>4, <3>1, EntriesSpoken
    <2> QED BY <1>1, <1>2, <2>1, ExportedWell DEF Complete
  <1>7. /\ export'.limit = k /\ export'.budget = budget /\ export'.blocks = blocks
        /\ export'.cut = rest.cut /\ export'.note = rest.note
    BY <1>5
  <1>8. ConversationTypes'
    <2>1. k \in 0..Len(chat')
      BY <1>4, <1>5
    <2> QED BY <1>5, <1>7, <2>1 DEF ConversationInv, ConversationTypes
  <1>9. Transcribed'
    <2>1. Good(blocks, q)' /\ Complete(blocks, q)'
      BY <1>5, <1>6, TranscriptStays
    <2>2. q = Reach(k)
      BY <1>1, <1>4
    <2> QED BY <1>7, <2>1, <2>2 DEF Transcribed, Reach
  <1>10. Budgeted'
    <2>1. /\ budget > 0 => rest.cut + rest.note <= budget
          /\ rest.note > 0 <=> rest.cut < Conversation!Size(blocks)
      BY <1>3, <1>6, Truncated DEF Good
    <2> QED BY <1>7, <2>1 DEF Budgeted, Conversation!Size
  <1> QED BY <1>8, <1>9, <1>10 DEF ConversationInv

\* ConversationInv is inductive.
LEMMA ConversationKept ==
    ASSUME ConversationInv, [Conversation!Next]_(Conversation!vars)
    PROVE  ConversationInv'
  <1>1. CASE UNCHANGED Conversation!vars
    BY <1>1, EventKeeps DEF Conversation!vars
  <1>2. ASSUME NEW u \in Conversation!Update, Conversation!handle_session_notification(u)
        PROVE  ConversationInv'
    <2>1. /\ export' = export
          /\ chat' = chat \/ (Conversation!Mapped(u) /\ chat' = Append(chat, Conversation!Payload(u)))
      BY <1>2 DEF Conversation!handle_session_notification, Conversation!append_payload
    <2>2. Conversation!Mapped(u) => Conversation!Payload(u) \in Entries
      BY DEF Entries
    <2> QED BY <2>1, <2>2, EventKeeps
  <1>3. CASE Conversation!await_prompt
    <2>1. export' = export /\ chat' = Append(chat, [type |-> "PromptSubmitted", text |-> "words"])
      BY <1>3 DEF Conversation!await_prompt, Conversation!append_payload
    <2>2. [type |-> "PromptSubmitted", text |-> "words"] \in Entries
      BY DEF Entries
    <2> QED BY <2>1, <2>2, EventKeeps
  <1>4. CASE Conversation!prompt_ends
    <2>1. export' = export /\ (chat' = chat \/ \E e \in Conversation!Ending : chat' = Append(chat, e))
      BY <1>4 DEF Conversation!prompt_ends, Conversation!append_payload
    <2>2. Conversation!Ending \subseteq Entries
      BY DEF Entries
    <2> QED BY <2>1, <2>2, EventKeeps
  <1>5. CASE Conversation!export_session
    <2>1. Conversation!export_conversation(0)
      BY <1>5 DEF Conversation!export_session
    <2> QED BY <2>1, ExportKeeps
  <1>6. ASSUME NEW max \in Budget, Conversation!rebind(max)
        PROVE  ConversationInv'
    <2>1. PICK budget \in Nat : budget = Conversation!transfer_budget(max)
      BY BudgetsAssumption DEF Conversation!transfer_budget
    <2>2. Conversation!export_conversation(budget)
      BY <1>6, <2>1 DEF Conversation!rebind
    <2> QED BY <2>2, ExportKeeps
  <1> QED BY <1>1, <1>2, <1>3, <1>4, <1>5, <1>6 DEF Conversation!Next

\* export_conversation and truncate_export tell the conversation as it was (ExportIsFaithful),
\* whatever updates, prompts, errors and new agents come between.
THEOREM ExportedFaithfully == Conversation!Spec => []ExportIsFaithful
<1>1. Conversation!Init => ConversationInv
  BY ConversationInit
<1>2. ConversationInv /\ [Conversation!Next]_(Conversation!vars) => ConversationInv'
  BY ConversationKept
<1>3. ConversationInv => ExportIsFaithful
  <2> SUFFICES ASSUME ConversationInv PROVE ExportIsFaithful
    OBVIOUS
  <2>1. PICK e : e = export
    OBVIOUS
  <2>2. PICK n : n = Reach(e.limit)
    OBVIOUS
  <2>3. Good(e.blocks, n) /\ Complete(e.blocks, n)
    BY <2>1, <2>2 DEF ConversationInv, Transcribed
  <2>4. \A b \in DOMAIN e.blocks : \A i \in DOMAIN e.blocks[b].items :
            /\ e.blocks[b].items[i] \in 1..n
            /\ Conversation!Visible(e.blocks[b].items[i]) \/ Conversation!Blank(e.blocks[b].items[i])
            /\ Conversation!Speaker(e.blocks[b].items[i]) = e.blocks[b].who
    BY <2>3 DEF Good, Rightly, Right
  <2>5. \A m \in 1..n : Conversation!Visible(m) =>
            \E b \in DOMAIN e.blocks : \E i \in DOMAIN e.blocks[b].items : e.blocks[b].items[i] = m
    BY <2>3, Zenon DEF Complete, Has
  <2>6. \A b, c \in DOMAIN e.blocks :
            \A i \in DOMAIN e.blocks[b].items, j \in DOMAIN e.blocks[c].items :
                b < c \/ (b = c /\ i < j) => e.blocks[b].items[i] < e.blocks[c].items[j]
    BY <2>3, Zenon DEF Good, InOrder
  <2>7. \A b \in DOMAIN e.blocks :
            b > 1 /\ e.blocks[b].who = "Assistant" => e.blocks[b - 1].who # "Assistant"
    BY <2>3, Zenon DEF Good, Apart
  <2>8. /\ e.budget > 0 => e.cut + e.note <= e.budget
        /\ e.note > 0 <=> e.cut < Conversation!Size(e.blocks)
    BY <2>1, Zenon DEF ConversationInv, Budgeted
  <2>9. n = IF e.limit < EventLimit THEN e.limit ELSE EventLimit
    BY <2>2 DEF Reach
  <2>10. Conversation!ExportIsFaithful
    <3> SUFFICES /\ \A b \in DOMAIN e.blocks : \A i \in DOMAIN e.blocks[b].items :
                       /\ e.blocks[b].items[i] \in 1..n
                       /\ \/ Conversation!Visible(e.blocks[b].items[i])
                          \/ Conversation!Blank(e.blocks[b].items[i])
                       /\ Conversation!Speaker(e.blocks[b].items[i]) = e.blocks[b].who
                 /\ \A m \in 1..n : Conversation!Visible(m) =>
                       \E b \in DOMAIN e.blocks : \E i \in DOMAIN e.blocks[b].items :
                           e.blocks[b].items[i] = m
                 /\ \A b, c \in DOMAIN e.blocks :
                       \A i \in DOMAIN e.blocks[b].items, j \in DOMAIN e.blocks[c].items :
                           b < c \/ (b = c /\ i < j) => e.blocks[b].items[i] < e.blocks[c].items[j]
                 /\ \A b \in DOMAIN e.blocks :
                       b > 1 /\ e.blocks[b].who = "Assistant" => e.blocks[b - 1].who # "Assistant"
                 /\ e.budget > 0 => e.cut + e.note <= e.budget
                 /\ e.note > 0 <=> e.cut < Conversation!Size(e.blocks)
      BY <2>1, <2>9 DEF Conversation!ExportIsFaithful
    <3> QED BY <2>4, <2>5, <2>6, <2>7, <2>8
  <2> QED BY <2>10 DEF ExportIsFaithful
<1> QED BY <1>1, <1>2, <1>3, PTL DEF Conversation!Spec
=============================================================================
