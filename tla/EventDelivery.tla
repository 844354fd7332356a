---------------------------- MODULE EventDelivery ----------------------------
(* How a durable event reaches one WebSocket connection: the event store       *)
(* (src/events/store.rs), the tasks that append to it and publish              *)
(* (src/events/publisher.rs) and the sync hub (src/sync/mod.rs) with its       *)
(* bounded send queue, replay and resync.  An event is its row id.  The hub    *)
(* serves its connections one after the other, so the model follows one.       *)
EXTENDS Integers, Sequences, FiniteSets

CONSTANTS
    Appender,   \* the tasks that append and publish events
    MaxEvents,  \* bound on the events appended
    SendCap,    \* CLIENT_SEND_CAPACITY, 64 in the code
    QueryLimit, \* DEFAULT_QUERY_LIMIT, 1000 in the code
    MaxFaults   \* bound on failing queries

ASSUME BoundsAssumption ==
    /\ MaxEvents \in Nat /\ MaxFaults \in Nat
    /\ SendCap \in Nat \ {0} /\ QueryLimit \in Nat \ {0}

Event == 1..MaxEvents

\* The tasks that run resync_replay_only: the reconnect replay, and for every
\* event that found the queue full the resync it schedules.
Feed == 0
Task == {Feed} \union Event

VARIABLES
    log,     \* the highest row id of the event store
    pub,     \* where each appender is, and the event it publishes
    conn,    \* the ClientEntry of the connection and what `?after=` said
    queue,   \* the connection's mpsc channel
    task,    \* the replay and resync tasks
    sent,    \* the events the write pump put on the socket
    faults,
    missed,    \* history: events broadcast before the connection registered
    overtaken, \* history: events in publication when a higher id was queued
    cut        \* history: events that a query left out because of its limit

vars == <<log, pub, conn, queue, task, sent, faults, missed, overtaken, cut>>
history == <<missed, overtaken, cut>>

NoCursor == -1
Idle == [at |-> "idle", id |-> 0]
NoTask == [at |-> "none", cursor |-> 0, todo |-> <<>>, last |-> 0]
NewTask(c) == [at |-> "query", cursor |-> c, todo |-> <<>>, last |-> 0]

Larger(m, n) == IF m > n THEN m ELSE n
Queued == {queue[n] : n \in DOMAIN queue}
Todo(t) == {task[t].todo[n] : n \in DOMAIN task[t].todo}
Full == Len(queue) >= SendCap

Init ==
    /\ log = 0
    /\ pub = [a \in Appender |-> Idle]
    /\ conn = [at |-> "none", last |-> 0, after |-> NoCursor]
    /\ queue = <<>> /\ sent = {}
    /\ task = [t \in Task |-> NoTask]
    /\ faults = 0
    /\ missed = {} /\ overtaken = {} /\ cut = {}

------------------------------------------------------------------------------
(* append_and_publish: the row is durable first, and only then broadcast.      *)
(* Tasks run on several threads and nothing orders their broadcasts.           *)

append(a) ==
    /\ pub[a] = Idle /\ log < MaxEvents
    /\ log' = log + 1
    /\ pub' = [pub EXCEPT ![a] = [at |-> "stored", id |-> log + 1]]
    /\ UNCHANGED <<conn, queue, task, sent, faults, history>>

Publishing(a, at) == pub[a].at = at
Done(a) == pub' = [pub EXCEPT ![a] = Idle]
Step(a, at) == pub' = [pub EXCEPT ![a].at = at]

\* broadcast: the snapshot of the clients and the check of last_seen_id.
CheckSeen(a) ==
    /\ Publishing(a, "stored")
    /\ IF conn.at \in {"up", "closed"} /\ pub[a].id > conn.last THEN Step(a, "passed") ELSE Done(a)
    /\ missed' = IF conn.at = "none" THEN missed \union {pub[a].id} ELSE missed
    /\ UNCHANGED <<log, conn, queue, task, sent, faults, overtaken, cut>>

\* The events below id that are still in publication.
Behind(id) == {pub[b].id : b \in {b \in Appender : pub[b] # Idle /\ pub[b].id < id}}

\* broadcast: try_send has room, finds the queue full, or finds no receiver.
TrySend(a) ==
    /\ Publishing(a, "passed")
    /\ \/ /\ conn.at = "up" /\ ~Full
          /\ queue' = Append(queue, pub[a].id)
          /\ Step(a, "queued")
          /\ overtaken' = overtaken \union Behind(pub[a].id)
          /\ conn' = conn
       \/ /\ conn.at = "up" /\ Full
          /\ Step(a, "full")
          /\ UNCHANGED <<queue, conn, overtaken>>
       \/ /\ conn.at # "up"
          /\ Done(a)
          /\ conn' = [conn EXCEPT !.at = "gone"]
          /\ UNCHANGED <<queue, overtaken>>
    /\ UNCHANGED <<log, task, sent, faults, missed, cut>>

\* broadcast: fetch_max after the send.
NoteSent(a) ==
    /\ Publishing(a, "queued")
    /\ conn' = [conn EXCEPT !.last = Larger(@, pub[a].id)]
    /\ Done(a)
    /\ UNCHANGED <<log, queue, task, sent, faults, history>>

\* Mutant: the full queue is not followed up.
schedule_resync_not(a) ==
    /\ Publishing(a, "full")
    /\ Done(a)
    /\ task' = task
    /\ UNCHANGED <<log, conn, queue, sent, faults, history>>

\* broadcast: the cursor is read, and schedule_resync spawns a task for it if
\* the connection is still registered.
schedule_resync(a) ==
    /\ Publishing(a, "full")
    /\ Done(a)
    /\ task' = IF conn.at = "up"
               THEN [task EXCEPT ![pub[a].id] = NewTask(conn.last)]
               ELSE task
    /\ UNCHANGED <<log, conn, queue, sent, faults, history>>

------------------------------------------------------------------------------
(* The connection                                                              *)

\* run_client_pumps: register, and start the replay if the client said `?after=`.
Register ==
    /\ conn.at = "none"
    /\ \/ /\ conn' = [at |-> "up", last |-> 0, after |-> NoCursor] /\ task' = task
       \/ \E c \in 0..log :
             /\ conn' = [at |-> "up", last |-> c, after |-> c]
             /\ task' = [task EXCEPT ![Feed] = NewTask(c)]
    /\ UNCHANGED <<log, pub, queue, sent, faults, history>>

\* write_pump
Pump ==
    /\ conn.at = "up" /\ queue # <<>>
    /\ sent' = sent \union {Head(queue)}
    /\ queue' = Tail(queue)
    /\ UNCHANGED <<log, pub, conn, task, faults, history>>

\* A pump ends: the peer closed, missed its pong, was revoked, or the hub shuts
\* down.  The receiver goes, so every replay and resync ends at its next send.
Disconnect ==
    /\ conn.at = "up"
    /\ conn' = [conn EXCEPT !.at = "closed"]
    /\ queue' = <<>>
    /\ task' = [t \in Task |-> NoTask]
    /\ UNCHANGED <<log, pub, sent, faults, history>>

unregister ==
    /\ conn.at = "closed"
    /\ conn' = [conn EXCEPT !.at = "gone"]
    /\ UNCHANGED <<log, pub, queue, task, sent, faults, history>>

------------------------------------------------------------------------------
(* resync_replay_only                                                          *)

\* query_all: the rows after the cursor, in order, at most QueryLimit of them.
query_all(cursor) ==
    [n \in 1..(IF log - cursor < QueryLimit THEN Larger(log - cursor, 0) ELSE QueryLimit) |-> cursor + n]

ResyncQuery(t) ==
    /\ task[t].at = "query"
    /\ task' = [task EXCEPT ![t].at = "send", ![t].todo = query_all(task[t].cursor),
                            ![t].last = task[t].cursor]
    /\ cut' = cut \union {e \in Event : task[t].cursor + QueryLimit < e /\ e <= log}
    /\ UNCHANGED <<log, pub, conn, queue, sent, faults, missed, overtaken>>

\* The query failed; that is logged, and nothing more.
ResyncFails(t) ==
    /\ task[t].at = "query" /\ faults < MaxFaults
    /\ faults' = faults + 1
    /\ task' = [task EXCEPT ![t].at = "failed"]
    /\ UNCHANGED <<log, pub, conn, queue, sent, history>>

\* The next row, as soon as the channel has room for it.
ResyncSend(t) ==
    /\ task[t].at = "send" /\ task[t].todo # <<>> /\ ~Full
    /\ queue' = Append(queue, Head(task[t].todo))
    /\ task' = [task EXCEPT ![t].last = Head(task[t].todo), ![t].todo = Tail(@)]
    /\ UNCHANGED <<log, pub, conn, sent, faults, history>>

\* Mutant: the cursor moves to the newest event, not to the last one replayed.
ResyncDone_newest(t) ==
    /\ task[t].at = "send" /\ task[t].todo = <<>>
    /\ conn' = [conn EXCEPT !.last = Larger(@, log)]
    /\ task' = [task EXCEPT ![t] = NoTask]
    /\ UNCHANGED <<log, pub, queue, sent, faults, history>>

\* The client's cursor moves up to the last row replayed.
ResyncDone(t) ==
    /\ task[t].at = "send" /\ task[t].todo = <<>>
    /\ conn' = [conn EXCEPT !.last = Larger(@, task[t].last)]
    /\ task' = [task EXCEPT ![t] = NoTask]
    /\ UNCHANGED <<log, pub, queue, sent, faults, history>>

------------------------------------------------------------------------------
Broadcast(a) == CheckSeen(a) \/ TrySend(a) \/ NoteSent(a) \/ schedule_resync(a)
Resync(t) == ResyncQuery(t) \/ ResyncSend(t) \/ ResyncDone(t)

Daemon ==
    \/ \E a \in Appender : Broadcast(a)
    \/ \E t \in Task : Resync(t)
    \/ Pump \/ unregister

Next ==
    \/ Daemon
    \/ \E a \in Appender : append(a)
    \/ \E t \in Task : ResyncFails(t)
    \/ Register \/ Disconnect

Spec == Init /\ [][Next]_vars

\* The runtime runs its tasks.  Pump is among them although it needs a peer that
\* reads: one that does not is disconnected by the keepalive (Disconnect).
FairSpec == Spec /\ WF_vars(Daemon)

------------------------------------------------------------------------------
(* Properties                                                                  *)

\* The events the connection is owed: those after its cursor, or without one
\* those that were broadcast once it was registered.
Due == {e \in 1..log : IF conn.after = NoCursor THEN e \notin missed ELSE e > conn.after}

\* On its way: being published or queued, or a replay that will send it.
OnItsWay(e) ==
    \/ \E a \in Appender : pub[a].id = e
    \/ e \in Queued
    \/ \E t \in Task : e \in Todo(t) \/ (task[t].at = "query" /\ task[t].cursor < e)

\* The three ways in which the code does lose an event.
Excused(e) ==
    \/ e \in overtaken
    \/ e \in cut
    \/ \E t \in Task : task[t].at = "failed" /\ task[t].cursor < e

(* An event owed to a connection is on the socket or on its way, however full  *)
(* queues, replays, resyncs and broadcasts interleave: the check against       *)
(* last_seen_id never discards what no replay covers (sync/mod.rs:161-203,     *)
(* 275-302, 627-649).  Excepted are an event overtaken by a later one, and one *)
(* that a truncated or failed query did not replay.                            *)
NothingSkipped ==
    conn.at = "up" => \A e \in Due : e \in sent \/ OnItsWay(e) \/ Excused(e)

(* And it arrives, unless the connection ends: no resync waits for ever, no    *)
(* cycle of full queues starves it.                                            *)
EventArrives ==
    \A e \in Event :
       (conn.at = "up" /\ e \in Due) ~> (e \in sent \/ conn.at # "up" \/ Excused(e))

=============================================================================
