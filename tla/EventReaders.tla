----------------------------- MODULE EventReaders -----------------------------
(* Who reads the event store besides the sync hub: devices that page through   *)
(* the events of a session (src/api/events.rs, src/events/store.rs), and the   *)
(* watchdog of a turn, which subscribes to the bus (src/events/publisher.rs)   *)
(* from the row count on.  An event is its row id.                             *)
EXTENDS Integers, Sequences, FiniteSets

CONSTANTS
    Session,
    Watched,    \* the session whose events a device reads
    MaxRows,    \* bound on the events appended
    PageSize,   \* the limit a device asks for
    QueryLimit, \* DEFAULT_QUERY_LIMIT, 1000 in the code
    Capacity    \* BROADCAST_CAPACITY, 1024 in the code

VARIABLES
    rows,      \* the events table: the session of each row
    flying,    \* rows whose publish_live is still to come
    sub,       \* the subscription of the watchdog
    told,      \* the events it returned
    page,      \* what a device has read, and whether it met the beginning
    skipped    \* history: events that a subscription is known to lose

vars == <<rows, flying, sub, told, page, skipped>>
watch == <<sub, told, skipped>>

Id == DOMAIN rows
NewSub == [pc |-> "none", cursor |-> 0, replay |-> <<>>, last |-> 0, live |-> <<>>, lagged |-> FALSE]
Largest(S, low) == CHOOSE m \in S \union {low} : \A n \in S \union {low} : n <= m
Elements(q) == {q[n] : n \in DOMAIN q}

Init ==
    /\ rows = <<>> /\ flying = {}
    /\ sub = NewSub /\ told = {} /\ skipped = {}
    /\ page = [got |-> <<>>, start |-> FALSE]

------------------------------------------------------------------------------
(* Queries: the rows of S in order, the first or the last "limit" of them.     *)

Ascending(S) == [n \in 1..Cardinality(S) |-> CHOOSE e \in S : Cardinality({f \in S : f <= e}) = n]
First(limit, S) == Ascending({e \in S : Cardinality({f \in S : f < e}) < limit})
Newest(limit, S) == Ascending({e \in S : Cardinality({f \in S : f > e}) < limit})

\* A limit that is not positive stands for the default.
RowLimit(limit) == IF limit > 0 THEN limit ELSE QueryLimit
query_all(after, limit) == First(RowLimit(limit), {e \in Id : e > after})
query(s, after, limit) == First(RowLimit(limit), {e \in Id : rows[e] = s /\ e > after})
query_before(s, before, limit) ==
    Newest(RowLimit(limit), {e \in Id : rows[e] = s /\ (before > 0 => e < before)})

\* session_events: a negative cursor reads backwards, -1 from the end.
session_events(s, after, limit) ==
    IF after < 0 THEN query_before(s, -after - 1, limit) ELSE query(s, after, limit)

\* A device opens the session at its end, and reads on in either direction.
Read == page.got # <<>>
open_session ==
    /\ ~Read
    /\ LET p == session_events(Watched, -1, PageSize) IN
           page' = [got |-> p, start |-> Len(p) < PageSize]
    /\ UNCHANGED <<rows, flying, watch>>
older ==
    /\ Read /\ ~page.start
    /\ LET p == session_events(Watched, -page.got[1] - 1, PageSize) IN
           page' = [got |-> p \o page.got, start |-> Len(p) < PageSize]
    /\ UNCHANGED <<rows, flying, watch>>
newer ==
    /\ Read
    /\ LET p == session_events(Watched, page.got[Len(page.got)], PageSize) IN
           page' = [page EXCEPT !.got = @ \o p]
    /\ UNCHANGED <<rows, flying, watch>>

------------------------------------------------------------------------------
(* append_and_publish, by any number of tasks; their broadcasts overtake each  *)
(* other.  A receiver that is behind loses what the channel cannot hold.       *)

append_blocking(s) ==
    /\ Len(rows) < MaxRows
    /\ rows' = Append(rows, s)
    /\ flying' = flying \union {Len(rows) + 1}
    /\ UNCHANGED <<watch, page>>

publish_live(e) ==
    /\ e \in flying /\ flying' = flying \ {e}
    /\ IF sub.pc \in {"none", "counted"}
       THEN UNCHANGED <<sub, skipped>>
       ELSE IF Len(sub.live) < Capacity
       THEN sub' = [sub EXCEPT !.live = Append(@, e)] /\ UNCHANGED skipped
       ELSE /\ sub' = [sub EXCEPT !.live = Append(Tail(@), e), !.lagged = TRUE]
            /\ skipped' = skipped \union {Head(sub.live)}
    /\ UNCHANGED <<rows, told, page>>

------------------------------------------------------------------------------
(* The subscription                                                            *)

\* count: no row is ever deleted, so this is the id of the last one.
count ==
    /\ sub.pc = "none"
    /\ sub' = [NewSub EXCEPT !.pc = "counted", !.cursor = Len(rows)]
    /\ UNCHANGED <<rows, flying, told, page, skipped>>

\* subscribe: the receiver first, and then
subscribe ==
    /\ sub.pc = "counted" /\ sub' = [sub EXCEPT !.pc = "registered"]
    /\ UNCHANGED <<rows, flying, told, page, skipped>>
\* the rows after the cursor; those past the limit are not looked for again.
Replayed(last) ==
    /\ sub.pc = "registered"
    /\ sub' = [sub EXCEPT !.pc = "reading", !.replay = query_all(sub.cursor, 0), !.last = last]
    /\ skipped' = skipped \union {e \in Id : e > last /\ e \notin flying \union Elements(sub.live)}
    /\ UNCHANGED <<rows, flying, told, page>>
\* A mutant: what is live counts from the newest row.
replay_newest == Replayed(Len(rows))
replay == Replayed(Largest(Elements(query_all(sub.cursor, 0)), sub.cursor))

\* What is still to come when a later event has been told.
Overtaken(id) == {e \in flying \union Elements(sub.live) : sub.last < e /\ e < id}

\* recv_or_lag: the replay, and then the live events that are new.
recv_or_lag ==
    /\ sub.pc = "reading"
    /\ \/ /\ sub.replay # <<>>
          /\ sub' = [sub EXCEPT !.replay = Tail(@), !.last = Largest({Head(sub.replay)}, @)]
          /\ told' = told \union {Head(sub.replay)}
          /\ UNCHANGED skipped
       \/ /\ sub.replay = <<>> /\ sub.lagged
          /\ sub' = [sub EXCEPT !.lagged = FALSE] /\ UNCHANGED <<told, skipped>>
       \/ /\ sub.replay = <<>> /\ ~sub.lagged /\ sub.live # <<>>
          /\ IF Head(sub.live) > sub.last
             THEN /\ sub' = [sub EXCEPT !.live = Tail(@), !.last = Head(sub.live)]
                  /\ told' = told \union {Head(sub.live)}
                  /\ skipped' = skipped \union Overtaken(Head(sub.live))
             ELSE sub' = [sub EXCEPT !.live = Tail(@)] /\ UNCHANGED <<told, skipped>>
    /\ UNCHANGED <<rows, flying, page>>

\* The turn is over.
cancelled ==
    /\ sub.pc # "none" /\ sub' = NewSub
    /\ told' = {} /\ skipped' = {}
    /\ UNCHANGED <<rows, flying, page>>

Next ==
    \/ \E s \in Session : append_blocking(s)
    \/ \E e \in flying : publish_live(e)
    \/ open_session \/ older \/ newer
    \/ count \/ subscribe \/ replay \/ recv_or_lag \/ cancelled

Spec == Init /\ [][Next]_vars

------------------------------------------------------------------------------
(* Properties                                                                  *)

\* What a device has read of a session are its events from one to another, each once
\* and in order, however many are appended between its requests; and all of them
\* from the first, once a page was short.
PagesAreWhole ==
    LET got == Elements(page.got) IN
    /\ page.got = Ascending(got)
    /\ \A e \in Id : rows[e] = Watched /\ Read =>
           (e \in got <=> (page.start \/ page.got[1] <= e) /\ e <= page.got[Len(page.got)])

\* Every event after the count is told to the watchdog, or will be: it is in the
\* replay, in its channel or still to be published.
SubscriberIsTold ==
    sub.pc \in {"registered", "reading"} =>
        \A e \in Id : e > sub.cursor =>
            \/ e \in told \union Elements(sub.replay) \union skipped
            \/ e \in flying /\ (sub.pc = "reading" => e > sub.last)
            \/ sub.pc = "registered"
            \/ e \in Elements(sub.live) /\ e > sub.last
=============================================================================
