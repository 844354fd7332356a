------------------------------- MODULE Uploads -------------------------------
(* Images uploaded for sessions: the store of src/uploads/mod.rs, whose mutex   *)
(* makes each of its calls one step, and the handlers that use it: upload_file  *)
(* (src/api/session_extra.rs), send_prompt and close_session                    *)
(* (src/api/sessions.rs), and the daemon's shutdown.  A file is a name with a   *)
(* size; what decides whether the bytes are an image, and symbolic links, are   *)
(* left out: such an upload changes nothing.                                    *)
EXTENDS Integers, FiniteSets, FiniteSetsExt, Functions

CONSTANTS
    Session,
    Size,         \* sizes of images, in a unit of which
    SessionQuota, \* MAX_SESSION_UPLOAD_BYTES is this many
    Caller,      \* requests that may be under way at once
    MaxUploads,   \* files ever written
    MaxFaults     \* failing writes and removals, requests given up, ends of the daemon

Nobody == "nobody"

VARIABLES
    open,    \* sessions that are not closed
    files,   \* what is in each session's directory: records of a name and a size
    totals,  \* Manager.session_totals
    op,      \* requests under way
    counts,  \* files and faults so far
    counted, \* history: files that a store of this daemon reported
    misled   \* history: a session got a prompt whose attachment was gone

vars == <<open, files, totals, op, counts, counted, misled>>

Idle == [kind |-> "idle"]
SizeOf(F) == MapThenSumSet(LAMBDA f : f.size, F)
Fault == counts.faults < MaxFaults
Goto(r, o) == op' = [op EXCEPT ![r] = o]

\* Manager::new.  Uploads of an earlier daemon may be there, for one that was
\* ended in order removes them and one that crashed does not.
new == [s \in Session |-> 0]

Init ==
    /\ open = Session /\ files = [s \in Session |-> {}] /\ totals = new
    /\ op = [r \in Caller |-> Idle]
    /\ counts = [files |-> 0, faults |-> 0]
    /\ counted = {} /\ misled = FALSE

------------------------------------------------------------------------------
(* Uploads.  The body is read first, then the store is locked; nobody asks      *)
(* whether the session is open.                                                 *)

upload_file(r, s, size) ==
    /\ op[r] = Idle /\ s \in open
    /\ Goto(r, [kind |-> "upload", session |-> s, size |-> size])
    /\ UNCHANGED <<open, files, totals, counts, counted, misled>>

new_total(s, size) == totals[s] + size
Fits(s, size) == new_total(s, size) <= SessionQuota
File(s, size) == [name |-> counts.files + 1, session |-> s, size |-> size]

store(r) ==
    /\ op[r].kind = "upload" /\ counts.files < MaxUploads
    /\ LET s == op[r].session  f == File(s, op[r].size)
       IN IF Fits(s, f.size)
          THEN /\ files' = [files EXCEPT ![s] = @ \union {f}]
               /\ totals' = [totals EXCEPT ![s] = new_total(s, f.size)]
               /\ counted' = counted \union {f}
               /\ counts' = [counts EXCEPT !.files = @ + 1]
          ELSE UNCHANGED <<files, totals, counts, counted>>
    /\ Goto(r, Idle)
    /\ UNCHANGED <<open, misled>>

\* fs::write fails and leaves what it has written; the total stays as it was.
store_fails(r) ==
    /\ op[r].kind = "upload" /\ Fault /\ Fits(op[r].session, op[r].size)
    /\ counts.files < MaxUploads
    /\ \E size \in 0..op[r].size :
          files' = [files EXCEPT ![op[r].session] = @ \union {File(op[r].session, size)}]
    /\ counts' = [counts EXCEPT !.files = @ + 1, !.faults = @ + 1]
    /\ Goto(r, Idle)
    /\ UNCHANGED <<open, totals, counted, misled>>

------------------------------------------------------------------------------
(* Prompts with an attachment: its path is looked up, and only then is the      *)
(* session found, restored if need be, and given the prompt                     *)

get(r, s, f) ==
    /\ op[r] = Idle /\ f \in files[s]
    /\ Goto(r, [kind |-> "prompt", session |-> s, file |-> f])
    /\ UNCHANGED <<open, files, totals, counts, counted, misled>>

send_prompt(r) ==
    /\ op[r].kind = "prompt"
    /\ misled' = (misled \/ (op[r].session \in open /\ op[r].file \notin files[op[r].session]))
    /\ Goto(r, Idle)
    /\ UNCHANGED <<open, files, totals, counts, counted>>

------------------------------------------------------------------------------
(* The end of a session, and of the daemon                                      *)

close_session_early(r, s) ==
    /\ op[r] = Idle /\ s \in open
    /\ files' = [files EXCEPT ![s] = {}] /\ totals' = [totals EXCEPT ![s] = 0]
    /\ Goto(r, [kind |-> "close", session |-> s])
    /\ UNCHANGED <<open, counts, counted, misled>>
close_session(r, s) ==
    /\ op[r] = Idle /\ s \in open
    /\ open' = open \ {s}
    /\ Goto(r, [kind |-> "close", session |-> s])
    /\ UNCHANGED <<files, totals, counts, counted, misled>>

remove_session(r) ==
    /\ op[r].kind = "close"
    /\ files' = [files EXCEPT ![op[r].session] = {}]
    /\ totals' = [totals EXCEPT ![op[r].session] = 0]
    /\ Goto(r, Idle)
    /\ UNCHANGED <<open, counts, counted, misled>>

remove_session_fails(r) ==
    /\ op[r].kind = "close" /\ Fault
    /\ \E left \in SUBSET files[op[r].session] \ {{}} :
          files' = [files EXCEPT ![op[r].session] = left]
    /\ counts' = [counts EXCEPT !.faults = @ + 1]
    /\ Goto(r, Idle)
    /\ UNCHANGED <<open, totals, counted, misled>>

\* The caller of a handler goes away.
Abandon(r) ==
    /\ op[r] # Idle /\ Fault
    /\ counts' = [counts EXCEPT !.faults = @ + 1]
    /\ Goto(r, Idle)
    /\ UNCHANGED <<open, files, totals, counted, misled>>

\* The daemon ends and starts again: in order with remove_all, which may fail,
\* or by a crash.  Sessions come back as they were, requests do not.
Restarts(kept) ==
    /\ Fault
    /\ counts' = [counts EXCEPT !.faults = @ + 1]
    /\ files' = kept /\ totals' = new
    /\ op' = [r \in Caller |-> Idle]
    /\ counted' = {}
    /\ UNCHANGED <<open, misled>>

remove_all == \E s \in {Nobody} \union Session : Restarts([t \in Session |-> IF t = s THEN files[t] ELSE {}])
crash == Restarts(files)

Next ==
    \/ \E r \in Caller :
          \/ \E s \in Session :
                \/ \E size \in Size : upload_file(r, s, size)
                \/ \E f \in files[s] : get(r, s, f)
                \/ close_session(r, s)
          \/ store(r) \/ store_fails(r) \/ send_prompt(r)
          \/ remove_session(r) \/ remove_session_fails(r) \/ Abandon(r)
    \/ remove_all \/ crash

Spec == Init /\ [][Next]_vars

------------------------------------------------------------------------------
(* Properties                                                                   *)

\* However uploads, closes, failures and restarts follow one another, the files
\* that this daemon has reported for a session and that are still there stay
\* within the quota (store, remove_session); and a session never gets a prompt
\* whose attachment was removed after it had been looked up (send_prompt,
\* close_session).
QuotaHolds == \A s \in Session : SizeOf(files[s] \intersect counted) <= SessionQuota
UploadsAreKept == QuotaHolds /\ ~misled
==============================================================================
