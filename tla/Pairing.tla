------------------------------- MODULE Pairing -------------------------------
(* Pairing and revoking devices: the pairing manager (src/pairing/mod.rs), the *)
(* handlers that call it (src/api/pair.rs, devices.rs, workspaces.rs), the     *)
(* request limiter in front of them, and the web sockets that a revocation has *)
(* to close (src/sync/mod.rs).  The manager's methods hold one mutex, so each  *)
(* is one action; the callbacks of an executed action run after it is          *)
(* released, and a socket is registered after its credential was checked.      *)
(* A code stands for both the passcode and the token of a pairing session.     *)
EXTENDS Integers, Sequences, FiniteSets

CONSTANTS
    Peer,            \* the addresses of pair_rate_key
    Path,            \* workspaces a device asks to register
    MaxCodes, MaxDevices, MaxActions, MaxConns, \* how many are ever made
    MaxTime, MaxCalls, MaxFaults, MaxRestarts,  \* bounds on the environment
    SessionTTL, InactivityTTL, PersistThrottle, \* durations, in ticks of clock
    Window, BaseLockout, MaxLockout, Grace,
    MaxAttempts,                                \* MAX_VERIFY_ATTEMPTS
    Burst, Rate, IdleTTL, EvictThreshold        \* the token bucket of pair.rs

\* PAIR_RATE_IDLE_TTL is as long as an empty bucket takes to fill.
ASSUME RateAssumption ==
    /\ {Burst, Rate, IdleTTL, EvictThreshold} \subseteq Nat
    /\ Rate * IdleTTL >= Burst
ASSUME DurationAssumption ==
    /\ {SessionTTL, InactivityTTL, PersistThrottle, Window, BaseLockout, MaxLockout} \subseteq Nat
    /\ Grace \in Nat /\ MaxAttempts \in Nat \ {0}
ASSUME BoundsAssumption ==
    {MaxCodes, MaxDevices, MaxActions, MaxConns, MaxTime, MaxCalls, MaxFaults, MaxRestarts}
        \subseteq Nat

Code == 1..MaxCodes
Device == 1..MaxDevices
Action == 1..MaxActions
Conn == 1..MaxConns
Time == 0..MaxTime

VARIABLES
    clock,
    sessions,    \* Inner.sessions: the codes that are live, with expires_at
    qr,          \* the pairing-*.png files
    devices,     \* Inner.devices: the devices, with last_seen
    disk,        \* devices.json
    lastPersist, \* Inner.last_persist, -1 for None
    pending,     \* Inner.pending
    calling,     \* callbacks of executed actions that are still to come
    lockouts,    \* Inner.lockouts
    buckets,     \* AppState.pair_rate
    conns,       \* web sockets: where they are and whose they are
    made,        \* how many codes, devices and actions there have been
    env,         \* calls, faults and restarts so far
    issued,      \* history: the devices each code has paired
    revoked,     \* history: devices whose revocation was executed
    unsaved,     \* history: those whose removal could not be written
    slipped      \* history: sockets that were still in their handshake then

vars == <<clock, sessions, qr, devices, disk, lastPersist, pending, calling, lockouts,
          buckets, conns, made, env, issued, revoked, unsaved, slipped>>
history == <<issued, revoked, unsaved, slipped>>
pairing == <<sessions, qr, issued>>
store == <<devices, disk, lastPersist>>
limits == <<lockouts, buckets>>
delayed == <<pending, calling>>

NoLockout == [failures |-> <<>>, until |-> -1, count |-> 0]
NoConn == [at |-> "none", device |-> 0]
Target == [type : {"revocation"}, of : Device] \union [type : {"registration"}, of : Path]

Without(f, S) == [x \in DOMAIN f \ S |-> f[x]]
With(f, x, y) == [z \in DOMAIN f \union {x} |-> IF z = x THEN y ELSE f[z]]
Lesser(a, b) == IF a < b THEN a ELSE b

Init ==
    /\ clock = 0 /\ sessions = <<>> /\ qr = {} /\ devices = <<>> /\ disk = <<>>
    /\ lastPersist = -1 /\ pending = <<>> /\ calling = {} /\ lockouts = <<>>
    /\ buckets = <<>>
    /\ conns = [c \in Conn |-> NoConn]
    /\ made = [codes |-> 0, devices |-> 0, actions |-> 0]
    /\ env = [calls |-> 0, faults |-> 0, restarts |-> 0]
    /\ issued = [c \in Code |-> {}]
    /\ revoked = {} /\ unsaved = {} /\ slipped = {}

Count(field) == env' = [env EXCEPT ![field] = @ + 1]

------------------------------------------------------------------------------
(* devices.json: every save writes the whole map, or fails                     *)

save_devices(now) == disk' = now /\ UNCHANGED env
SaveFails == env.faults < MaxFaults /\ Count("faults") /\ UNCHANGED disk

------------------------------------------------------------------------------
(* The request limiter of the pairing routes                                   *)

\* The buckets after the eviction that a long table provokes.
Evict(idle) == IF Cardinality(DOMAIN buckets) > EvictThreshold
               THEN Without(buckets, {p \in DOMAIN buckets : clock - buckets[p].at >= idle})
               ELSE buckets
Kept == Evict(IdleTTL)

Tokens(p) == IF p \in DOMAIN Kept
             THEN Lesser(Burst, Kept[p].tokens + (clock - Kept[p].at) * Rate)
             ELSE Burst

allow_pair_request(p) ==
    LET take == IF Tokens(p) >= 1 THEN 1 ELSE 0
    IN buckets' = With(Kept, p, [tokens |-> Tokens(p) - take, at |-> clock])

Allowed(p) == Tokens(p) >= 1
Denied(p) == ~Allowed(p)

\* A call of a route: the limiter first, whatever the handler then does.
Request(p) == env.calls < MaxCalls /\ allow_pair_request(p)

pair_limited(p) == /\ Request(p) /\ Denied(p) /\ Count("calls")
                   /\ UNCHANGED <<clock, pairing, store, delayed, lockouts, conns,
                                  made, revoked, unsaved, slipped>>

\* validate_device_name refuses the request before the manager sees it.
bad_device_name(p) == /\ Request(p) /\ Allowed(p) /\ Count("calls")
                      /\ UNCHANGED <<clock, pairing, store, delayed, lockouts, conns,
                                     made, revoked, unsaved, slipped>>

------------------------------------------------------------------------------
(* Pairing                                                                     *)

Expired == {c \in DOMAIN sessions : sessions[c] <= clock}
Live == Without(sessions, Expired)

pair_initiate(p) == Request(p) /\ Allowed(p) /\ Count("calls")

create_session(p) ==
    /\ pair_initiate(p) /\ made.codes < MaxCodes
    /\ LET c == made.codes + 1
       IN /\ sessions' = With(Live, c, clock + SessionTTL)
          /\ qr' = (qr \ Expired) \union {c}
    /\ made' = [made EXCEPT !.codes = @ + 1]
    /\ UNCHANGED <<clock, store, delayed, lockouts, conns, history>>

Lockout(p) == IF p \in DOMAIN lockouts THEN lockouts[p] ELSE NoLockout
Recent(p) == LET InWindow(t) == clock - t < Window IN SelectSeq(Lockout(p).failures, InWindow)
Locked(p) == clock < Lockout(p).until

\* check_rate_limit drops old failures, also when it refuses.
Checked(p) == [Lockout(p) EXCEPT !.failures = Recent(p)]

record_failure(l) ==
    LET failures == Append(l.failures, clock)
        for == Lesser(MaxLockout, BaseLockout * 2 ^ Lesser(l.count, 8))
    IN IF Len(failures) >= MaxAttempts
       THEN [failures |-> <<>>, until |-> clock + for, count |-> l.count + 1]
       ELSE [l EXCEPT !.failures = failures]


\* What every outcome of verify begins with: the request, and the session clean-up.
verify(p) == Request(p) /\ Allowed(p) /\ UNCHANGED <<clock, delayed, conns>>

verify_locked(p) ==
    /\ verify(p) /\ Count("calls") /\ Locked(p)
    /\ sessions' = Live /\ qr' = qr \ Expired
    /\ lockouts' = With(lockouts, p, Checked(p))
    /\ UNCHANGED <<store, made, history>>

verify_miss(p) ==
    /\ verify(p) /\ Count("calls") /\ ~Locked(p)
    /\ sessions' = Live /\ qr' = qr \ Expired
    /\ lockouts' = With(lockouts, p, record_failure(Checked(p)))
    /\ UNCHANGED <<store, made, history>>

Issue(p, c, usedUp) ==
    /\ verify(p) /\ Count("calls") /\ ~Locked(p) /\ c \in DOMAIN Live
    /\ made.devices < MaxDevices
    /\ LET d == made.devices + 1
       IN /\ devices' = With(devices, d, clock) /\ disk' = devices'
          /\ issued' = [issued EXCEPT ![c] = @ \union {d}]
    /\ sessions' = Without(Live, usedUp) /\ qr' = qr \ (Expired \union {c})
    /\ lockouts' = IF p \in DOMAIN lockouts THEN [lockouts EXCEPT ![p] = NoLockout] ELSE lockouts
    /\ made' = [made EXCEPT !.devices = @ + 1]
    /\ UNCHANGED <<lastPersist, revoked, unsaved, slipped>>

issue_credential_reusable(p, c) == Issue(p, c, {})
issue_credential(p, c) == Issue(p, c, {c})

\* devices.json cannot be written: the session is put back, and no failure counted.
issue_fails(p, c) ==
    /\ verify(p) /\ ~Locked(p) /\ c \in DOMAIN Live /\ made.devices < MaxDevices
    /\ env.faults < MaxFaults
    /\ env' = [env EXCEPT !.calls = @ + 1, !.faults = @ + 1]
    /\ sessions' = Live /\ qr' = qr \ Expired
    /\ lockouts' = IF p \in DOMAIN lockouts THEN [lockouts EXCEPT ![p] = Checked(p)] ELSE lockouts
    /\ UNCHANGED <<store, made, history>>

------------------------------------------------------------------------------
(* Credentials and web sockets                                                 *)

Active(d) == /\ d \in DOMAIN devices
             /\ InactivityTTL > 0 => clock - devices[d] <= InactivityTTL

PersistDue == lastPersist = -1 \/ clock - lastPersist > PersistThrottle

\* last_seen moves, and is written at most once per PERSIST_THROTTLE.
validate_credential(d) ==
    /\ Active(d)
    /\ devices' = [devices EXCEPT ![d] = clock]
    /\ \/ PersistDue /\ disk' = devices' /\ lastPersist' = clock /\ UNCHANGED env
       \/ PersistDue /\ SaveFails /\ UNCHANGED lastPersist
       \/ ~PersistDue /\ UNCHANGED <<disk, lastPersist, env>>

\* A request of the API with a credential that is good.
require_auth(d) ==
    /\ validate_credential(d)
    /\ UNCHANGED <<clock, pairing, delayed, limits, conns, made, revoked, unsaved, slipped>>

authorize_handshake(c, d) ==
    /\ conns[c].at = "none" /\ validate_credential(d)
    /\ conns' = [conns EXCEPT ![c] = [at |-> "upgrade", device |-> d]]
    /\ UNCHANGED <<clock, pairing, delayed, limits, made, revoked, unsaved, slipped>>

\* run_client_pumps registers the socket once the upgrade is through.
register(c) ==
    /\ conns[c].at = "upgrade"
    /\ conns' = [conns EXCEPT ![c].at = "open"]
    /\ UNCHANGED <<clock, pairing, store, delayed, limits, made, env, revoked, unsaved, slipped>>

SocketEnds(c) ==
    /\ conns[c].at \in {"upgrade", "open"}
    /\ conns' = [conns EXCEPT ![c] = NoConn]
    /\ slipped' = slipped \ {c}
    /\ UNCHANGED <<clock, pairing, store, delayed, limits, made, env, revoked, unsaved>>

------------------------------------------------------------------------------
(* Actions that wait for a grace period                                        *)

pending_info(target, grace) == [target |-> target, at |-> clock + grace]

request_pending(target, grace) ==
    /\ made.actions < MaxActions
    /\ \A a \in DOMAIN pending : pending[a].target # target
    /\ pending' = With(pending, made.actions + 1, pending_info(target, grace))
    /\ made' = [made EXCEPT !.actions = @ + 1]
    /\ UNCHANGED <<clock, pairing, store, calling, limits, conns, env, revoked, unsaved, slipped>>

request_revocation(d, grace) ==
    d \in DOMAIN devices /\ request_pending([type |-> "revocation", of |-> d], grace)
revoke_device(d) == \E grace \in {0, Grace} : request_revocation(d, grace)

\* register_workspace asks for one only when the grace period is not zero.
request_workspace_registration(path) ==
    Grace > 0 /\ request_pending([type |-> "registration", of |-> path], Grace)

cancel_pending(a, type) ==
    /\ a \in DOMAIN pending /\ pending[a].target.type = type
    /\ pending' = Without(pending, {a})
    /\ UNCHANGED <<clock, pairing, store, calling, limits, conns, made, env, revoked, unsaved, slipped>>

\* A device may not cancel its own revocation; 0 is a caller on the host.
cancel_revocation(a, caller) ==
    cancel_pending(a, "revocation") /\ pending[a].target.of # caller
cancel_workspace_registration(a) == cancel_pending(a, "registration")

\* The timer thread, or the caller itself when the grace period is zero.
Due(a) == a \in DOMAIN pending /\ clock >= pending[a].at

Revoke(a, d) ==
    /\ pending' = Without(pending, {a})
    /\ calling' = calling \union {pending[a].target}
    /\ revoked' = revoked \union {d}
    /\ UNCHANGED <<clock, pairing, limits, conns, made, slipped>>

\* A mutant: the device goes, and devices.json stays as it is.
execute_revocation_unsaved(a, d) ==
    /\ Due(a) /\ pending[a].target = [type |-> "revocation", of |-> d]
    /\ devices' = Without(devices, {d}) /\ Revoke(a, d)
    /\ UNCHANGED <<disk, lastPersist, env, unsaved>>

execute_revocation(a, d) ==
    /\ Due(a) /\ pending[a].target = [type |-> "revocation", of |-> d]
    /\ devices' = Without(devices, {d})
    /\ UNCHANGED lastPersist
    /\ Revoke(a, d)
    /\ \/ d \in DOMAIN devices /\ save_devices(devices') /\ UNCHANGED unsaved
       \/ d \in DOMAIN devices /\ SaveFails /\ unsaved' = unsaved \union {d}
       \/ d \notin DOMAIN devices /\ UNCHANGED <<disk, env, unsaved>>

execute_registration(a) ==
    /\ Due(a) /\ pending[a].target.type = "registration"
    /\ pending' = Without(pending, {a})
    /\ calling' = calling \union {pending[a].target}
    /\ UNCHANGED <<clock, pairing, store, limits, conns, made, env, revoked, unsaved, slipped>>

\* HubRevocationListener: the registered sockets of the device are closed.
device_revoked_not(t) ==
    /\ t \in calling /\ t.type = "revocation" /\ calling' = calling \ {t}
    /\ UNCHANGED <<clock, pairing, store, pending, limits, conns, made, env, revoked, unsaved, slipped>>

device_revoked(t) ==
    LET its == {c \in Conn : conns[c].device = t.of}
    IN /\ t \in calling /\ t.type = "revocation"
       /\ calling' = calling \ {t}
       /\ conns' = [c \in Conn |-> IF c \in its /\ conns[c].at = "open" THEN NoConn ELSE conns[c]]
       /\ slipped' = slipped \union {c \in its : conns[c].at = "upgrade"}
       /\ UNCHANGED <<clock, pairing, store, pending, limits, made, env, revoked, unsaved>>

\* DaemonWorkspaceRegistrar calls tokio::spawn on the timer's own thread, which
\* belongs to no runtime: the call panics and the thread ends.
register_workspace(t) ==
    /\ t \in calling /\ t.type = "registration"
    /\ calling' = calling \ {t}
    /\ UNCHANGED <<clock, pairing, store, pending, limits, conns, made, env, revoked, unsaved, slipped>>

------------------------------------------------------------------------------

Tick == /\ clock < MaxTime /\ clock' = clock + 1
        /\ UNCHANGED <<pairing, store, delayed, limits, conns, made, env, revoked, unsaved, slipped>>

cleanup_stale_qr_files == {}

close == pending' = <<>> /\ calling' = {}

\* The end of the process, with or without close, and Manager::new on the files that are left.
Restart ==
    /\ env.restarts < MaxRestarts /\ Count("restarts")
    /\ sessions' = <<>> /\ qr' = cleanup_stale_qr_files /\ devices' = disk /\ lastPersist' = -1
    /\ close /\ lockouts' = <<>> /\ buckets' = <<>>
    /\ conns' = [c \in Conn |-> NoConn] /\ slipped' = {}
    /\ UNCHANGED <<clock, disk, made, issued, revoked, unsaved>>

Next ==
    \/ \E p \in Peer :
         \/ pair_limited(p) \/ bad_device_name(p) \/ create_session(p)
         \/ verify_locked(p) \/ verify_miss(p)
         \/ \E c \in Code : issue_credential(p, c) \/ issue_fails(p, c)
    \/ \E d \in Device : require_auth(d) \/ revoke_device(d)
    \/ \E c \in Conn : register(c) \/ SocketEnds(c) \/ \E d \in Device : authorize_handshake(c, d)
    \/ \E path \in Path : request_workspace_registration(path)
    \/ \E a \in Action :
         \/ \E caller \in {0} \union Device : cancel_revocation(a, caller)
         \/ cancel_workspace_registration(a)
         \/ \E d \in Device : execute_revocation(a, d)
         \/ execute_registration(a)
    \/ \E t \in Target : device_revoked(t) \/ register_workspace(t)
    \/ Tick
    \/ Restart

Spec == Init /\ [][Next]_vars

------------------------------------------------------------------------------
(* Properties                                                                  *)

\* A code pairs one device, also when a first attempt failed to write
\* devices.json and put the session back (issue_credential).
OneDevicePerCode == \A c \in Code : Cardinality(issued[c]) <= 1

\* A device whose revocation was executed is gone for good, from the memory of
\* the manager and of every later one, unless the write of its removal failed
\* (execute_pending ignores that error);
RevokedStaysOut == revoked \intersect (DOMAIN devices \union DOMAIN disk) \subseteq unsaved

\* no socket of a device that is no longer paired stays open once its listener
\* has run, except one that was between its check and its registration then;
RevokedIsDisconnected ==
    \A c \in Conn \ slipped :
        conns[c].at = "open" =>
            \/ conns[c].device \in DOMAIN devices
            \/ [type |-> "revocation", of |-> conns[c].device] \in calling

\* so that a revoked device can neither connect again nor go on listening
\* (execute_pending, device_revoked).
RevokedHasNoAccess == RevokedStaysOut /\ RevokedIsDisconnected
=============================================================================
