---------------------------- MODULE PairingProofs ----------------------------
(* Theorems about Pairing for any number of codes, devices, sockets, faults    *)
(* and restarts, proved with TLAPS.  The inductive invariant says what of the  *)
(* past the manager still remembers: which codes are used up, which devices    *)
(* the file may bring back, and what the socket of a device is waiting for.    *)
EXTENDS Pairing, FiniteSetTheorems, TLAPS

ConnType == [at : {"none", "upgrade", "open"}, device : 0..MaxDevices]

Types ==
    /\ made \in [codes : Nat, devices : Nat, actions : Nat]
    /\ issued \in [Code -> SUBSET Device]
    /\ conns \in [Conn -> ConnType]

(* A code that is live, or not made yet, has paired nobody.                    *)
CodesAreFresh ==
    /\ DOMAIN sessions \subseteq 1..made.codes
    /\ \A c \in Code : c \in DOMAIN sessions \/ c > made.codes => issued[c] = {}
    /\ \A c \in Code : issued[c] = {} \/ \E d \in Device : issued[c] = {d}

(* Nothing speaks of a device before it is made.                               *)
DevicesAreMade ==
    /\ DOMAIN devices \subseteq 1..made.devices
    /\ DOMAIN disk \subseteq 1..made.devices
    /\ revoked \subseteq 1..made.devices
    /\ \A a \in DOMAIN pending : pending[a].target.type = "revocation" =>
          pending[a].target.of \in 1..made.devices

(* devices.json names a device the manager does not only if a write failed.    *)
FileFollows == DOMAIN disk \ DOMAIN devices \subseteq unsaved

(* A socket, also one whose handshake is not over, belongs to a paired device, *)
(* or its listener is still to come.                                           *)
SocketsAreKnown ==
    \A c \in Conn \ slipped :
        conns[c].at \in {"upgrade", "open"} =>
            \/ conns[c].device \in DOMAIN devices
            \/ [type |-> "revocation", of |-> conns[c].device] \in calling

Inv ==
    /\ Types /\ CodesAreFresh
    /\ DevicesAreMade /\ FileFollows /\ RevokedStaysOut
    /\ SocketsAreKnown

------------------------------------------------------------------------------
LEMMA WithDomain ==
    ASSUME NEW f, NEW x, NEW y
    PROVE  DOMAIN With(f, x, y) = DOMAIN f \union {x}
BY DEF With

LEMMA WithoutDomain ==
    ASSUME NEW f, NEW S
    PROVE  DOMAIN Without(f, S) = DOMAIN f \ S /\ \A x \in DOMAIN f \ S : Without(f, S)[x] = f[x]
BY DEF Without

LEMMA LiveDomain == DOMAIN Live = DOMAIN sessions \ Expired
<1>1. Live = Without(sessions, Expired)
  BY DEF Live
<1> QED
  BY <1>1, WithoutDomain

\* A save of the device map, done or failed.
LEMMA ValidationKeeps ==
    ASSUME NEW d, validate_credential(d)
    PROVE  /\ d \in DOMAIN devices /\ DOMAIN devices' = DOMAIN devices
           /\ disk' = devices' \/ disk' = disk
BY DEF validate_credential, Active, SaveFails

LEMMA IssueMakes ==
    ASSUME NEW p, NEW c \in Code, issue_credential(p, c)
    PROVE  /\ made.devices < MaxDevices /\ made' = [made EXCEPT !.devices = @ + 1]
           /\ DOMAIN devices' = DOMAIN devices \union {made.devices + 1} /\ disk' = devices'
           /\ issued' = [issued EXCEPT ![c] = @ \union {made.devices + 1}]
           /\ c \in DOMAIN sessions /\ DOMAIN sessions' \subseteq DOMAIN sessions \ {c}
           /\ UNCHANGED <<pending, calling, conns, revoked, unsaved, slipped>>
<1>1. /\ made.devices < MaxDevices /\ made' = [made EXCEPT !.devices = @ + 1]
      /\ devices' = With(devices, made.devices + 1, clock) /\ disk' = devices'
      /\ issued' = [issued EXCEPT ![c] = @ \union {made.devices + 1}]
      /\ c \in DOMAIN Live /\ sessions' = Without(Live, {c})
      /\ UNCHANGED <<pending, calling, conns, revoked, unsaved, slipped>>
  BY DEF issue_credential, Issue, verify, delayed
<1>2. DOMAIN sessions' = DOMAIN Live \ {c}
  BY <1>1, WithoutDomain
<1> QED
  BY <1>1, <1>2, WithDomain, LiveDomain

------------------------------------------------------------------------------
(* The codes                                                                   *)

\* Whatever else happens to the codes, none is used and none becomes live.
CodesRest == /\ DOMAIN sessions' \subseteq DOMAIN sessions /\ issued' = issued
             /\ made'.codes = made.codes

LEMMA CodeSteps ==
    ASSUME Types, [Next]_vars
    PROVE  \/ CodesRest
           \/ \E p \in Peer : create_session(p)
           \/ \E p \in Peer, c \in Code : issue_credential(p, c)
<1>1. DOMAIN Live \subseteq DOMAIN sessions
  BY LiveDomain
<1>2. ASSUME NEW p \in Peer, \/ pair_limited(p) \/ bad_device_name(p) \/ verify_locked(p) \/ verify_miss(p)
                             \/ \E c \in Code : issue_fails(p, c)
      PROVE  CodesRest
  BY <1>1, <1>2
     DEF CodesRest, pair_limited, bad_device_name, verify_locked, verify_miss, issue_fails, pairing,
         store, history
<1>3. ASSUME NEW d \in Device, require_auth(d) \/ revoke_device(d) PROVE CodesRest
  BY <1>3 DEF CodesRest, require_auth, revoke_device, request_revocation, request_pending, pairing, Types
<1>4. ASSUME NEW c \in Conn,
             register(c) \/ SocketEnds(c) \/ \E d \in Device : authorize_handshake(c, d)
      PROVE  CodesRest
  BY <1>4 DEF CodesRest, register, SocketEnds, authorize_handshake, pairing
<1>5. ASSUME NEW path \in Path, request_workspace_registration(path) PROVE CodesRest
  BY <1>5 DEF CodesRest, request_workspace_registration, request_pending, pairing, Types
<1>6. ASSUME NEW a \in Action,
             \/ \E caller \in {0} \union Device : cancel_revocation(a, caller)
             \/ cancel_workspace_registration(a)
             \/ \E d \in Device : execute_revocation(a, d)
             \/ execute_registration(a)
      PROVE  CodesRest
  BY <1>6
     DEF CodesRest, cancel_revocation, cancel_workspace_registration, cancel_pending,
         execute_revocation, Revoke, execute_registration, pairing
<1>7. ASSUME NEW t \in Target, device_revoked(t) \/ register_workspace(t) PROVE CodesRest
  BY <1>7 DEF CodesRest, device_revoked, register_workspace, pairing
<1>8. ASSUME Tick \/ UNCHANGED vars PROVE CodesRest
  BY <1>8 DEF CodesRest, Tick, pairing, vars
<1>9. ASSUME Restart PROVE CodesRest
  BY <1>9 DEF CodesRest, Restart
<1> QED
  BY <1>2, <1>3, <1>4, <1>5, <1>6, <1>7, <1>8, <1>9 DEF Next

LEMMA CodesStep ==
    ASSUME Types, CodesAreFresh, [Next]_vars
    PROVE  CodesAreFresh'
<1>1. /\ made.codes \in Nat /\ made.devices \in Nat /\ issued \in [Code -> SUBSET Device]
      /\ MaxCodes \in Nat /\ MaxDevices \in Nat
  BY BoundsAssumption DEF Types
<1>2. CASE CodesRest
  BY <1>1, <1>2 DEF CodesAreFresh, CodesRest, Code
<1>3. ASSUME NEW p \in Peer, create_session(p) PROVE CodesAreFresh'
  <2>1. /\ made' = [made EXCEPT !.codes = @ + 1] /\ issued' = issued
        /\ sessions' = With(Live, made.codes + 1, clock + SessionTTL)
    BY <1>3 DEF create_session, history
  <2>2. made'.codes = made.codes + 1
    BY <2>1 DEF Types
  <2>3. DOMAIN sessions' = DOMAIN Live \union {made.codes + 1}
    BY <2>1, WithDomain
  <2>4. DOMAIN sessions' \subseteq DOMAIN sessions \union {made.codes + 1}
    BY <2>3, LiveDomain
  <2> QED
    BY <1>1, <2>1, <2>2, <2>4 DEF CodesAreFresh, Code
<1>4. ASSUME NEW p \in Peer, NEW c \in Code, issue_credential(p, c) PROVE CodesAreFresh'
  <2>1. /\ made.devices < MaxDevices /\ made'.codes = made.codes
        /\ issued' = [issued EXCEPT ![c] = @ \union {made.devices + 1}]
        /\ c \in DOMAIN sessions /\ DOMAIN sessions' \subseteq DOMAIN sessions \ {c}
    BY <1>4, IssueMakes DEF Types
  <2>2. issued[c] = {} /\ c <= made.codes /\ made.devices + 1 \in Device
    BY <1>1, <2>1 DEF CodesAreFresh, Device, Code
  <2>3. issued'[c] = {made.devices + 1} /\ \A e \in Code \ {c} : issued'[e] = issued[e]
    BY <1>1, <2>1, <2>2
  <2> QED
    BY <1>1, <2>1, <2>2, <2>3 DEF CodesAreFresh, Code
<1> QED
  BY <1>2, <1>3, <1>4, CodeSteps

------------------------------------------------------------------------------
(* The devices and their sockets                                               *)

\* The manager's devices are as before, and the file is too or is written.
DevicesRest ==
    /\ DOMAIN devices' = DOMAIN devices /\ (disk' = devices' \/ disk' = disk)
    /\ UNCHANGED <<revoked, unsaved>> /\ made'.devices = made.devices

\* What becomes of the sockets while their devices rest.
SocketsRest == UNCHANGED <<calling, conns, slipped>>

PendingRests == \A a \in DOMAIN pending' : a \in DOMAIN pending /\ pending'[a] = pending[a]

LEMMA RequestSteps ==
    ASSUME Types, DevicesAreMade, NEW target, NEW grace, request_pending(target, grace),
           target.type = "revocation" => target.of \in DOMAIN devices
    PROVE  /\ DevicesRest /\ SocketsRest
           /\ \A a \in DOMAIN pending' : pending'[a].target.type = "revocation" =>
                 pending'[a].target.of \in 1..made.devices
<1>1. /\ pending' = With(pending, made.actions + 1, pending_info(target, grace))
      /\ made' = [made EXCEPT !.actions = @ + 1]
      /\ UNCHANGED <<devices, disk, revoked, unsaved, calling, conns, slipped>>
  BY DEF request_pending, store
<1>2. DevicesRest /\ SocketsRest
  BY <1>1 DEF DevicesRest, SocketsRest, Types
<1>3. \A a \in DOMAIN pending' : \/ a \in DOMAIN pending /\ pending'[a] = pending[a]
                                 \/ pending'[a].target = target
  BY <1>1 DEF With, pending_info
<1> QED
  BY <1>2, <1>3 DEF DevicesAreMade

LEMMA DeviceSteps ==
    ASSUME Types, DevicesAreMade, [Next]_vars
    PROVE  \/ /\ DevicesRest
              /\ \A a \in DOMAIN pending' : pending'[a].target.type = "revocation" =>
                    pending'[a].target.of \in 1..made.devices
              /\ \/ SocketsRest
                 \/ \E c \in Conn : register(c) \/ SocketEnds(c)
                                    \/ \E d \in Device : authorize_handshake(c, d)
                 \/ \E a \in Action : execute_registration(a)
                 \/ \E t \in Target : device_revoked(t) \/ register_workspace(t)
           \/ \E p \in Peer, c \in Code : issue_credential(p, c)
           \/ \E a \in Action, d \in Device : execute_revocation(a, d)
           \/ Restart
<1> DEFINE Asked == \A a \in DOMAIN pending' : pending'[a].target.type = "revocation" =>
                       pending'[a].target.of \in 1..made.devices
<1>0. PendingRests => Asked
  BY DEF PendingRests, DevicesAreMade
<1>1. ASSUME NEW p \in Peer,
             \/ pair_limited(p) \/ bad_device_name(p) \/ create_session(p)
             \/ verify_locked(p) \/ verify_miss(p) \/ \E c \in Code : issue_fails(p, c)
      PROVE  DevicesRest /\ SocketsRest /\ Asked
  <2>1. /\ UNCHANGED <<devices, disk, revoked, unsaved, pending, calling, conns, slipped>>
        /\ made' = made \/ made' = [made EXCEPT !.codes = @ + 1]
    BY <1>1
       DEF pair_limited, bad_device_name, create_session, verify_locked, verify_miss, issue_fails,
           verify, store, delayed, history
  <2> QED
    BY <1>0, <2>1 DEF DevicesRest, SocketsRest, PendingRests, Types
<1>2. ASSUME NEW d \in Device, require_auth(d) PROVE DevicesRest /\ SocketsRest /\ Asked
  <2>1. /\ validate_credential(d)
        /\ UNCHANGED <<made, revoked, unsaved, pending, calling, conns, slipped>>
    BY <1>2 DEF require_auth, delayed
  <2> QED
    BY <1>0, <2>1, ValidationKeeps DEF DevicesRest, SocketsRest, PendingRests
<1>3. ASSUME NEW d \in Device, revoke_device(d) PROVE DevicesRest /\ SocketsRest /\ Asked
  <2>1. PICK grace \in {0, Grace} : /\ d \in DOMAIN devices
                                    /\ request_pending([type |-> "revocation", of |-> d], grace)
    BY <1>3 DEF revoke_device, request_revocation
  <2> QED
    BY <2>1, RequestSteps
<1>4. ASSUME NEW path \in Path, request_workspace_registration(path)
      PROVE  DevicesRest /\ SocketsRest /\ Asked
  <2>1. request_pending([type |-> "registration", of |-> path], Grace)
    BY <1>4 DEF request_workspace_registration
  <2> QED
    BY <2>1, RequestSteps
<1>5. ASSUME NEW c \in Conn, NEW d \in Device, authorize_handshake(c, d) PROVE DevicesRest /\ Asked
  <2>1. validate_credential(d) /\ UNCHANGED <<made, revoked, unsaved, pending>>
    BY <1>5 DEF authorize_handshake, delayed
  <2> QED
    BY <1>0, <2>1, ValidationKeeps DEF DevicesRest, PendingRests
<1>6. ASSUME \/ \E c \in Conn : register(c) \/ SocketEnds(c)
             \/ \E t \in Target : device_revoked(t) \/ register_workspace(t)
      PROVE  DevicesRest /\ Asked
  <2>1. UNCHANGED <<devices, disk, made, revoked, unsaved, pending>>
    BY <1>6 DEF register, SocketEnds, device_revoked, register_workspace, store, delayed
  <2> QED
    BY <1>0, <2>1 DEF DevicesRest, PendingRests
<1>7. ASSUME NEW a \in Action,
             \/ \E caller \in {0} \union Device : cancel_revocation(a, caller)
             \/ cancel_workspace_registration(a)
      PROVE  DevicesRest /\ SocketsRest /\ Asked
  <2>1. /\ pending' = Without(pending, {a})
        /\ UNCHANGED <<devices, disk, made, revoked, unsaved, calling, conns, slipped>>
    BY <1>7 DEF cancel_revocation, cancel_workspace_registration, cancel_pending, store
  <2>2. PendingRests
    BY <2>1 DEF PendingRests, Without
  <2> QED
    BY <1>0, <2>1, <2>2 DEF DevicesRest, SocketsRest
<1>8. ASSUME NEW a \in Action, execute_registration(a) PROVE DevicesRest /\ Asked
  <2>1. /\ pending' = Without(pending, {a})
        /\ UNCHANGED <<devices, disk, made, revoked, unsaved>>
    BY <1>8 DEF execute_registration, store
  <2>2. PendingRests
    BY <2>1 DEF PendingRests, Without
  <2> QED
    BY <1>0, <2>1, <2>2 DEF DevicesRest
<1>9. ASSUME Tick \/ UNCHANGED vars PROVE DevicesRest /\ SocketsRest /\ Asked
  <2>1. UNCHANGED <<devices, disk, made, revoked, unsaved, pending, calling, conns, slipped>>
    BY <1>9 DEF Tick, store, delayed, vars
  <2> QED
    BY <1>0, <2>1 DEF DevicesRest, SocketsRest, PendingRests
<1> HIDE DEF Asked
<1>10. ASSUME Next
       PROVE  \/ DevicesRest /\ Asked /\ SocketsRest
              \/ /\ DevicesRest /\ Asked
                 /\ \/ \E c \in Conn : register(c) \/ SocketEnds(c)
                                       \/ \E d \in Device : authorize_handshake(c, d)
                    \/ \E a \in Action : execute_registration(a)
                    \/ \E t \in Target : device_revoked(t) \/ register_workspace(t)
              \/ \E p \in Peer, c \in Code : issue_credential(p, c)
              \/ \E a \in Action, d \in Device : execute_revocation(a, d)
              \/ Restart
  BY <1>1, <1>2, <1>3, <1>4, <1>5, <1>6, <1>7, <1>8, <1>9, <1>10 DEF Next
<1> QED
  BY <1>9, <1>10 DEF Asked

LEMMA TypesStep ==
    ASSUME Types, DevicesAreMade, [Next]_vars
    PROVE  Types'
<1>1. /\ made \in [codes : Nat, devices : Nat, actions : Nat] /\ MaxDevices \in Nat
      /\ issued \in [Code -> SUBSET Device] /\ conns \in [Conn -> ConnType]
      /\ Device \subseteq 0..MaxDevices /\ 0 \in 0..MaxDevices
  BY BoundsAssumption DEF Types, Device
<1>2. \/ made' = made \/ made' = [made EXCEPT !.codes = @ + 1]
      \/ made' = [made EXCEPT !.actions = @ + 1] \/ made' = [made EXCEPT !.devices = @ + 1]
  <2>1. ASSUME NEW p \in Peer, NEW c \in Code, issue_credential(p, c) \/ issue_fails(p, c)
        PROVE  made' = made \/ made' = [made EXCEPT !.devices = @ + 1]
    BY <2>1 DEF issue_credential, issue_fails, Issue
  <2>2. ASSUME NEW p \in Peer,
               \/ pair_limited(p) \/ bad_device_name(p) \/ create_session(p)
               \/ verify_locked(p) \/ verify_miss(p)
        PROVE  made' = made \/ made' = [made EXCEPT !.codes = @ + 1]
    BY <2>2 DEF pair_limited, bad_device_name, create_session, verify_locked, verify_miss
  <2>3. ASSUME NEW d \in Device, require_auth(d) \/ revoke_device(d)
        PROVE  made' = made \/ made' = [made EXCEPT !.actions = @ + 1]
    BY <2>3 DEF require_auth, revoke_device, request_revocation, request_pending
  <2>4. ASSUME NEW path \in Path, request_workspace_registration(path)
        PROVE  made' = [made EXCEPT !.actions = @ + 1]
    BY <2>4 DEF request_workspace_registration, request_pending
  <2>5. ASSUME \/ \E c \in Conn : register(c) \/ SocketEnds(c)
                                  \/ \E d \in Device : authorize_handshake(c, d)
               \/ \E t \in Target : device_revoked(t) \/ register_workspace(t)
        PROVE  made' = made
    BY <2>5 DEF register, SocketEnds, authorize_handshake, device_revoked, register_workspace
  <2>6. ASSUME NEW a \in Action,
               \/ \E caller \in {0} \union Device : cancel_revocation(a, caller)
               \/ cancel_workspace_registration(a) \/ execute_registration(a)
               \/ \E d \in Device : execute_revocation(a, d)
        PROVE  made' = made
    BY <2>6 DEF cancel_revocation, cancel_workspace_registration, cancel_pending,
                execute_registration, execute_revocation, Revoke
  <2>7. ASSUME Tick \/ Restart \/ UNCHANGED vars PROVE made' = made
    BY <2>7 DEF Tick, Restart, vars
  <2> QED
    BY <2>1, <2>2, <2>3, <2>4, <2>5, <2>6, <2>7 DEF Next
<1>3. made' \in [codes : Nat, devices : Nat, actions : Nat]
  BY <1>1, <1>2
<1>4. issued' \in [Code -> SUBSET Device]
  <2>1. CASE issued' = issued
    BY <1>1, <2>1
  <2>2. ASSUME NEW p \in Peer, NEW c \in Code, issue_credential(p, c)
        PROVE  issued' \in [Code -> SUBSET Device]
    <3>1. made.devices + 1 \in Device
      BY <1>1, <2>2, IssueMakes DEF Device
    <3>2. issued' = [issued EXCEPT ![c] = @ \union {made.devices + 1}]
      BY <2>2, IssueMakes
    <3> QED
      BY <1>1, <3>1, <3>2
  <2> QED
    BY <2>1, <2>2, CodeSteps DEF CodesRest, create_session, history
<1>5. conns' \in [Conn -> ConnType]
  <2>1. CASE UNCHANGED conns
    BY <1>1, <2>1
  <2>2. ASSUME NEW c \in Conn, register(c) \/ SocketEnds(c) PROVE conns' \in [Conn -> ConnType]
    BY <1>1, <2>2 DEF register, SocketEnds, ConnType, NoConn
  <2>3. ASSUME NEW c \in Conn, NEW d \in Device, authorize_handshake(c, d)
        PROVE  conns' \in [Conn -> ConnType]
    BY <1>1, <2>3 DEF authorize_handshake, ConnType
  <2>4. ASSUME NEW t \in Target, device_revoked(t) PROVE conns' \in [Conn -> ConnType]
    BY <1>1, <2>4 DEF device_revoked, ConnType, NoConn
  <2>5. CASE Restart
    BY <1>1, <2>5 DEF Restart, ConnType, NoConn
  <2>6. ASSUME \/ \E p \in Peer, c \in Code : issue_credential(p, c)
               \/ \E a \in Action : execute_registration(a) \/ \E d \in Device : execute_revocation(a, d)
               \/ \E t \in Target : register_workspace(t)
               \/ SocketsRest
        PROVE  UNCHANGED conns
    BY <2>6, IssueMakes
       DEF execute_registration, execute_revocation, Revoke, register_workspace, SocketsRest
  <2> QED
    BY <2>1, <2>2, <2>3, <2>4, <2>5, <2>6, DeviceSteps
<1> QED
  BY <1>3, <1>4, <1>5 DEF Types

------------------------------------------------------------------------------
(* What a revocation leaves behind                                             *)

LEMMA IssueIsNew ==
    ASSUME Types, DevicesAreMade, NEW p \in Peer, NEW c \in Code, issue_credential(p, c)
    PROVE  /\ made.devices \in Nat /\ made'.devices = made.devices + 1
           /\ made.devices + 1 \notin revoked /\ made.devices + 1 \notin DOMAIN devices
           /\ 1..made.devices \subseteq 1..made'.devices /\ made.devices + 1 \in 1..made'.devices
BY IssueMakes DEF Types, DevicesAreMade

LEMMA RevocationRemoves ==
    ASSUME NEW a, NEW d, execute_revocation(a, d)
    PROVE  /\ a \in DOMAIN pending /\ pending[a].target = [type |-> "revocation", of |-> d]
           /\ DOMAIN devices' = DOMAIN devices \ {d}
           /\ PendingRests
           /\ calling' = calling \union {[type |-> "revocation", of |-> d]}
           /\ revoked' = revoked \union {d}
           /\ \/ disk' = devices' /\ unsaved' = unsaved
              \/ disk' = disk /\ unsaved' = unsaved \union {d}
              \/ disk' = disk /\ unsaved' = unsaved /\ d \notin DOMAIN devices
           /\ UNCHANGED <<made, conns, slipped>>
<1>1. /\ a \in DOMAIN pending /\ pending[a].target = [type |-> "revocation", of |-> d]
      /\ devices' = Without(devices, {d}) /\ pending' = Without(pending, {a})
      /\ calling' = calling \union {pending[a].target} /\ revoked' = revoked \union {d}
      /\ UNCHANGED <<made, conns, slipped>>
  BY DEF execute_revocation, Revoke, Due
<1>2. \/ disk' = devices' /\ unsaved' = unsaved
      \/ disk' = disk /\ unsaved' = unsaved \union {d}
      \/ disk' = disk /\ unsaved' = unsaved /\ d \notin DOMAIN devices
  BY DEF execute_revocation, save_devices, SaveFails
<1>3. PendingRests
  BY <1>1 DEF PendingRests, Without
<1> QED
  BY <1>1, <1>2, <1>3, WithoutDomain

LEMMA RestartForgets ==
    ASSUME Restart
    PROVE  /\ devices' = disk /\ disk' = disk /\ DOMAIN pending' = {}
           /\ conns' = [c \in Conn |-> NoConn]
           /\ UNCHANGED <<made, revoked, unsaved>>
BY DEF Restart, close

\* Nothing is known of a device that is not made, and a device that was revoked
\* is gone from the memory and from the file, or its removal was not written.
LEMMA DevicesStep ==
    ASSUME Types, DevicesAreMade, FileFollows, RevokedStaysOut, [Next]_vars
    PROVE  DevicesAreMade' /\ FileFollows' /\ RevokedStaysOut'
<1> DEFINE Goal == DevicesAreMade' /\ FileFollows' /\ RevokedStaysOut'
<1> USE DEF DevicesAreMade, FileFollows, RevokedStaysOut
<1>1. ASSUME DevicesRest,
             \A a \in DOMAIN pending' : pending'[a].target.type = "revocation" =>
                 pending'[a].target.of \in 1..made.devices
      PROVE  Goal
  BY <1>1 DEF DevicesRest
<1>2. ASSUME NEW p \in Peer, NEW c \in Code, issue_credential(p, c) PROVE Goal
  <2>1. /\ made.devices \in Nat /\ made'.devices = made.devices + 1
        /\ made.devices + 1 \notin revoked /\ made.devices + 1 \notin DOMAIN devices
        /\ 1..made.devices \subseteq 1..made'.devices /\ made.devices + 1 \in 1..made'.devices
    BY <1>2, IssueIsNew
  <2>2. /\ DOMAIN devices' = DOMAIN devices \union {made.devices + 1} /\ disk' = devices'
        /\ UNCHANGED <<pending, revoked, unsaved>>
    BY <1>2, IssueMakes
  <2>3. DevicesAreMade'
    BY <2>1, <2>2
  <2>4. FileFollows' /\ RevokedStaysOut'
    BY <2>1, <2>2
  <2> QED
    BY <2>3, <2>4
<1>3. ASSUME NEW a \in Action, NEW d \in Device, execute_revocation(a, d) PROVE Goal
  <2>1. /\ DOMAIN devices' = DOMAIN devices \ {d} /\ revoked' = revoked \union {d} /\ PendingRests
        /\ \/ disk' = devices' /\ unsaved' = unsaved
           \/ disk' = disk /\ unsaved' = unsaved \union {d}
           \/ disk' = disk /\ unsaved' = unsaved /\ d \notin DOMAIN devices
        /\ made' = made
        /\ a \in DOMAIN pending /\ pending[a].target = [type |-> "revocation", of |-> d]
    BY <1>3, RevocationRemoves
  <2>2. d \in 1..made.devices
    BY <2>1
  <2>3. DevicesAreMade'
    BY <2>1, <2>2 DEF PendingRests
  <2>4. FileFollows'
    BY <2>1
  <2>5. RevokedStaysOut'
    BY <2>1
  <2> QED
    BY <2>3, <2>4, <2>5
<1>4. ASSUME Restart PROVE Goal
  BY <1>4, RestartForgets
<1> HIDE DEF DevicesAreMade, FileFollows, RevokedStaysOut
<1> QED
  BY <1>1, <1>2, <1>3, <1>4, DeviceSteps

\* A socket that is not closed with its device is one whose handshake was not over.
LEMMA SocketsStep ==
    ASSUME Types, DevicesAreMade, SocketsAreKnown, [Next]_vars
    PROVE  SocketsAreKnown'
<1>1. conns \in [Conn -> ConnType]
  BY DEF Types
<1> USE DEF SocketsAreKnown
<1>2. ASSUME DevicesRest, SocketsRest PROVE SocketsAreKnown'
  BY <1>2 DEF DevicesRest, SocketsRest
<1>3. ASSUME DevicesRest, NEW c \in Conn, register(c) PROVE SocketsAreKnown'
  <2>1. conns' = [conns EXCEPT ![c].at = "open"] /\ conns[c].at = "upgrade"
        /\ UNCHANGED <<calling, slipped>> /\ DOMAIN devices' = DOMAIN devices
    BY <1>3 DEF register, DevicesRest, delayed
  <2>2. \A e \in Conn : /\ conns'[e].device = conns[e].device
                        /\ conns'[e].at \in {"upgrade", "open"} => conns[e].at \in {"upgrade", "open"}
    BY <1>1, <2>1 DEF ConnType
  <2> QED
    BY <2>1, <2>2
<1>4. ASSUME DevicesRest, NEW c \in Conn, SocketEnds(c) PROVE SocketsAreKnown'
  <2>1. conns' = [conns EXCEPT ![c] = NoConn] /\ slipped' = slipped \ {c}
        /\ calling' = calling /\ DOMAIN devices' = DOMAIN devices
    BY <1>4 DEF SocketEnds, DevicesRest, delayed
  <2>2. conns'[c].at = "none" /\ \A e \in Conn \ {c} : conns'[e] = conns[e]
    BY <1>1, <2>1 DEF NoConn
  <2> QED
    BY <2>1, <2>2
<1>5. ASSUME DevicesRest, NEW c \in Conn, NEW d \in Device, authorize_handshake(c, d)
      PROVE  SocketsAreKnown'
  <2>1. conns' = [conns EXCEPT ![c] = [at |-> "upgrade", device |-> d]] /\ validate_credential(d)
        /\ UNCHANGED <<calling, slipped>> /\ DOMAIN devices' = DOMAIN devices
    BY <1>5 DEF authorize_handshake, DevicesRest, delayed
  <2>2. conns'[c].device = d /\ \A e \in Conn \ {c} : conns'[e] = conns[e]
    BY <1>1, <2>1
  <2>3. d \in DOMAIN devices
    BY <2>1, ValidationKeeps
  <2> QED
    BY <2>1, <2>2, <2>3
<1>6. ASSUME DevicesRest, NEW a \in Action, execute_registration(a) PROVE SocketsAreKnown'
  <2>1. calling \subseteq calling' /\ UNCHANGED <<conns, slipped>> /\ DOMAIN devices' = DOMAIN devices
    BY <1>6 DEF execute_registration, DevicesRest
  <2> QED
    BY <2>1
<1>7. ASSUME DevicesRest, NEW t \in Target, register_workspace(t) PROVE SocketsAreKnown'
  <2>1. /\ t.type = "registration" /\ calling' = calling \ {t}
        /\ UNCHANGED <<conns, slipped>> /\ DOMAIN devices' = DOMAIN devices
    BY <1>7 DEF register_workspace, DevicesRest
  <2>2. \A d : [type |-> "revocation", of |-> d] # t
    BY <2>1
  <2> QED
    BY <2>1, <2>2
<1>8. ASSUME DevicesRest, NEW t \in Target, device_revoked(t) PROVE SocketsAreKnown'
  <2>1. /\ t.type = "revocation" /\ calling' = calling \ {t} /\ DOMAIN devices' = DOMAIN devices
        /\ conns' = [c \in Conn |-> IF conns[c].device = t.of /\ conns[c].at = "open"
                                    THEN NoConn ELSE conns[c]]
        /\ slipped' = slipped \union {c \in Conn : conns[c].device = t.of /\ conns[c].at = "upgrade"}
    BY <1>8 DEF device_revoked, DevicesRest
  <2>2. SUFFICES ASSUME NEW c \in Conn \ slipped', conns'[c].at \in {"upgrade", "open"},
                        conns'[c].device \notin DOMAIN devices'
                 PROVE  [type |-> "revocation", of |-> conns'[c].device] \in calling'
    OBVIOUS
  <2>3. conns'[c] = conns[c] /\ conns[c].device # t.of
    BY <2>1, <2>2 DEF NoConn
  <2>4. [type |-> "revocation", of |-> conns[c].device] \in calling
    BY <2>1, <2>2, <2>3
  <2>5. [type |-> "revocation", of |-> conns[c].device] # t
    BY <2>3
  <2> QED
    BY <2>1, <2>3, <2>4, <2>5
<1>9. ASSUME NEW p \in Peer, NEW c \in Code, issue_credential(p, c) PROVE SocketsAreKnown'
  <2>1. DOMAIN devices \subseteq DOMAIN devices' /\ UNCHANGED <<conns, calling, slipped>>
    BY <1>9, IssueMakes
  <2> QED
    BY <2>1
<1>10. ASSUME NEW a \in Action, NEW d \in Device, execute_revocation(a, d) PROVE SocketsAreKnown'
  <2>1. /\ DOMAIN devices' = DOMAIN devices \ {d} /\ UNCHANGED <<conns, slipped>>
        /\ calling' = calling \union {[type |-> "revocation", of |-> d]}
    BY <1>10, RevocationRemoves
  <2> QED
    BY <2>1
<1>11. ASSUME Restart PROVE SocketsAreKnown'
  BY <1>11, RestartForgets DEF NoConn
<1> HIDE DEF SocketsAreKnown
<1> QED
  BY <1>2, <1>3, <1>4, <1>5, <1>6, <1>7, <1>8, <1>9, <1>10, <1>11, DeviceSteps

------------------------------------------------------------------------------
(* Theorems                                                                    *)

LEMMA InitInv == Init => Inv
<1> SUFFICES ASSUME Init PROVE Inv
  OBVIOUS
<1>1. Types
  BY BoundsAssumption DEF Init, Types, ConnType, NoConn
<1>2. DOMAIN sessions = {} /\ DOMAIN devices = {} /\ DOMAIN disk = {} /\ DOMAIN pending = {}
  BY DEF Init
<1>3. CodesAreFresh /\ DevicesAreMade /\ FileFollows /\ RevokedStaysOut
  BY <1>2 DEF Init, CodesAreFresh, DevicesAreMade, FileFollows, RevokedStaysOut
<1>4. SocketsAreKnown
  BY DEF Init, SocketsAreKnown, NoConn
<1> QED
  BY <1>1, <1>3, <1>4 DEF Inv

LEMMA NextInv == Inv /\ [Next]_vars => Inv'
BY TypesStep, CodesStep, DevicesStep, SocketsStep DEF Inv

\* Whatever is paired, revoked, written or lost, what the manager, devices.json and
\* the sockets remember of codes and devices agrees with what happened to them
\* (src/pairing/mod.rs, src/sync/mod.rs).
THEOREM Invariance == Spec => []Inv
BY InitInv, NextInv, PTL DEF Spec

\* A passcode or a token pairs at most one device, however often it is tried
\* and however often devices.json could not be written (issue_credential).
THEOREM CodePairsOne == Spec => []OneDevicePerCode
<1>1. Inv => OneDevicePerCode
  <2> SUFFICES ASSUME Inv, NEW c \in Code PROVE Cardinality(issued[c]) <= 1
    BY DEF OneDevicePerCode
  <2>1. issued[c] = {} \/ \E d \in Device : issued[c] = {d}
    BY DEF Inv, CodesAreFresh
  <2>2. Cardinality(issued[c]) = 0 \/ Cardinality(issued[c]) = 1
    BY <2>1, FS_EmptySet, FS_Singleton
  <2> QED
    BY <2>2
<1> QED
  BY <1>1, Invariance, PTL

\* A device whose revocation was executed can neither authenticate again, also
\* after a restart, nor keep a socket that was open when its listener ran
\* (execute_pending, device_revoked).
THEOREM RevokedIsOut == Spec => []RevokedHasNoAccess
<1>1. Inv => RevokedHasNoAccess
  BY DEF Inv, SocketsAreKnown, RevokedHasNoAccess, RevokedIsDisconnected
<1> QED
  BY <1>1, Invariance, PTL
=============================================================================
