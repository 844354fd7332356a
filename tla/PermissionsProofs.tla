-------------------------- MODULE PermissionsProofs --------------------------
(* Theorems about Permissions for every set of sessions, tools and prompts and *)
(* for every bound, proved with TLAPS.  The inductive invariant is built in    *)
(* layers: WellFormed (types and the life of a call), then the ownership of    *)
(* the oneshot senders, then what answers and cached decisions stand for.      *)
EXTENDS Permissions, SequenceTheorems, TLAPS

(* The life of a call: what it has touched so far, and what may outlive it.    *)
Lifecycle ==
    \A i \in Id :
       /\ call[i] # "done" => answer[i] = None /\ i \notin auto
       /\ call[i] = "idle" => taken[i] = None /\ i \notin timedOut
       /\ call[i] # "idle" => prompt[i] \in Prompt
       /\ i \in pending \/ sent[i] # None => i \in InFlight
       /\ taken[i] # None /\ i \notin InFlight => answer[i] = Dropped

WellFormed == TypeOK /\ Lifecycle /\ OneSenderPerWaiter

(* A decision on its way to a call was offered to it, or is the manager's Deny.*)
OnOffer ==
    \A i \in Id : /\ taken[i] \in Options(prompt[i]) \union {Deny, None, TimedOut}
                  /\ sent[i] \in Options(prompt[i]) \union {Deny, None}

(* A call reported as timed out had its sender spent on a Deny.                *)
TimeoutSpent == \A i \in timedOut : i \notin pending /\ taken[i] = None

(* Every cached decision was returned to a prompted call for that very key.    *)
GrantKey(p, d) == CASE d = AllowSession -> policy_key_for(p)
                    [] d = AllowAlways -> GlobalKey(p)
                    [] OTHER -> ToolKindKey(p)

CachesWereGiven ==
    /\ \A k \in DOMAIN policy : \E j \in Returned \ auto :
          /\ policy[k] \in {AllowSession, AllowAlways, AllowToolKind}
          /\ answer[j] = policy[k]
          /\ k = GrantKey(prompt[j], policy[k])
    /\ \A k \in denied : \E j \in Returned \ auto :
          answer[j] = RejectAlways /\ k = GlobalKey(prompt[j])

------------------------------------------------------------------------------
(* Lemmas about the operators                                                  *)

(* The fields of a prompt that was asked, and the keys made of them.           *)
LEMMA PromptKeys ==
    ASSUME NEW p \in Prompt
    PROVE  /\ p.session \in Session /\ p.tool \in Tool /\ p.item \in Item \union {NoItem}
           /\ policy_key_for(p) = [session |-> p.session, tool |-> p.tool, item |-> p.item]
           /\ GlobalKey(p) = [session |-> NoSession, tool |-> p.tool, item |-> p.item]
           /\ ToolKindKey(p) = [session |-> NoSession, tool |-> p.tool, item |-> NoItem]
           /\ policy_key_for(p) \in Key /\ GlobalKey(p) \in Key /\ ToolKindKey(p) \in Key
<1>1. p.session \in Session /\ p.tool \in Tool /\ p.item \in Item \union {NoItem}
  BY PromptAssumption DEF PromptType
<1>2. GlobalKey(p) = [session |-> NoSession, tool |-> p.tool, item |-> p.item]
  BY DEF GlobalKey, policy_key_for
<1> QED
  BY <1>1, <1>2 DEF policy_key_for, ToolKindKey, Key

(* What the caches return is an allow or Deny, or None.                        *)
LEMMA CachedType ==
    ASSUME NEW p \in Prompt
    PROVE  Cached(p) \in {AllowAlways, AllowSession, AllowToolKind, Deny, None}
BY DEF Cached, Has

(* The audit log stays a sequence of entries.                                  *)
LEMMA AuditType ==
    ASSUME NEW i \in Id, NEW d \in Decision,
           audit \in Seq([id : Id, decision : Decision])
    PROVE  push_audit(i, d) \in Seq([id : Id, decision : Decision])
<1>1. [id |-> i, decision |-> d] \in [id : Id, decision : Decision]
  OBVIOUS
<1>2. /\ Append(audit, [id |-> i, decision |-> d]) \in Seq([id : Id, decision : Decision])
      /\ Append(audit, [id |-> i, decision |-> d]) # <<>>
  BY <1>1, AppendProperties
<1>3. Tail(Append(audit, [id |-> i, decision |-> d])) \in Seq([id : Id, decision : Decision])
  BY <1>2, HeadTailProperties
<1> QED
  BY <1>2, <1>3 DEF push_audit

(* Recording a decision adds at most one key, the one the decision is for.     *)
LEMMA RememberKey ==
    ASSUME NEW p \in Prompt, NEW d \in Decision, policy \in [DOMAIN policy -> Decision]
    PROVE  \/ Remember(p, d) = policy
           \/ /\ d \in {AllowSession, AllowAlways, AllowToolKind}
              /\ DOMAIN Remember(p, d) = DOMAIN policy \union {GrantKey(p, d)}
              /\ Remember(p, d) \in [DOMAIN Remember(p, d) -> Decision]
              /\ Remember(p, d)[GrantKey(p, d)] = d
              /\ \A k \in DOMAIN policy \ {GrantKey(p, d)} : Remember(p, d)[k] = policy[k]
<1> DEFINE g == GrantKey(p, d)
           f == [x \in DOMAIN policy \union {g} |-> IF x = g THEN d ELSE policy[x]]
<1>1. Remember(p, d) = IF d \in {AllowSession, AllowAlways, AllowToolKind} THEN f ELSE policy
  BY DEF Remember, GrantKey
<1> HIDE DEF g
<1>2. /\ DOMAIN f = DOMAIN policy \union {g}
      /\ f \in [DOMAIN f -> Decision]
      /\ f[g] = d
      /\ \A k \in DOMAIN policy \ {g} : f[k] = policy[k]
  OBVIOUS
<1> QED
  BY <1>1, <1>2 DEF g

(* The key a decision is remembered under is a key.                            *)
LEMMA GrantKeyType ==
    ASSUME NEW p \in Prompt, NEW d
    PROVE  GrantKey(p, d) \in Key
BY PromptKeys DEF GrantKey

------------------------------------------------------------------------------
(* Types and the life of a call                                                *)

(* Every step keeps the types.                                                 *)
LEMMA TypeStep ==
    ASSUME WellFormed, [Next]_vars
    PROVE  TypeOK'
<1> USE DEF WellFormed, TypeOK
<1>1. ASSUME NEW i \in Id, NEW p \in Prompt, AutoResolve(i, p) PROVE TypeOK'
  <2>1. Cached(p) \in Decision
    BY <1>1, CachedType DEF AutoResolve, Decision
  <2>2. audit' \in Seq([id : Id, decision : Decision])
    BY <1>1, <2>1, AuditType DEF AutoResolve
  <2> QED
    BY <1>1, <2>1, <2>2 DEF AutoResolve, Enter, Return, channel, Calls
<1>2. ASSUME NEW i \in Id, NEW p \in Prompt, RefuseDuplicate(i, p) PROVE TypeOK'
  BY <1>2 DEF RefuseDuplicate, Enter, Return, channel, caches, Calls
<1>3. ASSUME NEW i \in Id, NEW p \in Prompt, Register(i, p) PROVE TypeOK'
  BY <1>3 DEF Register, Enter, caches, Calls
<1>4. ASSUME NEW i \in Id, spawn_permission_timeout(i) PROVE TypeOK'
  BY <1>4 DEF spawn_permission_timeout, channel, caches, Calls
<1>5. ASSUME NEW i \in Id, TimerFires(i) PROVE TypeOK'
  BY <1>5 DEF TimerFires, caches
<1>6. ASSUME NEW i \in Id, Send(i) PROVE TypeOK'
  BY <1>6 DEF Send, caches, Decision
<1>7. ASSUME NEW i \in Id, Resume(i) PROVE TypeOK'
  <2>1. sent[i] \in Decision /\ prompt[i] \in Prompt
    BY <1>7 DEF Resume, Lifecycle
  <2>2. audit' \in Seq([id : Id, decision : Decision])
    BY <1>7, <2>1, AuditType DEF Resume
  <2>3. DOMAIN policy' \in SUBSET Key /\ policy' \in [DOMAIN policy' -> Decision]
    <3> DEFINE r == Remember(prompt[i], sent[i])
    <3>1. policy' = r
      BY <1>7 DEF Resume
    <3>2. policy \in [DOMAIN policy -> Decision] /\ DOMAIN policy \in SUBSET Key
      OBVIOUS
    <3>3. \/ r = policy
          \/ /\ DOMAIN r = DOMAIN policy \union {GrantKey(prompt[i], sent[i])}
             /\ r \in [DOMAIN r -> Decision]
      BY <2>1, <3>2, RememberKey
    <3>4. GrantKey(prompt[i], sent[i]) \in Key
      BY <2>1, GrantKeyType
    <3> HIDE DEF r, WellFormed, TypeOK
    <3>5. DOMAIN r \in SUBSET Key /\ r \in [DOMAIN r -> Decision]
      BY <3>2, <3>3, <3>4
    <3> QED
      BY <3>1, <3>5
  <2>4. denied' \in SUBSET Key
    BY <1>7, <2>1, PromptKeys DEF Resume, DeniedAfter
  <2>5. /\ call' \in [Id -> Calls]
        /\ answer' \in [Id -> Decision \union {None, Error, Dropped}]
        /\ sent' \in [Id -> Decision \union {None}]
    BY <1>7, <2>1 DEF Resume, Return, Calls
  <2>6. UNCHANGED <<prompt, pending, taken, timedOut, auto>>
    BY <1>7 DEF Resume
  <2> QED
    BY <2>2, <2>3, <2>4, <2>5, <2>6
<1>8. ASSUME NEW i \in Id, Drop(i) PROVE TypeOK'
  BY <1>8 DEF Drop, Return, caches, Calls
<1>9. ASSUME NEW i \in Id, NEW d \in Decision, respond(i, d) PROVE TypeOK'
  BY <1>9 DEF respond, caches
<1>10. ASSUME NEW S \in SUBSET pending, cleanup_stale(S) PROVE TypeOK'
  BY <1>10 DEF cleanup_stale, DenyPending, caches, Decision
<1>11. ASSUME NEW s \in Session, clear_session(s) PROVE TypeOK'
  <2>1. DOMAIN policy' \in SUBSET Key /\ policy' \in [DOMAIN policy' -> Decision]
    BY <1>11 DEF clear_session
  <2>2. denied' \in SUBSET Key /\ pending' \in SUBSET Id
    BY <1>11 DEF clear_session, DenyPending
  <2>3. sent' \in [Id -> Decision \union {None}]
    BY <1>11 DEF clear_session, DenyPending, Decision
  <2> QED
    BY <1>11, <2>1, <2>2, <2>3 DEF clear_session
<1>12. CASE UNCHANGED vars
  BY <1>12 DEF vars
<1> QED
  BY <1>1, <1>2, <1>3, <1>4, <1>5, <1>6, <1>7, <1>8, <1>9, <1>10, <1>11, <1>12 DEF Next

(* Every step keeps the life of each call in order.                            *)
LEMMA LifecycleStep ==
    ASSUME WellFormed, [Next]_vars
    PROVE  Lifecycle'
<1>0. /\ call \in [Id -> Calls] /\ prompt \in [Id -> Prompt \union {NoPrompt}]
      /\ taken \in [Id -> Decision \union {None, TimedOut}]
      /\ sent \in [Id -> Decision \union {None}]
      /\ answer \in [Id -> Decision \union {None, Error, Dropped}]
      /\ pending \in SUBSET Id
  BY DEF WellFormed, TypeOK
<1> USE DEF WellFormed, Lifecycle, OneSenderPerWaiter, InFlight
<1>1. ASSUME NEW i \in Id, NEW p \in Prompt, AutoResolve(i, p) PROVE Lifecycle'
  <2>1. Cached(p) # Dropped
    BY CachedType DEF Dropped, AllowAlways, AllowSession, AllowToolKind, Deny, None
  <2> QED
    BY <1>0, <1>1 DEF AutoResolve, Enter, Return, channel
<1>2. ASSUME NEW i \in Id, NEW p \in Prompt, RefuseDuplicate(i, p) PROVE Lifecycle'
  BY <1>0, <1>2 DEF RefuseDuplicate, Enter, Return, channel
<1>3. ASSUME NEW i \in Id, NEW p \in Prompt, Register(i, p) PROVE Lifecycle'
  BY <1>0, <1>3 DEF Register, Enter
<1>4. ASSUME NEW i \in Id, spawn_permission_timeout(i) PROVE Lifecycle'
  BY <1>0, <1>4 DEF spawn_permission_timeout, channel
<1>5. ASSUME NEW i \in Id, TimerFires(i) PROVE Lifecycle'
  BY <1>0, <1>5 DEF TimerFires, TimedOut, None
<1>6. ASSUME NEW i \in Id, Send(i) PROVE Lifecycle'
  BY <1>0, <1>6 DEF Send
<1>7. ASSUME NEW i \in Id, Resume(i) PROVE Lifecycle'
  BY <1>0, <1>7 DEF Resume, Return
<1>8. ASSUME NEW i \in Id, Drop(i) PROVE Lifecycle'
  BY <1>0, <1>8 DEF Drop, Return
<1>9. ASSUME NEW i \in Id, NEW d \in Decision, respond(i, d) PROVE Lifecycle'
  BY <1>0, <1>9 DEF respond
<1>10. ASSUME NEW S \in SUBSET pending, cleanup_stale(S) PROVE Lifecycle'
  BY <1>0, <1>10 DEF cleanup_stale, DenyPending
<1>11. ASSUME NEW s \in Session, clear_session(s) PROVE Lifecycle'
  BY <1>0, <1>11 DEF clear_session, DenyPending
<1>12. CASE UNCHANGED vars
  BY <1>12 DEF vars
<1> QED
  BY <1>1, <1>2, <1>3, <1>4, <1>5, <1>6, <1>7, <1>8, <1>9, <1>10, <1>11, <1>12 DEF Next

(* Every step leaves each waiting call's sender in exactly one place.          *)
LEMMA SenderStep ==
    ASSUME WellFormed, [Next]_vars
    PROVE  OneSenderPerWaiter'
<1>0. /\ call \in [Id -> Calls] /\ prompt \in [Id -> Prompt \union {NoPrompt}]
      /\ taken \in [Id -> Decision \union {None, TimedOut}]
      /\ sent \in [Id -> Decision \union {None}]
      /\ answer \in [Id -> Decision \union {None, Error, Dropped}]
      /\ pending \in SUBSET Id
  BY DEF WellFormed, TypeOK
<1> USE DEF WellFormed, Lifecycle, OneSenderPerWaiter, InFlight
<1>1. ASSUME NEW i \in Id, NEW p \in Prompt, AutoResolve(i, p) PROVE OneSenderPerWaiter'
  BY <1>0, <1>1 DEF AutoResolve, Enter, Return, channel
<1>2. ASSUME NEW i \in Id, NEW p \in Prompt, RefuseDuplicate(i, p) PROVE OneSenderPerWaiter'
  BY <1>0, <1>2 DEF RefuseDuplicate, Enter, Return, channel
<1>3. ASSUME NEW i \in Id, NEW p \in Prompt, Register(i, p) PROVE OneSenderPerWaiter'
  BY <1>0, <1>3 DEF Register, Enter
<1>4. ASSUME NEW i \in Id, spawn_permission_timeout(i) PROVE OneSenderPerWaiter'
  BY <1>0, <1>4 DEF spawn_permission_timeout, channel
<1>5. ASSUME NEW i \in Id, TimerFires(i) PROVE OneSenderPerWaiter'
  BY <1>0, <1>5 DEF TimerFires, TimedOut, None
<1>6. ASSUME NEW i \in Id, Send(i) PROVE OneSenderPerWaiter'
  BY <1>0, <1>6 DEF Send, Deny, None
<1>7. ASSUME NEW i \in Id, Resume(i) PROVE OneSenderPerWaiter'
  BY <1>0, <1>7 DEF Resume, Return
<1>8. ASSUME NEW i \in Id, Drop(i) PROVE OneSenderPerWaiter'
  BY <1>0, <1>8 DEF Drop, Return
<1>9. ASSUME NEW i \in Id, NEW d \in Decision, respond(i, d) PROVE OneSenderPerWaiter'
  BY <1>0, <1>9 DEF respond, Decision, AllowOnce, AllowSession, AllowAlways, AllowToolKind, Deny, RejectAlways, None
<1>10. ASSUME NEW S \in SUBSET pending, cleanup_stale(S) PROVE OneSenderPerWaiter'
  BY <1>0, <1>10 DEF cleanup_stale, DenyPending, Deny, None
<1>11. ASSUME NEW s \in Session, clear_session(s) PROVE OneSenderPerWaiter'
  BY <1>0, <1>11 DEF clear_session, DenyPending, Deny, None
<1>12. CASE UNCHANGED vars
  BY <1>12 DEF vars
<1> QED
  BY <1>1, <1>2, <1>3, <1>4, <1>5, <1>6, <1>7, <1>8, <1>9, <1>10, <1>11, <1>12 DEF Next

(* Every step keeps the pending prompts of a session apart.                    *)
LEMMA ToolCallStep ==
    ASSUME WellFormed, OnePromptPerToolCall, [Next]_vars
    PROVE  OnePromptPerToolCall'
<1>0. /\ call \in [Id -> Calls] /\ prompt \in [Id -> Prompt \union {NoPrompt}]
      /\ taken \in [Id -> Decision \union {None, TimedOut}]
      /\ sent \in [Id -> Decision \union {None}]
      /\ answer \in [Id -> Decision \union {None, Error, Dropped}]
      /\ pending \in SUBSET Id
  BY DEF WellFormed, TypeOK
<1> USE DEF WellFormed, Lifecycle, OneSenderPerWaiter, InFlight, OnePromptPerToolCall
<1>1. ASSUME NEW i \in Id, NEW p \in Prompt, AutoResolve(i, p) PROVE OnePromptPerToolCall'
  BY <1>0, <1>1 DEF AutoResolve, Enter, Return, channel
<1>2. ASSUME NEW i \in Id, NEW p \in Prompt, RefuseDuplicate(i, p) PROVE OnePromptPerToolCall'
  BY <1>0, <1>2 DEF RefuseDuplicate, Enter, Return, channel
<1>3. ASSUME NEW i \in Id, NEW p \in Prompt, Register(i, p) PROVE OnePromptPerToolCall'
  BY <1>0, <1>3 DEF Register, Enter, Duplicate
<1>4. ASSUME NEW i \in Id, spawn_permission_timeout(i) PROVE OnePromptPerToolCall'
  BY <1>0, <1>4 DEF spawn_permission_timeout, channel
<1>5. ASSUME NEW i \in Id, TimerFires(i) PROVE OnePromptPerToolCall'
  BY <1>0, <1>5 DEF TimerFires
<1>6. ASSUME NEW i \in Id, Send(i) PROVE OnePromptPerToolCall'
  BY <1>0, <1>6 DEF Send
<1>7. ASSUME NEW i \in Id, Resume(i) PROVE OnePromptPerToolCall'
  BY <1>0, <1>7 DEF Resume, Return
<1>8. ASSUME NEW i \in Id, Drop(i) PROVE OnePromptPerToolCall'
  BY <1>0, <1>8 DEF Drop, Return
<1>9. ASSUME NEW i \in Id, NEW d \in Decision, respond(i, d) PROVE OnePromptPerToolCall'
  BY <1>0, <1>9 DEF respond
<1>10. ASSUME NEW S \in SUBSET pending, cleanup_stale(S) PROVE OnePromptPerToolCall'
  BY <1>0, <1>10 DEF cleanup_stale, DenyPending
<1>11. ASSUME NEW s \in Session, clear_session(s) PROVE OnePromptPerToolCall'
  BY <1>0, <1>11 DEF clear_session, DenyPending
<1>12. CASE UNCHANGED vars
  BY <1>12 DEF vars
<1> QED
  BY <1>1, <1>2, <1>3, <1>4, <1>5, <1>6, <1>7, <1>8, <1>9, <1>10, <1>11, <1>12 DEF Next

(* Every step leaves only offered decisions, or Deny, on their way to a call.  *)
LEMMA OfferStep ==
    ASSUME WellFormed, OnOffer, [Next]_vars
    PROVE  OnOffer'
<1>0. /\ call \in [Id -> Calls] /\ prompt \in [Id -> Prompt \union {NoPrompt}]
      /\ taken \in [Id -> Decision \union {None, TimedOut}]
      /\ sent \in [Id -> Decision \union {None}]
      /\ answer \in [Id -> Decision \union {None, Error, Dropped}]
      /\ pending \in SUBSET Id
  BY DEF WellFormed, TypeOK
<1> USE DEF WellFormed, Lifecycle, OneSenderPerWaiter, InFlight, OnOffer
<1>1. ASSUME NEW i \in Id, NEW p \in Prompt, AutoResolve(i, p) PROVE OnOffer'
  BY <1>0, <1>1 DEF AutoResolve, Enter, Return, channel
<1>2. ASSUME NEW i \in Id, NEW p \in Prompt, RefuseDuplicate(i, p) PROVE OnOffer'
  BY <1>0, <1>2 DEF RefuseDuplicate, Enter, Return, channel
<1>3. ASSUME NEW i \in Id, NEW p \in Prompt, Register(i, p) PROVE OnOffer'
  BY <1>0, <1>3 DEF Register, Enter
<1>4. ASSUME NEW i \in Id, spawn_permission_timeout(i) PROVE OnOffer'
  BY <1>0, <1>4 DEF spawn_permission_timeout, channel
<1>5. ASSUME NEW i \in Id, TimerFires(i) PROVE OnOffer'
  BY <1>0, <1>5 DEF TimerFires
<1>6. ASSUME NEW i \in Id, Send(i) PROVE OnOffer'
  BY <1>0, <1>6 DEF Send
<1>7. ASSUME NEW i \in Id, Resume(i) PROVE OnOffer'
  BY <1>0, <1>7 DEF Resume, Return
<1>8. ASSUME NEW i \in Id, Drop(i) PROVE OnOffer'
  BY <1>0, <1>8 DEF Drop, Return
<1>9. ASSUME NEW i \in Id, NEW d \in Decision, respond(i, d) PROVE OnOffer'
  BY <1>0, <1>9 DEF respond
<1>10. ASSUME NEW S \in SUBSET pending, cleanup_stale(S) PROVE OnOffer'
  BY <1>0, <1>10 DEF cleanup_stale, DenyPending
<1>11. ASSUME NEW s \in Session, clear_session(s) PROVE OnOffer'
  BY <1>0, <1>11 DEF clear_session, DenyPending
<1>12. CASE UNCHANGED vars
  BY <1>12 DEF vars
<1> QED
  BY <1>1, <1>2, <1>3, <1>4, <1>5, <1>6, <1>7, <1>8, <1>9, <1>10, <1>11, <1>12 DEF Next

(* What a prompted call returned had been on its way to it.                    *)
LEMMA AnswerStep ==
    ASSUME WellFormed, OnOffer, AnswerWasOffered, [Next]_vars
    PROVE  AnswerWasOffered'
<1>0. /\ call \in [Id -> Calls] /\ prompt \in [Id -> Prompt \union {NoPrompt}]
      /\ taken \in [Id -> Decision \union {None, TimedOut}]
      /\ sent \in [Id -> Decision \union {None}]
      /\ answer \in [Id -> Decision \union {None, Error, Dropped}]
      /\ pending \in SUBSET Id
  BY DEF WellFormed, TypeOK
<1> USE DEF WellFormed, Lifecycle, InFlight, OnOffer, AnswerWasOffered, Returned
<1>1. ASSUME NEW i \in Id, NEW p \in Prompt, AutoResolve(i, p) PROVE AnswerWasOffered'
  BY <1>0, <1>1 DEF AutoResolve, Enter, Return, channel
<1>2. ASSUME NEW i \in Id, NEW p \in Prompt, RefuseDuplicate(i, p) PROVE AnswerWasOffered'
  BY <1>0, <1>2 DEF RefuseDuplicate, Enter, Return, channel, Error, Decision, AllowOnce, AllowSession, AllowAlways, AllowToolKind, Deny, RejectAlways
<1>3. ASSUME NEW i \in Id, NEW p \in Prompt, Register(i, p) PROVE AnswerWasOffered'
  BY <1>0, <1>3 DEF Register, Enter, None, Decision, AllowOnce, AllowSession, AllowAlways, AllowToolKind, Deny, RejectAlways
<1>4. ASSUME NEW i \in Id, spawn_permission_timeout(i) PROVE AnswerWasOffered'
  BY <1>0, <1>4 DEF spawn_permission_timeout, channel
<1>5. ASSUME NEW i \in Id, TimerFires(i) PROVE AnswerWasOffered'
  BY <1>0, <1>5 DEF TimerFires
<1>6. ASSUME NEW i \in Id, Send(i) PROVE AnswerWasOffered'
  BY <1>0, <1>6 DEF Send
<1>7. ASSUME NEW i \in Id, Resume(i) PROVE AnswerWasOffered'
  BY <1>0, <1>7 DEF Resume, Return
<1>8. ASSUME NEW i \in Id, Drop(i) PROVE AnswerWasOffered'
  BY <1>0, <1>8 DEF Drop, Return, Dropped, Decision, AllowOnce, AllowSession, AllowAlways, AllowToolKind, Deny, RejectAlways
<1>9. ASSUME NEW i \in Id, NEW d \in Decision, respond(i, d) PROVE AnswerWasOffered'
  BY <1>0, <1>9 DEF respond
<1>10. ASSUME NEW S \in SUBSET pending, cleanup_stale(S) PROVE AnswerWasOffered'
  BY <1>0, <1>10 DEF cleanup_stale, DenyPending
<1>11. ASSUME NEW s \in Session, clear_session(s) PROVE AnswerWasOffered'
  BY <1>0, <1>11 DEF clear_session, DenyPending
<1>12. CASE UNCHANGED vars
  BY <1>12 DEF vars
<1> QED
  BY <1>1, <1>2, <1>3, <1>4, <1>5, <1>6, <1>7, <1>8, <1>9, <1>10, <1>11, <1>12 DEF Next

(* A timeout stays the last word on its call.                                  *)
LEMMA TimeoutStep ==
    ASSUME WellFormed, TimeoutSpent, TimeoutMeansDenied, [Next]_vars
    PROVE  (TimeoutSpent /\ TimeoutMeansDenied)'
<1>0. /\ call \in [Id -> Calls] /\ prompt \in [Id -> Prompt \union {NoPrompt}]
      /\ taken \in [Id -> Decision \union {None, TimedOut}]
      /\ sent \in [Id -> Decision \union {None}]
      /\ answer \in [Id -> Decision \union {None, Error, Dropped}]
      /\ pending \in SUBSET Id /\ timedOut \in SUBSET Id
  BY DEF WellFormed, TypeOK
<1> USE DEF WellFormed, Lifecycle, OneSenderPerWaiter, InFlight, TimeoutSpent, TimeoutMeansDenied
<1>1. ASSUME NEW i \in Id, NEW p \in Prompt, AutoResolve(i, p) PROVE (TimeoutSpent /\ TimeoutMeansDenied)'
  BY <1>0, <1>1 DEF AutoResolve, Enter, Return, channel
<1>2. ASSUME NEW i \in Id, NEW p \in Prompt, RefuseDuplicate(i, p) PROVE (TimeoutSpent /\ TimeoutMeansDenied)'
  BY <1>0, <1>2 DEF RefuseDuplicate, Enter, Return, channel
<1>3. ASSUME NEW i \in Id, NEW p \in Prompt, Register(i, p) PROVE (TimeoutSpent /\ TimeoutMeansDenied)'
  BY <1>0, <1>3 DEF Register, Enter
<1>4. ASSUME NEW i \in Id, spawn_permission_timeout(i) PROVE (TimeoutSpent /\ TimeoutMeansDenied)'
  BY <1>0, <1>4 DEF spawn_permission_timeout, channel
<1>5. ASSUME NEW i \in Id, TimerFires(i) PROVE (TimeoutSpent /\ TimeoutMeansDenied)'
  BY <1>0, <1>5 DEF TimerFires
<1>6. ASSUME NEW i \in Id, Send(i) PROVE (TimeoutSpent /\ TimeoutMeansDenied)'
  BY <1>0, <1>6 DEF Send
<1>7. ASSUME NEW i \in Id, Resume(i) PROVE (TimeoutSpent /\ TimeoutMeansDenied)'
  BY <1>0, <1>7 DEF Resume, Return
<1>8. ASSUME NEW i \in Id, Drop(i) PROVE (TimeoutSpent /\ TimeoutMeansDenied)'
  BY <1>0, <1>8 DEF Drop, Return
<1>9. ASSUME NEW i \in Id, NEW d \in Decision, respond(i, d) PROVE (TimeoutSpent /\ TimeoutMeansDenied)'
  BY <1>0, <1>9 DEF respond
<1>10. ASSUME NEW S \in SUBSET pending, cleanup_stale(S) PROVE (TimeoutSpent /\ TimeoutMeansDenied)'
  BY <1>0, <1>10 DEF cleanup_stale, DenyPending
<1>11. ASSUME NEW s \in Session, clear_session(s) PROVE (TimeoutSpent /\ TimeoutMeansDenied)'
  BY <1>0, <1>11 DEF clear_session, DenyPending
<1>12. CASE UNCHANGED vars
  BY <1>12 DEF vars
<1> QED
  BY <1>1, <1>2, <1>3, <1>4, <1>5, <1>6, <1>7, <1>8, <1>9, <1>10, <1>11, <1>12 DEF Next

------------------------------------------------------------------------------
(* Cached decisions                                                            *)

(* Nothing is forgotten of a call that is over.                                *)
LEMMA DoneStays ==
    ASSUME WellFormed, [Next]_vars, NEW j \in Id, call[j] = "done"
    PROVE  answer'[j] = answer[j] /\ prompt'[j] = prompt[j] /\ (j \in auto' <=> j \in auto)
<1>0. /\ call \in [Id -> Calls] /\ prompt \in [Id -> Prompt \union {NoPrompt}]
      /\ answer \in [Id -> Decision \union {None, Error, Dropped}]
  BY DEF WellFormed, TypeOK
<1> USE DEF InFlight
<1>1. ASSUME NEW i \in Id, NEW p \in Prompt,
             AutoResolve(i, p) \/ RefuseDuplicate(i, p) \/ Register(i, p)
      PROVE  answer'[j] = answer[j] /\ prompt'[j] = prompt[j] /\ (j \in auto' <=> j \in auto)
  BY <1>0, <1>1 DEF AutoResolve, RefuseDuplicate, Register, Enter, Return
<1>2. ASSUME NEW i \in Id,
             spawn_permission_timeout(i) \/ TimerFires(i) \/ Send(i) \/ Resume(i) \/ Drop(i)
      PROVE  answer'[j] = answer[j] /\ prompt'[j] = prompt[j] /\ (j \in auto' <=> j \in auto)
  BY <1>0, <1>2 DEF spawn_permission_timeout, TimerFires, Send, Resume, Drop, Return
<1>3. ASSUME NEW i \in Id, NEW d \in Decision, respond(i, d)
      PROVE  UNCHANGED <<answer, prompt, auto>>
  BY <1>3 DEF respond
<1>4. ASSUME NEW S \in SUBSET pending, cleanup_stale(S)
      PROVE  UNCHANGED <<answer, prompt, auto>>
  BY <1>4 DEF cleanup_stale
<1>5. ASSUME NEW s \in Session, clear_session(s)
      PROVE  UNCHANGED <<answer, prompt, auto>>
  BY <1>5 DEF clear_session
<1> QED
  BY <1>1, <1>2, <1>3, <1>4, <1>5 DEF Next, vars

(* A decision given stays given.                                               *)
LEMMA GivenStays ==
    ASSUME WellFormed, [Next]_vars, NEW j \in Returned \ auto
    PROVE  /\ j \in Returned' \ auto'
           /\ answer'[j] = answer[j] /\ prompt'[j] = prompt[j] /\ prompt[j] \in Prompt
<1>1. j \in Id /\ answer[j] \in Decision
  BY DEF Returned
<1>2. None \notin Decision
  BY DEF None, Decision, AllowOnce, AllowSession, AllowAlways, AllowToolKind, Deny,
         RejectAlways
<1>3. call[j] = "done" /\ prompt[j] \in Prompt
  BY <1>1, <1>2 DEF WellFormed, Lifecycle
<1> QED
  BY <1>1, <1>3, DoneStays DEF Returned

(* Only a decision that arrives changes what the caches hold, and it is given. *)
LEMMA CachesStep ==
    ASSUME WellFormed, CachesWereGiven, [Next]_vars
    PROVE  CachesWereGiven'
<1>1. ASSUME \A k \in DOMAIN policy' : k \in DOMAIN policy /\ policy'[k] = policy[k],
             denied' \subseteq denied
      PROVE  CachesWereGiven'
  <2>1. ASSUME NEW k \in DOMAIN policy'
        PROVE  \E j \in Returned' \ auto' :
                  /\ policy'[k] \in {AllowSession, AllowAlways, AllowToolKind}
                  /\ answer'[j] = policy'[k]
                  /\ k = GrantKey(prompt'[j], policy'[k])
    <3>1. PICK j \in Returned \ auto :
             /\ policy[k] \in {AllowSession, AllowAlways, AllowToolKind}
             /\ answer[j] = policy[k]
             /\ k = GrantKey(prompt[j], policy[k])
      BY <1>1 DEF CachesWereGiven
    <3> QED
      BY <1>1, <3>1, GivenStays
  <2>2. ASSUME NEW k \in denied'
        PROVE  \E j \in Returned' \ auto' :
                  answer'[j] = RejectAlways /\ k = GlobalKey(prompt'[j])
    <3>1. PICK j \in Returned \ auto : answer[j] = RejectAlways /\ k = GlobalKey(prompt[j])
      BY <1>1 DEF CachesWereGiven
    <3> QED
      BY <3>1, GivenStays
  <2>3. ASSUME NEW q, NEW d
        PROVE  GrantKey(q, d) = GrantKey(q, d)'
    OBVIOUS
  <2> QED
    BY <2>1, <2>2 DEF CachesWereGiven, GrantKey
<1>2. ASSUME UNCHANGED <<policy, denied>>
      PROVE  CachesWereGiven'
  BY <1>1, <1>2
<1>3. ASSUME NEW i \in Id, Resume(i) PROVE CachesWereGiven'
  <2>1. /\ i \in Returned' \ auto' /\ answer'[i] = sent[i] /\ prompt' = prompt
        /\ sent[i] \in Decision /\ prompt[i] \in Prompt
        /\ policy' = Remember(prompt[i], sent[i])
        /\ denied' = DeniedAfter(prompt[i], sent[i])
    BY <1>3 DEF Resume, Return, Returned, WellFormed, TypeOK, Lifecycle
  <2>2. policy \in [DOMAIN policy -> Decision]
    BY DEF WellFormed, TypeOK
  <2>3. ASSUME NEW k \in DOMAIN policy'
        PROVE  \E j \in Returned' \ auto' :
                  /\ policy'[k] \in {AllowSession, AllowAlways, AllowToolKind}
                  /\ answer'[j] = policy'[k]
                  /\ k = GrantKey(prompt'[j], policy'[k])
    <3>1. \/ k \in DOMAIN policy /\ policy'[k] = policy[k]
          \/ /\ sent[i] \in {AllowSession, AllowAlways, AllowToolKind}
             /\ k = GrantKey(prompt[i], sent[i]) /\ policy'[k] = sent[i]
      <4> DEFINE r == Remember(prompt[i], sent[i])
      <4>1. \/ r = policy
            \/ /\ sent[i] \in {AllowSession, AllowAlways, AllowToolKind}
               /\ DOMAIN r = DOMAIN policy \union {GrantKey(prompt[i], sent[i])}
               /\ r[GrantKey(prompt[i], sent[i])] = sent[i]
               /\ \A x \in DOMAIN policy \ {GrantKey(prompt[i], sent[i])} : r[x] = policy[x]
        BY <2>1, <2>2, RememberKey
      <4>2. policy' = r
        BY <2>1
      <4> HIDE DEF r
      <4> QED
        BY <4>1, <4>2
    <3>2. CASE k \in DOMAIN policy /\ policy'[k] = policy[k]
      <4>1. PICK j \in Returned \ auto :
               /\ policy[k] \in {AllowSession, AllowAlways, AllowToolKind}
               /\ answer[j] = policy[k]
               /\ k = GrantKey(prompt[j], policy[k])
        BY <3>2 DEF CachesWereGiven
      <4> QED
        BY <3>2, <4>1, GivenStays
    <3> QED
      BY <2>1, <3>1, <3>2
  <2>4. ASSUME NEW k \in denied'
        PROVE  \E j \in Returned' \ auto' :
                  answer'[j] = RejectAlways /\ k = GlobalKey(prompt'[j])
    <3>1. CASE k \in denied
      <4>1. PICK j \in Returned \ auto : answer[j] = RejectAlways /\ k = GlobalKey(prompt[j])
        BY <3>1 DEF CachesWereGiven
      <4> QED
        BY <4>1, GivenStays
    <3>2. CASE k \notin denied
      BY <2>1, <3>2 DEF DeniedAfter
    <3> QED
      BY <3>1, <3>2
  <2> QED
    BY <2>3, <2>4 DEF CachesWereGiven
<1>4. ASSUME NEW s \in Session, clear_session(s) PROVE CachesWereGiven'
  BY <1>1, <1>4 DEF clear_session
<1>5. ASSUME NEW i \in Id, NEW p \in Prompt,
             AutoResolve(i, p) \/ RefuseDuplicate(i, p) \/ Register(i, p)
      PROVE  UNCHANGED <<policy, denied>>
  BY <1>5 DEF AutoResolve, RefuseDuplicate, Register, caches
<1>6. ASSUME NEW i \in Id,
             spawn_permission_timeout(i) \/ TimerFires(i) \/ Send(i) \/ Drop(i)
      PROVE  UNCHANGED <<policy, denied>>
  BY <1>6 DEF spawn_permission_timeout, TimerFires, Send, Drop, caches
<1>7. ASSUME NEW i \in Id, NEW d \in Decision, respond(i, d)
      PROVE  UNCHANGED <<policy, denied>>
  BY <1>7 DEF respond, caches
<1>8. ASSUME NEW S \in SUBSET pending, cleanup_stale(S)
      PROVE  UNCHANGED <<policy, denied>>
  BY <1>8 DEF cleanup_stale, caches
<1> QED
  BY <1>2, <1>3, <1>4, <1>5, <1>6, <1>7, <1>8 DEF Next, vars

(* What the caches say of a prompt was said of the same thing.                 *)
LEMMA CachedWasGiven ==
    ASSUME WellFormed, CachesWereGiven, NEW p \in Prompt, Cached(p) # None
    PROVE  \E j \in Returned \ auto :
              LET q == prompt[j]
                  sameThing == p.tool = q.tool /\ p.item = q.item
              IN  \/ /\ Cached(p) = AllowSession /\ answer[j] = AllowSession
                     /\ p.session = q.session /\ sameThing
                  \/ Cached(p) = AllowAlways /\ answer[j] = AllowAlways /\ sameThing
                  \/ Cached(p) = AllowToolKind /\ answer[j] = AllowToolKind /\ p.tool = q.tool
                  \/ Cached(p) = Deny /\ answer[j] = RejectAlways /\ sameThing
<1> DEFINE key == policy_key_for(p)
           narrow == IF key \in DOMAIN policy THEN key ELSE GlobalKey(p)
<1>0. \A j \in Returned \ auto : prompt[j] \in Prompt
  BY DEF WellFormed, Lifecycle, Returned, None, Decision, AllowOnce, AllowSession,
         AllowAlways, AllowToolKind, Deny, RejectAlways
<1>1. CASE Has(narrow, {AllowAlways, AllowSession})
  <2>1. Cached(p) = policy[narrow] /\ narrow \in {key, GlobalKey(p)}
        /\ policy[narrow] \in {AllowAlways, AllowSession} /\ narrow \in DOMAIN policy
    BY <1>1 DEF Cached, Has
  <2>2. PICK j \in Returned \ auto :
           answer[j] = policy[narrow] /\ narrow = GrantKey(prompt[j], policy[narrow])
    BY <2>1 DEF CachesWereGiven
  <2>3. CASE policy[narrow] = AllowSession
    BY <1>0, <2>1, <2>2, <2>3, PromptKeys, BlankAssumption DEF GrantKey
  <2>4. CASE policy[narrow] = AllowAlways
    BY <1>0, <2>1, <2>2, <2>4, PromptKeys, BlankAssumption
       DEF GrantKey, AllowAlways, AllowSession
  <2> QED
    BY <2>1, <2>3, <2>4
<1>2. CASE ~Has(narrow, {AllowAlways, AllowSession}) /\ Has(ToolKindKey(p), {AllowToolKind})
  <2>1. Cached(p) = AllowToolKind /\ ToolKindKey(p) \in DOMAIN policy
        /\ policy[ToolKindKey(p)] = AllowToolKind
    BY <1>2 DEF Cached, Has
  <2>2. PICK j \in Returned \ auto :
           answer[j] = AllowToolKind /\ ToolKindKey(p) = GrantKey(prompt[j], AllowToolKind)
    BY <2>1 DEF CachesWereGiven
  <2>3. ToolKindKey(p) = ToolKindKey(prompt[j])
    BY <2>2 DEF GrantKey, AllowToolKind, AllowSession, AllowAlways
  <2> QED
    BY <1>0, <2>1, <2>2, <2>3, PromptKeys
<1>3. CASE ~Has(narrow, {AllowAlways, AllowSession}) /\ ~Has(ToolKindKey(p), {AllowToolKind})
  <2>1. Cached(p) = Deny /\ {key, GlobalKey(p)} \intersect denied # {}
    BY <1>3 DEF Cached
  <2>2. PICK j \in Returned \ auto :
           answer[j] = RejectAlways /\ GlobalKey(prompt[j]) \in {key, GlobalKey(p)}
    BY <2>1 DEF CachesWereGiven
  <2> QED
    BY <1>0, <2>1, <2>2, PromptKeys
<1> QED
  BY <1>1, <1>2, <1>3

(* A cached decision repeats one given before, and goes on doing so.           *)
LEMMA CachedDecisionsStep ==
    ASSUME WellFormed, CachesWereGiven, CachedDecisionsWereGiven, [Next]_vars
    PROVE  CachedDecisionsWereGiven'
<1>0. \A i \in auto : i \in Id /\ call[i] = "done"
  BY DEF WellFormed, TypeOK, Lifecycle
<1> DEFINE Repeats(d, p, e, q) ==
             LET sameThing == p.tool = q.tool /\ p.item = q.item
             IN  \/ d = AllowSession /\ e = AllowSession /\ p.session = q.session /\ sameThing
                 \/ d = AllowAlways /\ e = AllowAlways /\ sameThing
                 \/ d = AllowToolKind /\ e = AllowToolKind /\ p.tool = q.tool
                 \/ d = Deny /\ e = RejectAlways /\ sameThing
<1>1. ASSUME NEW i \in auto
      PROVE  \E j \in Returned' \ auto' :
                Repeats(answer'[i], prompt'[i], answer'[j], prompt'[j])
  <2>1. PICK j \in Returned \ auto : Repeats(answer[i], prompt[i], answer[j], prompt[j])
    BY DEF CachedDecisionsWereGiven
  <2>2. answer'[i] = answer[i] /\ prompt'[i] = prompt[i]
    BY <1>0, DoneStays
  <2>3. j \in Returned' \ auto' /\ answer'[j] = answer[j] /\ prompt'[j] = prompt[j]
    BY GivenStays
  <2> QED
    BY <2>1, <2>2, <2>3
<1>2. ASSUME NEW i \in Id, NEW p \in Prompt, AutoResolve(i, p)
      PROVE  \E j \in Returned' \ auto' :
                Repeats(answer'[i], prompt'[i], answer'[j], prompt'[j])
  <2>1. Cached(p) # None /\ answer'[i] = Cached(p) /\ prompt'[i] = p
    BY <1>2 DEF AutoResolve, Enter, Return, WellFormed, TypeOK
  <2>2. PICK j \in Returned \ auto : Repeats(Cached(p), p, answer[j], prompt[j])
    BY <2>1, CachedWasGiven
  <2>3. j \in Returned' \ auto' /\ answer'[j] = answer[j] /\ prompt'[j] = prompt[j]
    BY GivenStays
  <2> QED
    BY <2>1, <2>2, <2>3
<1>3. \A i \in auto' \ auto : \E p \in Prompt : i \in Id /\ AutoResolve(i, p)
  <2>1. ASSUME NEW i \in Id, NEW p \in Prompt, AutoResolve(i, p)
        PROVE  auto' = auto \union {i}
    BY <2>1 DEF AutoResolve
  <2>2. ASSUME NEW i \in Id, NEW p \in Prompt, RefuseDuplicate(i, p) \/ Register(i, p)
        PROVE  auto' = auto
    BY <2>2 DEF RefuseDuplicate, Register
  <2>3. ASSUME NEW i \in Id,
               spawn_permission_timeout(i) \/ TimerFires(i) \/ Send(i) \/ Resume(i) \/ Drop(i)
        PROVE  auto' = auto
    BY <2>3 DEF spawn_permission_timeout, TimerFires, Send, Resume, Drop
  <2>4. ASSUME NEW i \in Id, NEW d \in Decision, respond(i, d) PROVE auto' = auto
    BY <2>4 DEF respond
  <2>5. ASSUME NEW S \in SUBSET pending, cleanup_stale(S) PROVE auto' = auto
    BY <2>5 DEF cleanup_stale
  <2>6. ASSUME NEW s \in Session, clear_session(s) PROVE auto' = auto
    BY <2>6 DEF clear_session
  <2> QED
    BY <2>1, <2>2, <2>3, <2>4, <2>5, <2>6 DEF Next, vars
<1>4. \A i \in auto' : \E j \in Returned' \ auto' :
         Repeats(answer'[i], prompt'[i], answer'[j], prompt'[j])
  BY <1>1, <1>2, <1>3
<1> QED
  BY <1>4 DEF CachedDecisionsWereGiven

------------------------------------------------------------------------------
(* Theorems                                                                    *)

(* The whole inductive invariant, conjunct by conjunct.                        *)
Inv == /\ WellFormed
       /\ OnePromptPerToolCall
       /\ OnOffer /\ AnswerWasOffered
       /\ TimeoutSpent /\ TimeoutMeansDenied
       /\ CachesWereGiven /\ CachedDecisionsWereGiven

(* A manager that has just been made satisfies it.                             *)
LEMMA InitInv == Init => Inv
<1> SUFFICES ASSUME Init PROVE Inv
  OBVIOUS
<1>1. TypeOK
  <2>1. audit \in Seq([id : Id, decision : Decision])
    BY DEF Init
  <2> QED
    BY <2>1 DEF Init, TypeOK, Calls
<1>2. Lifecycle /\ OneSenderPerWaiter
  BY DEF Init, Lifecycle, OneSenderPerWaiter, InFlight
<1>3. Returned = {} /\ auto = {}
  BY DEF Init, Returned, None, Decision, AllowOnce, AllowSession, AllowAlways,
         AllowToolKind, Deny, RejectAlways
<1>4. OnePromptPerToolCall /\ OnOffer /\ TimeoutSpent /\ TimeoutMeansDenied
  BY DEF Init, OnePromptPerToolCall, OnOffer, TimeoutSpent, TimeoutMeansDenied
<1>5. CachesWereGiven
  BY DEF Init, CachesWereGiven
<1> QED
  BY <1>1, <1>2, <1>3, <1>4, <1>5
     DEF Inv, WellFormed, AnswerWasOffered, CachedDecisionsWereGiven

(* Every step of the manager, its callers and its tasks keeps it.              *)
LEMMA StepInv == Inv /\ [Next]_vars => Inv'
<1> SUFFICES ASSUME Inv, [Next]_vars PROVE Inv'
  OBVIOUS
<1>1. WellFormed'
  BY TypeStep, LifecycleStep, SenderStep DEF Inv, WellFormed
<1>2. OnePromptPerToolCall' /\ OnOffer' /\ AnswerWasOffered'
  BY ToolCallStep, OfferStep, AnswerStep DEF Inv
<1>3. TimeoutSpent' /\ TimeoutMeansDenied'
  BY TimeoutStep DEF Inv
<1>4. CachesWereGiven' /\ CachedDecisionsWereGiven'
  BY CachesStep, CachedDecisionsStep DEF Inv
<1> QED
  BY <1>1, <1>2, <1>3, <1>4 DEF Inv

(* The invariant holds in every reachable state of the manager, for any number *)
(* of calls, sessions, tools and prompts.                                      *)
THEOREM Invariance == Spec => []Inv
<1> QED
  BY InitInv, StepInv, PTL DEF Spec

(* The manager's maps and channels keep their types: decisions recorded are    *)
(* decisions, keys are keys, and the audit log a sequence of entries.          *)
THEOREM TypeCorrect == Spec => []TypeOK
<1>1. Inv => TypeOK
  BY DEF Inv, WellFormed
<1> QED
  BY <1>1, Invariance, PTL

(* respond, the timer, the sweeper, clear_session and a dropped future race    *)
(* for a prompt's oneshot sender and exactly one gets it, so no waiting call   *)
(* sees its channel close without a decision.                                  *)
THEOREM SendersSafe == Spec => []OneSenderPerWaiter
<1>1. Inv => OneSenderPerWaiter
  BY DEF Inv, WellFormed
<1> QED
  BY <1>1, Invariance, PTL

(* The check under the lock in `request` keeps two pending prompts of a        *)
(* session from carrying the same tool call.                                   *)
THEOREM ToolCallsApart == Spec => []OnePromptPerToolCall
<1>1. Inv => OnePromptPerToolCall
  BY DEF Inv
<1> QED
  BY <1>1, Invariance, PTL

(* The validation in `respond` holds up to the answer the caller sees: it was  *)
(* offered, or it is the manager's own Deny.                                   *)
THEOREM AnswersOffered == Spec => []AnswerWasOffered
<1>1. Inv => AnswerWasOffered
  BY DEF Inv
<1> QED
  BY <1>1, Invariance, PTL

(* A PermissionTimedOut event is only published for a call that gets Deny.     *)
THEOREM TimeoutsDeny == Spec => []TimeoutMeansDenied
<1>1. Inv => TimeoutMeansDenied
  BY DEF Inv
<1> QED
  BY <1>1, Invariance, PTL

(* No interleaving of answers, closes and cache look-ups makes up a grant: a   *)
(* call resolved from the caches repeats an answer a device gave for the same  *)
(* session, tool and item, as far as the answer reached.                       *)
THEOREM GrantsWereGiven == Spec => []CachedDecisionsWereGiven
<1>1. Inv => CachedDecisionsWereGiven
  BY DEF Inv
<1> QED
  BY <1>1, Invariance, PTL

------------------------------------------------------------------------------
(* The refinement                                                              *)

(* The words of the model differ.                                              *)
LEMMA Words ==
    /\ Deny \in Decision /\ None \notin Decision /\ TimedOut \notin Decision
    /\ Error # None /\ Dropped # None /\ TimedOut # None
    /\ Error \notin Decision /\ Dropped \notin Decision
BY DEF Decision, AllowOnce, AllowSession, AllowAlways, AllowToolKind, Deny, RejectAlways,
       None, TimedOut, Error, Dropped

(* What a prompt offers is a decision, and a call that was made has a prompt.  *)
LEMMA OptionsType ==
    ASSUME NEW p \in Prompt
    PROVE  Options(p) \subseteq Decision /\ p # NoPrompt
<1>1. p \in PromptType
  BY PromptAssumption
<1>2. Options(p) \subseteq Decision
  BY <1>1 DEF Options, PromptType, AgentOption, Decision
<1>3. p # NoPrompt
  BY <1>1, BlankAssumption DEF PromptType, NoPrompt
<1> QED BY <1>2, <1>3

(* The verdict of a call that is still under way is with its sender.           *)
LEMMA GivenWhere ==
    ASSUME WellFormed, NEW i \in Id
    PROVE  /\ call[i] = "idle" => Given(i) = None /\ taken[i] = None /\ sent[i] = None
           /\ i \in pending => /\ i \in InFlight /\ Given(i) = None
                             /\ answer[i] = None /\ sent[i] = None /\ taken[i] = None
           /\ call[i] # "done" => answer[i] = None
           /\ sent[i] # None => i \in InFlight /\ taken[i] = None /\ Given(i) = sent[i]
           /\ taken[i] # None => i \in InFlight \/ answer[i] = Dropped
BY DEF WellFormed, Lifecycle, OneSenderPerWaiter, InFlight, Given, None, TimedOut

(* Several open calls are decided at once by one critical section.             *)
LEMMA DecideRefines ==
    ASSUME WellFormed,
           NEW S \in SUBSET pending, NEW v \in Decision,
           call' = call, prompt' = prompt,
           \A i \in S : v \in Offered(i) /\ Given(i)' = v,
           \A i \in Id \ S : Given(i)' = Given(i)
    PROVE  Promise!Decide(S, v)
<1>1. S \subseteq Id
  BY DEF WellFormed, TypeOK
<1>2. \A q \in S : OpenOrDone(q) = "open" /\ Given(q) = None
  BY <1>1, GivenWhere DEF OpenOrDone, InFlight
<1>3. [i \in Id |-> Given(i)]' = [q \in Id |-> IF q \in S THEN v ELSE [i \in Id |-> Given(i)][q]]
  BY <1>1
<1>4. UNCHANGED <<[i \in Id |-> OpenOrDone(i)], [i \in Id |-> Offered(i)]>>
  BY DEF OpenOrDone, Offered
<1> QED
  BY <1>1, <1>2, <1>3, <1>4 DEF Promise!Decide

(* Every step of the manager is a step of its promise, or none of its business.*)
LEMMA StepRefines ==
    ASSUME WellFormed, WellFormed', [Next]_vars
    PROVE  [Promise!Next]_(Promise!vars)
<1>0. /\ call \in [Id -> Calls] /\ prompt \in [Id -> Prompt \union {NoPrompt}]
      /\ taken \in [Id -> Decision \union {None, TimedOut}]
      /\ sent \in [Id -> Decision \union {None}]
      /\ answer \in [Id -> Decision \union {None, Error, Dropped}]
      /\ pending \in SUBSET Id
  BY DEF WellFormed, TypeOK
<1>a. \A i \in Id : Offered(i)' \in SUBSET Decision
  <2>1. prompt' \in [Id -> Prompt \union {NoPrompt}]
    BY DEF WellFormed, TypeOK
  <2> QED BY <2>1, OptionsType, Words DEF Offered
<1>1. ASSUME NEW i \in Id, NEW p \in Prompt, AutoResolve(i, p) \/ RefuseDuplicate(i, p)
      PROVE  Promise!Settle(i)
  <2>1. PICK r \in Decision \union {Error} : Enter(i, p) /\ Return(i, r) /\ UNCHANGED channel
    <3>1. CASE AutoResolve(i, p)
      <4>1. Cached(p) \in Decision
        BY <3>1, CachedType DEF AutoResolve, Decision
      <4> QED BY <3>1, <4>1 DEF AutoResolve
    <3>2. CASE RefuseDuplicate(i, p)
      BY <3>2 DEF RefuseDuplicate
    <3> QED BY <1>1, <3>1, <3>2
  <2>2. \A j \in Id : OpenOrDone(j)' = IF j = i THEN "closed" ELSE OpenOrDone(j)
    BY <1>0, <2>1 DEF OpenOrDone, Return
  <2>3. \A j \in Id : Offered(j)' = IF j = i THEN Offered(i)' ELSE Offered(j)
    BY <1>0, <2>1 DEF Offered, Enter
  <2>4. \A j \in Id : Given(j)' = IF j = i THEN r ELSE Given(j)
    BY <1>0, <2>1, Words DEF Given, Return, channel
  <2>5. OpenOrDone(i) = "idle"
    BY <2>1 DEF OpenOrDone, Enter
  <2> QED
    BY <1>a, <2>2, <2>3, <2>4, <2>5 DEF Promise!Settle
<1>2. ASSUME NEW i \in Id, NEW p \in Prompt, Register(i, p) PROVE Promise!Open(i)
  <2>1. \A j \in Id : OpenOrDone(j)' = IF j = i THEN "open" ELSE OpenOrDone(j)
    BY <1>0, <1>2 DEF OpenOrDone, Register
  <2>2. \A j \in Id : Offered(j)' = IF j = i THEN Offered(i)' ELSE Offered(j)
    BY <1>0, <1>2 DEF Offered, Register, Enter
  <2>3. \A j \in Id : Given(j)' = Given(j)
    BY <1>2 DEF Given, Register
  <2>4. OpenOrDone(i) = "idle"
    BY <1>2 DEF OpenOrDone, Register, Enter
  <2> QED
    BY <1>a, <2>1, <2>2, <2>3, <2>4 DEF Promise!Open
<1>3. ASSUME NEW i \in Id, spawn_permission_timeout(i) PROVE UNCHANGED Promise!vars
  <2>1. \A j \in Id : OpenOrDone(j)' = OpenOrDone(j)
    BY <1>0, <1>3 DEF OpenOrDone, spawn_permission_timeout
  <2>2. \A j \in Id : Offered(j)' = Offered(j) /\ Given(j)' = Given(j)
    BY <1>3 DEF Offered, Given, spawn_permission_timeout, channel
  <2> QED
    BY <2>1, <2>2 DEF Promise!vars
<1>4. ASSUME NEW i \in Id, TimerFires(i) PROVE Promise!Decide({i}, Deny)
  <2>1. Given(i)' = Deny /\ Deny \in Offered(i)
    <3>1. answer'[i] = None /\ sent'[i] = None /\ taken'[i] = TimedOut
      BY <1>0, <1>4, GivenWhere DEF TimerFires
    <3>2. prompt[i] # NoPrompt
      BY <1>4, OptionsType DEF TimerFires, WellFormed, Lifecycle
    <3> QED BY <3>1, <3>2 DEF Given, Offered
  <2>2. \A j \in Id \ {i} : Given(j)' = Given(j)
    BY <1>0, <1>4 DEF Given, TimerFires
  <2> QED
    BY <1>4, <2>1, <2>2, DecideRefines, Words DEF TimerFires
<1>5. ASSUME NEW i \in Id, Send(i) PROVE UNCHANGED Promise!vars
  <2>1. \A j \in Id : OpenOrDone(j)' = OpenOrDone(j) /\ Offered(j)' = Offered(j)
    BY <1>5 DEF OpenOrDone, Offered, Send
  <2>2. \A j \in Id \ {i} : Given(j)' = Given(j)
    BY <1>0, <1>5 DEF Given, Send
  <2>3. Given(i)' = Given(i)
    <3>1. CASE i \in InFlight
      <4>1. sent[i] = None /\ answer[i] = None
        BY <1>5, <3>1, GivenWhere DEF Send, InFlight
      <4> QED BY <1>0, <1>5, <3>1, <4>1, Words DEF Given, Send
    <3>2. CASE i \notin InFlight
      BY <1>5, <3>2, GivenWhere, Words DEF Given, Send
    <3> QED BY <3>1, <3>2
  <2> QED
    BY <2>1, <2>2, <2>3 DEF Promise!vars
<1>6. ASSUME NEW i \in Id, Resume(i) PROVE Promise!Tell(i)
  <2>1. \A j \in Id : OpenOrDone(j)' = IF j = i THEN "closed" ELSE OpenOrDone(j)
    BY <1>0, <1>6 DEF OpenOrDone, Resume, Return
  <2>2. \A j \in Id : Offered(j)' = Offered(j)
    BY <1>6 DEF Offered, Resume
  <2>3. Given(i) = sent[i] /\ Given(i)' = sent[i] /\ sent[i] # None
    BY <1>0, <1>6, GivenWhere DEF Given, Resume, Return
  <2>4. \A j \in Id \ {i} : Given(j)' = Given(j)
    BY <1>0, <1>6 DEF Given, Resume, Return
  <2>5. OpenOrDone(i) = "open"
    BY <1>6 DEF OpenOrDone, Resume
  <2> QED
    BY <2>1, <2>2, <2>3, <2>4, <2>5 DEF Promise!Tell
<1>7. ASSUME NEW i \in Id, Drop(i) PROVE Promise!Abandon(i)
  <2>1. \A j \in Id : OpenOrDone(j)' = IF j = i THEN "closed" ELSE OpenOrDone(j)
    BY <1>0, <1>7 DEF OpenOrDone, Drop, Return
  <2>2. \A j \in Id : Offered(j)' = Offered(j)
    BY <1>7 DEF Offered, Drop
  <2>3. \A j \in Id : Given(j)' = IF j = i THEN Dropped ELSE Given(j)
    BY <1>0, <1>7, Words DEF Given, Drop, Return
  <2>4. OpenOrDone(i) = "open"
    BY <1>7 DEF OpenOrDone, Drop, InFlight
  <2> QED
    BY <2>1, <2>2, <2>3, <2>4 DEF Promise!Abandon
<1>8. ASSUME NEW i \in Id, NEW d \in Decision, respond(i, d) PROVE Promise!Decide({i}, d)
  <2>1. Given(i)' = d /\ d \in Offered(i)
    <3>1. answer'[i] = None /\ sent'[i] = None /\ taken'[i] = d
      BY <1>0, <1>8, GivenWhere DEF respond
    <3>2. prompt[i] # NoPrompt
      BY <1>8, OptionsType DEF respond, WellFormed, Lifecycle, InFlight
    <3> QED BY <1>8, <3>1, <3>2, Words DEF Given, Offered, respond
  <2>2. \A j \in Id \ {i} : Given(j)' = Given(j)
    BY <1>0, <1>8 DEF Given, respond
  <2> QED
    BY <1>8, <2>1, <2>2, DecideRefines DEF respond
<1>9. ASSUME NEW S \in SUBSET pending, DenyPending(S),
             UNCHANGED <<call, prompt, taken, answer>>
      PROVE  Promise!Decide(S, Deny)
  <2>1. ASSUME NEW i \in S PROVE Given(i)' = Deny /\ Deny \in Offered(i)
    <3>1. answer'[i] = None /\ sent'[i] = Deny
      BY <1>0, <1>9, <2>1, GivenWhere DEF DenyPending
    <3>2. prompt[i] # NoPrompt
      BY <1>0, <2>1, OptionsType DEF WellFormed, Lifecycle, InFlight
    <3> QED BY <3>1, <3>2, Words DEF Given, Offered
  <2>2. \A j \in Id \ S : Given(j)' = Given(j)
    BY <1>0, <1>9 DEF Given, DenyPending
  <2> QED
    BY <1>9, <2>1, <2>2, DecideRefines, Words
<1>10. CASE UNCHANGED vars
  BY <1>10 DEF vars, Promise!vars, OpenOrDone, Offered, Given
<1>11. ASSUME NEW S \in SUBSET pending, cleanup_stale(S) PROVE Promise!Next
  BY <1>0, <1>9, <1>11, Words DEF cleanup_stale, Promise!Next
<1>12. ASSUME NEW s \in Session, clear_session(s) PROVE Promise!Next
  BY <1>0, <1>9, <1>12, Words DEF clear_session, Promise!Next
<1> QED
  BY <1>1, <1>2, <1>3, <1>4, <1>5, <1>6, <1>7, <1>8, <1>10, <1>11, <1>12, Words
     DEF Next, Promise!Next

(* The manager implements Verdicts: each call gets one verdict out of what was *)
(* offered to it, and returns that one (manager.rs:17-20, 509-549).            *)
THEOREM VerdictsKept == Spec => VerdictIsFinal
<1>1. Init => Promise!Init
  BY DEF Init, Promise!Init, OpenOrDone, Offered, Given, None, TimedOut
<1>2. Inv /\ Inv' /\ [Next]_vars => [Promise!Next]_(Promise!vars)
  BY StepRefines DEF Inv
<1> QED
  BY <1>1, <1>2, Invariance, PTL DEF Spec, VerdictIsFinal, Promise!Spec
=============================================================================
