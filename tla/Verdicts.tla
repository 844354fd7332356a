------------------------------ MODULE Verdicts ------------------------------
(* What the permission manager promises an agent: each question is opened      *)
(* once, gets one verdict out of what was offered, whoever gives it, and the   *)
(* verdict an asker is told is the one that was given.                         *)
CONSTANTS
    Question,   \* the questions
    Verdict,    \* what a device, or the manager itself, may decide
    Refusal,    \* how a question ends without a verdict
    None        \* no verdict yet

VARIABLES
    stage,      \* "idle", "open" or "closed"
    offered,    \* the verdicts a question may get
    verdict     \* the one it got

vars == <<stage, offered, verdict>>

Init ==
    /\ stage = [q \in Question |-> "idle"]
    /\ offered = [q \in Question |-> {}]
    /\ verdict = [q \in Question |-> None]

\* The question waits for somebody to decide.
Open(q) ==
    /\ stage[q] = "idle"
    /\ stage' = [stage EXCEPT ![q] = "open"]
    /\ \E s \in SUBSET Verdict : offered' = [offered EXCEPT ![q] = s]
    /\ UNCHANGED verdict

\* A question that is answered, or refused, when it is asked.
Settle(q) ==
    /\ stage[q] = "idle"
    /\ stage' = [stage EXCEPT ![q] = "closed"]
    /\ \E s \in SUBSET Verdict : offered' = [offered EXCEPT ![q] = s]
    /\ \E v \in Verdict \union Refusal : verdict' = [verdict EXCEPT ![q] = v]

\* Some open questions without a verdict get one: a device answers one, a
\* timer or the end of a session denies.
Decide(S, v) ==
    /\ \A q \in S : stage[q] = "open" /\ verdict[q] = None /\ v \in offered[q]
    /\ verdict' = [q \in Question |-> IF q \in S THEN v ELSE verdict[q]]
    /\ UNCHANGED <<stage, offered>>

\* The asker is told the verdict.
Tell(q) ==
    /\ stage[q] = "open" /\ verdict[q] # None
    /\ stage' = [stage EXCEPT ![q] = "closed"]
    /\ UNCHANGED <<offered, verdict>>

\* The asker goes away, with or without a verdict.
Abandon(q) ==
    /\ stage[q] = "open"
    /\ stage' = [stage EXCEPT ![q] = "closed"]
    /\ \E v \in Refusal : verdict' = [verdict EXCEPT ![q] = v]
    /\ UNCHANGED offered

Next ==
    \/ \E q \in Question : Open(q) \/ Settle(q) \/ Tell(q) \/ Abandon(q)
    \/ \E S \in SUBSET Question, v \in Verdict : Decide(S, v)

Spec == Init /\ [][Next]_vars
=============================================================================
