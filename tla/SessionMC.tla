------------------------------ MODULE SessionMC -------------------------------
(* A larger instance of SessionLifecycle for TLC: more operations than a run   *)
(* can call in every order, called in one order.                               *)
EXTENDS SessionLifecycle

\* Two devices change the agent; between them one cancels and one goes on.
Requests == <<"rebind", "cancel", "prompt", "rebind">>

\* Nothing fails, nothing restarts, and every agent lives and answers.
RequestsNext ==
    \/ Daemon
    \/ \E i \in Op : Call(i, Requests[i])
    \/ \E g \in Gen : AgentUp(g) \/ SetupDone(g) \/ Reply(g)

RequestsSpec == Init /\ [][RequestsNext]_vars

=============================================================================
