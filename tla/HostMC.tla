-------------------------------- MODULE HostMC --------------------------------
(* Small instances of what the daemon does with other processes of its host,   *)
(* for TLC: the commands that start, stop and configure it (Host), and the     *)
(* programs of agents it looks for (AgentProbe).  The two share no state;      *)
(* "side" says which of them a behaviour is about.                             *)
EXTENDS Host, AgentProbe, TLC

\* One host has all but Devin, one has it with a key besides an empty one, one has
\* only Devin, and no key.
Anywhere == {<<"p", "claude">>, <<"p", "codex-acp">>, <<"p", "vibe">>, <<"cursor", "cursor-agent">>,
             <<"devin", "devin">>, <<"cursor", "devin">>}
Key(k, v) == [key |-> k, value |-> v]
Files == ("codex" :> <<[name |-> ""], [name |-> "a"]>>)
         @@ ("mistral-vibe" :> <<[name |-> "a", alias |-> "b"], [name |-> "c", alias |-> ""]>>)
Hosts == {
    [exe |-> Anywhere \ {<<"devin", "devin">>}, file |-> Files, env |-> "", credentials |-> <<>>],
    [exe |-> Anywhere \ {<<"cursor", "cursor-agent">>}, file |-> Files, env |-> "",
     credentials |-> <<Key("api_key", "k"), Key("windsurf_api_key", "")>>],
    [exe |-> {<<"devin", "devin">>}, file |-> Files, env |-> "", credentials |-> <<>>]}
Option(model, current, choices) == [isModel |-> model, current |-> current, choices |-> choices]
Options == {
    <<>>,
    <<Option(FALSE, "fast", <<"fast">>), Option(TRUE, "", <<"">>),
      Option(TRUE, "b", <<"a", "", "b", "a">>), Option(TRUE, "c", <<"c">>)>>}

Path == <<"p">>
Printed == {"m1", "note", "no models available"}

-----------------------------------------------------------------------------
VARIABLE side
allVars == <<hostVars, probeVars, side>>
MCInit ==
    /\ HostInit /\ ProbeInit
    /\ \/ side = "host" /\ machine = CHOOSE m \in Hosts : TRUE
       \/ side = "probe" /\ file = {} /\ ~allowRemote
MCNext ==
    \/ side = "host" /\ HostNext /\ UNCHANGED <<probeVars, side>>
    \/ side = "probe" /\ ProbeNext /\ UNCHANGED <<hostVars, side>>
MCSpec == MCInit /\ [][MCNext]_allVars /\ Fairness
=============================================================================
