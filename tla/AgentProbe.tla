------------------------------ MODULE AgentProbe ------------------------------
(* How the daemon finds the agents that are installed and asks them for their  *)
(* models: autodetect (src/acp/autodetect), as two requests of the HTTP        *)
(* interface may call it at once (src/api/agents.rs).  Each call runs programs *)
(* of the host and reads what they print, under a timeout; programs may fail,  *)
(* say too much, or leave a process of their own behind.                       *)
EXTENDS Integers, Sequences, FiniteSets, Functions

CONSTANTS
    Caller,         \* calls of POST /api/agents/autodetect
    Machine,        \* hosts: executables, model files and the credentials of Devin
    PathDirs,       \* PATH
    Lines,          \* what agent --list-models prints
    Configs,        \* what session/new tells of its options
    MaxProbeOutput, \* MAX_PROBE_OUTPUT, in lines
    Talkative,      \* bound: the calls whose programs say anything or hang; the others only exit
    MaxSaid, MaxLost

\* A program is in a directory, a credentials file is scanned for two keys, and an
\* option has a current value and a list of choices.
ASSUME ProbeAssumption ==
    /\ \A m \in Machine :
          /\ m.exe \subseteq STRING \X STRING
          /\ m.credentials \in Seq([key : {"windsurf_api_key", "api_key"}, value : STRING])
    /\ Configs \subseteq Seq([isModel : BOOLEAN, current : STRING, choices : Seq(STRING)])
    /\ MaxProbeOutput \in Nat

VARIABLES
    machine, \* the host
    calls,   \* the calls, and the harnesses each has found
    probe,   \* by call and harness: the task that runs its program
    child,   \* by call and harness: the program
    cache,   \* autodetect_cache, and whether it is younger than the cooldown
    spent    \* lines said and faults so far

probeVars == <<machine, calls, probe, child, cache, spent>>
Lost == spent.faults < MaxLost /\ spent' = [spent EXCEPT !.faults = @ + 1]

------------------------------------------------------------------------------
(* Lists                                                                       *)

\* The elements of a list at some of its places, in their order.
Listed(list, at) ==
    [k \in 1..Cardinality(at) |-> list[CHOOSE n \in at : Cardinality({m \in at : m <= n}) = k]]
Least(S) == CHOOSE n \in S : \A m \in S : n <= m
\* The first of some pairs of numbers.
First(P) == CHOOSE p \in P : \A q \in P : p[1] < q[1] \/ (p[1] = q[1] /\ p[2] <= q[2])

------------------------------------------------------------------------------
(* The registry of harnesses                                                   *)

HARNESSES == <<"claude-code", "codex", "cursor", "devin", "mistral-vibe">>
Live == {"cursor", "devin"}
commands ==
    [h \in Range(HARNESSES) |->
        CASE h = "claude-code" -> <<"claude">>
          [] h = "codex" -> <<"codex-acp">>
          [] h = "cursor" -> <<"agent", "cursor-agent">>
          [] h = "devin" -> <<"devin">>
          [] OTHER -> <<"vibe-acp", "vibe">>]
\* A directory is named after the harness that looks there.
search_paths == [h \in Range(HARNESSES) |-> IF h \in Live THEN <<h>> ELSE <<>>]

\* PATH goes before the harness's own directories, its first command before the
\* others; <<>> when none is there.
find_first_command(h) ==
    LET inPath == {p \in (DOMAIN commands[h]) \X (DOMAIN PathDirs) :
                      <<PathDirs[p[2]], commands[h][p[1]]>> \in machine.exe}
        beside == {p \in (DOMAIN search_paths[h]) \X (DOMAIN commands[h]) :
                      <<search_paths[h][p[1]], commands[h][p[2]]>> \in machine.exe}
    IN CASE inPath # {} -> <<PathDirs[First(inPath)[2]], commands[h][First(inPath)[1]]>>
         [] inPath = {} /\ beside # {} ->
               <<search_paths[h][First(beside)[1]], commands[h][First(beside)[2]]>>
         [] OTHER -> <<>>
Installed == {n \in DOMAIN HARNESSES : find_first_command(HARNESSES[n]) # <<>>}

\* Codex keeps slugs in a file, Vibe names, some with an alias; an entry without is
\* left out.
Named(h) == Listed(machine.file[h], {n \in DOMAIN machine.file[h] : machine.file[h][n].name # ""})
models_from_cache == [i \in DOMAIN Named("codex") |-> Named("codex")[i].name]
models_from_config ==
    [i \in DOMAIN Named("mistral-vibe") |->
        LET m == Named("mistral-vibe")[i] IN IF m.alias = "" THEN m.name ELSE m.alias]

\* DEVIN_API_KEY, else the credentials file: a windsurf_api_key anywhere in it
\* goes before an api_key, and an empty value counts as none.
read_local_api_key ==
    LET file == machine.credentials
        Of(key) == {n \in DOMAIN file : file[n].key = key /\ file[n].value # ""}
        key == IF Of("windsurf_api_key") # {} THEN "windsurf_api_key" ELSE "api_key"
    IN CASE machine.env # "" -> machine.env
         [] machine.env = "" /\ Of(key) # {} -> file[Least(Of(key))].value
         [] OTHER -> ""

------------------------------------------------------------------------------
(* What the programs print                                                     *)

\* parse_list_models: lines that name no model are left out.
parse_list_models(lines) ==
    IF "no models available" \in Range(lines) THEN <<>>
    ELSE Listed(lines, {n \in DOMAIN lines : lines[n] # "note"})

\* The choices of an option, without empty and repeated ones, the current first.
Offered(option) ==
    LET v == option.choices
        kept == Listed(v, {n \in DOMAIN v : v[n] # "" /\ \A m \in 1..(n - 1) : v[m] # v[n]})
    IN IF option.current \in Range(kept)
       THEN <<option.current>> \o Listed(kept, {n \in DOMAIN kept : kept[n] # option.current})
       ELSE kept

\* The first option about models that offers any.
models_from_session_config(config) ==
    LET usable == {n \in DOMAIN config : config[n].isModel /\ Offered(config[n]) # <<>>}
    IN IF usable = {} THEN <<>> ELSE Offered(config[Least(usable)])

\* A message of an ACP agent: the answer to a request, an error, a notification
\* (id 0), or a line that is too long or no JSON.
Message(asked) ==
    [id : {0}, body : {"ok", "garbage"}, config : {<<>>}] \union
    [id : 1..asked, body : {"error"}, config : {<<>>}] \union
    [id : 1..asked \ {3}, body : {"ok"}, config : {<<>>}] \union
    (IF asked = 3 THEN [id : {3}, body : {"ok"}, config : Configs] ELSE {})

------------------------------------------------------------------------------
NoProbe == [at |-> "none", step |-> 0, models |-> <<>>]
NoChild == [run |-> "none", kin |-> FALSE, out |-> <<>>, read |-> 0, login |-> "none"]
NoAnswer == [by |-> "nobody", agents |-> <<>>]

ProbeInit ==
    /\ machine \in Machine
    /\ calls = [r \in Caller |-> [at |-> "idle", pending |-> <<>>, answer |-> NoAnswer]]
    /\ probe = [r \in Caller |-> [h \in Live |-> NoProbe]]
    /\ child = [r \in Caller |-> [h \in Live |-> NoChild]]
    /\ cache = [fresh |-> FALSE, answer |-> NoAnswer]
    /\ spent = [said |-> 0, faults |-> 0]

Answer(r, a) == calls' = [calls EXCEPT ![r] = [at |-> "answered", pending |-> <<>>, answer |-> a]]
ProbeGoto(r, h, at) == probe' = [probe EXCEPT ![r][h].at = at]
\* The exchange is over, with these models, none if it failed; the program is
\* ended next.
Settle(r, h, models) == probe' = [probe EXCEPT ![r][h] = [@ EXCEPT !.at = "kill", !.models = models]]
ProbeAt(r, h, at) == probe[r][h].at = at
\* Somebody still has the pipes of the program open.
PipesOpen(c) == c.run = "alive" \/ c.kin

\* A call within the cooldown of the last: its answer.
autodetect_cached(r) ==
    /\ calls[r].at = "idle" /\ cache.fresh
    /\ Answer(r, cache.answer)
    /\ UNCHANGED <<machine, probe, child, cache, spent>>

\* Otherwise every harness is looked for, and the programs of those found are
\* started at once; the files are read on the way.
autodetect_with(r) ==
    LET pending == Listed(HARNESSES, Installed) IN
    /\ calls[r].at = "idle" /\ ~cache.fresh
    /\ calls' = [calls EXCEPT ![r].at = "probing", ![r].pending = pending]
    /\ \E broken \in SUBSET (Range(pending) \intersect Live) :
          /\ IF broken = {} THEN UNCHANGED spent ELSE Lost
          /\ probe' = [probe EXCEPT ![r] = [h \in Live |->
                CASE h \notin Range(pending) -> NoProbe
                  [] h \in broken -> [NoProbe EXCEPT !.at = "over"]
                  [] OTHER -> [NoProbe EXCEPT !.at = "reading", !.step = 1]]]
          /\ child' = [child EXCEPT ![r] = [h \in Live |->
                IF h \in Range(pending) \ broken THEN [NoChild EXCEPT !.run = "alive"] ELSE NoChild]]
    /\ UNCHANGED <<machine, cache>>

------------------------------------------------------------------------------
(* The programs                                                                *)

\* A line of an agent waits in the pipe until it is read, one at a time.
Says(r, h) ==
    /\ r \in Talkative /\ spent.said < MaxSaid
    /\ child[r][h].run = "alive" /\ ProbeAt(r, h, "reading")
    /\ h = "devin" => child[r][h].read = Len(child[r][h].out)
    /\ spent' = [spent EXCEPT !.said = @ + 1]
    /\ \E said \in IF h = "devin" THEN Message(probe[r][h].step) ELSE Lines :
          child' = [child EXCEPT ![r][h].out = Append(@, said)]
    /\ UNCHANGED <<machine, calls, probe, cache>>

\* A process it started may outlive it, with its pipes.  The status of an ACP
\* agent is not looked at.
Exits(r, h) ==
    /\ child[r][h].run = "alive"
    /\ \E how \in {"ended", "failed"}, kin \in BOOLEAN :
          /\ how = "failed" => h = "cursor"
          /\ IF kin THEN Lost ELSE UNCHANGED spent
          /\ child' = [child EXCEPT ![r][h] = [@ EXCEPT !.run = how, !.kin = kin]]
    /\ UNCHANGED <<machine, calls, probe, cache>>

KinEnds(r, h) ==
    /\ child[r][h].kin
    /\ child' = [child EXCEPT ![r][h].kin = FALSE]
    /\ UNCHANGED <<machine, calls, probe, cache, spent>>

------------------------------------------------------------------------------
(* The exchange with an ACP agent: initialize, authenticate, session/new       *)

\* The next request is written, unless nobody is left to read it.
Proceed(r) ==
    IF ~PipesOpen(child[r]["devin"]) THEN Settle(r, "devin", <<>>)
    ELSE probe' = [probe EXCEPT ![r]["devin"].step = @ + 1]
Login == IF read_local_api_key = "" THEN "browser" ELSE "key"

\* A line of the program is read, and taken for the answer if its id is one of ids.
Take(r, ids) ==
    LET c == child[r]["devin"]
        step == probe[r]["devin"].step
        m == c.out[c.read + 1]
        answers == m.id \in ids
        login == IF answers /\ m.body = "ok" /\ step = 1 /\ PipesOpen(c) THEN Login ELSE c.login
    IN
    /\ ProbeAt(r, "devin", "reading") /\ c.read < Len(c.out)
    /\ child' = [child EXCEPT ![r]["devin"] = [c EXCEPT !.read = c.read + 1, !.login = login]]
    /\ CASE m.body = "garbage" -> Settle(r, "devin", <<>>)
         [] m.body # "garbage" /\ ~answers -> UNCHANGED probe
         [] m.body = "error" /\ answers -> Settle(r, "devin", <<>>)
         [] m.body = "ok" /\ answers /\ step < 3 -> Proceed(r)
         [] OTHER -> Settle(r, "devin", models_from_session_config(m.config))
    /\ UNCHANGED <<machine, calls, cache, spent>>

\* A mutant: the next message is the answer, whatever its id.
wait_for_response_any(r) == Take(r, 1..3)

\* Messages with another id are skipped.
wait_for_response(r) == Take(r, {probe[r]["devin"].step})

disconnected(r) ==
    LET c == child[r]["devin"] IN
    /\ ProbeAt(r, "devin", "reading") /\ c.read = Len(c.out) /\ ~PipesOpen(c)
    /\ Settle(r, "devin", <<>>)
    /\ UNCHANGED <<machine, calls, child, cache, spent>>

------------------------------------------------------------------------------
(* The end of a probe                                                          *)

\* What is beyond the limit was read and dropped.
read_capped(lines) == SubSeq(lines, 1, IF Len(lines) < MaxProbeOutput THEN Len(lines) ELSE MaxProbeOutput)
models_from_cli(c) ==
    IF c.run # "ended" THEN <<>> ELSE parse_list_models(read_capped(c.out))

\* Both pipes are at their end and the program has exited.
run_bounded(r) ==
    LET c == child[r]["cursor"] IN
    /\ ProbeAt(r, "cursor", "reading") /\ ~PipesOpen(c)
    /\ probe' = [probe EXCEPT ![r]["cursor"] = [@ EXCEPT !.at = "over", !.models = models_from_cli(c)]]
    /\ UNCHANGED <<machine, calls, child, cache, spent>>

times_out(r, h) ==
    /\ r \in Talkative /\ ProbeAt(r, h, "reading") /\ Settle(r, h, <<>>)
    /\ UNCHANGED <<machine, calls, child, cache, spent>>

\* Only the program is killed, not what it started.
terminate(r, h) ==
    /\ ProbeAt(r, h, "kill") /\ ProbeGoto(r, h, IF h = "devin" THEN "drain" ELSE "over")
    /\ IF child[r][h].run = "alive"
       THEN \E kin \in BOOLEAN :
              /\ IF kin THEN Lost ELSE UNCHANGED spent
              /\ child' = [child EXCEPT ![r][h] = [@ EXCEPT !.run = "killed", !.kin = kin]]
       ELSE UNCHANGED <<child, spent>>
    /\ UNCHANGED <<machine, calls, cache>>

\* stderr_task is waited for without a timeout: as long as anybody has the pipe.
drain(r) ==
    /\ ProbeAt(r, "devin", "drain") /\ ~child[r]["devin"].kin
    /\ ProbeGoto(r, "devin", "over")
    /\ UNCHANGED <<machine, calls, child, cache, spent>>

\* Devin says that or why it has no models; the other harnesses never do.
Warned(h, models) == h = "devin" /\ models = <<>>
AgentInfo(r, h) ==
    LET models == CASE h \in Live -> probe[r][h].models
                    [] h = "codex" -> models_from_cache
                    [] h = "mistral-vibe" -> models_from_config
                    [] OTHER -> <<>>
    IN [id |-> h, command |-> find_first_command(h), models |-> models, warning |-> Warned(h, models)]

\* join_all: the results in the order of the registry, and the cache.
autodetect_answers(r) ==
    LET pending == calls[r].pending
        a == [by |-> r, agents |-> [i \in DOMAIN pending |-> AgentInfo(r, pending[i])]]
    IN
    /\ calls[r].at = "probing" /\ \A h \in Live : probe[r][h].at \in {"none", "over"}
    /\ Answer(r, a) /\ cache' = [fresh |-> TRUE, answer |-> a]
    /\ UNCHANGED <<machine, probe, child, spent>>

\* The client goes away: the probes are dropped, and their programs run on.
dropped(r) ==
    /\ calls[r].at = "probing" /\ Lost
    /\ calls' = [calls EXCEPT ![r].at = "gone", ![r].pending = <<>>]
    /\ probe' = [probe EXCEPT ![r] = [h \in Live |-> NoProbe]]
    /\ UNCHANGED <<machine, child, cache>>

cooldown_passes ==
    /\ cache.fresh /\ cache' = [cache EXCEPT !.fresh = FALSE]
    /\ UNCHANGED <<machine, calls, probe, child, spent>>

ProbeNext ==
    \/ \E r \in Caller :
          \/ autodetect_cached(r) \/ autodetect_with(r) \/ autodetect_answers(r) \/ dropped(r)
          \/ wait_for_response(r) \/ disconnected(r) \/ run_bounded(r) \/ drain(r)
          \/ \E h \in Live : Says(r, h) \/ Exits(r, h) \/ KinEnds(r, h) \/ times_out(r, h) \/ terminate(r, h)
    \/ cooldown_passes

ProbeSpec == ProbeInit /\ [][ProbeNext]_probeVars
------------------------------------------------------------------------------
(* Properties                                                                  *)

\* A is told in the order of the registry, once, and only what is installed.
OrderIsKept(a) ==
    LET ids == [i \in DOMAIN a.agents |-> a.agents[i].id]
        Rank(h) == CHOOSE i \in DOMAIN HARNESSES : HARNESSES[i] = h
    IN /\ \A i, j \in DOMAIN ids : i < j => Rank(ids[i]) < Rank(ids[j])
       /\ \A h \in Range(HARNESSES) :
             h \in Range(ids) <=>
             \E place \in machine.exe : /\ place[2] \in Range(commands[h])
                                        /\ place[1] \in Range(PathDirs) \/ (h \in Live /\ place[1] = h)

\* Models of Devin come from the answers to all three requests, in their order,
\* and are the choices that the last one offers for a model.
DevinIsQuoted(info, c) ==
    LET Ok(k, n) == c.out[k].id = n /\ c.out[k].body = "ok"
        Offers(o) == Range(o.choices) \ {""}
    IN IF info.models = <<>> THEN info.warning
       ELSE /\ ~info.warning /\ IsInjective(info.models)
            /\ \E i, j, k \in 1..c.read :
                  /\ i < j /\ j < k /\ Ok(i, 1) /\ Ok(j, 2) /\ Ok(k, 3)
                  /\ \E n \in DOMAIN c.out[k].config :
                        LET o == c.out[k].config[n] IN
                        /\ o.isModel /\ Offers(o) = Range(info.models)
                        /\ o.current \in Offers(o) => info.models[1] = o.current
                        /\ \A m \in 1..(n - 1) :
                              c.out[k].config[m].isModel => Offers(c.out[k].config[m]) = {}

\* Models of Cursor come from a program that ended well, and are lines of it.
CursorIsQuoted(info, c) ==
    info.models # <<>> => c.run = "ended" /\ Range(info.models) \subseteq Range(c.out) \ {"note"}

\* What a call answers is whole and what the programs said: nothing of a program
\* that failed, hung or was cut off is taken for its models, however late, twice
\* or out of turn it answers, and the cache keeps no other answer.  No program
\* of a call outlives its answer, except for what the program started itself, and
\* Devin is sent to a browser only on a host without a key (autodetect_with,
\* with_acp_child, wait_for_response, run_bounded, autodetect_agents).
ProbesAreClean ==
    /\ \A r \in Caller : calls[r].at = "answered" =>
          LET a == calls[r].answer IN
          /\ OrderIsKept(a)
          /\ \A h \in Live : child[r][h].run # "alive"
          /\ \A i \in DOMAIN a.agents :
                /\ a.agents[i].id = "devin" => DevinIsQuoted(a.agents[i], child[a.by]["devin"])
                /\ a.agents[i].id = "cursor" => CursorIsQuoted(a.agents[i], child[a.by]["cursor"])
    /\ \A r \in Caller : child[r]["devin"].login = "browser" =>
          machine.env = "" /\ \A i \in DOMAIN machine.credentials : machine.credentials[i].value = ""
=============================================================================
