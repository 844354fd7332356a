------------------------------- MODULE StoresMC -------------------------------
(* A small instance of Stores for TLC.  Its models share no state; "side" says *)
(* which of them a behaviour is about.                                         *)
EXTENDS Stores

CONSTANTS s1, s2, r1, r2, d1, d2, a, b, v1, v2, n1, n2
Devices == {d1, d2}
Sessions == {s1, s2}
Callers == {r1, r2}
Files == {a, b}
Contents == {v1, v2}
Names == {n1, n2}

\* The second commit changes both files; it is the tip of "topic".
TwoCommits == <<[parent |-> 0, tree |-> [p \in {a, b} |-> IF p = a THEN v1 ELSE "none"]],
                [parent |-> 1, tree |-> [p \in {a, b} |-> v2]]>>

\* A server of each transport, and one of a transport that is not known; every kind
\* of profile, and a default that is not one of the built-in profiles.
Entry(t) == [transport |-> t, enabled |-> TRUE]
Servers(second) == [version |-> 1, servers |-> [n \in {"one", "two"} |->
                        IF n = "one" THEN Entry("stdio") ELSE Entry(second)]]
McpDocuments == {Servers("http"), Servers("gopher"),
                 [version |-> 1, servers |-> [n \in {"one"} |-> Entry("stdio")]]}
Listing(names) == [kind |-> "list", servers |-> names]
CodeAndReview(code, review) ==
    [profiles |-> [i \in {"code", "review"} |-> IF i = "code" THEN code ELSE review],
     default |-> "code"]
ProfileDocuments == {
    CodeAndReview([kind |-> "all", servers |-> {}], Listing({"one"})),
    CodeAndReview([kind |-> "legacy", servers |-> {}], Listing({"two"})),
    [profiles |-> [i \in {"review"} |-> Listing({"one", "two"})], default |-> "review"]}

-----------------------------------------------------------------------------
VARIABLE side
allVars == <<vars, imageVars, gitVars, agentVars, recordVars, side>>
MCInit ==
    /\ Init /\ Images!Init /\ Git!Init /\ Agents!Init /\ Records!Init
    /\ side \in {"settings", "images", "git", "agents", "records"}
    /\ side # "git" => ~exists /\ wt = [p \in Path |-> "none"]
    /\ side # "agents" => takes = {"stdio"} /\ mcpJson.is = "missing"
    /\ side # "records" => madeBy[1] = "A"
MCNext ==
    \/ side = "settings" /\ Next /\ UNCHANGED <<imageVars, gitVars, agentVars, recordVars, side>>
    \/ side = "images" /\ Images!Next /\ UNCHANGED <<vars, gitVars, agentVars, recordVars, side>>
    \/ side = "git" /\ Git!Next /\ UNCHANGED <<vars, imageVars, agentVars, recordVars, side>>
    \/ side = "agents" /\ Agents!Next /\ UNCHANGED <<vars, imageVars, gitVars, recordVars, side>>
    \/ side = "records" /\ Records!Next /\ UNCHANGED <<vars, imageVars, gitVars, agentVars, side>>
MCSpec == MCInit /\ [][MCNext]_allVars
=============================================================================
