----------------------------- MODULE AgentSettings -----------------------------
(* mcp.json and profiles.json: the MCP servers there are, and which of them a  *)
(* profile selects (src/mcp/mod.rs, src/acp/profile_config.rs, profile.rs,     *)
(* src/acp/core/mcp.rs, src/api/mcp.rs, profiles.rs).  mcp.json is read anew   *)
(* by everyone; profiles.json is kept in memory and read when the daemon       *)
(* starts.  Devices change both without a lock, a user edits them by hand, and *)
(* sessions are previewed and created meanwhile.                               *)
EXTENDS Naturals, FiniteSets, Sequences

CONSTANTS
    Device,
    Id, Builtin,       \* ids of profiles; those of the built-in ones
    DefaultId,         \* "code", the default of the built-in ones
    Server,            \* names of MCP servers
    McpDocument,       \* what devices and users write into mcp.json
    ProfileDocument,   \* and into profiles.json
    MaxCalls, MaxEdits, MaxFaults

None == "none"

\* A file holds a document, is missing, or is no JSON of its format; "doc" is what
\* stands in for the latter two where the code has something that does.
Holding(d) == [is |-> "document", doc |-> d]
Missing(d) == [is |-> "missing", doc |-> d]
Bad(d) == [is |-> "bad", doc |-> d]

VARIABLES
    mcpJson, profilesJson,   \* the two files
    config,                  \* the profiles in memory
    call,                    \* the request of each device
    takes,                   \* the transports the agent supports
    session,                 \* the session that was created last
    counts,                  \* requests, edits and faults so far
    crossed,   \* history: changes of profiles.json overlapped, or it was edited
    removed,   \* history: names that were once taken out of mcp.json
    promise    \* history: the preview that nothing has changed since

vars == <<mcpJson, profilesJson, config, call, takes, session, counts, crossed, removed, promise>>

Idle == [pc |-> "idle"]
NoSession == [pc |-> "none", profile |-> None, given |-> {}]
NoPromise == [profile |-> None, given |-> {}, followers |-> {}]

------------------------------------------------------------------------------
(* mcp.json                                                                    *)

\* File::load: a missing file has no servers, a bad one is an error.
NoServers == [version |-> 1, servers |-> [s \in {} |-> None]]
Readable == mcpJson.is # "bad"
Names == DOMAIN mcpJson.doc.servers

Transport == {"stdio", "http", "sse"}
Stdio == {"stdio"}

\* File::validate.  Of what is refused, a transport stands for the rest: names,
\* commands, and variables that look like secrets.
validate_mcp(doc) ==
    doc.version = 1 /\ \A s \in DOMAIN doc.servers : doc.servers[s].transport \in Transport

enabled(doc) == {s \in DOMAIN doc.servers : doc.servers[s].enabled}

\* File::to_acp: one enabled server of an unknown transport leaves none at all.
to_acp(doc, caps) ==
    IF \E s \in enabled(doc) : doc.servers[s].transport \notin Transport THEN {}
    ELSE {s \in enabled(doc) : doc.servers[s].transport \in caps}

Available(caps) == IF Readable THEN to_acp(mcpJson.doc, caps) ELSE {}

------------------------------------------------------------------------------
(* Profiles                                                                    *)

\* A profile selects every server, lists some, or still has the tools of an
\* earlier format, which stand for no server.
All == [kind |-> "all", servers |-> {}]
builtin_defaults == [profiles |-> [i \in Builtin |-> All], default |-> DefaultId]

validate_profiles(doc) == DOMAIN doc.profiles # {} /\ doc.default \in DOMAIN doc.profiles

Selected(doc) == UNION {doc.profiles[i].servers : i \in DOMAIN doc.profiles}

\* load_config_at_startup.
LoadedAtStart(file) == IF validate_profiles(file.doc) THEN file.doc ELSE builtin_defaults

normalize_profile_id(doc, i) == IF i \in DOMAIN doc.profiles THEN i ELSE doc.default

\* ProfileConfig::profile, for an id that may have gone meanwhile.
profile(doc, i) == IF i \in DOMAIN doc.profiles THEN doc.profiles[i] ELSE All

\* A profile with tools of the earlier format gets no server.
mcp_servers_for_profile(doc, i) ==
    LET p == profile(doc, normalize_profile_id(doc, i)) IN
    IF p.kind = "legacy" THEN [kind |-> "list", servers |-> {}] ELSE p
filter_servers_by_name(servers, p) ==
    IF p.kind = "all" THEN servers ELSE servers \intersect p.servers

------------------------------------------------------------------------------
Init ==
    /\ mcpJson \in {Holding(d) : d \in {m \in McpDocument : validate_mcp(m)}} \union {Missing(NoServers)}
    /\ profilesJson = Missing(builtin_defaults) /\ config = builtin_defaults
    /\ call = [d \in Device |-> Idle]
    /\ takes \in {Stdio, {"stdio", "http"}}
    /\ session = NoSession
    /\ counts = [calls |-> 0, edits |-> 0, faults |-> 0]
    /\ crossed = FALSE /\ removed = {} /\ promise = NoPromise

Begin(d, c) ==
    /\ call[d] = Idle /\ counts.calls < MaxCalls
    /\ counts' = [counts EXCEPT !.calls = @ + 1]
    /\ call' = [call EXCEPT ![d] = c]
Goto(d, pc) == call' = [call EXCEPT ![d].pc = pc]
Return(d) == call' = [call EXCEPT ![d] = Idle]
Fault == counts.faults < MaxFaults /\ counts' = [counts EXCEPT !.faults = @ + 1]

\* atomic_write of mcp.json.
WriteMcp(file) ==
    /\ mcpJson' = file /\ promise' = NoPromise
    /\ removed' = removed \union (Names \ DOMAIN file.doc.servers)

\* A request that is refused, or whose write fails, changes nothing.
put_mcp(d, doc) ==
    /\ counts.calls < MaxCalls /\ call[d] = Idle
    /\ counts' = [counts EXCEPT !.calls = @ + 1]
    /\ validate_mcp(doc) /\ WriteMcp(Holding(doc))
    /\ UNCHANGED <<profilesJson, config, call, takes, session, crossed>>

\* File::load, and the flag of one server.
patch_mcp_server(d, s, on) ==
    /\ Readable /\ s \in Names
    /\ Begin(d, [pc |-> "patch", doc |-> [mcpJson.doc EXCEPT !.servers[s].enabled = on]])
    /\ UNCHANGED <<mcpJson, profilesJson, config, takes, session, crossed, removed, promise>>
patch_saves(d) ==
    /\ call[d].pc = "patch" /\ Return(d)
    /\ \/ WriteMcp(Holding(call[d].doc)) /\ UNCHANGED counts
       \/ Fault /\ UNCHANGED <<mcpJson, removed, promise>>
    /\ UNCHANGED <<profilesJson, config, takes, session, crossed>>

\* validate_profile_mcp_servers reads mcp.json before the file is written.
Putting == {d \in Device : call[d].pc \in {"save", "replace"}}

put_profiles(d, doc) ==
    /\ validate_profiles(doc) /\ Readable /\ Selected(doc) \subseteq Names
    /\ Begin(d, [pc |-> "save", doc |-> doc])
    /\ crossed' = (crossed \/ Putting # {})
    /\ UNCHANGED <<mcpJson, profilesJson, config, takes, session, removed, promise>>

\* A mutant: the profiles in memory are replaced whether or not the write fails.
save_to_replacing(d) ==
    /\ call[d].pc = "save" /\ config' = call[d].doc
    /\ \/ profilesJson' = Holding(call[d].doc) /\ Goto(d, "replace") /\ UNCHANGED counts
       \/ Fault /\ Return(d) /\ UNCHANGED profilesJson
    /\ UNCHANGED <<mcpJson, takes, session, crossed, removed, promise>>

save_to(d) ==
    /\ call[d].pc = "save"
    /\ \/ profilesJson' = Holding(call[d].doc) /\ Goto(d, "replace") /\ UNCHANGED counts
       \/ Fault /\ Return(d) /\ UNCHANGED profilesJson
    /\ UNCHANGED <<mcpJson, config, takes, session, crossed, removed, promise>>

replace_config(d) ==
    /\ call[d].pc = "replace" /\ Return(d)
    /\ config' = call[d].doc /\ promise' = NoPromise
    /\ UNCHANGED <<mcpJson, profilesJson, takes, session, counts, crossed, removed>>

------------------------------------------------------------------------------
(* Sessions                                                                    *)

\* A mutant: what the agent cannot use is shown all the same.
effective_server_names_uncapped(i, caps) ==
    filter_servers_by_name(Available(Transport), mcp_servers_for_profile(config, i))

effective_server_names(i, caps) ==
    filter_servers_by_name(Available(caps), mcp_servers_for_profile(config, i))

\* preview_session_profile: the agent of a live session has told what it takes;
\* for a dormant one the preview assumes the least.
preview(i) ==
    /\ session.pc \in {"live", "dormant"} /\ i \in DOMAIN config.profiles
    /\ promise' = IF session.pc = "live"
                  THEN [profile |-> i, given |-> effective_server_names(i, takes),
                        followers |-> {}] ELSE NoPromise
    /\ UNCHANGED <<mcpJson, profilesJson, config, call, takes, session, counts, crossed, removed>>

\* create_session_with_profile; a file that cannot be read is not compared with.
create_session(d, i) ==
    /\ i \in DOMAIN config.profiles
    /\ Readable => profile(config, i).servers \subseteq Names
    /\ session.pc \in {"none", "live", "dormant"}
    /\ Begin(d, [pc |-> "create", profile |-> i])
    /\ promise' = [promise EXCEPT !.followers = @ \union {d}]
    /\ UNCHANGED <<mcpJson, profilesJson, config, takes, session, crossed, removed>>
set_profile(d) ==
    /\ call[d].pc = "create" /\ session.pc \in {"none", "live", "dormant"}
    /\ Goto(d, "load")
    /\ session' = [NoSession EXCEPT !.pc = "starting",
                                    !.profile = normalize_profile_id(config, call[d].profile)]
    /\ UNCHANGED <<mcpJson, profilesJson, config, takes, counts, crossed, removed, promise>>

\* load_session_mcp_servers: the file, and then the profile of that moment.
load_servers(d) ==
    /\ call[d].pc = "load" /\ Goto(d, "filter")
    /\ session' = [session EXCEPT !.given = Available(takes)]
    /\ UNCHANGED <<mcpJson, profilesJson, config, takes, counts, crossed, removed, promise>>
load_session_mcp_servers(d) ==
    /\ call[d].pc = "filter" /\ Return(d)
    /\ session' = [session EXCEPT !.pc = "live",
                                  !.given = filter_servers_by_name(@,
                                      mcp_servers_for_profile(config, session.profile))]
    /\ UNCHANGED <<mcpJson, profilesJson, config, takes, counts, crossed, removed, promise>>

------------------------------------------------------------------------------
(* The user, and the end of the daemon                                         *)

Edit == counts.edits < MaxEdits /\ counts' = [counts EXCEPT !.edits = @ + 1]
edit_mcp ==
    /\ Edit /\ \E file \in {Holding(d) : d \in McpDocument} \union {Bad(NoServers), Missing(NoServers)} : WriteMcp(file)
    /\ UNCHANGED <<profilesJson, config, call, takes, session, crossed>>
edit_profiles ==
    /\ Edit /\ profilesJson' \in {Bad(builtin_defaults), Missing(builtin_defaults)} /\ crossed' = TRUE
    /\ UNCHANGED <<mcpJson, config, call, takes, session, removed, promise>>

\* The profiles that sessions had selected are not persisted.
restart ==
    /\ Fault
    /\ config' = LoadedAtStart(profilesJson) /\ crossed' = FALSE
    /\ call' = [d \in Device |-> Idle] /\ promise' = NoPromise
    /\ session' = IF session.pc \in {"live", "dormant"}
                  THEN [NoSession EXCEPT !.pc = "dormant", !.profile = config'.default] ELSE NoSession
    /\ UNCHANGED <<mcpJson, profilesJson, takes, removed>>

Next ==
    \/ \E d \in Device :
        \/ \E doc \in McpDocument : put_mcp(d, doc)
        \/ \E s \in Server, on \in BOOLEAN : patch_mcp_server(d, s, on)
        \/ \E doc \in ProfileDocument : put_profiles(d, doc)
        \/ \E i \in Id : create_session(d, i)
        \/ patch_saves(d) \/ save_to(d) \/ replace_config(d)
        \/ set_profile(d) \/ load_servers(d) \/ load_session_mcp_servers(d)
    \/ \E i \in Id : preview(i)
    \/ edit_mcp \/ edit_profiles \/ restart

Spec == Init /\ [][Next]_vars

------------------------------------------------------------------------------
(* Properties                                                                  *)

\* The daemon works with the profiles that are on disk, and that a restart would
\* give it, once no change is under way: through writes that fail and restarts
\* between the write and the replacement (put_profiles), unless two changes
\* overlapped or the file was edited by hand since the daemon started.  Every server
\* they list is in mcp.json, or was and has been removed since: put_profiles compares
\* the two, and a server may go between that and the write, or at any later time.
ProfilesAreServed ==
    /\ ~crossed /\ Putting = {} => config = LoadedAtStart(profilesJson)
    /\ Selected(config) \subseteq Names \union removed

\* A session that is created with the profile of a preview, after it, is given the
\* servers which the preview named, unless a file or the profiles changed since
\* (effective_server_names and load_session_mcp_servers, acp/core/mcp.rs:64).
PreviewIsKept ==
    \A d \in promise.followers :
        call[d].pc = "filter" /\ call'[d].pc = "idle" /\ session'.pc = "live"
            /\ session.profile = promise.profile => session'.given = promise.given
=============================================================================
