-------------------------------- MODULE Stores --------------------------------
(* What the daemon keeps in files: its settings and its TLS identity           *)
(* (StateFiles), the images of sessions (Uploads), the repository of a         *)
(* workspace (GitOperations), its MCP servers and profiles (AgentSettings) and *)
(* its record of a session (SessionRecords).  The models share no state.       *)
EXTENDS StateFiles, Sequences

CONSTANTS
    Device,
    MaxEdits,       \* bound on the edits by hand of a repository, and of settings
    MaxFailures     \* bound on the faults of each part but StateFiles

CONSTANTS Session, Size, SessionQuota, Caller, MaxUploads
VARIABLES open, stored, totals, request, uploadCounts, counted, misled
Images == INSTANCE Uploads WITH
    MaxFaults <- MaxFailures, files <- stored, op <- request, counts <- uploadCounts
imageVars == <<open, stored, totals, request, uploadCounts, counted, misled>>

ASSUME UploadAssumption == Size \subseteq Nat /\ SessionQuota \in Nat

-----------------------------------------------------------------------------
CONSTANTS Path, Content, History, MaxCalls
VARIABLES exists, commits, refs, at, index, wt, stash, remote, ignore, view, call, callCounts, mixed
Git == INSTANCE GitOperations WITH
    MaxOps <- MaxCalls, MaxFaults <- MaxFailures, op <- call, counts <- callCounts
gitVars == <<exists, commits, refs, at, index, wt, stash, remote, ignore, view, call, callCounts,
             mixed>>

\* A repository has commits, and each is built on earlier ones.
Trees == [Path -> {Git!None} \union Content]
Commits == [parent : Nat, tree : Trees]
ASSUME HistoryAssumption ==
    /\ History \in Seq(Commits) /\ Len(History) > 0
    /\ \A k \in 1..Len(History) : History[k].parent < k

-----------------------------------------------------------------------------
CONSTANTS Id, Builtin, DefaultId, Server, McpDocument, ProfileDocument, MaxChanges
VARIABLES mcpJson, profilesJson, config, asked, takes, session, askedCounts, mingled, removed, promise
Agents == INSTANCE AgentSettings WITH
    MaxCalls <- MaxChanges, MaxFaults <- MaxFailures,
    call <- asked, counts <- askedCounts, crossed <- mingled
agentVars == <<mcpJson, profilesJson, config, asked, takes, session, askedCounts, mingled, removed,
               promise>>

\* A profile has an id, and the default profile is a built-in one.
ASSUME ProfilesAssumption ==
    /\ Agents!None \notin Id /\ Builtin \subseteq Id /\ DefaultId \in Builtin
    /\ \A doc \in ProfileDocument : DOMAIN doc.profiles \subseteq Id

-----------------------------------------------------------------------------
CONSTANTS Agent, Loads, Name, MaxRequests
VARIABLES entry, starting, record, onDisk, restoring, requests, recordCounts, madeBy, stillHeld,
          confirmed, overtaken, newest, unwritten
Records == INSTANCE SessionRecords WITH
    MaxCalls <- MaxRequests, MaxFaults <- MaxFailures,
    live <- entry, busy <- starting, dormant <- record, disk <- onDisk, lock <- restoring,
    call <- requests, counts <- recordCounts, made <- madeBy, held <- stillHeld,
    chosen <- confirmed, latest <- newest, unsaved <- unwritten
recordVars == <<entry, starting, record, onDisk, restoring, requests, recordCounts, madeBy, stillHeld,
                confirmed, overtaken, newest, unwritten>>

-----------------------------------------------------------------------------
\* What the uploads and the repository promise; Uploads.tla and GitOperations.tla
\* say what each is about.  Reported files stay within the quota of a session, and
\* an attachment that was looked up is there when the prompt goes out;
UploadsAreKept == Images!UploadsAreKept
\* a switch of branches leaves no tree that mixes two commits;
SwitchesAreClean == Git!SwitchesAreClean
\* what a device has committed stays reachable.
CommitsStay == [][Git!CommitStays]_gitVars

\* What AgentSettings.tla promises: memory holds what is on disk, and what a profile
\* lists is configured;
ProfilesAreServed == Agents!ProfilesAreServed
\* a session gets what its preview showed.
PreviewIsKept == [][Agents!PreviewIsKept]_agentVars
\* What SessionRecords.tla promises: the name and the agent's id of a session
\* outlast restores, moves and restarts.
RecordsAreKept == Records!RecordsAreKept
=============================================================================
