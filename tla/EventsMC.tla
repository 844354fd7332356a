------------------------------- MODULE EventsMC -------------------------------
(* Small instances for TLC of what happens around the events of a session;     *)
(* "side" says which of the four models a behaviour is about.                  *)
EXTENDS EventsSystem

\* One report names the files an editor has open, edited and selected; "x" lies outside.
EditorReports ==
    {[open |-> <<"x", "f", "f">>, edits |-> <<"f", "x", "g", "h">>, selection |-> {"f"}]}

VARIABLE side
allVars == <<vars, readerVars, conversationVars, contextVars, side>>
MCInit ==
    /\ Init /\ Readers!Init /\ Conversation!Init /\ Context!Init
    /\ side \in {"delivery", "readers", "conversation", "context"}
MCDaemon == side = "delivery" /\ Daemon /\ UNCHANGED <<readerVars, conversationVars, contextVars, side>>
MCNext ==
    \/ side = "delivery" /\ Next /\ UNCHANGED <<readerVars, conversationVars, contextVars, side>>
    \/ side = "readers" /\ Readers!Next /\ UNCHANGED <<vars, conversationVars, contextVars, side>>
    \/ side = "conversation" /\ Conversation!Next /\ UNCHANGED <<vars, readerVars, contextVars, side>>
    \/ side = "context" /\ Context!Next /\ UNCHANGED <<vars, readerVars, conversationVars, side>>
MCSpec == MCInit /\ [][MCNext]_allVars /\ WF_allVars(MCDaemon)
=============================================================================
