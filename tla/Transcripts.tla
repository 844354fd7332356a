------------------------------ MODULE Transcripts ------------------------------
(* From what an agent says to what another one is told of it: the updates of a *)
(* session become events (src/acp/stream.rs, src/acp/core/events.rs), and the  *)
(* events a transcript (src/acp/conversation.rs), for a device that exports    *)
(* the session or for the next agent.  An item of a transcript is the index of *)
(* the event it renders; bytes are counted in items.                           *)
EXTENDS Naturals, Sequences

CONSTANTS
    MaxEvents,   \* bound on the events of the session
    MaxFaults,
    EventLimit,  \* EXPORT_EVENT_LIMIT, 10,000 in the code
    Budget,      \* the byte budgets asked for; 0 is none
    DefaultBudget, \* DEFAULT_TRANSFER_BYTES
    NoteSize     \* bytes of the note on what was cut

VARIABLES
    log,     \* the events of the session
    turn,    \* whether a prompt is with the agent
    listens, \* whether the agent is connected
    faults,
    export   \* the last transcript

vars == <<log, turn, listens, faults, export>>

Text == {"empty", "blank", "words"}
NoExport == [limit |-> 0, budget |-> 0, blocks |-> <<>>, cut |-> 0, note |-> 0]

Init == log = <<>> /\ turn = FALSE /\ listens = TRUE /\ faults = 0 /\ export = NoExport

------------------------------------------------------------------------------
(* Updates                                                                     *)

\* session_update_to_payload: text, tool calls, plans and usage; not the echo of
\* the user's text, nor what has no event.
Update == [kind : {"message"}, text : Text] \union [kind : {"thought"}, text : {"words"}]
          \union [kind : {"tool", "result", "user", "unmapped"}]
Mapped(u) == u.kind \notin {"user", "unmapped"}
Payload(u) ==
    CASE u.kind \in {"message", "thought"} ->
           [type |-> "StreamUpdate", thought |-> u.kind = "thought", text |-> u.text]
      [] u.kind = "tool" -> [type |-> "ToolStarted", text |-> "words"]
      [] OTHER -> [type |-> "Other", text |-> "words"]

append_payload(e) == Len(log) < MaxEvents /\ log' = Append(log, e)

\* handle_session_notification: an update that cannot be stored ends the connection.
\* The agent may speak when no prompt is with it, too.
handle_session_notification(u) ==
    /\ listens
    /\ \/ Mapped(u) /\ append_payload(Payload(u)) /\ UNCHANGED <<listens, faults>>
       \/ ~Mapped(u) /\ UNCHANGED <<log, listens, faults>>
       \/ Mapped(u) /\ faults < MaxFaults /\ faults' = faults + 1 /\ listens' = FALSE /\ UNCHANGED log
    /\ UNCHANGED <<turn, export>>

\* await_prompt: the prompt is stored before the agent gets it.
await_prompt ==
    /\ listens /\ ~turn /\ turn' = TRUE
    /\ append_payload([type |-> "PromptSubmitted", text |-> "words"])
    /\ UNCHANGED <<listens, faults, export>>
\* The turn ends with an update without text, or the error of the agent, which may
\* not be stored; a cancelled one ends with neither.
Ending == {[type |-> "StreamUpdate", thought |-> FALSE, text |-> "empty"],
           [type |-> "Other", text |-> "words"]}
prompt_ends ==
    /\ turn /\ turn' = FALSE
    /\ UNCHANGED log \/ \E e \in Ending : append_payload(e)
    /\ UNCHANGED <<listens, faults, export>>

------------------------------------------------------------------------------
(* export_conversation                                                         *)

Block(who, items) == [who |-> who, items |-> items]
\* Text that is blank makes no block.
flush_assistant(acc) ==
    IF \E n \in DOMAIN acc.assistant : log[acc.assistant[n]].text = "words"
    THEN [out |-> Append(acc.out, Block("Assistant", acc.assistant)), assistant |-> <<>>]
    ELSE [acc EXCEPT !.assistant = <<>>]
append_block(acc, who, n) == [acc EXCEPT !.out = Append(@, Block(who, <<n>>))]

\* A mutant: the text before a tool call stays with the text after it.
Render_late(acc, n) ==
    CASE log[n].type = "PromptSubmitted" -> append_block(flush_assistant(acc), "User", n)
      [] log[n].type = "StreamUpdate" /\ ~log[n].thought /\ log[n].text # "empty" ->
           [acc EXCEPT !.assistant = Append(@, n)]
      [] log[n].type = "ToolStarted" -> append_block(acc, "Tool", n)
      [] OTHER -> acc

Render(acc, n) ==
    CASE log[n].type = "PromptSubmitted" -> append_block(flush_assistant(acc), "User", n)
      [] log[n].type = "StreamUpdate" /\ ~log[n].thought /\ log[n].text # "empty" ->
           [acc EXCEPT !.assistant = Append(@, n)]
      [] log[n].type = "ToolStarted" -> append_block(flush_assistant(acc), "Tool", n)
      [] OTHER -> acc

\* The first events of the session, as many as one query returns, one after another.
Queried(limit) == IF Len(log) < limit THEN Len(log) ELSE limit
Exported(limit) ==
    LET rendered[n \in 0..Queried(limit)] ==
            IF n = 0 THEN [out |-> <<>>, assistant |-> <<>>] ELSE Render(rendered[n - 1], n)
    IN  flush_assistant(rendered[Queried(limit)]).out

\* How many items the blocks have.
Size(blocks) ==
    LET upTo[b \in 0..Len(blocks)] == IF b = 0 THEN 0 ELSE upTo[b - 1] + Len(blocks[b].items)
    IN  upTo[Len(blocks)]

\* truncate_export: what of the items stays, and how much of the note is added.
truncate_export(blocks, budget) ==
    LET size == Size(blocks) IN
    IF budget = 0 \/ size <= budget THEN [cut |-> size, note |-> 0]
    ELSE IF NoteSize >= budget THEN [cut |-> 0, note |-> budget]
    ELSE [cut |-> budget - NoteSize, note |-> NoteSize]

export_conversation(budget) ==
    LET blocks == Exported(EventLimit)
        rest == truncate_export(blocks, budget)
    IN  /\ export' = [limit |-> Len(log), budget |-> budget, blocks |-> blocks,
                      cut |-> rest.cut, note |-> rest.note]
        /\ UNCHANGED <<log, faults>>

\* A device asks for the session at any time; a new agent comes between two turns.
\* Its budget is never 0.
transfer_budget(max) == IF max > 0 THEN max ELSE DefaultBudget
export_session == export_conversation(0) /\ UNCHANGED <<turn, listens>>
rebind(max) ==
    /\ listens /\ ~turn
    /\ export_conversation(transfer_budget(max)) /\ UNCHANGED <<turn, listens>>

Next ==
    \/ \E u \in Update : handle_session_notification(u)
    \/ await_prompt \/ prompt_ends
    \/ export_session \/ \E max \in Budget : rebind(max)

Spec == Init /\ [][Next]_vars

------------------------------------------------------------------------------
(* Properties                                                                  *)

\* What a transcript is about: prompts, tools and the words of the agent.
Visible(n) ==
    \/ log[n].type \in {"PromptSubmitted", "ToolStarted"}
    \/ log[n].type = "StreamUpdate" /\ ~log[n].thought /\ log[n].text = "words"
Blank(n) == log[n].type = "StreamUpdate" /\ ~log[n].thought /\ log[n].text = "blank"
Speaker(n) ==
    CASE log[n].type = "PromptSubmitted" -> "User"
      [] log[n].type = "ToolStarted" -> "Tool"
      [] OTHER -> "Assistant"

\* A transcript tells the conversation as it was: all prompts, tools and replies up to
\* the export, but for those past the limit of the query, in their order, each once and
\* with its speaker, a reply in one piece; no thought and no result of a tool; and all
\* of it is there, or the transcript is within its budget and says that it was cut
\* (export_conversation, truncate_export).
ExportIsFaithful ==
    LET e == export
        Had == 1..(IF e.limit < EventLimit THEN e.limit ELSE EventLimit)
        Item(b) == DOMAIN e.blocks[b].items
        Whole ==
            /\ \A b \in DOMAIN e.blocks : \A i \in Item(b) :
                  LET n == e.blocks[b].items[i] IN
                  n \in Had /\ (Visible(n) \/ Blank(n)) /\ Speaker(n) = e.blocks[b].who
            /\ \A n \in Had : Visible(n) =>
                  \E b \in DOMAIN e.blocks : \E i \in Item(b) : e.blocks[b].items[i] = n
        Ordered ==
            \A b, c \in DOMAIN e.blocks : \A i \in Item(b), j \in Item(c) :
                b < c \/ (b = c /\ i < j) => e.blocks[b].items[i] < e.blocks[c].items[j]
    IN  /\ Whole /\ Ordered
        /\ \A b \in DOMAIN e.blocks :
               b > 1 /\ e.blocks[b].who = "Assistant" => e.blocks[b - 1].who # "Assistant"
        /\ e.budget > 0 => e.cut + e.note <= e.budget
        /\ e.note > 0 <=> e.cut < Size(e.blocks)
=============================================================================
