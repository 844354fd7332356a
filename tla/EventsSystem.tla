----------------------------- MODULE EventsSystem -----------------------------
(* The events of a session and what they are for: how they reach a connection  *)
(* (EventDelivery) and other readers (EventReaders), what they tell of a       *)
(* conversation (Transcripts), and what a prompt tells the agent besides       *)
(* (PromptContext).  The models share no state.                                *)
EXTENDS EventDelivery

CONSTANTS Session, Watched, MaxRows, PageSize, Capacity
VARIABLES rows, flying, sub, told, page, skipped
Readers == INSTANCE EventReaders
readerVars == <<rows, flying, sub, told, page, skipped>>

ASSUME ReadersAssumption ==
    /\ Watched \in Session /\ MaxRows \in Nat
    /\ PageSize \in Nat \ {0} /\ Capacity \in Nat \ {0}

-----------------------------------------------------------------------------
CONSTANTS MaxUpdates, MaxUnstored, EventLimit, Budget, DefaultBudget, NoteSize
VARIABLES chat, turn, listens, export, unstored
Conversation == INSTANCE Transcripts WITH
    MaxEvents <- MaxUpdates, MaxFaults <- MaxUnstored, log <- chat, faults <- unstored
conversationVars == <<chat, turn, listens, export, unstored>>

ASSUME BudgetsAssumption ==
    /\ EventLimit \in Nat /\ Budget \subseteq Nat
    /\ DefaultBudget \in Nat \ {0} /\ NoteSize \in Nat \ {0}

-----------------------------------------------------------------------------
CONSTANTS Prompt, Device, File, Report, Outside, Limit, Embeds, MaxChanges
VARIABLES state, agent, sticky, count, tracker, reporting, prompt, changes, blurred, late
Context == INSTANCE PromptContext
contextVars == <<state, agent, sticky, count, tracker, reporting, prompt, changes, blurred, late>>

\* A report says something of the files that are open, edited or selected.
ASSUME ReportAssumption ==
    /\ Limit \in Nat /\ Embeds \in BOOLEAN
    /\ \A r \in Report : \A f \in DOMAIN r :
          \/ f \in {"open", "edits"} /\ r[f] \in Seq(File)
          \/ f = "selection" /\ r[f] \subseteq File

-----------------------------------------------------------------------------
\* What EventReaders.tla promises: pages of events have no holes, and a subscription
\* tells every event.
ReadersAreTold == Readers!PagesAreWhole /\ Readers!SubscriberIsTold
\* What Transcripts.tla promises: an export tells the conversation as it was.
ExportIsFaithful == Conversation!ExportIsFaithful
\* What PromptContext.tla promises: what a prompt tells is complete and bounded.
PromptsTell == Context!PromptsTell
=============================================================================
