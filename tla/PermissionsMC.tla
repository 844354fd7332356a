--------------------------- MODULE PermissionsMC ---------------------------
(* Values for the constants of Permissions.  Three calls are enough for two    *)
(* prompts to overlap and a third call to meet what they left in the caches.   *)
EXTENDS Permissions

CONSTANTS s1, s2, edit, f1, c1

MCSession == {s1, s2}
MCTool == {edit}
MCItem == {f1}
MCToolCall == {c1}

Ask(s, f, c, agent, kind) ==
    [session |-> s, tool |-> edit, item |-> f, call |-> c, agent |-> agent, kind |-> kind]

(* Two prompts of one tool call, one of them with neither target nor command,  *)
(* and for each session one that offers nothing (the manager's defaults apply).*)
MCPrompt ==
    { Ask(s1, f1, c1, {AllowOnce, RejectAlways}, TRUE),
      Ask(s1, NoItem, c1, {AllowAlways, Deny}, TRUE),
      Ask(s1, f1, NoCall, {}, FALSE),
      Ask(s2, f1, NoCall, {}, FALSE) }
=============================================================================
