---------------------------- MODULE DurableFile ----------------------------
(* What atomic_write (src/fsutil/mod.rs) promises of one state file, as its    *)
(* readers see it: a file is replaced as a whole.  A reader sees the old or    *)
(* the new content, and so does the daemon that starts after a power loss;     *)
(* until the directory has been synced it may be either.                       *)
EXTENDS Naturals

CONSTANTS Content   \* what a whole file may hold

VARIABLES
    content,    \* what a reader sees
    survivors   \* what a reader may see after a power loss

vars == <<content, survivors>>

Init == content \in Content /\ survivors = {content}

Replace == /\ content' \in Content
           /\ survivors' = survivors \union {content'}

Settle == survivors' = {content} /\ UNCHANGED content

PowerLoss == content' \in survivors /\ survivors' = {content'}

Next == Replace \/ Settle \/ PowerLoss

Spec == Init /\ [][Next]_vars
=============================================================================
