---------------------------- MODULE GitOperations ----------------------------
(* The repository of one workspace as devices change it: the handlers of       *)
(* src/api/git.rs and the functions of src/git/worktree.rs and repo.rs below   *)
(* them.  A function looks at the repository, decides, and runs git in a       *)
(* process of its own; each runs in a blocking task, so nothing orders those   *)
(* of two devices, an agent or the user edit files at any time, and a task is  *)
(* not given up when its caller goes away.  One git process is one step: git   *)
(* holds index.lock while it changes the index, and the loser of that lock     *)
(* fails.  Texts, diffs, ids and the containment of paths are left out.        *)
EXTENDS Integers, Sequences, FiniteSets, SequencesExt

CONSTANTS
    Device,
    Path,      \* files of the workspace
    Content,   \* what they may hold
    History,   \* the commits there may be at first, the last one of them on "topic"
    MaxOps, MaxEdits, MaxFaults

None == "none"
Branch == {"main", "topic"}
NoTree == [p \in Path |-> None]

VARIABLES
    exists,   \* is there a .git?
    commits,  \* commit objects, named by their place
    refs,     \* [Branch -> commit or 0]
    at,       \* HEAD: the branch, or None when detached, and the commit or 0
    index, wt,\* [Path -> Content or None]
    stash,    \* the newest entry first
    remote,   \* the branch "main" of the remote
    ignore,   \* patterns in .gitignore, named by the device that asked
    view,     \* what a device was last told: HEAD and the stash list
    op,       \* the function a device's request is in
    counts,   \* requests, edits and failures so far
    mixed     \* history: a switch of a tree that was clean left another one

vars == <<exists, commits, refs, at, index, wt, stash, remote, ignore, view, op, counts, mixed>>
files == <<index, wt>>
heads == <<exists, commits, refs, at, remote>>

Idle == [kind |-> None]
Tree(c) == IF c = 0 THEN NoTree ELSE commits[c].tree
HeadTree == Tree(at.oid)
Ids == [k \in 1..Len(stash) |-> stash[k].id]
Tracked(p) == index[p] # None \/ HeadTree[p] # None

\* What a commit is built on, itself included.
Ancestors[c \in 0..Len(commits)] ==
    IF c = 0 THEN {} ELSE {c} \union Ancestors[commits[c].parent]
Before(c) == Ancestors[c]

\* A workspace without a repository, or one at rest on "main".
Init ==
    /\ exists \in BOOLEAN
    /\ commits = IF exists THEN History ELSE <<>>
    /\ refs = [b \in Branch |-> IF ~exists THEN 0 ELSE IF b = "main" THEN 1 ELSE Len(History)]
    /\ at = [branch |-> "main", oid |-> refs["main"]]
    /\ index = HeadTree /\ wt \in IF exists THEN {index} ELSE [Path -> {None} \union Content]
    /\ stash = <<>> /\ remote \in {refs["main"], refs["topic"]} /\ ignore = {}
    /\ view = [d \in Device |-> [head |-> refs["main"], stash |-> <<>>]]
    /\ op = [d \in Device |-> Idle]
    /\ counts = [ops |-> 0, edits |-> 0, faults |-> 0]
    /\ mixed = FALSE

\* A request of a device that has none under way, as GitPanel's busy flag has it.
Asks(d) == /\ op[d] = Idle /\ counts.ops < MaxOps
           /\ counts' = [counts EXCEPT !.ops = @ + 1]
\* open_repo: every function but init and add_to_gitignore wants a repository.
open_repo(d) == Asks(d) /\ exists
Goto(d, o) == op' = [op EXCEPT ![d] = o]
At(d, kind) == op[d].kind = kind /\ UNCHANGED counts


\* What a status lists: staged, changed and untracked files.
status_files_tracked == {p \in Path : Tracked(p) /\ (index[p] # HeadTree[p] \/ wt[p] # index[p])}
status_files == {p \in Path : index[p] # HeadTree[p] \/ wt[p] # index[p]}

-----------------------------------------------------------------------------
(* Looking: the head of a status and the list of stash entries                 *)

get_git_status(d) ==
    /\ open_repo(d)
    /\ view' = [view EXCEPT ![d].head = at.oid]
    /\ UNCHANGED <<files, heads, mixed, stash, ignore, op>>

stash_list(d) ==
    /\ open_repo(d)
    /\ view' = [view EXCEPT ![d].stash = Ids]
    /\ UNCHANGED <<files, heads, mixed, stash, ignore, op>>

-----------------------------------------------------------------------------
(* The index: stage with paths or, for "all", without; unstage                 *)

stage(d, S) ==
    /\ open_repo(d)
    /\ index' = [p \in Path |-> IF p \in S THEN wt[p] ELSE index[p]]
    /\ UNCHANGED <<wt, heads, mixed, stash, ignore, view, op>>

\* git reset HEAD; without paths, which the handler lets pass, the whole index.
unstage(d, S) ==
    /\ open_repo(d) /\ at.oid # 0
    /\ index' = [p \in Path |-> IF p \in S \/ S = {} THEN HeadTree[p] ELSE index[p]]
    /\ UNCHANGED <<wt, heads, mixed, stash, ignore, view, op>>

-----------------------------------------------------------------------------
(* Commits                                                                     *)

MoveHead(c) == /\ at' = [at EXCEPT !.oid = c]
               /\ refs' = IF at.branch = None THEN refs ELSE [refs EXCEPT ![at.branch] = c]

\* The If-Match header is the head the device was last told; none for an unborn one.
head_ok_given(d) == at.oid = 0 \/ view[d].head # 0
head_ok(d) == at.oid = 0 \/ at.oid = view[d].head

commit_check(d, amend) ==
    /\ open_repo(d) /\ head_ok(d)
    /\ Goto(d, [kind |-> "commit", amend |-> amend, head |-> at.oid])
    /\ UNCHANGED <<files, heads, mixed, stash, ignore, view>>

commit(d) ==
    /\ At(d, "commit")
    /\ IF op[d].amend THEN at.oid # 0 ELSE index # HeadTree
    /\ LET parent == IF op[d].amend THEN commits[at.oid].parent ELSE at.oid
       IN commits' = Append(commits, [parent |-> parent, tree |-> index])
    /\ MoveHead(Len(commits'))
    /\ Goto(d, Idle)
    /\ UNCHANGED <<files, exists, remote, mixed, stash, ignore, view>>

init(d) ==
    /\ Asks(d) /\ ~exists
    /\ exists' = TRUE
    /\ Goto(d, [kind |-> "init"])
    /\ UNCHANGED <<files, commits, refs, at, remote, mixed, stash, ignore, view>>

\* git commit --allow-empty takes what has been staged meanwhile.
initial_commit(d) ==
    /\ At(d, "init")
    /\ commits' = Append(commits, [parent |-> at.oid, tree |-> index])
    /\ MoveHead(Len(commits'))
    /\ Goto(d, Idle)
    /\ UNCHANGED <<files, exists, remote, mixed, stash, ignore, view>>

\* git push refuses what is not built on the remote's branch.
push(d) ==
    /\ open_repo(d) /\ refs["main"] # 0 /\ (remote = 0 \/ remote \in Before(refs["main"]))
    /\ remote' = refs["main"]
    /\ UNCHANGED <<files, exists, commits, refs, at, mixed, stash, ignore, view, op>>

-----------------------------------------------------------------------------
(* Other trees: checkout, checkout_commit and pull refuse a tree with changes, *)
(* and git refuses to overwrite one that came since                            *)

Switches == {[branch |-> b, oid |-> refs[b]] : b \in {c \in Branch : refs[c] # 0}}
            \union {[branch |-> None, oid |-> c] : c \in 1..Len(commits)}

\* What "to" is for git when it comes to it: a pull merges the remote's branch,
\* which is taken to fail where it is not a fast-forward.
Target(o) ==
    IF o.kind = "pull" THEN [branch |-> at.branch, oid |-> remote]
    ELSE IF o.to.branch = None THEN o.to ELSE [o.to EXCEPT !.oid = refs[o.to.branch]]

Refuse(d, kind, to) ==
    /\ open_repo(d) /\ status_files = {}
    /\ Goto(d, [kind |-> kind, to |-> to, index |-> index, wt |-> wt, head |-> HeadTree])
    /\ UNCHANGED <<files, heads, mixed, stash, ignore, view>>

checkout(d, to) == at.oid # 0 /\ Refuse(d, "checkout", to)
pull(d) == Refuse(d, "pull", at)

switch(d) ==
    /\ op[d].kind \in {"checkout", "pull"} /\ UNCHANGED counts
    /\ LET o == op[d]  to == Target(o)  T == Tree(to.oid)
           Changed == {p \in Path : HeadTree[p] # T[p] /\ index[p] # T[p]}
       IN /\ o.kind = "pull" => at.branch = "main" /\ remote # 0 /\ (at.oid = 0 \/ at.oid \in Before(remote))
          /\ \A p \in Changed : index[p] = HeadTree[p] /\ wt[p] = index[p]
          /\ index' = [p \in Path |-> IF p \in Changed THEN T[p] ELSE index[p]]
          /\ wt' = [p \in Path |-> IF p \in Changed THEN T[p] ELSE wt[p]]
          /\ at' = to
          /\ refs' = IF o.kind = "pull" THEN [refs EXCEPT !["main"] = remote] ELSE refs
          /\ mixed' = (mixed \/ (/\ <<o.index, o.wt, o.head>> = <<index, wt, HeadTree>>
                                /\ <<index', wt'>> # <<T, T>>))
    /\ Goto(d, Idle)
    /\ UNCHANGED <<exists, commits, remote, stash, ignore, view>>

-----------------------------------------------------------------------------
(* Discard: what is tracked is restored from the index by one git process, the *)
(* rest is removed file by file                                                *)

is_tracked(p) == index[p] # None

discard(d, S) ==
    /\ open_repo(d)
    /\ LET T == {p \in S : is_tracked(p)}
       IN Goto(d, [kind |-> IF T = {} THEN "remove" ELSE "restore", tracked |-> T, left |-> S \ T])
    /\ UNCHANGED <<files, heads, mixed, stash, ignore, view>>

\* git checkout -- paths: all of them or, when one is no longer tracked, none.
restore(d) ==
    /\ At(d, "restore") /\ \A p \in op[d].tracked : index[p] # None
    /\ wt' = [p \in Path |-> IF p \in op[d].tracked THEN index[p] ELSE wt[p]]
    /\ Goto(d, IF op[d].left = {} THEN Idle ELSE [op[d] EXCEPT !.kind = "remove"])
    /\ UNCHANGED <<index, heads, mixed, stash, ignore, view>>

remove(d) ==
    /\ At(d, "remove")
    /\ \E p \in op[d].left :
          /\ wt' = [wt EXCEPT ![p] = None]
          /\ Goto(d, IF op[d].left = {p} THEN Idle ELSE [op[d] EXCEPT !.left = @ \ {p}])
    /\ UNCHANGED <<index, heads, mixed, stash, ignore, view>>

-----------------------------------------------------------------------------
(* The stash                                                                   *)

\* git stash push takes the tracked changes; without any it succeeds and does nothing.
stash_push(d) ==
    /\ open_repo(d) /\ at.oid # 0 /\ \E p \in status_files : Tracked(p)
    /\ stash' = <<[id |-> counts.ops + 1, base |-> at.oid,
                   tree |-> [p \in Path |-> IF Tracked(p) THEN wt[p] ELSE None]]>> \o stash
    /\ index' = HeadTree
    /\ wt' = [p \in Path |-> IF Tracked(p) THEN HeadTree[p] ELSE wt[p]]
    /\ UNCHANGED <<heads, mixed, ignore, view, op>>

\* git stash pop: files it would change must be as they were, or it keeps the
\* entry and fails (conflict markers, which hold both texts, are left out).
stash_pop(d) ==
    /\ open_repo(d) /\ stash # <<>>
    /\ LET e == stash[1]  T == Tree(e.base)
           Changed == {p \in Path : e.tree[p] # T[p]}
       IN /\ \A p \in Changed : wt[p] = index[p] /\ index[p] \in {T[p], e.tree[p]}
          /\ wt' = [p \in Path |-> IF p \in Changed THEN e.tree[p] ELSE wt[p]]
          /\ index' = [p \in Path |-> IF p \in Changed /\ T[p] = None THEN e.tree[p] ELSE index[p]]
    /\ stash' = Tail(stash)
    /\ UNCHANGED <<heads, mixed, ignore, view, op>>

\* An entry is dropped by its place, whatever lies there by now.
stash_drop(d, k) ==
    /\ open_repo(d) /\ k \in DOMAIN view[d].stash \intersect DOMAIN stash
    /\ stash' = RemoveAt(stash, k)
    /\ UNCHANGED <<files, heads, mixed, ignore, view, op>>

-----------------------------------------------------------------------------
(* .gitignore, which is read and written without git and without a lock        *)

read_gitignore(d) ==
    /\ Asks(d) /\ d \notin ignore
    /\ Goto(d, [kind |-> "ignore", read |-> ignore])
    /\ UNCHANGED <<files, heads, mixed, stash, ignore, view>>

add_to_gitignore(d) == op[d].read \union {d}
write_gitignore(d) ==
    /\ At(d, "ignore")
    /\ ignore' = add_to_gitignore(d)
    /\ Goto(d, Idle)
    /\ UNCHANGED <<files, heads, stash, view, mixed>>

-----------------------------------------------------------------------------
(* What the code does not control                                              *)

\* The user or an agent writes or deletes a file.
Edit(p, c) ==
    /\ counts.edits < MaxEdits /\ counts' = [counts EXCEPT !.edits = @ + 1]
    /\ wt[p] # c /\ wt' = [wt EXCEPT ![p] = c]
    /\ UNCHANGED <<index, heads, mixed, stash, ignore, view, op>>

\* A git process fails before it changed anything (a hook, the lock, a path it
\* does not know), or a write does: the function returns the error.
Fails(d) ==
    /\ op[d] # Idle
    /\ counts.faults < MaxFaults /\ counts' = [counts EXCEPT !.faults = @ + 1]
    /\ Goto(d, Idle)
    /\ UNCHANGED <<files, heads, mixed, stash, ignore, view>>

Request(d) ==
    \/ get_git_status(d) \/ stash_list(d) \/ init(d) \/ push(d) \/ pull(d)
    \/ \E S \in SUBSET Path \ {{}} : stage(d, S) \/ discard(d, S)
    \/ \E S \in {{}} \union {{p} : p \in Path} : unstage(d, S)
    \/ \E amend \in BOOLEAN : commit_check(d, amend)
    \/ \E to \in Switches : checkout(d, to)
    \/ stash_push(d) \/ stash_pop(d) \/ \E k \in 1..MaxOps : stash_drop(d, k)
    \/ read_gitignore(d)
Step(d) ==
    \/ commit(d) \/ initial_commit(d) \/ switch(d) \/ restore(d) \/ remove(d)
    \/ write_gitignore(d) \/ Fails(d)
Next ==
    \/ \E d \in Device : Request(d) \/ Step(d)
    \/ \E p \in Path, c \in {None} \union Content : Edit(p, c)

Spec == Init /\ [][Next]_vars

-----------------------------------------------------------------------------
(* Properties                                                                  *)

\* A checkout or pull that found the tree clean, untracked files included, and for
\* which HEAD's tree, the index and the files are still those when git runs, leaves
\* exactly the tree it went to
\* (pull, checkout, checkout_commit and their DirtyTree check).
SwitchesAreClean == ~mixed

\* What is on a branch stays on it, whoever commits, amends or pulls at the same
\* time: a commit leaves its branch only when a device that was told of it
\* amends it, or when HEAD moved between the check of If-Match and git (commit).
CommitStays ==
    \A b \in Branch :
        refs[b] \in Before(refs[b])' \union {0} \/
        \E d \in Device : /\ op[d].kind = "commit" /\ op'[d] = Idle
                          /\ refs[b] # op[d].head \/ refs[b] = view[d].head
CommitsStay == [][CommitStays]_vars
=============================================================================
