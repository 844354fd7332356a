--------------------------- MODULE WorkspaceProofs ---------------------------
(* Theorems about WorkspaceFiles and Workspaces, proved with TLAPS: for any    *)
(* tree of directories, any requests on it, any number of workspaces, however  *)
(* they lie within each other, and any number of requests on those.            *)
EXTENDS WorkspaceSystem, SequenceTheorems, FiniteSetTheorems, TLAPS


(* What the model's records and tuples are.                                   *)
Event == {<<p>> : p \in Path} \union {<<p, q>> : p \in File, q \in File}
Kinds == {"save", "agent", "rename", "mkdir", "delete"}
Operation ==
    [kind : Kinds, path : Path, to : Path, device : Device \union {None},
     content : Content \union {None}, expected : Content \union {None, Prefix}, dir : BOOLEAN,
     touched : SUBSET Path, dropped : BOOLEAN, pc : {"act", "note"}]
Fits(o) ==
    /\ o \in Operation
    /\ o.kind \in {"save", "agent", "rename"} => o.path \in File /\ o.to \in File
    /\ o.kind = "mkdir" => o.path \in Dir
    /\ o.kind = "save" => o.device \in Device
    /\ o.kind \in {"save", "agent"} => o.content \in Content
    /\ o.kind # "rename" => o.to = o.path
FileSystem ==
    {f \in [Path -> Content \union {"dir", None}] :
        /\ \A p \in File : f[p] # "dir"
        /\ \A d \in Dir : f[d] \in {"dir", None}}
OpsFit == \A i \in Op : op[i] = NoOp \/ Fits(op[i])
Files ==
    /\ fs \in FileSystem /\ raw \in SUBSET Event /\ replaced \in SUBSET Dir
    /\ inotify \in SUBSET ({Root} \union Dir) /\ Root \in inotify
Operations ==
    /\ held \in [Device -> [File -> Content \union {None, Prefix}]]
    /\ op \in [Op -> {NoOp} \union Operation] /\ OpsFit
    /\ env \in [ops : 0..MaxOps, external : Nat, drops : Nat]
Worker ==
    /\ watched \in SUBSET ({Root} \union Dir)
    /\ commands \in Seq(Dir) /\ walk \in Seq(Dir)
    /\ suppressed \in SUBSET Path /\ throttled \in SUBSET Path
    /\ channel \in Seq(Path)
Histories == untold \in SUBSET File /\ clobbered \in SUBSET Op
Types == Files /\ Operations /\ Worker /\ Histories

(* No program changed, since an operation looked, what it is about to replace: *)
(* a file with a revision is as the device last got it, and a rename still has *)
(* nothing in its way.  "touched" is what others changed meanwhile.            *)
Unseen(f, o) ==
    o.to \notin o.touched =>
        /\ o.kind = "save" /\ o.expected # None => f[o.path] = o.expected
        /\ o.kind = "rename" => f[o.to] = None
Untouched == \A i \in Op : op[i].pc = "act" => Unseen(fs, op[i])

(* What exists lies in directories that exist.                                 *)
Rooted(f) == \A p \in Path : f[p] # None => Parent[p] = Root \/ f[Parent[p]] = "dir"
(* The kernel reports on directories that exist, and the worker takes no       *)
(* others for watched but those that were deleted and made again.              *)
Known == inotify \subseteq {Root} \union {d \in Dir : IsDir(d)}
Believed == watched \subseteq inotify \union replaced
(* A directory the kernel does not report on will be met: an event about it,   *)
(* a command or the walk has it still before them, or has the directory it     *)
(* lies in, or that one is not reported on either.                             *)
Due(d) == <<d>> \in raw \/ d \in Range(commands) \/ d \in Range(walk)
Followed ==
    \A d \in Dir : IsDir(d) /\ d \notin inotify \union replaced =>
        Due(d) \/ Parent[d] \notin inotify \/ Due(Parent[d])
(* A change made by a program outside that no device was told of is still      *)
(* held by the debouncer or by the channel.                                    *)
Telling == \A p \in untold : (\E ev \in raw : p \in Range(ev)) \/ p \in Range(channel)
Following == Rooted(fs) /\ Known /\ Believed /\ Followed
Unclobbered == Untouched /\ clobbered = {}
(* The inductive invariant of WorkspaceFiles.                                  *)
Inv == Types /\ Unclobbered /\ Following /\ Telling

(* A request that was let in is an operation of its kind.                     *)
LEMMA RequestsFit ==
    ASSUME Types, NEW r \in Requests, NEW pc \in {"act", "note"}, NEW dir \in BOOLEAN
    PROVE  Fits([r EXCEPT !.expected = Expected(r), !.pc = pc, !.dir = dir])
  <1>1. PICK K, P : /\ r \in Asks(K, P) 
                    /\ \/ K = {"save", "agent", "rename", "delete"} /\ P = File
                       \/ K = {"mkdir", "delete"} /\ P = Dir
    BY RequestAssumption
  <1>2. /\ r.kind = "save" => r.device \in Device
        /\ r.kind \in {"save", "agent"} => r.content \in Content
        /\ r.kind # "rename" => r.to = r.path
    BY RequestAssumption
  <1>3. r.kind = "save" => r.path \in File
    BY <1>1 DEF Asks
  <1>4. Expected(r) \in Content \union {None, Prefix}
    BY <1>2, <1>3 DEF Expected, Types, Operations
  <1> QED BY <1>1, <1>2, <1>4 DEF Fits, Operation, Asks, Path, Kinds

Sound(f, changes) ==
    /\ f \in FileSystem /\ changes \in SUBSET Event
    /\ Rooted(fs) => Rooted(f)
    /\ \A d \in Dir : f[d] = "dir" /\ fs[d] # "dir" => <<d>> \in changes
    /\ \A p \in File : f[p] # fs[p] => \E ev \in changes : p \in Range(ev)

(* What an operation that has an effect does to the files.                    *)
LEMMA EffectIs ==
    ASSUME NEW o, Effect(o) # <<>>
    PROVE  \/ o.kind \in {"save", "agent"} /\ IsDir(Parent[o.path]) /\ Effect(o) = Write(o.path, o.content)
           \/ o.kind = "delete" /\ (IsDir(o.path) => Children(o.path) = {}) /\ Effect(o) = Write(o.path, None)
           \/ o.kind = "rename" /\ Exists(o.path) /\ IsDir(Parent[o.to]) /\ Effect(o) = Move(o.path, o.to)
           \/ o.kind = "mkdir" /\ Effect(o) = [p \in Path |-> IF p \in Missing(o.path) THEN "dir" ELSE fs[p]]
  BY DEF Effect

(* The assumptions, as the proofs use them.                                   *)
LEMMA Paths ==
    /\ \A p \in Path : Parent[p] = Root \/ Parent[p] \in Dir
    /\ Root \notin Path /\ \A p \in File : p \notin Dir
    /\ "dir" \notin Content /\ None \notin Content /\ Prefix \notin Content
  <1>1. Parent \in [Path -> {Root} \union Dir] /\ Root \notin Path /\ Dir \intersect File = {}
    BY TreeAssumption
  <1>2. {None, Prefix, "dir"} \intersect Content = {}
    BY ContentAssumption
  <1> QED BY <1>1, <1>2 DEF Path

LEMMA FilesAre ==
    ASSUME fs \in FileSystem
    PROVE  /\ DOMAIN fs = Path
           /\ \A p \in Path : fs[p] \in Content \union {"dir", None}
           /\ \A p \in File : fs[p] # "dir"
           /\ \A d \in Dir : fs[d] \in {"dir", None}
  BY DEF FileSystem

LEMMA WriteIs ==
    ASSUME fs \in FileSystem, NEW p \in Path, NEW c
    PROVE  /\ \A q \in Path : Write(p, c)[q] = IF q = p THEN c ELSE fs[q]
           /\ (p \in File /\ c \in Content \union {None}) \/ (p \in Dir /\ c \in {"dir", None})
                => Write(p, c) \in FileSystem
  <1>1. Write(p, c) = [fs EXCEPT ![p] = c]
    BY DEF Write
  <1> QED BY <1>1, Paths DEF FileSystem, Path, None

LEMMA EventsAre ==
    ASSUME NEW p, NEW q
    PROVE  Range(<<p>>) = {p} /\ Range(<<p, q>>) = {p, q}
  BY DEF Range

(* Each change an operation can make is sound.                                *)
LEMMA WriteIsSound ==
    ASSUME Files, NEW p \in Path, NEW c,
           (p \in File /\ c \in Content \union {None}) \/ (p \in Dir /\ c \in {"dir", None}),
           c # None => IsDir(Parent[p]), c = None /\ fs[p] = "dir" => Children(p) = {}
    PROVE  Sound(Write(p, c), {<<p>>})
  <1> fs \in FileSystem
    BY DEF Files
  <1>1. Write(p, c) \in FileSystem
    BY WriteIs
  <1>2. ASSUME Rooted(fs), NEW q \in Path, Write(p, c)[q] # None, Parent[q] # Root
        PROVE  Write(p, c)[Parent[q]] = "dir"
    <2>1. Parent[q] \in Dir /\ Parent[q] \in Path
      BY <1>2, Paths DEF Path
    <2>2. CASE q = p
      <3>1. fs[Parent[p]] = "dir"
        BY <1>2, <2>2, WriteIs DEF IsDir
      <3>2. p \in File \/ c = "dir"
        BY <1>2, <2>2, WriteIs
      <3>3. Write(p, c)[Parent[p]] = IF Parent[p] = p THEN c ELSE fs[Parent[p]]
        BY <2>1, <2>2, WriteIs
      <3>4. Parent[p] = p => p \notin File
        BY <2>1, <2>2, Paths
      <3> QED BY <3>1, <3>2, <3>3, <3>4, <2>2
    <2>3. CASE q # p
      <3>1. fs[q] # None /\ fs[Parent[q]] = "dir"
        BY <1>2, <2>1, <2>3, WriteIs DEF Rooted
      <3>2. CASE Parent[q] = p
        BY <3>1, <3>2, <2>1, WriteIs, Paths DEF Children
      <3>3. Write(p, c)[Parent[q]] = IF Parent[q] = p THEN c ELSE fs[Parent[q]]
        BY <2>1, WriteIs
      <3> QED BY <3>1, <3>2, <3>3
    <2> QED BY <2>2, <2>3
  <1>3. \A d \in Dir : Write(p, c)[d] = "dir" /\ fs[d] # "dir" => <<d>> \in {<<p>>}
    BY WriteIs DEF Path
  <1>4. \A q \in File : Write(p, c)[q] # fs[q] => q \in Range(<<p>>)
    <2>1. Range(<<p>>) = {p}
      BY EventsAre
    <2> QED BY <2>1, WriteIs DEF Path
  <1> QED BY <1>1, <1>2, <1>3, <1>4 DEF Sound, Rooted, Event

LEMMA MoveIsSound ==
    ASSUME Files, NEW p \in File, NEW q \in File, fs[p] # None, IsDir(Parent[q])
    PROVE  Sound(Move(p, q), {<<p, q>>})
  <1> fs \in FileSystem /\ p \in Path /\ q \in Path
    BY DEF Files, Path
  <1>1. /\ DOMAIN Move(p, q) = Path
        /\ \A x \in Path : Move(p, q)[x] = IF x = p THEN None ELSE IF x = q THEN fs[p] ELSE fs[x]
    BY FilesAre DEF Move
  <1>2. Move(p, q) \in FileSystem
    BY <1>1, FilesAre, Paths DEF FileSystem, Move, Path, None
  <1>3. ASSUME Rooted(fs), NEW x \in Path, Move(p, q)[x] # None, Parent[x] # Root
        PROVE  Move(p, q)[Parent[x]] = "dir"
    <2>1. Parent[x] \in Dir /\ Parent[x] \in Path /\ Parent[x] # p /\ Parent[x] # q
      BY <1>3, Paths DEF Path
    <2>2. fs[Parent[x]] = "dir"
      BY <1>1, <1>3 DEF Rooted, IsDir
    <2> QED BY <2>1, <2>2, <1>1
  <1>4. \A d \in Dir : Move(p, q)[d] = fs[d]
    BY <1>1, Paths DEF Path
  <1>5. \A x \in File : Move(p, q)[x] # fs[x] => x \in Range(<<p, q>>)
    <2>1. Range(<<p, q>>) = {p, q}
      BY EventsAre
    <2> QED BY <1>1, <2>1 DEF Path
  <1> QED BY <1>2, <1>3, <1>4, <1>5 DEF Sound, Rooted, Event

(* The directories on the way from the root to one of them.                   *)
LEMMA LineIs ==
    ASSUME NEW d \in Dir
    PROVE  /\ Line[d] \in SUBSET Dir /\ d \in Line[d]
           /\ \A e \in Line[d] : Parent[e] = Root \/ Parent[e] \in Line[d]
  <1>1. Line[d] = {e \in Dir : \A S \in SUBSET Dir :
                     d \in S /\ (\A a \in S : Parent[a] \in S \union {Root}) => e \in S}
    BY DEF Line
  <1>2. ASSUME NEW e \in Line[d], Parent[e] # Root PROVE Parent[e] \in Line[d]
    BY <1>1, <1>2, Paths DEF Path
  <1> QED BY <1>1, <1>2

LEMMA MkdirIsSound ==
    ASSUME Files, NEW d \in Dir
    PROVE  Sound([p \in Path |-> IF p \in Missing(d) THEN "dir" ELSE fs[p]], {<<e>> : e \in Missing(d)})
  <1> DEFINE f == [p \in Path |-> IF p \in Missing(d) THEN "dir" ELSE fs[p]]
  <1>0. Missing(d) \subseteq Dir
    BY LineIs DEF Missing
  <1>1. f \in FileSystem
    BY <1>0, Paths DEF Files, FileSystem, Path
  <1>2. ASSUME Rooted(fs), NEW p \in Path, f[p] # None
        PROVE  Parent[p] = Root \/ f[Parent[p]] = "dir"
    <2>1. CASE p \in Missing(d)
      <3>1. Parent[p] = Root \/ Parent[p] \in Line[d]
        BY <2>1, LineIs DEF Missing
      <3> QED BY <2>1, <3>1, LineIs, Paths DEF Missing, Path, Files, FileSystem
    <2>2. CASE p \notin Missing(d)
      BY <2>2, <1>2, Paths DEF Rooted, Path
    <2> QED BY <2>1, <2>2
  <1>3. {<<e>> : e \in Missing(d)} \in SUBSET Event
    BY <1>0 DEF Event, Path
  <1>4. \A e \in Dir : f[e] = "dir" /\ fs[e] # "dir" => <<e>> \in {<<x>> : x \in Missing(d)}
    BY DEF Path
  <1>5. \A p \in File : f[p] = fs[p]
    BY <1>0, Paths DEF Path
  <1> QED BY <1>1, <1>2, <1>3, <1>4, <1>5 DEF Sound, Rooted

LEMMA EffectIsSound ==
    ASSUME Files, NEW o, Fits(o), Effect(o) # <<>>
    PROVE  Sound(Effect(o), Changes(o))
  <1> fs \in FileSystem
    BY DEF Files
  <1>1. CASE o.kind \in {"save", "agent"}
    BY <1>1, EffectIs, WriteIsSound, Paths DEF Changes, Fits, Path, None
  <1>2. CASE o.kind = "delete"
    <2>1. o.path \in File \/ o.path \in Dir
      BY DEF Fits, Operation, Path
    <2>2. CASE o.path \in File
       BY <1>2, <2>2, EffectIs, WriteIsSound, FilesAre DEF Changes, Path
    <2>3. CASE o.path \in Dir
       BY <1>2, <2>3, EffectIs, WriteIsSound, Paths DEF Changes, IsDir, Path
    <2> QED BY <2>1, <2>2, <2>3
  <1>3. CASE o.kind = "rename"
    <2>1. o.path \in File /\ o.to \in File 
      BY <1>3 DEF Fits
    <2> QED BY <1>3, <2>1, EffectIs, MoveIsSound, Paths DEF Changes, Exists, Path
  <1>4. CASE o.kind = "mkdir"
    BY <1>4, EffectIs, MkdirIsSound DEF Changes, Fits
  <1> QED BY <1>1, <1>2, <1>3, <1>4 DEF Fits, Operation, Kinds

(* A sound change keeps what is known of the files and their directories:     *)
(* a directory that comes has an event, one that goes is no longer reported on.*)
LEMMA ChangesKeep ==
    ASSUME Files, Following, NEW f, NEW changes, Sound(f, changes), Change(f, changes), UNCHANGED worker
    PROVE  Files' /\ Following'
  <1>1. Files'
    BY DEF Files, Sound, Change
  <1>2. Rooted(fs)'
    BY DEF Following, Sound, Change, Rooted
  <1>3. Known'
    BY Paths DEF Following, Known, Change, Files, IsDir, Path
  <1>4. Believed'
    BY Paths DEF Following, Files, Known, Believed, Change, worker, IsDir, Path
  <1>5. ASSUME NEW d \in Dir, IsDir(d)', d \notin (inotify \union replaced)'
        PROVE  Due(d)' \/ Parent[d] \notin inotify' \/ Due(Parent[d])'
    <2>1. CASE fs[d] = "dir"
      <3>1. d \notin inotify \union replaced
        BY <1>5, <2>1, Paths DEF Change, IsDir, Path
      <3>2. \A e : Due(e) => Due(e)'
        BY DEF Due, Change, worker
      <3>3. inotify' \subseteq inotify
        BY DEF Change
      <3> QED BY <2>1, <3>1, <3>2, <3>3 DEF Following, Followed, IsDir
    <2>2. CASE fs[d] # "dir"
      <3>1. <<d>> \in changes
        BY <1>5, <2>2, Paths DEF Sound, Change, IsDir, Path
      <3>2. CASE Parent[d] \in inotify
        BY <3>1, <3>2 DEF Change, Seen, Due
      <3>3. CASE Parent[d] \notin inotify
        BY <3>3 DEF Change
      <3> QED BY <3>2, <3>3
    <2> QED BY <2>1, <2>2
  <1> QED BY <1>1, <1>2, <1>3, <1>4, <1>5 DEF Following, Followed

(* What a step leaves alone.                                                  *)
LEMMA Frame ==
    /\ UNCHANGED disk => (Files => Files') /\ (UNCHANGED worker /\ Following => Following')
    /\ UNCHANGED <<held, op, env>> /\ Operations => Operations'
    /\ UNCHANGED watcher /\ Worker => Worker'
    /\ UNCHANGED <<untold, clobbered>> /\ Histories => Histories'
    /\ UNCHANGED <<op, fs, clobbered>> /\ Unclobbered => Unclobbered'
    /\ UNCHANGED <<raw, untold, channel>> /\ Telling => Telling'
  <1>1. UNCHANGED disk => (Files => Files')
    BY DEF disk, Files
  <1>2. UNCHANGED disk => (UNCHANGED worker /\ Following => Following')
    BY DEF disk, worker, Following, Rooted, Known, Believed, Followed, IsDir, Due
  <1>3. UNCHANGED <<held, op, env>> /\ Operations => Operations'
    BY DEF Operations, OpsFit
  <1>4. UNCHANGED watcher /\ Worker => Worker'
    BY DEF watcher, worker, Worker
  <1>5. UNCHANGED <<untold, clobbered>> /\ Histories => Histories'
    BY DEF Histories
  <1>6. UNCHANGED <<op, fs, clobbered>> /\ Unclobbered => Unclobbered'
    BY DEF Unclobbered, Untouched, Unseen
  <1>7. UNCHANGED <<raw, untold, channel>> /\ Telling => Telling'
    BY DEF Telling
  <1> QED BY <1>1, <1>2, <1>3, <1>4, <1>5, <1>6, <1>7

(* The steps, in the order of Next.                                           *)
LEMMA Reads ==
    ASSUME Inv, NEW d \in Device, NEW p \in File, read_file(d, p)
    PROVE  Inv'
  <1>1. Operations'
    BY DEF read_file, Inv, Types, Operations, OpsFit, RevisionRead
  <1>2. UNCHANGED <<disk, watcher, worker, untold, clobbered, op, fs, raw, channel>>
    BY DEF read_file, disk, watcher
  <1> QED BY <1>1, <1>2, Frame DEF Inv, Types

LEMMA Begins ==
    ASSUME Inv, NEW r \in Requests, Begin(r)
    PROVE  Inv'
  <1>1. UNCHANGED <<disk, watcher, worker, untold, clobbered, held, fs, raw, channel>>
    BY DEF Begin, disk, watcher
  <1> DEFINE o == [r EXCEPT !.expected = Expected(r)]
             n == env.ops + 1
  <1>2. /\ n \in Op /\ env' \in [ops : 0..MaxOps, external : Nat, drops : Nat]
        /\ \/ op' = [op EXCEPT ![n] = [o EXCEPT !.pc = "note"]]
           \/ Allowed(o) /\ ~Trivial(o) /\ op' = [op EXCEPT ![n] = [o EXCEPT !.pc = "act", !.dir = IsDir(o.path)]]
           \/ op' = op
    BY BoundsAssumption DEF Begin, Op, Inv, Types, Operations
  <1>r. PICK K, P : r \in Asks(K, P)
    BY RequestAssumption
  <1>3. Fits([o EXCEPT !.pc = "note"]) /\ Fits([o EXCEPT !.pc = "act", !.dir = IsDir(o.path)])
    <2>1. o.dir \in BOOLEAN /\ IsDir(o.path) \in BOOLEAN
      BY <1>r DEF Asks, IsDir
    <2>2. [o EXCEPT !.pc = "note"] = [r EXCEPT !.expected = Expected(r), !.pc = "note", !.dir = FALSE]
      BY <1>r DEF Asks
    <2>3. [o EXCEPT !.pc = "act", !.dir = IsDir(o.path)] = [r EXCEPT !.expected = Expected(r), !.pc = "act", !.dir = IsDir(o.path)]
      BY <1>r DEF Asks
    <2> QED BY <2>1, <2>2, <2>3, RequestsFit DEF Inv
  <1>4. Operations'
    BY <1>1, <1>2, <1>3 DEF Inv, Types, Operations, OpsFit, Fits
  <1>5. ASSUME Allowed(o), ~Trivial(o)
        PROVE  Unseen(fs, [o EXCEPT !.pc = "act", !.dir = IsDir(o.path)])
    <2>1. o.kind = "save" /\ o.expected # None => fs[o.path] = o.expected
      BY <1>5 DEF Allowed, WriteAllowed, content_revision
    <2>2. o.kind = "rename" => fs[o.to] = None
      BY <1>5, <1>r DEF Allowed, RenameAllowed, Exists
    <2> QED BY <2>1, <2>2, <1>r DEF Unseen, Asks
  <1>6. ASSUME NEW j \in Op, op'[j].pc = "act" PROVE Unseen(fs', op'[j])
    <2>1. CASE op'[j] = op[j]
      BY <1>1, <1>6, <2>1 DEF Inv, Unclobbered, Untouched, Unseen
    <2>2. CASE op'[j] # op[j]
      <3>1. Allowed(o) /\ ~Trivial(o) /\ op'[j] = [o EXCEPT !.pc = "act", !.dir = IsDir(o.path)]
        <4>1. [o EXCEPT !.pc = "note"].pc = "note"
          BY <1>r DEF Asks
        <4>2. op \in [Op -> {NoOp} \union Operation]
          BY DEF Inv, Types, Operations
        <4> HIDE DEF o
        <4> QED BY <1>2, <1>6, <2>2, <4>1, <4>2
      <3> QED BY <1>1, <1>5, <3>1 DEF Unseen
    <2> QED BY <2>1, <2>2
  <1> QED BY <1>1, <1>4, <1>6, Frame DEF Inv, Types, Unclobbered, Untouched

LEMMA Notes ==
    ASSUME Inv, NEW i \in Op, notify_write(i)
    PROVE  Inv'
  <1>1. UNCHANGED <<disk, worker, untold, clobbered, held, fs, raw, channel>>
    BY DEF notify_write, disk
  <1>2. op' = [op EXCEPT ![i] = NoOp] /\ op[i].pc = "note"
    BY DEF notify_write, Finish, At
  <1>3. Operations'
    BY <1>2 DEF notify_write, Inv, Types, Operations, OpsFit
  <1>4. Worker'
    <2>1. op[i].path \in Path /\ op[i].to \in Path
      BY <1>2 DEF Inv, Types, Operations, OpsFit, Fits, NoOp, Operation
    <2> QED BY <2>1 DEF notify_write, Inv, Types, Worker, worker
  <1>5. Untouched'
    BY <1>1, <1>2 DEF Inv, Unclobbered, Untouched, Unseen, Types, Operations, NoOp
  <1> QED BY <1>1, <1>3, <1>4, <1>5, Frame DEF Inv, Types, Unclobbered

LEMMA Drops ==
    ASSUME Inv, NEW i \in Op, Drop(i)
    PROVE  Inv'
  <1>1. UNCHANGED <<disk, watcher, worker, untold, clobbered, held, fs, raw, channel>>
    BY DEF Drop, disk, watcher
  <1>2. op' = [op EXCEPT ![i].dropped = TRUE] /\ op[i].pc = "act" /\ Fits(op[i])
    BY DEF Drop, At, Inv, Types, Operations, OpsFit, NoOp
  <1>3. Operations'
    <2>1. op' \in [Op -> {NoOp} \union Operation]
      BY <1>2 DEF Inv, Types, Operations, Fits, Operation
    <2>2. Fits([op[i] EXCEPT !.dropped = TRUE])
      BY <1>2 DEF Fits, Operation
    <2>3. OpsFit'
      BY <1>2, <2>2 DEF Inv, Types, Operations, OpsFit, Fits
    <2>4. env' \in [ops : 0..MaxOps, external : Nat, drops : Nat]
      BY DEF Drop, Inv, Types, Operations
    <2> QED BY <1>1, <2>1, <2>3, <2>4 DEF Inv, Types, Operations
  <1>5. Untouched'
    BY <1>1, <1>2 DEF Inv, Unclobbered, Untouched, Unseen, Types, Operations, Fits, Operation
  <1> QED BY <1>1, <1>3, <1>5, Frame DEF Inv, Types, Unclobbered

(* An operation between its look and its act sees the changes of others.      *)
LEMMA TouchesKeep ==
    ASSUME Operations, Untouched, NEW paths \in SUBSET Path, \A p \in File \ paths : fs'[p] = fs[p],
           NEW i, NEW j \in Op \ {i}
    PROVE  LET t == Touch(paths, i)[j]
           IN /\ t \in {NoOp} \union Operation /\ (t = NoOp \/ Fits(t))
              /\ t.pc = "act" => Unseen(fs', t)
  <1>1. op[j] = NoOp \/ Fits(op[j])
    BY DEF Operations, OpsFit
  <1>2. CASE op[j].pc = "act"
    <2> DEFINE t == [op[j] EXCEPT !.touched = @ \union paths]
    <2>1. Touch(paths, i)[j] = t
      BY <1>2 DEF Touch
    <2>2. Fits(op[j])
      BY <1>1, <1>2 DEF NoOp
    <2>3. Fits(t) /\ t.touched = op[j].touched \union paths /\ t \in Operation
      BY <2>2 DEF Fits, Operation
    <2>4. /\ t.to = op[j].to /\ t.path = op[j].path /\ t.kind = op[j].kind
          /\ t.expected = op[j].expected
      BY <2>2 DEF Fits, Operation
    <2>5. Unseen(fs, op[j])
      BY <1>2 DEF Untouched
    <2>6. ASSUME t.to \notin t.touched
          PROVE  /\ t.kind = "save" /\ t.expected # None => fs'[t.path] = t.expected
                 /\ t.kind = "rename" => fs'[t.to] = None
      BY <2>2, <2>3, <2>4, <2>5, <2>6 DEF Unseen, Fits
    <2> HIDE DEF t
    <2> QED BY <2>1, <2>3, <2>6 DEF Unseen
  <1>3. CASE op[j].pc # "act"
    BY <1>1, <1>3 DEF Touch, Fits
  <1> QED BY <1>2, <1>3

LEMMA ChangesTell ==
    ASSUME Telling, NEW f, NEW changes, Change(f, changes), UNCHANGED <<untold, channel>>
    PROVE  Telling'
  BY DEF Telling, Change

LEMMA Acts ==
    ASSUME Inv, NEW i \in Op, Act(i)
    PROVE  Inv'
  <1> DEFINE o == op[i]
  <1>1. UNCHANGED <<watcher, worker, channel, env, untold>>
    BY DEF Act, watcher
  <1>2. o.pc = "act" /\ Fits(o)
    BY DEF Act, At, Inv, Types, Operations, OpsFit, NoOp
  <1>3. CASE Effect(o) = <<>>
    <2>1. op' = [op EXCEPT ![i] = NoOp] /\ UNCHANGED <<disk, fs, raw, held, clobbered>>
      BY <1>3 DEF Act, Finish, disk
    <2>2. Operations'
      BY <1>1, <2>1 DEF Inv, Types, Operations, OpsFit
    <2>3. Untouched'
      BY <2>1 DEF Inv, Unclobbered, Untouched, Unseen, Types, Operations, NoOp
    <2> QED BY <1>1, <2>1, <2>2, <2>3, Frame DEF Inv, Types, Unclobbered
  <1>4. CASE Effect(o) # <<>>
    <2>1. Sound(Effect(o), Changes(o)) /\ Change(Effect(o), Changes(o))
      BY <1>2, <1>4, EffectIsSound DEF Act, Inv, Types
    <2>2. Files' /\ Following'
      BY <1>1, <2>1, ChangesKeep DEF Inv, Types
    <2>3. Telling'
      BY <1>1, <2>1, ChangesTell DEF Inv
    <2>4. ~(Clobbers(o) /\ o.to \notin o.touched)
      <3>1. Unseen(fs, o)
        BY <1>2 DEF Inv, Unclobbered, Untouched
      <3>2. o.kind = "rename" => o.to # Root
        BY <1>2, Paths DEF Fits, Path
      <3>3. o.kind = "save" => o.kind # "rename"
        OBVIOUS
      <3> QED BY <3>1, <3>2, <3>3 DEF Unseen, Clobbers, Exists
    <2>5. clobbered' = {}
      BY <1>4, <2>4 DEF Act, Inv, Unclobbered
    <2>6. {o.path, o.to} \in SUBSET Path
      BY <1>2 DEF Fits, Operation
    <2>7. \A p \in File \ {o.path, o.to} : fs'[p] = fs[p]
      <3>1. \A p \in File : fs'[p] # fs[p] => \E ev \in Changes(o) : p \in Range(ev)
        BY <2>1 DEF Sound, Change
      <3>2. \A ev \in Changes(o), p \in File : p \in Range(ev) => p \in {o.path, o.to}
        <4>1. CASE o.kind = "mkdir"
          <5>1. \A ev \in Changes(o) : \E e \in Dir : ev = <<e>>
            BY <1>2, <4>1, LineIs DEF Changes, Fits, Missing
          <5>2. \A e \in Dir : Range(<<e>>) = {e}
            BY EventsAre
          <5> QED BY <5>1, <5>2, Paths
        <4>2. CASE o.kind # "mkdir"
          <5>1. Range(<<o.path>>) = {o.path} /\ Range(<<o.path, o.to>>) = {o.path, o.to}
            BY EventsAre
          <5> QED BY <4>2, <5>1 DEF Changes
        <4> QED BY <4>1, <4>2
      <3> QED BY <3>1, <3>2
    <2>8. op' = [Touch({o.path, o.to}, i) EXCEPT ![i] = IF o.dropped THEN NoOp ELSE [o EXCEPT !.pc = "note"]]
      BY <1>4 DEF Act
    <2>9. Fits([o EXCEPT !.pc = "note"]) /\ [o EXCEPT !.pc = "note"].pc = "note"
      BY <1>2 DEF Fits, Operation
    <2>10. op' \in [Op -> {NoOp} \union Operation] /\ OpsFit' /\ Untouched'
      <3>1. ASSUME NEW j \in Op
            PROVE  /\ op'[j] \in {NoOp} \union Operation /\ (op'[j] = NoOp \/ Fits(op'[j]))
                   /\ op'[j].pc = "act" => Unseen(fs', op'[j])
        <4>1. CASE j = i
          BY <2>8, <2>9, <4>1 DEF Fits, NoOp, Touch
        <4>2. CASE j # i
          <5>1. op'[j] = Touch({o.path, o.to}, i)[j]
            BY <2>8, <4>2 DEF Touch
          <5> QED BY <4>2, <5>1, <2>6, <2>7, TouchesKeep DEF Inv, Types, Unclobbered
        <4> QED BY <4>1, <4>2
      <3>2. op' = [j \in Op |-> op'[j]]
        BY <2>8 DEF Touch
      <3> QED BY <3>1, <3>2 DEF OpsFit, Untouched
    <2>11. held' \in [Device -> [File -> Content \union {None, Prefix}]]
      BY <1>2, <1>4 DEF Act, Inv, Types, Operations, Fits, content_revision
    <2> QED BY <1>1, <2>2, <2>3, <2>5, <2>10, <2>11, Frame
               DEF Inv, Types, Unclobbered, Operations, Histories
  <1> QED BY <1>3, <1>4

LEMMA Outsides ==
    ASSUME Inv, NEW f, NEW paths \in Event, Sound(f, {paths}), Outside(f, paths)
    PROVE  Inv'
  <1>1. UNCHANGED <<watcher, worker, channel, held, clobbered>>
    BY DEF Outside, watcher
  <1>2. Change(f, {paths})
    BY DEF Outside
  <1>3. Files' /\ Following'
    BY <1>1, <1>2, ChangesKeep DEF Inv, Types
  <1>4. Range(paths) \in SUBSET Path /\ paths[Len(paths)] \in Range(paths) /\ Len(paths) \in DOMAIN paths
    <2>1. CASE \E p \in Path : paths = <<p>>
      <3>1. PICK p \in Path : paths = <<p>>
        BY <2>1
      <3>2. Range(<<p>>) = {p}
        BY EventsAre
      <3> QED BY <3>1, <3>2
    <2>2. CASE \E p \in File, q \in File : paths = <<p, q>>
      <3>1. PICK p \in File, q \in File : paths = <<p, q>>
        BY <2>2
      <3>2. Range(<<p, q>>) = {p, q}
        BY EventsAre
      <3> QED BY <3>1, <3>2 DEF Path
    <2> QED BY <2>1, <2>2 DEF Event
  <1>5. op' = Touch(Range(paths), 0)
    BY DEF Outside, Range
  <1>6. \A p \in File \ Range(paths) : fs'[p] = fs[p]
    BY <1>2 DEF Sound, Change
  <1>7. op' \in [Op -> {NoOp} \union Operation] /\ OpsFit' /\ Untouched'
    <2>1. ASSUME NEW j \in Op
          PROVE  /\ op'[j] \in {NoOp} \union Operation /\ (op'[j] = NoOp \/ Fits(op'[j]))
                 /\ op'[j].pc = "act" => Unseen(fs', op'[j])
      BY <1>4, <1>5, <1>6, TouchesKeep DEF Inv, Types, Unclobbered, Op
    <2>2. op' = [j \in Op |-> op'[j]]
      BY <1>5 DEF Touch
    <2> QED BY <2>1, <2>2 DEF OpsFit, Untouched
  <1>8. env' \in [ops : 0..MaxOps, external : Nat, drops : Nat]
    BY DEF Outside, Inv, Types, Operations
  <1>9. Telling' /\ untold' \in SUBSET File
    <2> DEFINE last == paths[Len(paths)]
    <2>1. untold' = IF last \in File /\ Parent[last] \in inotify THEN untold \union {last} ELSE untold
      BY DEF Outside
    <2>2. last \in File /\ Parent[last] \in inotify => paths \in raw'
      BY <1>2, <1>4 DEF Change, Seen
    <2>3. raw \subseteq raw'
      BY <1>2 DEF Change
    <2> HIDE DEF last
    <2>4. last \in Range(paths)
      BY <1>4 DEF last
    <2> QED BY <1>1, <2>1, <2>2, <2>3, <2>4 DEF Telling, Inv, Types, Histories
  <1> QED BY <1>1, <1>3, <1>7, <1>8, <1>9, Frame
             DEF Inv, Types, Unclobbered, Operations, Histories

LEMMA Externals ==
    ASSUME Inv, External
    PROVE  Inv'
  <1>f. Files /\ fs \in FileSystem
    BY DEF Inv, Types, Files
  <1>1. ASSUME NEW p \in File, NEW c \in Content, IsDir(Parent[p]), Outside(Write(p, c), <<p>>)
        PROVE  Inv'
    <2>1. p \in Path /\ <<p>> \in Event /\ c # None
      BY Paths DEF Path, Event
    <2>2. Sound(Write(p, c), {<<p>>})
      BY <1>f, <1>1, <2>1, WriteIsSound
    <2> QED BY <1>1, <2>1, <2>2, Outsides
  <1>2. ASSUME NEW p \in File, fs[p] # None, Outside(Write(p, None), <<p>>) PROVE Inv'
    <2>1. p \in Path /\ <<p>> \in Event /\ fs[p] # "dir"
      BY <1>f, FilesAre DEF Path, Event
    <2>2. Sound(Write(p, None), {<<p>>})
      BY <1>f, <1>2, <2>1, WriteIsSound
    <2> QED BY <1>2, <2>1, <2>2, Outsides
  <1>3. ASSUME NEW p \in File, NEW q \in File, p # q, fs[p] # None, IsDir(Parent[q]),
               Outside(Move(p, q), <<p, q>>) PROVE Inv'
    <2>1. <<p, q>> \in Event
      BY DEF Event
    <2>2. Sound(Move(p, q), {<<p, q>>})
      BY <1>f, <1>3, MoveIsSound
    <2> QED BY <1>3, <2>1, <2>2, Outsides
  <1>4. ASSUME NEW d \in Dir, NEW c \in {"dir", None}, c # None => IsDir(Parent[d]),
               c = None => Children(d) = {}, Outside(Write(d, c), <<d>>) PROVE Inv'
    <2>1. d \in Path /\ <<d>> \in Event
      BY DEF Path, Event
    <2>2. Sound(Write(d, c), {<<d>>})
      BY <1>f, <1>4, <2>1, WriteIsSound
    <2> QED BY <1>4, <2>1, <2>2, Outsides
  <1>5. "dir" # None
    BY DEF None
  <1> QED BY <1>1, <1>2, <1>3, <1>4, <1>5 DEF External

(* The worker.                                                                *)
LEMMA DueIs ==
    ASSUME Files, Worker
    PROVE  \A e : Due(e) => e \in Path
  <1>1. \A e : <<e>> \in Event => e \in Path
    BY DEF Event
  <1>2. Range(commands) \subseteq Dir /\ Range(walk) \subseteq Dir
    BY RangeOfSeq DEF Worker
  <1> QED BY <1>1, <1>2 DEF Due, Files, Path

(* What a queue holds is its head and what its tail holds.                    *)
LEMMA HeadAndTail ==
    ASSUME NEW S, NEW q \in Seq(S), q # <<>>
    PROVE  /\ Head(q) \in S /\ Tail(q) \in Seq(S)
           /\ Range(q) = {Head(q)} \union Range(Tail(q))
  <1>1. Head(q) \in S /\ Tail(q) \in Seq(S) /\ Len(Tail(q)) = Len(q) - 1 /\ Head(q) = q[1]
        /\ \A n \in 1..Len(Tail(q)) : Tail(q)[n] = q[n + 1]
    BY HeadTailProperties
  <1>2. Len(q) \in Nat /\ Len(q) # 0
    BY EmptySeq, LenProperties
  <1>3. Range(q) = {q[n] : n \in 1..Len(q)} /\ Range(Tail(q)) = {Tail(q)[n] : n \in 1..Len(Tail(q))}
    BY <1>1, RangeEquality
  <1>4. \A n \in 1..Len(q) : n = 1 \/ (n - 1 \in 1..Len(Tail(q)) /\ Tail(q)[n - 1] = q[n])
    BY <1>1, <1>2
  <1>5. \A n \in 1..Len(Tail(q)) : n + 1 \in 1..Len(q)
    BY <1>1, <1>2
  <1>6. 1 \in 1..Len(q)
    BY <1>2
  <1>7. ASSUME NEW x \in Range(q) PROVE x \in {Head(q)} \union Range(Tail(q))
    <2>1. PICK n \in 1..Len(q) : x = q[n]
      BY <1>3
    <2> QED BY <1>1, <1>3, <1>4, <2>1
  <1>8. ASSUME NEW x \in Range(Tail(q)) PROVE x \in Range(q)
    BY <1>1, <1>3, <1>5
  <1>9. Head(q) \in Range(q)
    BY <1>1, <1>3, <1>6
  <1> QED BY <1>1, <1>7, <1>8, <1>9

(* The paths of an event in their order.                                      *)
LEMMA InOrderIs ==
    ASSUME NEW ev \in Event, NEW S, S \subseteq Range(ev)
    PROVE  InOrder(ev, S) \in Seq(S) /\ Range(InOrder(ev, S)) = S
  <1>1. \A p : Only(p, S) \in Seq(S) /\ Range(Only(p, S)) = {p} \intersect S
    <2> TAKE p
    <2>1. CASE p \in S
      <3>1. Range(<<p>>) = {p}
        BY EventsAre
      <3> QED BY <2>1, <3>1 DEF Only
    <2>2. CASE p \notin S
      <3>1. Range(<<>>) = {}
        BY DEF Range
      <3> QED BY <2>2, <3>1 DEF Only
    <2> QED BY <2>1, <2>2
  <1>2. CASE \E p \in Path : ev = <<p>>
    <2>1. PICK p \in Path : ev = <<p>>
      BY <1>2
    <2>2. Range(<<p>>) = {p}
      BY EventsAre
    <2>3. ev[1] = p /\ Len(ev) = 1
      BY <2>1
    <2>4. InOrder(ev, S) = Only(p, S) \o <<>>
      BY <2>3 DEF InOrder
    <2>5. InOrder(ev, S) = Only(p, S)
      BY <2>4, <1>1, ConcatEmptySeq
    <2> QED BY <1>1, <2>1, <2>2, <2>5
  <1>3. CASE \E p \in File, q \in File : ev = <<p, q>>
    <2>1. PICK p \in File, q \in File : ev = <<p, q>>
      BY <1>3
    <2>2. Range(<<p, q>>) = {p, q}
      BY EventsAre
    <2>3. ev[1] = p /\ ev[2] = q /\ Len(ev) = 2
      BY <2>1
    <2>4. InOrder(ev, S) = Only(p, S) \o Only(q, S)
      BY <2>3 DEF InOrder
    <2>5. InOrder(ev, S) \in Seq(S)
      BY <2>4, <1>1, ConcatProperties
    <2>6. Range(InOrder(ev, S)) = Range(Only(p, S)) \union Range(Only(q, S))
      BY <2>4, <1>1, RangeConcatenation
    <2>7. S \subseteq {p, q}
      BY <2>1, <2>2
    <2>8. Range(InOrder(ev, S)) = ({p} \intersect S) \union ({q} \intersect S)
      BY <1>1, <2>6
    <2> QED BY <2>5, <2>7, <2>8
  <1> QED BY <1>2, <1>3 DEF Event

(* What fits in the channel.                                                  *)
LEMMA SentIs ==
    ASSUME NEW S, NEW q \in Seq(S), channel \in Seq(Path)
    PROVE  Sent(q) \in Seq(S)
  <1> DEFINE room == EmitCapacity - Len(channel)
             n == IF Len(q) < room THEN Len(q) ELSE room
  <1>1. Len(q) \in Nat /\ Len(channel) \in Nat /\ EmitCapacity \in Nat
    BY LenProperties, BoundsAssumption
  <1>2. n \in Int /\ n <= Len(q)
    BY <1>1
  <1>3. \A k \in 1..n : q[k] \in S
    BY <1>1, <1>2, ElementOfSeq
  <1>4. SubSeq(q, 1, n) \in Seq(S)
    BY <1>2, <1>3, SubSeqProperties
  <1> QED BY <1>4 DEF Sent

LEMMA WithIs ==
    ASSUME Files, NEW ev \in Event
    PROVE  /\ \A v : With(ev, v) \subseteq Range(ev)
           /\ Range(ev) \subseteq Path
           /\ With(ev, "directory") \subseteq Dir
           /\ \A d \in Dir : ev = <<d>> /\ fs[d] = "dir" => d \in With(ev, "directory")
  <1>1. \A v : With(ev, v) \subseteq Range(ev)
    BY DEF With, Looked, Range
  <1>2. Range(ev) \subseteq Path
    <2>1. CASE \E p \in Path : ev = <<p>>
      <3>1. PICK p \in Path : ev = <<p>>
        BY <2>1
      <3>2. Range(<<p>>) = {p}
        BY EventsAre
      <3> QED BY <3>1, <3>2
    <2>2. CASE \E p \in File, q \in File : ev = <<p, q>>
      <3>1. PICK p \in File, q \in File : ev = <<p, q>>
        BY <2>2
      <3>2. Range(<<p, q>>) = {p, q}
        BY EventsAre
      <3> QED BY <3>1, <3>2 DEF Path
    <2> QED BY <2>1, <2>2 DEF Event
  <1>3. \A p \in With(ev, "directory") : fs[p] = "dir"
    BY DEF With, Verdict
  <1>4. With(ev, "directory") \subseteq Dir
    BY <1>1, <1>2, <1>3, FilesAre DEF Files, Path
  <1>5. ASSUME NEW d \in Dir, ev = <<d>>, fs[d] = "dir" PROVE d \in With(ev, "directory")
    <2>1. 1 \in Looked(ev) /\ ev[1] = d
      BY <1>5 DEF Looked
    <2>2. Verdict(d) = "directory"
      BY <1>5 DEF Verdict
    <2> QED BY <2>1, <2>2 DEF With
  <1> QED BY <1>1, <1>2, <1>4, <1>5

LEMMA Handles ==
    ASSUME Inv, NEW ev \in raw, handle_event(ev)
    PROVE  Inv'
  <1> DEFINE dirs == InOrder(ev, With(ev, "directory"))
             sent == Sent(InOrder(ev, With(ev, "emit")))
  <1>1. /\ raw' = raw \ {ev} /\ commands' = commands \o dirs
        /\ throttled' = throttled \union With(ev, "emit") /\ channel' = channel \o sent
        /\ untold' = untold \ (Range(ev) \ Range(sent))
        /\ UNCHANGED <<fs, inotify, replaced, held, op, watched, walk, suppressed, env, clobbered>>
    BY DEF handle_event, Range
  <1>2. ev \in Event
    BY DEF Inv, Types, Files
  <1>3. dirs \in Seq(Dir) /\ Range(dirs) = With(ev, "directory")
    BY <1>2, WithIs, InOrderIs, SeqMonotonic DEF Inv, Types
  <1>4. sent \in Seq(Path)
    BY <1>2, WithIs, InOrderIs, SeqMonotonic, SentIs DEF Inv, Types, Worker
  <1> HIDE DEF dirs, sent
  <1>5. commands' \in Seq(Dir) /\ Range(commands') = Range(commands) \union Range(dirs)
    BY <1>1, <1>3, ConcatProperties, RangeConcatenation DEF Inv, Types, Worker
  <1>6. channel' \in Seq(Path) /\ Range(channel') = Range(channel) \union Range(sent)
    BY <1>1, <1>4, ConcatProperties, RangeConcatenation DEF Inv, Types, Worker
  <1>7. Files' /\ Worker' /\ Histories'
    BY <1>1, <1>2, <1>5, <1>6, WithIs DEF Inv, Types, Files, Worker, Histories
  <1>8. Telling'
    BY <1>1, <1>6 DEF Inv, Telling
  <1>9. Following'
    <2>1. Rooted(fs)' /\ Known' /\ Believed'
      BY <1>1 DEF Inv, Following, Rooted, Known, Believed, IsDir
    <2>2. \A d \in Dir : fs[d] = "dir" /\ Due(d) => Due(d)'
      BY <1>1, <1>2, <1>3, <1>5, WithIs DEF Inv, Types, Due
    <2>3. ASSUME NEW d \in Dir, IsDir(d)', d \notin (inotify \union replaced)'
          PROVE  Due(d)' \/ Parent[d] \notin inotify' \/ Due(Parent[d])'
      <3>1. fs[d] = "dir" /\ d \notin inotify \union replaced
        BY <1>1, <2>3, Paths DEF IsDir, Path
      <3>2. Due(d) \/ Parent[d] \notin inotify \/ Due(Parent[d])
        BY <3>1 DEF Inv, Following, Followed, IsDir
      <3>3. CASE Due(Parent[d])
        <4>1. CASE Parent[d] = Root
          BY <3>3, <4>1, DueIs, Paths DEF Inv, Types
        <4>2. CASE Parent[d] # Root
          <5>1. Parent[d] \in Dir /\ fs[Parent[d]] = "dir"
            BY <3>1, <4>2, Paths DEF Path, Inv, Following, Rooted, None
          <5> QED BY <2>2, <3>3, <5>1
        <4> QED BY <4>1, <4>2
      <3> QED BY <1>1, <2>2, <3>1, <3>2, <3>3
    <2> QED BY <2>1, <2>3 DEF Following, Followed
  <1> QED BY <1>1, <1>7, <1>8, <1>9, Frame DEF Inv, Types

LEMMA Emits ==
    ASSUME Inv, emit_loop
    PROVE  Inv'
  <1>1. /\ channel # <<>> /\ channel' = Tail(channel) /\ untold' = untold \ {Head(channel)}
        /\ UNCHANGED <<disk, fs, raw, held, op, env, worker, suppressed, throttled, clobbered>>
    BY DEF emit_loop, disk
  <1>2. channel' \in Seq(Path) /\ Range(channel) = {Head(channel)} \union Range(channel')
    BY <1>1, HeadAndTail DEF Inv, Types, Worker
  <1>3. Worker' /\ Histories'
    BY <1>1, <1>2 DEF Inv, Types, Worker, Histories, worker
  <1>4. Telling'
    BY <1>1, <1>2 DEF Inv, Telling
  <1> QED BY <1>1, <1>3, <1>4, Frame DEF Inv, Types

LEMMA Takes ==
    ASSUME Inv, worker_loop
    PROVE  Inv'
  <1>1. /\ walk = <<>> /\ commands # <<>> /\ commands' = Tail(commands) /\ walk' = <<Head(commands)>>
        /\ UNCHANGED <<disk, fs, raw, inotify, replaced, held, op, env, watched, suppressed, throttled,
                       channel, untold, clobbered>>
    BY DEF worker_loop, disk
  <1>2. /\ Head(commands) \in Dir /\ commands' \in Seq(Dir)
        /\ Range(commands) = {Head(commands)} \union Range(commands')
    BY <1>1, HeadAndTail DEF Inv, Types, Worker
  <1>3. walk' \in Seq(Dir) /\ Range(walk') = {Head(commands)}
    <2>1. Range(<<Head(commands)>>) = {Head(commands)}
      BY EventsAre
    <2> QED BY <1>1, <1>2, <2>1
  <1>4. Range(walk) = {}
    BY <1>1 DEF Range
  <1>5. Worker'
    BY <1>1, <1>2, <1>3 DEF Inv, Types, Worker
  <1>6. \A d : Due(d) => Due(d)'
    BY <1>1, <1>2, <1>3, <1>4 DEF Due
  <1>7. Following'
    BY <1>1, <1>6 DEF Inv, Following, Rooted, Known, Believed, Followed, IsDir
  <1> QED BY <1>1, <1>5, <1>7, Frame DEF Inv, Types

(* The order in which the entries of a directory are read.                    *)
LEMMA OrdersAre ==
    ASSUME NEW S \in SUBSET Dir, NEW q \in Orders(S)
    PROVE  q \in Seq(Dir) /\ Range(q) = S
  <1>1. Cardinality(S) \in Nat
    BY TreeAssumption, FS_Subset, FS_CardinalityType
  <1>2. q \in [1..Cardinality(S) -> S] /\ \A e \in S : \E n \in DOMAIN q : q[n] = e
    BY DEF Orders
  <1>3. q \in Seq(Dir)
    BY <1>1, <1>2, SeqDef
  <1>4. Range(q) = S
    BY <1>2 DEF Range
  <1> QED BY <1>3, <1>4

LEMMA Walks ==
    ASSUME Inv, walk_dirs
    PROVE  Inv'
  <1> DEFINE d == Head(walk)
  <1>1. /\ walk # <<>>
        /\ UNCHANGED <<fs, raw, replaced, held, op, commands, suppressed, throttled, channel, env,
                       untold, clobbered>>
    BY DEF walk_dirs
  <1>2. d \in Dir /\ Tail(walk) \in Seq(Dir) /\ Range(walk) = {d} \union Range(Tail(walk))
    BY <1>1, HeadAndTail DEF Inv, Types, Worker
  <1>3. CASE IsDir(d) /\ d \notin watched
    <2>1. watched' = watched \union {d} /\ inotify' = inotify \union {d} /\ walk' = walk
      BY <1>3 DEF walk_dirs
    <2>2. Files' /\ Worker'
      BY <1>1, <1>2, <2>1 DEF Inv, Types, Files, Worker
    <2>3. \A e : Due(e)' <=> Due(e)
      BY <1>1, <2>1 DEF Due
    <2>4. Due(d)
      BY <1>2 DEF Due
    <2>5. Following'
      BY <1>1, <1>2, <1>3, <2>1, <2>3, <2>4
         DEF Inv, Following, Rooted, Known, Believed, Followed, IsDir
    <2> QED BY <1>1, <2>2, <2>5, Frame DEF Inv, Types
  <1>4. CASE ~(IsDir(d) /\ d \notin watched)
    <2>1. PICK order \in Orders(Subdirs(d)) :
              walk' = order \o Tail(walk) /\ watched' = watched /\ inotify' = inotify
      BY <1>4 DEF walk_dirs
    <2>2. order \in Seq(Dir) /\ Range(order) = Subdirs(d)
      BY OrdersAre DEF Subdirs
    <2>3. walk' \in Seq(Dir) /\ Range(walk') = Subdirs(d) \union Range(Tail(walk))
      <3> DEFINE rest == Tail(walk)
      <3>1. rest \in Seq(Dir)
        BY <1>2
      <3> HIDE DEF rest
      <3>2. order \o rest \in Seq(Dir) /\ Range(order \o rest) = Range(order) \union Range(rest)
        BY <2>2, <3>1, ConcatProperties, RangeConcatenation
      <3> QED BY <2>1, <2>2, <3>2 DEF rest
    <2>4. Files' /\ Worker'
      BY <1>1, <2>1, <2>3 DEF Inv, Types, Files, Worker
    <2>5. \A e : e # d /\ Due(e) => Due(e)'
      BY <1>1, <1>2, <2>3 DEF Due
    <2>6. \A e \in Subdirs(d) : Due(e)'
      BY <2>3 DEF Due
    <2>7. ASSUME NEW e \in Dir, IsDir(e)', e \notin (inotify \union replaced)'
          PROVE  Due(e)' \/ Parent[e] \notin inotify' \/ Due(Parent[e])'
      <3>1. IsDir(e) /\ e \notin inotify \union replaced
        BY <1>1, <2>1, <2>7 DEF IsDir
      <3>2. Due(e) \/ Parent[e] \notin inotify \/ Due(Parent[e])
        BY <3>1 DEF Inv, Following, Followed
      <3>3. e # d
        BY <1>4, <3>1 DEF Inv, Following, Believed
      <3>4. CASE Parent[e] = d
        BY <2>6, <3>1, <3>4 DEF Subdirs
      <3>5. CASE Parent[e] # d
        BY <2>1, <2>5, <3>2, <3>3, <3>5
      <3> QED BY <3>4, <3>5
    <2>8. Following'
      BY <1>1, <2>1, <2>7 DEF Inv, Following, Rooted, Known, Believed, Followed, IsDir
    <2> QED BY <1>1, <2>1, <2>4, <2>8, Frame DEF Inv, Types
  <1> QED BY <1>3, <1>4

LEMMA Lapses ==
    ASSUME Inv, NEW p \in Path, Lapse(p)
    PROVE  Inv'
  <1>1. UNCHANGED <<disk, fs, raw, held, op, env, worker, channel, untold, clobbered>>
    BY DEF Lapse, disk
  <1>2. suppressed' \subseteq suppressed /\ throttled' \subseteq throttled
    BY DEF Lapse
  <1>3. Worker'
    BY <1>1, <1>2 DEF Inv, Types, Worker, worker
  <1> QED BY <1>1, <1>3, Frame DEF Inv, Types

(* The invariant of WorkspaceFiles is inductive.                              *)
LEMMA Initially == Init => Inv
  <1> SUFFICES ASSUME Init PROVE Inv
    OBVIOUS
  <1>1. /\ fs \in [Path -> Content \union {"dir", None}] /\ \A p \in File : fs[p] # "dir"
        /\ \A d \in Dir : fs[d] \in {"dir", None}
        /\ \A p \in Path : fs[p] # None /\ Parent[p] # Root => fs[Parent[p]] = "dir"
    BY TreeAssumption DEF Init
  <1>2. fs \in FileSystem
    BY <1>1 DEF FileSystem
  <1>3. Files
    BY <1>2 DEF Init, Files
  <1>4. Operations
    BY BoundsAssumption DEF Init, Operations, OpsFit
  <1>5. Worker /\ Histories
    BY DEF Init, Worker, Histories
  <1>6. Unclobbered
    BY DEF Init, Unclobbered, Untouched, NoOp
  <1>7. Following
    BY <1>1 DEF Init, Following, Rooted, Known, Believed, Followed, IsDir
  <1>8. Telling
    BY DEF Init, Telling
  <1> QED BY <1>3, <1>4, <1>5, <1>6, <1>7, <1>8 DEF Inv, Types

LEMMA Steps == Inv /\ [Next]_vars => Inv'
  <1> SUFFICES ASSUME Inv, [Next]_vars PROVE Inv'
    OBVIOUS
  <1>1. CASE UNCHANGED vars
    <2>1. UNCHANGED <<disk, watcher, worker, fs, raw, channel, held, op, env, untold, clobbered>>
      BY <1>1 DEF vars, disk, watcher, worker
    <2> QED BY <2>1, Frame DEF Inv, Types
  <1>2. CASE Next
    BY <1>2, Reads, Begins, Acts, Notes, Drops, Externals, Handles, Emits, Takes, Walks, Lapses
       DEF Next
  <1> QED BY <1>1, <1>2

(* A request that carries a revision never replaces what its device has not    *)
(* seen, nor a rename a file that was there, unless the change fell between    *)
(* the check and the write (save_file, rename_path): no step leaves an         *)
(* operation in "clobbered".                                                   *)
THEOREM RevisionsProtect == Spec => []OnlyRacesClobber
  <1>1. Inv => OnlyRacesClobber
    BY DEF Inv, Unclobbered, OnlyRacesClobber
  <1> QED BY <1>1, Initially, Steps, PTL DEF Spec

(* With nothing left to carry out, a directory that the kernel does not report *)
(* on would lie in another of that kind, and so on to the root.                *)
LEMMA AtRest == Inv => ChangesAreTold
  <1> SUFFICES ASSUME Inv PROVE ChangesAreTold
    OBVIOUS
  <1>1. raw = {} /\ channel = <<>> => untold = {}
    BY DEF Inv, Telling, Range
  <1>2. ASSUME raw = {}, commands = <<>>, walk = <<>>, NEW d \in Dir, IsDir(d),
               d \notin inotify, Line[d] \intersect replaced = {}
        PROVE  FALSE
    <2> DEFINE S == Line[d] \ inotify
               There == {e \in Dir : IsDir(e)}
    <2>1. S \in SUBSET Dir /\ d \in S
      BY <1>2, LineIs
    <2>2. Line[d] \subseteq There
      <3>1. \A e \in There : Parent[e] \in There \union {Root}
        BY Paths DEF Inv, Following, Rooted, IsDir, Path, None
      <3> QED BY <1>2, <3>1 DEF Line
    <2>3. PICK e \in S : Parent[e] \notin S
      BY <2>1, TreeAssumption
    <2>4. Parent[e] \notin inotify
      <3>1. \A x : ~Due(x)
        BY <1>2 DEF Due, Range
      <3> QED BY <1>2, <2>1, <2>2, <3>1 DEF Inv, Following, Followed
    <2>5. Parent[e] \in Line[d]
      BY <2>4, LineIs DEF Inv, Types, Files
    <2> QED BY <2>3, <2>4, <2>5
  <1> QED BY <1>1, <1>2 DEF ChangesAreTold, WatchedAtRest

(* Once the debouncer and the channel are empty, every change from outside was *)
(* told to the devices, and every directory that exists is watched except      *)
(* where one was deleted and made again (worker_loop, handle_event): for any   *)
(* depth of the tree.                                                          *)
THEOREM ChangesTold == Spec => []ChangesAreTold
  BY Initially, Steps, AtRest, PTL DEF Spec

------------------------------------------------------------------------------
(* The registry: Workspaces                                                    *)

Saved == {Registry!NoTabs} \union {Registry!validated(t) : t \in TabInputs}
(* A request under way, and the steps those of its kind go through.            *)
Places(o) ==
    /\ o = [kind |-> o.kind, w |-> o.w, value |-> o.value, snapshot |-> o.snapshot, pc |-> o.pc]
    /\ o.w \in Ws /\ o.kind \in {"register", "remove", "trust", "tabs"}
    /\ o.pc \in {"registry", "roots", "send", "load", "save", "config"}
    /\ o.kind = "register" => o.pc \in {"registry", "roots", "send", "config"}
    /\ o.kind = "remove" => o.value = Registry!NoTabs
    /\ o.kind = "trust" => o.pc = "config"
    /\ o.kind = "tabs" => o.pc \in {"load", "save"} /\ o.value \in Saved
    /\ o.pc = "save" => o.snapshot \in [Ws -> Saved]
OpsOK == \A i \in Registry!Op : call[i] = Registry!NoOp \/ Places(call[i])
Command == [kind : {"register", "remove"}, w : Ws]
RegistryTypes ==
    /\ registry \in [Ws -> {Registry!None, "available", "unavailable"}]
    /\ roots \in SUBSET Ws /\ queue \in Seq(Command)
    /\ tabsFile \in [Ws -> Saved] /\ saved \in [Ws -> Saved]
    /\ call = [i \in Registry!Op |-> call[i]] /\ OpsOK
    /\ counts \in [ops : Nat, faults : Nat]
    /\ mixed \in BOOLEAN
    /\ raced \in SUBSET Ws /\ shadowed \in SUBSET Ws

(* Two requests on one workspace at a time are a race.                         *)
Alone == \A i, j \in Registry!Busy : call[i].w = call[j].w /\ call[i].w \notin raced => i = j

(* As long as no two saves overlapped, the one that is about to write read     *)
(* what the file holds.                                                        *)
Undisturbed ==
    ~mixed => /\ \A i, j \in Registry!Saving : i = j
              /\ \A i \in Registry!Saving : call[i].snapshot = tabsFile
              /\ tabsFile = saved

(* A workspace that is not registered has no tabs, or its removal has them     *)
(* still before it, and nobody is saving some for it.                          *)
Clearing(w) ==
    \E i \in Registry!Busy : /\ call[i].w = w /\ call[i].kind = "remove"
                             /\ call[i].pc \in {"roots", "send", "load", "save"}
Cleared ==
    ~mixed /\ counts.faults = 0 =>
        \A w \in Ws \ raced :
            /\ Registry!Registered(w) \/ saved[w] = Registry!NoTabs \/ Clearing(w)
            /\ \A i \in Registry!Busy : call[i].w = w /\ call[i].kind = "tabs" => Registry!Registered(w)

(* The last command about a workspace; there is none; a request is about to    *)
(* send one.                                                                   *)
LastIs(kind, w) == \E n \in DOMAIN queue : /\ queue[n] = [kind |-> kind, w |-> w]
                                           /\ \A m \in DOMAIN queue : m > n => queue[m].w # w
NoneOf(w) == \A n \in DOMAIN queue : queue[n].w # w
Sending(kind, w) == \E i \in Registry!Busy : call[i].w = w /\ call[i].kind = kind /\ call[i].pc = "send"
(* The command that will be carried out last about a workspace agrees with     *)
(* the roots, and when there is none, with what is watched.                    *)
RootsFollow ==
    \A w \in Ws \ raced :
        /\ Sending("register", w) => w \in roots
        /\ Sending("remove", w) => w \notin roots
        /\ w \in roots => \/ Sending("register", w) \/ LastIs("register", w)
                          \/ NoneOf(w) /\ (Covers[w] \subseteq reported \/ w \in shadowed)
        /\ w \notin roots => Sending("remove", w) \/ LastIs("remove", w) \/ NoneOf(w)
(* A directory is watched for a workspace that is a root or whose removal has  *)
(* yet to be carried out.                                                      *)
Reasons ==
    raced = {} => \A x \in reported : \E w \in Ws :
        x \in Covers[w] /\ (w \in roots \/ LastIs("remove", w) \/ Sending("remove", w))
(* The inductive invariant of Workspaces.                                      *)
RegistryInv == RegistryTypes /\ Alone /\ Undisturbed /\ Cleared /\ RootsFollow /\ Reasons

(* A request goes on, or is over.                                             *)
LEMMA GotoIs ==
    ASSUME RegistryTypes, NEW i \in Registry!Op, call[i].pc # "free", NEW pc, Registry!Goto(i, pc)
    PROVE  /\ Places(call[i]) /\ call' = [j \in Registry!Op |-> call'[j]]
           /\ call'[i] = [kind |-> call[i].kind, w |-> call[i].w, value |-> call[i].value,
                        snapshot |-> call[i].snapshot, pc |-> pc]
           /\ \A j \in Registry!Op \ {i} : call'[j] = call[j]
  <1>1. Places(call[i])
    BY DEF RegistryTypes, OpsOK, Registry!NoOp
  <1> DEFINE r == call[i]
  <1>2. r = [kind |-> r.kind, w |-> r.w, value |-> r.value, snapshot |-> r.snapshot, pc |-> r.pc]
    BY <1>1 DEF Places
  <1>3. call' = [call EXCEPT ![i] = [r EXCEPT !.pc = pc]]
    BY DEF Registry!Goto
  <1>4. [r EXCEPT !.pc = pc] = [kind |-> r.kind, w |-> r.w, value |-> r.value, snapshot |-> r.snapshot, pc |-> pc]
    BY <1>2
  <1> HIDE DEF r
  <1>5. call = [j \in Registry!Op |-> call[j]]
    BY DEF RegistryTypes
  <1> QED BY <1>1, <1>3, <1>4, <1>5 DEF r

LEMMA FinishIs ==
    ASSUME RegistryTypes, NEW i \in Registry!Op, call[i].pc # "free", Registry!Finish(i)
    PROVE  /\ Places(call[i]) /\ call' = [j \in Registry!Op |-> call'[j]]
           /\ call'[i] = Registry!NoOp
           /\ \A j \in Registry!Op \ {i} : call'[j] = call[j]
  <1>1. Places(call[i])
    BY DEF RegistryTypes, OpsOK, Registry!NoOp
  <1>5. call = [j \in Registry!Op |-> call[j]]
    BY DEF RegistryTypes
  <1> QED BY <1>1, <1>5 DEF Registry!Finish

Others(i) == call' = [j \in Registry!Op |-> call'[j]] /\ \A j \in Registry!Op \ {i} : call'[j] = call[j]
Became(i, pc, snapshot) ==
    call'[i] = [kind |-> call[i].kind, w |-> call[i].w, value |-> call[i].value, snapshot |-> snapshot, pc |-> pc]

(* What each action does to its request.                                       *)
LEMMA Moves ==
    ASSUME RegistryTypes, NEW i \in Registry!Op
    PROVE  /\ Registry!insert(i) => Others(i) /\ Became(i, "roots", call[i].snapshot) /\ Places(call[i])
           /\ Registry!remove(i) => Others(i) /\ Places(call[i]) /\
                 IF Registry!Registered(call[i].w)
                 THEN Became(i, "roots", call[i].snapshot) ELSE call'[i] = Registry!NoOp
           /\ Registry!add_root(i) => Others(i) /\ Became(i, "send", call[i].snapshot) /\ Places(call[i])
           /\ Registry!remove_root(i) => Others(i) /\ Places(call[i]) /\
                 Became(i, IF call[i].w \in roots THEN "send" ELSE "load", call[i].snapshot)
           /\ Registry!send(i) => Others(i) /\ Places(call[i]) /\
                 Became(i, IF call[i].kind = "register" THEN "config" ELSE "load", call[i].snapshot)
           /\ Registry!load_all(i) => Others(i) /\ Places(call[i]) /\ Became(i, "save", tabsFile)
           /\ Registry!save(i) \/ Registry!save_fails(i) => Others(i) /\ Places(call[i]) /\
                 IF call[i].kind = "remove" THEN Became(i, "config", call[i].snapshot) ELSE call'[i] = Registry!NoOp
           /\ Registry!persist(i) \/ Registry!persist_fails(i) =>
                 Others(i) /\ Places(call[i]) /\ call'[i] = Registry!NoOp
  <1>1. ASSUME Registry!insert(i)
        PROVE  Others(i) /\ Became(i, "roots", call[i].snapshot) /\ Places(call[i])
    BY <1>1, GotoIs DEF Registry!insert, Registry!At, Others, Became
  <1>2. ASSUME Registry!remove(i)
        PROVE  Others(i) /\ Places(call[i]) /\
                 IF Registry!Registered(call[i].w)
                 THEN Became(i, "roots", call[i].snapshot) ELSE call'[i] = Registry!NoOp
    BY <1>2, GotoIs, FinishIs DEF Registry!remove, Registry!At, Others, Became
  <1>3. ASSUME Registry!add_root(i)
        PROVE  Others(i) /\ Became(i, "send", call[i].snapshot) /\ Places(call[i])
    BY <1>3, GotoIs DEF Registry!add_root, Registry!At, Others, Became
  <1>4. ASSUME Registry!remove_root(i)
        PROVE  Others(i) /\ Places(call[i]) /\
                 Became(i, IF call[i].w \in roots THEN "send" ELSE "load", call[i].snapshot)
    BY <1>4, GotoIs DEF Registry!remove_root, Registry!At, Others, Became
  <1>5. ASSUME Registry!send(i)
        PROVE  Others(i) /\ Places(call[i]) /\
                 Became(i, IF call[i].kind = "register" THEN "config" ELSE "load", call[i].snapshot)
    BY <1>5, GotoIs DEF Registry!send, Others, Became
  <1>6. ASSUME Registry!load_all(i)
        PROVE  Others(i) /\ Places(call[i]) /\ Became(i, "save", tabsFile)
    <2> DEFINE r == call[i]
    <2>1. Places(r)
      BY <1>6 DEF Registry!load_all, RegistryTypes, OpsOK, Registry!NoOp
    <2>2. r = [kind |-> r.kind, w |-> r.w, value |-> r.value, snapshot |-> r.snapshot, pc |-> r.pc]
      BY <2>1 DEF Places
    <2>3. call' = [call EXCEPT ![i] = [r EXCEPT !.snapshot = tabsFile, !.pc = "save"]]
      BY <1>6, <2>2 DEF Registry!load_all, RegistryTypes
    <2> HIDE DEF r
    <2> DEFINE y == [r EXCEPT !.snapshot = tabsFile]
    <2>4. y = [kind |-> r.kind, w |-> r.w, value |-> r.value, snapshot |-> tabsFile, pc |-> r.pc]
      BY <2>2
    <2>6. [r EXCEPT !.snapshot = tabsFile, !.pc = "save"] = [y EXCEPT !.pc = "save"]
      OBVIOUS
    <2> HIDE DEF y
    <2>7. [y EXCEPT !.pc = "save"] = [kind |-> r.kind, w |-> r.w, value |-> r.value, snapshot |-> tabsFile, pc |-> "save"]
      BY <2>4
    <2>5. call = [j \in Registry!Op |-> call[j]]
      BY DEF RegistryTypes
    <2> QED BY <2>1, <2>3, <2>5, <2>6, <2>7 DEF r, Others, Became
  <1>7. ASSUME Registry!save(i) \/ Registry!save_fails(i) PROVE Others(i) /\ Places(call[i]) /\
                 IF call[i].kind = "remove" THEN Became(i, "config", call[i].snapshot) ELSE call'[i] = Registry!NoOp
    BY <1>7, GotoIs, FinishIs
       DEF Registry!save, Registry!save_fails, Registry!After, Others, Became
  <1>8. ASSUME Registry!persist(i) \/ Registry!persist_fails(i)
        PROVE  Others(i) /\ Places(call[i]) /\ call'[i] = Registry!NoOp
    BY <1>8, FinishIs DEF Registry!persist, Registry!persist_fails, Others
  <1> QED BY <1>1, <1>2, <1>3, <1>4, <1>5, <1>6, <1>7, <1>8

(* The steps of a request, and the requests there are.                         *)
Work(i) ==
    \/ Registry!insert(i) \/ Registry!remove(i) \/ Registry!add_root(i) \/ Registry!remove_root(i)
    \/ Registry!send(i) \/ Registry!load_all(i) \/ Registry!save(i) \/ Registry!save_fails(i)
    \/ Registry!persist(i) \/ Registry!persist_fails(i)
Asking(w) ==
    \/ Registry!register_workspace(w) \/ Registry!remove_workspace(w)
    \/ Registry!set_workspace_trust(w) \/ Registry!put_workspace_tabs(w)

Starts(i, w) ==
    /\ call[i].pc = "free" /\ Others(i)
    /\ Places(call'[i]) /\ call'[i].w = w /\ call'[i].pc \notin {"save", "send"}
    /\ call'[i].kind = "tabs" => Registry!Registered(w)

LEMMA AskingIs ==
    ASSUME RegistryTypes, NEW w \in Ws, Asking(w)
    PROVE  /\ \E i \in Registry!Op : Starts(i, w)
           /\ raced' = (IF \E i \in Registry!Busy : call[i].w = w THEN raced \union {w} ELSE raced)
           /\ counts' \in [ops : Nat, faults : Nat] /\ counts'.faults = counts.faults
           /\ UNCHANGED <<folder, registry, roots, queue, reported, shadowed, tabsFile, saved, mixed>>
  <1> DEFINE Fine(o) == /\ Places(o) /\ o.w = w /\ o.pc \notin {"save", "send"}
                        /\ o.kind = "tabs" => Registry!Registered(w)
  <1>1. \E o : Registry!Begin(o) /\ Fine(o)
    <2>1. CASE Registry!register_workspace(w)
      BY <2>1 DEF Registry!register_workspace, Registry!Request, Places
    <2>2. CASE Registry!remove_workspace(w)
      BY <2>2 DEF Registry!remove_workspace, Registry!Request, Places
    <2>3. CASE Registry!set_workspace_trust(w)
      <3>1. PICK t \in BOOLEAN : Registry!Begin([Registry!Request("trust", w, t) EXCEPT !.pc = "config"])
        BY <2>3 DEF Registry!set_workspace_trust
      <3>2. Fine([Registry!Request("trust", w, t) EXCEPT !.pc = "config"])
        BY DEF Registry!Request, Places
      <3> QED BY <3>1, <3>2
    <2>4. CASE Registry!put_workspace_tabs(w)
      <3>1. PICK t \in TabInputs :
                  Registry!Registered(w) /\ Registry!Begin([Registry!Request("tabs", w, Registry!validated(t)) EXCEPT !.pc = "load"])
        BY <2>4 DEF Registry!put_workspace_tabs
      <3>2. Fine([Registry!Request("tabs", w, Registry!validated(t)) EXCEPT !.pc = "load"])
        BY <3>1 DEF Registry!Request, Places, Saved
      <3> QED BY <3>1, <3>2
    <2> QED BY <2>1, <2>2, <2>3, <2>4 DEF Asking
  <1>2. PICK o : Registry!Begin(o) /\ Fine(o)
    BY <1>1
  <1>3. PICK i \in Registry!Op : call[i].pc = "free" /\ call' = [call EXCEPT ![i] = o]
    BY <1>2 DEF Registry!Begin
  <1>4. call = [j \in Registry!Op |-> call[j]]
    BY DEF RegistryTypes
  <1> HIDE DEF Fine
  <1>5. call'[i] = o /\ Others(i)
    BY <1>3, <1>4 DEF Others
  <1>6. Fine(o)
    BY <1>2
  <1>7. raced' = (IF \E j \in Registry!Busy : call[j].w = o.w THEN raced \union {o.w} ELSE raced)
        /\ UNCHANGED <<folder, registry, roots, queue, reported, shadowed, tabsFile, saved, mixed>>
    BY <1>2 DEF Registry!Begin, Registry!watcher, Registry!tabs
  <1>8. counts' \in [ops : Nat, faults : Nat] /\ counts'.faults = counts.faults
    <2>1. counts' = [counts EXCEPT !.ops = @ + 1]
      BY <1>2 DEF Registry!Begin
    <2>2. counts \in [ops : Nat, faults : Nat]
      BY DEF RegistryTypes
    <2> QED BY <2>1, <2>2
  <1> QED BY <1>3, <1>5, <1>6, <1>7, <1>8 DEF Fine, Starts

(* What stays of the requests, the counts and the stores.                     *)
LEMMA OpsStay ==
    ASSUME RegistryTypes, NEW i \in Registry!Op, Others(i), call'[i] = Registry!NoOp \/ Places(call'[i])
    PROVE  call' = [j \in Registry!Op |-> call'[j]] /\ OpsOK'
  BY DEF Others, RegistryTypes, OpsOK

LEMMA BecameIs ==
    ASSUME NEW i \in Registry!Op, NEW pc, NEW snapshot, Became(i, pc, snapshot)
    PROVE  /\ call'[i].kind = call[i].kind /\ call'[i].w = call[i].w /\ call'[i].value = call[i].value
           /\ call'[i].pc = pc /\ call'[i].snapshot = snapshot
           /\ /\ Places(call[i])
              /\ pc \in {"roots", "send", "config"} => call[i].kind \in {"register", "remove"}
              /\ pc \in {"load", "save"} => call[i].kind \in {"remove", "tabs"}
              /\ pc \in {"roots", "send", "load", "save", "config"}
              /\ pc = "save" => snapshot \in [Ws -> Saved]
              => Places(call'[i])
  <1> DEFINE r == call'[i]
  <1>1. r = [kind |-> call[i].kind, w |-> call[i].w, value |-> call[i].value, snapshot |-> snapshot, pc |-> pc]
    BY DEF Became
  <1>2. /\ r.kind = call[i].kind /\ r.w = call[i].w /\ r.value = call[i].value
        /\ r.pc = pc /\ r.snapshot = snapshot
    BY <1>1
  <1> HIDE DEF r
  <1>3. r = [kind |-> r.kind, w |-> r.w, value |-> r.value, snapshot |-> r.snapshot, pc |-> r.pc]
    BY <1>1, <1>2
  <1> QED BY <1>2, <1>3 DEF Places, r

LEMMA CountsStay ==
    /\ RegistryTypes /\ UNCHANGED counts => counts' \in [ops : Nat, faults : Nat]
    /\ RegistryTypes /\ Registry!Fault => /\ counts' \in [ops : Nat, faults : Nat]
                                          /\ counts'.faults # 0
  <1>1. ASSUME RegistryTypes, Registry!Fault
        PROVE  counts' \in [ops : Nat, faults : Nat] /\ counts'.faults # 0
    <2>1. counts' = [counts EXCEPT !.faults = @ + 1]
      BY <1>1 DEF Registry!Fault
    <2>2. counts \in [ops : Nat, faults : Nat]
      BY <1>1 DEF RegistryTypes
    <2> QED BY <2>1, <2>2
  <1> QED BY <1>1 DEF RegistryTypes

StoresOK == 
    /\ registry \in [Ws -> {Registry!None, "available", "unavailable"}]
    /\ roots \in SUBSET Ws /\ queue \in Seq(Command)
    /\ tabsFile \in [Ws -> Saved] /\ saved \in [Ws -> Saved]
    /\ mixed \in BOOLEAN
    /\ raced \in SUBSET Ws /\ shadowed \in SUBSET Ws

LEMMA StoresStay ==
    /\ RegistryTypes => StoresOK
    /\ RegistryTypes /\ UNCHANGED <<registry, roots, queue, tabsFile, saved, mixed, raced, shadowed>> => StoresOK'
    /\ /\ StoresOK' /\ call' = [j \in Registry!Op |-> call'[j]] /\ OpsOK'
       /\ counts' \in [ops : Nat, faults : Nat]
       => RegistryTypes'
  BY DEF RegistryTypes, StoresOK

(* Types are kept.                                                            *)
LEMMA WorkTypes ==
    ASSUME RegistryTypes, NEW i \in Registry!Op, Work(i)
    PROVE  RegistryTypes'
  <1> DEFINE o == call[i]
  <1>0. Others(i) /\ Places(o)
    BY Moves DEF Work
  <1>1. counts' \in [ops : Nat, faults : Nat]
    BY CountsStay
       DEF Work, Registry!insert, Registry!remove, Registry!add_root, Registry!remove_root,
           Registry!send, Registry!load_all, Registry!save, Registry!save_fails,
           Registry!persist, Registry!persist_fails
  <1>2. call'[i] = Registry!NoOp \/ Places(call'[i])
    <2>1. CASE Registry!insert(i)
      BY <1>0, <2>1, Moves, BecameIs DEF Places, Registry!insert, Registry!At
    <2>2. CASE Registry!remove(i)
      BY <1>0, <2>2, Moves, BecameIs DEF Places, Registry!remove, Registry!At
    <2>3. CASE Registry!add_root(i)
      BY <1>0, <2>3, Moves, BecameIs DEF Places, Registry!add_root, Registry!At
    <2>4. CASE Registry!remove_root(i)
      BY <1>0, <2>4, Moves, BecameIs DEF Places, Registry!remove_root, Registry!At
    <2>5. CASE Registry!send(i)
      <3>1. o.kind \in {"register", "remove"}
        BY <1>0, <2>5 DEF Places, Registry!send
      <3>2. CASE o.kind = "register"
        <4>1. Became(i, "config", o.snapshot)
          BY <2>5, <3>2, Moves
        <4> QED BY <1>0, <3>1, <4>1, BecameIs
      <3>3. CASE o.kind = "remove"
        <4>1. Became(i, "load", o.snapshot)
          BY <2>5, <3>3, Moves
        <4> QED BY <1>0, <3>3, <4>1, BecameIs
      <3> QED BY <3>1, <3>2, <3>3
    <2>6. CASE Registry!load_all(i)
      <3>1. Became(i, "save", tabsFile) /\ tabsFile \in [Ws -> Saved]
        BY <2>6, Moves DEF RegistryTypes
      <3>2. o.kind \in {"remove", "tabs"}
        BY <1>0, <2>6 DEF Places, Registry!load_all
      <3> QED BY <1>0, <3>1, <3>2, BecameIs
    <2>7. CASE Registry!save(i) \/ Registry!save_fails(i)
      <3>1. CASE o.kind = "remove"
        <4>1. Became(i, "config", o.snapshot)
          BY <2>7, <3>1, Moves
        <4> QED BY <1>0, <3>1, <4>1, BecameIs
      <3>2. CASE o.kind # "remove"
        BY <2>7, <3>2, Moves
      <3> QED BY <3>1, <3>2
    <2>8. CASE Registry!persist(i) \/ Registry!persist_fails(i)
      BY <2>8, Moves
    <2> QED BY <2>1, <2>2, <2>3, <2>4, <2>5, <2>6, <2>7, <2>8 DEF Work
  <1>3. call' = [j \in Registry!Op |-> call'[j]] /\ OpsOK'
    BY <1>0, <1>2, OpsStay
  <1>4. StoresOK'
    <2>0. StoresOK
      BY StoresStay
    <2>1. CASE Registry!insert(i) \/ Registry!remove(i)
      BY <1>0, <2>0, <2>1
         DEF Registry!insert, Registry!remove, StoresOK, Registry!watcher, Registry!tabs
    <2>2. CASE Registry!add_root(i) \/ Registry!remove_root(i)
      BY <1>0, <2>0, <2>2
         DEF Registry!add_root, Registry!remove_root, StoresOK, Registry!tabs, Places
    <2>3. CASE Registry!send(i)
      <3>1. o.kind \in {"register", "remove"}
        BY <1>0, <2>3 DEF Registry!send, Places
      <3>2. queue' \in Seq(Command)
        BY <1>0, <2>0, <2>3, <3>1, AppendProperties DEF Registry!send, StoresOK, Places, Command
      <3> QED BY <2>0, <2>3, <3>2 DEF Registry!send, StoresOK, Registry!tabs
    <2>4. CASE Registry!load_all(i)
      BY <2>0, <2>4 DEF Registry!load_all, StoresOK, Registry!watcher
    <2>5. CASE Registry!save(i)
      <3>1. o.value \in Saved /\ o.snapshot \in [Ws -> Saved] /\ o.w \in Ws
        BY <1>0, <2>5 DEF Registry!save, Places, Saved
      <3> QED BY <2>0, <2>5, <3>1
                 DEF Registry!save, Registry!Replaced, StoresOK, Registry!watcher
    <2>6. CASE Registry!save_fails(i) \/ Registry!persist(i) \/ Registry!persist_fails(i)
      BY <2>0, <2>6
         DEF Registry!save_fails, Registry!persist, Registry!persist_fails, StoresOK,
             Registry!watcher, Registry!tabs
    <2> QED BY <2>1, <2>2, <2>3, <2>4, <2>5, <2>6 DEF Work
  <1> QED BY <1>1, <1>3, <1>4, StoresStay

LEMMA AskingTypes ==
    ASSUME RegistryTypes, NEW w \in Ws, Asking(w)
    PROVE  RegistryTypes'
  <1>1. call' = [j \in Registry!Op |-> call'[j]] /\ OpsOK'
    <2>1. PICK i \in Registry!Op : Starts(i, w)
      BY AskingIs
    <2> QED BY <2>1, OpsStay DEF Starts
  <1>2. StoresOK'
    BY AskingIs, StoresStay DEF StoresOK
  <1> QED BY <1>1, <1>2, AskingIs, StoresStay

LEMMA WorkerTypes ==
    ASSUME RegistryTypes, Registry!worker_loop
    PROVE  RegistryTypes'
  <1>1. queue # <<>> /\ queue' = Tail(queue) /\ queue \in Seq(Command)
    BY DEF Registry!worker_loop, RegistryTypes
  <1>2. queue' \in Seq(Command) /\ Head(queue) \in Command
    BY <1>1, HeadTailProperties
  <1>3. shadowed' \in SUBSET Ws
    BY <1>2
       DEF Registry!worker_loop, Registry!add_tree, Registry!remove_tree, RegistryTypes, Command
  <1> QED BY <1>2, <1>3 DEF Registry!worker_loop, RegistryTypes, OpsOK, Registry!tabs

LEMMA FolderTypes ==
    ASSUME RegistryTypes, NEW w \in Ws, Registry!FolderChanges(w)
    PROVE  RegistryTypes'
  <1>1. counts' \in [ops : Nat, faults : Nat]
    BY CountsStay DEF Registry!FolderChanges
  <1>2. shadowed' \in SUBSET Ws
    BY DEF Registry!FolderChanges, RegistryTypes
  <1> QED BY <1>1, <1>2 DEF Registry!FolderChanges, RegistryTypes, OpsOK, Registry!tabs

LEMMA RestartTypes ==
    ASSUME RegistryTypes, Registry!Restart
    PROVE  RegistryTypes'
  <1>1. counts' \in [ops : Nat, faults : Nat]
    BY CountsStay DEF Registry!Restart
  <1>2. registry' \in [Ws -> {Registry!None, "available", "unavailable"}]
    BY DEF Registry!Restart, Registry!Load
  <1>3. call' = [j \in Registry!Op |-> call'[j]] /\ OpsOK'
    BY DEF Registry!Restart, OpsOK
  <1>4. queue' \in Seq(Command)
    BY DEF Registry!Restart
  <1> QED BY <1>1, <1>2, <1>3, <1>4
             DEF Registry!Restart, RegistryTypes, Registry!tabs, Registry!Available

(* A step of a request keeps its workspace and its kind, and the others.      *)
LEMMA WorkKeeps ==
    ASSUME RegistryTypes, NEW i \in Registry!Op, Work(i)
    PROVE  /\ Others(i) /\ Places(call[i]) /\ i \in Registry!Busy /\ UNCHANGED raced
           /\ call'[i] = Registry!NoOp
              \/ /\ call'[i].kind = call[i].kind /\ call'[i].w = call[i].w /\ i \in Registry!Busy'
                                          /\ call'[i].value = call[i].value
           /\ \A j \in Registry!Busy' : j \in Registry!Busy /\ call'[j].w = call[j].w /\ call'[j].kind = call[j].kind
           /\ \A j \in Registry!Busy \ {i} : j \in Registry!Busy'
  <1>1. Others(i) /\ Places(call[i])
    BY Moves DEF Work
  <1>2. i \in Registry!Busy
    BY <1>1 DEF Places, Registry!Busy
  <1>3. \/ call'[i] = Registry!NoOp
        \/ \E s : \E pc \in {"roots", "send", "load", "save", "config"} : Became(i, pc, s)
    BY Moves DEF Work
  <1>4. call'[i] = Registry!NoOp \/ /\ call'[i].kind = call[i].kind /\ call'[i].w = call[i].w /\ i \in Registry!Busy'
                                    /\ call'[i].value = call[i].value
    BY <1>3, BecameIs DEF Registry!Busy
  <1>5. UNCHANGED raced
    BY
       DEF Work, Registry!insert, Registry!remove, Registry!add_root, Registry!remove_root,
           Registry!send, Registry!load_all, Registry!save, Registry!save_fails,
           Registry!persist, Registry!persist_fails
  <1>6. \A j \in Registry!Busy' : j \in Registry!Busy /\ call'[j].w = call[j].w /\ call'[j].kind = call[j].kind
    BY <1>1, <1>2, <1>4 DEF Others, Registry!Busy, Registry!NoOp
  <1>7. \A j \in Registry!Busy \ {i} : j \in Registry!Busy'
    BY <1>1 DEF Others, Registry!Busy
  <1> QED BY <1>1, <1>2, <1>4, <1>5, <1>6, <1>7

LEMMA AskingKeeps ==
    ASSUME RegistryTypes, NEW w \in Ws, NEW i \in Registry!Op, Starts(i, w)
    PROVE  /\ i \notin Registry!Busy /\ i \in Registry!Busy'
           /\ \A j \in Registry!Op : j # i => call'[j] = call[j] /\ (j \in Registry!Busy' <=> j \in Registry!Busy)
  BY DEF Starts, Others, Registry!Busy, Places

(* One lemma for each part of the invariant.                                  *)
LEMMA AloneStep ==
    ASSUME RegistryTypes, Alone, Registry!Next
    PROVE  Alone'
  <1>1. ASSUME NEW i \in Registry!Op, Work(i) PROVE Alone'
    BY <1>1, WorkKeeps DEF Alone
  <1>2. ASSUME NEW w \in Ws, Asking(w) PROVE Alone'
    <2>1. PICK i \in Registry!Op : Starts(i, w)
      BY <1>2, AskingIs
    <2>2. raced \subseteq raced' /\ ((\E j \in Registry!Busy : call[j].w = w) => w \in raced')
      BY <1>2, AskingIs
    <2>3. call'[i].w = w
      BY <2>1 DEF Starts
    <2> QED BY <2>1, <2>2, <2>3, AskingKeeps DEF Alone, Registry!Busy
  <1>3. ASSUME NEW w \in Ws, Registry!FolderChanges(w) PROVE Alone'
    BY <1>3 DEF Registry!FolderChanges, Alone, Registry!Busy
  <1>4. ASSUME Registry!worker_loop PROVE Alone'
    BY <1>4 DEF Registry!worker_loop, Alone, Registry!Busy
  <1>5. ASSUME Registry!Restart PROVE Alone'
    BY <1>5 DEF Registry!Restart, Alone, Registry!Busy, Registry!NoOp
  <1> QED BY <1>1, <1>2, <1>3, <1>4, <1>5 DEF Registry!Next, Work, Asking

LEMMA UndisturbedStep ==
    ASSUME RegistryTypes, Undisturbed, Registry!Next
    PROVE  Undisturbed'
  <1>1. ASSUME NEW i \in Registry!Op, Work(i), ~Registry!load_all(i), ~Registry!save(i)
        PROVE  Undisturbed'
    <2>1. UNCHANGED <<tabsFile, saved, mixed>>
      BY <1>1
         DEF Work, Registry!insert, Registry!remove, Registry!add_root, Registry!remove_root,
             Registry!send, Registry!save_fails, Registry!persist, Registry!persist_fails,
             Registry!tabs
    <2>2. i \notin Registry!Saving'
      <3>1. call'[i] = Registry!NoOp \/ \E s : \E pc \in {"roots", "send", "load", "config"} : Became(i, pc, s)
        BY <1>1, Moves DEF Work
      <3> QED BY <3>1, BecameIs DEF Registry!Saving, Registry!NoOp
    <2>3. \A j \in Registry!Saving' : j \in Registry!Saving /\ call'[j] = call[j]
      BY <1>1, <2>2, WorkKeeps DEF Registry!Saving, Others, Registry!Busy
    <2> QED BY <2>1, <2>3 DEF Undisturbed
  <1>2. ASSUME NEW i \in Registry!Op, Registry!load_all(i) PROVE Undisturbed'
    <2>1. UNCHANGED <<tabsFile, saved>> /\ mixed' = (mixed \/ Registry!Saving # {})
      BY <1>2 DEF Registry!load_all
    <2>2. Became(i, "save", tabsFile) /\ Others(i)
      BY <1>2, Moves
    <2>3. \A j \in Registry!Saving' : j = i \/ j \in Registry!Saving
      BY <2>2 DEF Registry!Saving, Registry!Busy, Others
    <2>4. call'[i].snapshot = tabsFile
      BY <2>2, BecameIs
    <2> QED BY <2>1, <2>3, <2>4 DEF Undisturbed
  <1>3. ASSUME NEW i \in Registry!Op, Registry!save(i) PROVE Undisturbed'
    <2>1. /\ UNCHANGED mixed /\ i \in Registry!Saving
          /\ tabsFile' = [call[i].snapshot EXCEPT ![call[i].w] = call[i].value]
          /\ saved' = [saved EXCEPT ![call[i].w] = call[i].value]
      BY <1>3 DEF Registry!save, Registry!Saving, Registry!Busy, Registry!Replaced
    <2>2. call'[i] = Registry!NoOp \/ Became(i, "config", call[i].snapshot)
      BY <1>3, Moves
    <2>3. i \notin Registry!Saving'
      BY <2>2, BecameIs DEF Registry!Saving, Registry!NoOp
    <2>4. \A j \in Registry!Saving' : j \in Registry!Saving /\ j # i
      BY <1>3, <2>3, Moves DEF Registry!Saving, Others, Registry!Busy
    <2> QED BY <2>1, <2>4 DEF Undisturbed
  <1>4. ASSUME NEW w \in Ws, Asking(w) PROVE Undisturbed'
    <2>1. PICK i \in Registry!Op : Starts(i, w)
      BY <1>4, AskingIs
    <2>2. UNCHANGED <<tabsFile, saved, mixed>>
      BY <1>4, AskingIs
    <2>3. i \notin Registry!Saving'
      BY <2>1 DEF Starts, Registry!Saving
    <2>4. \A j \in Registry!Saving' : j \in Registry!Saving /\ call'[j] = call[j]
      BY <2>1, <2>3, AskingKeeps DEF Registry!Saving, Registry!Busy
    <2> QED BY <2>2, <2>4 DEF Undisturbed
  <1>5. ASSUME NEW w \in Ws, Registry!FolderChanges(w) PROVE Undisturbed'
    BY <1>5
       DEF Registry!FolderChanges, Undisturbed, Registry!Saving, Registry!Busy, Registry!tabs
  <1>6. ASSUME Registry!worker_loop PROVE Undisturbed'
    BY <1>6 DEF Registry!worker_loop, Undisturbed, Registry!Saving, Registry!Busy, Registry!tabs
  <1>7. ASSUME Registry!Restart PROVE Undisturbed'
    BY <1>7
       DEF Registry!Restart, Undisturbed, Registry!Saving, Registry!Busy, Registry!tabs,
           Registry!NoOp
  <1> QED BY <1>1, <1>2, <1>3, <1>4, <1>5, <1>6, <1>7 DEF Registry!Next, Work, Asking

LEMMA ClearedStep ==
    ASSUME RegistryTypes, Alone, Cleared, Registry!Next
    PROVE  Cleared'
  <1>1. ASSUME NEW i \in Registry!Op, Registry!insert(i) PROVE Cleared'
    <2>1. /\ registry' = [registry EXCEPT ![call[i].w] = "available"] /\ call[i].kind = "register"
          /\ UNCHANGED <<saved, mixed, counts, raced>>
      BY <1>1 DEF Registry!insert, Registry!At, Registry!tabs
    <2>2. \A w : Registry!Registered(w) /\ w \in Ws => Registry!Registered(w)'
      BY <2>1 DEF Registry!Registered, RegistryTypes, Registry!None
    <2>3. \A w : Clearing(w) => Clearing(w)'
      <3>1. Others(i) /\ \A j \in Registry!Busy \ {i} : j \in Registry!Busy'
        BY <1>1, WorkKeeps DEF Work
      <3> QED BY <2>1, <3>1 DEF Clearing, Others, Registry!Busy
    <2>4. \A j \in Registry!Busy' : j \in Registry!Busy /\ call'[j].w = call[j].w /\ call'[j].kind = call[j].kind
      BY <1>1, WorkKeeps DEF Work
    <2> QED BY <2>1, <2>2, <2>3, <2>4 DEF Cleared
  <1>2. ASSUME NEW i \in Registry!Op, Registry!remove(i) PROVE Cleared'
    <2> DEFINE v == call[i].w
    <2>1. /\ registry' = [registry EXCEPT ![v] = Registry!None] /\ call[i].kind = "remove" /\ call[i].pc = "registry"
          /\ UNCHANGED <<saved, mixed, counts, raced>>
      BY <1>2 DEF Registry!remove, Registry!At, Registry!tabs
    <2>2. /\ \A j \in Registry!Busy' : j \in Registry!Busy /\ call'[j].w = call[j].w /\ call'[j].kind = call[j].kind
          /\ i \in Registry!Busy /\ v \in Ws
      BY <1>2, WorkKeeps DEF Work, Places
    <2>3. ASSUME NEW w \in Ws \ raced, w # v, ~mixed, counts.faults = 0
          PROVE  /\ Registry!Registered(w)' \/ saved[w] = Registry!NoTabs \/ Clearing(w)'
                 /\ \A j \in Registry!Busy' : call'[j].w = w /\ call'[j].kind = "tabs" => Registry!Registered(w)'
      <3>1. Registry!Registered(w)' <=> Registry!Registered(w)
        BY <2>1, <2>3 DEF Registry!Registered, RegistryTypes
      <3>2. Clearing(w) => Clearing(w)'
        <4>1. Others(i) /\ \A j \in Registry!Busy \ {i} : j \in Registry!Busy'
          BY <1>2, WorkKeeps DEF Work
        <4> QED BY <2>1, <4>1 DEF Clearing, Others, Registry!Busy
      <3> QED BY <2>2, <2>3, <3>1, <3>2 DEF Cleared
    <2>4. ASSUME NEW w \in Ws \ raced, w = v, ~mixed, counts.faults = 0
          PROVE  /\ Registry!Registered(w)' \/ saved[w] = Registry!NoTabs \/ Clearing(w)'
                 /\ \A j \in Registry!Busy' : call'[j].w = w /\ call'[j].kind = "tabs" => Registry!Registered(w)'
      <3>1. \A j \in Registry!Busy : call[j].w = w => j = i
        BY <2>2, <2>4 DEF Alone
      <3>2. \A j \in Registry!Busy' : call'[j].w = w => call'[j].kind # "tabs"
        BY <2>1, <2>2, <3>1
      <3>3. CASE Registry!Registered(w)
        <4>1. Became(i, "roots", call[i].snapshot)
          BY <1>2, <2>4, <3>3, Moves
        <4>2. Clearing(w)'
          BY <2>1, <2>2, <2>4, <4>1, BecameIs DEF Clearing, Registry!Busy
        <4> QED BY <3>2, <4>2
      <3>4. CASE ~Registry!Registered(w)
        <4>1. saved[w] = Registry!NoTabs
          BY <2>1, <2>2, <2>4, <3>1, <3>4 DEF Cleared, Clearing
        <4> QED BY <3>2, <4>1
      <3> QED BY <3>3, <3>4
    <2> HIDE DEF v
    <2>5. (~mixed)' /\ (counts.faults = 0)' => ~mixed /\ counts.faults = 0
      BY <2>1
    <2>6. saved' = saved /\ raced' = raced
      BY <2>1
    <2>7. ASSUME (~mixed)', (counts.faults = 0)', NEW w \in Ws \ raced
          PROVE  /\ Registry!Registered(w)' \/ saved[w] = Registry!NoTabs \/ Clearing(w)'
                 /\ \A j \in Registry!Busy' : call'[j].w = w /\ call'[j].kind = "tabs" => Registry!Registered(w)'
      <3>1. CASE w = v
        BY <2>4, <2>5, <2>7, <3>1
      <3>2. CASE w # v
        BY <2>3, <2>5, <2>7, <3>2
      <3> QED BY <3>1, <3>2
    <2> QED BY <2>6, <2>7 DEF Cleared
  <1>3. ASSUME NEW i \in Registry!Op, Registry!add_root(i) \/ Registry!remove_root(i) \/ Registry!send(i) \/ Registry!load_all(i)
        PROVE  Cleared'
    <2>1. UNCHANGED <<registry, saved, counts, raced>> /\ (mixed => mixed')
      <3>1. CASE Registry!add_root(i) \/ Registry!remove_root(i) \/ Registry!send(i)
        BY <3>1 DEF Registry!add_root, Registry!remove_root, Registry!send, Registry!tabs
      <3>2. CASE Registry!load_all(i)
        BY <3>2 DEF Registry!load_all, Registry!tabs
      <3> QED BY <1>3, <3>1, <3>2
    <2>2. /\ \A j \in Registry!Busy' : j \in Registry!Busy /\ call'[j].w = call[j].w /\ call'[j].kind = call[j].kind
          /\ Others(i) /\ i \in Registry!Busy /\ Places(call[i])
      BY <1>3, WorkKeeps DEF Work
    <2>3. call[i].kind = "remove" => 
            /\ i \in Registry!Busy' /\ call'[i].w = call[i].w /\ call'[i].kind = "remove" 
            /\ call'[i].pc \in {"roots", "send", "load", "save"}
      <3>1. call[i].kind = "remove" => \E s : \E pc \in {"send", "load", "save"} : Became(i, pc, s)
        BY <1>3, Moves DEF Registry!add_root, Registry!At
      <3> QED BY <3>1, BecameIs DEF Registry!Busy
    <2>4. \A w : Clearing(w) => Clearing(w)'
      BY <2>2, <2>3 DEF Clearing, Others, Registry!Busy
    <2> QED BY <2>1, <2>2, <2>4 DEF Cleared, Registry!Registered
  <1>4. ASSUME NEW i \in Registry!Op, Registry!save(i) PROVE Cleared'
    <2> DEFINE v == call[i].w
    <2>1. /\ saved' = [saved EXCEPT ![v] = call[i].value] /\ UNCHANGED <<registry, mixed, counts, raced>>
          /\ call[i].pc = "save"
      BY <1>4 DEF Registry!save
    <2>2. /\ \A j \in Registry!Busy' : j \in Registry!Busy /\ call'[j].w = call[j].w /\ call'[j].kind = call[j].kind
          /\ i \in Registry!Busy /\ v \in Ws /\ Places(call[i]) /\ Others(i)
      BY <1>4, WorkKeeps DEF Work, Places
    <2>3. \A w : w # v /\ Clearing(w) => Clearing(w)'
      BY <2>2 DEF Clearing, Others, Registry!Busy
    <2>4. call[i].kind = "remove" => saved'[v] = Registry!NoTabs
      BY <2>1, <2>2 DEF Places, RegistryTypes
    <2>5. call[i].kind # "remove" => call[i].kind = "tabs"
      BY <2>1, <2>2 DEF Places
    <2>6. \A w \in Ws : w # v => saved'[w] = saved[w]
      BY <2>1 DEF RegistryTypes
    <2> HIDE DEF v
    <2>7. ~mixed /\ counts.faults = 0 /\ v \notin raced /\ call[i].kind = "tabs" => Registry!Registered(v)
      BY <2>2 DEF Cleared, v
    <2> QED BY <2>1, <2>2, <2>3, <2>4, <2>5, <2>6, <2>7 DEF Cleared, Registry!Registered
  <1>5. ASSUME NEW i \in Registry!Op, Registry!save_fails(i) \/ Registry!persist_fails(i)
        PROVE  Cleared'
    BY <1>5, CountsStay DEF Registry!save_fails, Registry!persist_fails, Cleared
  <1>6. ASSUME NEW i \in Registry!Op, Registry!persist(i) PROVE Cleared'
    <2>1. UNCHANGED <<registry, saved, mixed, counts, raced>> /\ call[i].pc = "config"
      BY <1>6 DEF Registry!persist, Registry!tabs
    <2>2. /\ \A j \in Registry!Busy' : j \in Registry!Busy /\ call'[j].w = call[j].w /\ call'[j].kind = call[j].kind
          /\ Others(i)
      BY <1>6, WorkKeeps DEF Work
    <2>3. \A w : Clearing(w) => Clearing(w)'
      BY <2>1, <2>2 DEF Clearing, Others, Registry!Busy
    <2> QED BY <2>1, <2>2, <2>3 DEF Cleared, Registry!Registered
  <1>7. ASSUME NEW w \in Ws, Asking(w) PROVE Cleared'
    <2>1. PICK i \in Registry!Op : Starts(i, w)
      BY <1>7, AskingIs
    <2>2. UNCHANGED <<registry, saved, mixed>> /\ counts'.faults = counts.faults /\ raced \subseteq raced'
      BY <1>7, AskingIs
    <2>3. \A x : Clearing(x) => Clearing(x)'
      BY <2>1, AskingKeeps DEF Clearing, Registry!Busy
    <2>4. ASSUME NEW j \in Registry!Busy' 
          PROVE  \/ j \in Registry!Busy /\ call'[j] = call[j]
                 \/ call'[j].w = w /\ (call'[j].kind = "tabs" => Registry!Registered(w))
      BY <2>1, <2>4, AskingKeeps DEF Starts, Registry!Busy
    <2> QED BY <2>2, <2>3, <2>4 DEF Cleared, Registry!Registered
  <1>8. ASSUME NEW w \in Ws, Registry!FolderChanges(w) PROVE Cleared'
    BY <1>8, CountsStay DEF Registry!FolderChanges, Cleared
  <1>9. ASSUME Registry!worker_loop PROVE Cleared'
    BY <1>9
       DEF Registry!worker_loop, Cleared, Clearing, Registry!Registered, Registry!Busy,
           Registry!tabs
  <1>10. ASSUME Registry!Restart PROVE Cleared'
    BY <1>10, CountsStay DEF Registry!Restart, Cleared
  <1> QED BY <1>1, <1>2, <1>3, <1>4, <1>5, <1>6, <1>7, <1>8, <1>9, <1>10
             DEF Registry!Next, Asking

(* Steps that change neither roots, commands nor who is about to send one.    *)
LEMMA Quiet ==
    ASSUME RootsFollow, Reasons, UNCHANGED <<roots, queue, reported>>, shadowed \subseteq shadowed',
           raced \subseteq raced', \A kind, w : Sending(kind, w)' <=> Sending(kind, w)
    PROVE  RootsFollow' /\ Reasons'
  <1>1. /\ \A kind, w : LastIs(kind, w)' <=> LastIs(kind, w)
        /\ \A w : NoneOf(w)' <=> NoneOf(w)
    BY DEF LastIs, NoneOf
  <1>2. RootsFollow'
    BY <1>1 DEF RootsFollow
  <1>3. Reasons'
    BY <1>1 DEF Reasons
  <1> QED BY <1>2, <1>3

(* Who is about to send a command after a step of a request.                  *)
LEMMA SendingIs ==
    ASSUME RegistryTypes, NEW i \in Registry!Op, Work(i), NEW v, v = call[i].w
    PROVE  /\ \A kind, w : w # v => (Sending(kind, w)' <=> Sending(kind, w))
           /\ (call[i].pc # "send" /\ (call'[i] = Registry!NoOp \/ call'[i].pc # "send"))
                => \A kind, w : Sending(kind, w)' <=> Sending(kind, w)
           /\ \A kind : kind = call[i].kind /\ call'[i].pc = "send" => Sending(kind, v)'
           /\ \A kind : kind = call[i].kind /\ call[i].pc = "send" => Sending(kind, v)
           /\ Alone /\ v \notin raced =>
                \A kind : Sending(kind, v)' => call'[i].pc = "send" /\ kind = call[i].kind
  <1>1. /\ Others(i) /\ i \in Registry!Busy
        /\ call'[i] = Registry!NoOp
           \/ /\ call'[i].kind = call[i].kind /\ call'[i].w = call[i].w /\ i \in Registry!Busy'
        /\ \A j \in Registry!Busy' : j \in Registry!Busy /\ call'[j].w = call[j].w /\ call'[j].kind = call[j].kind
        /\ \A j \in Registry!Busy \ {i} : j \in Registry!Busy'
    BY WorkKeeps
  <1>2. Registry!NoOp.pc # "send" /\ Registry!NoOp.pc = "free"
    BY DEF Registry!NoOp
  <1>3. \A kind, w : w # v => (Sending(kind, w)' <=> Sending(kind, w))
    BY <1>1 DEF Sending, Others, Registry!Busy
  <1>4. (call[i].pc # "send" /\ (call'[i] = Registry!NoOp \/ call'[i].pc # "send"))
            => \A kind, w : Sending(kind, w)' <=> Sending(kind, w)
    BY <1>1, <1>2 DEF Sending, Others, Registry!Busy
  <1>5. \A kind : kind = call[i].kind /\ call'[i].pc = "send" => Sending(kind, v)'
    BY <1>1, <1>2 DEF Sending
  <1>6. \A kind : kind = call[i].kind /\ call[i].pc = "send" => Sending(kind, v)
    BY <1>1 DEF Sending
  <1>7. ASSUME Alone, v \notin raced, NEW kind, Sending(kind, v)'
        PROVE  call'[i].pc = "send" /\ kind = call[i].kind
    <2>1. PICK j \in Registry!Busy' : call'[j].w = v /\ call'[j].kind = kind /\ call'[j].pc = "send"
      BY <1>7 DEF Sending
    <2>2. j \in Registry!Busy /\ call[j].w = v /\ call[j].kind = kind
      BY <1>1, <2>1
    <2>3. j = i
      BY <1>1, <1>7, <2>2 DEF Alone
    <2> QED BY <2>1, <2>2, <2>3
  <1> QED BY <1>3, <1>4, <1>5, <1>6, <1>7

(* The last command about a workspace, with one more and with one less.       *)
LEMMA Appended ==
    ASSUME queue \in Seq(Command), NEW c \in Command, queue' = Append(queue, c)
    PROVE  /\ LastIs(c.kind, c.w)'
           /\ \A w : w # c.w => /\ \A kind : LastIs(kind, w)' <=> LastIs(kind, w)
                                /\ NoneOf(w)' <=> NoneOf(w)
  <1>0. PICK n : n = Len(queue)
    OBVIOUS
  <1>1. /\ n \in Nat /\ DOMAIN queue = 1..n /\ DOMAIN queue' = 1..(n + 1)
        /\ \A m \in 1..n : queue'[m] = queue[m]
        /\ queue'[n + 1] = c
    BY <1>0, LenProperties, AppendProperties
  <1>2. c = [kind |-> c.kind, w |-> c.w]
    BY DEF Command
  <1>3. LastIs(c.kind, c.w)'
    BY <1>1, <1>2 DEF LastIs
  <1>4. ASSUME NEW w, w # c.w
        PROVE  /\ \A kind : LastIs(kind, w)' <=> LastIs(kind, w)
               /\ NoneOf(w)' <=> NoneOf(w)
    <2>1. \A m \in 1..(n + 1) : m \in 1..n \/ m = n + 1
      BY <1>1
    <2>2. \A m \in 1..n : m \in 1..(n + 1) /\ m # n + 1
      BY <1>1
    <2>3. \A kind : [kind |-> kind, w |-> w] # c
      BY <1>2, <1>4
    <2>4. NoneOf(w)' <=> NoneOf(w)
      BY <1>1, <1>4, <2>1, <2>2 DEF NoneOf
    <2>5. ASSUME NEW kind PROVE LastIs(kind, w)' <=> LastIs(kind, w)
      BY <1>1, <1>4, <2>1, <2>2, <2>3 DEF LastIs
    <2> QED BY <2>4, <2>5
  <1> QED BY <1>3, <1>4

LEMMA Taken ==
    ASSUME queue \in Seq(Command), queue # <<>>, queue' = Tail(queue),
           NEW h, h = Head(queue)
    PROVE  /\ h \in Command /\ ~NoneOf(h.w)
           /\ \A w : w # h.w => /\ \A kind : LastIs(kind, w)' <=> LastIs(kind, w)
                                /\ NoneOf(w)' <=> NoneOf(w)
           /\ \A kind : LastIs(kind, h.w) => LastIs(kind, h.w)' \/ (NoneOf(h.w)' /\ kind = h.kind)
  <1>0. PICK n : n = Len(queue)
    OBVIOUS
  <1>1. /\ n \in Nat /\ n # 0 /\ DOMAIN queue = 1..n /\ DOMAIN queue' = 1..(n - 1)
        /\ \A m \in 1..(n - 1) : queue'[m] = queue[m + 1]
        /\ queue[1] = h /\ h \in Command
    BY <1>0, LenProperties, HeadTailProperties, EmptySeq
  <1>2. h = [kind |-> h.kind, w |-> h.w]
    BY <1>1 DEF Command
  <1>3. \A m \in 1..n : m = 1 \/ (m - 1 \in 1..(n - 1) /\ queue'[m - 1] = queue[m])
    BY <1>1
  <1>4. \A m \in 1..(n - 1) : m + 1 \in 1..n /\ queue'[m] = queue[m + 1]
    BY <1>1
  <1>5. ~NoneOf(h.w)
    BY <1>1 DEF NoneOf
  <1>6. ASSUME NEW w, w # h.w
        PROVE  /\ \A kind : LastIs(kind, w)' <=> LastIs(kind, w)
               /\ NoneOf(w)' <=> NoneOf(w)
    <2>1. \A kind : [kind |-> kind, w |-> w] # h
      BY <1>2, <1>6
    <2>2. NoneOf(w)' <=> NoneOf(w)
      <3>1. ASSUME NoneOf(w)' PROVE NoneOf(w)
        BY <1>1, <1>3, <1>6, <3>1 DEF NoneOf
      <3>2. ASSUME NoneOf(w) PROVE NoneOf(w)'
        BY <1>1, <1>4, <1>6, <3>2 DEF NoneOf
      <3> QED BY <3>1, <3>2
    <2>3. ASSUME NEW kind, LastIs(kind, w)' PROVE LastIs(kind, w)
      <3>1. PICK k \in 1..(n - 1) : /\ queue'[k] = [kind |-> kind, w |-> w]
                                    /\ \A m \in 1..(n - 1) : m > k => queue'[m].w # w
        BY <1>1, <2>3 DEF LastIs
      <3>2. ASSUME NEW m \in 1..n, m > k + 1 PROVE queue[m].w # w
        <4>1. m - 1 \in 1..(n - 1) /\ queue'[m - 1] = queue[m] /\ m - 1 > k
          BY <1>1, <1>3, <3>2
        <4> QED BY <3>1, <4>1
      <3> QED BY <1>1, <1>4, <3>1, <3>2 DEF LastIs
    <2>4. ASSUME NEW kind, LastIs(kind, w) PROVE LastIs(kind, w)'
      <3>1. PICK k \in 1..n : /\ queue[k] = [kind |-> kind, w |-> w]
                              /\ \A m \in 1..n : m > k => queue[m].w # w
        BY <1>1, <2>4 DEF LastIs
      <3>2. k # 1
        BY <1>1, <2>1, <3>1
      <3>3. \A m \in 1..(n - 1) : m > k - 1 => queue'[m].w # w
        BY <1>1, <1>4, <3>1
      <3> QED BY <1>1, <1>3, <3>1, <3>2, <3>3 DEF LastIs
    <2> QED BY <2>2, <2>3, <2>4
  <1>7. ASSUME NEW kind, LastIs(kind, h.w)
        PROVE  LastIs(kind, h.w)' \/ (NoneOf(h.w)' /\ kind = h.kind)
    <2>0. PICK w : w = h.w
      OBVIOUS
    <2>1. PICK k \in 1..n : /\ queue[k] = [kind |-> kind, w |-> w]
                            /\ \A m \in 1..n : m > k => queue[m].w # w
      BY <1>1, <1>7, <2>0 DEF LastIs
    <2>2. CASE k = 1
      <3>1. kind = h.kind
        BY <1>1, <2>0, <2>1, <2>2
      <3>2. \A m \in 1..(n - 1) : queue'[m].w # w
        BY <1>1, <1>4, <2>1, <2>2
      <3> QED BY <1>1, <2>0, <3>1, <3>2 DEF NoneOf
    <2>3. CASE k # 1
      <3>3. \A m \in 1..(n - 1) : m > k - 1 => queue'[m].w # w
        BY <1>1, <1>4, <2>1
      <3> QED BY <1>1, <1>3, <2>0, <2>1, <2>3, <3>3 DEF LastIs
    <2> QED BY <2>2, <2>3
  <1> QED BY <1>1, <1>5, <1>6, <1>7

(* The steps that change roots, commands or what is watched.                  *)
LEMMA RootsStep ==
    ASSUME RegistryTypes, Alone, RootsFollow, Reasons, NEW i \in Registry!Op,
           Registry!add_root(i) \/ Registry!remove_root(i)
    PROVE  RootsFollow' /\ Reasons'
  <1>0. PICK v : v = call[i].w
    OBVIOUS
  <1>1. Work(i) /\ Places(call[i])
    BY Moves DEF Work
  <1>2. /\ UNCHANGED <<queue, reported, shadowed, raced>> /\ v \in Ws
        /\ \A kind, w : LastIs(kind, w)' <=> LastIs(kind, w)
        /\ \A w : NoneOf(w)' <=> NoneOf(w)
    BY <1>0, <1>1 DEF Registry!add_root, Registry!remove_root, LastIs, NoneOf, Places
  <1>3. \A kind, w : w # v => (Sending(kind, w)' <=> Sending(kind, w))
    BY <1>0, <1>1, SendingIs
  <1>4. v \notin raced => \A kind : Sending(kind, v)' => call'[i].pc = "send" /\ kind = call[i].kind
    BY <1>0, <1>1, SendingIs
  <1>5. CASE Registry!add_root(i)
    <2>1. roots' = roots \union {v} /\ call[i].kind = "register" /\ call[i].pc = "roots"
      BY <1>0, <1>5 DEF Registry!add_root, Registry!At
    <2>2. call'[i].pc = "send" /\ Sending("register", v)'
      BY <1>0, <1>1, <1>5, <2>1, Moves, BecameIs, SendingIs
    <2>3. RootsFollow'
      BY <1>2, <1>3, <1>4, <2>1, <2>2 DEF RootsFollow
    <2>4. Reasons'
      BY <1>2, <1>3, <2>1 DEF Reasons
    <2> QED BY <2>3, <2>4
  <1>6. CASE Registry!remove_root(i)
    <2>1. roots' = roots \ {v} /\ call[i].kind = "remove" /\ call[i].pc = "roots"
      BY <1>0, <1>6 DEF Registry!remove_root, Registry!At
    <2>2. call'[i].pc = IF v \in roots THEN "send" ELSE "load"
      BY <1>0, <1>6, Moves, BecameIs
    <2>3. CASE v \in roots
      <3>1. Sending("remove", v)'
        BY <1>0, <1>1, <2>1, <2>2, <2>3, SendingIs
      <3>2. RootsFollow'
        BY <1>2, <1>3, <1>4, <2>1, <3>1 DEF RootsFollow
      <3>3. Reasons'
        BY <1>2, <1>3, <2>1, <3>1 DEF Reasons
      <3> QED BY <3>2, <3>3
    <2>4. CASE v \notin roots
      <3>1. roots' = roots /\ \A kind, w : Sending(kind, w)' <=> Sending(kind, w)
        BY <1>0, <1>1, <2>1, <2>2, <2>4, SendingIs
      <3> QED BY <1>2, <3>1, Quiet
    <2> QED BY <2>3, <2>4
  <1> QED BY <1>5, <1>6

LEMMA SendStep ==
    ASSUME RegistryTypes, Alone, RootsFollow, Reasons, NEW i \in Registry!Op, Registry!send(i)
    PROVE  RootsFollow' /\ Reasons'
  <1>0. PICK v, k : v = call[i].w /\ k = call[i].kind
    OBVIOUS
  <1> DEFINE c == [kind |-> k, w |-> v]
  <1>1. Work(i) /\ Places(call[i]) /\ call[i].pc = "send"
    BY Moves DEF Work, Registry!send
  <1>2. k \in {"register", "remove"} /\ v \in Ws /\ c \in Command
    BY <1>0, <1>1 DEF Places, Command
  <1>3. UNCHANGED <<roots, reported, shadowed, raced>> /\ queue' = Append(queue, c)
    BY <1>0 DEF Registry!send
  <1>4. /\ LastIs(k, v)'
        /\ \A w : w # v => /\ \A kind : LastIs(kind, w)' <=> LastIs(kind, w)
                           /\ NoneOf(w)' <=> NoneOf(w)
    <2>1. c.kind = k /\ c.w = v
      OBVIOUS
    <2> HIDE DEF c
    <2> QED BY <1>2, <1>3, <2>1, Appended DEF RegistryTypes
  <1>5. Sending(k, v) /\ \A kind, w : w # v => (Sending(kind, w)' <=> Sending(kind, w))
    BY <1>0, <1>1, SendingIs
  <1>6. call'[i].pc # "send"
    BY Moves, BecameIs
  <1>7. v \notin raced => \A kind : ~Sending(kind, v)'
    BY <1>0, <1>1, <1>6, SendingIs
  <1> HIDE DEF c
  <1>8. v \notin raced => (IF k = "register" THEN v \in roots ELSE v \notin roots)
    BY <1>2, <1>5 DEF RootsFollow
  <1>9. RootsFollow'
    BY <1>2, <1>3, <1>4, <1>5, <1>7, <1>8 DEF RootsFollow
  <1>10. Reasons'
    BY <1>2, <1>3, <1>4, <1>5, <1>7, <1>8 DEF Reasons
  <1> QED BY <1>9, <1>10

LEMMA WorkerStep ==
    ASSUME RegistryTypes, Alone, RootsFollow, Reasons, Registry!worker_loop
    PROVE  RootsFollow' /\ Reasons'
  <1>0. PICK h, v : h = Head(queue) /\ v = h.w
    OBVIOUS
  <1>1. UNCHANGED <<roots, raced, call, folder>> /\ queue # <<>> /\ queue' = Tail(queue)
    BY DEF Registry!worker_loop
  <1>2. /\ h \in Command /\ ~NoneOf(v)
        /\ \A w : w # v => /\ \A kind : LastIs(kind, w)' <=> LastIs(kind, w)
                           /\ NoneOf(w)' <=> NoneOf(w)
        /\ \A kind : LastIs(kind, v) => LastIs(kind, v)' \/ (NoneOf(v)' /\ kind = h.kind)
    BY <1>0, <1>1, Taken DEF RegistryTypes
  <1>3. \A kind, w : Sending(kind, w)' <=> Sending(kind, w)
    BY <1>1 DEF Sending, Registry!Busy
  <1>4. v \in Ws /\ h.kind \in {"register", "remove"}
    BY <1>0, <1>2 DEF Command
  <1>5. CASE h.kind = "register"
    <2>1. /\ reported' = reported \union (IF v \in folder THEN Covers[v] ELSE {})
          /\ shadowed' = IF v \in folder THEN shadowed \ {v} ELSE shadowed \union {v}
      BY <1>0, <1>5 DEF Registry!worker_loop, Registry!add_tree
    <2>2. RootsFollow'
      BY <1>1, <1>2, <1>3, <1>4, <1>5, <2>1 DEF RootsFollow
    <2>3. Reasons'
      <3>1. raced = {} => v \in roots \/ Sending("remove", v) \/ LastIs("remove", v)'
        BY <1>2, <1>4, <1>5 DEF RootsFollow
      <3> QED BY <1>1, <1>2, <1>3, <1>4, <1>5, <2>1, <3>1 DEF Reasons
    <2> QED BY <2>2, <2>3
  <1>6. CASE h.kind = "remove"
    <2>1. /\ reported' = reported \ Covers[v]
          /\ shadowed' = shadowed \union {u \in Ws \ {v} : Covers[u] \intersect Covers[v] # {}}
      BY <1>0, <1>6 DEF Registry!worker_loop, Registry!remove_tree
    <2>2. RootsFollow'
      <3> SUFFICES ASSUME NEW w \in Ws \ raced
                   PROVE  /\ Sending("register", w) => w \in roots
                          /\ Sending("remove", w) => w \notin roots
                          /\ w \in roots => \/ Sending("register", w) \/ LastIs("register", w)'
                                            \/ NoneOf(w)' /\ (Covers[w] \subseteq reported' \/ w \in shadowed')
                          /\ w \notin roots => Sending("remove", w) \/ LastIs("remove", w)' \/ NoneOf(w)'
        BY <1>1, <1>3 DEF RootsFollow
      <3>1. /\ Sending("register", w) => w \in roots
            /\ Sending("remove", w) => w \notin roots
            /\ w \in roots => \/ Sending("register", w) \/ LastIs("register", w)
                              \/ NoneOf(w) /\ (Covers[w] \subseteq reported \/ w \in shadowed)
            /\ w \notin roots => Sending("remove", w) \/ LastIs("remove", w) \/ NoneOf(w)
        BY DEF RootsFollow
      <3>2. CASE w = v
        BY <1>2, <1>6, <3>1, <3>2
      <3>3. CASE w # v
        <4>1. Covers[w] \subseteq reported => Covers[w] \subseteq reported' \/ w \in shadowed'
          BY <2>1, <3>3
        <4> QED BY <1>2, <2>1, <3>1, <3>3, <4>1
      <3> QED BY <3>2, <3>3
    <2>3. Reasons'
      <3> SUFFICES ASSUME raced = {}, NEW x \in reported'
                   PROVE  \E w \in Ws : x \in Covers[w] /\ (w \in roots \/ LastIs("remove", w)' \/ Sending("remove", w))
        BY <1>1, <1>3 DEF Reasons
      <3>1. PICK w \in Ws : x \in Covers[w] /\ (w \in roots \/ LastIs("remove", w) \/ Sending("remove", w))
        BY <2>1 DEF Reasons
      <3>2. w # v
        BY <2>1, <3>1
      <3> QED BY <1>2, <3>1, <3>2
    <2> QED BY <2>2, <2>3
  <1> QED BY <1>4, <1>5, <1>6

LEMMA WatchingStep ==
    ASSUME RegistryTypes, Alone, RootsFollow, Reasons, Registry!Next
    PROVE  RootsFollow' /\ Reasons'
  <1>1. ASSUME NEW i \in Registry!Op,
               \/ Registry!insert(i) \/ Registry!remove(i) \/ Registry!load_all(i)
               \/ Registry!save(i) \/ Registry!save_fails(i)
               \/ Registry!persist(i) \/ Registry!persist_fails(i)
        PROVE  RootsFollow' /\ Reasons'
    <2>1. UNCHANGED <<roots, queue, reported, shadowed, raced>> /\ Work(i)
      BY <1>1
         DEF Work, Registry!insert, Registry!remove, Registry!load_all, Registry!save,
             Registry!save_fails, Registry!persist, Registry!persist_fails, Registry!watcher
    <2>2. call[i].pc # "send"
      BY <1>1
         DEF Registry!insert, Registry!remove, Registry!load_all, Registry!save,
             Registry!save_fails, Registry!persist, Registry!persist_fails, Registry!At
    <2>3. call'[i] = Registry!NoOp \/ call'[i].pc # "send"
      BY <1>1, Moves, BecameIs
    <2> QED BY <2>1, <2>2, <2>3, SendingIs, Quiet
  <1>2. ASSUME NEW w \in Ws, Asking(w) PROVE RootsFollow' /\ Reasons'
    <2>1. PICK i \in Registry!Op : Starts(i, w)
      BY <1>2, AskingIs
    <2>2. UNCHANGED <<roots, queue, reported, shadowed>> /\ raced \subseteq raced'
      BY <1>2, AskingIs
    <2>3. \A kind, x : Sending(kind, x)' <=> Sending(kind, x)
      BY <2>1, AskingKeeps DEF Sending, Starts, Registry!Busy
    <2> QED BY <2>2, <2>3, Quiet
  <1>3. ASSUME NEW w \in Ws, Registry!FolderChanges(w) PROVE RootsFollow' /\ Reasons'
    <2>1. UNCHANGED <<roots, queue, reported, raced, call>> /\ shadowed \subseteq shadowed'
      BY <1>3 DEF Registry!FolderChanges
    <2>2. \A kind, x : Sending(kind, x)' <=> Sending(kind, x)
      BY <2>1 DEF Sending, Registry!Busy
    <2> QED BY <2>1, <2>2, Quiet
  <1>4. ASSUME Registry!Restart PROVE RootsFollow' /\ Reasons'
    <2>1. /\ queue' = <<>> /\ reported' = UNION {Covers[w] : w \in roots'}
          /\ roots' \subseteq Ws /\ call' = [i \in Registry!Op |-> Registry!NoOp]
      BY <1>4 DEF Registry!Restart, Registry!Available
    <2>2. \A w : NoneOf(w)' /\ \A kind : ~Sending(kind, w)'
      BY <2>1 DEF NoneOf, Sending, Registry!Busy, Registry!NoOp
    <2> QED BY <2>1, <2>2 DEF RootsFollow, Reasons
  <1> QED BY <1>1, <1>2, <1>3, <1>4, RootsStep, SendStep, WorkerStep DEF Registry!Next, Asking

(* The invariant of Workspaces is inductive.                                  *)
LEMMA RegistryInit == Registry!Init => RegistryInv
  <1> SUFFICES ASSUME Registry!Init PROVE RegistryInv
    OBVIOUS
  <1>1. call = [i \in Registry!Op |-> Registry!NoOp] /\ queue = <<>> /\ Registry!Busy = {}
    BY DEF Registry!Init, Registry!Busy, Registry!NoOp
  <1>2. RegistryTypes
    <2>1. registry \in [Ws -> {Registry!None, "available", "unavailable"}] /\ roots \in SUBSET Ws
      BY DEF Registry!Init, Registry!Load, Registry!Available
    <2>2. queue \in Seq(Command) /\ counts \in [ops : Nat, faults : Nat]
      BY EmptySeq DEF Registry!Init
    <2>3. tabsFile \in [Ws -> Saved] /\ saved \in [Ws -> Saved]
      BY DEF Registry!Init, Saved
    <2>4. mixed \in BOOLEAN /\ raced \in SUBSET Ws /\ shadowed \in SUBSET Ws
      BY DEF Registry!Init
    <2>5. call = [i \in Registry!Op |-> call[i]] /\ OpsOK
      BY <1>1 DEF OpsOK
    <2> QED BY <2>1, <2>2, <2>3, <2>4, <2>5 DEF RegistryTypes
  <1>3. Alone /\ Undisturbed /\ Cleared
    BY <1>1 DEF Registry!Init, Alone, Undisturbed, Registry!Saving, Cleared
  <1>4. RootsFollow /\ Reasons
    <2>1. \A w : NoneOf(w) /\ \A kind : ~Sending(kind, w)
      BY <1>1 DEF NoneOf, Sending
    <2> QED BY <2>1 DEF Registry!Init, RootsFollow, Reasons, Registry!Available
  <1> QED BY <1>2, <1>3, <1>4 DEF RegistryInv

LEMMA RegistrySteps == RegistryInv /\ [Registry!Next]_(Registry!vars) => RegistryInv'
  <1> SUFFICES ASSUME RegistryInv, [Registry!Next]_(Registry!vars) PROVE RegistryInv'
    OBVIOUS
  <1>1. CASE UNCHANGED Registry!vars
    <2>1. /\ UNCHANGED <<folder, registry, roots, queue, reported, tabsFile, config, stored, call, counts>>
          /\ UNCHANGED <<raced, shadowed, mixed, saved>>
      BY <1>1 DEF Registry!vars
    <2>2. RegistryTypes'
      BY <2>1 DEF RegistryInv, RegistryTypes, OpsOK
    <2>3. Alone' /\ Undisturbed'
      BY <2>1 DEF RegistryInv, Alone, Undisturbed, Registry!Busy, Registry!Saving
    <2>4. Cleared'
      BY <2>1 DEF RegistryInv, Cleared, Clearing, Registry!Busy, Registry!Registered
    <2>5. RootsFollow' /\ Reasons'
      <3>1. \A kind, w : Sending(kind, w)' <=> Sending(kind, w)
        BY <2>1 DEF Sending, Registry!Busy
      <3> QED BY <2>1, <3>1, Quiet DEF RegistryInv
    <2> QED BY <2>2, <2>3, <2>4, <2>5 DEF RegistryInv
  <1>2. CASE Registry!Next
    <2>1. RegistryTypes'
      BY <1>2, WorkTypes, AskingTypes, WorkerTypes, FolderTypes, RestartTypes
         DEF Registry!Next, Work, Asking, RegistryInv
    <2> QED BY <1>2, <2>1, AloneStep, UndisturbedStep, ClearedStep, WatchingStep DEF RegistryInv
  <1> QED BY <1>1, <1>2

(* The invariant says what the property says.                                 *)
LEMMA Follows == RegistryInv => Registry!StoresFollow
  <1> SUFFICES ASSUME RegistryInv PROVE Registry!StoresFollow
    OBVIOUS
  <1>1. Registry!WatchedAreServed
    <2> SUFFICES ASSUME Registry!Busy = {}, queue = <<>>
                 PROVE  /\ \A w \in roots \ (raced \union shadowed) : Covers[w] \subseteq reported
                        /\ raced = {} => reported \subseteq UNION {Covers[w] : w \in roots}
      BY DEF Registry!WatchedAreServed
    <2>1. \A kind, w : ~Sending(kind, w) /\ ~LastIs(kind, w)
      BY DEF Sending, LastIs
    <2> QED BY <2>1 DEF RegistryInv, RegistryTypes, RootsFollow, Reasons
  <1>2. Registry!TabsAreKept
    BY DEF RegistryInv, Undisturbed, Cleared, Clearing, Registry!TabsAreKept
  <1> QED BY <1>1, <1>2 DEF Registry!StoresFollow

(* What the watcher watches is what is registered once the commands were       *)
(* carried out, and the file of tabs holds what was last saved for each        *)
(* workspace (handle_watch_workspace, remove_workspace, TabStore::save), for   *)
(* any number of workspaces within each other and of requests at a time.       *)
THEOREM RegistryFollows == Registry!Spec => []StoresFollow
  BY RegistryInit, RegistrySteps, Follows, PTL DEF Registry!Spec, StoresFollow
=============================================================================
