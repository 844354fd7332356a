----------------------------- MODULE StoresProofs -----------------------------
(* The configuration file implements DurableFile, and what the daemon works    *)
(* with is what it has stored; the images of sessions, the MCP servers, the    *)
(* repository and the record of a session keep what Stores promises of them:   *)
(* for every number of devices, requests, starts and faults.                   *)
EXTENDS Stores, FiniteSetTheorems, SequenceTheorems, WellFoundedInduction, TLAPS

(* The settings and the TLS identity                                           *)

\* What memory holds is a configuration, and so is what a write is about.
IoOK == /\ io = [file |-> io.file, content |-> io.content,
                  synced |-> io.synced, stage |-> io.stage]
        /\ io.file = "config" => /\ io.content \in Config
                                 /\ io.stage = "synced" => io.synced

DiskOK == /\ DOMAIN disk = File /\ DOMAIN after = File
          /\ disk["config"] \in Config \union {Missing}
          /\ after["config"] \subseteq Config \union {Missing}

\* The inductive invariant of the configuration file.
Inv == memory \in Config /\ IoOK /\ DiskOK

\* What a request makes of the configuration is a configuration.
LEMMA SettingIsConfig ==
    ASSUME NEW m \in Config, NEW o \in Op
    PROVE  [m EXCEPT ![Setting(o)] = Value(o)] \in Config
<1>1. CASE op[o].kind = "put_prompt_context"
  BY <1>1 DEF Config, Setting, Value
<1>2. CASE op[o].kind # "put_prompt_context"
  <2>1. Setting(o) = "agent" /\ Value(o) \in {None} \union Op
    BY <1>2 DEF Setting, Value
  <2> QED BY <2>1 DEF Config
<1> QED BY <1>1, <1>2

\* A write that begins is about its file and its content.
LEMMA WriteBegins ==
    ASSUME NEW f, NEW c, Write(f, c), f = "config" => c \in Config
    PROVE  IoOK'
BY DEF Write, IoOK

\* No write is about no file.
LEMMA NoWrite == ASSUME io' = NoIo PROVE IoOK'
BY DEF NoIo, IoOK

LEMMA LoadIsConfig ==
    ASSUME DiskOK
    PROVE  load \in Config
BY DEF DiskOK, load, Config

\* Every step of the daemon and every end of it keeps the invariant.
LEMMA StepInv == Inv /\ [Next]_vars => Inv'
<1> SUFFICES ASSUME Inv, [Next]_vars
             PROVE  Inv'
  OBVIOUS
<1> USE DEF Inv
<1>1. ASSUME UNCHANGED vars PROVE Inv'
  BY <1>1 DEF vars, IoOK, DiskOK
<1>2. ASSUME write_all PROVE Inv'
  <2>1. memory' = memory /\ disk' = disk /\ after' = after
    BY <1>2 DEF write_all, files, running
  <2>2. IoOK'
    BY <1>2 DEF write_all, IoOK
  <2> QED BY <2>1, <2>2 DEF DiskOK
<1>3. ASSUME sync_all PROVE Inv'
  <2>1. memory' = memory /\ disk' = disk /\ after' = after
    BY <1>3 DEF sync_all, files, running
  <2>2. IoOK'
    BY <1>3 DEF sync_all, IoOK
  <2> QED BY <2>1, <2>2 DEF DiskOK
<1>4. ASSUME commit PROVE Inv'
  <2>1. memory' = memory
    BY <1>4 DEF commit, running
  <2>2. IoOK'
    BY <1>4 DEF commit, IoOK
  <2>3. DiskOK'
    <3>1. CASE io.file = "config"
      BY <1>4, <3>1 DEF commit, IoOK, DiskOK, File
    <3>2. CASE io.file # "config"
      BY <1>4, <3>2 DEF commit, DiskOK, File
    <3> QED BY <3>1, <3>2
  <2> QED BY <2>1, <2>2, <2>3
<1>5. ASSUME sync_dir PROVE Inv'
  <2>1. memory' = memory
    BY <1>5 DEF sync_dir, running
  <2>2. IoOK'
    BY <1>5 DEF sync_dir, IoOK
  <2>3. DiskOK'
    BY <1>5 DEF sync_dir, DiskOK, File
  <2> QED BY <2>1, <2>2, <2>3
<1>6. ASSUME write_fails PROVE Inv'
  <2>1. memory' = memory /\ disk' = disk /\ after' = after
    BY <1>6 DEF write_fails, files, running
  <2>2. IoOK'
    BY <1>6 DEF write_fails, IoOK
  <2> QED BY <2>1, <2>2 DEF DiskOK
<1>7. ASSUME NEW o \in Op, save(o) PROVE Inv'
  <2>1. memory' \in Config
    BY <1>7, SettingIsConfig DEF save
  <2>2. IoOK'
    <3>1. [memory EXCEPT ![Setting(o)] = Value(o)] \in Config
      BY SettingIsConfig
    <3> QED BY <1>7, <3>1, WriteBegins DEF save
  <2>3. DiskOK'
    BY <1>7 DEF save, files, DiskOK
  <2> QED BY <2>1, <2>2, <2>3
<1>8. ASSUME NEW o \in Op,
             \/ \E k \in {"put_prompt_context", "upsert_agent", "delete_agent"} : Request(o, k)
             \/ change_registry(o) \/ saved(o) \/ save_fails(o) \/ replace_context_settings(o)
      PROVE Inv'
  <2>1. memory' = memory /\ disk' = disk /\ after' = after /\ (io' = io \/ io' = NoIo)
    BY <1>8
       DEF Request, change_registry, saved, save_fails, replace_context_settings, files, running
  <2> QED BY <2>1, NoWrite DEF IoOK, DiskOK
<1>9. ASSUME refresh_agents_on_startup PROVE Inv'
  <2>1. disk' = disk /\ after' = after
    BY <1>9 DEF refresh_agents_on_startup, files
  <2>2. \A a \in {load.agent, None, Detected} : [load EXCEPT !.agent = a] \in Config
    BY LoadIsConfig DEF Config
  <2>3. memory' \in Config /\ (io' = io \/ Write("config", memory'))
    BY <1>9, <2>2 DEF refresh_agents_on_startup
  <2>4. IoOK'
    <3>1. CASE io' = io
      BY <3>1 DEF IoOK
    <3>2. CASE Write("config", memory')
      BY <2>3, <3>2, WriteBegins
    <3> QED BY <2>3, <3>1, <3>2
  <2> QED BY <2>1, <2>3, <2>4 DEF DiskOK
<1>10. ASSUME refreshed \/ compose \/ pair_written \/ load_tls_acceptor \/ provisioning_fails
       PROVE Inv'
  <2>1. memory' = memory /\ disk' = disk /\ after' = after /\ (io' = io \/ io' = NoIo)
    BY <1>10
       DEF refreshed, compose, pair_written, load_tls_acceptor, provisioning_fails, files, running
  <2> QED BY <2>1, NoWrite DEF IoOK, DiskOK
<1>11. ASSUME ensure_self_signed \/ write_key PROVE Inv'
  <2>1. /\ memory' = memory /\ disk' = disk /\ after' = after
        /\ io' = io \/ Write("cert", newPair') \/ Write("key", newPair)
    BY <1>11 DEF ensure_self_signed, write_key, files, running
  <2>2. IoOK'
    BY <2>1 DEF IoOK, Write
  <2> QED BY <2>1, <2>2 DEF DiskOK
<1>12. ASSUME Crash PROVE Inv'
  <2>1. memory' = memory /\ disk' = disk /\ after' = after /\ io' = NoIo
    BY <1>12 DEF Crash, Dies, files, running
  <2> QED BY <2>1, NoWrite DEF DiskOK
<1>13. ASSUME PowerLoss PROVE Inv'
  <2>1. memory' = memory /\ io' = NoIo
    BY <1>13 DEF PowerLoss, Dies, running
  <2>2. DiskOK'
    BY <1>13 DEF PowerLoss, DiskOK, File
  <2> QED BY <2>1, <2>2, NoWrite
<1>14. ASSUME NEW f \in {"cert", "key"}, Delete(f) PROVE Inv'
  <2>1. memory' = memory /\ io' = io
    BY <1>14 DEF Delete, running
  <2>2. DiskOK'
    BY <1>14 DEF Delete, DiskOK, File
  <2> QED BY <2>1, <2>2 DEF IoOK
<1> QED
  BY <1>1, <1>2, <1>3, <1>4, <1>5, <1>6, <1>7, <1>8, <1>9, <1>10, <1>11, <1>12, <1>13, <1>14
     DEF Next

LEMMA InitInv == Init => Inv
BY DEF Init, Inv, IoOK, DiskOK, Config, File, NoIo

\* What memory, the write under way and config.toml hold are configurations, and
\* nothing is renamed before it is on the disk (fsutil/mod.rs:69-74).
THEOREM Invariance == Spec => []Inv
<1>1. Inv /\ [Next]_vars => Inv'
  BY StepInv
<1> QED
  BY InitInv, <1>1, PTL DEF Spec

------------------------------------------------------------------------------
(* The refinement                                                              *)

\* A step that leaves config.toml and what may become of it alone is a stutter.
LEMMA Stutter ==
    ASSUME disk'["config"] = disk["config"], after'["config"] = after["config"]
    PROVE  UNCHANGED Durable!vars
BY DEF Durable!vars

LEMMA StepRefines == Inv /\ [Next]_vars => [Durable!Next]_(Durable!vars)
<1> SUFFICES ASSUME Inv, [Next]_vars
             PROVE  [Durable!Next]_(Durable!vars)
  OBVIOUS
<1> USE DEF Inv
<1>1. ASSUME UNCHANGED files PROVE [Durable!Next]_(Durable!vars)
  BY <1>1, Stutter DEF files
<1>2. ASSUME commit PROVE [Durable!Next]_(Durable!vars)
  <2>1. CASE io.file = "config"
    <3>1. disk'["config"] = io.content /\ io.content \in Config
      BY <1>2, <2>1 DEF commit, IoOK, DiskOK, File
    <3>2. after'["config"] = after["config"] \union {disk'["config"]}
      BY <1>2, <2>1, <3>1 DEF commit, IoOK, DiskOK, File
    <3>3. Durable!Replace
      BY <3>1, <3>2 DEF Durable!Replace
    <3> QED BY <3>3 DEF Durable!Next
  <2>2. CASE io.file # "config"
    <3>1. disk'["config"] = disk["config"] /\ after'["config"] = after["config"]
      BY <1>2, <2>2 DEF commit, DiskOK, File
    <3> QED BY <3>1, Stutter
  <2> QED BY <2>1, <2>2
<1>3. ASSUME sync_dir PROVE [Durable!Next]_(Durable!vars)
  <2>1. disk' = disk
    BY <1>3 DEF sync_dir
  <2>2. after'["config"] \in {after["config"], {disk["config"]}}
    BY <1>3 DEF sync_dir, File
  <2>3. CASE after'["config"] = after["config"]
    BY <2>1, <2>3, Stutter
  <2>4. CASE after'["config"] = {disk["config"]}
    <3>1. Durable!Settle
      BY <2>1, <2>4 DEF Durable!Settle
    <3> QED BY <3>1 DEF Durable!Next
  <2> QED BY <2>2, <2>3, <2>4
<1>4. ASSUME PowerLoss PROVE [Durable!Next]_(Durable!vars)
  <2>1. Durable!PowerLoss
    BY <1>4 DEF PowerLoss, Durable!PowerLoss, File
  <2> QED BY <2>1 DEF Durable!Next
<1>5. ASSUME NEW f \in {"cert", "key"}, Delete(f) PROVE [Durable!Next]_(Durable!vars)
  <2>1. disk'["config"] = disk["config"] /\ after'["config"] = after["config"]
    BY <1>5 DEF Delete, DiskOK, File
  <2> QED BY <2>1, Stutter
<1>6. \/ UNCHANGED files \/ commit \/ sync_dir \/ PowerLoss
      \/ \E f \in {"cert", "key"} : Delete(f)
  BY
     DEF Next, vars, files, write_all, sync_all, write_fails, Request, change_registry, save,
         saved,
         save_fails, replace_context_settings, refresh_agents_on_startup, refreshed, compose,
         ensure_self_signed, write_key, pair_written, load_tls_acceptor, provisioning_fails, Crash
<1> QED BY <1>1, <1>2, <1>3, <1>4, <1>5, <1>6

\* config.toml is replaced as a whole: a reader, and the daemon that starts after
\* a crash or a power loss, find the old or the new one (fsutil/mod.rs:36-38).
THEOREM ConfigImplementsDurableFile == Spec => ConfigIsDurable
<1>1. Init => Durable!Init
  BY DEF Init, Durable!Init, File
<1>2. Inv /\ [Next]_vars => [Durable!Next]_(Durable!vars)
  BY StepRefines
<1> QED
  BY <1>1, <1>2, Invariance, PTL DEF Spec, ConfigIsDurable, Durable!Spec

------------------------------------------------------------------------------
(* What the daemon works with is what it has stored                            *)

Active(o) == op[o].at \notin {"idle", "done"}

OpType == /\ op \in [Op -> [kind : {"none", "put_prompt_context", "upsert_agent", "delete_agent"},
                            at : {"idle", "called", "registered", "saving", "saved", "done"}]]
          /\ \A o \in Op : /\ At(o, "registered") => Setting(o) = "agent"
                           /\ At(o, "saved") => Setting(o) = "context"

\* No request outlives the daemon that serves it.
OnlyWhenUp == daemon # "up" => \A o \in Op : ~Active(o)

\* Two requests under way that change the same setting are remembered.
NoOtherChange ==
    \A o, p \in Op : Active(o) /\ Active(p) /\ o # p /\ Setting(o) = Setting(p) =>
        Setting(o) \in crossed

\* From Daemon::new on, the registry is ahead of memory by a request that has
\* changed only the one, and the pipeline is behind it by one that changed it.
Composed == daemon \in {"binding", "cert", "key", "loading", "up"}
AgentFollows ==
    Composed /\ "agent" \notin crossed =>
        /\ \A o \in Op : At(o, "registered") => registry = Value(o)
        /\ (\A o \in Op : ~At(o, "registered")) => registry = memory.agent
ContextFollows ==
    Composed /\ "context" \notin crossed =>
        LET Behind == {o \in Op : Setting(o) = "context" /\ op[o].at \in {"saving", "saved"}} IN
        /\ \A o \in Behind : memory.context = Value(o)
        /\ Behind = {} => live = memory.context

\* The inductive invariant of the requests.
RequestInv == OpType /\ OnlyWhenUp /\ NoOtherChange /\ AgentFollows /\ ContextFollows

\* What is on the disk may be what survives.
Survives == \A f \in File : disk[f] \in after[f] /\ IsFiniteSet(after[f])

\* Only the start writes the pair, one file after the other.
PairWrites ==
    /\ DOMAIN disk = File /\ DOMAIN after = File
    /\ daemon \notin {"cert", "key"} => io.file \notin {"cert", "key"}
    /\ daemon = "cert" => io.file = "cert"
    /\ daemon = "key" => io.file = "key" /\ disk["cert"] = newPair
    /\ daemon \in {"cert", "key"} =>
          /\ io.content = newPair
          /\ io.stage \in {"renamed", "done"} => disk[io.file] = newPair
          /\ io.stage = "synced" => io.synced

\* A pair that a start would use as it is belongs together.
PairOK == Missing \in Pair \/ disk["cert"] = disk["key"] \/ cut
PairKept ==
    /\ daemon \notin {"cert", "key"} => PairOK
    /\ daemon = "cert" /\ io.stage \notin {"renamed", "done"} => PairOK

\* The inductive invariant of the certificate and its key.
PairInv == Survives /\ PairWrites /\ PairKept

\* A request that goes on changes neither what it is about nor another request.
LEMMA GoesOn ==
    ASSUME OpType, NEW o \in Op, NEW pc \in {"called", "registered", "saving", "saved", "done"},
           Goto(o, pc), pc = "registered" => Setting(o) = "agent",
           pc = "saved" => Setting(o) = "context"
    PROVE  /\ OpType'
           /\ op'[o].at = pc /\ \A p \in Op \ {o} : op'[p] = op[p]
           /\ \A p \in Op : Setting(p)' = Setting(p) /\ Value(p)' = Value(p)
<1>1. op' = [op EXCEPT ![o].at = pc]
  BY DEF Goto
<1>2. /\ op' \in [Op -> [kind : {"none", "put_prompt_context", "upsert_agent", "delete_agent"},
                         at : {"idle", "called", "registered", "saving", "saved", "done"}]]
      /\ op'[o].at = pc /\ op'[o].kind = op[o].kind /\ \A p \in Op \ {o} : op'[p] = op[p]
  BY <1>1 DEF OpType
<1>3. \A p \in Op : Setting(p)' = Setting(p) /\ Value(p)' = Value(p)
  BY <1>2 DEF Setting, Value
<1>4. \A p \in Op : /\ At(p, "registered")' => Setting(p)' = "agent"
                    /\ At(p, "saved")' => Setting(p)' = "context"
  BY <1>2, <1>3 DEF OpType, At
<1> QED
  BY <1>2, <1>3, <1>4 DEF OpType

LEMMA RequestSteps ==
    ASSUME RequestInv, memory \in Config, NEW o \in Op,
           \/ \E kind \in {"put_prompt_context", "upsert_agent", "delete_agent"} : Request(o, kind)
           \/ change_registry(o) \/ save(o) \/ saved(o) \/ save_fails(o)
           \/ replace_context_settings(o)
    PROVE  RequestInv'
<1> USE DEF RequestInv
<1>1. ASSUME NEW kind \in {"put_prompt_context", "upsert_agent", "delete_agent"}, Request(o, kind)
      PROVE  RequestInv'
  <2>1. /\ daemon' = "up" /\ daemon = "up" /\ op[o].at = "idle"
        /\ op' = [op EXCEPT ![o] = [kind |-> kind, at |-> "called"]]
        /\ crossed' = Crossing(o, kind)
        /\ UNCHANGED <<memory, live, registry>>
    BY <1>1 DEF Request, At, running
  <2>2. /\ op'[o] = [kind |-> kind, at |-> "called"]
        /\ \A p \in Op \ {o} : op'[p] = op[p]
        /\ op' \in [Op -> [kind : {"none", "put_prompt_context", "upsert_agent", "delete_agent"},
                           at : {"idle", "called", "registered", "saving", "saved", "done"}]]
    BY <2>1 DEF OpType
  <2>3. \A p \in Op \ {o} : Setting(p)' = Setting(p) /\ Value(p)' = Value(p)
    BY <2>2 DEF Setting, Value
  <2>4. OpType'
    BY <2>2, <2>3 DEF OpType, At
  <2>5. OnlyWhenUp'
    BY <2>1 DEF OnlyWhenUp
  <2>6. /\ crossed \subseteq crossed'
        /\ \A p \in Op : Active(p) /\ Setting(p) = Setting(o)' => Setting(o)' \in crossed'
    BY <2>1, <2>2 DEF Crossing, Active, At, Setting
  <2>7. NoOtherChange'
    <3> SUFFICES ASSUME NEW p \in Op, NEW q \in Op, Active(p)', Active(q)', p # q,
                        Setting(p)' = Setting(q)'
                 PROVE  Setting(p)' \in crossed'
      BY DEF NoOtherChange
    <3>1. CASE p # o /\ q # o
      BY <2>2, <2>3, <2>6, <3>1 DEF NoOtherChange, Active
    <3>2. CASE p = o
      BY <2>2, <2>3, <2>6, <3>2 DEF Active
    <3>3. CASE q = o
      BY <2>2, <2>3, <2>6, <3>3 DEF Active
    <3> QED
      BY <3>1, <3>2, <3>3
  <2>8. AgentFollows'
    BY <2>1, <2>2, <2>3, <2>6 DEF AgentFollows, Composed, At
  <2>9. ContextFollows'
    BY <2>1, <2>2, <2>3, <2>6 DEF ContextFollows, Composed
  <2> QED
    BY <2>4, <2>5, <2>7, <2>8, <2>9
<1>2. ASSUME change_registry(o) PROVE RequestInv'
  <2>1. /\ op[o].at = "called" /\ Setting(o) = "agent" /\ Goto(o, "registered")
        /\ registry' = Value(o) /\ UNCHANGED <<memory, live, crossed, daemon>>
    BY <1>2 DEF change_registry, At, Setting, history
  <2>2. /\ OpType' /\ op'[o].at = "registered" /\ \A p \in Op \ {o} : op'[p] = op[p]
        /\ \A p \in Op : Setting(p)' = Setting(p) /\ Value(p)' = Value(p)
    BY <2>1, GoesOn
  <2>3. \A p \in Op : Active(p)' <=> Active(p)
    BY <2>1, <2>2 DEF Active
  <2>4. OnlyWhenUp' /\ NoOtherChange'
    BY <2>1, <2>2, <2>3 DEF OnlyWhenUp, NoOtherChange
  <2>5. AgentFollows'
    <3>1. ASSUME NEW p \in Op, p # o, At(p, "registered"), "agent" \notin crossed PROVE FALSE
      BY <2>1, <3>1 DEF NoOtherChange, Active, At, OpType
    <3> QED
      BY <2>1, <2>2, <3>1 DEF AgentFollows, Composed, At
  <2>6. ContextFollows'
    BY <2>1, <2>2 DEF ContextFollows, Composed
  <2> QED
    BY <2>2, <2>4, <2>5, <2>6
<1>3. ASSUME save(o) PROVE RequestInv'
  <2>1. /\ op[o].at = (IF Setting(o) = "context" THEN "called" ELSE "registered")
        /\ memory' = [memory EXCEPT ![Setting(o)] = Value(o)]
        /\ Goto(o, "saving") /\ UNCHANGED <<live, registry, crossed, daemon>>
    BY <1>3 DEF save, At, history
  <2>2. /\ OpType' /\ op'[o].at = "saving" /\ \A p \in Op \ {o} : op'[p] = op[p]
        /\ \A p \in Op : Setting(p)' = Setting(p) /\ Value(p)' = Value(p)
    BY <2>1, GoesOn
  <2>3. \A p \in Op : Active(p)' <=> Active(p)
    BY <2>1, <2>2 DEF Active
  <2>4. OnlyWhenUp' /\ NoOtherChange'
    BY <2>1, <2>2, <2>3 DEF OnlyWhenUp, NoOtherChange
  <2>5. Setting(o) \in {"context", "agent"} /\ Active(o)
    BY <2>1 DEF Setting, Active
  <2>6. /\ Setting(o) = "context" => memory'.context = Value(o) /\ memory'.agent = memory.agent
        /\ Setting(o) = "agent" => memory'.agent = Value(o) /\ memory'.context = memory.context
    BY <2>1 DEF Config
  <2>7. ASSUME NEW p \in Op, p # o, Active(p), Setting(o) \notin crossed
        PROVE  Setting(p) # Setting(o)
    BY <2>5, <2>7 DEF NoOtherChange
  <2>8. CASE Setting(o) = "context"
    <3>1. AgentFollows'
      BY <2>1, <2>2, <2>6, <2>8 DEF AgentFollows, Composed, At
    <3>2. ContextFollows'
      BY <2>1, <2>2, <2>6, <2>7, <2>8 DEF ContextFollows, Composed, Active
    <3> QED
      BY <2>2, <2>4, <3>1, <3>2
  <2>9. CASE Setting(o) = "agent"
    <3>1. AgentFollows'
      BY <2>1, <2>2, <2>6, <2>7, <2>9 DEF AgentFollows, Composed, At, Active, OpType
    <3>2. ContextFollows'
      BY <2>1, <2>2, <2>6, <2>9 DEF ContextFollows, Composed
    <3> QED
      BY <2>2, <2>4, <3>1, <3>2
  <2> QED
    BY <2>5, <2>8, <2>9
<1>4. ASSUME saved(o) PROVE RequestInv'
  <2> DEFINE pc == IF Setting(o) = "context" THEN "saved" ELSE "done"
  <2>1. /\ op[o].at = "saving" /\ Goto(o, pc) /\ pc \in {"saved", "done"}
        /\ UNCHANGED <<memory, live, registry, crossed, daemon>>
        /\ pc = "saved" <=> Setting(o) = "context"
    BY <1>4 DEF saved, At, running, history
  <2> HIDE DEF pc
  <2>2. /\ OpType' /\ op'[o].at = pc /\ \A p \in Op \ {o} : op'[p] = op[p]
        /\ \A p \in Op : Setting(p)' = Setting(p) /\ Value(p)' = Value(p)
    BY <2>1, GoesOn
  <2>3. \A p \in Op : Active(p)' => Active(p)
    BY <2>1, <2>2 DEF Active
  <2>4. OnlyWhenUp' /\ NoOtherChange'
    BY <2>1, <2>2, <2>3 DEF OnlyWhenUp, NoOtherChange
  <2>5. AgentFollows'
    BY <2>1, <2>2 DEF AgentFollows, Composed, At
  <2>6. ContextFollows'
    BY <2>1, <2>2 DEF ContextFollows, Composed
  <2> QED
    BY <2>2, <2>4, <2>5, <2>6
<1>5. ASSUME save_fails(o) PROVE RequestInv'
  <2>1. /\ op[o].at = "saving" /\ Goto(o, "done")
        /\ crossed' = crossed \union ({Setting(o)} \intersect {"context"})
        /\ UNCHANGED <<memory, live, registry, daemon>>
    BY <1>5 DEF save_fails, At, running
  <2>2. /\ OpType' /\ op'[o].at = "done" /\ \A p \in Op \ {o} : op'[p] = op[p]
        /\ \A p \in Op : Setting(p)' = Setting(p) /\ Value(p)' = Value(p)
    BY <2>1, GoesOn
  <2>3. \A p \in Op : Active(p)' => Active(p)
    BY <2>1, <2>2 DEF Active
  <2>4. OnlyWhenUp' /\ NoOtherChange'
    BY <2>1, <2>2, <2>3 DEF OnlyWhenUp, NoOtherChange
  <2>5. AgentFollows'
    BY <2>1, <2>2 DEF AgentFollows, Composed, At
  <2>6. ContextFollows'
    BY <2>1, <2>2 DEF ContextFollows, Composed
  <2> QED
    BY <2>2, <2>4, <2>5, <2>6
<1>6. ASSUME replace_context_settings(o) PROVE RequestInv'
  <2>1. /\ op[o].at = "saved" /\ Goto(o, "done") /\ live' = Value(o)
        /\ UNCHANGED <<memory, registry, crossed, daemon>>
    BY <1>6 DEF replace_context_settings, At, history
  <2>2. /\ OpType' /\ op'[o].at = "done" /\ \A p \in Op \ {o} : op'[p] = op[p]
        /\ \A p \in Op : Setting(p)' = Setting(p) /\ Value(p)' = Value(p)
    BY <2>1, GoesOn
  <2>3. \A p \in Op : Active(p)' => Active(p)
    BY <2>1, <2>2 DEF Active
  <2>4. OnlyWhenUp' /\ NoOtherChange'
    BY <2>1, <2>2, <2>3 DEF OnlyWhenUp, NoOtherChange
  <2>5. AgentFollows'
    BY <2>1, <2>2 DEF AgentFollows, Composed, At
  <2>6. ContextFollows'
    <3>1. Setting(o) = "context" /\ Active(o)
      BY <2>1 DEF OpType, At, Active
    <3>2. ASSUME NEW p \in Op, p # o, Active(p), "context" \notin crossed
          PROVE  Setting(p) # "context"
      BY <3>1, <3>2 DEF NoOtherChange
    <3> QED
      BY <2>1, <2>2, <3>1, <3>2 DEF ContextFollows, Composed, Active
  <2> QED
    BY <2>2, <2>4, <2>5, <2>6
<1> QED
  BY <1>1, <1>2, <1>3, <1>4, <1>5, <1>6

\* A step of the start changes nothing a request does, and none is under way.
LEMMA StartKeeps ==
    ASSUME RequestInv, UNCHANGED <<op, crossed>>, daemon' = daemon \/ daemon # "up",
           Composed' => Composed /\ UNCHANGED <<memory, live, registry>>
    PROVE  RequestInv'
<1>1. \A p \in Op : Setting(p)' = Setting(p) /\ Value(p)' = Value(p)
  BY DEF Setting, Value
<1>2. OpType' /\ OnlyWhenUp' /\ NoOtherChange'
  BY <1>1 DEF RequestInv, OpType, OnlyWhenUp, NoOtherChange, Active, At
<1>3. AgentFollows' /\ ContextFollows'
  BY <1>1 DEF RequestInv, AgentFollows, ContextFollows, At
<1> QED
  BY <1>2, <1>3 DEF RequestInv

LEMMA RequestStep == Inv /\ RequestInv /\ [Next]_vars => RequestInv'
<1> SUFFICES ASSUME Inv, RequestInv, [Next]_vars PROVE RequestInv'
  OBVIOUS
<1>1. ASSUME NEW o \in Op,
             \/ \E kind \in {"put_prompt_context", "upsert_agent", "delete_agent"} : Request(o, kind)
             \/ change_registry(o) \/ save(o) \/ saved(o) \/ save_fails(o)
             \/ replace_context_settings(o)
      PROVE  RequestInv'
  BY <1>1, RequestSteps DEF Inv
<1>2. ASSUME \/ write_all \/ sync_all \/ commit \/ sync_dir \/ write_fails
             \/ \E f \in {"cert", "key"} : Delete(f)
             \/ UNCHANGED vars
      PROVE  RequestInv'
  <2>1. UNCHANGED <<op, crossed, daemon, memory, live, registry>>
    BY <1>2 DEF write_all, sync_all, commit, sync_dir, write_fails, Delete, vars, running, history
  <2> QED
    BY <2>1, StartKeeps DEF Composed
<1>3. ASSUME \/ ensure_self_signed \/ write_key \/ pair_written \/ load_tls_acceptor
             \/ provisioning_fails
      PROVE  RequestInv'
  <2>1. /\ UNCHANGED <<op, crossed, memory, live, registry>>
        /\ daemon \in {"binding", "cert", "key", "loading"}
    BY <1>3
       DEF ensure_self_signed, write_key, pair_written, load_tls_acceptor, provisioning_fails,
                running, history
  <2> QED
    BY <2>1, StartKeeps DEF Composed
<1>4. ASSUME refresh_agents_on_startup \/ refreshed PROVE RequestInv'
  <2>1. /\ UNCHANGED <<op, crossed>> /\ daemon \in {"down", "refreshing"}
        /\ daemon' \in {"refreshing", "loaded"}
    BY <1>4 DEF refresh_agents_on_startup, refreshed, Step, history
  <2> QED
    BY <2>1, StartKeeps DEF Composed
<1>5. ASSUME compose PROVE RequestInv'
  <2>1. /\ UNCHANGED <<op, crossed, memory>> /\ daemon = "loaded" /\ daemon' = "binding"
        /\ registry' = memory.agent /\ live' = memory.context
    BY <1>5 DEF compose, Step, history
  <2>2. \A p \in Op : op[p].at \in {"idle", "done"}
    BY <2>1 DEF RequestInv, OnlyWhenUp, Active
  <2>3. \A p \in Op : Setting(p)' = Setting(p)
    BY <2>1 DEF Setting
  <2>4. OpType' /\ OnlyWhenUp' /\ NoOtherChange'
    BY <2>1, <2>2, <2>3 DEF RequestInv, OpType, OnlyWhenUp, NoOtherChange, Active, At
  <2>5. AgentFollows' /\ ContextFollows'
    BY <2>1, <2>2 DEF AgentFollows, ContextFollows, At
  <2> QED
    BY <2>4, <2>5 DEF RequestInv
<1>6. ASSUME Crash \/ PowerLoss PROVE RequestInv'
  <2>1. /\ daemon' = "down"
        /\ op' = [o \in Op |-> IF op[o].at = "idle" THEN op[o] ELSE [op[o] EXCEPT !.at = "done"]]
    BY <1>6 DEF Crash, PowerLoss, Dies, At
  <2>2. \A p \in Op : op'[p].at \in {"idle", "done"} /\ op'[p].kind = op[p].kind
    BY <2>1 DEF RequestInv, OpType
  <2>3. OpType'
    BY <2>1, <2>2 DEF RequestInv, OpType, At
  <2>4. OnlyWhenUp' /\ NoOtherChange'
    BY <2>1, <2>2 DEF OnlyWhenUp, NoOtherChange, Active
  <2>5. AgentFollows' /\ ContextFollows'
    BY <2>1 DEF AgentFollows, ContextFollows, Composed
  <2> QED
    BY <2>3, <2>4, <2>5 DEF RequestInv
<1> QED
  BY <1>1, <1>2, <1>3, <1>4, <1>5, <1>6 DEF Next

------------------------------------------------------------------------------
(* The certificate and its key                                                 *)

\* What a power loss leaves of a file that has one content is that content.
LEMMA OneSurvivor ==
    ASSUME NEW S, IsFiniteSet(S), ~(Cardinality(S) > 1), NEW x \in S, NEW y \in S
    PROVE  x = y
<1>1. Cardinality(S) \in Nat /\ Cardinality(S) # 0
  BY FS_CardinalityType, FS_EmptySet
<1>2. Cardinality(S) = 1
  BY <1>1
<1> QED
  BY <1>2, FS_Singleton

LEMMA PairStep == Inv /\ RequestInv /\ PairInv /\ [Next]_vars => PairInv'
<1> SUFFICES ASSUME Inv, RequestInv, PairInv, [Next]_vars PROVE PairInv'
  OBVIOUS
<1>0. /\ Pair = {disk["cert"], disk["key"]} /\ Pair' = {disk'["cert"], disk'["key"]}
      /\ "cert" \in File /\ "key" \in File
  BY DEF Pair, File
\* Nothing is written: the daemon is in the midst of no write, and of none after.
<1>1. ASSUME daemon \notin {"cert", "key"}, daemon' \notin {"cert", "key"},
             UNCHANGED <<files, cut>>, io' = io \/ io'.file \notin {"cert", "key"}
      PROVE  PairInv'
  BY <1>0, <1>1 DEF PairInv, Survives, PairWrites, PairKept, PairOK, files
<1>2. ASSUME write_all \/ sync_all \/ write_fails PROVE PairInv'
  <2>1. /\ io.stage \in {"open", "written", "synced"} /\ UNCHANGED <<files, newPair, cut, daemon>>
        /\ io'.file = io.file /\ io'.content = io.content
        /\ io'.stage \in {"written", "synced", "failed"} /\ (io'.stage = "synced" => io'.synced)
    BY <1>2 DEF write_all, sync_all, write_fails, history, Inv, IoOK
  <2> QED
    BY <1>0, <2>1 DEF PairInv, Survives, PairWrites, PairKept, PairOK, files
<1>3. ASSUME commit PROVE PairInv'
  <2>1. /\ io.stage = "synced" /\ disk' = [disk EXCEPT ![io.file] = io.content]
        /\ after' = [after EXCEPT ![io.file] = @ \union {IF io.synced THEN io.content ELSE Torn}]
        /\ io'.file = io.file /\ io'.content = io.content /\ io'.stage = "renamed"
        /\ UNCHANGED <<newPair, cut, daemon>>
    BY <1>3 DEF commit, history, Inv, IoOK
  <2>2. io.file \in File => io.synced
    BY <2>1 DEF PairInv, PairWrites, Inv, IoOK, File
  <2>3. DOMAIN disk' = File /\ DOMAIN after' = File
    BY <2>1 DEF PairInv, PairWrites
  <2>4. \A f \in File : \/ f # io.file /\ disk'[f] = disk[f] /\ after'[f] = after[f]
                        \/ f = io.file /\ disk'[f] = io.content /\ after'[f] = after[f] \union {io.content}
    BY <2>1, <2>2 DEF PairInv, PairWrites
  <2>5. Survives'
    BY <2>4, FS_AddElement DEF PairInv, Survives
  <2>6. PairWrites'
    BY <1>0, <2>1, <2>3, <2>4 DEF PairInv, PairWrites
  <2>7. PairKept'
    BY <1>0, <2>1, <2>4 DEF PairInv, PairWrites, PairKept, PairOK
  <2> QED
    BY <2>5, <2>6, <2>7 DEF PairInv
<1>4. ASSUME sync_dir PROVE PairInv'
  <2>1. /\ io.stage = "renamed" /\ UNCHANGED <<disk, newPair, cut, daemon>>
        /\ io'.file = io.file /\ io'.content = io.content /\ io'.stage = "done"
        /\ \/ after' = after
           \/ after' = [f \in File |-> IF f \in SameDir(io.file) THEN {disk[f]} ELSE after[f]]
    BY <1>4 DEF sync_dir, history, Inv, IoOK
  <2>2. DOMAIN after' = File /\ \A f \in File : after'[f] = after[f] \/ after'[f] = {disk[f]}
    BY <2>1 DEF PairInv, PairWrites
  <2>3. Survives'
    <3> SUFFICES ASSUME NEW f \in File PROVE disk'[f] \in after'[f] /\ IsFiniteSet(after'[f])
      BY DEF Survives
    <3>1. after'[f] = after[f] \/ after'[f] = {disk[f]}
      BY <2>2
    <3>2. disk'[f] = disk[f] /\ disk[f] \in after[f] /\ IsFiniteSet(after[f])
      BY <2>1 DEF PairInv, Survives
    <3>3. IsFiniteSet({disk[f]})
      BY FS_Singleton
    <3> QED
      BY <3>1, <3>2, <3>3
  <2>4. PairWrites' /\ PairKept'
    BY <1>0, <2>1, <2>2 DEF PairInv, PairWrites, PairKept, PairOK
  <2> QED
    BY <2>3, <2>4 DEF PairInv
<1>5. ASSUME NEW o \in Op,
             \/ \E k \in {"put_prompt_context", "upsert_agent", "delete_agent"} : Request(o, k)
             \/ change_registry(o) \/ replace_context_settings(o)
             \/ save(o) \/ saved(o) \/ save_fails(o)
      PROVE  PairInv'
  <2>1. daemon = "up" \/ Active(o)
    BY <1>5
       DEF Request, change_registry, replace_context_settings, save, saved, save_fails, At, Active
  <2>2. daemon = "up"
    BY <2>1 DEF RequestInv, OnlyWhenUp
  <2>3. /\ UNCHANGED <<files, cut, daemon>>
        /\ io' = io \/ io'.file = "none" \/ io'.file = "config"
    BY <1>5 DEF Request, change_registry, replace_context_settings, save, saved, save_fails,
                history, Write, NoIo
  <2> QED
    BY <1>1, <2>2, <2>3
<1>6. ASSUME refresh_agents_on_startup \/ refreshed \/ compose \/ load_tls_acceptor PROVE PairInv'
  <2>1. /\ UNCHANGED <<files, cut>>
        /\ daemon \in {"down", "refreshing", "loaded", "loading"}
        /\ daemon' \in {"refreshing", "loaded", "binding", "up", "down"}
        /\ io' = io \/ io'.file = "none" \/ io'.file = "config"
    BY <1>6 DEF refresh_agents_on_startup, refreshed, compose, load_tls_acceptor, history, Write,
                NoIo, Step
  <2> QED
    BY <1>1, <2>1
<1>7. ASSUME ensure_self_signed PROVE PairInv'
  <2>1. UNCHANGED <<files, cut>> /\ daemon = "binding"
    BY <1>7 DEF ensure_self_signed, history
  <2>2. CASE daemon' = "loading" /\ io' = io
    BY <1>1, <2>1, <2>2
  <2>3. CASE daemon' = "cert" /\ Write("cert", newPair')
    BY <1>0, <2>1, <2>3 DEF PairInv, Survives, PairWrites, PairKept, PairOK, files, Write
  <2> QED
    BY <1>7, <2>2, <2>3 DEF ensure_self_signed, Step
<1>8. ASSUME write_key PROVE PairInv'
  <2>1. /\ UNCHANGED <<disk, after, cut, newPair>> /\ daemon = "cert" /\ io.stage = "done"
        /\ Write("key", newPair) /\ daemon' = "key"
    BY <1>8 DEF write_key, history, files, Written, Step
  <2> QED
    BY <1>0, <2>1 DEF PairInv, Survives, PairWrites, PairKept, PairOK, Write
<1>9. ASSUME pair_written PROVE PairInv'
  <2>1. /\ UNCHANGED <<disk, after, cut, newPair>> /\ daemon = "key" /\ io.stage = "done"
        /\ io' = NoIo /\ daemon' = "loading"
    BY <1>9 DEF pair_written, history, files, Written, Step
  <2> QED
    BY <1>0, <2>1 DEF PairInv, Survives, PairWrites, PairKept, PairOK, NoIo
<1>10. ASSUME provisioning_fails PROVE PairInv'
  <2>1. /\ UNCHANGED <<disk, after, newPair>> /\ daemon \in {"cert", "key"} /\ io.stage = "failed"
        /\ io' = NoIo /\ daemon' = "down"
        /\ cut' = (cut \/ (daemon = "key" /\ disk["key"] # Missing))
    BY <1>10 DEF provisioning_fails, files, Failed, Step
  <2> QED
    BY <1>0, <2>1 DEF PairInv, Survives, PairWrites, PairKept, PairOK, NoIo
<1>11. ASSUME Crash PROVE PairInv'
  <2>1. /\ UNCHANGED <<disk, after>> /\ io' = NoIo /\ daemon' = "down"
        /\ cut' = (cut \/ (daemon \in {"cert", "key"} /\ disk["key"] # Missing))
    BY <1>11 DEF Crash, Dies, CutShort, files
  <2> QED
    BY <1>0, <2>1 DEF PairInv, Survives, PairWrites, PairKept, PairOK, NoIo
<1>12. ASSUME PowerLoss PROVE PairInv'
  <2>1. /\ DOMAIN disk' = File /\ \A f \in File : disk'[f] \in after[f]
        /\ after' = [f \in File |-> {disk'[f]}] /\ io' = NoIo /\ daemon' = "down"
        /\ cut' = (CutShort \/ \E f \in {"cert", "key"} : Cardinality(after[f]) > 1)
    BY <1>12 DEF PowerLoss, Dies
  <2>2. Survives' /\ PairWrites'
    BY <2>1, FS_Singleton DEF Survives, PairWrites, NoIo
  <2>3. PairOK'
    <3> SUFFICES ASSUME ~cut' PROVE PairOK'
      BY DEF PairOK
    <3>1. ~CutShort /\ \A f \in {"cert", "key"} : ~(Cardinality(after[f]) > 1)
      BY <2>1
    <3>2. \A f \in {"cert", "key"} : disk'[f] = disk[f]
      BY <1>0, <2>1, <3>1, OneSurvivor DEF PairInv, Survives
    <3> QED
      BY <1>0, <3>1, <3>2 DEF CutShort, PairInv, PairKept, PairOK
  <2> QED
    BY <2>1, <2>2, <2>3 DEF PairInv, PairKept
<1>13. ASSUME NEW f \in {"cert", "key"}, Delete(f) PROVE PairInv'
  <2>1. /\ disk' = [disk EXCEPT ![f] = Missing] /\ after' = [after EXCEPT ![f] = {Missing}]
        /\ UNCHANGED <<io, daemon, newPair, cut>> /\ daemon = "down"
    BY <1>13 DEF Delete, history
  <2>2. Survives'
    BY <1>0, <2>1, FS_Singleton DEF PairInv, Survives, PairWrites
  <2>3. PairWrites' /\ PairKept'
    BY <1>0, <2>1 DEF PairInv, PairWrites, PairKept, PairOK
  <2> QED
    BY <2>2, <2>3 DEF PairInv
<1>14. ASSUME UNCHANGED vars PROVE PairInv'
  BY <1>0, <1>14 DEF PairInv, Survives, PairWrites, PairKept, PairOK, vars
<1> QED
  BY <1>2, <1>3, <1>4, <1>5, <1>6, <1>7, <1>8, <1>9, <1>10, <1>11, <1>12, <1>13, <1>14 DEF Next

LEMMA InitPair == Init => RequestInv /\ PairInv
<1> SUFFICES ASSUME Init PROVE RequestInv /\ PairInv
  OBVIOUS
<1>1. RequestInv
  BY DEF Init, RequestInv, OpType, OnlyWhenUp, NoOtherChange, AgentFollows, ContextFollows,
         Composed, NoOp, At, Active
<1>2. Survives
  BY FS_Singleton DEF Init, Survives
<1>3. PairWrites /\ PairKept
  BY DEF Init, PairWrites, PairKept, PairOK, Pair, File, NoIo
<1> QED
  BY <1>1, <1>2, <1>3 DEF PairInv

\* When no request is under way the registry and the pipeline use what is stored,
\* but for settings that two requests changed at once or that could not be saved
\* (agents.rs, settings.rs); and a certificate that a start would use has its own
\* key, unless a start was cut short between the two files (tls_cert.rs).
THEOREM StoredIsUsed == Spec => []SettingsAgree
<1>1. Inv /\ RequestInv /\ PairInv /\ [Next]_vars => RequestInv' /\ PairInv'
  BY RequestStep, PairStep
<1>2. RequestInv /\ PairInv => SettingsAgree
  <2> SUFFICES ASSUME RequestInv, PairInv PROVE SettingsAgree
    OBVIOUS
  <2>1. LiveIsStored
    BY DEF RequestInv, AgentFollows, ContextFollows, Composed, LiveIsStored, At
  <2>2. PairMatches
    BY DEF PairInv, PairKept, PairOK, PairMatches
  <2> QED
    BY <2>1, <2>2 DEF SettingsAgree
<1> QED
  BY <1>1, <1>2, Invariance, InitPair, PTL DEF Spec

-----------------------------------------------------------------------------
(* The images of sessions                                                      *)

\* A set of numbers that is not empty has a least one.
LEMMA Least ==
    ASSUME NEW T, T \subseteq Nat, T # {}
    PROVE  \E x \in T : \A y \in T : x <= y
  <1>1. PICK x \in T : \A y \in T : ~(<<y, x>> \in OpToRel(<, Nat))
    BY NatLessThanWellFounded, WFMin, Zenon
  <1>2. \A y \in T : <<y, x>> \in OpToRel(<, Nat) <=> y < x
    BY DEF OpToRel
  <1>3. \A y \in T : ~(y < x)
    BY <1>1, <1>2
  <1> QED BY <1>3

\* Of finite sets one has the fewest elements.
LEMMA Smallest ==
    ASSUME NEW C, C # {}, \A F \in C : IsFiniteSet(F)
    PROVE  \E F \in C : \A G \in C : Cardinality(F) <= Cardinality(G)
  <1> DEFINE T == {Cardinality(F) : F \in C}
  <1>1. T \subseteq Nat /\ T # {}
    BY FS_CardinalityType
  <1>2. PICK n \in T : \A k \in T : n <= k
    BY <1>1, Least
  <1> QED BY <1>2

\* Without one of its elements it has fewer.
LEMMA Fewer ==
    ASSUME NEW F, IsFiniteSet(F), NEW x \in F
    PROVE  /\ IsFiniteSet(F \ {x}) /\ F \ {x} \subseteq F /\ F \ {x} # F
           /\ Cardinality(F) \in Nat /\ Cardinality(F \ {x}) \in Nat
           /\ Cardinality(F \ {x}) = Cardinality(F) - 1
  BY FS_RemoveElement, FS_CardinalityType

\* The sum of the sizes of a set of files, as Images!SizeOf counts them.
Chosen(s) == CHOOSE x \in s : TRUE
SumsTo(h, S) ==
    h = [s \in S |-> IF s = {} THEN 0 ELSE Chosen(s).size + h[s \ {Chosen(s)}]]
Sums(F) == CHOOSE h : SumsTo(h, SUBSET F)

LEMMA SizeIs == \A F : Images!SizeOf(F) = Sums(F)[F]
  BY DEF Images!SizeOf, Images!MapThenSumSet, Images!MapThenFoldSet, Sums, SumsTo, Chosen

\* What is chosen is there.
LEMMA ChosenIs == \A s : s # {} => Chosen(s) \in s
  BY DEF Chosen

\* The subsets of F with at most n elements.
UpTo(F, n) == {s \in SUBSET F : Cardinality(s) <= n}

\* For every n the sums of these exist: the least n without would have a
\* predecessor with.
LEMMA SumsUpTo ==
    ASSUME NEW F, IsFiniteSet(F)
    PROVE  \A n \in Nat : \E h : SumsTo(h, UpTo(F, n))
  <1> DEFINE T == {n \in Nat : ~\E h : SumsTo(h, UpTo(F, n))}
  <1> SUFFICES ASSUME T # {} PROVE FALSE
    OBVIOUS
  <1>1. PICK n \in T : \A k \in T : n <= k
    <2>1. T \subseteq Nat
      OBVIOUS
    <2> QED BY <2>1, Least
  <1>2. ASSUME NEW s \in SUBSET F
        PROVE  IsFiniteSet(s) /\ Cardinality(s) \in Nat /\ (Cardinality(s) <= 0 => s = {})
    BY FS_Subset, FS_CardinalityType, FS_EmptySet
  <1>3. n # 0
    <2>1. UpTo(F, 0) = {{}}
      BY <1>2, FS_EmptySet DEF UpTo
    <2>2. SumsTo([s \in {{}} |-> 0], UpTo(F, 0))
      BY <2>1 DEF SumsTo
    <2> QED BY <1>1, <2>2
  <1>4. n \in Nat /\ n - 1 \in Nat /\ n - 1 \notin T
    BY <1>1, <1>3
  <1>5. PICK g : SumsTo(g, UpTo(F, n - 1))
    BY <1>4
  <1> DEFINE h == [s \in UpTo(F, n) |-> IF s = {} THEN 0 ELSE Chosen(s).size + g[s \ {Chosen(s)}]]
  <1>6. ASSUME NEW s \in UpTo(F, n), s # {}
        PROVE  g[s \ {Chosen(s)}] = h[s \ {Chosen(s)}]
    <2>1. PICK t : t = s \ {Chosen(s)}
      OBVIOUS
    <2>2. s \in SUBSET F /\ Chosen(s) \in s
      BY <1>6, ChosenIs DEF UpTo
    <2>3. t \in UpTo(F, n - 1) /\ t \in UpTo(F, n)
      BY <1>2, <1>4, <2>1, <2>2, Fewer DEF UpTo
    <2>4. g[t] = IF t = {} THEN 0 ELSE Chosen(t).size + g[t \ {Chosen(t)}]
      BY <1>5, <2>3 DEF SumsTo
    <2> QED BY <2>1, <2>3, <2>4
  <1>7. SumsTo(h, UpTo(F, n))
    <2>1. h = [s \in UpTo(F, n) |-> IF s = {} THEN 0 ELSE Chosen(s).size + h[s \ {Chosen(s)}]]
      BY <1>6
    <2> HIDE DEF h
    <2> QED BY <2>1 DEF SumsTo
  <1> HIDE DEF h
  <1> QED BY <1>1, <1>7

\* So the recursion computes what it says.
LEMMA SumsAre ==
    ASSUME NEW F, IsFiniteSet(F)
    PROVE  SumsTo(Sums(F), SUBSET F)
  <1>1. UpTo(F, Cardinality(F)) = SUBSET F /\ Cardinality(F) \in Nat
    BY FS_Subset, FS_CardinalityType DEF UpTo
  <1>2. \E h : SumsTo(h, SUBSET F)
    BY <1>1, SumsUpTo
  <1> QED BY <1>2 DEF Sums

\* Of a smaller set they are the same.
LEMMA SumsAgree ==
    ASSUME NEW F, IsFiniteSet(F), NEW G \in SUBSET F
    PROVE  \A s \in SUBSET G : Sums(F)[s] = Sums(G)[s]
  <1> DEFINE C == {s \in SUBSET G : Sums(F)[s] # Sums(G)[s]}
  <1> SUFFICES ASSUME C # {} PROVE FALSE
    OBVIOUS
  <1>1. IsFiniteSet(G) /\ \A s \in SUBSET G : IsFiniteSet(s)
    BY FS_Subset
  <1>2. PICK s \in C : \A t \in C : Cardinality(s) <= Cardinality(t)
    BY <1>1, Smallest
  <1>3. s \in SUBSET F /\ s \in SUBSET G /\ IsFiniteSet(s)
    BY <1>1, <1>2
  <1>4. /\ Sums(F)[s] = IF s = {} THEN 0 ELSE Chosen(s).size + Sums(F)[s \ {Chosen(s)}]
        /\ Sums(G)[s] = IF s = {} THEN 0 ELSE Chosen(s).size + Sums(G)[s \ {Chosen(s)}]
    <2>1. SumsTo(Sums(F), SUBSET F) /\ SumsTo(Sums(G), SUBSET G)
      BY <1>1, SumsAre
    <2> QED BY <1>3, <2>1 DEF SumsTo
  <1>5. CASE s = {}
    BY <1>2, <1>4, <1>5
  <1>6. CASE s # {}
    <2>1. PICK t : t = s \ {Chosen(s)}
      OBVIOUS
    <2>2. t \in SUBSET G /\ ~(Cardinality(s) <= Cardinality(t))
      BY <1>3, <1>6, <2>1, ChosenIs, Fewer
    <2>3. Sums(F)[t] = Sums(G)[t]
      BY <1>2, <2>2
    <2> QED BY <1>2, <1>4, <1>6, <2>1, <2>3
  <1> QED BY <1>5, <1>6

\* No file has no size,
LEMMA SizeOfNone == Images!SizeOf({}) = 0
  <1>1. SumsTo(Sums({}), SUBSET {})
    BY SumsAre, FS_EmptySet
  <1> QED BY <1>1, SizeIs DEF SumsTo

\* and some files have that of one and of the others.
LEMMA SizeOfSome ==
    ASSUME NEW F, IsFiniteSet(F), F # {}
    PROVE  Images!SizeOf(F) = Chosen(F).size + Images!SizeOf(F \ {Chosen(F)})
  <1>1. PICK G : G = F \ {Chosen(F)}
    OBVIOUS
  <1>2. Sums(F)[F] = Chosen(F).size + Sums(F)[G]
    BY <1>1, SumsAre DEF SumsTo
  <1>3. Sums(F)[G] = Sums(G)[G]
    BY <1>1, SumsAgree
  <1> QED BY <1>1, <1>2, <1>3, SizeIs

-----------------------------------------------------------------------------
\* Files and their sizes.
Sized(F) == IsFiniteSet(F) /\ \A f \in F : f.size \in Nat

LEMMA SizedParts ==
    ASSUME NEW F, Sized(F), NEW G \in SUBSET F
    PROVE  Sized(G)
  BY FS_Subset DEF Sized

LEMMA SizeIsNat ==
    ASSUME NEW F, Sized(F)
    PROVE  Images!SizeOf(F) \in Nat
  <1> DEFINE C == {G \in SUBSET F : Images!SizeOf(G) \notin Nat}
  <1> SUFFICES ASSUME C # {} PROVE FALSE
    OBVIOUS
  <1>1. PICK G \in C : \A H \in C : Cardinality(G) <= Cardinality(H)
    BY Smallest, SizedParts DEF Sized
  <1>2. G \in SUBSET F /\ Sized(G) /\ G # {} /\ IsFiniteSet(G)
    BY <1>1, SizedParts, SizeOfNone DEF Sized
  <1>3. PICK x : x = Chosen(G)
    OBVIOUS
  <1>4. x \in G /\ G \ {x} \in SUBSET F /\ ~(Cardinality(G) <= Cardinality(G \ {x}))
    BY <1>2, <1>3, ChosenIs, Fewer
  <1>5. Images!SizeOf(G \ {x}) \in Nat
    BY <1>1, <1>4
  <1>6. Images!SizeOf(G) = x.size + Images!SizeOf(G \ {x}) /\ x.size \in Nat
    BY <1>2, <1>3, <1>4, SizeOfSome DEF Sized
  <1> QED BY <1>1, <1>5, <1>6

\* It does not matter which one is counted first.
LEMMA SizeOfOne ==
    ASSUME NEW F, Sized(F), NEW f \in F
    PROVE  Images!SizeOf(F) = f.size + Images!SizeOf(F \ {f})
  <1> DEFINE C == {G \in SUBSET F : \E g \in G : Images!SizeOf(G) # g.size + Images!SizeOf(G \ {g})}
  <1> SUFFICES ASSUME C # {} PROVE FALSE
    OBVIOUS
  <1>1. PICK G \in C : \A H \in C : Cardinality(G) <= Cardinality(H)
    BY Smallest, SizedParts DEF Sized
  <1>2. PICK g \in G : Images!SizeOf(G) # g.size + Images!SizeOf(G \ {g})
    BY <1>1
  <1>3. G \in SUBSET F /\ Sized(G) /\ G # {} /\ IsFiniteSet(G)
    BY <1>1, <1>2, SizedParts DEF Sized
  <1>4. PICK x : x = Chosen(G)
    OBVIOUS
  <1>5. x \in G /\ Images!SizeOf(G) = x.size + Images!SizeOf(G \ {x})
    BY <1>3, <1>4, ChosenIs, SizeOfSome DEF Sized
  <1>6. x # g
    BY <1>2, <1>5
  <1>7. /\ G \ {x} \notin C /\ G \ {g} \notin C
        /\ Sized(G \ {x}) /\ Sized(G \ {g})
    <2>1. ASSUME NEW y \in G
          PROVE  G \ {y} \notin C /\ Sized(G \ {y})
      <3>1. ~(Cardinality(G) <= Cardinality(G \ {y}))
        BY <1>3, Fewer
      <3> QED BY <1>1, <1>3, <3>1, SizedParts
    <2> QED BY <1>2, <1>5, <2>1
  <1>8. PICK K : K = G \ {x, g}
    OBVIOUS
  <1>9. Images!SizeOf(G \ {x}) = g.size + Images!SizeOf(K)
    <2>1. g \in G \ {x} /\ (G \ {x}) \ {g} = K /\ G \ {x} \in SUBSET F
      BY <1>3, <1>6, <1>8
    <2> QED BY <1>7, <2>1
  <1>10. Images!SizeOf(G \ {g}) = x.size + Images!SizeOf(K)
    <2>1. x \in G \ {g} /\ (G \ {g}) \ {x} = K /\ G \ {g} \in SUBSET F
      BY <1>3, <1>5, <1>6, <1>8
    <2> QED BY <1>7, <2>1
  <1>11. x.size \in Nat /\ g.size \in Nat /\ Images!SizeOf(K) \in Nat
    BY <1>3, <1>5, <1>8, SizedParts, SizeIsNat DEF Sized
  <1> QED BY <1>2, <1>5, <1>9, <1>10, <1>11

\* More files have no smaller size.
LEMMA SizeGrows ==
    ASSUME NEW F, Sized(F), NEW G \in SUBSET F
    PROVE  Images!SizeOf(G) <= Images!SizeOf(F)
  <1> DEFINE C == {H \in SUBSET F : \E K \in SUBSET H : ~(Images!SizeOf(K) <= Images!SizeOf(H))}
  <1> SUFFICES ASSUME C # {} PROVE FALSE
    OBVIOUS
  <1>1. PICK H \in C : \A J \in C : Cardinality(H) <= Cardinality(J)
    BY Smallest, SizedParts DEF Sized
  <1>2. PICK K \in SUBSET H : ~(Images!SizeOf(K) <= Images!SizeOf(H))
    BY <1>1
  <1>3. H \in SUBSET F /\ Sized(H) /\ Sized(K) /\ IsFiniteSet(H)
    BY <1>1, <1>2, SizedParts DEF Sized
  <1>4. K # H
    BY <1>2, <1>3, SizeIsNat
  <1>5. PICK f \in H : f \notin K
    BY <1>4
  <1>6. H \ {f} \in SUBSET F /\ H \ {f} \notin C /\ K \in SUBSET (H \ {f}) /\ Sized(H \ {f})
    <2>1. ~(Cardinality(H) <= Cardinality(H \ {f}))
      BY <1>3, <1>5, Fewer
    <2> QED BY <1>1, <1>3, <1>5, <2>1, SizedParts
  <1>7. Images!SizeOf(K) <= Images!SizeOf(H \ {f})
    BY <1>6
  <1>8. /\ Images!SizeOf(H) = f.size + Images!SizeOf(H \ {f}) /\ f.size \in Nat
        /\ Images!SizeOf(H \ {f}) \in Nat /\ Images!SizeOf(K) \in Nat /\ Images!SizeOf(H) \in Nat
    BY <1>3, <1>6, SizeOfOne, SizeIsNat DEF Sized
  <1> QED BY <1>2, <1>7, <1>8

\* One more file adds its size at most.
LEMMA SizeOfMore ==
    ASSUME NEW F, NEW f, Sized(F \union {f})
    PROVE  Images!SizeOf(F \union {f}) <= Images!SizeOf(F) + f.size
  <1>1. Sized(F) /\ f.size \in Nat
    BY SizedParts DEF Sized
  <1>2. PICK G : G = (F \union {f}) \ {f}
    OBVIOUS
  <1>3. Images!SizeOf(F \union {f}) = f.size + Images!SizeOf(G)
    BY <1>2, SizeOfOne
  <1>4. Images!SizeOf(G) <= Images!SizeOf(F)
    BY <1>1, <1>2, SizeGrows
  <1> QED BY <1>1, <1>2, <1>3, <1>4, SizedParts, SizeIsNat

-----------------------------------------------------------------------------
\* The requests there are: a prompt whose attachment was found finds it again, and
\* the files of a session go after its end.
UploadOK(o) ==
    \/ o = Images!Idle
    \/ o.kind = "upload" /\ o.session \in Session /\ o.size \in Size
    \/ o.kind = "prompt" /\ o.session \in Session /\ (o.session \in open => o.file \in stored[o.session])
    \/ o.kind = "close" /\ o.session \in Session \ open

\* Files belong to a session, and those that were reported have a name.
ImageTypes ==
    /\ stored = [s \in Session |-> stored[s]]
    /\ \A s \in Session : Sized(stored[s]) /\ \A f \in stored[s] : f.session = s
    /\ \A f \in counted : f.name \in 1..uploadCounts.files
    /\ uploadCounts = [files |-> uploadCounts.files, faults |-> uploadCounts.faults]
    /\ uploadCounts.files \in Nat
    /\ request = [r \in Caller |-> request[r]] /\ \A r \in Caller : UploadOK(request[r])

\* The total of a session covers what was reported for it.
Covered ==
    /\ totals = [s \in Session |-> totals[s]]
    /\ \A s \in Session : /\ totals[s] \in 0..SessionQuota
                          /\ Images!SizeOf(stored[s] \intersect counted) <= totals[s]

\* The inductive invariant of the uploads.
ImageInv == ImageTypes /\ Covered /\ ~misled

\* It holds at first.
LEMMA ImageInit == Images!Init => ImageInv
  <1> SUFFICES ASSUME Images!Init PROVE ImageInv
    OBVIOUS
  <1>1. \A s \in Session : stored[s] = {} /\ Sized(stored[s])
    BY FS_EmptySet DEF Images!Init, Sized
  <1>2. ImageTypes
    BY <1>1 DEF Images!Init, ImageTypes, UploadOK
  <1>3. \A s \in Session : stored[s] \intersect counted = {}
    BY <1>1
  <1>4. Covered
    BY <1>3, SizeOfNone, UploadAssumption DEF Images!Init, Images!new, Covered
  <1> QED BY <1>2, <1>4 DEF Images!Init, ImageInv

\* A step of one request, which goes on as o.
LEMMA RequestGoes ==
    ASSUME ImageTypes, NEW r \in Caller, NEW o, Images!Goto(r, o), UploadOK(o)',
           open' \subseteq open,
           \A q \in Caller \ {r} : request[q].kind = "prompt" /\ request[q].session \in open' =>
               stored[request[q].session] \subseteq stored'[request[q].session]
    PROVE  request' = [q \in Caller |-> request'[q]] /\ \A q \in Caller : UploadOK(request[q])'
  <1>1. request' = [request EXCEPT ![r] = o]
    BY DEF Images!Goto
  <1>2. request' = [q \in Caller |-> request'[q]] /\ request'[r] = o
    BY <1>1 DEF ImageTypes
  <1>3. ASSUME NEW q \in Caller \ {r}
        PROVE  UploadOK(request[q])'
    <2>1. PICK p : p = request[q]
      OBVIOUS
    <2>2. request'[q] = p /\ UploadOK(p)
      BY <1>1, <2>1 DEF ImageTypes
    <2>3. p.kind = "prompt" /\ p.session \in open' => stored[p.session] \subseteq stored'[p.session]
      BY <2>1
    <2> QED BY <2>2, <2>3 DEF UploadOK, Images!Idle
  <1> QED BY <1>2, <1>3

LEMMA IdleIs == UploadOK(Images!Idle) /\ UploadOK(Images!Idle)'
  BY DEF UploadOK, Images!Idle

\* A step that leaves the files alone.
LEMMA FilesStay ==
    ASSUME ImageInv, NEW r \in Caller, NEW o, Images!Goto(r, o), UploadOK(o)', open' \subseteq open,
           UNCHANGED <<stored, totals, counted>>, ~misled',
           uploadCounts' = uploadCounts \/ uploadCounts' = [uploadCounts EXCEPT !.faults = @ + 1]
    PROVE  ImageInv'
  <1>1. request' = [q \in Caller |-> request'[q]] /\ \A q \in Caller : UploadOK(request[q])'
    BY RequestGoes DEF ImageInv
  <1>2. /\ uploadCounts'.files = uploadCounts.files
        /\ uploadCounts' = [files |-> uploadCounts'.files, faults |-> uploadCounts'.faults]
    BY DEF ImageInv, ImageTypes
  <1>3. ImageTypes'
    BY <1>1, <1>2 DEF ImageInv, ImageTypes
  <1> QED BY <1>3 DEF ImageInv, Covered

\* Requests begin, which changes no file,
LEMMA UploadsBegin ==
    ASSUME ImageInv, NEW r \in Caller, NEW s \in Session,
           \/ \E size \in Size : Images!upload_file(r, s, size)
           \/ \E f \in stored[s] : Images!get(r, s, f)
           \/ Images!close_session(r, s)
    PROVE  ImageInv'
  <1>0. ~misled
    BY DEF ImageInv
  <1>1. ASSUME NEW size \in Size, Images!upload_file(r, s, size)
        PROVE  ImageInv'
    <2>1. PICK o : o = [kind |-> "upload", session |-> s, size |-> size]
      OBVIOUS
    <2>2. UploadOK(o)'
      BY <2>1 DEF UploadOK
    <2> QED BY <1>0, <1>1, <2>1, <2>2, FilesStay DEF Images!upload_file
  <1>2. ASSUME NEW f \in stored[s], Images!get(r, s, f)
        PROVE  ImageInv'
    <2>1. PICK o : o = [kind |-> "prompt", session |-> s, file |-> f]
      OBVIOUS
    <2>2. UploadOK(o)'
      BY <1>2, <2>1 DEF UploadOK, Images!get
    <2> QED BY <1>0, <1>2, <2>1, <2>2, FilesStay DEF Images!get
  <1>3. CASE Images!close_session(r, s)
    <2>1. PICK o : o = [kind |-> "close", session |-> s]
      OBVIOUS
    <2>2. UploadOK(o)'
      BY <1>3, <2>1 DEF UploadOK, Images!close_session
    <2> QED BY <1>0, <1>3, <2>1, <2>2, FilesStay DEF Images!close_session
  <1> QED BY <1>1, <1>2, <1>3

\* a prompt goes out, or its caller goes away;
LEMMA UploadsEnd ==
    ASSUME ImageInv, NEW r \in Caller, Images!send_prompt(r) \/ Images!Abandon(r)
    PROVE  ImageInv'
  <1>1. ~misled'
    <2>1. CASE Images!send_prompt(r)
      <3>1. request[r].kind = "prompt" /\ UploadOK(request[r])
        BY <2>1 DEF Images!send_prompt, ImageInv, ImageTypes
      <3>2. request[r].session \in open => request[r].file \in stored[request[r].session]
        BY <3>1 DEF UploadOK, Images!Idle
      <3> QED BY <2>1, <3>2 DEF Images!send_prompt, ImageInv
    <2>2. CASE Images!Abandon(r)
      BY <2>2 DEF Images!Abandon, ImageInv
    <2> QED BY <2>1, <2>2
  <1>2. /\ Images!Goto(r, Images!Idle) /\ UNCHANGED <<open, stored, totals, counted>>
        /\ uploadCounts' = uploadCounts \/ uploadCounts' = [uploadCounts EXCEPT !.faults = @ + 1]
    BY DEF Images!send_prompt, Images!Abandon
  <1> QED BY <1>1, <1>2, IdleIs, FilesStay

\* A file is added to those of a session, and one that was reported to its total.
LEMMA FileAdded ==
    ASSUME ImageInv, NEW r \in Caller, NEW s \in Session, NEW f, f.session = s, f.size \in Nat,
           f.name = uploadCounts.files + 1, stored' = [stored EXCEPT ![s] = @ \union {f}],
           uploadCounts'.files = uploadCounts.files + 1,
           uploadCounts' = [files |-> uploadCounts'.files, faults |-> uploadCounts'.faults],
           Images!Goto(r, Images!Idle), UNCHANGED <<open, misled>>,
           \/ counted' = counted /\ totals' = totals
           \/ /\ counted' = counted \union {f}
              /\ totals' = [totals EXCEPT ![s] = totals[s] + f.size]
              /\ totals[s] + f.size <= SessionQuota
    PROVE  ImageInv'
  <1>1. /\ stored' = [t \in Session |-> stored'[t]] /\ stored'[s] = stored[s] \union {f}
        /\ \A t \in Session \ {s} : stored'[t] = stored[t]
    BY DEF ImageInv, ImageTypes
  <1>2. \A t \in Session : Sized(stored'[t]) /\ \A g \in stored'[t] : g.session = t
    <2>1. Sized(stored[s]) /\ \A g \in stored[s] : g.session = s
      BY DEF ImageInv, ImageTypes
    <2>2. Sized(stored'[s]) /\ \A g \in stored'[s] : g.session = s
      BY <1>1, <2>1, FS_AddElement DEF Sized
    <2> QED BY <1>1, <2>2 DEF ImageInv, ImageTypes
  <1>3. request' = [q \in Caller |-> request'[q]] /\ \A q \in Caller : UploadOK(request[q])'
    <2>1. ASSUME NEW q \in Caller, request[q].kind = "prompt", request[q].session \in open
          PROVE  stored[request[q].session] \subseteq stored'[request[q].session]
      <3>1. UploadOK(request[q])
        BY DEF ImageInv, ImageTypes
      <3>2. request[q].session \in Session
        BY <2>1, <3>1 DEF UploadOK, Images!Idle
      <3> QED BY <1>1, <3>2
    <2> QED BY <2>1, IdleIs, RequestGoes DEF ImageInv
  <1>4. ImageTypes'
    <2>1. uploadCounts.files \in Nat /\ uploadCounts'.files \in Nat
      BY DEF ImageInv, ImageTypes
    <2>2. \A g \in counted : g.name \in 1..uploadCounts'.files
      BY <2>1 DEF ImageInv, ImageTypes
    <2>3. f.name \in 1..uploadCounts'.files
      BY <2>1
    <2>4. \A g \in counted' : g.name \in 1..uploadCounts'.files
      BY <2>2, <2>3
    <2> QED BY <1>1, <1>2, <1>3, <2>1, <2>4 DEF ImageTypes
  <1>5. f \notin counted
    BY DEF ImageInv, ImageTypes
  <1>6. ASSUME NEW t \in Session, t # s
        PROVE  stored'[t] \intersect counted' = stored[t] \intersect counted
    BY <1>1, <1>6 DEF ImageInv, ImageTypes
  <1>7. CASE counted' = counted /\ totals' = totals
    <2>1. stored'[s] \intersect counted' = stored[s] \intersect counted
      BY <1>1, <1>5, <1>7
    <2> QED BY <1>4, <1>6, <1>7, <2>1 DEF ImageInv, Covered
  <1>8. CASE /\ counted' = counted \union {f}
             /\ totals' = [totals EXCEPT ![s] = totals[s] + f.size]
             /\ totals[s] + f.size <= SessionQuota
    <2>1. PICK F : F = stored[s] \intersect counted
      OBVIOUS
    <2>2. stored'[s] \intersect counted' = F \union {f}
      BY <1>1, <1>8, <2>1
    <2>3. Sized(F \union {f}) /\ Sized(F)
      BY <1>2, <2>1, <2>2, SizedParts DEF ImageInv, ImageTypes
    <2>4. Images!SizeOf(F \union {f}) <= Images!SizeOf(F) + f.size
      BY <2>3, SizeOfMore
    <2>5. Images!SizeOf(F) <= totals[s] /\ totals[s] \in 0..SessionQuota
      BY <2>1 DEF ImageInv, Covered
    <2>6. /\ totals' = [t \in Session |-> totals'[t]] /\ totals'[s] = totals[s] + f.size
          /\ \A t \in Session \ {s} : totals'[t] = totals[t]
      BY <1>8 DEF ImageInv, Covered
    <2>7. Images!SizeOf(F) \in Nat /\ Images!SizeOf(F \union {f}) \in Nat
      BY <2>3, SizeIsNat
    <2>8. totals'[s] \in 0..SessionQuota /\ Images!SizeOf(F \union {f}) <= totals'[s]
      BY <1>8, <2>4, <2>5, <2>6, <2>7, UploadAssumption
    <2>9. ASSUME NEW t \in Session
          PROVE  /\ totals'[t] \in 0..SessionQuota
                 /\ Images!SizeOf(stored'[t] \intersect counted') <= totals'[t]
      <3>1. CASE t = s
        BY <2>2, <2>8, <3>1
      <3>2. CASE t # s
        BY <1>6, <2>6, <3>2 DEF ImageInv, Covered
      <3> QED BY <3>1, <3>2
    <2>10. Covered'
      BY <2>6, <2>9 DEF Covered
    <2> QED BY <1>4, <2>10 DEF ImageInv
  <1> QED BY <1>7, <1>8

\* an upload is stored, refused or fails.
LEMMA ImagesStored ==
    ASSUME ImageInv, NEW r \in Caller, Images!store(r) \/ Images!store_fails(r)
    PROVE  ImageInv'
  <1>1. PICK s, size : s = request[r].session /\ size = request[r].size
    OBVIOUS
  <1>2. request[r].kind = "upload" /\ UploadOK(request[r])
    BY DEF Images!store, Images!store_fails, ImageInv, ImageTypes
  <1>3. s \in Session /\ size \in Size /\ size \in Nat
    <2>1. request[r].session \in Session /\ request[r].size \in Size
      BY <1>2 DEF UploadOK, Images!Idle
    <2> QED BY <1>1, <2>1, UploadAssumption
  <1>4. Images!Goto(r, Images!Idle) /\ UNCHANGED <<open, misled>>
    BY DEF Images!store, Images!store_fails
  <1>5. CASE Images!store(r) /\ Images!Fits(s, size)
    <2>1. PICK f : f = Images!File(s, size)
      OBVIOUS
    <2>2. f.session = s /\ f.size = size /\ f.name = uploadCounts.files + 1
      BY <2>1 DEF Images!File
    <2>3. /\ stored' = [stored EXCEPT ![s] = @ \union {f}]
          /\ totals' = [totals EXCEPT ![s] = totals[s] + f.size]
          /\ counted' = counted \union {f} /\ uploadCounts' = [uploadCounts EXCEPT !.files = @ + 1]
      BY <1>1, <1>5, <2>1, <2>2 DEF Images!store, Images!new_total
    <2>4. totals[s] + f.size <= SessionQuota
      BY <1>5, <2>2 DEF Images!Fits, Images!new_total
    <2>5. /\ uploadCounts'.files = uploadCounts.files + 1
          /\ uploadCounts' = [files |-> uploadCounts'.files, faults |-> uploadCounts'.faults]
      BY <2>3 DEF ImageInv, ImageTypes
    <2> QED BY <1>3, <1>4, <2>2, <2>3, <2>4, <2>5, FileAdded
  <1>6. CASE Images!store(r) /\ ~Images!Fits(s, size)
    <2>1. UNCHANGED <<stored, totals, counted, uploadCounts>> /\ ~misled'
      BY <1>1, <1>4, <1>6 DEF Images!store, ImageInv, Images!File
    <2> QED BY <1>4, <2>1, IdleIs, FilesStay
  <1>7. CASE Images!store_fails(r)
    <2>1. PICK part \in 0..size : stored' = [stored EXCEPT ![s] = @ \union {Images!File(s, part)}]
      BY <1>1, <1>7 DEF Images!store_fails
    <2>2. PICK f : f = Images!File(s, part)
      OBVIOUS
    <2>3. f.session = s /\ f.size \in Nat /\ f.name = uploadCounts.files + 1
      BY <1>3, <2>2 DEF Images!File
    <2>4. /\ uploadCounts'.files = uploadCounts.files + 1
          /\ uploadCounts' = [files |-> uploadCounts'.files, faults |-> uploadCounts'.faults]
      BY <1>7 DEF Images!store_fails, ImageInv, ImageTypes
    <2>5. UNCHANGED <<totals, counted>>
      BY <1>7 DEF Images!store_fails
    <2> QED BY <1>3, <1>4, <2>1, <2>2, <2>3, <2>4, <2>5, FileAdded
  <1> QED BY <1>5, <1>6, <1>7

\* The files of a session that is closed go, all of them or some.
LEMMA Removed ==
    ASSUME ImageInv, NEW r \in Caller, Images!remove_session(r) \/ Images!remove_session_fails(r)
    PROVE  ImageInv'
  <1>1. PICK s : s = request[r].session
    OBVIOUS
  <1>2. request[r].kind = "close" /\ UploadOK(request[r])
    BY DEF Images!remove_session, Images!remove_session_fails, ImageInv, ImageTypes
  <1>3. s \in Session \ open
    BY <1>1, <1>2 DEF UploadOK, Images!Idle
  <1>4. PICK left : left \in SUBSET stored[s] /\ stored' = [stored EXCEPT ![s] = left]
                    /\ ((left = {} /\ totals' = [totals EXCEPT ![s] = 0]) \/ totals' = totals)
    BY <1>1 DEF Images!remove_session, Images!remove_session_fails
  <1>5. /\ Images!Goto(r, Images!Idle) /\ UNCHANGED <<open, counted, misled>>
        /\ uploadCounts' = uploadCounts \/ uploadCounts' = [uploadCounts EXCEPT !.faults = @ + 1]
    BY DEF Images!remove_session, Images!remove_session_fails
  <1>6. /\ stored' = [t \in Session |-> stored'[t]] /\ stored'[s] = left
        /\ \A t \in Session \ {s} : stored'[t] = stored[t]
    BY <1>3, <1>4 DEF ImageInv, ImageTypes
  <1>7. ASSUME NEW t \in Session
        PROVE  /\ Sized(stored'[t]) /\ \A f \in stored'[t] : f.session = t
               /\ stored'[t] \in SUBSET stored[t]
    <2>1. Sized(stored[t]) /\ \A f \in stored[t] : f.session = t
      BY DEF ImageInv, ImageTypes
    <2>2. stored'[t] \in SUBSET stored[t]
      BY <1>4, <1>6
    <2> QED BY <2>1, <2>2, SizedParts
  <1>8. request' = [q \in Caller |-> request'[q]] /\ \A q \in Caller : UploadOK(request[q])'
    <2>1. ASSUME NEW q \in Caller, request[q].kind = "prompt", request[q].session \in open
          PROVE  stored[request[q].session] \subseteq stored'[request[q].session]
      <3>1. UploadOK(request[q])
        BY DEF ImageInv, ImageTypes
      <3>2. request[q].session \in Session
        BY <2>1, <3>1 DEF UploadOK, Images!Idle
      <3> QED BY <1>3, <1>6, <2>1, <3>2
    <2> QED BY <1>5, <2>1, IdleIs, RequestGoes DEF ImageInv
  <1>9. /\ uploadCounts'.files = uploadCounts.files
        /\ uploadCounts' = [files |-> uploadCounts'.files, faults |-> uploadCounts'.faults]
    BY <1>5 DEF ImageInv, ImageTypes
  <1>10. ImageTypes'
    BY <1>5, <1>6, <1>7, <1>8, <1>9 DEF ImageInv, ImageTypes
  <1>11. ASSUME NEW t \in Session
         PROVE  /\ totals'[t] \in 0..SessionQuota
                /\ Images!SizeOf(stored'[t] \intersect counted') <= totals'[t]
    <2>1. /\ totals[t] \in 0..SessionQuota /\ Images!SizeOf(stored[t] \intersect counted) <= totals[t]
          /\ Sized(stored[t] \intersect counted) /\ Sized(stored'[t] \intersect counted')
      BY <1>5, <1>7, SizedParts DEF ImageInv, ImageTypes, Covered
    <2>2. CASE totals'[t] = totals[t]
      <3>1. Images!SizeOf(stored'[t] \intersect counted') <= Images!SizeOf(stored[t] \intersect counted)
        BY <1>5, <1>7, <2>1, SizeGrows
      <3> QED BY <2>1, <2>2, <3>1, SizeIsNat
    <2>3. CASE totals'[t] # totals[t]
      <3>1. t = s /\ left = {} /\ totals'[t] = 0
        BY <1>3, <1>4, <2>3 DEF ImageInv, Covered
      <3>2. stored'[t] \intersect counted' = {}
        BY <1>6, <3>1
      <3> QED BY <3>1, <3>2, SizeOfNone, UploadAssumption
    <2> QED BY <2>2, <2>3
  <1>12. totals' = [t \in Session |-> totals'[t]]
    BY <1>4 DEF ImageInv, Covered
  <1>13. Covered'
    BY <1>11, <1>12 DEF Covered
  <1> QED BY <1>5, <1>10, <1>13 DEF ImageInv

\* The daemon ends and starts again.
LEMMA ImagesRestart ==
    ASSUME ImageInv, Images!remove_all \/ Images!crash
    PROVE  ImageInv'
  <1>1. PICK kept : Images!Restarts(kept) /\ kept = [t \in Session |-> kept[t]]
                    /\ \A t \in Session : kept[t] \in SUBSET stored[t]
    <2>1. CASE Images!crash
      BY <2>1 DEF Images!crash, ImageInv, ImageTypes
    <2>2. CASE Images!remove_all
      <3>1. PICK s : Images!Restarts([t \in Session |-> IF t = s THEN stored[t] ELSE {}])
        BY <2>2 DEF Images!remove_all
      <3>2. PICK k : k = [t \in Session |-> IF t = s THEN stored[t] ELSE {}]
        OBVIOUS
      <3> QED BY <3>1, <3>2
    <2> QED BY <2>1, <2>2
  <1>2. stored' = kept /\ counted' = {} /\ totals' = Images!new /\ UNCHANGED misled
    BY <1>1 DEF Images!Restarts
  <1>3. ASSUME NEW t \in Session
        PROVE  Sized(stored'[t]) /\ \A f \in stored'[t] : f.session = t
    <2>1. Sized(stored[t]) /\ \A f \in stored[t] : f.session = t
      BY DEF ImageInv, ImageTypes
    <2> QED BY <1>1, <1>2, <2>1, SizedParts
  <1>4. /\ uploadCounts'.files = uploadCounts.files
        /\ uploadCounts' = [files |-> uploadCounts'.files, faults |-> uploadCounts'.faults]
    BY <1>1 DEF Images!Restarts, ImageInv, ImageTypes
  <1>5. request' = [q \in Caller |-> Images!Idle]
    BY <1>1 DEF Images!Restarts
  <1>6. ImageTypes'
    BY <1>1, <1>2, <1>3, <1>4, <1>5, IdleIs DEF ImageInv, ImageTypes
  <1>7. \A t \in Session : stored'[t] \intersect counted' = {}
    BY <1>2
  <1>8. Covered'
    BY <1>2, <1>7, SizeOfNone, UploadAssumption DEF Covered, Images!new
  <1> QED BY <1>2, <1>6, <1>8 DEF ImageInv

\* Every step keeps the invariant.
LEMMA ImageSteps == ImageInv /\ [Images!Next]_(Images!vars) => ImageInv'
  <1> SUFFICES ASSUME ImageInv, [Images!Next]_(Images!vars)
               PROVE  ImageInv'
    OBVIOUS
  <1>1. ASSUME NEW r \in Caller, NEW s \in Session,
               \/ \E size \in Size : Images!upload_file(r, s, size)
               \/ \E f \in stored[s] : Images!get(r, s, f)
               \/ Images!close_session(r, s)
        PROVE  ImageInv'
    BY <1>1, UploadsBegin
  <1>2. ASSUME NEW r \in Caller, \/ Images!store(r) \/ Images!store_fails(r)
                                 \/ Images!send_prompt(r) \/ Images!Abandon(r)
                                 \/ Images!remove_session(r) \/ Images!remove_session_fails(r)
        PROVE  ImageInv'
    BY <1>2, ImagesStored, UploadsEnd, Removed
  <1>3. CASE Images!remove_all \/ Images!crash
    BY <1>3, ImagesRestart
  <1>4. CASE UNCHANGED Images!vars
    BY <1>4 DEF Images!vars, ImageInv, ImageTypes, Covered, UploadOK
  <1> QED BY <1>1, <1>2, <1>3, <1>4 DEF Images!Next

\* Files that were reported and are still there stay within the quota of their
\* session, and no session gets a prompt whose attachment is gone, for any sizes
\* and any requests (uploads/mod.rs, send_prompt, close_session).
THEOREM UploadsKept == Images!Spec => []UploadsAreKept
  <1>1. ImageInv => UploadsAreKept
    <2> SUFFICES ASSUME ImageInv
                 PROVE  UploadsAreKept
      OBVIOUS
    <2>1. ASSUME NEW s \in Session
          PROVE  Images!SizeOf(stored[s] \intersect counted) <= SessionQuota
      <3>1. /\ totals[s] \in 0..SessionQuota /\ Images!SizeOf(stored[s] \intersect counted) <= totals[s]
            /\ Sized(stored[s] \intersect counted)
        BY SizedParts DEF ImageInv, ImageTypes, Covered
      <3> QED BY <3>1, SizeIsNat, UploadAssumption
    <2> QED BY <2>1 DEF UploadsAreKept, Images!UploadsAreKept, Images!QuotaHolds, ImageInv
  <1> QED BY <1>1, ImageInit, ImageSteps, PTL DEF Images!Spec

-----------------------------------------------------------------------------
(* The MCP servers and the profiles                                            *)

\* A server that is configured, or was.
KnownServers == Agents!Names \union removed

\* Profiles that the daemon can work with.
Usable(doc) ==
    /\ Agents!validate_profiles(doc) /\ DOMAIN doc.profiles \subseteq Id
    /\ Agents!Selected(doc) \subseteq KnownServers

\* The requests there are.
AgentCallOK(c) ==
    \/ c = Agents!Idle
    \/ c.pc = "patch" /\ c = [pc |-> c.pc, doc |-> c.doc]
    \/ c.pc \in {"save", "replace"} /\ c = [pc |-> c.pc, doc |-> c.doc] /\ Usable(c.doc)
    \/ c.pc \in {"create", "load", "filter"} /\ c = [pc |-> c.pc, profile |-> c.profile]

\* Files, profiles in memory, requests and the session have their shape; what
\* the profiles list is known.
AgentTypes ==
    /\ asked = [d \in Device |-> asked[d]] /\ \A d \in Device : AgentCallOK(asked[d])
    /\ Usable(config)
    /\ Agents!validate_profiles(profilesJson.doc) => Usable(profilesJson.doc)
    /\ session = [pc |-> session.pc, profile |-> session.profile, given |-> session.given]
    /\ session.pc \in {"none", "starting", "live", "dormant"}
    /\ session.pc # "none" => session.profile \in Id
    /\ promise = [profile |-> promise.profile, given |-> promise.given,
                  followers |-> promise.followers]
    /\ promise.followers \subseteq Device

\* Of changes that do not overlap, the one that is under way has been written down
\* or not.
Served ==
    ~mingled =>
        /\ \A d, e \in Agents!Putting : d = e
        /\ \A d \in Device : asked[d].pc = "replace" => profilesJson = Agents!Holding(asked[d].doc)
        /\ (\A d \in Device : asked[d].pc # "replace") => config = Agents!LoadedAtStart(profilesJson)

\* One session is started at a time.
Starting == {d \in Device : asked[d].pc \in {"load", "filter"}}
OneStarts ==
    /\ \A d, e \in Starting : d = e
    /\ Starting # {} => session.pc = "starting"

\* A preview that nothing has changed since is what a session would get, and what
\* was read for one that follows it is what there is.
Promised ==
    /\ promise.profile # Agents!None => promise.given = Agents!effective_server_names(promise.profile, takes)
    /\ \A d \in promise.followers : asked[d].pc = "filter" => session.given = Agents!Available(takes)

\* The inductive invariant of the profiles and MCP servers.
AgentInv == AgentTypes /\ Served /\ OneStarts /\ Promised

------------------------------------------------------------------------------

\* The built-in profiles list no server.
LEMMA BuiltinUsable == Usable(Agents!builtin_defaults)
  <1>1. Agents!Selected(Agents!builtin_defaults) = {}
    BY DEF Agents!Selected, Agents!builtin_defaults, Agents!All
  <1> QED BY <1>1, ProfilesAssumption
             DEF Usable, Agents!validate_profiles, Agents!builtin_defaults

\* It holds at first.
LEMMA AgentInit == Agents!Init => AgentInv
  <1> SUFFICES ASSUME Agents!Init PROVE AgentInv
    OBVIOUS
  <1>1. AgentTypes
    BY BuiltinUsable
       DEF Agents!Init, AgentTypes, AgentCallOK, Agents!Missing, Agents!NoSession,
           Agents!NoPromise
  <1>2. Served
    BY DEF Agents!Init, Served, Agents!Putting, Agents!Idle, Agents!LoadedAtStart, Agents!Missing
  <1>3. OneStarts /\ Promised
    BY DEF Agents!Init, OneStarts, Starting, Agents!Idle, Promised, Agents!NoPromise
  <1> QED BY <1>1, <1>2, <1>3 DEF AgentInv

\* What each action does to the request of its device.
AgentOthers(d) == asked' = [e \in Device |-> asked'[e]] /\ \A e \in Device \ {d} : asked'[e] = asked[e]

\* A request goes on, ends or begins; the others stay.
LEMMA AgentGotoIs ==
    ASSUME AgentTypes, NEW d \in Device, NEW pc, Agents!Goto(d, pc), asked[d] # Agents!Idle
    PROVE  /\ AgentOthers(d)
           /\ asked[d].pc \in {"save", "replace", "patch"} => asked'[d] = [pc |-> pc, doc |-> asked[d].doc]
           /\ asked[d].pc \in {"create", "load", "filter"} => asked'[d] = [pc |-> pc, profile |-> asked[d].profile]
  <1> DEFINE c == asked[d]
  <1>1. AgentCallOK(c) /\ asked = [e \in Device |-> asked[e]]
    BY DEF AgentTypes
  <1>2. asked' = [asked EXCEPT ![d] = [c EXCEPT !.pc = pc]]
    BY DEF Agents!Goto
  <1>3. /\ c.pc \in {"save", "replace", "patch"} => [c EXCEPT !.pc = pc] = [pc |-> pc, doc |-> c.doc]
        /\ c.pc \in {"create", "load", "filter"} => [c EXCEPT !.pc = pc] = [pc |-> pc, profile |-> c.profile]
    BY <1>1 DEF AgentCallOK
  <1> HIDE DEF c
  <1> QED BY <1>1, <1>2, <1>3 DEF c, AgentOthers

LEMMA AgentReturnIs ==
    ASSUME AgentTypes, NEW d \in Device, Agents!Return(d)
    PROVE  AgentOthers(d) /\ asked'[d] = Agents!Idle
  BY DEF AgentTypes, Agents!Return, AgentOthers

LEMMA AgentBeginIs ==
    ASSUME AgentTypes, NEW d \in Device, NEW c, Agents!Begin(d, c)
    PROVE  AgentOthers(d) /\ asked[d] = Agents!Idle /\ asked'[d] = c
  BY DEF AgentTypes, Agents!Begin, AgentOthers

\* What is known stays so, and so do the profiles that list it.
LEMMA KnownStays ==
    ASSUME UNCHANGED <<mcpJson, removed>> \/ \E file : Agents!WriteMcp(file)
    PROVE  /\ KnownServers \subseteq KnownServers'
           /\ \A doc : Usable(doc) => /\ Agents!validate_profiles(doc) /\ DOMAIN doc.profiles \subseteq Id
                                      /\ Agents!Selected(doc) \subseteq KnownServers'
  BY DEF KnownServers, Agents!WriteMcp, Agents!Names, Usable

\* What a request has been given stays usable while names are only added,
LEMMA RequestStays ==
    ASSUME UNCHANGED <<mcpJson, removed>> \/ \E file : Agents!WriteMcp(file), NEW c,
           AgentCallOK(c)
    PROVE  AgentCallOK(c)'
  <1>1. Usable(c.doc) => Usable(c.doc)'
    BY KnownStays DEF Usable
  <1> QED BY <1>1 DEF AgentCallOK

\* and so do all of them.
LEMMA RequestsStay ==
    ASSUME AgentTypes, UNCHANGED <<mcpJson, removed>> \/ \E file : Agents!WriteMcp(file),
           NEW d \in Device, AgentOthers(d) \/ UNCHANGED asked
    PROVE  \A e \in Device \ {d} : AgentCallOK(asked[e])'
  <1> SUFFICES ASSUME NEW e \in Device \ {d}
               PROVE  AgentCallOK(asked[e])'
    OBVIOUS
  <1>0. PICK c : c = asked[e]
    OBVIOUS
  <1>1. asked'[e] = c /\ AgentCallOK(c)'
    BY <1>0, RequestStays DEF AgentTypes, AgentOthers
  <1> QED BY <1>1

\* So do the profiles in memory and on disk.
LEMMA ProfilesStay ==
    ASSUME AgentTypes, UNCHANGED <<mcpJson, removed>> \/ \E file : Agents!WriteMcp(file)
    PROVE  /\ config' = config => Usable(config)'
           /\ profilesJson' = profilesJson =>
                (Agents!validate_profiles(profilesJson.doc)' => Usable(profilesJson.doc)')
  <1>0. PICK c, f : c = config /\ f = profilesJson.doc
    OBVIOUS
  <1>1. Usable(c) => Usable(c)'
    BY KnownStays DEF Usable
  <1>2. Usable(f) => Usable(f)'
    BY KnownStays DEF Usable
  <1>3. Usable(c) /\ (Agents!validate_profiles(f) => Usable(f))
    BY <1>0 DEF AgentTypes
  <1> QED BY <1>0, <1>1, <1>2, <1>3

\* The parts of the invariant that are about requests, after a step of one
\* device.
AgentTypesOf(d) ==
    /\ AgentCallOK(asked[d])' /\ Usable(config)'
    /\ Agents!validate_profiles(profilesJson.doc)' => Usable(profilesJson.doc)'
    /\ UNCHANGED session \/
         (/\ session' = [pc |-> session'.pc, profile |-> session'.profile, given |-> session'.given]
          /\ session'.pc \in {"starting", "live"} /\ session'.profile \in Id)
    /\ UNCHANGED promise \/ promise' = Agents!NoPromise \/
         (/\ promise' = [profile |-> promise'.profile, given |-> promise'.given,
                         followers |-> promise'.followers]
          /\ promise'.followers \subseteq Device)

LEMMA AgentTypesKept ==
    ASSUME AgentTypes, NEW d \in Device, AgentOthers(d), AgentTypesOf(d),
           UNCHANGED <<mcpJson, removed>> \/ \E file : Agents!WriteMcp(file)
    PROVE  AgentTypes'
  <1>1. \A e \in Device : AgentCallOK(asked[e])'
    BY RequestsStay DEF AgentTypesOf
  <1>2. Usable(config)' /\ (Agents!validate_profiles(profilesJson.doc) => Usable(profilesJson.doc))'
    BY DEF AgentTypesOf
  <1>3. /\ (session = [pc |-> session.pc, profile |-> session.profile, given |-> session.given])'
        /\ (session.pc \in {"none", "starting", "live", "dormant"})'
        /\ (session.pc # "none" => session.profile \in Id)'
    BY DEF AgentTypesOf, AgentTypes
  <1>4. /\ (promise = [profile |-> promise.profile, given |-> promise.given,
                       followers |-> promise.followers])'
        /\ (promise.followers \subseteq Device)'
    BY DEF AgentTypesOf, AgentTypes, Agents!NoPromise
  <1> QED BY <1>1, <1>2, <1>3, <1>4 DEF AgentTypes, AgentOthers

\* A step of a request that is not about profiles.json leaves its changes.
LEMMA ServedKept ==
    ASSUME AgentTypes, Served, NEW d \in Device, AgentOthers(d),
           UNCHANGED <<profilesJson, config, mingled>>,
           asked[d].pc \notin {"save", "replace"}, asked'[d].pc \notin {"save", "replace"}
    PROVE  Served'
  <1>1. Agents!Putting' = Agents!Putting /\ \A e \in Device : asked'[e].pc = "replace" <=> asked[e].pc = "replace"
    BY DEF Agents!Putting, AgentOthers
  <1>2. \A e \in Device : asked[e].pc = "replace" => asked'[e] = asked[e]
    BY DEF AgentOthers
  <1>3. Agents!LoadedAtStart(profilesJson)' = Agents!LoadedAtStart(profilesJson)
    BY DEF Agents!LoadedAtStart, Agents!validate_profiles, Agents!builtin_defaults, Agents!All
  <1> QED BY <1>1, <1>2, <1>3 DEF Served

\* The same of what is not about a session that starts.
LEMMA OneStartsKept ==
    ASSUME OneStarts, NEW d \in Device, AgentOthers(d), UNCHANGED session,
           asked'[d].pc \in {"load", "filter"} => asked[d].pc \in {"load", "filter"}
    PROVE  OneStarts'
  <1>1. Starting' \subseteq Starting
    BY DEF Starting, AgentOthers
  <1> QED BY <1>1 DEF OneStarts

\* The same of what the preview promised.
LEMMA PromisedKept ==
    ASSUME AgentTypes, Promised, NEW d \in Device, AgentOthers(d), UNCHANGED session,
           promise' = Agents!NoPromise \/ UNCHANGED <<mcpJson, config, takes, promise>>,
           asked'[d].pc = "filter" => asked[d].pc = "filter"
    PROVE  Promised'
  <1>1. CASE promise' = Agents!NoPromise
    BY <1>1 DEF Agents!NoPromise, Promised
  <1>2. CASE UNCHANGED <<mcpJson, config, takes, promise>>
    <2>1. \A i, caps : Agents!effective_server_names(i, caps)' = Agents!effective_server_names(i, caps)
      BY <1>2
         DEF Agents!effective_server_names, Agents!Available, Agents!Readable,
             Agents!mcp_servers_for_profile, Agents!profile,
         Agents!normalize_profile_id, Agents!filter_servers_by_name, Agents!to_acp,
         Agents!enabled, Agents!Transport, Agents!All
    <2>2. Agents!Available(takes)' = Agents!Available(takes)
      BY <1>2
         DEF Agents!Available, Agents!Readable, Agents!to_acp, Agents!enabled, Agents!Transport
    <2>3. \A e \in Device : asked'[e].pc = "filter" => asked[e].pc = "filter"
      BY DEF AgentOthers
    <2>4. (promise.profile # Agents!None => promise.given = Agents!effective_server_names(promise.profile, takes))'
      BY <1>2, <2>1 DEF Promised
    <2>5. \A e \in promise.followers' : asked'[e].pc = "filter" => session'.given = Agents!Available(takes)'
      <3>1. promise.followers \subseteq Device
        BY DEF AgentTypes
      <3> QED BY <1>2, <2>2, <2>3, <3>1 DEF Promised
    <2> QED BY <2>4, <2>5 DEF Promised
  <1> QED BY <1>1, <1>2

------------------------------------------------------------------------------
(* Every action keeps the invariant.                                           *)

\* put_mcp: names that go are remembered as removed.
LEMMA PutMcp ==
    ASSUME AgentInv, NEW d \in Device, NEW doc, Agents!put_mcp(d, doc)
    PROVE  AgentInv'
  <1>1. Agents!WriteMcp(Agents!Holding(doc)) /\ promise' = Agents!NoPromise
    BY DEF Agents!put_mcp, Agents!WriteMcp
  <1>2. AgentOthers(d) /\ asked'[d] = asked[d]
    BY DEF Agents!put_mcp, AgentOthers, AgentInv, AgentTypes
  <1>3. UNCHANGED <<profilesJson, config, asked, takes, session, mingled>>
    BY DEF Agents!put_mcp
  <1>4. AgentTypes'
    <2>0. PICK c : c = asked[d]
      OBVIOUS
    <2>1. AgentCallOK(c) /\ AgentCallOK(c)'
      BY <1>1, <2>0, RequestStays DEF AgentInv, AgentTypes
    <2>2. AgentCallOK(asked[d])'
      BY <1>2, <2>0, <2>1
    <2> QED BY <1>1, <1>2, <1>3, <2>2, AgentTypesKept, ProfilesStay DEF AgentInv, AgentTypesOf
  <1>5. Served'
    <2>1. Agents!LoadedAtStart(profilesJson)' = Agents!LoadedAtStart(profilesJson)
      BY <1>3
         DEF Agents!LoadedAtStart, Agents!validate_profiles, Agents!builtin_defaults, Agents!All
    <2> QED BY <1>3, <2>1 DEF AgentInv, Served, Agents!Putting
  <1>6. OneStarts' /\ Promised'
    BY <1>1, <1>2, <1>3, OneStartsKept, PromisedKept DEF AgentInv
  <1> QED BY <1>4, <1>5, <1>6 DEF AgentInv

\* patch_mcp_server reads mcp.json;
LEMMA PatchMcp ==
    ASSUME AgentInv, NEW d \in Device, NEW s, NEW on, Agents!patch_mcp_server(d, s, on)
    PROVE  AgentInv'
  <1>0. PICK doc : doc = [mcpJson.doc EXCEPT !.servers[s].enabled = on]
    OBVIOUS
  <1>1. AgentOthers(d) /\ asked[d] = Agents!Idle /\ asked'[d] = [pc |-> "patch", doc |-> doc]
    BY <1>0, AgentBeginIs DEF Agents!patch_mcp_server, AgentInv
  <1>2. UNCHANGED <<mcpJson, profilesJson, config, takes, session, mingled, removed, promise>>
    BY DEF Agents!patch_mcp_server
  <1>3. AgentCallOK(asked[d])'
    BY <1>1 DEF AgentCallOK
  <1>4. AgentTypes'
    BY <1>1, <1>2, <1>3, AgentTypesKept, ProfilesStay DEF AgentInv, AgentTypesOf
  <1>5. Served' /\ OneStarts' /\ Promised'
    BY <1>1, <1>2, ServedKept, OneStartsKept, PromisedKept DEF AgentInv, Agents!Idle
  <1> QED BY <1>4, <1>5 DEF AgentInv

\* and writes what it read, with the names it had then.
LEMMA PatchSaves ==
    ASSUME AgentInv, NEW d \in Device, Agents!patch_saves(d)
    PROVE  AgentInv'
  <1>1. AgentOthers(d) /\ asked'[d] = Agents!Idle /\ asked[d].pc = "patch"
    BY AgentReturnIs DEF Agents!patch_saves, AgentInv
  <1>2. UNCHANGED <<profilesJson, config, takes, session, mingled>>
    BY DEF Agents!patch_saves
  <1>3. \/ Agents!WriteMcp(Agents!Holding(asked[d].doc)) /\ promise' = Agents!NoPromise
        \/ UNCHANGED <<mcpJson, removed, promise>>
    BY DEF Agents!patch_saves, Agents!WriteMcp
  <1>4. AgentTypes'
    BY <1>1, <1>2, <1>3, AgentTypesKept, ProfilesStay DEF AgentInv, AgentTypesOf, AgentCallOK
  <1>5. Served' /\ OneStarts' /\ Promised'
    BY <1>1, <1>2, <1>3, ServedKept, OneStartsKept, PromisedKept DEF AgentInv, Agents!Idle
  <1> QED BY <1>4, <1>5 DEF AgentInv

\* put_profiles checks what it lists against mcp.json.
LEMMA PutProfiles ==
    ASSUME AgentInv, NEW d \in Device, NEW doc \in ProfileDocument, Agents!put_profiles(d, doc)
    PROVE  AgentInv'
  <1>1. AgentOthers(d) /\ asked[d] = Agents!Idle /\ asked'[d] = [pc |-> "save", doc |-> doc]
    BY AgentBeginIs DEF Agents!put_profiles, AgentInv
  <1>2. UNCHANGED <<mcpJson, profilesJson, config, takes, session, removed, promise>>
    BY DEF Agents!put_profiles
  <1>3. AgentCallOK(asked[d])'
    <2>1. Usable(doc) /\ Usable(doc)'
      BY <1>2, ProfilesAssumption, KnownStays DEF Agents!put_profiles, Usable, KnownServers
    <2> QED BY <1>1, <2>1 DEF AgentCallOK
  <1>4. AgentTypes'
    BY <1>1, <1>2, <1>3, AgentTypesKept, ProfilesStay DEF AgentInv, AgentTypesOf
  <1>5. Served'
    <2> SUFFICES ASSUME ~mingled'
                 PROVE  Served'
      BY DEF Served
    <2>1. ~mingled /\ Agents!Putting = {}
      BY DEF Agents!put_profiles
    <2>2. Agents!Putting' = {d} /\ \A e \in Device : asked[e].pc # "replace" /\ asked'[e].pc # "replace"
      BY <1>1, <2>1 DEF Agents!Putting, AgentOthers
    <2>3. Agents!LoadedAtStart(profilesJson)' = Agents!LoadedAtStart(profilesJson)
      BY <1>2
         DEF Agents!LoadedAtStart, Agents!validate_profiles, Agents!builtin_defaults, Agents!All
    <2> QED BY <1>2, <2>1, <2>2, <2>3 DEF AgentInv, Served
  <1>6. OneStarts' /\ Promised'
    BY <1>1, <1>2, OneStartsKept, PromisedKept DEF AgentInv
  <1> QED BY <1>4, <1>5, <1>6 DEF AgentInv

\* save_to replaces profiles.json, or fails.
LEMMA SaveTo ==
    ASSUME AgentInv, NEW d \in Device, Agents!save_to(d)
    PROVE  AgentInv'
  <1>0. PICK doc : doc = asked[d].doc
    OBVIOUS
  <1>1. /\ AgentOthers(d) /\ asked[d].pc = "save" /\ asked[d] # Agents!Idle
        /\ \/ profilesJson' = Agents!Holding(doc) /\ asked'[d] = [pc |-> "replace", doc |-> doc]
           \/ UNCHANGED profilesJson /\ asked'[d] = Agents!Idle
    <2>1. asked[d].pc = "save" /\ asked[d] # Agents!Idle /\ AgentTypes
      BY DEF Agents!save_to, AgentInv, Agents!Idle
    <2>2. CASE Agents!Goto(d, "replace") /\ profilesJson' = Agents!Holding(doc)
      BY <1>0, <2>1, <2>2, AgentGotoIs
    <2>3. CASE Agents!Return(d) /\ UNCHANGED profilesJson
      BY <2>1, <2>3, AgentReturnIs
    <2> QED BY <1>0, <2>2, <2>3 DEF Agents!save_to
  <1>2. UNCHANGED <<mcpJson, config, takes, session, mingled, removed, promise>>
    BY DEF Agents!save_to
  <1>3. Usable(doc) /\ Usable(doc)'
    BY <1>0, <1>1, <1>2, KnownStays DEF AgentInv, AgentTypes, AgentCallOK, Usable
  <1>4. AgentTypes'
    <2>1. AgentCallOK(asked[d])'
      BY <1>1, <1>3 DEF AgentCallOK
    <2>2. Agents!validate_profiles(profilesJson.doc)' => Usable(profilesJson.doc)'
      <3>1. CASE profilesJson' = Agents!Holding(doc)
        BY <1>3, <3>1 DEF Agents!Holding
      <3>2. CASE UNCHANGED profilesJson
        BY <1>2, <3>2, ProfilesStay DEF AgentInv
      <3> QED BY <1>1, <3>1, <3>2
    <2> QED BY <1>1, <1>2, <2>1, <2>2, AgentTypesKept, ProfilesStay DEF AgentInv, AgentTypesOf
  <1>5. Served'
    <2> SUFFICES ASSUME ~mingled'
                 PROVE  Served'
      BY DEF Served
    <2>1. ~mingled /\ \A e \in Agents!Putting : e = d
      BY <1>1, <1>2 DEF AgentInv, Served, Agents!Putting
    <2>2. \A e \in Device \ {d} : asked'[e].pc \notin {"save", "replace"}
      BY <2>1, <1>1 DEF Agents!Putting, AgentOthers
    <2>3. config = Agents!LoadedAtStart(profilesJson)
      BY <1>1, <2>1 DEF AgentInv, Served, Agents!Putting
    <2>4. CASE profilesJson' = Agents!Holding(doc) /\ asked'[d] = [pc |-> "replace", doc |-> doc]
      BY <2>2, <2>4 DEF Served, Agents!Putting
    <2>5. CASE UNCHANGED profilesJson /\ asked'[d] = Agents!Idle
      <3>1. Agents!LoadedAtStart(profilesJson)' = Agents!LoadedAtStart(profilesJson)
        BY <2>5
           DEF Agents!LoadedAtStart, Agents!validate_profiles, Agents!builtin_defaults, Agents!All
      <3> QED BY <1>2, <2>2, <2>3, <2>5, <3>1 DEF Served, Agents!Putting, Agents!Idle
    <2> QED BY <1>1, <2>4, <2>5
  <1>6. OneStarts' /\ Promised'
    BY <1>1, <1>2, OneStartsKept, PromisedKept DEF AgentInv, Agents!Idle
  <1> QED BY <1>4, <1>5, <1>6 DEF AgentInv

\* What was written comes into memory.
LEMMA ReplaceConfig ==
    ASSUME AgentInv, NEW d \in Device, Agents!replace_config(d)
    PROVE  AgentInv'
  <1>0. PICK doc : doc = asked[d].doc
    OBVIOUS
  <1>1. AgentOthers(d) /\ asked[d].pc = "replace" /\ asked'[d] = Agents!Idle /\ config' = doc /\ promise' = Agents!NoPromise
    BY <1>0, AgentReturnIs DEF Agents!replace_config, AgentInv
  <1>2. UNCHANGED <<mcpJson, profilesJson, takes, session, mingled, removed>>
    BY DEF Agents!replace_config
  <1>3. Usable(doc) /\ Usable(doc)'
    BY <1>0, <1>1, <1>2, KnownStays DEF AgentInv, AgentTypes, AgentCallOK, Usable, Agents!Idle
  <1>4. AgentTypes'
    BY <1>1, <1>2, <1>3, AgentTypesKept, ProfilesStay DEF AgentInv, AgentTypesOf, AgentCallOK
  <1>5. Served'
    <2> SUFFICES ASSUME ~mingled'
                 PROVE  Served'
      BY DEF Served
    <2>1. ~mingled /\ (\A e \in Agents!Putting : e = d) /\ profilesJson = Agents!Holding(doc)
      BY <1>0, <1>1, <1>2 DEF AgentInv, Served, Agents!Putting
    <2>2. \A e \in Device : asked'[e].pc \notin {"save", "replace"}
      BY <2>1, <1>1 DEF Agents!Putting, AgentOthers, Agents!Idle
    <2>3. Agents!LoadedAtStart(profilesJson)' = doc
      BY <1>2, <1>3, <2>1 DEF Agents!LoadedAtStart, Agents!Holding, Usable
    <2> QED BY <1>1, <2>2, <2>3 DEF Served, Agents!Putting
  <1>6. OneStarts' /\ Promised'
    BY <1>1, <1>2, OneStartsKept, PromisedKept DEF AgentInv, Agents!Idle
  <1> QED BY <1>4, <1>5, <1>6 DEF AgentInv

\* A preview is what a session would get now.
LEMMA Preview ==
    ASSUME AgentInv, NEW i \in Id, Agents!preview(i)
    PROVE  AgentInv'
  <1>1. UNCHANGED <<mcpJson, profilesJson, config, asked, takes, session, askedCounts, mingled, removed>>
    BY DEF Agents!preview
  <1>2. promise' = Agents!NoPromise \/
        promise' = [profile |-> i, given |-> Agents!effective_server_names(i, takes), followers |-> {}]
    BY DEF Agents!preview
  <1>3. AgentTypes'
    <2>1. KnownServers' = KnownServers
      BY <1>1 DEF KnownServers, Agents!Names
    <2>2. \A doc : Usable(doc)' = Usable(doc)
      BY <2>1 DEF Usable, Agents!validate_profiles, Agents!Selected
    <2>3. \A c : AgentCallOK(c)' = AgentCallOK(c)
      BY <2>2 DEF AgentCallOK
    <2> QED BY <1>1, <1>2, <2>2, <2>3
               DEF AgentInv, AgentTypes, Agents!NoPromise, Agents!validate_profiles
  <1>4. Served' /\ OneStarts'
    <2>1. Agents!LoadedAtStart(profilesJson)' = Agents!LoadedAtStart(profilesJson)
      BY <1>1
         DEF Agents!LoadedAtStart, Agents!validate_profiles, Agents!builtin_defaults, Agents!All
    <2> QED BY <1>1, <2>1 DEF AgentInv, Served, Agents!Putting, OneStarts, Starting
  <1>5. Promised'
    <2>1. Agents!effective_server_names(i, takes)' = Agents!effective_server_names(i, takes)
      BY <1>1
         DEF Agents!effective_server_names, Agents!Available, Agents!Readable,
             Agents!mcp_servers_for_profile, Agents!profile,
         Agents!normalize_profile_id, Agents!filter_servers_by_name, Agents!to_acp,
         Agents!enabled, Agents!Transport, Agents!All
    <2> QED BY <1>2, <2>1 DEF Promised, Agents!NoPromise
  <1> QED BY <1>3, <1>4, <1>5 DEF AgentInv

\* A session starts;
LEMMA CreateSession ==
    ASSUME AgentInv, NEW d \in Device, NEW i \in Id, Agents!create_session(d, i)
    PROVE  AgentInv'
  <1>1. AgentOthers(d) /\ asked[d] = Agents!Idle /\ asked'[d] = [pc |-> "create", profile |-> i]
    BY AgentBeginIs DEF Agents!create_session, AgentInv
  <1>2. /\ UNCHANGED <<mcpJson, profilesJson, config, takes, session, mingled, removed>>
        /\ promise' = [promise EXCEPT !.followers = @ \union {d}]
    BY DEF Agents!create_session
  <1>3. promise' = [profile |-> promise.profile, given |-> promise.given,
                    followers |-> promise.followers \union {d}]
    BY <1>2 DEF AgentInv, AgentTypes
  <1>4. AgentCallOK(asked[d])'
    BY <1>1 DEF AgentCallOK
  <1>5. AgentTypes'
    <2>1. promise.followers \subseteq Device
      BY DEF AgentInv, AgentTypes
    <2> QED BY <1>1, <1>2, <1>3, <1>4, <2>1, AgentTypesKept, ProfilesStay
               DEF AgentInv, AgentTypesOf
  <1>6. Served' /\ OneStarts'
    BY <1>1, <1>2, ServedKept, OneStartsKept DEF AgentInv, Agents!Idle
  <1>7. Promised'
    <2>1. \A j, caps : Agents!effective_server_names(j, caps)' = Agents!effective_server_names(j, caps)
      BY <1>2
         DEF Agents!effective_server_names, Agents!Available, Agents!Readable,
             Agents!mcp_servers_for_profile, Agents!profile,
         Agents!normalize_profile_id, Agents!filter_servers_by_name, Agents!to_acp,
         Agents!enabled, Agents!Transport, Agents!All
    <2>2. Agents!Available(takes)' = Agents!Available(takes)
      BY <1>2
         DEF Agents!Available, Agents!Readable, Agents!to_acp, Agents!enabled, Agents!Transport
    <2>3. promise.followers \subseteq Device
      BY DEF AgentInv, AgentTypes
    <2>4. \A e \in promise.followers \union {d} :
             asked'[e].pc = "filter" => e \in promise.followers /\ asked[e].pc = "filter"
      BY <1>1, <2>3 DEF AgentOthers
    <2>5. \A e \in promise'.followers : asked'[e].pc = "filter" => session'.given = Agents!Available(takes)'
      BY <1>2, <1>3, <2>2, <2>4 DEF AgentInv, Promised
    <2>6. promise'.profile # Agents!None =>
            promise'.given = Agents!effective_server_names(promise.profile, takes)'
      BY <1>2, <1>3, <2>1 DEF AgentInv, Promised
    <2> QED BY <1>2, <1>3, <2>5, <2>6 DEF Promised
  <1> QED BY <1>5, <1>6, <1>7 DEF AgentInv

\* Of a default, or of a profile that there is.
LEMMA NormalizedIsId ==
    ASSUME AgentTypes, NEW i
    PROVE  Agents!normalize_profile_id(config, i) \in Id
  BY DEF AgentTypes, Usable, Agents!validate_profiles, Agents!normalize_profile_id

\* takes its profile;
LEMMA SetProfile ==
    ASSUME AgentInv, NEW d \in Device, Agents!set_profile(d)
    PROVE  AgentInv'
  <1>0. PICK i, r : i = Agents!normalize_profile_id(config, asked[d].profile) /\ r = asked[d].profile
    OBVIOUS
  <1>1. AgentOthers(d) /\ asked[d].pc = "create" /\ asked'[d] = [pc |-> "load", profile |-> r]
    <2>1. asked[d].pc # "idle" /\ asked[d] # Agents!Idle /\ AgentTypes
      BY DEF Agents!set_profile, AgentInv, Agents!Idle
    <2> QED BY <1>0, <2>1, AgentGotoIs DEF Agents!set_profile
  <1>2. /\ UNCHANGED <<mcpJson, profilesJson, config, takes, mingled, removed, promise>>
        /\ session' = [pc |-> "starting", profile |-> i, given |-> {}]
        /\ session.pc # "starting"
    BY <1>0 DEF Agents!set_profile, Agents!NoSession
  <1>3. i \in Id /\ AgentCallOK(asked[d])'
    BY <1>0, <1>1, NormalizedIsId DEF AgentCallOK, AgentInv
  <1>4. AgentTypes'
    BY <1>1, <1>2, <1>3, AgentTypesKept, ProfilesStay DEF AgentInv, AgentTypesOf
  <1>5. Served'
    BY <1>1, <1>2, ServedKept DEF AgentInv
  <1>6. Starting = {} /\ Starting' = {d}
    BY <1>1, <1>2 DEF AgentInv, OneStarts, Starting, AgentOthers
  <1>7. OneStarts'
    BY <1>2, <1>6 DEF OneStarts
  <1>8. Promised'
    <2>1. \A j, caps : Agents!effective_server_names(j, caps)' = Agents!effective_server_names(j, caps)
      BY <1>2
         DEF Agents!effective_server_names, Agents!Available, Agents!Readable,
             Agents!mcp_servers_for_profile, Agents!profile,
         Agents!normalize_profile_id, Agents!filter_servers_by_name, Agents!to_acp,
         Agents!enabled, Agents!Transport, Agents!All
    <2>2. promise.followers \subseteq Device /\ \A e \in Device : asked'[e].pc # "filter"
      BY <1>1, <1>6 DEF AgentInv, AgentTypes, Starting
    <2> QED BY <1>2, <2>1, <2>2 DEF AgentInv, Promised
  <1> QED BY <1>4, <1>5, <1>7, <1>8 DEF AgentInv

\* reads mcp.json;
LEMMA LoadServers ==
    ASSUME AgentInv, NEW d \in Device, Agents!load_servers(d)
    PROVE  AgentInv'
  <1>0. PICK a, r : a = Agents!Available(takes) /\ r = asked[d].profile
    OBVIOUS
  <1>1. AgentOthers(d) /\ asked[d].pc = "load" /\ asked'[d] = [pc |-> "filter", profile |-> r]
    <2>1. asked[d].pc # "idle" /\ asked[d] # Agents!Idle /\ AgentTypes
      BY DEF Agents!load_servers, AgentInv, Agents!Idle
    <2> QED BY <1>0, <2>1, AgentGotoIs DEF Agents!load_servers
  <1>2. /\ UNCHANGED <<mcpJson, profilesJson, config, takes, mingled, removed, promise>>
        /\ session' = [session EXCEPT !.given = a]
    BY <1>0 DEF Agents!load_servers
  <1>3. session' = [pc |-> session.pc, profile |-> session.profile, given |-> a]
    BY <1>2 DEF AgentInv, AgentTypes
  <1>4. session.pc = "starting" /\ session.profile \in Id
    BY <1>1 DEF AgentInv, OneStarts, Starting, AgentTypes
  <1>5. AgentCallOK(asked[d])'
    BY <1>1 DEF AgentCallOK
  <1>6. AgentTypes'
    BY <1>1, <1>2, <1>3, <1>4, <1>5, AgentTypesKept, ProfilesStay DEF AgentInv, AgentTypesOf
  <1>7. Served'
    BY <1>1, <1>2, ServedKept DEF AgentInv
  <1>8. OneStarts'
    <2>1. Starting' = Starting
      BY <1>1 DEF Starting, AgentOthers
    <2> QED BY <1>3, <1>4, <2>1 DEF AgentInv, OneStarts
  <1>9. Promised'
    <2>1. \A j, caps : Agents!effective_server_names(j, caps)' = Agents!effective_server_names(j, caps)
      BY <1>2
         DEF Agents!effective_server_names, Agents!Available, Agents!Readable,
             Agents!mcp_servers_for_profile, Agents!profile,
         Agents!normalize_profile_id, Agents!filter_servers_by_name, Agents!to_acp,
         Agents!enabled, Agents!Transport, Agents!All
    <2>2. Agents!Available(takes)' = a
      BY <1>0, <1>2
         DEF Agents!Available, Agents!Readable, Agents!to_acp, Agents!enabled, Agents!Transport
    <2> QED BY <1>2, <1>3, <2>1, <2>2 DEF AgentInv, Promised
  <1> QED BY <1>6, <1>7, <1>8, <1>9 DEF AgentInv

\* and filters what it read.
LEMMA LoadSession ==
    ASSUME AgentInv, NEW d \in Device, Agents!load_session_mcp_servers(d)
    PROVE  AgentInv'
  <1>0. PICK a : a = Agents!filter_servers_by_name(session.given,
                         Agents!mcp_servers_for_profile(config, session.profile))
    OBVIOUS
  <1>1. AgentOthers(d) /\ asked[d].pc = "filter" /\ asked'[d] = Agents!Idle
    BY AgentReturnIs DEF Agents!load_session_mcp_servers, AgentInv
  <1>2. /\ UNCHANGED <<mcpJson, profilesJson, config, takes, mingled, removed, promise>>
        /\ session' = [session EXCEPT !.pc = "live", !.given = a]
    BY <1>0 DEF Agents!load_session_mcp_servers
  <1>3. session' = [pc |-> "live", profile |-> session.profile, given |-> a]
    BY <1>2 DEF AgentInv, AgentTypes
  <1>4. session.pc = "starting" /\ session.profile \in Id
    BY <1>1 DEF AgentInv, OneStarts, Starting, AgentTypes
  <1>5. AgentTypes'
    BY <1>1, <1>2, <1>3, <1>4, AgentTypesKept, ProfilesStay
       DEF AgentInv, AgentTypesOf, AgentCallOK
  <1>6. Served'
    BY <1>1, <1>2, ServedKept DEF AgentInv, Agents!Idle
  <1>7. Starting' = {}
    BY <1>1 DEF AgentInv, OneStarts, Starting, AgentOthers, Agents!Idle
  <1>8. OneStarts'
    BY <1>7 DEF OneStarts
  <1>9. Promised'
    <2>1. \A j, caps : Agents!effective_server_names(j, caps)' = Agents!effective_server_names(j, caps)
      BY <1>2
         DEF Agents!effective_server_names, Agents!Available, Agents!Readable,
             Agents!mcp_servers_for_profile, Agents!profile,
         Agents!normalize_profile_id, Agents!filter_servers_by_name, Agents!to_acp,
         Agents!enabled, Agents!Transport, Agents!All
    <2>2. promise.followers \subseteq Device /\ \A e \in Device : asked'[e].pc # "filter"
      BY <1>7 DEF AgentInv, AgentTypes, Starting
    <2> QED BY <1>2, <2>1, <2>2 DEF AgentInv, Promised
  <1> QED BY <1>5, <1>6, <1>8, <1>9 DEF AgentInv

\* Edits by hand, and a restart.
LEMMA EditMcp ==
    ASSUME AgentInv, Agents!edit_mcp
    PROVE  AgentInv'
  <1>1. PICK file : Agents!WriteMcp(file)
    BY DEF Agents!edit_mcp
  <1>2. promise' = Agents!NoPromise /\ UNCHANGED <<profilesJson, config, asked, takes, session, mingled>>
    BY <1>1 DEF Agents!edit_mcp, Agents!WriteMcp
  <1>3. AgentTypes'
    <2>1. \A e \in Device : AgentCallOK(asked[e])'
      <3> SUFFICES ASSUME NEW e \in Device
                   PROVE  AgentCallOK(asked[e])'
        OBVIOUS
      <3>1. PICK c : c = asked[e]
        OBVIOUS
      <3>2. AgentCallOK(c)'
        BY <1>1, <3>1, RequestStays DEF AgentInv, AgentTypes
      <3> QED BY <1>2, <3>1, <3>2
    <2>2. Usable(config)' /\ (Agents!validate_profiles(profilesJson.doc) => Usable(profilesJson.doc))'
      BY <1>1, <1>2, ProfilesStay DEF AgentInv
    <2> QED BY <1>2, <2>1, <2>2 DEF AgentInv, AgentTypes, Agents!NoPromise
  <1>4. Served' /\ OneStarts'
    <2>1. Agents!LoadedAtStart(profilesJson)' = Agents!LoadedAtStart(profilesJson)
      BY <1>2
         DEF Agents!LoadedAtStart, Agents!validate_profiles, Agents!builtin_defaults, Agents!All
    <2> QED BY <1>2, <2>1 DEF AgentInv, Served, Agents!Putting, OneStarts, Starting
  <1>5. Promised'
    BY <1>2 DEF Promised, Agents!NoPromise
  <1> QED BY <1>3, <1>4, <1>5 DEF AgentInv

\* What does not touch mcp.json.
LEMMA UsableStays ==
    ASSUME UNCHANGED <<mcpJson, removed>>
    PROVE  (\A doc : Usable(doc)' = Usable(doc)) /\ (\A c : AgentCallOK(c)' = AgentCallOK(c))
  <1>1. KnownServers' = KnownServers
    BY DEF KnownServers, Agents!Names
  <1>2. \A doc : Usable(doc)' = Usable(doc)
    BY <1>1 DEF Usable
  <1> QED BY <1>2 DEF AgentCallOK

LEMMA EditProfiles ==
    ASSUME AgentInv, Agents!edit_profiles
    PROVE  AgentInv'
  <1>1. UNCHANGED <<mcpJson, config, asked, takes, session, removed, promise>> /\ mingled' = TRUE
    BY DEF Agents!edit_profiles
  <1>2. profilesJson'.doc = Agents!builtin_defaults
    BY DEF Agents!edit_profiles, Agents!Bad, Agents!Missing
  <1>3. AgentTypes'
    <2>1. Usable(Agents!builtin_defaults)'
      BY <1>1, BuiltinUsable, UsableStays
    <2> QED BY <1>1, <1>2, <2>1, UsableStays
               DEF AgentInv, AgentTypes, Agents!builtin_defaults, Agents!All
  <1>4. Served' /\ OneStarts'
    BY <1>1 DEF AgentInv, Served, OneStarts, Starting
  <1>5. Promised'
    <2>1. \A j, caps : Agents!effective_server_names(j, caps)' = Agents!effective_server_names(j, caps)
      BY <1>1
         DEF Agents!effective_server_names, Agents!Available, Agents!Readable,
             Agents!mcp_servers_for_profile, Agents!profile,
         Agents!normalize_profile_id, Agents!filter_servers_by_name, Agents!to_acp,
         Agents!enabled, Agents!Transport, Agents!All
    <2>2. Agents!Available(takes)' = Agents!Available(takes)
      BY <1>1
         DEF Agents!Available, Agents!Readable, Agents!to_acp, Agents!enabled, Agents!Transport
    <2> QED BY <1>1, <2>1, <2>2 DEF AgentInv, Promised
  <1> QED BY <1>3, <1>4, <1>5 DEF AgentInv

LEMMA AgentRestart ==
    ASSUME AgentInv, Agents!restart
    PROVE  AgentInv'
  <1>1. /\ UNCHANGED <<mcpJson, profilesJson, takes, removed>>
        /\ config' = Agents!LoadedAtStart(profilesJson) /\ promise' = Agents!NoPromise
        /\ asked' = [d \in Device |-> Agents!Idle]
        /\ session' = IF session.pc \in {"live", "dormant"}
                      THEN [Agents!NoSession EXCEPT !.pc = "dormant", !.profile = config'.default] ELSE Agents!NoSession
    BY DEF Agents!restart
  <1>2. PICK c : c = Agents!LoadedAtStart(profilesJson)
    OBVIOUS
  <1>3. Usable(c)
    BY <1>2, BuiltinUsable DEF AgentInv, AgentTypes, Agents!LoadedAtStart
  <1>4. AgentTypes'
    <2>1. Usable(c)' /\ c.default \in Id /\ config' = c
      BY <1>1, <1>2, <1>3, UsableStays DEF Usable, Agents!validate_profiles
    <2>2. \A d \in Device : AgentCallOK(asked[d])'
      BY <1>1 DEF AgentCallOK
    <2>3. session' = [pc |-> "dormant", profile |-> c.default, given |-> {}] \/ session' = Agents!NoSession
      BY <1>1, <2>1 DEF Agents!NoSession
    <2>4. Agents!validate_profiles(profilesJson.doc)' => Usable(profilesJson.doc)'
      <3>1. PICK f : f = profilesJson.doc
        OBVIOUS
      <3>2. Agents!validate_profiles(f) => Usable(f)'
        BY <1>1, <3>1, UsableStays DEF AgentInv, AgentTypes
      <3> QED BY <1>1, <3>1, <3>2
    <2>5. /\ (session = [pc |-> session.pc, profile |-> session.profile, given |-> session.given])'
          /\ (session.pc \in {"none", "starting", "live", "dormant"})'
          /\ (session.pc # "none" => session.profile \in Id)'
      BY <2>1, <2>3 DEF Agents!NoSession
    <2> QED BY <1>1, <2>1, <2>2, <2>4, <2>5 DEF AgentTypes, Agents!NoPromise
  <1>5. Served'
    <2>1. Agents!LoadedAtStart(profilesJson)' = config'
      BY <1>1
         DEF Agents!LoadedAtStart, Agents!validate_profiles, Agents!builtin_defaults, Agents!All
    <2> QED BY <1>1, <2>1 DEF Served, Agents!Putting, Agents!Idle
  <1>6. OneStarts' /\ Promised'
    BY <1>1 DEF OneStarts, Starting, Promised, Agents!NoPromise, Agents!Idle
  <1> QED BY <1>4, <1>5, <1>6 DEF AgentInv

LEMMA AgentUnchanged ==
    ASSUME AgentInv, UNCHANGED Agents!vars
    PROVE  AgentInv'
  <1>1. UNCHANGED <<mcpJson, profilesJson, config, asked, takes, session, mingled, removed, promise>>
    BY DEF Agents!vars
  <1>2. AgentTypes'
    BY <1>1, UsableStays DEF AgentInv, AgentTypes, Agents!validate_profiles
  <1>3. Served' /\ OneStarts'
    <2>1. Agents!LoadedAtStart(profilesJson)' = Agents!LoadedAtStart(profilesJson)
      BY <1>1
         DEF Agents!LoadedAtStart, Agents!validate_profiles, Agents!builtin_defaults, Agents!All
    <2> QED BY <1>1, <2>1 DEF AgentInv, Served, Agents!Putting, OneStarts, Starting
  <1>4. Promised'
    <2>1. \A j, caps : Agents!effective_server_names(j, caps)' = Agents!effective_server_names(j, caps)
      BY <1>1
         DEF Agents!effective_server_names, Agents!Available, Agents!Readable,
             Agents!mcp_servers_for_profile, Agents!profile,
         Agents!normalize_profile_id, Agents!filter_servers_by_name, Agents!to_acp,
         Agents!enabled, Agents!Transport, Agents!All
    <2>2. Agents!Available(takes)' = Agents!Available(takes)
      BY <1>1
         DEF Agents!Available, Agents!Readable, Agents!to_acp, Agents!enabled, Agents!Transport
    <2> QED BY <1>1, <2>1, <2>2 DEF AgentInv, Promised
  <1> QED BY <1>2, <1>3, <1>4 DEF AgentInv

\* Every step keeps the invariant.
LEMMA AgentSteps == AgentInv /\ [Agents!Next]_(Agents!vars) => AgentInv'
  <1> SUFFICES ASSUME AgentInv, [Agents!Next]_(Agents!vars)
               PROVE  AgentInv'
    OBVIOUS
  <1>1. ASSUME NEW d \in Device, NEW doc \in McpDocument, Agents!put_mcp(d, doc)
        PROVE  AgentInv'
    BY <1>1, PutMcp
  <1>2. ASSUME NEW d \in Device, NEW s \in Server, NEW on \in BOOLEAN,
               Agents!patch_mcp_server(d, s, on)
        PROVE  AgentInv'
    BY <1>2, PatchMcp
  <1>3. ASSUME NEW d \in Device, NEW doc \in ProfileDocument, Agents!put_profiles(d, doc)
        PROVE  AgentInv'
    BY <1>3, PutProfiles
  <1>4. ASSUME NEW d \in Device, NEW i \in Id, Agents!create_session(d, i)
        PROVE  AgentInv'
    BY <1>4, CreateSession
  <1>5. ASSUME NEW d \in Device,
               Agents!patch_saves(d) \/ Agents!save_to(d) \/ Agents!replace_config(d)
        PROVE  AgentInv'
    BY <1>5, PatchSaves, SaveTo, ReplaceConfig
  <1>6. ASSUME NEW d \in Device,
               Agents!set_profile(d) \/ Agents!load_servers(d) \/ Agents!load_session_mcp_servers(d)
        PROVE  AgentInv'
    BY <1>6, SetProfile, LoadServers, LoadSession
  <1>7. CASE (\E i \in Id : Agents!preview(i)) \/ Agents!edit_mcp \/ Agents!edit_profiles \/ Agents!restart
    BY <1>7, Preview, EditMcp, EditProfiles, AgentRestart
  <1>8. CASE UNCHANGED Agents!vars
    BY <1>8, AgentUnchanged
  <1> QED BY <1>1, <1>2, <1>3, <1>4, <1>5, <1>6, <1>7, <1>8 DEF Agents!Next

\* The profiles in memory are those that a restart would load, through writes
\* that fail and restarts between write and replacement, unless two changes of them
\* overlapped or the file was edited by hand; every server they list is in mcp.json
\* or was once (put_profiles, save_to, profile_config.rs).
THEOREM ProfilesServed == Agents!Spec => []ProfilesAreServed
  <1>1. AgentInv => Agents!ProfilesAreServed
    <2> SUFFICES ASSUME AgentInv
                 PROVE  Agents!ProfilesAreServed
      OBVIOUS
    <2>1. ~mingled /\ Agents!Putting = {} => config = Agents!LoadedAtStart(profilesJson)
      BY DEF AgentInv, Served, Agents!Putting
    <2>2. Agents!Selected(config) \subseteq KnownServers
      BY DEF AgentInv, AgentTypes, Usable
    <2> QED BY <2>1, <2>2 DEF Agents!ProfilesAreServed, KnownServers
  <1> QED BY <1>1, AgentInit, AgentSteps, PTL DEF Agents!Spec, ProfilesAreServed

\* The filter that ends the start of a session sees what the preview saw: a change
\* in between has withdrawn the promise.
LEMMA PreviewsByStep == AgentInv /\ [Agents!Next]_(Agents!vars) => Agents!PreviewIsKept
  <1> SUFFICES ASSUME AgentInv, [Agents!Next]_(Agents!vars), NEW d \in promise.followers,
                      asked[d].pc = "filter", asked'[d].pc = "idle", session'.pc = "live",
                      session.profile = promise.profile
               PROVE  session'.given = promise.given
    BY DEF Agents!PreviewIsKept
  <1>1. d \in Device /\ AgentTypes /\ session.pc = "starting"
    BY DEF AgentInv, AgentTypes, OneStarts, Starting
  <1>2. Agents!load_session_mcp_servers(d)
    <2>1. UNCHANGED asked => FALSE
      OBVIOUS
    <2>2. ASSUME NEW e \in Device, AgentOthers(e), e # d
          PROVE  FALSE
      BY <1>1, <2>2 DEF AgentOthers
    <2>3. ~Agents!restart
      BY <1>1 DEF Agents!restart, Agents!NoSession
    <2>4. ASSUME NEW e \in Device, NEW doc, Agents!put_profiles(e, doc)
          PROVE  FALSE
      BY <2>2, <2>4, <1>1, AgentBeginIs DEF Agents!put_profiles, Agents!Idle
    <2>5. ASSUME NEW e \in Device, NEW s, NEW on, Agents!patch_mcp_server(e, s, on)
          PROVE  FALSE
      BY <2>2, <2>5, <1>1, AgentBeginIs DEF Agents!patch_mcp_server, Agents!Idle
    <2>6. ASSUME NEW e \in Device, NEW i, Agents!create_session(e, i)
          PROVE  FALSE
      BY <2>2, <2>6, <1>1, AgentBeginIs DEF Agents!create_session, Agents!Idle
    <2>7. ASSUME NEW e \in Device, NEW c, asked[e].pc # "filter", asked' = [asked EXCEPT ![e] = c]
          PROVE  FALSE
      BY <2>7, <1>1 DEF AgentTypes
    <2>8. ASSUME NEW e \in Device,
                 Agents!patch_saves(e) \/ Agents!save_to(e) \/ Agents!replace_config(e)
          PROVE  FALSE
      BY <2>7, <2>8
         DEF Agents!patch_saves, Agents!save_to, Agents!replace_config, Agents!Goto, Agents!Return
    <2>9. ASSUME NEW e \in Device, Agents!set_profile(e) \/ Agents!load_servers(e)
          PROVE  FALSE
      BY <2>7, <2>9 DEF Agents!set_profile, Agents!load_servers, Agents!Goto
    <2>10. ASSUME NEW e \in Device, Agents!load_session_mcp_servers(e)
           PROVE  e = d
      BY <2>2, <2>10, <1>1, AgentReturnIs DEF Agents!load_session_mcp_servers
    <2>11. ~UNCHANGED Agents!vars /\ ~Agents!edit_mcp /\ ~Agents!edit_profiles
      BY <2>1 DEF Agents!vars, Agents!edit_mcp, Agents!edit_profiles
    <2>12. ASSUME NEW i, Agents!preview(i)
           PROVE  FALSE
      BY <2>1, <2>12 DEF Agents!preview
    <2>13. ASSUME NEW e, NEW doc, Agents!put_mcp(e, doc)
           PROVE  FALSE
      BY <2>1, <2>13 DEF Agents!put_mcp
    <2> QED BY <2>3, <2>4, <2>5, <2>6, <2>8, <2>9, <2>10, <2>11, <2>12, <2>13 DEF Agents!Next
  <1>3. session.profile # Agents!None
    BY <1>1, ProfilesAssumption DEF AgentTypes
  <1>4. session.given = Agents!Available(takes) /\
        promise.given = Agents!effective_server_names(promise.profile, takes)
    BY <1>3 DEF AgentInv, Promised
  <1>5. session'.given = Agents!filter_servers_by_name(session.given,
                             Agents!mcp_servers_for_profile(config, session.profile))
    BY <1>1, <1>2 DEF Agents!load_session_mcp_servers, AgentTypes
  <1> QED BY <1>4, <1>5 DEF Agents!effective_server_names

\* A session that follows a preview of its profile is given the servers that the
\* preview named, unless files or profiles changed (load_session_mcp_servers).
THEOREM PreviewsKept == Agents!Spec => PreviewIsKept
  BY AgentInit, AgentSteps, PreviewsByStep, PTL
     DEF Agents!Spec, PreviewIsKept, agentVars, Agents!vars

-----------------------------------------------------------------------------
(* The repository of a workspace                                               *)

GitValue == {Git!None} \union Content

\* Commits are built on earlier ones.
Built == commits \in Seq(Commits) /\ \A k \in 1..Len(commits) : commits[k].parent < k
KnownCommits == 0..Len(commits)

\* A fork of the recursion that stops at m.
Ancestry(f, m) ==
    f = [c \in 0..m |-> IF c = 0 THEN {} ELSE {c} \union f[commits[c].parent]]

\* There is one for every m: the least m without would have a parent with one.
LEMMA AncestryUpTo ==
    ASSUME Built
    PROVE  \A m \in KnownCommits : \E f : Ancestry(f, m)
  <1> DEFINE T == {m \in KnownCommits : ~\E f : Ancestry(f, m)}
  <1> SUFFICES ASSUME T # {}
               PROVE  FALSE
    OBVIOUS
  <1>0. Len(commits) \in Nat
    BY DEF Built
  <1>1. PICK m \in T : \A n \in T : m <= n
    <2>1. T \subseteq Nat
      BY <1>0 DEF KnownCommits
    <2> QED BY <2>1, Least
  <1>2. m \in 0..Len(commits) /\ ~\E f : Ancestry(f, m)
    BY <1>1 DEF KnownCommits
  <1>3. m # 0
    <2> SUFFICES ASSUME m = 0
                 PROVE  \E f : Ancestry(f, m)
      BY <1>2
    <2>1. Ancestry([c \in 0..0 |-> {}], 0)
      BY DEF Ancestry
    <2> QED BY <2>1
  <1>4. m - 1 \in 0..Len(commits) /\ m - 1 \notin T
    BY <1>0, <1>1, <1>2, <1>3
  <1>5. PICK f : Ancestry(f, m - 1)
    BY <1>4 DEF KnownCommits
  <1> DEFINE g == [c \in 0..m |-> IF c = m THEN {m} \union f[commits[m].parent] ELSE f[c]]
  <1>6. ASSUME NEW c \in 0..m
        PROVE  g[c] = IF c = 0 THEN {} ELSE {c} \union g[commits[c].parent]
    <2>1. c = 0 \/ (commits[c].parent \in 0..m - 1 /\ commits[c].parent < c)
      <3> SUFFICES ASSUME c # 0
                   PROVE  commits[c].parent \in 0..m - 1 /\ commits[c].parent < c
        OBVIOUS
      <3>1. c \in 1..Len(commits)
        BY <1>0, <1>2
      <3>2. commits[c] \in Commits /\ commits[c].parent < c
        BY <3>1 DEF Built
      <3>3. commits[c].parent \in Nat
        BY <3>2 DEF Commits
      <3> QED BY <1>0, <1>2, <3>2, <3>3
    <2>2. CASE c = m
      BY <1>0, <1>2, <1>3, <2>1, <2>2
    <2>3. CASE c # m
      <3>1. c \in 0..m - 1
        BY <1>0, <1>2, <2>3
      <3>2. f[c] = IF c = 0 THEN {} ELSE {c} \union f[commits[c].parent]
        BY <1>5, <3>1 DEF Ancestry
      <3>3. g[c] = f[c]
        BY <2>3
      <3>4. ASSUME c # 0
            PROVE  g[commits[c].parent] = f[commits[c].parent]
        <4>1. PICK q : q = commits[c].parent
          OBVIOUS
        <4>2. q \in 0..m /\ q # m
          BY <1>0, <1>2, <2>1, <3>4, <4>1
        <4>3. g[q] = f[q]
          BY <4>2
        <4> QED BY <4>1, <4>3
      <3> HIDE DEF g
      <3> QED BY <3>2, <3>3, <3>4
    <2> QED BY <2>2, <2>3
  <1>7. Ancestry(g, m)
    BY <1>6 DEF Ancestry
  <1> HIDE DEF g
  <1> QED BY <1>2, <1>7

\* So the recursion computes what it says.
LEMMA BeforeIs ==
    ASSUME Built
    PROVE  \A c \in KnownCommits : Git!Before(c) = IF c = 0 THEN {} ELSE {c} \union Git!Before(commits[c].parent)
  <1>1. Len(commits) \in KnownCommits
    BY DEF Built, KnownCommits
  <1>2. \E f : Ancestry(f, Len(commits))
    BY <1>1, AncestryUpTo
  <1>3. Ancestry(Git!Ancestors, Len(commits))
    BY <1>2 DEF Git!Ancestors, Ancestry
  <1> QED BY <1>3 DEF Ancestry, Git!Before, KnownCommits

------------------------------------------------------------------------------
\* What the functions work on.
HeadPlace == [branch : Git!Branch \union {Git!None}, oid : KnownCommits]
StashEntry == [id : Nat, base : KnownCommits, tree : Trees]

\* What is remembered of a request, with v commits.
GitOpOK(o, v) ==
    /\ o.kind \in {Git!None, "checkout", "pull", "commit", "init", "restore", "remove", "ignore"}
    /\ o.kind = Git!None <=> o = Git!Idle
    /\ o.kind \in {"checkout", "pull"} => o.to \in HeadPlace /\ o.index = o.head /\ o.wt = o.head
    /\ o.kind = "commit" => o.head = 0 \/ o.head = v.head
    /\ o.kind \in {"restore", "remove"} => o = [kind |-> o.kind, tracked |-> o.tracked, left |-> o.left]

\* The repository, its requests and its stash have their shape.
GitTypes ==
    /\ Built
    /\ refs \in [Git!Branch -> KnownCommits] /\ at \in HeadPlace /\ remote \in KnownCommits
    /\ index \in Trees /\ wt \in Trees /\ stash \in Seq(StashEntry)
    /\ view = [d \in Device |-> view[d]]
    /\ \A d \in Device : view[d] = [head |-> view[d].head, stash |-> view[d].stash]
    /\ call = [d \in Device |-> call[d]] /\ \A d \in Device : GitOpOK(call[d], view[d])
    /\ callCounts \in [ops : Nat, edits : Nat, faults : Nat]

\* HEAD is where its branch is.
Attached == at.branch # Git!None => refs[at.branch] = at.oid

\* The inductive invariant of the repository.
GitInv == GitTypes /\ Attached /\ ~mixed

\* Commits have trees.
LEMMA TreeIs ==
    ASSUME Built, NEW c \in KnownCommits
    PROVE  Git!Tree(c) \in Trees
  <1>1. CASE c = 0
    BY <1>1 DEF Git!Tree, Git!NoTree, Trees, GitValue
  <1>2. CASE c # 0
    <2>1. c \in 1..Len(commits) /\ Len(commits) \in Nat
      BY <1>2 DEF KnownCommits, Built
    <2>2. commits[c] \in Commits
      BY <2>1 DEF Built
    <2> QED BY <1>2, <2>2 DEF Git!Tree, Commits
  <1> QED BY <1>1, <1>2

LEMMA HeadTreeIs == GitTypes => Git!HeadTree \in Trees
  BY TreeIs DEF GitTypes, Git!HeadTree, HeadPlace

\* A detached HEAD is on no branch.
LEMMA NoBranch == Git!None \notin Git!Branch
  BY DEF Git!None, Git!Branch

\* It holds at first.
LEMMA GitInit == Git!Init => GitInv
  <1> SUFFICES ASSUME Git!Init PROVE GitInv
    OBVIOUS
  <1>1. Built
    <2>1. CASE exists
      BY <2>1, HistoryAssumption DEF Git!Init, Built
    <2>2. CASE ~exists
      <3>1. commits = <<>> /\ <<>> \in Seq(Commits) /\ Len(commits) = 0
        BY <2>2 DEF Git!Init
      <3> QED BY <3>1 DEF Built
    <2> QED BY <2>1, <2>2
  <1>2. refs \in [Git!Branch -> KnownCommits]
    <2>1. CASE exists
      BY <2>1, HistoryAssumption DEF Git!Init, KnownCommits
    <2>2. CASE ~exists
      BY <2>2, <1>1 DEF Git!Init, KnownCommits, Built
    <2> QED BY <2>1, <2>2
  <1>3. at = [branch |-> "main", oid |-> refs["main"]] /\ "main" \in Git!Branch /\ "topic" \in Git!Branch
    BY DEF Git!Init, Git!Branch
  <1>4. at \in HeadPlace /\ Attached /\ remote \in KnownCommits
    BY <1>2, <1>3 DEF Git!Init, HeadPlace, Attached
  <1>5. Git!HeadTree \in Trees
    BY <1>1, <1>4, TreeIs DEF Git!HeadTree, HeadPlace
  <1>6. index \in Trees /\ wt \in Trees
    BY <1>5 DEF Git!Init, Trees, GitValue
  <1> QED BY <1>1, <1>2, <1>4, <1>6 DEF Git!Init, GitInv, GitTypes, GitOpOK, Git!Idle, Git!None

------------------------------------------------------------------------------
\* A step that adds no commit.
HeadTyped == refs' \in [Git!Branch -> KnownCommits] /\ at' \in HeadPlace /\ remote' \in KnownCommits
TreesTyped == index' \in Trees /\ wt' \in Trees /\ stash' \in Seq(StashEntry)
OpsTyped ==
    /\ view' = [d \in Device |-> view'[d]]
    /\ \A d \in Device : view'[d] = [head |-> view'[d].head, stash |-> view'[d].stash]
    /\ call' = [d \in Device |-> call'[d]] /\ \A d \in Device : GitOpOK(call'[d], view'[d])
    /\ callCounts' \in [ops : Nat, edits : Nat, faults : Nat]

LEMMA GitTypesKept ==
    ASSUME GitTypes, UNCHANGED commits, HeadTyped, TreesTyped, OpsTyped
    PROVE  GitTypes'
  <1>1. Built' /\ KnownCommits' = KnownCommits
    BY DEF GitTypes, Built, KnownCommits
  <1>2. HeadPlace' = HeadPlace /\ StashEntry' = StashEntry
    BY <1>1 DEF HeadPlace, StashEntry
  <1>3. \A o, v : GitOpOK(o, v)' = GitOpOK(o, v)
    BY <1>2 DEF GitOpOK
  <1> QED BY <1>1, <1>2, <1>3 DEF GitTypes, HeadTyped, TreesTyped, OpsTyped

\* A step that adds one.
LEMMA CommitKept ==
    ASSUME GitTypes, NEW c \in Commits, c.parent \in KnownCommits, commits' = Append(commits, c),
           OpsTyped
    PROVE  /\ Built' /\ Len(commits') = Len(commits) + 1 /\ KnownCommits \subseteq KnownCommits'
           /\ Len(commits') \in KnownCommits' /\ commits'[Len(commits')] = c
           /\ \A k \in 1..Len(commits) : commits'[k] = commits[k]
           /\ HeadPlace \subseteq HeadPlace' /\ StashEntry \subseteq StashEntry'
           /\ \A d \in Device : GitOpOK(call[d], view[d])'
  <1>1. /\ commits' \in Seq(Commits) /\ Len(commits') = Len(commits) + 1 /\ Len(commits) \in Nat
        /\ commits'[Len(commits')] = c /\ \A k \in 1..Len(commits) : commits'[k] = commits[k]
    BY AppendProperties DEF GitTypes, Built
  <1>2. Built' /\ KnownCommits \subseteq KnownCommits' /\ Len(commits') \in KnownCommits'
    <2>1. ASSUME NEW k \in 1..Len(commits')
          PROVE  commits'[k].parent < k
      <3>1. CASE k = Len(commits')
        BY <1>1, <3>1 DEF KnownCommits, Commits
      <3>2. CASE k # Len(commits')
        <4>1. k \in 1..Len(commits)
          BY <1>1, <3>2
        <4> QED BY <1>1, <4>1 DEF GitTypes, Built
      <3> QED BY <3>1, <3>2
    <2> QED BY <1>1, <2>1 DEF Built, KnownCommits
  <1>3. HeadPlace \subseteq HeadPlace' /\ StashEntry \subseteq StashEntry'
    BY <1>2 DEF HeadPlace, StashEntry
  <1>4. \A o, v : GitOpOK(o, v) => GitOpOK(o, v)'
    BY <1>3 DEF GitOpOK
  <1> QED BY <1>1, <1>2, <1>3, <1>4 DEF OpsTyped

\* Requests and steps of one device.
LEMMA AsksIs ==
    ASSUME GitTypes, NEW d \in Device, Git!Asks(d)
    PROVE  call[d] = Git!Idle /\ callCounts' \in [ops : Nat, edits : Nat, faults : Nat]
  BY DEF Git!Asks, GitTypes

LEMMA OpsSame ==
    ASSUME GitTypes, UNCHANGED <<call, view>>,
           callCounts' \in [ops : Nat, edits : Nat, faults : Nat]
    PROVE  OpsTyped
  BY DEF GitTypes, OpsTyped

LEMMA OpsGo ==
    ASSUME GitTypes, NEW d \in Device, NEW o, Git!Goto(d, o), UNCHANGED view, GitOpOK(o, view[d]),
           callCounts' \in [ops : Nat, edits : Nat, faults : Nat]
    PROVE  OpsTyped /\ call'[d] = o
  BY DEF GitTypes, OpsTyped, Git!Goto

LEMMA IdleOK == \A v : GitOpOK(Git!Idle, v)
  BY DEF GitOpOK, Git!Idle, Git!None

------------------------------------------------------------------------------
(* Every action keeps the invariant.                                           *)

\* Steps that leave HEAD, the branches and the commits alone.
LEMMA FilesStep ==
    ASSUME GitInv, UNCHANGED <<commits, refs, at, remote, mixed>>, TreesTyped, OpsTyped
    PROVE  GitInv'
  <1>1. HeadTyped
    BY DEF GitInv, GitTypes, HeadTyped
  <1>2. GitTypes'
    BY <1>1, GitTypesKept DEF GitInv
  <1> QED BY <1>2 DEF GitInv, Attached

LEMMA FilesSame == GitTypes /\ UNCHANGED <<index, wt, stash>> => TreesTyped
  BY DEF GitTypes, TreesTyped

\* Reads, and steps on the index.
LEMMA GitLooks ==
    ASSUME GitInv, NEW d \in Device, Git!get_git_status(d) \/ Git!stash_list(d)
    PROVE  GitInv'
  <1>1. GitTypes /\ UNCHANGED <<Git!files, Git!heads, mixed, stash, ignore, call>> /\ Git!Asks(d)
    BY DEF Git!get_git_status, Git!stash_list, Git!open_repo, GitInv
  <1>2. PICK h, l : /\ view' = [view EXCEPT ![d] = [head |-> h, stash |-> l]]
    <2>1. view[d] = [head |-> view[d].head, stash |-> view[d].stash]
      BY DEF GitInv, GitTypes
    <2>2. ASSUME NEW h
          PROVE  [view[d] EXCEPT !.head = h] = [head |-> h, stash |-> view[d].stash]
      BY <2>1
    <2>3. ASSUME NEW l
          PROVE  [view[d] EXCEPT !.stash = l] = [head |-> view[d].head, stash |-> l]
      BY <2>1
    <2>4. CASE Git!get_git_status(d)
      <3>1. view' = [view EXCEPT ![d] = [view[d] EXCEPT !.head = at.oid]]
        BY <2>4 DEF Git!get_git_status
      <3> QED BY <2>2, <3>1
    <2>5. CASE Git!stash_list(d)
      <3>1. view' = [view EXCEPT ![d] = [view[d] EXCEPT !.stash = Git!Ids]]
        BY <2>5 DEF Git!stash_list
      <3> QED BY <2>3, <3>1
    <2> QED BY <2>4, <2>5
  <1>3. OpsTyped
    <2>1. call[d] = Git!Idle /\ callCounts' \in [ops : Nat, edits : Nat, faults : Nat]
      BY <1>1, AsksIs
    <2>2. view' = [e \in Device |-> view'[e]] /\ view'[d] = [head |-> h, stash |-> l]
          /\ \A e \in Device \ {d} : view'[e] = view[e]
      BY <1>2 DEF GitInv, GitTypes
    <2>3. \A e \in Device : GitOpOK(call'[e], view'[e])
      BY <1>1, <2>1, <2>2, IdleOK DEF GitTypes
    <2> QED BY <1>1, <2>1, <2>2, <2>3 DEF OpsTyped, GitTypes
  <1> QED BY <1>1, <1>3, FilesStep, FilesSame DEF Git!files, Git!heads

LEMMA Staging ==
    ASSUME GitInv, NEW d \in Device, NEW S, Git!stage(d, S) \/ Git!unstage(d, S)
    PROVE  GitInv'
  <1>1. GitTypes /\ UNCHANGED <<wt, Git!heads, mixed, stash, ignore, view, call>> /\ Git!Asks(d)
    BY DEF Git!stage, Git!unstage, Git!open_repo, GitInv
  <1>2. index' \in Trees
    <2>1. Git!HeadTree \in Trees /\ index \in Trees /\ wt \in Trees
      BY <1>1, HeadTreeIs DEF GitTypes
    <2> QED BY <2>1 DEF Git!stage, Git!unstage, Trees
  <1>3. OpsTyped /\ TreesTyped
    BY <1>1, <1>2, AsksIs, OpsSame DEF TreesTyped, GitTypes
  <1> QED BY <1>1, <1>3, FilesStep DEF Git!heads

\* If-Match is compared with HEAD.
LEMMA CommitCheck ==
    ASSUME GitInv, NEW d \in Device, NEW amend, Git!commit_check(d, amend)
    PROVE  GitInv'
  <1>0. PICK h : h = at.oid
    OBVIOUS
  <1> DEFINE o == [kind |-> "commit", amend |-> amend, head |-> h]
  <1>1. /\ GitTypes /\ UNCHANGED <<Git!files, Git!heads, mixed, stash, ignore, view>> /\ Git!Asks(d)
        /\ Git!Goto(d, o) /\ (h = 0 \/ h = view[d].head)
    BY <1>0 DEF Git!commit_check, Git!open_repo, GitInv, Git!head_ok
  <1>2. GitOpOK(o, view[d])
    BY <1>1 DEF GitOpOK, Git!Idle, Git!None
  <1> HIDE DEF o
  <1>3. OpsTyped
    BY <1>1, <1>2, AsksIs, OpsGo
  <1> QED BY <1>1, <1>3, FilesStep, FilesSame DEF Git!files, Git!heads

LEMMA GitInits ==
    ASSUME GitInv, NEW d \in Device, Git!init(d)
    PROVE  GitInv'
  <1> DEFINE o == [kind |-> "init"]
  <1>1. /\ GitTypes /\ UNCHANGED <<Git!files, commits, refs, at, remote, mixed, stash, view>> /\ Git!Asks(d)
        /\ Git!Goto(d, o)
    BY DEF Git!init, GitInv
  <1>2. GitOpOK(o, view[d])
    BY DEF GitOpOK, Git!Idle, Git!None
  <1> HIDE DEF o
  <1>3. OpsTyped
    BY <1>1, <1>2, AsksIs, OpsGo
  <1> QED BY <1>1, <1>3, FilesStep, FilesSame DEF Git!files

\* DirtyTree is ruled out, for a switch of branches and for a pull.
LEMMA Refusal ==
    ASSUME GitInv, NEW d \in Device, NEW kind \in {"checkout", "pull"}, NEW to \in HeadPlace,
           Git!Refuse(d, kind, to)
    PROVE  GitInv'
  <1>0. PICK i, w, h : i = index /\ w = wt /\ h = Git!HeadTree
    OBVIOUS
  <1> DEFINE o == [kind |-> kind, to |-> to, index |-> i, wt |-> w, head |-> h]
  <1>1. /\ GitTypes /\ UNCHANGED <<Git!files, Git!heads, mixed, stash, ignore, view>> /\ Git!Asks(d)
        /\ Git!Goto(d, o) /\ Git!status_files = {}
    BY <1>0 DEF Git!Refuse, Git!open_repo, GitInv
  <1>2. i = h /\ w = h
    <2>1. index \in Trees /\ wt \in Trees /\ Git!HeadTree \in Trees
      BY <1>1, HeadTreeIs DEF GitTypes
    <2>2. \A p \in Path : index[p] = Git!HeadTree[p] /\ wt[p] = index[p]
      BY <1>1 DEF Git!status_files
    <2>3. index = Git!HeadTree /\ wt = Git!HeadTree
      BY <2>1, <2>2 DEF Trees
    <2> QED BY <1>0, <2>3
  <1>3. GitOpOK(o, view[d])
    BY <1>2 DEF GitOpOK, Git!Idle, Git!None
  <1> HIDE DEF o
  <1>4. OpsTyped
    BY <1>1, <1>3, AsksIs, OpsGo
  <1> QED BY <1>1, <1>4, FilesStep, FilesSame DEF Git!files, Git!heads

LEMMA Checkout ==
    ASSUME GitInv, NEW d \in Device, (\E to \in Git!Switches : Git!checkout(d, to)) \/ Git!pull(d)
    PROVE  GitInv'
  <1>1. CASE \E to \in Git!Switches : Git!checkout(d, to)
    <2>1. PICK to \in Git!Switches : Git!checkout(d, to)
      BY <1>1
    <2>2. to \in HeadPlace
      BY DEF Git!Switches, HeadPlace, GitInv, GitTypes, KnownCommits, Built
    <2> QED BY <2>1, <2>2, Refusal DEF Git!checkout
  <1>2. CASE Git!pull(d)
    <2>1. at \in HeadPlace
      BY DEF GitInv, GitTypes
    <2> QED BY <1>2, <2>1, Refusal DEF Git!pull
  <1> QED BY <1>1, <1>2

\* Publishing, throwing away, and the stash.
LEMMA Push ==
    ASSUME GitInv, NEW d \in Device, Git!push(d)
    PROVE  GitInv'
  <1>1. /\ GitTypes /\ UNCHANGED <<Git!files, exists, commits, refs, at, mixed, stash, ignore, view, call>>
        /\ Git!Asks(d) /\ remote' = refs["main"]
    BY DEF Git!push, Git!open_repo, GitInv
  <1>2. HeadTyped
    BY <1>1 DEF GitTypes, HeadTyped, Git!Branch
  <1>3. TreesTyped /\ OpsTyped
    BY <1>1, AsksIs, OpsSame, FilesSame DEF Git!files
  <1>4. GitTypes'
    BY <1>1, <1>2, <1>3, GitTypesKept
  <1> QED BY <1>1, <1>4 DEF GitInv, Attached

LEMMA Discards ==
    ASSUME GitInv, NEW d \in Device, NEW S, Git!discard(d, S)
    PROVE  GitInv'
  <1>0. PICK o : /\ Git!Goto(d, o) /\ o = [kind |-> o.kind, tracked |-> o.tracked, left |-> o.left]
                 /\ o.kind \in {"remove", "restore"}
    BY DEF Git!discard
  <1>1. GitTypes /\ UNCHANGED <<Git!files, Git!heads, mixed, stash, ignore, view>> /\ Git!Asks(d)
    BY DEF Git!discard, Git!open_repo, GitInv
  <1>2. GitOpOK(o, view[d])
    BY <1>0 DEF GitOpOK, Git!Idle, Git!None
  <1>3. OpsTyped
    BY <1>0, <1>1, <1>2, AsksIs, OpsGo
  <1> QED BY <1>1, <1>3, FilesStep, FilesSame DEF Git!files, Git!heads

LEMMA StashPush ==
    ASSUME GitInv, NEW d \in Device, Git!stash_push(d)
    PROVE  GitInv'
  <1>1. GitTypes /\ UNCHANGED <<Git!heads, mixed, ignore, view, call>> /\ Git!Asks(d)
    BY DEF Git!stash_push, Git!open_repo, GitInv
  <1>2. Git!HeadTree \in Trees /\ index \in Trees /\ wt \in Trees /\ Git!None \in GitValue
    BY <1>1, HeadTreeIs DEF GitTypes, GitValue
  <1>3. index' \in Trees /\ wt' \in Trees
    BY <1>2 DEF Git!stash_push, Trees
  <1>4. stash' \in Seq(StashEntry)
    <2> DEFINE t == [p \in Path |-> IF Git!Tracked(p) THEN wt[p] ELSE Git!None]
               e == [id |-> callCounts.ops + 1, base |-> at.oid, tree |-> t]
    <2>1. t \in Trees
      BY <1>2 DEF Trees
    <2>2. callCounts.ops + 1 \in Nat /\ at.oid \in KnownCommits
      BY <1>1 DEF GitTypes, HeadPlace
    <2>3. stash' = <<e>> \o stash
      BY DEF Git!stash_push
    <2> HIDE DEF t
    <2>4. e \in StashEntry
      BY <2>1, <2>2 DEF StashEntry
    <2> HIDE DEF e
    <2>5. <<e>> \in Seq(StashEntry) /\ stash \in Seq(StashEntry)
      BY <1>1, <2>4 DEF GitTypes
    <2> QED BY <2>3, <2>5, ConcatProperties
  <1>5. OpsTyped /\ TreesTyped
    BY <1>1, <1>3, <1>4, AsksIs, OpsSame DEF TreesTyped
  <1> QED BY <1>1, <1>5, FilesStep DEF Git!heads

LEMMA StashPop ==
    ASSUME GitInv, NEW d \in Device, Git!stash_pop(d)
    PROVE  GitInv'
  <1>1. GitTypes /\ UNCHANGED <<Git!heads, mixed, ignore, view, call>> /\ Git!Asks(d)
    BY DEF Git!stash_pop, Git!open_repo, GitInv
  <1>2. stash \in Seq(StashEntry) /\ stash # <<>> /\ stash' = Tail(stash)
    BY <1>1 DEF Git!stash_pop, GitTypes
  <1>3. stash[1].tree \in Trees /\ stash' \in Seq(StashEntry)
    <2>1. stash[1] \in StashEntry /\ Tail(stash) \in Seq(StashEntry)
      BY <1>2
    <2> QED BY <1>2, <2>1 DEF StashEntry
  <1>4. index' \in Trees /\ wt' \in Trees
    <2>1. index \in Trees /\ wt \in Trees
      BY <1>1 DEF GitTypes
    <2> QED BY <1>3, <2>1 DEF Git!stash_pop, Trees
  <1>5. OpsTyped /\ TreesTyped
    BY <1>1, <1>3, <1>4, AsksIs, OpsSame DEF TreesTyped
  <1> QED BY <1>1, <1>5, FilesStep DEF Git!heads

LEMMA StashDrop ==
    ASSUME GitInv, NEW d \in Device, NEW k, Git!stash_drop(d, k)
    PROVE  GitInv'
  <1>1. GitTypes /\ UNCHANGED <<Git!files, Git!heads, mixed, ignore, view, call>> /\ Git!Asks(d)
    BY DEF Git!stash_drop, Git!open_repo, GitInv
  <1>2. stash' \in Seq(StashEntry)
    <2>1. stash \in Seq(StashEntry) /\ k \in 1..Len(stash) /\ Len(stash) \in Nat
      BY <1>1 DEF Git!stash_drop, GitTypes
    <2>2. SubSeq(stash, 1, k - 1) \in Seq(StashEntry) /\ SubSeq(stash, k + 1, Len(stash)) \in Seq(StashEntry)
      BY <2>1, SubSeqProperties
    <2>3. stash' = SubSeq(stash, 1, k - 1) \o SubSeq(stash, k + 1, Len(stash))
      BY DEF Git!stash_drop, Git!RemoveAt
    <2> QED BY <2>2, <2>3, ConcatProperties
  <1>3. OpsTyped /\ TreesTyped
    BY <1>1, <1>2, AsksIs, OpsSame DEF TreesTyped, GitTypes, Git!files
  <1> QED BY <1>1, <1>3, FilesStep DEF Git!heads

\* .gitignore is read.
LEMMA ReadIgnore ==
    ASSUME GitInv, NEW d \in Device, Git!read_gitignore(d)
    PROVE  GitInv'
  <1>0. PICK o : Git!Goto(d, o) /\ o.kind = "ignore"
    BY DEF Git!read_gitignore
  <1>1. GitTypes /\ UNCHANGED <<Git!files, Git!heads, mixed, stash, ignore, view>> /\ Git!Asks(d)
    BY DEF Git!read_gitignore, GitInv
  <1>2. GitOpOK(o, view[d])
    BY <1>0 DEF GitOpOK, Git!Idle, Git!None
  <1>3. OpsTyped
    BY <1>0, <1>1, <1>2, AsksIs, OpsGo
  <1> QED BY <1>1, <1>3, FilesStep, FilesSame DEF Git!files, Git!heads

\* A function returns.
LEMMA OpsReturn ==
    ASSUME GitTypes, NEW d \in Device, Git!Goto(d, Git!Idle), UNCHANGED view,
           callCounts' \in [ops : Nat, edits : Nat, faults : Nat]
    PROVE  OpsTyped
  BY IdleOK, OpsGo

LEMMA GitEnds ==
    ASSUME GitInv, NEW d \in Device, Git!write_gitignore(d) \/ Git!Fails(d)
    PROVE  GitInv'
  <1>1. GitTypes /\ UNCHANGED <<Git!files, stash, view, mixed, Git!heads>> /\ Git!Goto(d, Git!Idle)
    BY DEF Git!write_gitignore, Git!Fails, GitInv
  <1>2. callCounts' \in [ops : Nat, edits : Nat, faults : Nat]
    BY <1>1 DEF Git!write_gitignore, Git!Fails, Git!At, GitTypes
  <1>3. OpsTyped
    BY <1>1, <1>2, OpsReturn
  <1> QED BY <1>1, <1>3, FilesStep, FilesSame DEF Git!files, Git!heads

\* The two ways in which changes are thrown away.
LEMMA GitRestores ==
    ASSUME GitInv, NEW d \in Device, Git!restore(d) \/ Git!remove(d)
    PROVE  GitInv'
  <1>1. /\ GitTypes /\ UNCHANGED <<index, Git!heads, mixed, stash, ignore, view, callCounts>>
        /\ call[d].kind \in {"restore", "remove"}
    BY DEF Git!restore, Git!remove, Git!At, GitInv
  <1>2. call[d] = [kind |-> call[d].kind, tracked |-> call[d].tracked, left |-> call[d].left]
    BY <1>1 DEF GitTypes, GitOpOK
  <1>3. ASSUME NEW l
        PROVE  [call[d] EXCEPT !.left = l] = [kind |-> call[d].kind, tracked |-> call[d].tracked, left |-> l]
    BY <1>2
  <1>4. [call[d] EXCEPT !.kind = "remove"] = [kind |-> "remove", tracked |-> call[d].tracked, left |-> call[d].left]
    BY <1>2
  <1>5. PICK o : Git!Goto(d, o) /\
             (o = Git!Idle \/ (/\ o.kind \in {"restore", "remove"}
                               /\ o = [kind |-> o.kind, tracked |-> o.tracked, left |-> o.left]))
    <2>1. CASE Git!restore(d)
      BY <1>4, <2>1 DEF Git!restore
    <2>2. CASE Git!remove(d)
      <3>1. PICK p \in call[d].left :
               Git!Goto(d, IF call[d].left = {p} THEN Git!Idle ELSE [call[d] EXCEPT !.left = @ \ {p}])
        BY <2>2 DEF Git!remove
      <3>2. [call[d] EXCEPT !.left = @ \ {p}] = [call[d] EXCEPT !.left = call[d].left \ {p}]
        OBVIOUS
      <3> QED BY <1>1, <1>3, <3>1, <3>2
    <2> QED BY <2>1, <2>2
  <1>6. GitOpOK(o, view[d])
    BY <1>5, IdleOK DEF GitOpOK, Git!Idle, Git!None
  <1>7. OpsTyped
    BY <1>1, <1>5, <1>6, OpsGo DEF GitTypes
  <1>8. wt' \in Trees
    BY <1>1 DEF Git!restore, Git!remove, GitTypes, Trees, GitValue
  <1>9. TreesTyped
    BY <1>1, <1>8 DEF TreesTyped, GitTypes
  <1> QED BY <1>1, <1>7, <1>9, FilesStep DEF Git!heads

\* Edits by hand.
LEMMA GitEdits ==
    ASSUME GitInv, NEW p \in Path, NEW c \in {Git!None} \union Content, Git!Edit(p, c)
    PROVE  GitInv'
  <1>1. GitTypes /\ UNCHANGED <<index, Git!heads, mixed, stash, ignore, view, call>>
    BY DEF Git!Edit, GitInv
  <1>2. callCounts' \in [ops : Nat, edits : Nat, faults : Nat] /\ wt' \in Trees
    BY <1>1 DEF Git!Edit, GitTypes, Trees, GitValue
  <1>3. OpsTyped /\ TreesTyped
    BY <1>1, <1>2, OpsSame DEF TreesTyped, GitTypes
  <1> QED BY <1>1, <1>3, FilesStep DEF Git!heads

\* A commit on what is checked out.
LEMMA CommitRuns ==
    ASSUME GitInv, NEW d \in Device, Git!commit(d) \/ Git!initial_commit(d)
    PROVE  GitInv'
  <1>1. /\ GitTypes /\ UNCHANGED <<Git!files, remote, mixed, stash, view, callCounts>> /\ Git!Goto(d, Git!Idle)
        /\ Git!MoveHead(Len(commits'))
    BY DEF Git!commit, Git!initial_commit, Git!At, GitInv
  <1>2. PICK q \in KnownCommits : commits' = Append(commits, [parent |-> q, tree |-> index])
    <2>1. CASE Git!commit(d)
      <3>1. at.oid \in KnownCommits
        BY <1>1 DEF GitTypes, HeadPlace
      <3>2. call[d].amend => commits[at.oid].parent \in KnownCommits
        <4> SUFFICES ASSUME call[d].amend
                     PROVE  commits[at.oid].parent \in KnownCommits
          OBVIOUS
        <4>1. at.oid \in 1..Len(commits) /\ Len(commits) \in Nat
          BY <2>1, <3>1, <1>1 DEF Git!commit, KnownCommits, GitTypes, Built
        <4>2. commits[at.oid].parent < at.oid /\ commits[at.oid] \in Commits
          BY <1>1, <4>1 DEF GitTypes, Built
        <4>3. commits[at.oid].parent \in Nat
          BY <4>2 DEF Commits
        <4> QED BY <4>1, <4>2, <4>3 DEF KnownCommits
      <3> QED BY <2>1, <3>1, <3>2 DEF Git!commit
    <2>2. CASE Git!initial_commit(d)
      <3>1. at.oid \in KnownCommits
        BY <1>1 DEF GitTypes, HeadPlace
      <3> QED BY <2>2, <3>1 DEF Git!initial_commit
    <2> QED BY <1>1, <2>1, <2>2
  <1> DEFINE c == [parent |-> q, tree |-> index]
  <1>3. OpsTyped
    BY <1>1, OpsReturn DEF GitTypes
  <1>4. c \in Commits /\ c.parent \in KnownCommits
    BY <1>1 DEF GitTypes, Built, KnownCommits, Commits
  <1> HIDE DEF c
  <1>5. /\ Built' /\ Len(commits') = Len(commits) + 1 /\ KnownCommits \subseteq KnownCommits'
        /\ Len(commits') \in KnownCommits'
        /\ HeadPlace \subseteq HeadPlace' /\ StashEntry \subseteq StashEntry'
        /\ \A e \in Device : GitOpOK(call[e], view[e])'
    BY <1>1, <1>2, <1>3, <1>4, CommitKept DEF c
  <1>6. PICK n : n = Len(commits')
    OBVIOUS
  <1>7. /\ at' = [branch |-> at.branch, oid |-> n] /\ at.branch \in Git!Branch \union {Git!None}
        /\ refs' = IF at.branch = Git!None THEN refs ELSE [refs EXCEPT ![at.branch] = n]
    BY <1>1, <1>6 DEF Git!MoveHead, GitTypes, HeadPlace
  <1>8. at' \in HeadPlace' /\ refs' \in [Git!Branch -> KnownCommits'] /\ Attached'
    BY <1>1, <1>5, <1>6, <1>7 DEF GitTypes, HeadPlace, Attached
  <1>9. remote' \in KnownCommits' /\ stash' \in Seq(StashEntry')
    <2>1. stash' \in Seq(StashEntry)
      BY <1>1 DEF GitTypes
    <2> QED BY <1>1, <1>5, <2>1 DEF GitTypes
  <1> QED BY <1>1, <1>3, <1>5, <1>8, <1>9 DEF GitInv, GitTypes, OpsTyped, Git!files

\* A switch that finds what its check found takes the files to its tree.
LEMMA TargetIs ==
    ASSUME GitInv, NEW d \in Device, Git!switch(d)
    PROVE  Git!Target(call[d]) \in HeadPlace
  <1>1. GitTypes /\ call[d].kind \in {"checkout", "pull"} /\ GitOpOK(call[d], view[d])
    BY DEF Git!switch, GitInv, GitTypes
  <1>2. call[d].to \in HeadPlace
    BY <1>1 DEF GitOpOK
  <1>3. CASE call[d].kind = "pull"
    BY <1>1, <1>3 DEF Git!Target, GitTypes, HeadPlace
  <1>4. CASE call[d].kind # "pull"
    <2>1. CASE call[d].to.branch = Git!None
      BY <1>2, <1>4, <2>1 DEF Git!Target
    <2>2. CASE call[d].to.branch # Git!None
      <3>1. call[d].to.branch \in Git!Branch /\ refs[call[d].to.branch] \in KnownCommits
        BY <1>1, <1>2, <2>2 DEF HeadPlace, GitTypes
      <3> QED BY <1>2, <1>4, <2>2, <3>1 DEF Git!Target, HeadPlace
    <2> QED BY <2>1, <2>2
  <1> QED BY <1>3, <1>4

LEMMA Switching ==
    ASSUME GitInv, NEW d \in Device, Git!switch(d)
    PROVE  GitInv'
  <1>1. PICK o, to, T : o = call[d] /\ to = Git!Target(call[d]) /\ T = Git!Tree(Git!Target(call[d]).oid)
    OBVIOUS
  <1>2. to \in HeadPlace /\ GitTypes
    BY <1>1, TargetIs DEF GitInv
  <1>3. T \in Trees /\ Git!HeadTree \in Trees /\ index \in Trees /\ wt \in Trees
    BY <1>1, <1>2, TreeIs, HeadTreeIs DEF GitTypes, HeadPlace
  <1> DEFINE Changed == {p \in Path : Git!HeadTree[p] # T[p] /\ index[p] # T[p]}
  <1>4. /\ call[d].kind \in {"checkout", "pull"} /\ UNCHANGED callCounts /\ Git!Goto(d, Git!Idle)
        /\ UNCHANGED <<exists, commits, remote, stash, ignore, view>> /\ at' = to
        /\ call[d].kind = "pull" => at.branch = "main"
        /\ refs' = IF call[d].kind = "pull" THEN [refs EXCEPT !["main"] = remote] ELSE refs
        /\ index' = [p \in Path |-> IF p \in Changed THEN T[p] ELSE index[p]]
        /\ wt' = [p \in Path |-> IF p \in Changed THEN T[p] ELSE wt[p]]
        /\ mixed' = (mixed \/ (/\ <<o.index, o.wt, o.head>> = <<index, wt, Git!HeadTree>>
                               /\ <<index', wt'>> # <<T, T>>))
    BY <1>1 DEF Git!switch
  <1>5. GitOpOK(o, view[d])
    BY <1>1, <1>2 DEF GitTypes
  <1>6. <<o.index, o.wt, o.head>> = <<index, wt, Git!HeadTree>> => index' = T /\ wt' = T
    <2> SUFFICES ASSUME o.index = index, o.wt = wt, o.head = Git!HeadTree
                 PROVE  index' = T /\ wt' = T
      OBVIOUS
    <2>1. index = Git!HeadTree /\ wt = Git!HeadTree
      BY <1>1, <1>4, <1>5 DEF GitOpOK
    <2> QED BY <1>3, <1>4, <2>1 DEF Trees
  <1>7. ~mixed'
    <2>1. mixed' => mixed
      BY <1>4, <1>6
    <2> QED BY <2>1 DEF GitInv
  <1>8. TreesTyped
    BY <1>2, <1>3, <1>4 DEF TreesTyped, GitTypes, Trees
  <1>9. HeadTyped
    BY <1>2, <1>4 DEF HeadTyped, GitTypes, Git!Branch
  <1>10. OpsTyped
    BY <1>2, <1>4, OpsReturn DEF GitTypes
  <1>11. GitTypes'
    BY <1>2, <1>4, <1>8, <1>9, <1>10, GitTypesKept
  <1>12. Attached'
    <2>1. CASE call[d].kind = "pull"
      <3>1. to = [branch |-> at.branch, oid |-> remote] /\ at.branch = "main" /\ "main" \in Git!Branch
        BY <1>1, <1>4, <2>1 DEF Git!Target, Git!Branch
      <3> QED BY <1>2, <1>4, <2>1, <3>1 DEF Attached, GitTypes
    <2>2. CASE call[d].kind # "pull"
      <3>1. o.to \in HeadPlace
        BY <1>1, <1>4, <1>5 DEF GitOpOK
      <3>2. to.branch # Git!None => to.oid = refs[to.branch]
        BY <1>1, <2>2, <3>1 DEF Git!Target, HeadPlace
      <3> QED BY <1>4, <2>2, <3>2 DEF Attached
    <2> QED BY <2>1, <2>2
  <1> QED BY <1>7, <1>11, <1>12 DEF GitInv

LEMMA GitUnchanged ==
    ASSUME GitInv, UNCHANGED Git!vars
    PROVE  GitInv'
  <1>1. TreesTyped /\ OpsTyped
    BY OpsSame, FilesSame DEF GitInv, GitTypes, Git!vars
  <1> QED BY <1>1, FilesStep DEF Git!vars

\* Every step keeps the invariant.
LEMMA GitSteps == GitInv /\ [Git!Next]_(Git!vars) => GitInv'
  <1> SUFFICES ASSUME GitInv, [Git!Next]_(Git!vars)
               PROVE  GitInv'
    OBVIOUS
  <1>1. ASSUME NEW d \in Device, Git!Request(d)
        PROVE  GitInv'
    <2>1. CASE Git!get_git_status(d) \/ Git!stash_list(d) \/ Git!init(d) \/ Git!push(d)
      BY <2>1, GitLooks, GitInits, Push
    <2>2. CASE Git!pull(d) \/ \E to \in Git!Switches : Git!checkout(d, to)
      BY <2>2, Checkout
    <2>3. CASE \/ \E S \in SUBSET Path \ {{}} : Git!stage(d, S) \/ Git!discard(d, S)
               \/ \E S \in {{}} \union {{p} : p \in Path} : Git!unstage(d, S)
      BY <2>3, Staging, Discards
    <2>4. CASE \E amend \in BOOLEAN : Git!commit_check(d, amend)
      BY <2>4, CommitCheck
    <2>5. CASE Git!stash_push(d) \/ Git!stash_pop(d) \/ \E k \in 1..MaxCalls : Git!stash_drop(d, k)
      BY <2>5, StashPush, StashPop, StashDrop
    <2>6. CASE Git!read_gitignore(d)
      BY <2>6, ReadIgnore
    <2> QED BY <1>1, <2>1, <2>2, <2>3, <2>4, <2>5, <2>6 DEF Git!Request
  <1>2. ASSUME NEW d \in Device, Git!Step(d)
        PROVE  GitInv'
    BY <1>2, CommitRuns, Switching, GitRestores, GitEnds DEF Git!Step
  <1>3. ASSUME NEW p \in Path, NEW c \in {Git!None} \union Content, Git!Edit(p, c)
        PROVE  GitInv'
    BY <1>3, GitEdits
  <1> QED BY <1>1, <1>2, <1>3, GitUnchanged DEF Git!Next

\* A checkout or a pull that found the tree clean, and for which HEAD's tree, the
\* index and the files are still those, leaves exactly the tree it went to
\* (checkout, checkout_commit and pull with their DirtyTree check).
THEOREM SwitchesClean == Git!Spec => []SwitchesAreClean
  <1>1. GitInv => Git!SwitchesAreClean
    BY DEF GitInv, Git!SwitchesAreClean
  <1> QED BY <1>1, GitInit, GitSteps, PTL DEF Git!Spec, SwitchesAreClean

------------------------------------------------------------------------------
(* What a commit is built on.                                                  *)

\* A commit is before itself, and so is its parent;
LEMMA ReachesParent ==
    Built => \A c \in KnownCommits \ {0} :
        c \in Git!Before(c) /\ (commits[c].parent # 0 => commits[c].parent \in Git!Before(c))
  <1> SUFFICES ASSUME Built, NEW c \in KnownCommits \ {0}
               PROVE  c \in Git!Before(c) /\ (commits[c].parent # 0 => commits[c].parent \in Git!Before(c))
    OBVIOUS
  <1>1. Git!Before(c) = {c} \union Git!Before(commits[c].parent)
    BY BeforeIs
  <1>2. c \in 1..Len(commits) /\ Len(commits) \in Nat
    BY DEF KnownCommits, Built
  <1>3. commits[c] \in Commits /\ commits[c].parent < c
    BY <1>2 DEF Built
  <1>4. commits[c].parent \in KnownCommits
    BY <1>2, <1>3 DEF KnownCommits, Commits
  <1>5. commits[c].parent # 0 => commits[c].parent \in Git!Before(commits[c].parent)
    BY <1>4, BeforeIs
  <1> QED BY <1>1, <1>5

\* also once another commit was added.
LEMMA ReachesNext ==
    (Built => \A c \in KnownCommits \ {0} :
        c \in Git!Before(c) /\ (commits[c].parent # 0 => commits[c].parent \in Git!Before(c)))'
  BY ReachesParent, PTL

\* A branch that stays where it is.
LEMMA BeforeStays ==
    ASSUME GitInv, GitInv', NEW b \in Git!Branch, refs'[b] = refs[b]
    PROVE  refs[b] \in Git!Before(refs[b])' \union {0}
  <1>1. PICK c : c = refs[b]
    OBVIOUS
  <1>2. Built' /\ c \in KnownCommits'
    BY <1>1 DEF GitInv, GitTypes
  <1>3. c # 0 => c \in Git!Before(c)'
    BY <1>2, ReachesNext
  <1>4. Git!Before(refs[b])' = Git!Before(c)'
    BY <1>1 DEF Git!Before
  <1> QED BY <1>1, <1>3, <1>4

\* Commits, amendments and pulls leave on a branch what was on it.
LEMMA CommitsByStep == GitInv /\ [Git!Next]_(Git!vars) => Git!CommitStays
  <1> SUFFICES ASSUME GitInv, [Git!Next]_(Git!vars), NEW b \in Git!Branch
               PROVE  \/ refs[b] \in Git!Before(refs[b])' \union {0}
                      \/ \E d \in Device : /\ call[d].kind = "commit" /\ call'[d] = Git!Idle
                                           /\ refs[b] # call[d].head \/ refs[b] = view[d].head
    BY DEF Git!CommitStays
  <1>0. GitInv' /\ GitTypes
    BY GitSteps DEF GitInv
  <1>1. CASE refs'[b] = refs[b]
    BY <1>0, <1>1, BeforeStays
  <1>2. CASE refs'[b] # refs[b]
    <2>1. PICK d \in Device : Git!commit(d) \/ Git!initial_commit(d) \/ Git!switch(d)
      <3>1. ASSUME NEW d \in Device, Git!Request(d)
            PROVE  FALSE
        BY <1>2, <3>1
           DEF Git!Request, Git!get_git_status, Git!stash_list, Git!init, Git!push, Git!pull,
               Git!stage, Git!discard, Git!unstage,
           Git!commit_check, Git!checkout, Git!Refuse, Git!stash_push, Git!stash_pop,
           Git!stash_drop, Git!read_gitignore, Git!heads
      <3>2. ASSUME NEW d \in Device,
                   Git!restore(d) \/ Git!remove(d) \/ Git!write_gitignore(d) \/ Git!Fails(d)
            PROVE  FALSE
        BY <1>2, <3>2 DEF Git!restore, Git!remove, Git!write_gitignore, Git!Fails, Git!heads
      <3>3. ASSUME NEW p, NEW c, Git!Edit(p, c)
            PROVE  FALSE
        BY <1>2, <3>3 DEF Git!Edit, Git!heads
      <3> QED BY <1>2, <3>1, <3>2, <3>3 DEF Git!Next, Git!Step, Git!vars
    <2>2. CASE Git!commit(d) \/ Git!initial_commit(d)
      <3>0. PICK n : n = Len(commits')
        OBVIOUS
      <3>1. Git!MoveHead(n)
        BY <2>2, <3>0 DEF Git!commit, Git!initial_commit
      <3>2. b = at.branch /\ refs'[b] = n /\ refs[b] = at.oid /\ at.oid \in KnownCommits
        <4>1. refs' = IF at.branch = Git!None THEN refs ELSE [refs EXCEPT ![at.branch] = n]
          BY <3>1 DEF Git!MoveHead
        <4>2. b = at.branch /\ refs'[b] = n
          BY <1>0, <1>2, <4>1 DEF GitTypes
        <4>3. b # Git!None
          BY NoBranch
        <4> QED BY <1>0, <4>2, <4>3 DEF GitInv, Attached, GitTypes, HeadPlace
      <3>3. n = Len(commits) + 1 /\ n \in KnownCommits' /\ n # 0 /\ Built' /\ Len(commits) \in Nat
        <4>1. Len(commits') = Len(commits) + 1
          BY <2>2, AppendProperties
             DEF Git!commit, Git!initial_commit, GitInv, GitTypes, Built, Commits, KnownCommits,
                 HeadPlace
        <4> QED BY <1>0, <3>0, <4>1 DEF GitInv, GitTypes, Built, KnownCommits
      <3>4. CASE Git!commit(d) /\ call[d].amend
        <4>1. call[d].kind = "commit" /\ GitOpOK(call[d], view[d]) /\ call'[d] = Git!Idle /\ at.oid # 0
          BY <1>0, <3>4 DEF Git!commit, Git!At, GitTypes, Git!Goto
        <4>2. call[d].head = 0 \/ call[d].head = view[d].head
          BY <4>1 DEF GitOpOK
        <4>3. refs[b] # call[d].head \/ refs[b] = view[d].head
          BY <3>2, <4>1, <4>2
        <4> QED BY <4>1, <4>3
      <3>5. CASE (Git!commit(d) /\ ~call[d].amend) \/ Git!initial_commit(d)
        <4>1. commits' = Append(commits, [parent |-> at.oid, tree |-> index])
          BY <3>5 DEF Git!commit, Git!initial_commit
        <4>2. commits'[n].parent = at.oid
          <5>1. [parent |-> at.oid, tree |-> index] \in Commits
            BY <1>0, <3>2, <3>3 DEF GitTypes, Commits, KnownCommits
          <5> HIDE DEF Commits
          <5>2. commits \in Seq(Commits)
            BY <1>0 DEF GitTypes, Built
          <5> QED BY <3>3, <4>1, <5>1, <5>2, AppendProperties
        <4>3. at.oid # 0 => at.oid \in Git!Before(n)'
          BY <3>3, <4>2, ReachesNext
        <4>4. Git!Before(refs[b])' = Git!Before(n)'
          BY <3>2 DEF Git!Before
        <4> QED BY <3>2, <4>3, <4>4
      <3> QED BY <2>2, <3>4, <3>5
    <2>3. CASE Git!switch(d)
      <3>1. /\ call[d].kind = "pull" /\ at.branch = "main" /\ remote # 0
            /\ at.oid = 0 \/ at.oid \in Git!Before(remote)
            /\ refs' = [refs EXCEPT !["main"] = remote] /\ commits' = commits
        BY <1>2, <2>3 DEF Git!switch
      <3>2. b = "main" /\ refs'[b] = remote
        BY <1>0, <1>2, <3>1 DEF GitTypes
      <3>3. refs[b] = at.oid
        BY <3>1, <3>2, NoBranch DEF GitInv, Attached
      <3>4. Git!Before(refs[b])' = Git!Before(remote)
        BY <3>1, <3>2 DEF Git!Before, Git!Ancestors
      <3> QED BY <3>1, <3>3, <3>4
    <2> QED BY <2>1, <2>2, <2>3
  <1> QED BY <1>1, <1>2

\* What is on a branch stays on it: a commit leaves it only when a device that was
\* told of the commit amends it, or when HEAD moved between the check of If-Match
\* and git (commit, pull).
THEOREM CommitsReachable == Git!Spec => CommitsStay
  BY GitInit, GitSteps, CommitsByStep, PTL DEF Git!Spec, CommitsStay, gitVars, Git!vars

-----------------------------------------------------------------------------
(* The record of a session                                                     *)

\* A record, and one whose id the agent gave that it goes with.
AcpId == 1..Len(madeBy)
Rec == [name : Name \union {Records!NewChat, Records!Derived}, agent : Agent, acp : AcpId]
Owned(r) == r \in Rec /\ madeBy[r.acp] = r.agent
KeptRecord(r) == r = Records!None \/ Owned(r)

\* The requests there are.
RecordCallOK(c) ==
    \/ c = Records!Idle
    \/ /\ c.pc \in {"ensure", "spawned", "promote", "save", "look", "auto"} /\ c.kind = "prompt"
       /\ c = [pc |-> c.pc, kind |-> c.kind, rec |-> c.rec]
       /\ c.pc = "spawned" => Owned(c.rec)
    \/ /\ c.pc \in {"ensure", "spawned", "promote", "save", "start", "finish", "restarted"} /\ c.kind = "rebind"
       /\ c = [pc |-> c.pc, kind |-> c.kind, to |-> c.to, rec |-> c.rec] /\ c.to \in Agent
       /\ c.pc = "spawned" => Owned(c.rec)
    \/ c.pc \in {"rename", "rename_save"} /\ c = [pc |-> c.pc, name |-> c.name] /\ c.name \in Name
    \/ c = [pc |-> "close_save"]

\* Every record goes with an id that its agent gave.
RecordTypes ==
    /\ madeBy \in Seq(Agent) /\ stillHeld \subseteq AcpId /\ newest \in AcpId
    /\ KeptRecord(entry) /\ KeptRecord(record) /\ KeptRecord(onDisk)
    /\ starting \in BOOLEAN /\ restoring \in BOOLEAN /\ overtaken \in BOOLEAN /\ unwritten \in BOOLEAN
    /\ requests = [d \in Device |-> requests[d]] /\ \A d \in Device : RecordCallOK(requests[d])

\* One device at a time restores the session, and it holds the lock.
Restorers == {d \in Device : requests[d].pc \in {"spawned", "promote", "save"}}
OneRestores == (restoring <=> Restorers # {}) /\ \A d, e \in Restorers : d = e

\* The record that a restore read is the one that is there, but for a name that
\* came in between; the live entry and the record stand side by side only until the
\* promotion is finished.
Restored(d) ==
    /\ entry = Records!None
    /\ record # Records!None => /\ record.acp = requests[d].rec.acp /\ record.agent = requests[d].rec.agent
                                /\ overtaken \/ record.name = requests[d].rec.name
    /\ overtaken \/ requests[d].rec.name \in confirmed
RecordRestores ==
    /\ \A d \in Device : Records!At(d, "spawned") => Restored(d)
    /\ entry # Records!None /\ record # Records!None => \E d \in Device : Records!At(d, "promote")
    /\ \A d \in Device : Records!At(d, "promote") => entry # Records!None \/ record = Records!None

\* The name is the one that was confirmed last.
RecordNaming ==
    ~overtaken => /\ Records!Here => Records!Shown.name \in confirmed
                  /\ onDisk # Records!None => onDisk.name \in confirmed

\* Memory has the conversation that was had last, and so has the disk once a new id
\* is written down.
LastHad ==
    /\ entry # Records!None => entry.acp = newest
    /\ entry = Records!None /\ record # Records!None /\ ~unwritten => record.acp = newest
    /\ onDisk # Records!None /\ ~Records!Pending /\ ~unwritten => onDisk.acp = newest

\* The inductive invariant of the record of a session.
RecordInv == RecordTypes /\ OneRestores /\ RecordRestores /\ RecordNaming /\ LastHad

------------------------------------------------------------------------------
\* The requests of the other devices stay.
RecordOthers(d) == requests' = [e \in Device |-> requests'[e]] /\ \A e \in Device \ {d} : requests'[e] = requests[e]

LEMMA NoneIsNone == Records!None \notin Rec /\ KeptRecord(Records!None)
  BY DEF Records!None, Rec, AcpId, KeptRecord

\* It holds at first.
LEMMA RecordInit == Records!Init => RecordInv
  <1> SUFFICES ASSUME Records!Init PROVE RecordInv
    OBVIOUS
  <1>1. PICK g \in Agent : madeBy = <<g>> /\ onDisk = [name |-> Records!NewChat, agent |-> g, acp |-> 1]
    BY DEF Records!Init
  <1>2. madeBy \in Seq(Agent) /\ AcpId = {1} /\ madeBy[1] = g
    BY <1>1 DEF AcpId
  <1>3. Owned(onDisk) /\ onDisk.name = Records!NewChat /\ onDisk.acp = 1 /\ onDisk # Records!None
    <2>1. onDisk \in Rec
      BY <1>1, <1>2 DEF Rec
    <2> QED BY <1>1, <1>2, <2>1, NoneIsNone DEF Owned
  <1>4. RecordTypes
    BY <1>2, <1>3, NoneIsNone DEF Records!Init, RecordTypes, RecordCallOK, KeptRecord
  <1>5. OneRestores /\ RecordRestores
    BY DEF Records!Init, OneRestores, Restorers, RecordRestores, Records!At, Records!Idle
  <1>6. RecordNaming /\ LastHad
    BY <1>3 DEF Records!Init, RecordNaming, LastHad, Records!Here, Records!Shown
  <1> QED BY <1>4, <1>5, <1>6 DEF RecordInv

------------------------------------------------------------------------------
(* Requests                                                                    *)

\* A request begins, ends, or goes on.
LEMMA RecordBeginIs ==
    ASSUME RecordTypes, NEW d \in Device, NEW c, Records!Begin(d, c)
    PROVE  RecordOthers(d) /\ requests[d].pc = "idle" /\ requests'[d] = c
  BY DEF RecordTypes, Records!Begin, RecordOthers, Records!At

LEMMA RecordReturnIs ==
    ASSUME RecordTypes, NEW d \in Device, Records!Return(d)
    PROVE  RecordOthers(d) /\ requests'[d] = Records!Idle /\ requests'[d].pc = "idle" /\ RecordCallOK(requests'[d])
  BY DEF RecordTypes, Records!Return, RecordOthers, Records!Idle, RecordCallOK

\* A request for the session goes on.
Prompting == {"ensure", "spawned", "promote", "save", "look", "auto"}
Rebinding == {"ensure", "spawned", "promote", "save", "start", "finish", "restarted"}
LEMMA RecordGotoIs ==
    ASSUME RecordTypes, NEW d \in Device, NEW pc, Records!Goto(d, pc),
           requests[d].pc \in Prompting \union Rebinding
    PROVE  /\ RecordOthers(d) /\ requests'[d].pc = pc /\ requests[d].kind \in {"prompt", "rebind"}
           /\ requests'[d].kind = requests[d].kind /\ requests'[d].rec = requests[d].rec
           /\ /\ pc # "spawned"
              /\ pc \in (IF requests[d].kind = "prompt" THEN Prompting ELSE Rebinding)
              => RecordCallOK(requests'[d])
  <1> DEFINE c == requests[d]
  <1>1. RecordCallOK(c) /\ requests = [e \in Device |-> requests[e]]
    BY DEF RecordTypes
  <1>2. requests' = [requests EXCEPT ![d] = [c EXCEPT !.pc = pc]]
    BY DEF Records!Goto
  <1>3. PICK x : x = [c EXCEPT !.pc = pc]
    OBVIOUS
  <1>4. \/ c.kind = "prompt" /\ x = [pc |-> pc, kind |-> c.kind, rec |-> c.rec]
        \/ /\ c.kind = "rebind" /\ x = [pc |-> pc, kind |-> c.kind, to |-> c.to, rec |-> c.rec]
           /\ c.to \in Agent
    BY <1>1, <1>3 DEF RecordCallOK, Prompting, Rebinding, Records!Idle
  <1>5. requests'[d] = x /\ RecordOthers(d)
    BY <1>1, <1>2, <1>3 DEF RecordOthers
  <1> HIDE DEF c
  <1>6. /\ x.pc = pc /\ x.kind = c.kind /\ x.rec = c.rec /\ c.kind \in {"prompt", "rebind"}
        /\ pc # "spawned" /\ pc \in (IF c.kind = "prompt" THEN Prompting ELSE Rebinding) => RecordCallOK(x)
    BY <1>4 DEF RecordCallOK, Prompting, Rebinding
  <1> QED BY <1>5, <1>6 DEF c

\* What the agents gave stays theirs.
LEMMA IdsGrow ==
    ASSUME RecordTypes, UNCHANGED madeBy \/ \E g \in Agent : madeBy' = Append(madeBy, g)
    PROVE  /\ madeBy' \in Seq(Agent) /\ AcpId \subseteq AcpId'
           /\ \A r : Owned(r) => Owned(r)'
           /\ \A r : KeptRecord(r) => KeptRecord(r)'
           /\ \A c : RecordCallOK(c) => RecordCallOK(c)'
  <1>1. madeBy \in Seq(Agent)
    BY DEF RecordTypes
  <1>2. madeBy' \in Seq(Agent) /\ AcpId \subseteq AcpId' /\ \A i \in AcpId : madeBy'[i] = madeBy[i]
    <2>1. CASE UNCHANGED madeBy
      BY <1>1, <2>1 DEF AcpId
    <2>2. ASSUME NEW g \in Agent, madeBy' = Append(madeBy, g)
          PROVE  madeBy' \in Seq(Agent) /\ AcpId \subseteq AcpId' /\ \A i \in AcpId : madeBy'[i] = madeBy[i]
      BY <1>1, <2>2, AppendProperties DEF AcpId
    <2> QED BY <2>1, <2>2
  <1>3. \A r : Owned(r) => Owned(r)'
    BY <1>2 DEF Owned, Rec
  <1>4. (\A r : KeptRecord(r) => KeptRecord(r)') /\ (\A c : RecordCallOK(c) => RecordCallOK(c)')
    BY <1>3 DEF KeptRecord, RecordCallOK
  <1> QED BY <1>2, <1>3, <1>4

LEMMA CallsKept ==
    ASSUME RecordTypes, UNCHANGED madeBy \/ \E g \in Agent : madeBy' = Append(madeBy, g),
           NEW d \in Device, RecordOthers(d), RecordCallOK(requests[d])'
    PROVE  \A e \in Device : RecordCallOK(requests[e])'
  <1> SUFFICES ASSUME NEW e \in Device, e # d
               PROVE  RecordCallOK(requests[e])'
    OBVIOUS
  <1>0. PICK c : c = requests[e]
    OBVIOUS
  <1>1. requests'[e] = c /\ RecordCallOK(c)'
    BY <1>0, IdsGrow DEF RecordTypes, RecordOthers
  <1> QED BY <1>1

\* The parts of RecordTypes besides the requests.
Shapes ==
    /\ stillHeld \subseteq AcpId /\ newest \in AcpId
    /\ KeptRecord(entry) /\ KeptRecord(record) /\ KeptRecord(onDisk)
    /\ starting \in BOOLEAN /\ restoring \in BOOLEAN /\ overtaken \in BOOLEAN /\ unwritten \in BOOLEAN

LEMMA RecordTypesKept ==
    ASSUME RecordTypes, UNCHANGED madeBy \/ \E g \in Agent : madeBy' = Append(madeBy, g),
           NEW d \in Device, RecordOthers(d), RecordCallOK(requests[d])', Shapes'
    PROVE  RecordTypes'
  <1>1. \A e \in Device : RecordCallOK(requests[e])'
    BY CallsKept
  <1>2. madeBy' \in Seq(Agent)
    BY IdsGrow
  <1> QED BY <1>1, <1>2 DEF Shapes, RecordTypes, RecordOthers

LEMMA SameIds ==
    ASSUME UNCHANGED madeBy
    PROVE  /\ AcpId' = AcpId /\ (\A r : Owned(r)' = Owned(r)) /\ (\A r : KeptRecord(r)' = KeptRecord(r))
           /\ (\A c : RecordCallOK(c)' = RecordCallOK(c))
  <1>1. AcpId' = AcpId /\ Rec' = Rec
    BY DEF AcpId, Rec
  <1>2. \A r : Owned(r)' = Owned(r)
    BY <1>1 DEF Owned
  <1>3. \A r : KeptRecord(r)' = KeptRecord(r)
    BY <1>2 DEF KeptRecord
  <1> QED BY <1>1, <1>2, <1>3 DEF RecordCallOK

\* A step that leaves the restores to the others.
Holders == {"spawned", "promote", "save"}
LEMMA OneRestoresKept ==
    ASSUME OneRestores, NEW d \in Device, RecordOthers(d), UNCHANGED restoring,
           requests[d].pc \in Holders <=> requests'[d].pc \in Holders
    PROVE  OneRestores'
  <1>1. Restorers' = Restorers
    BY DEF Restorers, RecordOthers, Holders
  <1> QED BY <1>1 DEF OneRestores

LEMMA RestoresKept ==
    ASSUME RecordRestores, NEW d \in Device, RecordOthers(d),
           UNCHANGED <<entry, record, overtaken>>,
           confirmed \subseteq confirmed',
           requests[d].pc \notin {"spawned", "promote"}, requests'[d].pc \notin {"spawned", "promote"}
    PROVE  RecordRestores'
  <1>1. \A e \in Device : /\ requests'[e].pc = "spawned" <=> requests[e].pc = "spawned"
                          /\ requests'[e].pc = "promote" <=> requests[e].pc = "promote"
                          /\ requests'[e].pc = "spawned" => requests'[e] = requests[e]
    BY DEF RecordOthers
  <1>2. \A e \in Device : Records!At(e, "spawned")' => Restored(e)'
    BY <1>1 DEF RecordRestores, Restored, Records!At
  <1> QED BY <1>1, <1>2 DEF RecordRestores, Records!At

LEMMA PendingKept ==
    ASSUME NEW d \in Device, RecordOthers(d),
           requests[d].pc \notin {"promote", "save", "restarted"}, Records!Pending
    PROVE  Records!Pending'
  BY DEF RecordOthers, Records!Pending

\* A step that changes neither records nor ids.
LEMMA QuietStep ==
    ASSUME RecordInv, NEW d \in Device, RecordOthers(d), RecordCallOK(requests'[d]),
           starting' \in BOOLEAN,
           UNCHANGED <<entry, record, onDisk, restoring, Records!names, Records!ids>>,
           requests[d].pc \notin Holders \union {"restarted"}, requests'[d].pc \notin Holders
    PROVE  RecordInv'
  <1>1. UNCHANGED <<confirmed, overtaken, madeBy, stillHeld, newest, unwritten>>
    BY DEF Records!names, Records!ids
  <1>2. RecordTypes'
    <2>1. Shapes' /\ RecordCallOK(requests[d])'
      BY <1>1, SameIds DEF RecordInv, RecordTypes, Shapes
    <2> QED BY <1>1, <2>1, RecordTypesKept DEF RecordInv
  <1>3. OneRestores' /\ RecordRestores'
    BY <1>1, OneRestoresKept, RestoresKept DEF RecordInv, Holders
  <1>4. RecordNaming'
    BY <1>1 DEF RecordInv, RecordNaming, Records!Here, Records!Shown
  <1>5. LastHad'
    BY <1>1, PendingKept DEF RecordInv, LastHad, Holders
  <1> QED BY <1>2, <1>3, <1>4, <1>5 DEF RecordInv

------------------------------------------------------------------------------
(* Every action keeps the invariant.                                           *)

\* Prompts and rebinds ask for the session;
LEMMA Asking ==
    ASSUME RecordInv, NEW d \in Device, Records!ask(d)
    PROVE  RecordInv'
  <1>1. PICK c : /\ Records!Begin(d, c) /\ c.pc = "ensure"
                 /\ \/ c = [pc |-> "ensure", kind |-> "prompt", rec |-> Records!None]
                    \/ \E g \in Agent : c = [pc |-> "ensure", kind |-> "rebind", to |-> g, rec |-> Records!None]
    BY DEF Records!ask
  <1>2. RecordCallOK(c)
    BY <1>1 DEF RecordCallOK
  <1>3. RecordOthers(d) /\ requests[d].pc = "idle" /\ requests'[d] = c
    BY <1>1, RecordBeginIs DEF RecordInv
  <1> QED BY <1>1, <1>2, <1>3, QuietStep
             DEF Records!ask, Records!records, Holders, RecordInv, RecordTypes

\* A request that goes on with the session.
LEMMA ContinuesIs ==
    ASSUME RecordTypes, NEW d \in Device, Records!Continues(d),
           requests[d].pc \in {"ensure", "save"}
    PROVE  RecordOthers(d) /\ RecordCallOK(requests'[d]) /\ requests'[d].pc \in {"look", "start"}
  <1>1. requests[d].pc \in Prompting \union Rebinding
    BY DEF Prompting, Rebinding
  <1>2. CASE requests[d].kind = "prompt"
    BY <1>1, <1>2, RecordGotoIs DEF Records!Continues, Prompting
  <1>3. CASE requests[d].kind # "prompt"
    BY <1>1, <1>3, RecordGotoIs DEF Records!Continues, Rebinding
  <1> QED BY <1>2, <1>3

\* ensure_live reads the record under its lock;
LEMMA Ensuring ==
    ASSUME RecordInv, NEW d \in Device, Records!ensure_live_session(d)
    PROVE  RecordInv'
  <1>1. /\ RecordTypes /\ requests[d].pc = "ensure" /\ UNCHANGED <<Records!records, onDisk, recordCounts, Records!names, Records!ids>>
    BY DEF Records!ensure_live_session, Records!At, RecordInv
  <1>2. CASE entry # Records!None /\ Records!Continues(d) /\ UNCHANGED restoring
    BY <1>1, <1>2, ContinuesIs, QuietStep DEF Records!records, Holders, RecordTypes
  <1>3. CASE entry = Records!None /\ record = Records!None /\ ~restoring /\ Records!Return(d) /\ UNCHANGED restoring
    BY <1>1, <1>3, RecordReturnIs, QuietStep DEF Records!records, Holders, RecordTypes
  <1>4. CASE /\ entry = Records!None /\ record # Records!None /\ ~restoring /\ restoring' = TRUE
             /\ requests' = [requests EXCEPT ![d].pc = "spawned", ![d].rec = record]
    <2>0. PICK r : r = record
      OBVIOUS
    <2>1. Owned(r)
      BY <1>1, <1>4, <2>0 DEF RecordTypes, KeptRecord
    <2>2. PICK x : x = [[requests[d] EXCEPT !.pc = "spawned"] EXCEPT !.rec = r]
      OBVIOUS
    <2>3. requests' = [requests EXCEPT ![d] = x]
      BY <1>4, <2>0, <2>2
    <2>4. /\ RecordCallOK(x) /\ x.pc = "spawned" /\ x.rec = r
      <3>1. RecordCallOK(requests[d])
        BY <1>1 DEF RecordTypes
      <3>2. \/ x = [pc |-> "spawned", kind |-> "prompt", rec |-> r]
            \/ x = [pc |-> "spawned", kind |-> "rebind", to |-> requests[d].to, rec |-> r] /\ requests[d].to \in Agent
        <4>1. PICK y : y = [requests[d] EXCEPT !.pc = "spawned"]
          OBVIOUS
        <4>2. \/ y = [pc |-> "spawned", kind |-> "prompt", rec |-> requests[d].rec]
              \/ y = [pc |-> "spawned", kind |-> "rebind", to |-> requests[d].to, rec |-> requests[d].rec]
                 /\ requests[d].to \in Agent
          BY <1>1, <3>1, <4>1 DEF RecordCallOK, Records!Idle
        <4>3. x = [y EXCEPT !.rec = r]
          BY <2>2, <4>1
        <4> QED BY <4>2, <4>3
      <3> QED BY <2>1, <3>2 DEF RecordCallOK
    <2>5. RecordOthers(d) /\ requests'[d] = x
      BY <1>1, <2>3 DEF RecordTypes, RecordOthers
    <2>6. UNCHANGED <<entry, record, onDisk, starting, confirmed, overtaken, madeBy, stillHeld, newest, unwritten>>
      BY <1>1 DEF Records!records, Records!names, Records!ids
    <2>7. RecordTypes'
      <3>1. Shapes' /\ RecordCallOK(requests[d])'
        BY <1>1, <1>4, <2>4, <2>5, <2>6, SameIds DEF RecordTypes, Shapes
      <3> QED BY <1>1, <2>5, <2>6, <3>1, RecordTypesKept
    <2>8. Restorers = {}
      BY <1>4 DEF RecordInv, OneRestores
    <2>9. OneRestores'
      <3>1. Restorers' = {d}
        BY <2>4, <2>5, <2>8 DEF Restorers, RecordOthers
      <3> QED BY <1>4, <3>1 DEF OneRestores
    <2>10. RecordRestores'
      <3>1. \A e \in Device : /\ requests'[e].pc = "spawned" <=> e = d
                              /\ requests'[e].pc # "promote"
        BY <2>4, <2>5, <2>8 DEF Restorers, RecordOthers
      <3>2. Restored(d)'
        BY <1>4, <2>0, <2>4, <2>5, <2>6
           DEF Restored, RecordInv, RecordNaming, Records!Here, Records!Shown
      <3> QED BY <1>4, <2>6, <3>1, <3>2 DEF RecordRestores, Records!At
    <2>11. RecordNaming'
      BY <2>6 DEF RecordInv, RecordNaming, Records!Here, Records!Shown
    <2>12. LastHad'
      BY <1>1, <2>5, <2>6, PendingKept DEF RecordInv, LastHad
    <2> QED BY <2>7, <2>9, <2>10, <2>11, <2>12 DEF RecordInv
  <1> QED BY <1>2, <1>3, <1>4 DEF Records!ensure_live_session

\* An agent gives an id, or has the one there is.
LEMMA ResolveIs ==
    ASSUME RecordTypes, NEW rec, NEW g \in Agent, Records!Resolve(rec, g),
           NEW n \in Name \union {Records!NewChat, Records!Derived},
           NEW a \in Agent, NEW i \in Nat, rec = [name |-> n, agent |-> a, acp |-> i],
           Records!Loadable(rec) => Owned(rec)
    PROVE  /\ UNCHANGED madeBy \/ madeBy' = Append(madeBy, g)
           /\ Owned(entry)' /\ entry' # Records!None /\ entry'.name = n /\ entry'.acp = newest'
           /\ stillHeld' \subseteq AcpId' /\ newest' \in AcpId'
  <1>1. CASE Records!Loadable(rec) /\ entry' = rec /\ newest' = rec.acp /\ UNCHANGED <<madeBy, stillHeld>>
    <2>1. Owned(rec)' /\ rec.acp \in AcpId /\ AcpId' = AcpId
      BY <1>1, SameIds DEF Owned, Rec
    <2>2. rec # Records!None
      BY <2>1 DEF Records!None, AcpId
    <2> QED BY <1>1, <2>1, <2>2 DEF RecordTypes, Owned, Rec
  <1>2. CASE /\ entry' = [rec EXCEPT !.agent = g, !.acp = Records!New(g)]
             /\ madeBy' = Append(madeBy, g) /\ stillHeld' = stillHeld \union {Records!New(g)} /\ newest' = Records!New(g)
    <2>1. PICK k : k = Len(madeBy) + 1
      OBVIOUS
    <2>2. [rec EXCEPT !.agent = g] = [name |-> n, agent |-> g, acp |-> i]
      OBVIOUS
    <2>3. entry' = [name |-> n, agent |-> g, acp |-> k] /\ newest' = k /\ stillHeld' = stillHeld \union {k}
      BY <1>2, <2>1, <2>2 DEF Records!New
    <2>4. k \in AcpId' /\ madeBy'[k] = g /\ AcpId \subseteq AcpId' /\ k # 0
      BY <1>2, <2>1, AppendProperties DEF RecordTypes, AcpId
    <2>5. entry' \in Rec' /\ entry' # Records!None
      BY <2>3, <2>4 DEF Rec, Records!None
    <2> QED BY <1>2, <2>3, <2>4, <2>5 DEF RecordTypes, Owned
  <1> QED BY <1>1, <1>2 DEF Records!Resolve

LEMMA OwnedIs ==
    ASSUME RecordTypes, NEW r, Owned(r)
    PROVE  /\ r = [name |-> r.name, agent |-> r.agent, acp |-> r.acp]
           /\ r.name \in Name \union {Records!NewChat, Records!Derived} /\ r.agent \in Agent /\ r.acp \in AcpId
           /\ r.acp \in Nat /\ r.acp # 0 /\ r # Records!None
  BY NoneIsNone DEF RecordTypes, Owned, Rec, AcpId

\* the entry is published, and the record removed;
LEMMA Publishing ==
    ASSUME RecordInv, NEW d \in Device, Records!publish(d)
    PROVE  RecordInv'
  <1>1. RecordTypes /\ requests[d].pc = "spawned" /\ UNCHANGED <<record, onDisk, Records!names, unwritten>>
    BY DEF Records!publish, Records!At, RecordInv
  <1>2. PICK rec : rec = requests[d].rec
    OBVIOUS
  <1>3. Owned(rec) /\ Restored(d) /\ d \in Restorers /\ restoring
    BY <1>1, <1>2
       DEF RecordInv, RecordTypes, RecordCallOK, Records!Idle, RecordRestores, Records!At,
           Restorers, OneRestores
  <1>4. \A e \in Restorers : e = d
    BY <1>3 DEF RecordInv, OneRestores
  <1>5. CASE /\ Records!Resolve(rec, rec.agent) /\ starting' = FALSE
             /\ Records!Goto(d, "promote") /\ UNCHANGED <<recordCounts, restoring>>
    <2>1. /\ UNCHANGED madeBy \/ madeBy' = Append(madeBy, rec.agent)
          /\ Owned(entry)' /\ entry' # Records!None /\ entry'.name = rec.name /\ entry'.acp = newest'
          /\ stillHeld' \subseteq AcpId' /\ newest' \in AcpId' /\ rec.agent \in Agent
      BY <1>1, <1>3, <1>5, OwnedIs, ResolveIs
    <2>2. RecordOthers(d) /\ requests'[d].pc = "promote" /\ RecordCallOK(requests'[d])
      BY <1>1, <1>5, RecordGotoIs DEF Prompting, Rebinding
    <2>3. UNCHANGED <<record, onDisk, restoring, confirmed, overtaken, unwritten>>
      BY <1>1, <1>5 DEF Records!names
    <2>4. RecordTypes'
      <3>1. RecordCallOK(requests[d])'
        <4>1. PICK c : c = requests'[d]
          OBVIOUS
        <4>2. RecordCallOK(c)'
          BY <1>1, <2>1, <2>2, <4>1, IdsGrow
        <4> QED BY <4>1, <4>2
      <3>2. KeptRecord(record)' /\ KeptRecord(onDisk)'
        <4>1. PICK a, b : a = record /\ b = onDisk
          OBVIOUS
        <4>2. KeptRecord(a)' /\ KeptRecord(b)'
          BY <1>1, <2>1, <4>1, IdsGrow DEF RecordTypes
        <4> QED BY <2>3, <4>1, <4>2
      <3>3. Shapes'
        BY <1>1, <1>5, <2>1, <2>3, <3>2 DEF RecordTypes, Shapes, KeptRecord
      <3> QED BY <1>1, <2>1, <2>2, <3>1, <3>3, RecordTypesKept
    <2>5. OneRestores'
      BY <1>1, <1>5, <2>2, OneRestoresKept DEF RecordInv, Holders
    <2>6. RecordRestores'
      <3>1. \A e \in Device : requests'[e].pc # "spawned"
        BY <1>4, <2>2 DEF RecordOthers, Restorers
      <3> QED BY <2>1, <2>2, <3>1 DEF RecordRestores, Records!At
    <2>7. RecordNaming'
      BY <1>2, <1>3, <2>1, <2>3 DEF RecordInv, RecordNaming, Records!Here, Records!Shown, Restored
    <2>8. LastHad'
      <3>1. Records!Pending'
        BY <2>2 DEF Records!Pending
      <3> QED BY <2>1, <3>1 DEF LastHad
    <2> QED BY <2>4, <2>5, <2>6, <2>7, <2>8 DEF RecordInv
  <1>6. CASE /\ Records!Fault /\ restoring' = FALSE /\ Records!Return(d)
             /\ UNCHANGED <<entry, starting, madeBy, stillHeld, newest>>
    <2>1. RecordOthers(d) /\ requests'[d].pc = "idle" /\ RecordCallOK(requests'[d])
      BY <1>1, <1>6, RecordReturnIs
    <2>2. UNCHANGED <<entry, record, onDisk, starting, confirmed, overtaken, madeBy, stillHeld, newest, unwritten>>
      BY <1>1, <1>6 DEF Records!names
    <2>3. RecordTypes'
      <3>1. Shapes' /\ RecordCallOK(requests[d])'
        BY <1>1, <1>6, <2>1, <2>2, SameIds DEF RecordTypes, Shapes
      <3> QED BY <1>1, <2>1, <2>2, <3>1, RecordTypesKept
    <2>4. Restorers' = {}
      BY <1>4, <2>1 DEF Restorers, RecordOthers
    <2>5. OneRestores'
      BY <1>6, <2>4 DEF OneRestores
    <2>6. RecordRestores'
      <3>1. \A e \in Device : requests'[e].pc \notin {"spawned", "promote"}
        BY <2>4 DEF Restorers
      <3> QED BY <1>3, <2>2, <3>1 DEF RecordRestores, Records!At, Restored
    <2>7. RecordNaming'
      BY <2>2 DEF RecordInv, RecordNaming, Records!Here, Records!Shown
    <2>8. LastHad'
      BY <1>1, <2>1, <2>2, PendingKept DEF RecordInv, LastHad
    <2> QED BY <2>3, <2>5, <2>6, <2>7, <2>8 DEF RecordInv
  <1> QED BY <1>2, <1>5, <1>6 DEF Records!publish

\* so the session stands once.
LEMMA Finishing ==
    ASSUME RecordInv, NEW d \in Device, Records!finish_promotion(d)
    PROVE  RecordInv'
  <1>1. /\ RecordTypes /\ requests[d].pc = "promote" /\ record' = Records!None /\ Records!Goto(d, "save")
        /\ UNCHANGED <<entry, starting, onDisk, restoring, recordCounts, Records!names, Records!ids>>
    BY DEF Records!finish_promotion, Records!At, RecordInv
  <1>2. UNCHANGED <<confirmed, overtaken, madeBy, stillHeld, newest, unwritten>>
    BY <1>1 DEF Records!names, Records!ids
  <1>3. RecordOthers(d) /\ requests'[d].pc = "save" /\ RecordCallOK(requests'[d])
    BY <1>1, RecordGotoIs DEF Prompting, Rebinding
  <1>4. RecordTypes'
    <2>1. Shapes' /\ RecordCallOK(requests[d])'
      BY <1>1, <1>2, <1>3, SameIds DEF RecordTypes, Shapes, KeptRecord
    <2> QED BY <1>1, <1>2, <1>3, <2>1, RecordTypesKept
  <1>5. OneRestores'
    BY <1>1, <1>3, OneRestoresKept DEF RecordInv, Holders
  <1>6. d \in Restorers /\ (\A e \in Restorers : e = d) /\ (entry # Records!None \/ record = Records!None)
    BY <1>1 DEF RecordInv, Restorers, OneRestores, RecordRestores, Records!At
  <1>7. RecordRestores'
    <2>1. \A e \in Device : requests'[e].pc \notin {"spawned", "promote"}
      BY <1>3, <1>6 DEF Restorers, RecordOthers
    <2> QED BY <1>1, <2>1 DEF RecordRestores, Records!At
  <1>8. RecordNaming'
    BY <1>1, <1>2, <1>6 DEF RecordInv, RecordNaming, Records!Here, Records!Shown
  <1>9. LastHad'
    <2>1. Records!Pending'
      BY <1>3 DEF Records!Pending
    <2> QED BY <1>1, <1>2, <2>1 DEF RecordInv, LastHad
  <1> QED BY <1>4, <1>5, <1>7, <1>8, <1>9 DEF RecordInv

\* What a write leaves on disk.
LEMMA SavedIs ==
    ASSUME RecordInv, Records!Saved
    PROVE  /\ KeptRecord(onDisk)' \/ madeBy' # madeBy
           /\ onDisk' = Records!Shown /\ unwritten' \in BOOLEAN /\ (unwritten' => unwritten)
           /\ onDisk' # Records!None /\ ~overtaken => onDisk'.name \in confirmed
           /\ onDisk' # Records!None /\ ~unwritten' => onDisk'.acp = newest
           /\ entry = Records!None /\ record # Records!None /\ ~unwritten' => record.acp = newest
  <1>1. onDisk' = Records!Shown /\ unwritten' = (unwritten /\ Records!Here /\ Records!Shown.acp # newest) /\ RecordTypes
    BY DEF Records!Saved, Records!persist, RecordInv
  <1>2. Records!Shown # Records!None <=> Records!Here
    BY DEF Records!Shown, Records!Here
  <1>3. KeptRecord(Records!Shown)
    BY <1>1 DEF RecordTypes, Records!Shown
  <1>4. madeBy' = madeBy => KeptRecord(onDisk)'
    <2>1. PICK r : r = Records!Shown
      OBVIOUS
    <2>2. madeBy' = madeBy => KeptRecord(r)'
      BY <1>3, <2>1, SameIds
    <2> QED BY <1>1, <2>1, <2>2
  <1>5. onDisk' # Records!None /\ ~overtaken => onDisk'.name \in confirmed
    BY <1>1, <1>2 DEF RecordInv, RecordNaming
  <1>6. onDisk' # Records!None /\ ~unwritten' => onDisk'.acp = newest
    BY <1>1, <1>2 DEF RecordInv, LastHad, Records!Shown
  <1>7. entry = Records!None /\ record # Records!None /\ ~unwritten' => record.acp = newest
    BY <1>1 DEF RecordInv, LastHad, Records!Shown, Records!Here
  <1> QED BY <1>1, <1>4, <1>5, <1>6, <1>7 DEF RecordTypes

\* A request that ends with a write, or without.
LEMMA SavingStep ==
    ASSUME RecordInv, NEW d \in Device, RecordOthers(d), RecordCallOK(requests'[d]),
           UNCHANGED <<Records!records, overtaken, madeBy, stillHeld, newest>>,
           \/ Records!Saved /\ confirmed' \in {confirmed, IF Records!Here THEN {Records!Shown.name} ELSE confirmed}
           \/ Records!NotSaved /\ UNCHANGED confirmed /\
              (unwritten' = TRUE \/ (UNCHANGED unwritten /\ requests[d].pc \notin {"promote", "save", "restarted"})),
           requests[d].pc \notin {"spawned", "promote"}, requests'[d].pc \notin Holders,
           IF requests[d].pc = "save" THEN restoring' = FALSE ELSE UNCHANGED restoring
    PROVE  RecordInv'
  <1>1. RecordTypes /\ UNCHANGED <<entry, starting, record, overtaken, madeBy, stillHeld, newest>>
    BY DEF RecordInv, Records!records
  <1>2. /\ KeptRecord(onDisk)' /\ unwritten' \in BOOLEAN
    BY <1>1, SavedIs, SameIds DEF Records!NotSaved, RecordTypes
  <1>3. RecordTypes'
    <2>1. Shapes' /\ RecordCallOK(requests[d])'
      BY <1>1, <1>2, SameIds DEF RecordTypes, Shapes
    <2> QED BY <1>1, <2>1, RecordTypesKept
  <1>4. OneRestores'
    <2>1. CASE requests[d].pc = "save"
      <3>1. \A e \in Restorers : e = d
        BY <2>1 DEF RecordInv, OneRestores, Restorers
      <3>2. Restorers' = {}
        BY <3>1 DEF Restorers, RecordOthers, Holders
      <3> QED BY <2>1, <3>2 DEF OneRestores
    <2>2. CASE requests[d].pc # "save"
      BY <2>2, OneRestoresKept DEF RecordInv, Holders
    <2> QED BY <2>1, <2>2
  <1>5. RecordRestores'
    <2>1. CASE confirmed \subseteq confirmed'
      BY <1>1, <2>1, RestoresKept DEF RecordInv, Holders
    <2>2. CASE Records!Saved /\ Records!Here /\ confirmed' = {Records!Shown.name}
      <3>1. \A e \in Device : /\ requests'[e].pc = "spawned" <=> requests[e].pc = "spawned"
                              /\ requests'[e].pc = "promote" <=> requests[e].pc = "promote"
                              /\ requests'[e].pc = "spawned" => requests'[e] = requests[e]
        BY DEF RecordOthers, Holders
      <3>2. ASSUME NEW e \in Device, Records!At(e, "spawned")'
            PROVE  Restored(e)'
        <4>1. Restored(e) /\ requests'[e] = requests[e]
          BY <3>1, <3>2 DEF RecordInv, RecordRestores, Records!At
        <4>2. entry = Records!None /\ Records!Shown = record /\ record # Records!None
          BY <2>2, <4>1 DEF Restored, Records!Shown, Records!Here
        <4> QED BY <1>1, <2>2, <4>1, <4>2 DEF Restored
      <3> QED BY <1>1, <3>1, <3>2 DEF RecordInv, RecordRestores, Records!At
    <2> QED BY <2>1, <2>2
  <1>6. RecordNaming'
    <2>1. Records!Here' = Records!Here /\ Records!Shown' = Records!Shown /\ (Records!Here => Records!Shown # Records!None)
      BY <1>1 DEF Records!Here, Records!Shown
    <2>2. CASE Records!Saved
      <3>1. onDisk' = Records!Shown
        BY <2>2, SavedIs
      <3>2. CASE confirmed' = confirmed
        BY <1>1, <2>1, <2>2, <3>2, SavedIs DEF RecordInv, RecordNaming
      <3>3. CASE confirmed' # confirmed
        <4>1. Records!Here /\ confirmed' = {Records!Shown.name}
          BY <2>2, <3>3
        <4> QED BY <2>1, <3>1, <4>1 DEF RecordNaming
      <3> QED BY <3>2, <3>3
    <2>3. CASE Records!NotSaved
      <3>1. UNCHANGED onDisk /\ (UNCHANGED confirmed \/ Records!Saved)
        BY <2>3 DEF Records!NotSaved
      <3> QED BY <1>1, <2>1, <2>2, <3>1 DEF RecordInv, RecordNaming
    <2> QED BY <2>2, <2>3
  <1>7. LastHad'
    <2>1. CASE Records!Saved
      BY <1>1, <2>1, SavedIs DEF RecordInv, LastHad
    <2>2. CASE Records!NotSaved /\ unwritten' = TRUE
      BY <1>1, <2>2 DEF RecordInv, LastHad
    <2>3. CASE Records!NotSaved /\ UNCHANGED unwritten /\ requests[d].pc \notin {"promote", "save", "restarted"}
      <3>1. UNCHANGED onDisk
        BY <2>3 DEF Records!NotSaved
      <3>2. Records!Pending => Records!Pending'
        BY <2>3, PendingKept
      <3> QED BY <1>1, <2>3, <3>1, <3>2 DEF RecordInv, LastHad
    <2> QED BY <2>1, <2>2, <2>3
  <1> QED BY <1>3, <1>4, <1>5, <1>6, <1>7 DEF RecordInv

\* save writes what there is.
LEMMA Saves ==
    ASSUME RecordInv, NEW d \in Device,
           Records!promotion_saved(d) \/ Records!rename_saved(d) \/ Records!rebind_saved(d) \/ Records!close_saved(d)
    PROVE  RecordInv'
  <1>1. CASE Records!promotion_saved(d)
    <2>1. requests[d].pc = "save" /\ restoring' = FALSE /\ UNCHANGED <<Records!records, confirmed, overtaken, madeBy, stillHeld, newest>>
      BY <1>1 DEF Records!promotion_saved, Records!At, Records!names
    <2>2. RecordOthers(d) /\ RecordCallOK(requests'[d]) /\ requests'[d].pc \notin Holders
      BY <1>1, <2>1, ContinuesIs, RecordReturnIs DEF Records!promotion_saved, RecordInv, Holders
    <2>3. Records!Saved \/ (Records!NotSaved /\ unwritten' = TRUE)
      BY <1>1 DEF Records!promotion_saved
    <2> QED BY <2>1, <2>2, <2>3, SavingStep
  <1>2. CASE Records!rename_saved(d)
    <2>1. requests[d].pc = "rename_save" /\ UNCHANGED <<Records!records, overtaken, madeBy, stillHeld, newest, restoring>>
      BY <1>2 DEF Records!rename_saved, Records!At
    <2>2. RecordOthers(d) /\ RecordCallOK(requests'[d]) /\ requests'[d].pc \notin Holders
      BY <1>2, RecordReturnIs DEF Records!rename_saved, RecordInv, Holders
    <2>3. \/ Records!Saved /\ confirmed' = IF Records!Here THEN {Records!Shown.name} ELSE confirmed
          \/ Records!NotSaved /\ UNCHANGED <<confirmed, unwritten>>
      BY <1>2 DEF Records!rename_saved
    <2> QED BY <2>1, <2>2, <2>3, SavingStep
  <1>3. CASE Records!rebind_saved(d)
    <2>1. requests[d].pc = "restarted" /\ UNCHANGED <<Records!records, confirmed, overtaken, madeBy, stillHeld, newest, restoring>>
      BY <1>3 DEF Records!rebind_saved, Records!At, Records!names
    <2>2. RecordOthers(d) /\ RecordCallOK(requests'[d]) /\ requests'[d].pc \notin Holders
      BY <1>3, RecordReturnIs DEF Records!rebind_saved, RecordInv, Holders
    <2>3. Records!Saved \/ (Records!NotSaved /\ unwritten' = TRUE)
      BY <1>3 DEF Records!rebind_saved
    <2> QED BY <2>1, <2>2, <2>3, SavingStep
  <1>4. CASE Records!close_saved(d)
    <2>1. requests[d].pc = "close_save" /\ UNCHANGED <<Records!records, confirmed, overtaken, madeBy, stillHeld, newest, restoring>>
      BY <1>4 DEF Records!close_saved, Records!At, Records!names
    <2>2. RecordOthers(d) /\ RecordCallOK(requests'[d]) /\ requests'[d].pc \notin Holders
      BY <1>4, RecordReturnIs DEF Records!close_saved, RecordInv, Holders
    <2>3. Records!Saved \/ (Records!NotSaved /\ UNCHANGED unwritten)
      BY <1>4 DEF Records!close_saved
    <2> QED BY <2>1, <2>2, <2>3, SavingStep
  <1> QED BY <1>1, <1>2, <1>3, <1>4

\* A new name for the entry or the record.
LEMMA RenamedIs ==
    ASSUME RecordTypes, UNCHANGED madeBy, NEW r, Owned(r),
           NEW n \in Name \union {Records!Derived},
           NEW x, x = [r EXCEPT !.name = n]
    PROVE  /\ Owned(x) /\ Owned(x)' /\ x.name = n /\ x.acp = r.acp /\ x.agent = r.agent /\ x # Records!None
  <1>1. r = [name |-> r.name, agent |-> r.agent, acp |-> r.acp] /\ r.agent \in Agent /\ r.acp \in AcpId
    BY OwnedIs
  <1>2. x = [name |-> n, agent |-> r.agent, acp |-> r.acp]
    BY <1>1
  <1>3. x \in Rec /\ madeBy[x.acp] = x.agent
    BY <1>1, <1>2 DEF Rec, Owned
  <1>4. Owned(x) /\ Owned(x)'
    BY <1>3, SameIds DEF Owned
  <1> QED BY <1>2, <1>4, OwnedIs

LEMMA LiveRenamed ==
    ASSUME RecordInv, NEW d \in Device, RecordOthers(d), RecordCallOK(requests'[d]),
           entry # Records!None,
           NEW n \in Name \union {Records!Derived}, entry' = [entry EXCEPT !.name = n], Records!Named(n),
           UNCHANGED <<starting, record, onDisk, restoring, Records!ids>>, overtaken' \in BOOLEAN, overtaken => overtaken',
           requests[d].pc \notin Holders \union {"restarted"}, requests'[d].pc \notin Holders
    PROVE  RecordInv'
  <1>1. /\ RecordTypes /\ UNCHANGED <<starting, record, onDisk, restoring, madeBy, stillHeld, newest, unwritten>>
        /\ confirmed' = confirmed \union {n} /\ Owned(entry)
    BY DEF RecordInv, Records!ids, RecordTypes, KeptRecord, Records!Named
  <1>2. Owned(entry)' /\ entry'.name = n /\ entry'.acp = entry.acp /\ entry' # Records!None
    <2>1. PICK r, x : r = entry /\ x = [r EXCEPT !.name = n]
      OBVIOUS
    <2>2. Owned(x)' /\ x.name = n /\ x.acp = r.acp /\ x # Records!None
      BY <1>1, <2>1, RenamedIs
    <2> QED BY <2>1, <2>2
  <1>3. RecordTypes'
    <2>1. Shapes' /\ RecordCallOK(requests[d])'
      BY <1>1, <1>2, SameIds DEF RecordTypes, Shapes, KeptRecord
    <2> QED BY <1>1, <2>1, RecordTypesKept
  <1>4. OneRestores'
    BY <1>1, OneRestoresKept DEF RecordInv
  <1>5. RecordRestores'
    <2>1. \A e \in Device : /\ requests'[e].pc = "promote" <=> requests[e].pc = "promote"
                            /\ requests'[e].pc = "spawned" => requests[e].pc = "spawned"
      BY DEF RecordOthers, Holders
    <2>2. \A e \in Device : requests[e].pc # "spawned"
      BY DEF RecordInv, RecordRestores, Restored, Records!At
    <2> QED BY <1>1, <1>2, <2>1, <2>2 DEF RecordInv, RecordRestores, Records!At
  <1>6. RecordNaming'
    BY <1>1, <1>2 DEF RecordInv, RecordNaming, Records!Here, Records!Shown
  <1>7. LastHad'
    BY <1>1, <1>2, PendingKept DEF RecordInv, LastHad, Holders
  <1> QED BY <1>3, <1>4, <1>5, <1>6, <1>7 DEF RecordInv

\* A device names the session, live
LEMMA Renames ==
    ASSUME RecordInv, NEW d \in Device, NEW n \in Name, Records!rename(d, n)
    PROVE  RecordInv'
  <1>1. RecordTypes /\ UNCHANGED <<starting, record, onDisk, restoring, overtaken, Records!ids>>
    BY DEF Records!rename, RecordInv
  <1>2. CASE entry # Records!None
    <2>1. PICK c : c = [pc |-> "rename_save", name |-> n]
      OBVIOUS
    <2>2. entry' = [entry EXCEPT !.name = n] /\ Records!Named(n) /\ Records!Begin(d, c)
      BY <1>2, <2>1 DEF Records!rename
    <2>3. RecordCallOK(c)
      BY <2>1 DEF RecordCallOK
    <2>4. RecordOthers(d) /\ requests[d].pc = "idle" /\ requests'[d] = c /\ c.pc = "rename_save"
      BY <1>1, <2>1, <2>2, RecordBeginIs
    <2> QED BY <1>1, <1>2, <2>2, <2>3, <2>4, LiveRenamed DEF Holders, RecordTypes
  <1>3. CASE entry = Records!None
    <2>1. PICK c : c = [pc |-> "rename", name |-> n]
      OBVIOUS
    <2>2. Records!Begin(d, c) /\ UNCHANGED <<entry, confirmed>>
      BY <1>3, <2>1 DEF Records!rename
    <2>3. RecordCallOK(c)
      BY <2>1 DEF RecordCallOK
    <2>4. RecordOthers(d) /\ requests[d].pc = "idle" /\ requests'[d] = c /\ c.pc = "rename"
      BY <1>1, <2>1, <2>2, RecordBeginIs
    <2> QED BY <1>1, <2>2, <2>3, <2>4, QuietStep DEF Holders, RecordTypes, Records!names
  <1> QED BY <1>2, <1>3

\* or not.
LEMMA RenamesDormant ==
    ASSUME RecordInv, NEW d \in Device, Records!rename_dormant(d)
    PROVE  RecordInv'
  <1>1. /\ RecordTypes /\ requests[d].pc = "rename" /\ UNCHANGED <<entry, starting, onDisk, restoring, recordCounts, Records!ids>>
    BY DEF Records!rename_dormant, Records!At, RecordInv
  <1>2. PICK n \in Name : n = requests[d].name
    BY <1>1 DEF RecordTypes, RecordCallOK, Records!Idle
  <1>3. CASE record = Records!None
    <2>1. Records!Return(d) /\ UNCHANGED <<record, confirmed, overtaken>>
      BY <1>3 DEF Records!rename_dormant
    <2>2. RecordOthers(d) /\ requests'[d].pc = "idle" /\ RecordCallOK(requests'[d])
      BY <1>1, <2>1, RecordReturnIs
    <2> QED BY <1>1, <2>1, <2>2, QuietStep DEF Holders, RecordTypes, Records!names
  <1>4. CASE record # Records!None
    <2>1. /\ record' = [record EXCEPT !.name = n] /\ Records!Named(n) /\ Records!Goto(d, "rename_save")
          /\ overtaken' = (overtaken \/ Records!Restoring \/ entry # Records!None)
      BY <1>2, <1>4 DEF Records!rename_dormant
    <2>2. /\ UNCHANGED <<madeBy, stillHeld, newest, unwritten>>
          /\ confirmed' = confirmed \union {n} /\ Owned(record)
      BY <1>1, <1>4, <2>1 DEF Records!ids, RecordTypes, KeptRecord, Records!Named
    <2>3. Owned(record)' /\ record'.name = n /\ record'.acp = record.acp
          /\ record'.agent = record.agent /\ record' # Records!None
      <3>1. PICK r, x : r = record /\ x = [r EXCEPT !.name = n]
        OBVIOUS
      <3>2. Owned(x)' /\ x.name = n /\ x.acp = r.acp /\ x.agent = r.agent /\ x # Records!None
        BY <1>1, <2>2, <3>1, RenamedIs
      <3> QED BY <2>1, <3>1, <3>2
    <2>4. RecordOthers(d) /\ requests'[d] = [pc |-> "rename_save", name |-> n]
      <3>1. requests[d] = [pc |-> "rename", name |-> n]
        BY <1>1, <1>2 DEF RecordTypes, RecordCallOK, Records!Idle
      <3>2. [requests[d] EXCEPT !.pc = "rename_save"] = [pc |-> "rename_save", name |-> n]
        BY <3>1
      <3>3. requests' = [requests EXCEPT ![d] = [requests[d] EXCEPT !.pc = "rename_save"]]
        BY <2>1 DEF Records!Goto
      <3> QED BY <1>1, <3>2, <3>3 DEF RecordTypes, RecordOthers
    <2>5. RecordCallOK(requests[d])'
      BY <2>4 DEF RecordCallOK
    <2>6. overtaken' \in BOOLEAN
      BY <1>1, <2>1 DEF RecordTypes, Records!Restoring
    <2>7. RecordTypes'
      <3>1. Shapes'
        BY <1>1, <2>2, <2>3, <2>6, SameIds DEF RecordTypes, Shapes, KeptRecord
      <3> QED BY <1>1, <2>2, <2>4, <2>5, <3>1, RecordTypesKept
    <2>8. OneRestores'
      BY <1>1, <2>4, OneRestoresKept DEF RecordInv, Holders
    <2>9. \A e \in Device : /\ requests'[e].pc = "promote" <=> requests[e].pc = "promote"
                            /\ requests'[e].pc = "spawned" <=> requests[e].pc = "spawned"
                            /\ requests'[e].pc = "spawned" => requests'[e] = requests[e]
      BY <1>1, <2>4 DEF RecordOthers
    <2>10. RecordRestores'
      <3>1. ASSUME NEW e \in Device, Records!At(e, "spawned")'
            PROVE  Restored(e)'
        <4>1. Restored(e) /\ requests'[e] = requests[e] /\ overtaken'
          BY <2>1, <2>9, <3>1 DEF RecordInv, RecordRestores, Records!At, Records!Restoring
        <4> QED BY <1>1, <1>4, <2>3, <4>1 DEF Restored
      <3> QED BY <1>1, <1>4, <2>9, <3>1 DEF RecordInv, RecordRestores, Records!At
    <2>11. RecordNaming'
      <3> SUFFICES ASSUME ~overtaken'
                   PROVE  RecordNaming'
        BY DEF RecordNaming
      <3>1. ~overtaken /\ entry = Records!None /\ entry' = Records!None
        BY <1>1, <2>1
      <3>2. Records!Shown' = record' /\ record'.name \in confirmed'
        BY <2>2, <2>3, <3>1 DEF Records!Shown
      <3>3. onDisk' # Records!None => onDisk'.name \in confirmed'
        BY <1>1, <2>2, <3>1 DEF RecordInv, RecordNaming
      <3> QED BY <3>2, <3>3 DEF RecordNaming
    <2>12. LastHad'
      BY <1>1, <1>4, <2>2, <2>3, <2>4, PendingKept DEF RecordInv, LastHad
    <2> QED BY <2>7, <2>8, <2>10, <2>11, <2>12 DEF RecordInv
  <1> QED BY <1>3, <1>4

\* The name that is derived from the first prompt.
LEMMA Looking ==
    ASSUME RecordInv, NEW d \in Device, Records!look(d)
    PROVE  RecordInv'
  <1>1. /\ RecordTypes /\ requests[d].pc = "look" /\ UNCHANGED <<Records!records, onDisk, restoring, recordCounts, Records!names, Records!ids>>
        /\ Records!Goto(d, "auto") \/ Records!Return(d)
    BY DEF Records!look, Records!At, RecordInv
  <1>2. requests[d].kind = "prompt"
    BY <1>1 DEF RecordTypes, RecordCallOK, Records!Idle
  <1>3. RecordOthers(d) /\ RecordCallOK(requests'[d]) /\ requests'[d].pc \in {"auto", "idle"}
    BY <1>1, <1>2, RecordGotoIs, RecordReturnIs DEF Prompting, Rebinding
  <1> QED BY <1>1, <1>3, QuietStep DEF Records!records, Holders, RecordTypes

LEMMA AutoNames ==
    ASSUME RecordInv, NEW d \in Device, Records!auto_name(d)
    PROVE  RecordInv'
  <1>1. /\ RecordTypes /\ requests[d].pc = "auto" /\ Records!Return(d) /\ UNCHANGED <<starting, record, onDisk, restoring, recordCounts, Records!ids>>
    BY DEF Records!auto_name, Records!At, RecordInv
  <1>2. RecordOthers(d) /\ RecordCallOK(requests'[d]) /\ requests'[d].pc = "idle"
    BY <1>1, RecordReturnIs
  <1>3. CASE entry # Records!None
    <2>1. /\ entry' = [entry EXCEPT !.name = Records!Derived] /\ Records!Named(Records!Derived)
          /\ overtaken' \in BOOLEAN /\ (overtaken => overtaken')
      BY <1>1, <1>3 DEF Records!auto_name, RecordTypes
    <2> QED BY <1>1, <1>2, <1>3, <2>1, LiveRenamed DEF Holders
  <1>4. CASE entry = Records!None
    <2>1. UNCHANGED <<entry, confirmed, overtaken>>
      BY <1>4 DEF Records!auto_name
    <2> QED BY <1>1, <1>2, <2>1, QuietStep DEF Holders, RecordTypes, Records!names
  <1> QED BY <1>3, <1>4

\* The session moves to another agent;
LEMMA RebindStarts ==
    ASSUME RecordInv, NEW d \in Device, Records!rebind_start(d)
    PROVE  RecordInv'
  <1>1. /\ RecordTypes /\ requests[d].pc = "start" /\ UNCHANGED <<entry, record, onDisk, restoring, recordCounts, Records!names, Records!ids>>
        /\ (starting' = TRUE /\ Records!Goto(d, "finish")) \/ (Records!Return(d) /\ UNCHANGED starting)
    BY DEF Records!rebind_start, Records!At, RecordInv
  <1>2. requests[d].kind = "rebind"
    BY <1>1 DEF RecordTypes, RecordCallOK, Records!Idle
  <1>3. RecordOthers(d) /\ RecordCallOK(requests'[d]) /\ requests'[d].pc \in {"finish", "idle"} /\ starting' \in BOOLEAN
    <2>1. CASE starting' = TRUE /\ Records!Goto(d, "finish")
      BY <1>1, <1>2, <2>1, RecordGotoIs DEF Prompting, Rebinding
    <2>2. CASE Records!Return(d) /\ UNCHANGED starting
      BY <1>1, <2>2, RecordReturnIs DEF RecordTypes
    <2> QED BY <1>1, <2>1, <2>2
  <1> QED BY <1>1, <1>3, QuietStep DEF Holders

\* which gives it an id, or keeps the one it had.
LEMMA Rebinds ==
    ASSUME RecordInv, NEW d \in Device, Records!rebind_finish(d)
    PROVE  RecordInv'
  <1>1. RecordTypes /\ requests[d].pc = "finish" /\ UNCHANGED <<record, onDisk, restoring, Records!names, unwritten>>
    BY DEF Records!rebind_finish, Records!At, RecordInv
  <1>2. requests[d].kind = "rebind" /\ requests[d].to \in Agent
    BY <1>1 DEF RecordTypes, RecordCallOK, Records!Idle
  <1>3. CASE Records!Return(d) /\ UNCHANGED <<entry, starting, madeBy, stillHeld, newest>>
    <2>1. RecordOthers(d) /\ RecordCallOK(requests'[d]) /\ requests'[d].pc = "idle"
      BY <1>1, <1>3, RecordReturnIs
    <2> QED BY <1>1, <1>3, <2>1, QuietStep DEF Holders, RecordTypes, Records!ids
  <1>4. CASE /\ entry # Records!None /\ Records!Resolve([entry EXCEPT !.acp = 0], requests[d].to) /\ starting' = FALSE
             /\ Records!Goto(d, "restarted") /\ UNCHANGED recordCounts
    <2>1. PICK rec : rec = [entry EXCEPT !.acp = 0]
      OBVIOUS
    <2>2. Owned(entry)
      BY <1>1, <1>4 DEF RecordTypes, KeptRecord
    <2>3. rec = [name |-> entry.name, agent |-> entry.agent, acp |-> 0] /\ ~Records!Loadable(rec)
      BY <1>1, <2>1, <2>2, OwnedIs DEF Records!Loadable
    <2>4. /\ UNCHANGED madeBy \/ madeBy' = Append(madeBy, requests[d].to)
          /\ Owned(entry)' /\ entry' # Records!None /\ entry'.name = entry.name /\ entry'.acp = newest'
          /\ stillHeld' \subseteq AcpId' /\ newest' \in AcpId'
      <3>1. entry.name \in Name \union {Records!NewChat, Records!Derived} /\ entry.agent \in Agent
        BY <1>1, <2>2, OwnedIs
      <3>2. PICK n, a, g : n = entry.name /\ a = entry.agent /\ g = requests[d].to
        OBVIOUS
      <3>3. rec = [name |-> n, agent |-> a, acp |-> 0] /\ Records!Resolve(rec, g) /\ g \in Agent
        BY <1>2, <1>4, <2>1, <2>3, <3>2
      <3> QED BY <1>1, <2>3, <3>1, <3>2, <3>3, ResolveIs
    <2>5. RecordOthers(d) /\ requests'[d].pc = "restarted" /\ RecordCallOK(requests'[d])
      BY <1>1, <1>2, <1>4, RecordGotoIs DEF Rebinding
    <2>6. UNCHANGED <<record, onDisk, restoring, confirmed, overtaken, unwritten>>
      BY <1>1 DEF Records!names
    <2>7. RecordTypes'
      <3>1. RecordCallOK(requests[d])'
        <4>1. PICK c : c = requests'[d]
          OBVIOUS
        <4>2. RecordCallOK(c)'
          BY <1>1, <1>2, <2>4, <2>5, <4>1, IdsGrow
        <4> QED BY <4>1, <4>2
      <3>2. KeptRecord(record)' /\ KeptRecord(onDisk)'
        <4>1. PICK a, b : a = record /\ b = onDisk
          OBVIOUS
        <4>2. KeptRecord(a)' /\ KeptRecord(b)'
          BY <1>1, <1>2, <2>4, <4>1, IdsGrow DEF RecordTypes
        <4> QED BY <2>6, <4>1, <4>2
      <3>3. Shapes'
        BY <1>1, <1>4, <2>4, <2>6, <3>2 DEF RecordTypes, Shapes, KeptRecord
      <3> QED BY <1>1, <1>2, <2>4, <2>5, <3>1, <3>3, RecordTypesKept
    <2>8. OneRestores'
      BY <1>1, <2>5, OneRestoresKept DEF RecordInv, Holders
    <2>9. RecordRestores'
      <3>1. \A e \in Device : /\ requests'[e].pc = "promote" <=> requests[e].pc = "promote"
                              /\ requests'[e].pc = "spawned" => requests[e].pc = "spawned"
        BY <1>1, <2>5 DEF RecordOthers
      <3>2. \A e \in Device : requests[e].pc # "spawned"
        BY <1>4 DEF RecordInv, RecordRestores, Restored, Records!At
      <3> QED BY <1>4, <2>4, <2>6, <3>1, <3>2 DEF RecordInv, RecordRestores, Records!At
    <2>10. RecordNaming'
      BY <1>4, <2>4, <2>6 DEF RecordInv, RecordNaming, Records!Here, Records!Shown
    <2>11. LastHad'
      <3>1. Records!Pending'
        BY <2>5 DEF Records!Pending
      <3> QED BY <2>4, <3>1 DEF LastHad
    <2> QED BY <2>7, <2>8, <2>9, <2>10, <2>11 DEF RecordInv
  <1> QED BY <1>3, <1>4 DEF Records!rebind_finish

\* The session becomes a record.
LEMMA Closes ==
    ASSUME RecordInv, NEW d \in Device, Records!close_session(d)
    PROVE  RecordInv'
  <1>1. /\ RecordTypes /\ Records!Begin(d, [pc |-> "close_save"]) /\ entry' = Records!None /\ record' = Records!None
        /\ UNCHANGED <<onDisk, restoring, confirmed, overtaken, madeBy, stillHeld, newest, unwritten>> /\ starting' = FALSE
    BY DEF Records!close_session, RecordInv, Records!names, Records!ids
  <1>2. RecordOthers(d) /\ requests[d].pc = "idle" /\ requests'[d] = [pc |-> "close_save"]
    BY <1>1, RecordBeginIs
  <1>3. RecordTypes'
    <2>1. Shapes' /\ RecordCallOK(requests[d])'
      BY <1>1, <1>2, SameIds, NoneIsNone DEF RecordTypes, Shapes, RecordCallOK, KeptRecord
    <2> QED BY <1>1, <1>2, <2>1, RecordTypesKept
  <1>4. OneRestores'
    BY <1>1, <1>2, OneRestoresKept DEF RecordInv, Holders
  <1>5. RecordRestores'
    <2>1. ASSUME NEW e \in Device, Records!At(e, "spawned")'
          PROVE  Restored(e)'
      <3>1. Restored(e) /\ requests'[e] = requests[e]
        BY <1>2, <2>1 DEF RecordInv, RecordRestores, Records!At, RecordOthers
      <3> QED BY <1>1, <3>1 DEF Restored
    <2> QED BY <1>1, <2>1 DEF RecordRestores
  <1>6. RecordNaming'
    BY <1>1 DEF RecordInv, RecordNaming, Records!Here, Records!Shown
  <1>7. LastHad'
    BY <1>1, <1>2, PendingKept DEF RecordInv, LastHad
  <1> QED BY <1>3, <1>4, <1>5, <1>6, <1>7 DEF RecordInv

\* An agent forgets a conversation, and the daemon starts again.
LEMMA Forgets ==
    ASSUME RecordInv, NEW id, Records!forget(id)
    PROVE  RecordInv'
  <1>1. /\ UNCHANGED <<entry, starting, record, onDisk, restoring, requests, confirmed, overtaken, madeBy, newest, unwritten>>
        /\ stillHeld' \subseteq stillHeld
    BY DEF Records!forget, Records!records, Records!names
  <1>2. RecordTypes'
    BY <1>1, SameIds DEF RecordInv, RecordTypes
  <1>3. OneRestores' /\ RecordRestores'
    BY <1>1 DEF RecordInv, OneRestores, Restorers, RecordRestores, Restored, Records!At
  <1>4. RecordNaming' /\ LastHad'
    BY <1>1 DEF RecordInv, RecordNaming, LastHad, Records!Here, Records!Shown, Records!Pending
  <1> QED BY <1>2, <1>3, <1>4 DEF RecordInv

LEMMA RecordRestarts ==
    ASSUME RecordInv, Records!restart
    PROVE  RecordInv'
  <1>1. /\ entry' = Records!None /\ record' = onDisk /\ starting' = FALSE /\ restoring' = FALSE
        /\ requests' = [d \in Device |-> Records!Idle] /\ unwritten' = (unwritten \/ Records!Pending)
        /\ UNCHANGED <<onDisk, confirmed, overtaken, madeBy, stillHeld, newest>>
    BY DEF Records!restart, Records!names
  <1>2. RecordTypes'
    <2>1. \A d \in Device : RecordCallOK(requests[d])'
      BY <1>1 DEF RecordCallOK
    <2>2. unwritten' \in BOOLEAN
      BY <1>1 DEF RecordInv, RecordTypes, Records!Pending
    <2>3. KeptRecord(entry)' /\ KeptRecord(record)' /\ KeptRecord(onDisk)'
      BY <1>1, SameIds, NoneIsNone DEF RecordInv, RecordTypes, KeptRecord
    <2> QED BY <1>1, <2>1, <2>2, <2>3, SameIds DEF RecordInv, RecordTypes
  <1>3. OneRestores' /\ RecordRestores'
    BY <1>1 DEF OneRestores, Restorers, RecordRestores, Records!At, Records!Idle
  <1>4. RecordNaming'
    BY <1>1 DEF RecordInv, RecordNaming, Records!Here, Records!Shown
  <1>5. LastHad'
    BY <1>1 DEF RecordInv, LastHad
  <1> QED BY <1>2, <1>3, <1>4, <1>5 DEF RecordInv

LEMMA RecordUnchanged ==
    ASSUME RecordInv, UNCHANGED Records!vars
    PROVE  RecordInv'
  <1>1. UNCHANGED <<entry, starting, record, onDisk, restoring, requests, confirmed, overtaken, madeBy, stillHeld, newest, unwritten>>
    BY DEF Records!vars
  <1>2. RecordTypes'
    BY <1>1, SameIds DEF RecordInv, RecordTypes
  <1>3. OneRestores' /\ RecordRestores'
    BY <1>1 DEF RecordInv, OneRestores, Restorers, RecordRestores, Restored, Records!At
  <1>4. RecordNaming' /\ LastHad'
    BY <1>1 DEF RecordInv, RecordNaming, LastHad, Records!Here, Records!Shown, Records!Pending
  <1> QED BY <1>2, <1>3, <1>4 DEF RecordInv

\* Every step keeps the invariant.
LEMMA RecordSteps == RecordInv /\ [Records!Next]_(Records!vars) => RecordInv'
  <1> SUFFICES ASSUME RecordInv, [Records!Next]_(Records!vars)
               PROVE  RecordInv'
    OBVIOUS
  <1>1. ASSUME NEW d \in Device,
               Records!ask(d) \/ Records!ensure_live_session(d) \/ Records!publish(d) \/ Records!finish_promotion(d)
        PROVE  RecordInv'
    BY <1>1, Asking, Ensuring, Publishing, Finishing
  <1>2. ASSUME NEW d \in Device,
               Records!promotion_saved(d) \/ Records!rename_saved(d) \/ Records!rebind_saved(d) \/ Records!close_saved(d)
        PROVE  RecordInv'
    BY <1>2, Saves
  <1>3. ASSUME NEW d \in Device, NEW n \in Name, Records!rename(d, n)
        PROVE  RecordInv'
    BY <1>3, Renames
  <1>4. ASSUME NEW d \in Device,
               Records!rename_dormant(d) \/ Records!look(d) \/ Records!auto_name(d)
        PROVE  RecordInv'
    BY <1>4, RenamesDormant, Looking, AutoNames
  <1>5. ASSUME NEW d \in Device,
               Records!rebind_start(d) \/ Records!rebind_finish(d) \/ Records!close_session(d)
        PROVE  RecordInv'
    BY <1>5, RebindStarts, Rebinds, Closes
  <1>6. CASE (\E id \in stillHeld : Records!forget(id)) \/ Records!restart
    BY <1>6, Forgets, RecordRestarts
  <1> QED BY <1>1, <1>2, <1>3, <1>4, <1>5, <1>6, RecordUnchanged DEF Records!Next

\* The name that a device confirmed, the agent and the agent's id of a session
\* outlast restores, moves, failing writes and restarts; no record goes with the
\* id of another agent (ensure_live, rebind, rename, save).
THEOREM RecordsSurvive == Records!Spec => []RecordsAreKept
  <1>1. RecordInv => Records!RecordsAreKept
    <2> SUFFICES ASSUME RecordInv
                 PROVE  Records!RecordsAreKept
      OBVIOUS
    <2>1. \A r \in {entry, record, onDisk} \ {Records!None} : madeBy[r.acp] = r.agent
      BY DEF RecordInv, RecordTypes, KeptRecord, Owned
    <2> QED BY <2>1 DEF RecordInv, RecordNaming, LastHad, Records!RecordsAreKept
  <1> QED BY <1>1, RecordInit, RecordSteps, PTL DEF Records!Spec, RecordsAreKept
=============================================================================
