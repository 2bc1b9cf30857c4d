------------------------ MODULE PolicyPipelineProofs ------------------------
(***************************************************************************)
(* Theorems of PolicyPipeline, for every set of commands, runs and rules,  *)
(* every scenario and any number of saves.                                 *)
(***************************************************************************)
EXTENDS PolicyPipeline, TLAPS

Procs == Cmds \cup Runs

-----------------------------------------------------------------------------
(***************************************************************************)
(* Types                                                                   *)
(***************************************************************************)
LEMMA OrderFacts ==
    /\ Len(Order) = 3
    /\ \A n \in 1..3 : Order[n] \in Layers
    /\ \A l \in Layers : \E n \in 1..3 : Order[n] = l
BY DEF Order, Layers

LEMMA ConstantsTyped ==
    /\ NoInputs \in Inputs
    /\ NoFile \in Artifact /\ Emptied \in Artifact /\ Garbled \in Artifact
    /\ \A i \in Inputs : Compiled(i) \in Artifact
    /\ NoCompile \in Compilation
    /\ [NoCompile EXCEPT !.pc = "read"] \in Compilation
    /\ NoCommand \in Command /\ Ended \in Command
    /\ NoAddon \in Addon
<1>1. NoInputs \in Inputs
  BY DEF NoInputs, Inputs
<1>2. NoFile \in Artifact /\ Emptied \in Artifact /\ Garbled \in Artifact
  BY <1>1 DEF NoFile, Emptied, Garbled, Artifact
<1>3. \A i \in Inputs : Compiled(i) \in Artifact
  BY DEF Compiled, Artifact
<1>4. NoCompile \in Compilation /\ [NoCompile EXCEPT !.pc = "read"] \in Compilation
  BY <1>1, OrderFacts DEF NoCompile, Compilation
<1>5. NoCommand \in Command /\ Ended \in Command
  BY DEF NoCommand, Ended, Command, Layers
<1>6. NoAddon \in Addon
  BY <1>2 DEF NoAddon, Addon
<1>7. QED
  BY <1>1, <1>2, <1>3, <1>4, <1>5, <1>6

LEMMA TypeInit == Init => TypeOK
<1> SUFFICES ASSUME Init PROVE TypeOK
  OBVIOUS
<1>1. config \in Inputs /\ dest \in Artifact /\ tmp \in Artifact
  BY ConstantsTyped DEF Init
<1>2. comp \in [Cmds \cup Runs -> Compilation] /\ cmd \in [Cmds -> Command] /\ enf \in Addon
  BY ConstantsTyped DEF Init
<1>3. hands \in 0..MaxHands
  BY PipelineAssumption DEF Init
<1>4. QED
  BY <1>1, <1>2, <1>3 DEF Init, TypeOK, RunPhases

\* Starting and ending a compile keeps the types of what they change.
LEMMA BeginTyped ==
    ASSUME TypeOK, NEW p \in Procs, BeginCompile(p)
    PROVE  comp' \in [Procs -> Compilation] /\ overlapped' \in BOOLEAN
BY ConstantsTyped DEF TypeOK, BeginCompile, Procs

LEMMA ReturnTyped ==
    ASSUME TypeOK, NEW p \in Procs, NEW ok \in BOOLEAN, Return(p, ok)
    PROVE  /\ cmd' \in [Cmds -> Command] /\ acked' \subseteq Cmds
           /\ sess' \in [Runs -> RunPhases] /\ event' \in [Runs -> BOOLEAN]
<1>1. CASE /\ p \in Cmds
           /\ cmd' = [cmd EXCEPT ![p] = Ended]
           /\ acked' = IF ok THEN acked \cup {p} ELSE acked
           /\ UNCHANGED <<sess, event>>
  BY <1>1, ConstantsTyped DEF TypeOK
<1>2. CASE /\ p \in Runs
           /\ sess' = [sess EXCEPT ![p] = CASE @ # "compiling" -> @
                                            [] ok -> "compiled"
                                            [] OTHER -> "done"]
           /\ UNCHANGED <<cmd, event, acked>>
  BY <1>2 DEF TypeOK, RunPhases
<1>3. QED
  BY <1>1, <1>2 DEF Return

LEMMA WrittenTyped ==
    ASSUME NEW file \in Artifact, NEW i \in Inputs
    PROVE  Written(file, i) \subseteq Artifact
BY ConstantsTyped DEF Written

LEMMA CompileTyped ==
    ASSUME TypeOK, NEW p \in Procs, CompileStep(p)
    PROVE  TypeOK'
<1> USE DEF Procs
<1>0. comp[p] \in Compilation
  BY DEF TypeOK
<1>1. CASE ReadLayer(p)
  <2>1. PICK n \in 1..3 : n = comp[p].next /\ Order[n] \in Layers
    BY <1>0, OrderFacts DEF Compilation
  <2>2. config[Order[n]] \subseteq Rules
    BY <2>1 DEF TypeOK, Inputs
  <2> DEFINE in == [comp[p].in EXCEPT ![Order[n]] = config[Order[n]]]
             next == IF n < Len(Order) THEN n + 1 ELSE 1
             pc == IF n < Len(Order) THEN comp[p].pc ELSE "gate"
  <2>a. in \in Inputs
    BY <1>0, <2>1, <2>2 DEF Compilation, Inputs
  <2>b. next \in 1..Len(Order) /\ pc \in {comp[p].pc, "gate"}
    BY <2>1, OrderFacts
  <2>3. [comp[p] EXCEPT !.in = in, !.next = next, !.pc = pc] \in Compilation
    <3> HIDE DEF in, next, pc
    <3> QED BY <1>0, <2>a, <2>b DEF Compilation
  <2>4. comp' = [comp EXCEPT ![p] = [comp[p] EXCEPT !.in = in, !.next = next, !.pc = pc]]
    BY <1>1, <2>1 DEF ReadLayer, TypeOK
  <2>5. comp' \in [Cmds \cup Runs -> Compilation]
    BY <2>3, <2>4 DEF TypeOK
  <2>6. QED
    BY <1>1, <2>5 DEF ReadLayer, TypeOK, files, artifacts, procs, history
<1>2. CASE ReadFails(p) \/ GateHit(p) \/ BuildFails(p)
  <2>1. PICK ok \in BOOLEAN : EndCompile(p, ok)
    BY <1>2 DEF ReadFails, GateHit, BuildFails
  <2>2. comp' \in [Cmds \cup Runs -> Compilation]
    BY <2>1, ConstantsTyped DEF EndCompile, TypeOK
  <2>3. /\ cmd' \in [Cmds -> Command] /\ acked' \subseteq Cmds
        /\ sess' \in [Runs -> RunPhases] /\ event' \in [Runs -> BOOLEAN]
    BY <2>1, ReturnTyped DEF EndCompile
  <2>4. QED
    BY <1>2, <2>2, <2>3 DEF ReadFails, GateHit, BuildFails, TypeOK, files, artifacts
<1>3. CASE GateMiss(p) \/ OpenTmp(p) \/ RenameFails(p)
  <2>0. PICK k \in Compilation : comp' = [comp EXCEPT ![p] = k]
    <3>1. CASE GateMiss(p)
      <4>1. [comp[p] EXCEPT !.pc = "open"] \in Compilation
        BY <1>0 DEF Compilation
      <4>2. QED
        BY <3>1, <4>1 DEF GateMiss, TypeOK
    <3>2. CASE OpenTmp(p)
      <4>1. [comp[p] EXCEPT !.pc = "write", !.fd = "tmp"] \in Compilation
        BY <1>0 DEF Compilation
      <4>2. QED
        BY <3>2, <4>1 DEF OpenTmp, TypeOK
    <3>3. CASE RenameFails(p)
      <4>1. [comp[p] EXCEPT !.pc = "remove"] \in Compilation
        BY <1>0 DEF Compilation
      <4>2. QED
        BY <3>3, <4>1 DEF RenameFails, TypeOK
    <3>4. QED
      BY <1>3, <3>1, <3>2, <3>3
  <2>1. comp' \in [Cmds \cup Runs -> Compilation]
    BY <2>0 DEF TypeOK
  <2>2. tmp' \in Artifact
    BY <1>3, ConstantsTyped DEF GateMiss, OpenTmp, RenameFails, TypeOK, artifacts
  <2>3. QED
    BY <1>3, <2>1, <2>2 DEF GateMiss, OpenTmp, RenameFails, TypeOK, files, artifacts, procs,
         history
<1>4. CASE WriteTmp(p)
  <2>1. comp' \in [Cmds \cup Runs -> Compilation]
    BY <1>0, <1>4 DEF WriteTmp, TypeOK, Compilation
  <2>2. tmp' \in Artifact /\ dest' \in Artifact
    BY <1>0, <1>4, WrittenTyped DEF WriteTmp, TypeOK, Compilation
  <2>3. enf' \in Addon /\ raced' \in BOOLEAN
    BY <1>4 DEF WriteTmp, DestChanges, TypeOK, Addon
  <2>4. QED
    BY <1>4, <2>1, <2>2, <2>3 DEF WriteTmp, TypeOK, files, procs
<1>5. CASE RenameTmp(p)
  <2>1. \A q \in Procs : [comp[q] EXCEPT !.fd = Moved(@)] \in Compilation
    BY DEF TypeOK, Compilation, Moved
  <2>2. comp' \in [Cmds \cup Runs -> Compilation]
    BY <1>5, <2>1, ConstantsTyped DEF RenameTmp
  <2>3. tmp' \in Artifact /\ dest' \in Artifact
    BY <1>5, ConstantsTyped DEF RenameTmp, TypeOK
  <2>4. enf' \in Addon /\ raced' \in BOOLEAN
    BY <1>5 DEF RenameTmp, DestChanges, TypeOK, Addon
  <2>5. /\ cmd' \in [Cmds -> Command] /\ acked' \subseteq Cmds
        /\ sess' \in [Runs -> RunPhases] /\ event' \in [Runs -> BOOLEAN]
    BY <1>5, ReturnTyped DEF RenameTmp
  <2>6. QED
    BY <1>5, <2>2, <2>3, <2>4, <2>5 DEF RenameTmp, TypeOK, files
<1>6. CASE RemoveTmp(p)
  <2>1. \A q \in Procs : [comp[q] EXCEPT !.fd = Dropped(@)] \in Compilation
    BY DEF TypeOK, Compilation, Dropped
  <2>2. comp' \in [Cmds \cup Runs -> Compilation]
    BY <1>6, <2>1, ConstantsTyped DEF RemoveTmp
  <2>3. tmp' \in Artifact
    BY <1>6, ConstantsTyped DEF RemoveTmp
  <2>4. /\ cmd' \in [Cmds -> Command] /\ acked' \subseteq Cmds
        /\ sess' \in [Runs -> RunPhases] /\ event' \in [Runs -> BOOLEAN]
    BY <1>6, ReturnTyped DEF RemoveTmp
  <2>5. QED
    BY <1>6, <2>2, <2>3, <2>4 DEF RemoveTmp, TypeOK, files
<1>7. QED
  BY <1>1, <1>2, <1>3, <1>4, <1>5, <1>6 DEF CompileStep

\* So do the other actions.
LEMMA CommandTyped ==
    ASSUME TypeOK, NEW c \in Cmds, CommandStep(c) \/ KillCommand(c)
    PROVE  TypeOK'
<1>0. cmd[c] \in Command
  BY DEF TypeOK
<1>1. CASE BeginEdit(c)
  <2>1. PICK l \in Layers, op \in {"add", "remove"}, r \in Rules :
            cmd' = [cmd EXCEPT ![c] =
              IF l \in broken \/ Edited(op, config[l], r) = config[l]
              THEN Ended
              ELSE [pc |-> "write", op |-> op, layer |-> l, rule |-> r,
                    text |-> Edited(op, config[l], r)]]
    BY <1>1 DEF BeginEdit, Targets, Edits
  <2>2. Edited(op, config[l], r) \subseteq Rules
    BY DEF TypeOK, Inputs, Edited
  <2>3. [pc |-> "write", op |-> op, layer |-> l, rule |-> r,
         text |-> Edited(op, config[l], r)] \in Command
    BY <2>2 DEF Command
  <2>4. cmd' \in [Cmds -> Command]
    BY <2>1, <2>3, ConstantsTyped DEF TypeOK
  <2>5. QED
    BY <1>1, <2>4 DEF BeginEdit, TypeOK, files, artifacts, history
<1>2. CASE WriteConfig(c)
  <2> DEFINE l == cmd[c].layer
  <2>1. l \in Layers /\ cmd[c].text \subseteq Rules
    BY <1>0 DEF Command
  <2>2. config' \in Inputs /\ broken' \subseteq Watched
    BY <1>2, <2>1 DEF WriteConfig, TypeOK, Inputs
  <2>3. /\ author' \in [Layers -> Cmds \cup {0}]
        /\ past' \in [Layers -> SUBSET SUBSET Rules]
        /\ expired' \subseteq Rules
    BY <1>2, <2>1 DEF WriteConfig, TypeOK
  <2>4. [cmd[c] EXCEPT !.pc = "compile", !.rule = 0, !.text = {}] \in Command
    BY <1>0 DEF Command
  <2>5. cmd' \in [Cmds -> Command]
    <3>1. cmd' = [cmd EXCEPT ![c] = [cmd[c] EXCEPT !.pc = "compile", !.rule = 0, !.text = {}]]
      BY <1>2 DEF WriteConfig, TypeOK
    <3>2. QED
      BY <2>4, <3>1 DEF TypeOK
  <2>6. event' \in [Runs -> BOOLEAN]
    BY <1>2 DEF WriteConfig, Notify, TypeOK
  <2>7. comp' \in [Procs -> Compilation] /\ overlapped' \in BOOLEAN
    BY <1>2, BeginTyped DEF WriteConfig, Procs
  <2>8. QED
    BY <1>2, <2>2, <2>3, <2>5, <2>6, <2>7 DEF WriteConfig, TypeOK, artifacts, Procs
<1>3. CASE BeginUnlocked(c)
  <2>1. PICK op \in {"show", "refresh"} :
            cmd' = [cmd EXCEPT ![c].pc = "compile", ![c].op = op]
    BY <1>3 DEF BeginUnlocked
  <2>2. [cmd[c] EXCEPT !.pc = "compile", !.op = op] \in Command
    BY <1>0, <2>1 DEF Command
  <2>3. cmd' = [cmd EXCEPT ![c] = [cmd[c] EXCEPT !.pc = "compile", !.op = op]]
    BY <2>1 DEF TypeOK
  <2>4. cmd' \in [Cmds -> Command]
    BY <2>2, <2>3 DEF TypeOK
  <2>5. comp' \in [Procs -> Compilation] /\ overlapped' \in BOOLEAN
    BY <1>3, BeginTyped DEF BeginUnlocked, Procs
  <2>6. QED
    BY <1>3, <2>4, <2>5 DEF BeginUnlocked, TypeOK, files, artifacts, Procs
<1>4. CASE KillCommand(c)
  <2>1. cmd' \in [Cmds -> Command] /\ comp' \in [Cmds \cup Runs -> Compilation]
    BY <1>4, ConstantsTyped DEF KillCommand, TypeOK
  <2>2. QED
    BY <1>4, <2>1 DEF KillCommand, TypeOK, files, artifacts, history
<1>5. QED
  BY <1>1, <1>2, <1>3, <1>4 DEF CommandStep

LEMMA HandTyped ==
    ASSUME TypeOK, HandSave
    PROVE  TypeOK'
<1>1. PICK l \in Watched, text \in SUBSET Rules, ok \in BOOLEAN :
        /\ config' = [config EXCEPT ![l] = text]
        /\ broken' = IF ok THEN broken \ {l} ELSE broken \cup {l}
        /\ author' = [author EXCEPT ![l] = 0]
        /\ past' = IF ok THEN [past EXCEPT ![l] = @ \cup {text}] ELSE past
        /\ Notify(l)
  BY DEF HandSave
<1>2. l \in Layers
  BY DEF Layers, Watched
<1>3. config' \in Inputs /\ broken' \subseteq Watched
  BY <1>1, <1>2 DEF TypeOK, Inputs
<1>4. author' \in [Layers -> Cmds \cup {0}] /\ past' \in [Layers -> SUBSET SUBSET Rules]
  BY <1>1, <1>2 DEF TypeOK
<1>5. event' \in [Runs -> BOOLEAN]
  BY <1>1 DEF Notify, TypeOK
<1>6. hands' \in 0..MaxHands
  BY PipelineAssumption DEF HandSave, TypeOK
<1>7. QED
  BY <1>3, <1>4, <1>5, <1>6 DEF HandSave, TypeOK, artifacts

LEMMA RunTyped ==
    ASSUME TypeOK, NEW s \in Runs, RunStep(s)
    PROVE  TypeOK'
<1>1. CASE StartRun(s)
  <2>1. comp' \in [Procs -> Compilation] /\ overlapped' \in BOOLEAN
    BY <1>1, BeginTyped DEF StartRun, Procs
  <2>2. sess' \in [Runs -> RunPhases]
    BY <1>1 DEF StartRun, TypeOK, RunPhases
  <2>3. QED
    BY <1>1, <2>1, <2>2 DEF StartRun, TypeOK, files, artifacts, Procs
<1>2. CASE AttachRunning(s) \/ AttachFails(s) \/ StartWatcher(s) \/ DetachOthersRemain(s)
  <2>1. sess' \in [Runs -> RunPhases]
    BY <1>2 DEF AttachRunning, AttachFails, StartWatcher, DetachOthersRemain, TypeOK, RunPhases
  <2>2. QED
    BY <1>2, <2>1 DEF AttachRunning, AttachFails, StartWatcher, DetachOthersRemain, TypeOK,
         files, artifacts, history
<1>3. CASE AttachFirst(s)
  <2>1. sess' \in [Runs -> RunPhases] /\ enf' \in Addon
    BY <1>3 DEF AttachFirst, TypeOK, RunPhases, Addon
  <2>2. QED
    BY <1>3, <2>1 DEF AttachFirst, TypeOK, files, artifacts, history
<1>4. CASE Reload(s)
  <2>1. comp' \in [Procs -> Compilation] /\ overlapped' \in BOOLEAN
    BY <1>4, BeginTyped DEF Reload, Procs
  <2>2. event' \in [Runs -> BOOLEAN]
    BY <1>4 DEF Reload, TypeOK
  <2>3. QED
    BY <1>4, <2>1, <2>2 DEF Reload, TypeOK, files, artifacts, Procs
<1>5. CASE StopWatcher(s)
  <2>1. sess' \in [Runs -> RunPhases] /\ event' \in [Runs -> BOOLEAN]
    BY <1>5 DEF StopWatcher, TypeOK, RunPhases
  <2>2. QED
    BY <1>5, <2>1 DEF StopWatcher, TypeOK, files, artifacts, history
<1>6. CASE DetachLast(s)
  <2>1. sess' \in [Runs -> RunPhases] /\ enf' \in Addon
    BY <1>6, ConstantsTyped DEF DetachLast, TypeOK, RunPhases
  <2>2. config' \in Inputs /\ author' \in [Layers -> Cmds \cup {0}] /\ expired' \subseteq Rules
    BY <1>6 DEF DetachLast, TypeOK, Inputs, Layers
  <2>3. QED
    BY <1>6, <2>1, <2>2 DEF DetachLast, TypeOK, artifacts
<1>7. QED
  BY <1>1, <1>2, <1>3, <1>4, <1>5, <1>6 DEF RunStep

LEMMA PollTyped ==
    ASSUME TypeOK, PollReads \/ PollStats
    PROVE  TypeOK'
<1>1. enf' \in Addon
  BY DEF PollReads, PollStats, TypeOK, Addon
<1>2. QED
  BY <1>1 DEF PollReads, PollStats, TypeOK, files, artifacts, procs, history

LEMMA TypeNext ==
    ASSUME TypeOK, [Next]_vars
    PROVE  TypeOK'
<1>1. CASE UNCHANGED vars
  BY <1>1 DEF vars, files, artifacts, procs, history, TypeOK
<1>2. CASE Next
  BY <1>2, CompileTyped, CommandTyped, HandTyped, RunTyped, PollTyped DEF Next, Procs
<1>3. QED
  BY <1>1, <1>2

\* Every variable keeps its type and range: compilers never read past the
\* last layer and artifacts are never of another shape.
THEOREM PipelineTypeCorrect == Spec => []TypeOK
<1>1. Init => TypeOK
  BY TypeInit
<1>2. TypeOK /\ [Next]_vars => TypeOK'
  BY TypeNext
<1>3. QED
  BY <1>1, <1>2, PTL DEF Spec

-----------------------------------------------------------------------------
(***************************************************************************)
(* The ruleset in force                                                    *)
(*                                                                         *)
(* A content reaches the enforcer through a compiler's inputs, the         *)
(* temporary file and policy.json, and each of them may be handed to       *)
(* another process on the way; so the contents in all of them must be      *)
(* contents their file has had.                                            *)
(***************************************************************************)
InPast(i) == \A l \in Layers : i[l] \in past[l]

ConfiguredInv ==
    /\ InPast(NoInputs)
    /\ \A l \in Layers \ broken : config[l] \in past[l]
    /\ \A p \in Procs : InPast(comp[p].in)
    /\ InPast(dest.in)
    /\ InPast(tmp.in)
    /\ InPast(enf.ruleset.in)
    /\ enf.up => enf.ruleset.state = "whole"

LEMMA ConfiguredInit == Init => ConfiguredInv
BY DEF Init, ConfiguredInv, InPast, NoInputs, NoFile, NoCompile, NoAddon, Procs, Layers

LEMMA ConstantsInPast ==
    ASSUME InPast(NoInputs)
    PROVE  /\ InPast(NoFile.in) /\ InPast(Emptied.in) /\ InPast(Garbled.in)
           /\ InPast(NoCompile.in) /\ InPast([NoCompile EXCEPT !.pc = "read"].in)
           /\ InPast(NoAddon.ruleset.in)
           /\ \A i \in Inputs : Compiled(i).in = i
BY DEF NoFile, Emptied, Garbled, NoCompile, NoAddon, Compiled

\* A written file holds what was written, or, torn, nothing.
LEMMA WrittenInPast ==
    ASSUME InPast(NoInputs), NEW i \in Inputs, InPast(i),
           NEW file \in Artifact, NEW new \in Written(file, i)
    PROVE  InPast(new.in)
BY ConstantsInPast DEF Written

\* When the pasts only grow, everything that was in them stays in them.
LEMMA PastGrows ==
    ASSUME \A l \in Layers : past[l] \subseteq past'[l], NEW i, InPast(i)
    PROVE  \A l \in Layers : i[l] \in past'[l]
BY DEF InPast

LEMMA CompileConfigured ==
    ASSUME TypeOK, ConfiguredInv, NEW p \in Procs, CompileStep(p)
    PROVE  ConfiguredInv'
<1>0. /\ comp[p] \in Compilation /\ comp[p].in \in Inputs
      /\ dest \in Artifact /\ tmp \in Artifact
  BY DEF TypeOK, Compilation, Procs
<1>1. UNCHANGED <<config, broken, past>>
  BY DEF CompileStep, ReadLayer, ReadFails, GateHit, GateMiss, BuildFails, OpenTmp, WriteTmp,
       RenameTmp, RenameFails, RemoveTmp, files, history
<1>2. ASSUME NEW i, InPast(i)
      PROVE  InPast(i)'
  BY <1>1, <1>2 DEF InPast
<1>3. /\ InPast(NoInputs)' /\ InPast(NoInputs)
      /\ \A l \in (Layers \ broken)' : (config[l] \in past[l])'
  BY <1>1 DEF ConfiguredInv, InPast
<1>4. \A q \in Procs : InPast(comp'[q].in)
  <2> SUFFICES ASSUME NEW q \in Procs PROVE InPast(comp'[q].in)
    OBVIOUS
  <2>0. InPast(comp[q].in) /\ InPast(NoCompile.in) /\ q \in Cmds \cup Runs
    BY <1>3, ConstantsInPast DEF ConfiguredInv, Procs
  <2>1. CASE ReadLayer(p)
    <3>1. PICK n \in 1..3 : n = comp[p].next /\ Order[n] \in Layers
      BY <1>0, OrderFacts DEF Compilation
    <3>2. InPast([comp[p].in EXCEPT ![Order[n]] = config[Order[n]]])
      BY <2>1, <3>1, <1>0 DEF ReadLayer, ConfiguredInv, InPast, Inputs
    <3>3. comp'[q].in = IF q = p THEN [comp[p].in EXCEPT ![Order[n]] = config[Order[n]]]
                                 ELSE comp[q].in
      <4>1. CASE q = p
        BY <2>0, <2>1, <3>1, <4>1, <1>0 DEF ReadLayer, TypeOK, Compilation
      <4>2. CASE q # p
        BY <2>0, <2>1, <4>2 DEF ReadLayer, TypeOK
      <4>3. QED BY <4>1, <4>2
    <3>4. QED
      BY <2>0, <3>2, <3>3
  <2>2. CASE ReadFails(p) \/ GateHit(p) \/ BuildFails(p)
    <3>1. comp'[q] \in {comp[q], NoCompile}
      BY <2>2, <2>0 DEF ReadFails, GateHit, BuildFails, EndCompile, TypeOK
    <3>2. QED
      BY <3>1, <2>0
  <2>3. CASE GateMiss(p) \/ OpenTmp(p) \/ RenameFails(p) \/ WriteTmp(p)
    <3>1. comp'[q].in = comp[q].in
      <4>1. CASE q = p
        <5>1. CASE GateMiss(p)
          BY <1>0, <2>0, <4>1, <5>1 DEF GateMiss, TypeOK, Compilation
        <5>2. CASE OpenTmp(p)
          BY <1>0, <2>0, <4>1, <5>2 DEF OpenTmp, TypeOK, Compilation
        <5>3. CASE RenameFails(p)
          BY <1>0, <2>0, <4>1, <5>3 DEF RenameFails, TypeOK, Compilation
        <5>4. CASE WriteTmp(p)
          BY <1>0, <2>0, <4>1, <5>4 DEF WriteTmp, TypeOK, Compilation
        <5>5. QED
          BY <2>3, <5>1, <5>2, <5>3, <5>4
      <4>2. CASE q # p
        BY <2>3, <2>0, <4>2 DEF GateMiss, OpenTmp, RenameFails, WriteTmp, TypeOK
      <4>3. QED
        BY <4>1, <4>2
    <3>2. QED
      BY <3>1, <2>0
  <2>4. CASE RenameTmp(p) \/ RemoveTmp(p)
    <3>0. comp[q] \in Compilation
      BY <2>0 DEF TypeOK
    <3>1. comp'[q].in = comp[q].in \/ comp'[q] = NoCompile
      BY <2>4, <2>0, <3>0 DEF RenameTmp, RemoveTmp, Compilation
    <3>2. QED
      BY <3>1, <2>0
  <2>5. QED
    BY <2>1, <2>2, <2>3, <2>4 DEF CompileStep
<1>5. InPast(dest'.in) /\ InPast(tmp'.in)
  <2>1. CASE ReadLayer(p) \/ ReadFails(p) \/ GateHit(p) \/ GateMiss(p) \/ BuildFails(p)
             \/ RenameFails(p)
    BY <2>1 DEF ReadLayer, ReadFails, GateHit, GateMiss, BuildFails, RenameFails, artifacts,
         ConfiguredInv
  <2>2. CASE OpenTmp(p) \/ RemoveTmp(p) \/ RenameTmp(p)
    BY <2>2, <1>3, ConstantsInPast DEF OpenTmp, RemoveTmp, RenameTmp, ConfiguredInv
  <2>3. CASE WriteTmp(p)
    <3>1. InPast(comp[p].in)
      BY DEF ConfiguredInv
    <3>2. /\ dest' = dest \/ dest' \in Written(dest, comp[p].in)
          /\ tmp' = tmp \/ tmp' \in Written(tmp, comp[p].in)
      BY <2>3 DEF WriteTmp
    <3>3. QED
      BY <3>1, <3>2, <1>0, <1>3, WrittenInPast DEF ConfiguredInv
  <2>4. QED
    BY <2>1, <2>2, <2>3 DEF CompileStep
<1>6. enf'.ruleset = enf.ruleset /\ enf'.up = enf.up
  BY DEF CompileStep, ReadLayer, ReadFails, GateHit, GateMiss, BuildFails, OpenTmp, WriteTmp,
       RenameTmp, RenameFails, RemoveTmp, DestChanges, TypeOK, Addon
<1>7. QED
  BY <1>2, <1>3, <1>4, <1>5, <1>6 DEF ConfiguredInv, InPast, Procs

LEMMA CommandConfigured ==
    ASSUME TypeOK, ConfiguredInv, NEW c \in Cmds, CommandStep(c) \/ KillCommand(c)
    PROVE  ConfiguredInv'
<1>0. \A l \in Layers : past[l] \subseteq past'[l]
  <2>1. CASE WriteConfig(c)
    <3>1. cmd[c].layer \in Layers
      BY DEF TypeOK, Command
    <3>2. QED
      BY <2>1, <3>1 DEF WriteConfig, TypeOK
  <2>2. CASE ~WriteConfig(c)
    BY <2>2 DEF CommandStep, BeginEdit, BeginUnlocked, KillCommand, history
  <2>3. QED
    BY <2>1, <2>2
<1>1. ASSUME NEW i, InPast(i)
      PROVE  \A l \in Layers : i[l] \in past'[l]
  BY <1>0, <1>1, PastGrows
<1>2. \A p \in Procs : InPast(comp'[p].in)
  <2> SUFFICES ASSUME NEW p \in Procs PROVE InPast(comp'[p].in)
    OBVIOUS
  <2>1. comp'[p] \in {comp[p], NoCompile, [NoCompile EXCEPT !.pc = "read"]}
    BY DEF CommandStep, BeginEdit, WriteConfig, BeginUnlocked, KillCommand, BeginCompile, TypeOK,
         Procs
  <2>2. QED
    BY <2>1, ConstantsInPast DEF ConfiguredInv
<1>3. \A l \in (Layers \ broken)' : (config[l] \in past[l])'
  <2> SUFFICES ASSUME NEW l \in Layers, l \notin broken'
               PROVE  config'[l] \in past'[l]
    OBVIOUS
  <2>1. CASE WriteConfig(c)
    <3>1. cmd[c].layer \in Layers
      BY DEF TypeOK, Command
    <3>2. CASE l = cmd[c].layer
      BY <2>1, <3>2 DEF WriteConfig, TypeOK, Inputs
    <3>3. CASE l # cmd[c].layer
      BY <2>1, <3>3 DEF WriteConfig, TypeOK, Inputs, ConfiguredInv
    <3>4. QED
      BY <3>2, <3>3
  <2>2. CASE ~WriteConfig(c)
    BY <2>2 DEF CommandStep, BeginEdit, BeginUnlocked, KillCommand, history, files, ConfiguredInv
  <2>3. QED
    BY <2>1, <2>2
<1>4. UNCHANGED <<artifacts, enf>>
  BY DEF CommandStep, BeginEdit, WriteConfig, BeginUnlocked, KillCommand
<1>5. QED
  BY <1>1, <1>2, <1>3, <1>4 DEF ConfiguredInv, InPast, artifacts, Procs

LEMMA HandConfigured ==
    ASSUME TypeOK, ConfiguredInv, HandSave
    PROVE  ConfiguredInv'
<1>1. PICK f \in Watched, text \in SUBSET Rules, ok \in BOOLEAN :
        /\ config' = [config EXCEPT ![f] = text]
        /\ broken' = IF ok THEN broken \ {f} ELSE broken \cup {f}
        /\ past' = IF ok THEN [past EXCEPT ![f] = @ \cup {text}] ELSE past
  BY DEF HandSave
<1>2. f \in Layers
  BY DEF Layers, Watched
<1>3. \A l \in Layers : past[l] \subseteq past'[l]
  BY <1>1, <1>2 DEF TypeOK
<1>4. ASSUME NEW i, InPast(i)
      PROVE  \A l \in Layers : i[l] \in past'[l]
  BY <1>3, <1>4, PastGrows
<1>5. \A l \in (Layers \ broken)' : (config[l] \in past[l])'
  <2> SUFFICES ASSUME NEW l \in Layers, l \notin broken'
               PROVE  config'[l] \in past'[l]
    OBVIOUS
  <2>1. CASE l = f
    BY <1>1, <2>1 DEF TypeOK, Inputs
  <2>2. CASE l # f
    BY <1>1, <2>2 DEF TypeOK, Inputs, ConfiguredInv
  <2>3. QED
    BY <2>1, <2>2
<1>6. UNCHANGED <<artifacts, enf, comp>>
  BY DEF HandSave
<1>7. QED
  BY <1>4, <1>5, <1>6 DEF ConfiguredInv, InPast, artifacts

LEMMA RunConfigured ==
    ASSUME TypeOK, ConfiguredInv, NEW s \in Runs, RunStep(s)
    PROVE  ConfiguredInv'
<1>1. UNCHANGED <<broken, past, dest, tmp>>
  BY DEF RunStep, StartRun, AttachRunning, AttachFirst, AttachFails, StartWatcher, Reload,
       StopWatcher, DetachOthersRemain, DetachLast, files, artifacts, history
<1>2. \A l \in Layers : config'[l] = config[l] \/ config'[l] = NoInputs[l]
  BY DEF RunStep, StartRun, AttachRunning, AttachFirst, AttachFails, StartWatcher, Reload,
       StopWatcher, DetachOthersRemain, DetachLast, files, TypeOK, Inputs, NoInputs
<1>3. \A p \in Procs : InPast(comp'[p].in)
  <2> SUFFICES ASSUME NEW p \in Procs PROVE InPast(comp'[p].in)
    OBVIOUS
  <2>1. comp'[p] \in {comp[p], [NoCompile EXCEPT !.pc = "read"]}
    BY DEF RunStep, StartRun, AttachRunning, AttachFirst, AttachFails, StartWatcher, Reload,
         StopWatcher, DetachOthersRemain, DetachLast, BeginCompile, TypeOK, Procs
  <2>2. QED
    BY <2>1, ConstantsInPast DEF ConfiguredInv
<1>4. InPast(enf'.ruleset.in) /\ (enf'.up => enf'.ruleset.state = "whole")
  <2>1. CASE AttachFirst(s)
    BY <2>1 DEF AttachFirst, ConfiguredInv
  <2>2. CASE DetachLast(s)
    BY <2>2, ConstantsInPast DEF DetachLast, ConfiguredInv, NoAddon
  <2>3. CASE ~AttachFirst(s) /\ ~DetachLast(s)
    BY <2>3 DEF RunStep, StartRun, AttachRunning, AttachFails, StartWatcher, Reload,
         StopWatcher, DetachOthersRemain, ConfiguredInv
  <2>4. QED
    BY <2>1, <2>2, <2>3
<1>5. QED
  BY <1>1, <1>2, <1>3, <1>4 DEF ConfiguredInv, InPast, Procs

LEMMA PollConfigured ==
    ASSUME TypeOK, ConfiguredInv, PollReads \/ PollStats
    PROVE  ConfiguredInv'
<1>1. InPast(enf'.ruleset.in) /\ (enf'.up => enf'.ruleset.state = "whole")
  BY DEF PollReads, PollStats, ConfiguredInv, TypeOK, Addon
<1>2. QED
  BY <1>1 DEF PollReads, PollStats, ConfiguredInv, InPast, files, artifacts, history

LEMMA ConfiguredNext ==
    ASSUME TypeOK, ConfiguredInv, [Next]_vars
    PROVE  ConfiguredInv'
<1>1. CASE UNCHANGED vars
  BY <1>1 DEF vars, files, artifacts, history, ConfiguredInv, InPast
<1>2. CASE Next
  BY <1>2, CompileConfigured, CommandConfigured, HandConfigured, RunConfigured, PollConfigured
     DEF Next, Procs
<1>3. QED
  BY <1>1, <1>2

\* Whatever else writes policy.json or its temporary file, and however compiles
\* overlap, the proxy enforces a whole policy made of contents the files had.
THEOREM EnforcedCorrect == Spec => []EnforcedWasConfigured
<1>1. Init => ConfiguredInv
  BY ConfiguredInit
<1>2. TypeOK /\ ConfiguredInv /\ [Next]_vars => ConfiguredInv'
  BY ConfiguredNext
<1>3. ConfiguredInv => EnforcedWasConfigured
  BY DEF ConfiguredInv, EnforcedWasConfigured, InPast
<1>4. QED
  BY <1>1, <1>2, <1>3, PipelineTypeCorrect, PTL DEF Spec

-----------------------------------------------------------------------------
(***************************************************************************)
(* Edits are atomic                                                        *)
(*                                                                         *)
(* The read and the write of an edit are two steps.  What makes them one   *)
(* is the lock: between them nobody else edits that file, so that the text *)
(* a command is about to write is still one edit away from the file.       *)
(***************************************************************************)
Holds(c) == cmd[c].op \in {"add", "remove"}

Exclusion == \A c, d \in Cmds :
    Holds(c) /\ Holds(d) /\ cmd[c].layer = cmd[d].layer => c = d

Fresh(c) ==
    /\ Holds(c)
    /\ cmd[c].rule \in Rules
    /\ cmd[c].text = Edited(cmd[c].op, config[cmd[c].layer], cmd[c].rule)

EditInv ==
    /\ Exclusion
    /\ \A c \in Cmds : cmd[c].pc = "write" => Holds(c)
    /\ \A c \in Cmds :
        "hand" \notin env /\ cmd[c].pc = "write" /\ cmd[c].layer \in Watched => Fresh(c)

LEMMA EditInit == Init => EditInv
BY DEF Init, EditInv, Exclusion, Holds, NoCommand

\* A command that ends gives up its lock and changes nothing else.
LEMMA EndEdit ==
    ASSUME TypeOK, EditInv, NEW c \in Cmds, cmd' = [cmd EXCEPT ![c] = Ended],
           UNCHANGED <<config, env>>
    PROVE  EditInv'
<1>1. \A d \in Cmds : cmd'[d] = IF d = c THEN Ended ELSE cmd[d]
  BY DEF TypeOK
<1>2. Ended.op = "none" /\ Ended.pc = "done"
  BY DEF Ended, NoCommand
<1>3. Exclusion'
  BY <1>1, <1>2 DEF EditInv, Exclusion, Holds
<1>4. ASSUME NEW d \in Cmds, cmd'[d].pc = "write"
      PROVE  d # c /\ cmd'[d] = cmd[d]
  BY <1>1, <1>2, <1>4
<1>5. QED
  BY <1>3, <1>4 DEF EditInv, Fresh, Holds

\* A step of no command, which leaves the files people edit alone.
LEMMA OtherEdit ==
    ASSUME EditInv, UNCHANGED <<cmd, env>>,
           "hand" \notin env => \A l \in Watched : config'[l] = config[l]
    PROVE  EditInv'
BY DEF EditInv, Exclusion, Fresh, Holds

LEMMA BeginEditKeeps ==
    ASSUME TypeOK, EditInv, NEW c \in Cmds, BeginEdit(c)
    PROVE  EditInv'
<1>1. PICK l \in Layers, op \in {"add", "remove"}, r \in Rules :
        /\ ~LockHeld(l)
        /\ cmd' = [cmd EXCEPT ![c] =
              IF l \in broken \/ Edited(op, config[l], r) = config[l]
              THEN Ended
              ELSE [pc |-> "write", op |-> op, layer |-> l, rule |-> r,
                    text |-> Edited(op, config[l], r)]]
  BY ZenonT(30) DEF BeginEdit, Targets, Edits
<1>2. UNCHANGED <<config, env>>
  BY DEF BeginEdit, files
<1>3. CASE l \in broken \/ Edited(op, config[l], r) = config[l]
  BY <1>1, <1>2, <1>3, EndEdit
<1>4. CASE ~(l \in broken \/ Edited(op, config[l], r) = config[l])
  <2>1. /\ cmd'[c] = [pc |-> "write", op |-> op, layer |-> l, rule |-> r,
                      text |-> Edited(op, config[l], r)]
        /\ \A d \in Cmds \ {c} : cmd'[d] = cmd[d]
    BY <1>1, <1>4 DEF TypeOK
  <2>2. \A d \in Cmds : cmd[d].layer = l => ~Holds(d)
    BY <1>1 DEF LockHeld, Holds
  <2>3. Exclusion'
    BY <2>1, <2>2 DEF EditInv, Exclusion, Holds
  <2>4. Fresh(c)' /\ Holds(c)'
    BY <1>2, <2>1 DEF Fresh, Holds
  <2>5. \A d \in Cmds \ {c} : (Fresh(d)' <=> Fresh(d)) /\ (Holds(d)' <=> Holds(d))
    BY <1>2, <2>1 DEF Fresh, Holds
  <2>6. QED
    BY <1>2, <2>1, <2>3, <2>4, <2>5 DEF EditInv
<1>5. QED
  BY <1>3, <1>4

LEMMA WriteConfigKeeps ==
    ASSUME TypeOK, EditInv, NEW c \in Cmds, WriteConfig(c)
    PROVE  EditInv'
<1>1. /\ cmd'[c].pc = "compile" /\ cmd'[c].op = cmd[c].op /\ cmd'[c].layer = cmd[c].layer
      /\ \A d \in Cmds \ {c} : cmd'[d] = cmd[d]
  BY DEF WriteConfig, TypeOK, Command
<1>2. env' = env /\ \A l \in Layers \ {cmd[c].layer} : config'[l] = config[l]
  BY DEF WriteConfig, TypeOK, Inputs
<1>3. Exclusion'
  BY <1>1 DEF EditInv, Exclusion, Holds
<1>4. ASSUME NEW d \in Cmds, cmd'[d].pc = "write"
      PROVE  d # c /\ cmd'[d] = cmd[d] /\ cmd[d].pc = "write" /\ Holds(d) /\ Holds(d)'
  BY <1>1, <1>4 DEF EditInv, Holds
<1>5. ASSUME NEW d \in Cmds, cmd'[d].pc = "write"
      PROVE  config'[cmd[d].layer] = config[cmd[d].layer]
  <2>1. Holds(c) /\ cmd[d].layer \in Layers
    BY DEF WriteConfig, EditInv, TypeOK, Command
  <2>2. cmd[d].layer # cmd[c].layer
    BY <1>4, <1>5, <2>1 DEF EditInv, Exclusion
  <2>3. QED
    BY <1>2, <2>1, <2>2
<1>6. QED
  BY <1>2, <1>3, <1>4, <1>5 DEF EditInv, Fresh

LEMMA UnlockedKeeps ==
    ASSUME TypeOK, EditInv, NEW c \in Cmds, BeginUnlocked(c)
    PROVE  EditInv'
<1>1. /\ cmd'[c].pc = "compile" /\ cmd'[c].op \in {"show", "refresh"}
      /\ \A d \in Cmds \ {c} : cmd'[d] = cmd[d]
  BY DEF BeginUnlocked, TypeOK, Command
<1>2. UNCHANGED <<config, env>>
  BY DEF BeginUnlocked, files
<1>3. Exclusion'
  BY <1>1 DEF EditInv, Exclusion, Holds
<1>4. ASSUME NEW d \in Cmds, cmd'[d].pc = "write"
      PROVE  d # c /\ cmd'[d] = cmd[d]
  BY <1>1, <1>4
<1>5. QED
  BY <1>2, <1>3, <1>4 DEF EditInv, Fresh, Holds

\* What a compile does to the commands and files.
LEMMA CompileFrame ==
    ASSUME NEW p \in Procs, CompileStep(p)
    PROVE  /\ UNCHANGED <<config, env>>
           /\ UNCHANGED cmd \/ (p \in Cmds /\ cmd' = [cmd EXCEPT ![p] = Ended])
BY DEF CompileStep, ReadLayer, ReadFails, GateHit, GateMiss, BuildFails, OpenTmp, WriteTmp,
       RenameTmp, RenameFails, RemoveTmp, EndCompile, Return, files, procs

\* What a run or its watcher does to them.
LEMMA RunFrame ==
    ASSUME TypeOK, NEW s \in Runs, RunStep(s)
    PROVE  UNCHANGED <<cmd, env>> /\ \A l \in Watched : config'[l] = config[l]
<1>1. UNCHANGED <<cmd, env>>
  BY DEF RunStep, StartRun, AttachRunning, AttachFirst, AttachFails, StartWatcher, Reload,
       StopWatcher, DetachOthersRemain, DetachLast
<1>2. \A l \in Watched : config'[l] = config[l]
  BY DEF RunStep, StartRun, AttachRunning, AttachFirst, AttachFails, StartWatcher, Reload,
       StopWatcher, DetachOthersRemain, DetachLast, files, Watched, Layers, TypeOK, Inputs
<1>3. QED
  BY <1>1, <1>2

LEMMA EditNext ==
    ASSUME TypeOK, EditInv, [Next]_vars
    PROVE  EditInv'
<1>1. CASE UNCHANGED vars
  BY <1>1, OtherEdit DEF vars, files, procs
<1>2. ASSUME NEW p \in Procs, CompileStep(p)
      PROVE  EditInv'
  BY <1>2, CompileFrame, OtherEdit, EndEdit
<1>3. ASSUME NEW c \in Cmds, CommandStep(c)
      PROVE  EditInv'
  BY <1>3, BeginEditKeeps, WriteConfigKeeps, UnlockedKeeps DEF CommandStep
<1>4. ASSUME NEW c \in Cmds, KillCommand(c)
      PROVE  EditInv'
  BY <1>4, EndEdit DEF KillCommand, files
<1>5. ASSUME HandSave
      PROVE  EditInv'
  BY <1>5, OtherEdit DEF HandSave
<1>6. ASSUME NEW s \in Runs, RunStep(s)
      PROVE  EditInv'
  BY <1>6, RunFrame, OtherEdit
<1>7. ASSUME PollReads \/ PollStats
      PROVE  EditInv'
  BY <1>7, OtherEdit DEF PollReads, PollStats, files, procs
<1>8. QED
  BY <1>1, <1>2, <1>3, <1>4, <1>5, <1>6, <1>7 DEF Next, Procs

\* The files people edit, as the store sees them.
Stored == [l \in Watched |-> IF "hand" \in env THEN {} ELSE config[l]]

\* Each step is one edit of the store or leaves it alone.
LEMMA StepIsEdit ==
    ASSUME TypeOK, EditInv, [Next]_vars
    PROVE  Store!SNext \/ UNCHANGED Stored
<1>1. ASSUME env' = env, \A l \in Watched : config'[l] = config[l]
      PROVE  UNCHANGED Stored
  BY <1>1 DEF Stored
<1>2. CASE UNCHANGED vars
  BY <1>1, <1>2 DEF vars, files
<1>3. ASSUME NEW p \in Procs, CompileStep(p)
      PROVE  UNCHANGED Stored
  BY <1>1, <1>3, CompileFrame
<1>4. ASSUME NEW c \in Cmds, WriteConfig(c)
      PROVE  Store!SNext \/ UNCHANGED Stored
  <2> DEFINE f == cmd[c].layer
             r == cmd[c].rule
  <2>1. /\ env' = env
        /\ f \in Layers
        /\ config' = [config EXCEPT ![f] = cmd[c].text]
        /\ config \in [Layers -> SUBSET Rules]
    BY <1>4 DEF WriteConfig, TypeOK, Command, Inputs
  <2>2. CASE f \notin Watched \/ "hand" \in env
    BY <2>1, <2>2 DEF Stored, Watched, Layers
  <2>3. CASE f \in Watched /\ "hand" \notin env
    <3>1. Fresh(c)
      BY <1>4, <2>3 DEF EditInv, WriteConfig
    <3>2. Stored = [l \in Watched |-> config[l]] /\ Stored' = [l \in Watched |-> config'[l]]
      BY <2>1, <2>3 DEF Stored
    <3>3. Stored' = [Stored EXCEPT ![f] = cmd[c].text]
      BY <2>1, <2>3, <3>2 DEF Watched, Layers
    <3>4. Stored[f] = config[f]
      BY <2>3, <3>2
    <3>5. r \in Rules /\ (cmd[c].text = Stored[f] \cup {r} \/ cmd[c].text = Stored[f] \ {r})
      BY <3>1, <3>4 DEF Fresh, Edited
    <3>6. \/ Stored' = [Stored EXCEPT ![f] = Stored[f] \cup {r}]
          \/ Stored' = [Stored EXCEPT ![f] = Stored[f] \ {r}]
      BY <3>3, <3>5
    <3>7. PICK file \in Watched, rule \in Rules : file = f /\ rule = r
      BY <2>3, <3>5
    <3>8. Store!Add(file, rule) \/ Store!Remove(file, rule)
      BY <3>6, <3>7 DEF Store!Add, Store!Remove, Stored
    <3>9. QED
      BY <3>8 DEF Store!SNext
  <2>4. QED
    BY <2>2, <2>3
<1>5. ASSUME NEW c \in Cmds, BeginEdit(c) \/ BeginUnlocked(c) \/ KillCommand(c)
      PROVE  UNCHANGED Stored
  BY <1>1, <1>5 DEF BeginEdit, BeginUnlocked, KillCommand, files
<1>6. ASSUME HandSave
      PROVE  UNCHANGED Stored
  BY <1>6 DEF HandSave, Stored
<1>7. ASSUME NEW s \in Runs, RunStep(s)
      PROVE  UNCHANGED Stored
  BY <1>1, <1>7, RunFrame
<1>8. ASSUME PollReads \/ PollStats
      PROVE  UNCHANGED Stored
  BY <1>1, <1>8 DEF PollReads, PollStats, files
<1>9. QED
  BY <1>2, <1>3, <1>4, <1>5, <1>6, <1>7, <1>8 DEF Next, CommandStep, Procs

\* Commands on one config file take effect one after the other, each on what
\* the one before it left, for any number of commands and files.
THEOREM EditsAreAtomic == Spec => ImplementsConfigStore
<1>1. Init => EditInv
  BY EditInit
<1>2. TypeOK /\ EditInv /\ [Next]_vars => EditInv'
  BY EditNext
<1>3. Init => Store!SInit
  BY DEF Init, Store!SInit, NoInputs, Watched, Layers
<1>4. TypeOK /\ EditInv /\ [Next]_vars
        => [Store!SNext]_([l \in Watched |-> IF "hand" \in env THEN {} ELSE config[l]])
  BY StepIsEdit DEF Stored
<1>5. QED
  BY <1>1, <1>2, <1>3, <1>4, PipelineTypeCorrect, PTL
     DEF Spec, ImplementsConfigStore, Store!SSpec

-----------------------------------------------------------------------------
(***************************************************************************)
(* Reports hold while compiles do not overlap                              *)
(*                                                                         *)
(* A compile reads the files without a lock, so that what it has read may  *)
(* be stale when it renames.  The argument is that a file which changes    *)
(* under a compile is not a reported one: an editing command reports after *)
(* its own compile, and that one would overlap.                            *)
(***************************************************************************)
Active(p) == comp[p].pc # "off"

HasRead(p, l) ==
    \/ comp[p].pc \in {"gate", "open", "write", "rename", "remove"}
    \/ comp[p].pc = "read" /\ \E n \in 1..3 : n < comp[p].next /\ Order[n] = l

\* What p has read is current for each file whose change has been reported, or
\* will have been when p returns; and the temporary file is its own.
Accurate(p) ==
    /\ \A l \in Layers :
        HasRead(p, l) /\ author[l] \in acked \cup ({p} \cap Cmds)
            => comp[p].in[l] = config[l]
    /\ comp[p].pc = "write" => comp[p].fd = "tmp" /\ tmp = Emptied
    /\ comp[p].pc = "rename" => tmp = Compiled(comp[p].in)

SerialInv ==
    /\ \A c \in acked : cmd[c].pc = "done"
    /\ ~overlapped =>
        /\ \A p, q \in Procs : Active(p) /\ Active(q) => p = q
        /\ \A p \in Procs : Active(p) => Accurate(p)
        /\ \A l \in Layers : Reported(l) => InPolicy(l)

LEMMA SerialInit == Init => SerialInv
BY PipelineAssumption DEF Init, SerialInv, Active, NoCompile, Reported, Procs

\* Nothing reported has changed.
ReportedStay == \A l \in Layers :
    author'[l] \in acked \cup Cmds => author'[l] = author[l] /\ config'[l] = config[l]

DoneStay == \A c \in acked : cmd'[c].pc = "done"

\* Steps that start no compile, and at most cut one short.
LEMMA QuietSerial ==
    ASSUME TypeOK, SerialInv, UNCHANGED <<dest, tmp, acked, overlapped>>,
           \A p \in Procs : comp'[p] \in {comp[p], NoCompile},
           ReportedStay, DoneStay
    PROVE  SerialInv'
<1>1. \A c \in acked' : cmd'[c].pc = "done"
  BY DEF DoneStay
<1>2. NoCompile.pc = "off"
  BY DEF NoCompile
<1>3. ASSUME NEW p \in Procs, Active(p)'
      PROVE  Active(p) /\ comp'[p] = comp[p]
  BY <1>2, <1>3 DEF Active
<1>4. ASSUME ~overlapped, NEW p \in Procs, Active(p)'
      PROVE  Accurate(p)'
  <2>1. Accurate(p) /\ comp'[p] = comp[p]
    BY <1>3, <1>4 DEF SerialInv
  <2>2. \A l \in Layers : HasRead(p, l)' <=> HasRead(p, l)
    BY <2>1 DEF HasRead
  <2>3. ASSUME NEW l \in Layers, HasRead(p, l)', author'[l] \in acked' \cup ({p} \cap Cmds)
        PROVE  comp'[p].in[l] = config'[l]
    <3>1. author'[l] = author[l] /\ config'[l] = config[l]
      BY <2>3 DEF ReportedStay
    <3>2. QED
      BY <3>1, <2>1, <2>2, <2>3 DEF Accurate
  <2>4. QED
    BY <2>1, <2>3 DEF Accurate
<1>5. ASSUME ~overlapped, NEW l \in Layers, Reported(l)'
      PROVE  InPolicy(l)'
  <2>1. author'[l] = author[l] /\ config'[l] = config[l]
    BY <1>5 DEF Reported, ReportedStay
  <2>2. QED
    BY <1>5, <2>1 DEF Reported, InPolicy, SerialInv
<1>6. QED
  BY <1>1, <1>3, <1>4, <1>5 DEF SerialInv

\* Steps that start a compile.
LEMMA BeginSerial ==
    ASSUME TypeOK, SerialInv, NEW p \in Procs, BeginCompile(p),
           UNCHANGED <<dest, tmp, acked>>, DoneStay,
           \A l \in Layers : author'[l] \in acked
                => author'[l] = author[l] /\ config'[l] = config[l]
    PROVE  SerialInv'
<1>1. \A c \in acked' : cmd'[c].pc = "done"
  BY DEF DoneStay
<1>2. ASSUME ~overlapped'
      PROVE  ~overlapped /\ \A q \in Procs \ {p} : ~Active(q)'
  BY <1>2 DEF BeginCompile, Active, TypeOK, Procs
<1>3. Accurate(p)'
  <2>1. comp'[p].pc = "read" /\ comp'[p].next = 1
    BY DEF BeginCompile, TypeOK, NoCompile, Procs
  <2>2. \A l \in Layers : ~HasRead(p, l)'
    BY <2>1 DEF HasRead
  <2>3. QED
    BY <2>1, <2>2 DEF Accurate
<1>4. ASSUME ~overlapped, NEW l \in Layers, Reported(l)'
      PROVE  InPolicy(l)'
  BY <1>4 DEF Reported, InPolicy, SerialInv
<1>5. QED
  BY <1>1, <1>2, <1>3, <1>4 DEF SerialInv

\* What a compile step leaves to the others.
LEMMA CompileOthers ==
    ASSUME TypeOK, NEW p \in Procs, CompileStep(p)
    PROVE  /\ UNCHANGED <<config, author, overlapped>>
           /\ Active(p)
           /\ \A q \in Procs \ {p} : comp'[q].pc = comp[q].pc
<1>1. UNCHANGED <<config, author, overlapped>> /\ Active(p)
  BY DEF CompileStep, ReadLayer, ReadFails, GateHit, GateMiss, BuildFails, OpenTmp, WriteTmp,
       RenameTmp, RenameFails, RemoveTmp, files, history, Active
<1>2. ASSUME NEW q \in Procs, q # p
      PROVE  comp'[q].pc = comp[q].pc
  <2>0. comp[q] \in Compilation /\ q \in Cmds \cup Runs
    BY DEF TypeOK, Procs
  <2>1. CASE RenameTmp(p) \/ RemoveTmp(p)
    BY <1>2, <2>0, <2>1 DEF RenameTmp, RemoveTmp, Compilation
  <2>2. CASE ~(RenameTmp(p) \/ RemoveTmp(p))
    BY <1>2, <2>0, <2>2 DEF CompileStep, ReadLayer, ReadFails, GateHit, GateMiss, BuildFails,
         OpenTmp, WriteTmp, RenameFails, EndCompile, TypeOK
  <2>3. QED
    BY <2>1, <2>2
<1>3. QED
  BY <1>1, <1>2

LEMMA ReturnFacts ==
    ASSUME TypeOK, NEW p \in Procs, NEW ok \in BOOLEAN, Return(p, ok),
           \A c \in acked : cmd[c].pc = "done"
    PROVE  /\ \A c \in acked' : cmd'[c].pc = "done"
           /\ acked' \subseteq acked \cup ({p} \cap Cmds)
           /\ ~ok => acked' = acked
<1>1. Ended.pc = "done"
  BY DEF Ended, NoCommand
<1>2. CASE /\ p \in Cmds
           /\ cmd' = [cmd EXCEPT ![p] = Ended]
           /\ acked' = IF ok THEN acked \cup {p} ELSE acked
  BY <1>1, <1>2 DEF TypeOK
<1>3. CASE p \in Runs /\ UNCHANGED <<cmd, acked>>
  BY <1>3
<1>4. QED
  BY <1>2, <1>3 DEF Return

LEMMA CompileSerial ==
    ASSUME TypeOK, SerialInv, NEW p \in Procs, CompileStep(p)
    PROVE  SerialInv'
<1>0. /\ comp[p] \in Compilation /\ comp[p].in \in Inputs /\ p \in Cmds \cup Runs
      /\ acked \subseteq Cmds
  BY DEF TypeOK, Compilation, Procs
<1>a. \A i \in Inputs : Compiled(i).state = "whole" /\ Compiled(i).in = i
  BY DEF Compiled
<1>b. NoCompile.pc = "off"
  BY DEF NoCompile
<1>1. \A c \in acked' : cmd'[c].pc = "done"
  <2>1. CASE ReadLayer(p) \/ GateMiss(p) \/ OpenTmp(p) \/ WriteTmp(p) \/ RenameFails(p)
    BY <2>1 DEF ReadLayer, GateMiss, OpenTmp, WriteTmp, RenameFails, procs, history, SerialInv
  <2>2. CASE ReadFails(p) \/ GateHit(p) \/ BuildFails(p) \/ RenameTmp(p) \/ RemoveTmp(p)
    <3>1. PICK ok \in BOOLEAN : Return(p, ok)
      BY <2>2 DEF ReadFails, GateHit, BuildFails, RenameTmp, RemoveTmp, EndCompile
    <3>2. QED
      BY <3>1, ReturnFacts DEF SerialInv
  <2>3. QED
    BY <2>1, <2>2 DEF CompileStep
<1>2. SUFFICES ASSUME ~overlapped
               PROVE  /\ Active(p)' => Accurate(p)'
                      /\ \A l \in Layers : Reported(l)' => InPolicy(l)'
  <2>1. ASSUME ~overlapped, NEW q \in Procs, q # p
        PROVE  ~Active(q)'
    BY <2>1, CompileOthers DEF SerialInv, Active
  <2>2. QED
    BY <1>1, <2>1, CompileOthers DEF SerialInv
<1>3. /\ Accurate(p)
      /\ \A l \in Layers : Reported(l) => InPolicy(l)
      /\ UNCHANGED <<config, author>>
  BY <1>2, CompileOthers DEF SerialInv
<1>4. CASE ReadLayer(p)
  <2>1. PICK n \in 1..3 : n = comp[p].next /\ Order[n] \in Layers
    BY <1>0, OrderFacts DEF Compilation
  <2>2. /\ comp'[p].in = [comp[p].in EXCEPT ![Order[n]] = config[Order[n]]]
        /\ comp[p].pc = "read" /\ comp'[p].pc = IF n < 3 THEN "read" ELSE "gate"
        /\ comp'[p].next = IF n < 3 THEN n + 1 ELSE 1
        /\ UNCHANGED <<acked, dest, tmp>>
    BY <1>0, <1>4, <2>1, OrderFacts DEF ReadLayer, TypeOK, Compilation, artifacts, history
  <2>3. ASSUME NEW l \in Layers, HasRead(p, l)', l # Order[n]
        PROVE  HasRead(p, l)
    <3>1. PICK k \in 1..3 : Order[k] = l
      BY OrderFacts
    <3>2. k < n
      <4>1. CASE n < 3
        <5>1. PICK m \in 1..3 : m < n + 1 /\ Order[m] = l
          BY <2>2, <2>3, <4>1 DEF HasRead
        <5>2. QED
          BY <2>3, <3>1, <5>1 DEF Order
      <4>2. CASE n = 3
        BY <2>3, <3>1, <4>2
      <4>3. QED
        BY <4>1, <4>2
    <3>3. QED
      BY <2>1, <2>2, <3>1, <3>2 DEF HasRead
  <2>4. ASSUME NEW l \in Layers, HasRead(p, l)', author[l] \in acked \cup ({p} \cap Cmds)
        PROVE  comp'[p].in[l] = config[l]
    <3>1. CASE l = Order[n]
      BY <1>0, <2>2, <3>1 DEF Inputs
    <3>2. CASE l # Order[n]
      <4>1. comp[p].in[l] = config[l]
        BY <1>3, <2>3, <2>4, <3>2 DEF Accurate
      <4>2. QED
        BY <1>0, <2>2, <3>2, <4>1 DEF Inputs
    <3>3. QED
      BY <3>1, <3>2
  <2>5. Accurate(p)'
    BY <1>3, <2>2, <2>4 DEF Accurate
  <2>6. QED
    BY <1>3, <2>2, <2>5 DEF Reported, InPolicy
<1>5. CASE ReadFails(p) \/ BuildFails(p) \/ RemoveTmp(p)
  <2>1. Return(p, FALSE) /\ dest' = dest
    BY <1>5 DEF ReadFails, BuildFails, RemoveTmp, EndCompile, artifacts
  <2>2. acked' = acked
    BY <2>1, ReturnFacts DEF SerialInv
  <2>3. ~Active(p)'
    BY <1>0, <1>5, <1>b DEF ReadFails, BuildFails, RemoveTmp, EndCompile, Active, TypeOK
  <2>4. QED
    BY <1>3, <2>1, <2>2, <2>3 DEF Reported, InPolicy
<1>6. CASE GateHit(p) \/ RenameTmp(p)
  <2>1. Return(p, TRUE) /\ comp[p].pc \in {"gate", "rename"}
    BY <1>6 DEF GateHit, RenameTmp, EndCompile
  <2>2. dest' = Compiled(comp[p].in)
    <3>1. CASE GateHit(p)
      BY <3>1 DEF GateHit, CacheHit, artifacts
    <3>2. CASE RenameTmp(p)
      BY <1>3, <3>2 DEF RenameTmp, Accurate
    <3>3. QED
      BY <1>6, <3>1, <3>2
  <2>3. ~Active(p)'
    BY <1>0, <1>6, <1>b DEF GateHit, RenameTmp, EndCompile, Active, TypeOK
  <2>4. ASSUME NEW l \in Layers, Reported(l)'
        PROVE  InPolicy(l)'
    <3>1. author[l] \in acked \cup ({p} \cap Cmds)
      BY <1>3, <2>1, <2>4, ReturnFacts DEF Reported, SerialInv
    <3>2. comp[p].in[l] = config[l]
      BY <1>3, <2>1, <3>1 DEF Accurate, HasRead
    <3>3. QED
      BY <1>0, <1>a, <1>3, <2>2, <3>2 DEF InPolicy
  <2>5. QED
    BY <2>3, <2>4
<1>7. CASE GateMiss(p) \/ OpenTmp(p) \/ WriteTmp(p) \/ RenameFails(p)
  <2>1. /\ comp[p].pc \in {"gate", "open", "write", "rename"}
        /\ acked' = acked
    BY <1>7 DEF GateMiss, OpenTmp, WriteTmp, RenameFails, history
  <2>2. comp'[p].in = comp[p].in
    <3>1. CASE GateMiss(p)
      BY <1>0, <3>1 DEF GateMiss, TypeOK, Compilation
    <3>2. CASE OpenTmp(p)
      BY <1>0, <3>2 DEF OpenTmp, TypeOK, Compilation
    <3>3. CASE RenameFails(p)
      BY <1>0, <3>3 DEF RenameFails, TypeOK, Compilation
    <3>4. CASE WriteTmp(p)
      BY <1>0, <3>4 DEF WriteTmp, TypeOK, Compilation
    <3>5. QED
      BY <1>7, <3>1, <3>2, <3>3, <3>4
  <2>3. \A l \in Layers : author[l] \in acked \cup ({p} \cap Cmds) => comp[p].in[l] = config[l]
    BY <1>3, <2>1 DEF Accurate, HasRead
  <2>4. /\ dest' = dest
        /\ comp'[p].pc = "write" => comp'[p].fd = "tmp" /\ tmp' = Emptied
        /\ comp'[p].pc = "rename" => tmp' = Compiled(comp[p].in)
    <3>1. CASE GateMiss(p) \/ RenameFails(p)
      BY <1>0, <3>1 DEF GateMiss, RenameFails, TypeOK, Compilation, artifacts
    <3>2. CASE OpenTmp(p)
      BY <1>0, <3>2 DEF OpenTmp, TypeOK, Compilation
    <3>3. CASE WriteTmp(p)
      <4>1. comp[p].fd = "tmp" /\ tmp.state = "empty"
        BY <1>3, <3>3 DEF WriteTmp, Accurate, Emptied
      <4>2. dest' = dest /\ tmp' = Compiled(comp[p].in)
        BY <3>3, <4>1 DEF WriteTmp, Written
      <4>3. comp'[p].pc = "rename"
        BY <1>0, <3>3 DEF WriteTmp, TypeOK, Compilation
      <4>4. QED
        BY <4>2, <4>3
    <3>4. QED
      BY <1>7, <3>1, <3>2, <3>3
  <2>5. Accurate(p)'
    BY <1>3, <2>1, <2>2, <2>3, <2>4 DEF Accurate
  <2>6. QED
    BY <1>3, <2>1, <2>4, <2>5 DEF Reported, InPolicy
<1>8. QED
  BY <1>4, <1>5, <1>6, <1>7 DEF CompileStep

LEMMA CommandSerial ==
    ASSUME TypeOK, SerialInv, NEW c \in Cmds, CommandStep(c) \/ KillCommand(c)
    PROVE  SerialInv'
<1>1. DoneStay
  <2>1. CASE KillCommand(c)
    BY <2>1 DEF KillCommand, DoneStay, SerialInv, TypeOK, Ended, NoCommand
  <2>2. CASE CommandStep(c)
    <3>1. cmd[c].pc # "done" /\ \A d \in Cmds \ {c} : cmd'[d] = cmd[d]
      BY <2>2 DEF CommandStep, BeginEdit, WriteConfig, BeginUnlocked, TypeOK
    <3>2. QED
      BY <3>1 DEF DoneStay, SerialInv, TypeOK
  <2>3. QED
    BY <2>1, <2>2
<1>2. CASE BeginEdit(c) \/ KillCommand(c)
  <2>1. ReportedStay /\ UNCHANGED <<dest, tmp, acked, overlapped>>
    BY <1>2 DEF BeginEdit, KillCommand, files, artifacts, history, ReportedStay
  <2>2. \A p \in Procs : comp'[p] \in {comp[p], NoCompile}
    BY <1>2 DEF BeginEdit, KillCommand, TypeOK, Procs
  <2>3. QED
    BY <1>1, <2>1, <2>2, QuietSerial
<1>3. CASE WriteConfig(c)
  <2>1. c \notin acked
    BY <1>3 DEF WriteConfig, SerialInv
  <2>2. \A l \in Layers : author'[l] \in acked
            => author'[l] = author[l] /\ config'[l] = config[l]
    BY <1>3, <2>1 DEF WriteConfig, TypeOK, Inputs
  <2>3. BeginCompile(c) /\ UNCHANGED <<dest, tmp, acked>>
    BY <1>3 DEF WriteConfig, artifacts
  <2>4. QED
    BY <1>1, <2>2, <2>3, BeginSerial DEF Procs
<1>4. CASE BeginUnlocked(c)
  <2>1. BeginCompile(c) /\ UNCHANGED <<dest, tmp, acked, author, config>>
    BY <1>4 DEF BeginUnlocked, files, artifacts
  <2>2. QED
    BY <1>1, <2>1, BeginSerial DEF Procs
<1>5. QED
  BY <1>2, <1>3, <1>4 DEF CommandStep

LEMMA HandSerial ==
    ASSUME TypeOK, SerialInv, HandSave
    PROVE  SerialInv'
<1>1. ReportedStay
  <2>1. PICK f \in Watched, text \in SUBSET Rules :
          config' = [config EXCEPT ![f] = text] /\ author' = [author EXCEPT ![f] = 0]
    BY DEF HandSave
  <2>2. QED
    BY <2>1, PipelineAssumption DEF ReportedStay, TypeOK, Inputs
<1>2. /\ UNCHANGED <<dest, tmp, acked, overlapped>> /\ DoneStay
      /\ \A p \in Procs : comp'[p] \in {comp[p], NoCompile}
  BY DEF HandSave, artifacts, DoneStay, SerialInv
<1>3. QED
  BY <1>1, <1>2, QuietSerial

LEMMA RunSerial ==
    ASSUME TypeOK, SerialInv, NEW s \in Runs, RunStep(s)
    PROVE  SerialInv'
<1>1. DoneStay /\ UNCHANGED <<dest, tmp, acked>>
  BY RunFrame DEF RunStep, StartRun, AttachRunning, AttachFirst, AttachFails, StartWatcher, Reload,
       StopWatcher, DetachOthersRemain, DetachLast, artifacts, history, DoneStay, SerialInv
<1>2. CASE StartRun(s) \/ Reload(s)
  <2>1. BeginCompile(s) /\ UNCHANGED <<author, config>>
    BY <1>2 DEF StartRun, Reload, files
  <2>2. QED
    BY <1>1, <2>1, BeginSerial DEF Procs
<1>3. CASE ~(StartRun(s) \/ Reload(s))
  <2>1. comp' = comp /\ overlapped' = overlapped
    BY <1>3 DEF RunStep, AttachRunning, AttachFirst, AttachFails, StartWatcher,
         StopWatcher, DetachOthersRemain, DetachLast, history
  <2>2. ReportedStay
    <3>1. CASE DetachLast(s)
      BY <3>1, PipelineAssumption DEF DetachLast, ReportedStay, TypeOK, Inputs
    <3>2. CASE ~DetachLast(s)
      BY <1>3, <3>2 DEF RunStep, AttachRunning, AttachFirst, AttachFails, StartWatcher,
           StopWatcher, DetachOthersRemain, history, files, ReportedStay
    <3>3. QED
      BY <3>1, <3>2
  <2>3. QED
    BY <1>1, <2>1, <2>2, QuietSerial
<1>4. QED
  BY <1>2, <1>3

LEMMA SerialNext ==
    ASSUME TypeOK, SerialInv, [Next]_vars
    PROVE  SerialInv'
<1>1. CASE UNCHANGED vars \/ PollReads \/ PollStats
  <2>1. UNCHANGED <<config, author, dest, tmp, acked, overlapped, comp, cmd>>
    BY <1>1 DEF vars, PollReads, PollStats, files, artifacts, procs, history
  <2>2. ReportedStay /\ DoneStay /\ \A p \in Procs : comp'[p] \in {comp[p], NoCompile}
    BY <2>1 DEF ReportedStay, DoneStay, SerialInv
  <2>3. QED
    BY <2>1, <2>2, QuietSerial
<1>2. CASE Next /\ ~(PollReads \/ PollStats)
  BY <1>2, CompileSerial, CommandSerial, HandSerial, RunSerial DEF Next, Procs
<1>3. QED
  BY <1>1, <1>2

\* What a command reported as recompiled is in policy.json for as long as its
\* file stays as it is, if compiles never overlap; other writers, failures,
\* kills and editors are allowed.
THEOREM SerialReportsCorrect == Spec => []SerialReportsHold
<1>1. Init => SerialInv
  BY SerialInit
<1>2. TypeOK /\ SerialInv /\ [Next]_vars => SerialInv'
  BY SerialNext
<1>3. SerialInv => SerialReportsHold
  BY DEF SerialInv, SerialReportsHold
<1>4. QED
  BY <1>1, <1>2, <1>3, PipelineTypeCorrect, PTL DEF Spec
=============================================================================
