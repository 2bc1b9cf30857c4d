--------------------------- MODULE PolicyPipeline ---------------------------
(***************************************************************************)
(* How a rule gets from a config file into the proxy: the editing commands *)
(* (internal/cli/mutate.go), the compiler and its artifact policy.json     *)
(* (internal/policy/compile), the watcher of each running session          *)
(* (internal/configwatch) and the enforcer's reload                        *)
(* (internal/proxy/enforcer/enforcer.py).                                  *)
(*                                                                         *)
(* Commands that edit a config file hold that file's lock until they have  *)
(* recompiled; a session's first compile, its watcher, `policy show` and   *)
(* `policy refresh` compile without any lock, and commands on different    *)
(* files hold different locks.  All of them write policy.json through the  *)
(* same temporary name.  A compile is one step per file it reads, one for  *)
(* the cache gate and the generators, and one each for opening, writing    *)
(* and renaming the temporary file.                                        *)
(***************************************************************************)
EXTENDS Integers, Sequences, FiniteSets

CONSTANTS
    Cmds,       \* command invocations, each executed at most once
    Runs,       \* `agent-creance run` invocations, likewise
    Rules,      \* egress rules
    RuleOf,     \* bound: the one rule each command may add
    MaxHands,   \* bound: saves by a developer's editor
    Scenarios   \* which things happen, one set per scenario

EnvKinds ==
    {"project",   \* commands edit the project file
     "global",    \* ... the global file (--global)
     "once",      \* ... the session overlay (--once)
     "remove",    \* commands also remove rules
     "show",      \* `policy show`, which compiles
     "refresh",   \* `policy refresh`, which compiles past the cache gate
     "session",   \* an agent is run
     "agents",    \* several agents are run
     "hand",      \* a developer saves a config file in an editor
     "fails",     \* a generator fails, or writing a file does
     "kill"}      \* a command is killed

ASSUME PipelineAssumption ==
    /\ Cmds \cap Runs = {}
    /\ 0 \notin Cmds \cup Rules
    /\ RuleOf \in [Cmds -> Rules]
    /\ MaxHands \in Nat
    /\ Scenarios \subseteq SUBSET EnvKinds

VARIABLES
    \* the config files: their rules, and which of them do not parse
    config, broken,
    \* policy.json and policy.json.tmp
    dest, tmp,
    \* the compile each process is in, if any
    comp,
    \* commands and runs
    cmd, sess,
    \* per run: its watcher's debounce timer is armed, or an event is queued
    event,
    \* mitmdump's addon
    enf,
    \* the scenario, fixed at the start; saves so far
    env, hands,
    \* history: the command that wrote each file's present content (0: none);
    \* commands that reported "policy recompiled"; contents each file has had
    \* that parse; rules a teardown purged with the overlay; whether two
    \* compiles were ever in progress together; whether policy.json ever
    \* changed between the enforcer's read and its stat
    author, acked, past, expired, overlapped, raced

files == <<config, broken>>
artifacts == <<dest, tmp>>
procs == <<cmd, sess, event>>
history == <<author, acked, past, expired, overlapped, raced>>
vars == <<files, artifacts, comp, procs, enf, env, hands, history>>

\* The layers in the order resolve() reads them.
Order == <<"global", "project", "overlay">>
Layers == {"global", "project", "overlay"}
\* The layers in a watcher's include graph, which are also those people edit.
Watched == {"global", "project"}

Inputs == [Layers -> SUBSET Rules]
NoInputs == [l \in Layers |-> {}]

\* A file that holds compiled policies.  "torn" is the tail of one policy
\* after the text of another.
Artifact == [state : {"none", "empty", "whole", "torn"}, in : Inputs]
NoFile == [state |-> "none", in |-> NoInputs]
Emptied == [state |-> "empty", in |-> NoInputs]
Garbled == [state |-> "torn", in |-> NoInputs]
Compiled(i) == [state |-> "whole", in |-> i]

\* fd is the name the opened temporary file has by now ("gone": none).
Compilation == [pc : {"off", "read", "gate", "open", "write", "rename", "remove"},
                next : 1..Len(Order), in : Inputs,
                fd : {"none", "tmp", "dest", "gone"}]
NoCompile == [pc |-> "off", next |-> 1, in |-> NoInputs, fd |-> "none"]

Command == [pc : {"idle", "write", "compile", "done"},
            op : {"none", "add", "remove", "show", "refresh"},
            layer : Layers, rule : Rules \cup {0}, text : SUBSET Rules]
NoCommand == [pc |-> "idle", op |-> "none", layer |-> "project",
              rule |-> 0, text |-> {}]
Ended == [NoCommand EXCEPT !.pc = "done"]

RunPhases == {"idle", "compiling", "compiled", "attached", "watching",
              "leaving", "done"}

Addon == [up : BOOLEAN, pc : {"poll", "stat"}, ruleset : Artifact,
          seen : BOOLEAN]
NoAddon == [up |-> FALSE, pc |-> "poll", ruleset |-> NoFile, seen |-> FALSE]

TypeOK ==
    /\ config \in Inputs
    /\ broken \subseteq Watched
    /\ dest \in Artifact
    /\ tmp \in Artifact
    /\ comp \in [Cmds \cup Runs -> Compilation]
    /\ cmd \in [Cmds -> Command]
    /\ sess \in [Runs -> RunPhases]
    /\ event \in [Runs -> BOOLEAN]
    /\ enf \in Addon
    /\ env \in Scenarios
    /\ hands \in 0..MaxHands
    /\ author \in [Layers -> Cmds \cup {0}]
    /\ acked \subseteq Cmds
    /\ past \in [Layers -> SUBSET SUBSET Rules]
    /\ expired \subseteq Rules
    /\ overlapped \in BOOLEAN
    /\ raced \in BOOLEAN

Init ==
    /\ config = NoInputs
    /\ broken = {}
    /\ dest = NoFile
    /\ tmp = NoFile
    /\ comp = [p \in Cmds \cup Runs |-> NoCompile]
    /\ cmd = [c \in Cmds |-> NoCommand]
    /\ sess = [s \in Runs |-> "idle"]
    /\ event = [s \in Runs |-> FALSE]
    /\ enf = NoAddon
    /\ env \in Scenarios
    /\ hands = 0
    /\ author = [l \in Layers |-> 0]
    /\ acked = {}
    /\ past = [l \in Layers |-> {{}}]
    /\ expired = {}
    /\ overlapped = FALSE
    /\ raced = FALSE

-----------------------------------------------------------------------------
(***************************************************************************)
(* A compile (Compiler.Compile and Refresh) of process p.                  *)
(***************************************************************************)
BeginCompile(p) ==
    /\ comp' = [comp EXCEPT ![p] = [NoCompile EXCEPT !.pc = "read"]]
    /\ overlapped' = (overlapped \/ \E q \in (Cmds \cup Runs) \ {p} :
                                        comp[q].pc # "off")

\* Mistake: after a reload the loop throws away what has been queued since.
Slip_DrainEvents(p, ok) ==
    \/ /\ p \in Cmds
       /\ cmd' = [cmd EXCEPT ![p] = Ended]
       /\ acked' = IF ok THEN acked \cup {p} ELSE acked
       /\ UNCHANGED <<sess, event>>
    \/ /\ p \in Runs
       /\ sess' = [sess EXCEPT ![p] = CASE @ # "compiling" -> @
                                        [] ok -> "compiled"
                                        [] OTHER -> "done"]
       /\ event' = [event EXCEPT ![p] = FALSE]
       /\ UNCHANGED <<cmd, acked>>

\* What the process does when its compile returns.  A command reports and
\* ends, which releases its lock; a run goes on or gives up; a watcher
\* prints a line.
Return(p, ok) ==
    \/ /\ p \in Cmds
       /\ cmd' = [cmd EXCEPT ![p] = Ended]
       /\ acked' = IF ok THEN acked \cup {p} ELSE acked
       /\ UNCHANGED <<sess, event>>
    \/ /\ p \in Runs
       /\ sess' = [sess EXCEPT ![p] = CASE @ # "compiling" -> @
                                        [] ok -> "compiled"
                                        [] OTHER -> "done"]
       /\ UNCHANGED <<cmd, event, acked>>

EndCompile(p, ok) ==
    /\ comp' = [comp EXCEPT ![p] = NoCompile]
    /\ Return(p, ok)

\* Mistake: the cursor runs past the last layer.
Slip_PastLast(p) ==
    LET n == comp[p].next
    IN  /\ comp[p].pc = "read"
        /\ Order[n] \notin broken
        /\ comp' = [comp EXCEPT ![p].in[Order[n]] = config[Order[n]],
                                ![p].next = n + 1,
                                ![p].pc = IF n < Len(Order) THEN @ ELSE "gate"]
        /\ UNCHANGED <<files, artifacts, procs, enf, env, hands, history>>

\* resolve(): one layer after the other, without locks.
ReadLayer(p) ==
    LET n == comp[p].next
        l == Order[n]
    IN  /\ comp[p].pc = "read"
        /\ l \notin broken
        /\ comp' = [comp EXCEPT ![p].in[l] = config[l],
                                ![p].next = IF n < Len(Order) THEN n + 1 ELSE 1,
                                ![p].pc = IF n < Len(Order) THEN @ ELSE "gate"]
        /\ UNCHANGED <<files, artifacts, procs, enf, env, hands, history>>

ReadFails(p) ==
    /\ comp[p].pc = "read"
    /\ Order[comp[p].next] \in broken
    /\ EndCompile(p, FALSE)
    /\ UNCHANGED <<files, artifacts, enf, env, hands,
                   author, past, expired, overlapped, raced>>

Forced(p) == p \in Cmds /\ cmd[p].op = "refresh"

\* Mistake: any artifact of the right version is a hit.
Slip_NoHash(p) == ~Forced(p) /\ dest.state = "whole"

CacheHit(p) == ~Forced(p) /\ dest = Compiled(comp[p].in)

GateHit(p) ==
    /\ comp[p].pc = "gate"
    /\ CacheHit(p)
    /\ EndCompile(p, TRUE)
    /\ UNCHANGED <<files, artifacts, enf, env, hands,
                   author, past, expired, overlapped, raced>>

\* The cache gate misses; what follows runs the generators and may take long.
GateMiss(p) ==
    /\ comp[p].pc = "gate"
    /\ ~CacheHit(p)
    /\ comp' = [comp EXCEPT ![p].pc = "open"]
    /\ UNCHANGED <<files, artifacts, procs, enf, env, hands, history>>

\* A generator or the write fails; the temporary file stays as it is.
BuildFails(p) ==
    /\ "fails" \in env
    /\ comp[p].pc \in {"open", "write"}
    /\ EndCompile(p, FALSE)
    /\ UNCHANGED <<files, artifacts, enf, env, hands,
                   author, past, expired, overlapped, raced>>

\* os.WriteFile opens (creating or truncating) ...
OpenTmp(p) ==
    /\ comp[p].pc = "open"
    /\ tmp' = Emptied
    /\ comp' = [comp EXCEPT ![p].pc = "write", ![p].fd = "tmp"]
    /\ UNCHANGED <<files, dest, procs, enf, env, hands, history>>

\* Writing a policy into a file: over a longer one, the old tail remains.
Written(file, i) ==
    {Compiled(i)} \cup
        (IF file.state = "empty" \/ file = Compiled(i) THEN {} ELSE {Garbled})

\* Mistake: mtimes are compared in whole seconds.
Slip_WholeSeconds ==
    /\ enf' \in {enf, [enf EXCEPT !.seen = FALSE]}
    /\ raced' = (raced \/ enf.pc = "stat")

\* policy.json changes: its mtime is new to the enforcer.
DestChanges ==
    /\ enf' = [enf EXCEPT !.seen = FALSE]
    /\ raced' = (raced \/ enf.pc = "stat")

\* ... and writes, wherever the file it opened is by now.
WriteTmp(p) ==
    /\ comp[p].pc = "write"
    /\ comp' = [comp EXCEPT ![p].pc = "rename", ![p].fd = "none"]
    /\ \/ /\ comp[p].fd = "tmp"
          /\ tmp' \in Written(tmp, comp[p].in)
          /\ UNCHANGED <<dest, enf, raced>>
       \/ /\ comp[p].fd = "dest"
          /\ dest' \in Written(dest, comp[p].in)
          /\ DestChanges
          /\ UNCHANGED tmp
       \/ /\ comp[p].fd = "gone"
          /\ UNCHANGED <<dest, tmp, enf, raced>>
    /\ UNCHANGED <<files, procs, env, hands,
                   author, acked, past, expired, overlapped>>

\* The names of the open temporary files after one of them is moved or removed.
Moved(fd) == CASE fd = "tmp" -> "dest" [] fd = "dest" -> "gone" [] OTHER -> fd
Dropped(fd) == IF fd = "tmp" THEN "gone" ELSE fd

RenameTmp(p) ==
    /\ comp[p].pc = "rename"
    /\ tmp # NoFile
    /\ dest' = tmp
    /\ tmp' = NoFile
    /\ DestChanges
    /\ comp' = [q \in Cmds \cup Runs |->
                    IF q = p THEN NoCompile
                             ELSE [comp[q] EXCEPT !.fd = Moved(@)]]
    /\ Return(p, TRUE)
    /\ UNCHANGED <<files, env, hands, author, past, expired, overlapped>>

\* Another process has renamed or removed the temporary file, or the rename
\* fails for a reason of its own.
RenameFails(p) ==
    /\ comp[p].pc = "rename"
    /\ tmp = NoFile \/ "fails" \in env
    /\ comp' = [comp EXCEPT ![p].pc = "remove"]
    /\ UNCHANGED <<files, artifacts, procs, enf, env, hands, history>>

\* ... and the clean-up removes whoever's temporary file is there now.
RemoveTmp(p) ==
    /\ comp[p].pc = "remove"
    /\ tmp' = NoFile
    /\ comp' = [q \in Cmds \cup Runs |->
                    IF q = p THEN NoCompile
                             ELSE [comp[q] EXCEPT !.fd = Dropped(@)]]
    /\ Return(p, FALSE)
    /\ UNCHANGED <<files, dest, enf, env, hands,
                   author, past, expired, overlapped, raced>>

CompileStep(p) ==
    \/ ReadLayer(p) \/ ReadFails(p) \/ GateHit(p) \/ GateMiss(p)
    \/ BuildFails(p) \/ OpenTmp(p) \/ WriteTmp(p)
    \/ RenameTmp(p) \/ RenameFails(p) \/ RemoveTmp(p)

-----------------------------------------------------------------------------
(***************************************************************************)
(* Commands.  allow, deny, domain, credential, include and import are      *)
(* applyAndRecompile with one edit or another.                             *)
(***************************************************************************)
\* Each layer is the target of edits if the scenario says so.
Targets == {l \in Layers :
    CASE l = "overlay" -> "once" \in env [] OTHER -> l \in env}

Edits == {"add"} \cup (IF "remove" \in env THEN {"remove"} ELSE {})

\* Mistake: the lock is taken on the file that the rename replaces.
Slip_LockOnConfig(l) == FALSE

LockHeld(l) == \E c \in Cmds : cmd[c].layer = l /\ cmd[c].op \in {"add", "remove"}

Edited(op, text, r) == IF op = "add" THEN text \cup {r} ELSE text \ {r}

\* Lock the file, read it and apply the edit.  A file that does not parse,
\* or an edit that changes nothing, ends the command.
BeginEdit(c) ==
    /\ cmd[c].pc = "idle"
    /\ \E l \in Targets, op \in Edits, r \in Rules :
        /\ ~LockHeld(l)
        /\ op = "add" => r = RuleOf[c]
        /\ cmd' = [cmd EXCEPT ![c] =
             IF l \in broken \/ Edited(op, config[l], r) = config[l]
             THEN Ended
             ELSE [pc |-> "write", op |-> op, layer |-> l, rule |-> r,
                   text |-> Edited(op, config[l], r)]]
    /\ UNCHANGED <<files, artifacts, comp, sess, event, enf, env, hands,
                   history>>

\* Watchers of the file's directory see the rename.
Notify(l) == event' = [s \in Runs |->
    event[s] \/ (l \in Watched /\ sess[s] = "watching")]

\* Replace the file and start compiling, still under the lock.
WriteConfig(c) ==
    LET l == cmd[c].layer
    IN  /\ cmd[c].pc = "write"
        /\ config' = [config EXCEPT ![l] = cmd[c].text]
        /\ broken' = broken \ {l}
        /\ author' = [author EXCEPT ![l] = c]
        /\ past' = [past EXCEPT ![l] = @ \cup {cmd[c].text}]
        /\ expired' = IF l = "overlay" /\ cmd[c].op = "add"
                      THEN expired \ {cmd[c].rule} ELSE expired
        /\ cmd' = [cmd EXCEPT ![c].pc = "compile", ![c].rule = 0,
                                  ![c].text = {}]
        /\ Notify(l)
        /\ BeginCompile(c)
        /\ UNCHANGED <<artifacts, sess, enf, env, hands, acked, raced>>

\* `policy show` and `policy refresh` take no lock.
BeginUnlocked(c) ==
    /\ cmd[c].pc = "idle"
    /\ \E op \in {"show", "refresh"} \cap env :
        cmd' = [cmd EXCEPT ![c].pc = "compile", ![c].op = op]
    /\ BeginCompile(c)
    /\ UNCHANGED <<files, artifacts, sess, event, enf, env, hands,
                   author, acked, past, expired, raced>>

\* SIGKILL: the kernel drops the lock and closes the files.
KillCommand(c) ==
    /\ "kill" \in env
    /\ cmd[c].pc \in {"write", "compile"}
    /\ cmd' = [cmd EXCEPT ![c] = Ended]
    /\ comp' = [comp EXCEPT ![c] = NoCompile]
    /\ UNCHANGED <<files, artifacts, sess, event, enf, env, hands, history>>

CommandStep(c) == BeginEdit(c) \/ WriteConfig(c) \/ BeginUnlocked(c)

\* A developer saves a file, which may or may not parse, by renaming.
HandSave ==
    /\ "hand" \in env
    /\ hands < MaxHands
    /\ hands' = hands + 1
    /\ \E l \in Watched, text \in SUBSET Rules, ok \in BOOLEAN :
        /\ config' = [config EXCEPT ![l] = text]
        /\ broken' = IF ok THEN broken \ {l} ELSE broken \cup {l}
        /\ author' = [author EXCEPT ![l] = 0]
        /\ past' = IF ok THEN [past EXCEPT ![l] = @ \cup {text}] ELSE past
        /\ Notify(l)
    /\ UNCHANGED <<artifacts, comp, cmd, sess, enf, env,
                   acked, expired, overlapped, raced>>

-----------------------------------------------------------------------------
(***************************************************************************)
(* Runs and their watchers.  What Attach and Detach do to processes, ports *)
(* and the lock file is ProxyLifecycle's subject; here they start and stop *)
(* the enforcer and purge the overlay.                                     *)
(***************************************************************************)
InSession == {s \in Runs : sess[s] \in {"attached", "watching", "leaving"}}

StartRun(s) ==
    /\ sess[s] = "idle"
    /\ \/ "agents" \in env
       \/ "session" \in env /\ s = CHOOSE q \in Runs : TRUE
    /\ sess' = [sess EXCEPT ![s] = "compiling"]
    /\ BeginCompile(s)
    /\ UNCHANGED <<files, artifacts, cmd, event, enf, env, hands,
                   author, acked, past, expired, raced>>

AttachRunning(s) ==
    /\ sess[s] = "compiled"
    /\ InSession # {}
    /\ sess' = [sess EXCEPT ![s] = "attached"]
    /\ UNCHANGED <<files, artifacts, comp, cmd, event, enf, env, hands,
                   history>>

\* A new proxy loads policy.json in configure(), ...
AttachFirst(s) ==
    /\ sess[s] = "compiled"
    /\ InSession = {}
    /\ dest.state = "whole"
    /\ sess' = [sess EXCEPT ![s] = "attached"]
    /\ enf' = [up |-> TRUE, pc |-> "stat", ruleset |-> dest, seen |-> FALSE]
    /\ UNCHANGED <<files, artifacts, comp, cmd, event, env, hands, history>>

\* ... and exits if it cannot.
AttachFails(s) ==
    /\ sess[s] = "compiled"
    /\ InSession = {}
    /\ dest.state # "whole"
    /\ sess' = [sess EXCEPT ![s] = "done"]
    /\ UNCHANGED <<files, artifacts, comp, cmd, event, enf, env, hands,
                   history>>

StartWatcher(s) ==
    /\ sess[s] = "attached"
    /\ sess' = [sess EXCEPT ![s] = "watching"]
    /\ UNCHANGED <<files, artifacts, comp, cmd, event, enf, env, hands,
                   history>>

\* The quiet period after the last event is over.
Reload(s) ==
    /\ sess[s] = "watching"
    /\ event[s]
    /\ comp[s].pc = "off"
    /\ event' = [event EXCEPT ![s] = FALSE]
    /\ BeginCompile(s)
    /\ UNCHANGED <<files, artifacts, cmd, sess, enf, env, hands,
                   author, acked, past, expired, raced>>

\* The agent has exited; Stop waits for a reload in progress.
StopWatcher(s) ==
    /\ sess[s] = "watching"
    /\ comp[s].pc = "off"
    /\ sess' = [sess EXCEPT ![s] = "leaving"]
    /\ event' = [event EXCEPT ![s] = FALSE]
    /\ UNCHANGED <<files, artifacts, comp, cmd, enf, env, hands, history>>

DetachOthersRemain(s) ==
    /\ sess[s] = "leaving"
    /\ InSession # {s}
    /\ sess' = [sess EXCEPT ![s] = "done"]
    /\ UNCHANGED <<files, artifacts, comp, cmd, event, enf, env, hands,
                   history>>

\* The last run out stops the proxy and purges the overlay, without the
\* overlay's config lock.
DetachLast(s) ==
    /\ sess[s] = "leaving"
    /\ InSession = {s}
    /\ sess' = [sess EXCEPT ![s] = "done"]
    /\ enf' = NoAddon
    /\ config' = [config EXCEPT !["overlay"] = {}]
    /\ expired' = expired \cup config["overlay"]
    /\ author' = [author EXCEPT !["overlay"] = 0]
    /\ UNCHANGED <<broken, artifacts, comp, cmd, event, env, hands,
                   acked, past, overlapped, raced>>

RunStep(s) ==
    \/ StartRun(s) \/ AttachRunning(s) \/ AttachFirst(s) \/ AttachFails(s)
    \/ StartWatcher(s) \/ Reload(s) \/ StopWatcher(s)
    \/ DetachOthersRemain(s) \/ DetachLast(s)

-----------------------------------------------------------------------------
(***************************************************************************)
(* The enforcer's poll: if the mtime has changed, read the file, then ask  *)
(* for its mtime again and remember that.                                  *)
(***************************************************************************)
\* Mistake: a file that is not JSON empties the ruleset.
Slip_TakeAnything ==
    /\ enf.up
    /\ enf.pc = "poll"
    /\ ~enf.seen
    /\ enf' = [enf EXCEPT !.ruleset = dest, !.pc = "stat"]
    /\ UNCHANGED <<files, artifacts, comp, procs, env, hands, history>>

\* A file that is not JSON keeps the last good ruleset and the old mtime.
PollReads ==
    /\ enf.up
    /\ enf.pc = "poll"
    /\ ~enf.seen
    /\ dest.state = "whole"
    /\ enf' = [enf EXCEPT !.ruleset = dest, !.pc = "stat"]
    /\ UNCHANGED <<files, artifacts, comp, procs, env, hands, history>>

PollStats ==
    /\ enf.up
    /\ enf.pc = "stat"
    /\ enf' = [enf EXCEPT !.pc = "poll", !.seen = TRUE]
    /\ UNCHANGED <<files, artifacts, comp, procs, env, hands, history>>

Next ==
    \/ \E p \in Cmds \cup Runs : CompileStep(p)
    \/ \E c \in Cmds : CommandStep(c) \/ KillCommand(c)
    \/ HandSave
    \/ \E s \in Runs : RunStep(s)
    \/ PollReads
    \/ PollStats

Spec == Init /\ [][Next]_vars

\* Processes are scheduled and compiles come to an end; nobody need ever edit,
\* run or leave.
Fairness ==
    /\ \A p \in Cmds \cup Runs : WF_vars(CompileStep(p))
    /\ \A s \in Runs : WF_vars(Reload(s))
    /\ WF_vars(PollReads \/ PollStats)

FairSpec == Spec /\ Fairness

-----------------------------------------------------------------------------
(***************************************************************************)
(* Properties.                                                             *)
(***************************************************************************)
\* The ruleset in force is a whole compiled policy, made for each layer from
\* a content that file really had and that parsed: never half a file, never
\* an invalid edit, whoever else was writing (the compiler's and the
\* enforcer's last-good behaviour, compile.go and enforcer.py's _load).
EnforcedWasConfigured ==
    enf.up => /\ enf.ruleset.state = "whole"
              /\ \A l \in Layers : enf.ruleset.in[l] \in past[l]

\* l's present content was written by a command that has reported
\* "policy recompiled".
Reported(l) == author[l] \in acked

InPolicy(l) == dest.state = "whole" /\ dest.in[l] = config[l]

\* As long as no two compiles ever overlapped, what a command reported as
\* recompiled is in policy.json for as long as its file stays as it is
\* (applyAndRecompile's report; the lock, the cache gate and the rename).
SerialReportsHold == ~overlapped => \A l \in Layers : Reported(l) => InPolicy(l)

\* What a command reported as recompiled is in any policy that can be read
\* from policy.json, also when compiles overlap: docs/design.md's "why a
\* command-driven rule change reaches a live cage".
ReportsHold == \A l \in Layers :
    Reported(l) /\ dest.state = "whole" => dest.in[l] = config[l]

\* A rule that went with the overlay at the end of a session is not in force
\* in a later one: docs/design.md's "does not silently survive".
OnceRulesExpire == enf.up => enf.ruleset.in["overlay"] \cap expired = {}

\* Commands on one config file take effect one after the other, each on what
\* the one before it left (withConfigLock).  An editor does not take the lock,
\* and Detach purges the overlay without it, so this is about scenarios
\* without the former and about the other files.
Store == INSTANCE ConfigStore WITH
    File <- Watched,
    store <- [l \in Watched |-> IF "hand" \in env THEN {} ELSE config[l]]

ImplementsConfigStore == Store!SSpec

\* A reported change reaches a running proxy (the enforcer's mtime poll),
\* unless compiles overlapped or policy.json changed just between the
\* enforcer's read and its stat.
ReportsReachProxy == \A l \in Layers :
    (Reported(l) /\ enf.up)
        ~> (~Reported(l) \/ ~enf.up \/ enf.ruleset.in[l] = config[l]
            \/ overlapped \/ raced)

\* A change a session's watcher has seen gets into policy.json, although
\* further events arrive during a reload, unless some file does not parse,
\* the build fails or compiles overlapped (configwatch's loop and doReload).
WatchedChangesCompile == \A s \in Runs, l \in Watched :
    (event[s] /\ "fails" \notin env)
        ~> (InPolicy(l) \/ sess[s] # "watching" \/ broken # {} \/ overlapped)
=============================================================================
