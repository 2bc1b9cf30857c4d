------------------------------ MODULE CageRun ------------------------------
(***************************************************************************)
(* The run command (internal/cli/run.go, internal/cage/run.go): wrappers   *)
(* that check the host, compile, join the proxy, write the fragments,      *)
(* start the cage, pass signals on to it, and undo what they did in the    *)
(* reverse order, whatever stopped them.                                   *)
(*                                                                         *)
(* The wrappers of a project share its state directory and its proxy       *)
(* (ProxyLifecycle has the inside of Attach and Detach), and the config    *)
(* may be edited while they start.                                         *)
(***************************************************************************)
EXTENDS CageProfile

CONSTANTS
    Wrapper,
    Worlds,         \* what a host may have installed
    Configs,        \* the versions of the config
    FirstConfigs,   \* those it may have at the start
    Ports,          \* the ports a proxy may get
    MaxTroubles     \* bound: signals, failures and edits

(***************************************************************************)
(* Worlds and configs.                                                     *)
(***************************************************************************)

\* What no mount and no marketplace has below it: what the battery wants
\* refused is planted outside the directories of the config.
Elsewhere == {Append(RealHome, "other"), Append(RealHome, "x")}
Apart(dir) == \A path \in Elsewhere : ~Below(EvalSymlinks(dir), path)

WorldOK(h) ==
    /\ h.home \in {<<>>, Home}
    /\ IsFiniteSet(h.registry) /\ Detect(h.registry) \subseteq Seq(STRING)
    /\ \A dir \in Detect(h.registry) : Apart(EvalSymlinks(dir))

\* What the battery wants allowed is no file of the config, and the project is
\* mounted, as the config that init writes has it (init.go:484).
ConfigOK(c) ==
    /\ c.services \in Seq([label : STRING, port : Int])
    /\ {c.rw, c.ro} \subseteq Seq([form : {"home", "abs", "rel"}, path : Seq(STRING)])
    /\ c.files \in Seq(Seq(STRING))
    /\ \A dir \in Elements(expandList(c.rw)) \cup Elements(expandList(c.ro)) : Apart(dir)
    /\ \E dir \in Elements(expandList(c.rw)) : Below(EvalSymlinks(dir), Project)
    /\ \A f \in Elements(c.files), p \in Allowed({}) : p.target # File(f)

ASSUME PathsAssumption ==
    {Home, RealHome, Project, Root} \subseteq Seq(STRING) /\ Home # <<>>

ASSUME PortsAssumption == Ports \subseteq Int /\ \A p \in Ports : ValidPort(p)
ASSUME WorldsAssumption == \A h \in Worlds : WorldOK(h)

ASSUME ConfigsAssumption ==
    FirstConfigs \subseteq Configs /\ \A c \in Configs : ConfigOK(c)

VARIABLES
    world, config,
    versions,       \* the configs there have been
    frags,          \* the fragment files: Nil while one is empty or absent
    port, users,    \* the proxy's port, 0 without one, and who is attached
    pc,             \* what a wrapper does next
    in, inv,        \* its inputs and its invocation
    at,             \* the next fragment, and whether it was truncated
    defers,         \* what is to be undone, the last first
    subs, sig,      \* who takes its signals, and the one not taken yet
    timer,          \* whether the kill timer runs
    leader, cage,   \* the cage's process, and the profile it got
    out,            \* how the wrapper ended, "" before
    troubles        \* signals, failures and edits so far

shared == <<world, config, versions, frags, port, users>>
own == <<pc, in, inv, at, defers, subs, sig, timer, leader, cage, out>>
runVars == <<shared, own, troubles>>

(***************************************************************************)
(* Preconditions                                                           *)
(***************************************************************************)

SafehouseBinaries == <<"safehouse", "agent-safehouse">>

Candidates(path) ==
    LET OnPath(b) == b \in path IN SelectSeq(SafehouseBinaries, OnPath)

ResolvedBinary(path) == Candidates(path)[1]
Missing(h) == Candidates(h.path) = <<>> \/ "mitmproxy" \notin h.path

\* The certificate is looked for first, then the skill.
Verify(h) ==
    CASE h.ca = "error" \/ (h.ca = "found" /\ h.skill = "error") -> "error"
      [] h.ca = "locked" -> "locked"
      [] h.ca = "absent" -> "CA not trusted"
      [] h.ca = "found" /\ h.skill = "absent" -> "skill missing"
      [] OTHER -> "ok"

detectFileFallback(h) ==
    CASE h.tokenFile = "found" -> "file fallback"
      [] h.tokenFile = "absent" -> "missing"
      [] OTHER -> "error"

DetectToken(h) ==
    CASE h.token = "found" -> "ok"
      [] h.token = "absent" -> detectFileFallback(h)
      [] OTHER -> h.token

Steps == <<"check", "compile", "load", "profile", "notify", "attach",
           "resolve", "files", "prepare", "build", "watch", "start",
           "subscribe", "loop">>

After(step) == Steps[1 + CHOOSE i \in DOMAIN Steps : Steps[i] = step]

Go(w, step) == pc' = [pc EXCEPT ![w] = After(step)]
Fail(w) == pc' = [pc EXCEPT ![w] = "unwind"]
Trouble == troubles < MaxTroubles /\ troubles' = troubles + 1
Defer(w, what) == defers' = [defers EXCEPT ![w] = <<what>> \o @]

\* A step that only looks: it goes on, or the run ends.
Gate(w, step, ok) ==
    /\ pc[w] = step
    /\ IF ok THEN Go(w, step) ELSE Fail(w)
    /\ UNCHANGED <<shared, in, inv, at, defers, subs, sig, timer, leader,
                   cage, out, troubles>>

\* The checks change nothing, and nothing they look at changes.
CheckHost(w) ==
    Gate(w, "check", /\ ~Missing(world)
                     /\ Verify(world) = "ok"
                     /\ DetectToken(world) = "ok"
                     /\ world.initialized)

CompilePolicy(w) == Gate(w, "compile", config.valid)

(***************************************************************************)
(* Starting                                                                *)
(***************************************************************************)

LoadConfig(w) ==
    /\ pc[w] = "load"
    /\ IF config.valid
       THEN in' = [in EXCEPT ![w] = Some(config)] /\ Go(w, "load")
       ELSE Fail(w) /\ UNCHANGED in
    /\ UNCHANGED <<shared, inv, at, defers, subs, sig, timer, leader, cage,
                   out, troubles>>

\* network.sb is renamed into place: it is never seen half written.  The
\* enforcer is extracted next, which may fail as well.
CompileProfile(w) ==
    /\ pc[w] = "profile"
    /\ IF config.valid
       THEN /\ frags' = [frags EXCEPT !["network"] =
                            Some(RenderNetworkSB(config.services))]
            /\ Go(w, "profile")
       ELSE Fail(w) /\ UNCHANGED frags
    /\ UNCHANGED <<world, config, versions, port, users, in, inv, at, defers,
                   subs, sig, timer, leader, cage, out, troubles>>

\* A bug that would matter: nobody takes signals before the cage runs.
Slip_Notify(w) ==
    /\ pc[w] = "notify"
    /\ Go(w, "notify")
    /\ UNCHANGED <<shared, in, inv, at, defers, subs, sig, timer, leader, cage,
                   out, troubles>>

\* The signals are taken, and never read: they only no longer kill.
Notify(w) ==
    /\ pc[w] = "notify"
    /\ subs' = [subs EXCEPT ![w] = @ \cup {"run"}]
    /\ Defer(w, "ignore") /\ Go(w, "notify")
    /\ UNCHANGED <<shared, in, inv, at, sig, timer, leader, cage, out, troubles>>

Attach(w) ==
    /\ pc[w] = "attach"
    /\ IF users = {} THEN port' \in Ports ELSE UNCHANGED port
    /\ users' = users \cup {w}
    /\ Defer(w, "detach") /\ Go(w, "attach")
    /\ UNCHANGED <<world, config, versions, frags, in, inv, at, subs, sig,
                   timer, leader, cage, out, troubles>>

ResolveInputs(w) ==
    /\ pc[w] = "resolve"
    /\ LET r == Resolve(in[w][1], port, world.home)
       IN IF r = Nil THEN Fail(w) /\ UNCHANGED in
          ELSE /\ in' = [in EXCEPT ![w] = Some(
                    [r[1] EXCEPT !.binary = ResolvedBinary(world.path),
                                 !.extra = pluginMarketplaceDirs(world.registry)])]
               /\ Go(w, "resolve")
    /\ UNCHANGED <<shared, inv, at, defers, subs, sig, timer, leader, cage,
                   out, troubles>>

\* The config is read once more: for its files this time.
ConfigFiles(w) ==
    /\ pc[w] = "files"
    /\ IF config.valid
       THEN /\ in' = [in EXCEPT ![w][1].configFiles = config.files]
            /\ Go(w, "files")
       ELSE Fail(w) /\ UNCHANGED in
    /\ UNCHANGED <<shared, inv, at, defers, subs, sig, timer, leader, cage,
                   out, troubles>>

Next1 == [at |-> 1, truncated |-> FALSE]

\* The fragments are written one after the other, each first truncated.
Prepare(w) ==
    LET name == Prepared[at[w].at]
        body == Fragment(name, in[w][1], world.caFile)
    IN /\ pc[w] = "prepare"
       /\ IF body = Nil THEN Fail(w) /\ UNCHANGED <<frags, at>>
          ELSE IF ~at[w].truncated
          THEN /\ frags' = [frags EXCEPT ![name] = Nil]
               /\ at' = [at EXCEPT ![w].truncated = TRUE]
               /\ UNCHANGED pc
          ELSE /\ frags' = [frags EXCEPT ![name] = body]
               /\ at' = [at EXCEPT ![w] = [at |-> @.at + 1, truncated |-> FALSE]]
               /\ IF at[w].at < Len(Prepared) THEN UNCHANGED pc
                  ELSE Go(w, "prepare")
       /\ UNCHANGED <<world, config, versions, port, users, in, inv, defers,
                      subs, sig, timer, leader, cage, out, troubles>>

BuildInvocation(w) ==
    /\ pc[w] = "build"
    /\ IF Build(in[w][1]) = Nil THEN Fail(w) /\ UNCHANGED inv
       ELSE inv' = [inv EXCEPT ![w] = Build(in[w][1])] /\ Go(w, "build")
    /\ UNCHANGED <<shared, in, at, defers, subs, sig, timer, leader, cage,
                   out, troubles>>

\* A session can do without a watcher.
Watch(w) ==
    /\ pc[w] = "watch"
    /\ Go(w, "watch")
    /\ \/ Defer(w, "unwatch")
       \/ UNCHANGED defers
    /\ UNCHANGED <<shared, in, inv, at, subs, sig, timer, leader, cage, out,
                   troubles>>

Start(w) ==
    /\ pc[w] = "start"
    /\ leader' = [leader EXCEPT ![w] = "starting"]
    /\ Go(w, "start")
    /\ UNCHANGED <<shared, in, inv, at, defers, subs, sig, timer, cage, out,
                   troubles>>

Subscribe(w) ==
    /\ pc[w] = "subscribe"
    /\ subs' = [subs EXCEPT ![w] = @ \cup {"runner"}]
    /\ Defer(w, "stop") /\ Go(w, "subscribe")
    /\ UNCHANGED <<shared, in, inv, at, sig, timer, leader, cage, out, troubles>>

\* Reading, writing and starting may fail.
StepFails(w) ==
    /\ pc[w] \in {"compile", "load", "profile", "attach", "files",
                  "prepare", "start"}
    /\ Trouble
    /\ Fail(w)
    /\ UNCHANGED <<shared, in, inv, at, defers, subs, sig, timer, leader, cage,
                   out>>

(***************************************************************************)
(* Running: what Run's loop waits for                                      *)
(***************************************************************************)

Forward(w) ==
    /\ pc[w] = "loop" /\ sig[w] = "pending"
    /\ sig' = [sig EXCEPT ![w] = "none"]
    /\ timer' = [timer EXCEPT ![w] = TRUE]
    /\ UNCHANGED <<shared, pc, in, inv, at, defers, subs, leader, cage, out,
                   troubles>>

\* A bug that would matter: the timer only gives up waiting.
Slip_Escalate(w) ==
    /\ pc[w] = "loop" /\ timer[w]
    /\ timer' = [timer EXCEPT ![w] = FALSE]
    /\ UNCHANGED <<shared, pc, in, inv, at, defers, subs, sig, leader, cage,
                   out, troubles>>

Escalate(w) ==
    /\ pc[w] = "loop" /\ timer[w]
    /\ timer' = [timer EXCEPT ![w] = FALSE]
    /\ leader' = [leader EXCEPT ![w] = IF @ = "gone" THEN @ ELSE "killed"]
    /\ UNCHANGED <<shared, pc, in, inv, at, defers, subs, sig, cage, out, troubles>>

Reap(w) ==
    /\ pc[w] = "loop" /\ leader[w] = "gone"
    /\ pc' = [pc EXCEPT ![w] = "unwind"]
    /\ UNCHANGED <<shared, in, inv, at, defers, subs, sig, timer, leader, cage,
                   out, troubles>>

(***************************************************************************)
(* Undoing                                                                 *)
(***************************************************************************)

Handler(what) == IF what = "ignore" THEN "run" ELSE "runner"

Undo(w) ==
    /\ pc[w] = "unwind" /\ defers[w] # <<>>
    /\ LET what == Head(defers[w])
       IN /\ subs' = IF what \in {"ignore", "stop"}
                     THEN [subs EXCEPT ![w] = @ \ {Handler(what)}] ELSE subs
          /\ users' = IF what = "detach" THEN users \ {w} ELSE users
          /\ port' = IF users' = {} THEN 0 ELSE port
    /\ defers' = [defers EXCEPT ![w] = Tail(@)]
    /\ UNCHANGED <<world, config, versions, frags, pc, in, inv, at, sig, timer,
                   leader, cage, out, troubles>>

Exit(w) ==
    /\ pc[w] = "unwind" /\ defers[w] = <<>>
    /\ out' = [out EXCEPT ![w] = "exited"]
    /\ pc' = [pc EXCEPT ![w] = "ended"]
    /\ UNCHANGED <<shared, in, inv, at, defers, subs, sig, timer, leader, cage,
                   troubles>>

(***************************************************************************)
(* Around the wrapper                                                      *)
(***************************************************************************)

\* SIGINT or SIGTERM: without a handler the default kills; the run loop's
\* channel holds one signal.
Signal(w) ==
    /\ pc[w] # "ended"
    /\ Trouble
    /\ IF subs[w] = {}
       THEN /\ out' = [out EXCEPT ![w] = "killed"]
            /\ pc' = [pc EXCEPT ![w] = "ended"]
            /\ UNCHANGED sig
       ELSE /\ sig' = IF "runner" \in subs[w]
                      THEN [sig EXCEPT ![w] = "pending"] ELSE sig
            /\ UNCHANGED <<pc, out>>
    /\ UNCHANGED <<shared, in, inv, at, defers, subs, timer, leader, cage>>

\* Safehouse reads the fragments some time after it was started.
SafehouseReads(w) ==
    /\ leader[w] = "starting"
    /\ leader' = [leader EXCEPT ![w] = "running"]
    /\ cage' = [cage EXCEPT ![w] =
            IF \A name \in DOMAIN frags : frags[name] # Nil
            THEN Some(Cage(inv[w][1], [n \in DOMAIN frags |-> frags[n][1]]))
            ELSE Nil]
    /\ UNCHANGED <<shared, pc, in, inv, at, defers, subs, sig, timer, out,
                   troubles>>

LeaderExits(w) ==
    /\ leader[w] \in {"starting", "running"}
    /\ leader' = [leader EXCEPT ![w] = "gone"]
    /\ UNCHANGED <<shared, pc, in, inv, at, defers, subs, sig, timer, cage,
                   out, troubles>>

LeaderDies(w) ==
    /\ leader[w] = "killed"
    /\ leader' = [leader EXCEPT ![w] = "gone"]
    /\ UNCHANGED <<shared, pc, in, inv, at, defers, subs, sig, timer, cage,
                   out, troubles>>

Edit ==
    /\ Trouble
    /\ config' \in Configs \ {config}
    /\ versions' = versions \cup {config'}
    /\ UNCHANGED <<world, frags, port, users, own>>

(***************************************************************************)
(* The specification                                                       *)
(***************************************************************************)

All(x) == [w \in Wrapper |-> x]

RunInit(worlds) ==
    /\ world \in worlds
    /\ config \in FirstConfigs
    /\ versions = {config}
    /\ frags = [n \in Elements(AppendProfiles) |-> Nil]
    /\ port = 0 /\ users = {}
    /\ pc = All("check") /\ in = All(Nil) /\ inv = All(Nil) /\ at = All(Next1)
    /\ defers = All(<<>>) /\ subs = All({}) /\ sig = All("none")
    /\ timer = All(FALSE) /\ leader = All("none") /\ cage = All(Nil)
    /\ out = All("")
    /\ troubles = 0

StartStep(w) ==
    \/ CheckHost(w) \/ CompilePolicy(w) \/ LoadConfig(w) \/ CompileProfile(w) \/ Notify(w)
    \/ Attach(w) \/ ResolveInputs(w) \/ ConfigFiles(w)
    \/ Prepare(w) \/ BuildInvocation(w) \/ Watch(w) \/ Start(w) \/ Subscribe(w)

EndStep(w) == Forward(w) \/ Escalate(w) \/ Reap(w) \/ Undo(w) \/ Exit(w)

RunNext ==
    \/ \E w \in Wrapper :
        \/ StartStep(w) \/ EndStep(w) \/ StepFails(w) \/ Signal(w)
        \/ SafehouseReads(w) \/ LeaderExits(w) \/ LeaderDies(w)
    \/ Edit

RunSpec == RunInit(Worlds) /\ [][RunNext]_runVars

\* A wrapper goes on, the timer expires and a killed process dies; nothing
\* makes an agent leave, or a safehouse read.
RunFairness ==
    \A w \in Wrapper :
        WF_<<pc, sig, timer, defers>>(EndStep(w)) /\ WF_leader(LeaderDies(w))

(***************************************************************************)
(* Properties                                                              *)
(***************************************************************************)

PortsOf(cfg) == {s.port : s \in Elements(cfg.services)}

\* The ports of no config there was while the cage started, and of all.
ClosedPorts == Ports \cup UNION {PortsOf(c) : c \in Configs}
OpenPorts == {p \in ClosedPorts : \A c \in versions : p \in PortsOf(c)}

Frozen(w) ==
    UNION {{Probe("config", Write, File(f)) : f \in Elements(c.files)} :
        c \in {c \in versions : \A d \in versions :
                    Elements(c.files) \subseteq Elements(d.files)}}

\* A cage whose fragments were whole when safehouse read them holds what the
\* verification battery probes for, whatever the host, the mounts and the
\* environment of the config: only the proxy and the services are reachable,
\* the proxy is the one the environment names, the broker's socket, the files
\* outside the mounts and the files of the config are not to be touched, and
\* the keychain, the CA and the account's state are.
CageAsPromised ==
    \A w \in Wrapper :
        cage[w] # Nil /\ leader[w] = "running" =>
            LET rules == cage[w][1]
                mine == in[w][1].port
                declared == UNION {PortsOf(c) : c \in versions}
            IN /\ \A p \in Blocked(ClosedPorts \ (declared \cup {mine}),
                                   RealHome \o <<"other">>) \cup Frozen(w) :
                    ~Permits(rules, p.op, p.target)
               /\ \A p \in Allowed(OpenPorts \cup {mine}) :
                    (p.id = "env-ca" /\ ~world.caFile) \/ Permits(rules, p.op, p.target)
               /\ \A v \in ProxyVars : inv[w][1].env[v] = Port("127.0.0.1", port)
               /\ mine = port

\* A wrapper whose cage runs is counted as a user of the proxy, and one that
\* ended is not, whatever ended it: a step that failed, the agent, or a signal
\* at any moment.
RefcountSafe ==
    \A w \in Wrapper :
        /\ leader[w] \in {"starting", "running", "killed"} => w \in users
        /\ out[w] # "" => w \notin users

\* A wrapper that takes a signal to its cage ends, even if the agent ignores
\* it.
SignalledRunEnds ==
    \A w \in Wrapper : sig[w] = "pending" /\ pc[w] = "loop" ~> out[w] # ""
=============================================================================
