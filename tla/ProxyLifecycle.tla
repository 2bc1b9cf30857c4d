--------------------------- MODULE ProxyLifecycle ---------------------------
(***************************************************************************)
(* The multi-agent proxy lifecycle of internal/proxy/lifecycle.go: any     *)
(* number of `agent-creance run` wrappers of one project share one         *)
(* mitmdump proxy and one credential broker.  The only shared record is    *)
(* proxy.lock, read and rewritten under an exclusive flock; everything     *)
(* else is processes, ports and a socket path that come and go on their    *)
(* own.                                                                    *)
(*                                                                         *)
(* A critical section (Attach, Detach, CleanOrphan, Clean) is one step per *)
(* call that another process can interleave with: each Spawn, each wait,   *)
(* each signal, the final write.  Between those steps daemons start, die   *)
(* and exit, and the holder itself may be killed, which releases the       *)
(* flock.  As in the code, 0 is "no PID" and "no port".                    *)
(***************************************************************************)
EXTENDS Integers, FiniteSets

CONSTANTS
    Pid,        \* process ids
    Port,       \* loopback TCP ports
    MaxBirths,  \* bound: processes born in one behaviour
    Scenarios   \* which things the environment does, one set per scenario

EnvKinds ==
    {"allowOnce",     \* `allow --once` writes the session overlay
     "doctor",        \* `doctor --fix` runs CleanOrphan
     "clean",         \* `clean` runs Clean(force = false)
     "force",         \* `clean --force` runs Clean(force = true)
     "kill",          \* a wrapper is SIGKILLed while it does not hold the flock
     "killInLock",    \* the holder of the flock is SIGKILLed
     "torn",          \* ... between writeLock's truncate and its write
     "proxyCrash",    \* mitmdump dies without being asked to
     "brokerCrash",   \* the broker dies without being asked to
     "foreignPort",   \* an unrelated process binds a loopback port
     "recycle",       \* the kernel hands a dead process's PID to a new one
     "io"}            \* a spawn, a start-time read, a purge or a write fails

ASSUME LifecycleAssumption ==
    /\ Pid \subseteq Nat \ {0}
    /\ Port \subseteq Nat \ {0}
    /\ MaxBirths \in Nat
    /\ Scenarios \subseteq SUBSET EnvKinds

VARIABLES
    \* proxy.lock, the session overlay file and the broker's socket path
    lock, overlay, sock,
    \* the process table: what runs under each PID, its start time (a count of
    \* births), its state, the port it listens on (proxy) or was told to use
    \* (wrapper)
    kind, start, phase, port, births,
    \* ports held by processes that are not ours
    foreign,
    \* the scenario, fixed at the start
    env,
    \* the critical section in progress: the flock's holder and its locals
    cs,
    \* history: PIDs named in a port-changed warning; whether a SIGTERM ever
    \* reached a process that is not one of this project's daemons
    warned, misfired

procVars == <<kind, start, phase, port, births>>
vars == <<lock, overlay, sock, kind, start, phase, port, births, foreign, env,
          cs, warned, misfired>>

Ref == [pid : Pid, start : 1..MaxBirths]

LockState == [proxy : Pid \cup {0}, broker : Pid \cup {0},
              port : Port \cup {0}, agents : SUBSET Ref]

NoLock == [proxy |-> 0, broker |-> 0, port |-> 0, agents |-> {}]

Kinds == {"free", "wrapper", "proxy", "broker", "other"}

Phases ==
    {"none",                          \* no process
     "fresh", "attached", "leaving",  \* a wrapper before, during, after its cage
     "starting", "up",                \* a daemon before and after it listens
     "term",                          \* SIGTERM delivered, still listening
     "closed",                        \* a broker that closed its listener
     "dying"}                         \* SIGTERM delivered before it listened

Steps == {"none", "broker", "brokerWait", "proxy", "proxyWait", "record",
          "drop", "signal", "stopBroker", "clear"}

Section == [op : {"none", "attach", "detach", "orphan", "clean"}, step : Steps,
            pid : Pid \cup {0}, alive : SUBSET Ref,
            port : Port \cup {0}, proxy : Pid \cup {0}, broker : Pid \cup {0}]

NoSection == [op |-> "none", step |-> "none", pid |-> 0, alive |-> {},
              port |-> 0, proxy |-> 0, broker |-> 0]

TypeOK ==
    /\ lock \in LockState
    /\ overlay \in BOOLEAN
    /\ sock \in Pid \cup {0}
    /\ kind \in [Pid -> Kinds]
    /\ start \in [Pid -> 0..MaxBirths]
    /\ phase \in [Pid -> Phases]
    /\ port \in [Pid -> Port \cup {0}]
    /\ births \in 0..MaxBirths
    /\ foreign \subseteq Port
    /\ env \in Scenarios
    /\ cs \in Section
    /\ warned \subseteq Pid
    /\ misfired \in BOOLEAN

Init ==
    /\ lock = NoLock
    /\ overlay = FALSE
    /\ sock = 0
    /\ kind = [p \in Pid |-> "free"]
    /\ start = [p \in Pid |-> 0]
    /\ phase = [p \in Pid |-> "none"]
    /\ port = [p \in Pid |-> 0]
    /\ births = 0
    /\ foreign = {}
    /\ env \in Scenarios
    /\ cs = NoSection
    /\ warned = {}
    /\ misfired = FALSE

-----------------------------------------------------------------------------
(***************************************************************************)
(* The operating system as the code sees it                                *)
(***************************************************************************)

\* ProcessManager.Alive: kill(pid, 0).
Alive(p) == p # 0 /\ kind[p] # "free"

Listens(p) == kind[p] = "proxy" /\ phase[p] \in {"up", "term"}

\* PortAllocator.Probe: something accepts connections on the port.  It does
\* not say what.
Probe(n) == n \in foreign \/ \E p \in Pid : Listens(p) /\ port[p] = n

\* UnixSocket.Probe: the broker bound at the path still accepts.  sock is 0
\* when no file is there or when the file is a dead broker's.
SockProbe == sock # 0

\* A process may be born under p.  Fresh PIDs are handed out in ascending
\* order; a used one comes back only when the environment recycles PIDs.
CanSpawn(p) ==
    /\ kind[p] = "free"
    /\ births < MaxBirths
    /\ IF start[p] = 0 THEN \A q \in Pid : q < p => start[q] > 0
                       ELSE "recycle" \in env

Spawn(p, k, ph, n) ==
    /\ CanSpawn(p)
    /\ kind' = [kind EXCEPT ![p] = k]
    /\ births' = births + 1
    /\ start' = [start EXCEPT ![p] = births + 1]
    /\ phase' = [phase EXCEPT ![p] = ph]
    /\ port' = [port EXCEPT ![p] = n]

\* Process p is gone.
Exit(p) ==
    /\ kind' = [kind EXCEPT ![p] = "free"]
    /\ phase' = [phase EXCEPT ![p] = "none"]
    /\ port' = [port EXCEPT ![p] = 0]
    /\ UNCHANGED <<start, births>>

\* What SIGTERM leaves a process in.  A wrapper forwards it to its cage and an
\* unrelated process may do anything; neither changes state here.
Terminated(p) ==
    CASE phase[p] = "starting" -> "dying"
      [] phase[p] = "up" -> "term"
      [] OTHER -> phase[p]

\* ProcessManager.Signal(SIGTERM) to each PID of S; a PID nobody holds is not
\* an error.
SigTerm(S) ==
    /\ phase' = [p \in Pid |-> IF p \in S THEN Terminated(p) ELSE phase[p]]
    /\ misfired' = (misfired \/ \E p \in S : kind[p] \in {"wrapper", "other"})

-----------------------------------------------------------------------------
(***************************************************************************)
(* Helpers of lifecycle.go                                                 *)
(***************************************************************************)

\* The definitions named Slip_... are not part of the model: each is a mistake
\* a change to the code could make in the definition that follows it, kept to
\* show that the properties notice.

Slip_PidAlone(refs) == {r \in refs : Alive(r.pid)}

\* pruneDead: an entry survives when its PID is alive and was started when the
\* entry says.
PruneDead(refs) == {r \in refs : Alive(r.pid) /\ start[r.pid] = r.start}

Slip_BarePid(p) == [pid |-> p, start |-> 0]

SelfRef(p) == [pid |-> p, start |-> start[p]]

AddRef(refs, ref) ==
    IF \E r \in refs : r.pid = ref.pid THEN refs ELSE refs \cup {ref}

Slip_RemovesAll(refs, p) == {}

RemoveRef(refs, p) == {r \in refs : r.pid # p}

\* "The proxy is genuinely up": PID liveness and a port probe.
ProxyUp == lock.proxy # 0 /\ Alive(lock.proxy) /\ Probe(lock.port)

\* choosePort: the recorded port if it can be bound again, else any free one.
PortChoices ==
    IF lock.port # 0 /\ ~Probe(lock.port)
      THEN {lock.port}
      ELSE {n \in Port : ~Probe(n)}

Slip_NeverChanged(n) == {}

\* The live agents a restart on port n strands: warnPortChanged names them.
Stranded(n) ==
    IF lock.port # 0 /\ n # lock.port
      THEN {r.pid : r \in PruneDead(lock.agents)}
      ELSE {}

Slip_CountsSelf(p) == lock.agents = {}

\* Detach's test for the last agent out.  The lock is not pruned first.
LastOut(p) == RemoveRef(lock.agents, p) = {}

Slip_IgnoresAgents == ProxyUp

\* The recorded proxy is up and none of the recorded agents is alive.
Orphaned == ProxyUp /\ PruneDead(lock.agents) = {}

-----------------------------------------------------------------------------
(***************************************************************************)
(* Attach                                                                  *)
(***************************************************************************)

\* A new `agent-creance run` reaches Attach.
StartRun(p) ==
    /\ Spawn(p, "wrapper", "fresh", 0)
    /\ warned' = warned \ {p}
    /\ UNCHANGED <<lock, overlay, sock, foreign, env, cs, misfired>>

\* Acquire, readLock, pruneDead, and the proxy is up: reuse it.
AttachReuse(p) ==
    /\ cs.op = "none"
    /\ kind[p] = "wrapper" /\ phase[p] = "fresh"
    /\ ProxyUp
    /\ cs' = [op |-> "attach", step |-> "record", pid |-> p,
              alive |-> PruneDead(lock.agents), port |-> lock.port,
              proxy |-> lock.proxy, broker |-> lock.broker]
    /\ UNCHANGED <<lock, overlay, sock, procVars, foreign, env, warned, misfired>>

\* Acquire, readLock, pruneDead, and it is not: choose a port and warn the
\* agents a changed port strands.
AttachRestart(p) ==
    /\ cs.op = "none"
    /\ kind[p] = "wrapper" /\ phase[p] = "fresh"
    /\ ~ProxyUp
    /\ \E n \in PortChoices :
        /\ cs' = [op |-> "attach", step |-> "broker", pid |-> p,
                  alive |-> PruneDead(lock.agents), port |-> n,
                  proxy |-> 0, broker |-> 0]
        /\ warned' = warned \cup Stranded(n)
    /\ UNCHANGED <<lock, overlay, sock, procVars, foreign, env, misfired>>

\* No port can be bound: Attach fails and the run with it.
AttachNoPort(p) ==
    /\ cs.op = "none"
    /\ kind[p] = "wrapper" /\ phase[p] = "fresh"
    /\ ~ProxyUp
    /\ PortChoices = {}
    /\ Exit(p)
    /\ UNCHANGED <<lock, overlay, sock, foreign, env, cs, warned, misfired>>

\* startBroker: nothing to inject, nothing resolved, the path is too long or
\* the spawn failed; the proxy starts without a broker.
AttachNoBroker ==
    /\ cs.step = "broker"
    /\ cs' = [cs EXCEPT !.step = "proxy"]
    /\ UNCHANGED <<lock, overlay, sock, procVars, foreign, env, warned, misfired>>

AttachSpawnBroker(b) ==
    /\ cs.step = "broker"
    /\ Spawn(b, "broker", "starting", 0)
    /\ cs' = [cs EXCEPT !.step = "brokerWait", !.broker = b]
    /\ UNCHANGED <<lock, overlay, sock, foreign, env, warned, misfired>>

\* waitBrokerReady: the socket answers.
AttachBrokerReady ==
    /\ cs.step = "brokerWait"
    /\ SockProbe
    /\ cs' = [cs EXCEPT !.step = "proxy"]
    /\ UNCHANGED <<lock, overlay, sock, procVars, foreign, env, warned, misfired>>

Slip_WaitsForExit ==
    /\ cs.step = "brokerWait"
    /\ ~SockProbe /\ ~Alive(cs.broker)
    /\ sock' = 0
    /\ cs' = [cs EXCEPT !.step = "proxy", !.broker = 0]
    /\ UNCHANGED <<lock, overlay, procVars, foreign, env, warned, misfired>>

\* waitBrokerReady: the broker exited or the poll ran out; stopBroker, and go
\* on without one.
AttachBrokerFailed ==
    /\ cs.step = "brokerWait"
    /\ ~SockProbe
    /\ SigTerm({cs.broker} \cap Pid)
    /\ sock' = 0
    /\ cs' = [cs EXCEPT !.step = "proxy", !.broker = 0]
    /\ UNCHANGED <<lock, overlay, kind, start, port, births, foreign, env, warned>>

AttachSpawnProxy(q) ==
    /\ cs.step = "proxy"
    /\ Spawn(q, "proxy", "starting", cs.port)
    /\ cs' = [cs EXCEPT !.step = "proxyWait", !.proxy = q]
    /\ UNCHANGED <<lock, overlay, sock, foreign, env, warned, misfired>>

\* waitProxyReady: something accepts on the port.
AttachProxyReady ==
    /\ cs.step = "proxyWait"
    /\ Probe(cs.port)
    /\ cs' = [cs EXCEPT !.step = "record"]
    /\ UNCHANGED <<lock, overlay, sock, procVars, foreign, env, warned, misfired>>

\* Spawning mitmdump failed, or waitProxyReady saw it exit or ran out: SIGTERM
\* what was started, stopBroker, return an error.  The lock is not written and
\* the run exits.
AttachProxyFailed ==
    /\ \/ cs.step = "proxy" /\ ("io" \in env \/ \A q \in Pid : ~CanSpawn(q))
       \/ cs.step = "proxyWait" /\ ~Probe(cs.port)
    /\ LET S == {cs.proxy, cs.broker} IN
       /\ phase' = [p \in Pid |-> IF p = cs.pid THEN "none"
                                  ELSE IF p \in S THEN Terminated(p)
                                  ELSE phase[p]]
       /\ misfired' = (misfired \/ \E p \in S \ {0} :
                                      kind[p] \in {"wrapper", "other"})
    /\ kind' = [kind EXCEPT ![cs.pid] = "free"]
    /\ sock' = 0
    /\ cs' = NoSection
    /\ UNCHANGED <<lock, overlay, start, port, births, foreign, env, warned>>

\* StartTime(self) and writeLock: the run is attached and the flock released.
AttachRecord ==
    /\ cs.op = "attach" /\ cs.step = "record"
    /\ lock' = [proxy |-> cs.proxy, broker |-> cs.broker, port |-> cs.port,
                agents |-> AddRef(cs.alive, SelfRef(cs.pid))]
    /\ phase' = [phase EXCEPT ![cs.pid] = "attached"]
    /\ port' = [port EXCEPT ![cs.pid] = cs.port]
    /\ cs' = NoSection
    /\ UNCHANGED <<overlay, sock, kind, start, births, foreign, env, warned, misfired>>

\* Reading the own start time or writing the lock (truncated by then, or not)
\* failed: Attach returns the error and undoes nothing.
AttachRecordFailed ==
    /\ "io" \in env
    /\ cs.op = "attach" /\ cs.step = "record"
    /\ lock' \in {lock, NoLock}
    /\ Exit(cs.pid)
    /\ cs' = NoSection
    /\ UNCHANGED <<overlay, sock, foreign, env, warned, misfired>>

-----------------------------------------------------------------------------
(***************************************************************************)
(* Detach, CleanOrphan, Clean                                              *)
(***************************************************************************)

\* The cage has exited and Detach holds the flock.  The last one out tears the
\* proxy down, any other only drops its own entry.
DetachBegin(p) ==
    /\ cs.op = "none"
    /\ kind[p] = "wrapper" /\ phase[p] = "attached"
    /\ cs' = [NoSection EXCEPT
                !.op = "detach", !.pid = p,
                !.step = IF LastOut(p) THEN "signal" ELSE "drop"]
    /\ phase' = [phase EXCEPT ![p] = "leaving"]
    /\ UNCHANGED <<lock, overlay, sock, kind, start, port, births, foreign, env,
                   warned, misfired>>

\* Others remain: write the lock without our entry; the run exits.
DetachDrop ==
    /\ cs.step = "drop"
    /\ lock' = [lock EXCEPT !.agents = RemoveRef(@, cs.pid)]
    /\ Exit(cs.pid)
    /\ cs' = NoSection
    /\ UNCHANGED <<overlay, sock, foreign, env, warned, misfired>>

\* CleanOrphan on a true orphan; on anything else it changes nothing.
CleanOrphanBegin ==
    /\ "doctor" \in env
    /\ cs.op = "none"
    /\ Orphaned
    /\ cs' = [NoSection EXCEPT !.op = "orphan", !.step = "signal"]
    /\ UNCHANGED <<lock, overlay, sock, procVars, foreign, env, warned, misfired>>

\* Clean, unless it refuses because live agents are attached.
CleanBegin(force) ==
    /\ (IF force THEN "force" ELSE "clean") \in env
    /\ cs.op = "none"
    /\ force \/ PruneDead(lock.agents) = {}
    /\ lock # NoLock \/ overlay \/ sock # 0    \* otherwise it changes nothing
    /\ cs' = [NoSection EXCEPT !.op = "clean", !.step = "signal"]
    /\ UNCHANGED <<lock, overlay, sock, procVars, foreign, env, warned, misfired>>

Slip_KillsAgents ==
    /\ cs.step = "signal"
    /\ SigTerm(({lock.proxy} \cup {r.pid : r \in lock.agents}) \cap Pid)
    /\ cs' = [cs EXCEPT !.step = "stopBroker"]
    /\ UNCHANGED <<lock, overlay, sock, kind, start, port, births, foreign, env,
                   warned>>

\* SIGTERM the recorded proxy if its PID is alive.  The port is not probed.
TeardownSignal ==
    /\ cs.step = "signal"
    /\ SigTerm({lock.proxy} \cap Pid)
    /\ cs' = [cs EXCEPT !.step = "stopBroker"]
    /\ UNCHANGED <<lock, overlay, sock, kind, start, port, births, foreign, env,
                   warned>>

Slip_OnlySocket ==
    /\ cs.step = "stopBroker"
    /\ sock' = 0
    /\ cs' = [cs EXCEPT !.step = "clear"]
    /\ UNCHANGED <<lock, overlay, procVars, foreign, env, warned, misfired>>

\* stopBroker: SIGTERM the recorded broker, remove the socket file.
TeardownBroker ==
    /\ cs.step = "stopBroker"
    /\ SigTerm({lock.broker} \cap Pid)
    /\ sock' = 0
    /\ cs' = [cs EXCEPT !.step = "clear"]
    /\ UNCHANGED <<lock, overlay, kind, start, port, births, foreign, env, warned>>

\* The process that runs a finished critical section: the detaching wrapper
\* exits, the operator's doctor or clean is not in the process table.
SectionExit ==
    IF cs.pid # 0 THEN Exit(cs.pid) ELSE UNCHANGED procVars

\* Purge the session overlay, clear the lock, release the flock.
TeardownClear ==
    /\ cs.step = "clear"
    /\ overlay' = FALSE
    /\ lock' = NoLock
    /\ SectionExit
    /\ cs' = NoSection
    /\ UNCHANGED <<sock, foreign, env, warned, misfired>>

\* A teardown step fails: signalling a PID that now belongs to another user,
\* purging the overlay, or writing the lock.  The error is returned at once.
TeardownFailed ==
    /\ "io" \in env
    /\ \/ /\ cs.step = "signal"
          /\ lock.proxy # 0 /\ kind[lock.proxy] = "other"
          /\ UNCHANGED <<lock, overlay>>
       \/ /\ cs.step = "clear"
          /\ \/ UNCHANGED <<lock, overlay>>
             \/ overlay' = FALSE /\ lock' \in {lock, NoLock}
       \/ /\ cs.step = "drop"
          /\ lock' \in {lock, NoLock}
          /\ UNCHANGED overlay
    /\ SectionExit
    /\ cs' = NoSection
    /\ UNCHANGED <<sock, foreign, env, warned, misfired>>

-----------------------------------------------------------------------------
(***************************************************************************)
(* mitmdump and the broker, external to lifecycle.go                       *)
(***************************************************************************)

\* mitmdump binds its port, or cannot and exits.
ProxyBind(q) ==
    /\ kind[q] = "proxy" /\ phase[q] = "starting"
    /\ IF Probe(port[q])
         THEN Exit(q)
         ELSE /\ phase' = [phase EXCEPT ![q] = "up"]
              /\ UNCHANGED <<kind, start, port, births>>
    /\ UNCHANGED <<lock, overlay, sock, foreign, env, cs, warned, misfired>>

ProxyExit(q) ==
    /\ kind[q] = "proxy" /\ phase[q] \in {"term", "dying"}
    /\ Exit(q)
    /\ UNCHANGED <<lock, overlay, sock, foreign, env, cs, warned, misfired>>

ProxyCrash(q) ==
    /\ "proxyCrash" \in env
    /\ kind[q] = "proxy" /\ phase[q] \in {"starting", "up"}
    /\ Exit(q)
    /\ UNCHANGED <<lock, overlay, sock, foreign, env, cs, warned, misfired>>

\* runBroker: UnixSocket.Listen removes whatever file is at the path and binds
\* it.
BrokerBind(b) ==
    /\ kind[b] = "broker" /\ phase[b] = "starting"
    /\ phase' = [phase EXCEPT ![b] = "up"]
    /\ sock' = b
    /\ UNCHANGED <<lock, overlay, kind, start, port, births, foreign, env, cs, warned,
                   misfired>>

\* SIGTERM cancelled Serve: closing the listener unlinks the path, whoever has
\* bound it meanwhile.
BrokerClose(b) ==
    /\ kind[b] = "broker" /\ phase[b] = "term"
    /\ phase' = [phase EXCEPT ![b] = "closed"]
    /\ sock' = 0
    /\ UNCHANGED <<lock, overlay, kind, start, port, births, foreign, env, cs, warned,
                   misfired>>

\* Refreshers joined, tokens revoked (seconds later, possibly): the deferred
\* Remove(sock), again by path, and the process is gone.  A broker terminated
\* before it listened has no defer to run.
BrokerExit(b) ==
    /\ kind[b] = "broker" /\ phase[b] \in {"closed", "dying"}
    /\ sock' = IF phase[b] = "closed" THEN 0 ELSE sock
    /\ Exit(b)
    /\ UNCHANGED <<lock, overlay, foreign, env, cs, warned, misfired>>

BrokerCrash(b) ==
    /\ "brokerCrash" \in env
    /\ kind[b] = "broker" /\ phase[b] \in {"starting", "up"}
    /\ sock' = IF sock = b THEN 0 ELSE sock
    /\ Exit(b)
    /\ UNCHANGED <<lock, overlay, foreign, env, cs, warned, misfired>>

-----------------------------------------------------------------------------
(***************************************************************************)
(* The rest of the world                                                   *)
(***************************************************************************)

KillWrapper(p) ==
    /\ "kill" \in env
    /\ kind[p] = "wrapper" /\ phase[p] \in {"fresh", "attached"}
    /\ cs.pid # p
    /\ Exit(p)
    /\ UNCHANGED <<lock, overlay, sock, foreign, env, cs, warned, misfired>>

\* The holder dies; the kernel releases the flock.  Killed inside writeLock, it
\* leaves an empty file, which readLock takes for a cold start.
KillHolder ==
    /\ "killInLock" \in env
    /\ cs.op # "none"
    /\ \/ UNCHANGED lock
       \/ /\ "torn" \in env
          /\ cs.step \in {"record", "drop", "clear"}
          /\ lock' = NoLock
    /\ SectionExit
    /\ cs' = NoSection
    /\ UNCHANGED <<overlay, sock, foreign, env, warned, misfired>>

AllowOnce ==
    /\ "allowOnce" \in env
    /\ ~overlay
    /\ overlay' = TRUE
    /\ UNCHANGED <<lock, sock, procVars, foreign, env, cs, warned, misfired>>

OtherStarts(p) ==
    /\ "recycle" \in env
    /\ start[p] > 0
    /\ Spawn(p, "other", "none", 0)
    /\ UNCHANGED <<lock, overlay, sock, foreign, env, cs, warned, misfired>>

OtherExits(p) ==
    /\ kind[p] = "other"
    /\ Exit(p)
    /\ UNCHANGED <<lock, overlay, sock, foreign, env, cs, warned, misfired>>

ForeignBinds(n) ==
    /\ "foreignPort" \in env
    /\ ~Probe(n)
    /\ foreign' = foreign \cup {n}
    /\ UNCHANGED <<lock, overlay, sock, procVars, env, cs, warned, misfired>>

ForeignCloses(n) ==
    /\ n \in foreign
    /\ foreign' = foreign \ {n}
    /\ UNCHANGED <<lock, overlay, sock, procVars, env, cs, warned, misfired>>

-----------------------------------------------------------------------------
AttachStep ==
    \/ \E p \in Pid : AttachReuse(p) \/ AttachRestart(p) \/ AttachNoPort(p)
    \/ AttachNoBroker \/ AttachBrokerReady \/ AttachBrokerFailed
    \/ \E p \in Pid : AttachSpawnBroker(p) \/ AttachSpawnProxy(p)
    \/ AttachProxyReady \/ AttachProxyFailed
    \/ AttachRecord \/ AttachRecordFailed

TeardownStep ==
    \/ \E p \in Pid : DetachBegin(p)
    \/ DetachDrop
    \/ CleanOrphanBegin \/ CleanBegin(FALSE) \/ CleanBegin(TRUE)
    \/ TeardownSignal \/ TeardownBroker \/ TeardownClear \/ TeardownFailed

DaemonStep ==
    \E p \in Pid : \/ ProxyBind(p) \/ ProxyExit(p) \/ ProxyCrash(p)
                   \/ BrokerBind(p) \/ BrokerClose(p) \/ BrokerExit(p)
                   \/ BrokerCrash(p)

WorldStep ==
    \/ \E p \in Pid : \/ StartRun(p) \/ KillWrapper(p) \/ OtherStarts(p) \/ OtherExits(p)
    \/ KillHolder \/ AllowOnce
    \/ \E n \in Port : ForeignBinds(n) \/ ForeignCloses(n)

Next == AttachStep \/ TeardownStep \/ DaemonStep \/ WorldStep

Spec == Init /\ [][Next]_vars

-----------------------------------------------------------------------------
(***************************************************************************)
(* Fairness: the holder of the flock keeps running (every wait in the      *)
(* section is a bounded poll), daemons bind, close and exit, and the       *)
(* kernel does not starve a run that waits for the flock.  Nothing is      *)
(* assumed of users: a cage may run for ever and no run need ever start.   *)
(***************************************************************************)
SectionStep ==
    \/ AttachNoBroker \/ AttachBrokerReady \/ AttachBrokerFailed
    \/ \E p \in Pid : AttachSpawnBroker(p) \/ AttachSpawnProxy(p)
    \/ AttachProxyReady \/ AttachProxyFailed \/ AttachRecord
    \/ DetachDrop \/ TeardownSignal \/ TeardownBroker \/ TeardownClear

DaemonProgress ==
    \E p \in Pid : \/ ProxyBind(p) \/ ProxyExit(p)
                   \/ BrokerBind(p) \/ BrokerClose(p) \/ BrokerExit(p)

EntersAttach(p) == AttachReuse(p) \/ AttachRestart(p) \/ AttachNoPort(p)

Fairness ==
    /\ WF_vars(SectionStep)
    /\ WF_vars(DaemonProgress)
    /\ \A p \in Pid : SF_vars(EntersAttach(p))

FairSpec == Spec /\ Fairness

-----------------------------------------------------------------------------
(***************************************************************************)
(* Correctness                                                             *)
(***************************************************************************)
Attached(p) == kind[p] = "wrapper" /\ phase[p] = "attached"

\* A daemon nobody has asked to stop.
Running(q) == kind[q] \in {"proxy", "broker"} /\ phase[q] \in {"starting", "up"}

\* What users, operators and SIGKILL do outside the flock; no daemon but the
\* broker dies, no port is taken, no write fails, nobody insists.
Orderly == {"allowOnce", "doctor", "clean", "kill", "brokerCrash", "recycle"}

\* The refcount never lies: an attached wrapper is recorded under its PID and
\* start time (and survives the prune of an Attach in progress), and an entry
\* that passes pruneDead is a wrapper between its Attach and its Detach, never
\* a process that inherited its PID.
RefcountExact ==
    env \cap {"force", "io", "torn"} = {} =>
        /\ \A p \in Pid : Attached(p) =>
              /\ SelfRef(p) \in lock.agents
              /\ cs.op = "attach" => SelfRef(p) \in cs.alive
        /\ \A r \in PruneDead(lock.agents) :
              kind[r.pid] = "wrapper" /\ phase[r.pid] \in {"attached", "leaving"}

\* No exit, kill, doctor or unforced clean of one agent takes the proxy away
\* from another: as long as a wrapper is attached, a proxy listens on the port
\* its sandbox profile was frozen with.
ServedWhileAttached ==
    env \subseteq Orderly =>
        \A p \in Pid : Attached(p) =>
            (\E q \in Pid : kind[q] = "proxy" /\ phase[q] = "up" /\ port[q] = port[p])

\* Nothing the lifecycle started is forgotten: a daemon nobody asked to stop is
\* in the lock or in the hands of the Attach that is starting it.
NoUnrecordedDaemon ==
    env \cap {"proxyCrash", "killInLock", "io", "foreignPort"} = {} =>
        \A q \in Pid : Running(q) =>
            q \in {lock.proxy, lock.broker, cs.proxy, cs.broker}

\* The last agent out stops the proxy: with the flock free and no wrapper
\* attached, every proxy has been asked to stop, mitmdump crashes and forced
\* cleans included.
LastOutStopsProxy ==
    env \cap {"kill", "killInLock", "io", "foreignPort", "recycle"} = {} =>
        ((cs.op = "none" /\ \A p \in Pid : ~Attached(p)) =>
            \A q \in Pid : Running(q) => kind[q] # "proxy")

\* Warn-never-kill, the warning: a recorded agent whose frozen port is not the
\* recorded one was named in a port-changed warning.
StrandedAreWarned ==
    (cs.op = "none" /\ lock.proxy # 0) =>
        \A r \in PruneDead(lock.agents) :
            port[r.pid] # lock.port => r.pid \in warned

\* Warn-never-kill, the killing: without PID reuse a SIGTERM only ever reaches
\* this project's own daemons, whatever crashes, fails or is forced.
SignalsOnlyDaemons == "recycle" \notin env => ~misfired

\* The session overlay is purged only when no session is left to use it.
OverlayOutlivesSessions ==
    [][(env \cap {"force", "io", "torn"} = {} /\ overlay /\ ~overlay') =>
          \A p \in Pid : ~Attached(p)]_vars

\* The flock is never held for good: every Attach, Detach, doctor and clean
\* that gets it gives it back.
FlockReleased == cs.op # "none" ~> cs.op = "none"

\* Every run gets in or gives up: it does not stay between its start and its
\* attachment forever.
RunsGetIn ==
    \A p \in Pid : (kind[p] = "wrapper" /\ phase[p] = "fresh") ~>
                   ~(kind[p] = "wrapper" /\ phase[p] = "fresh")

\* After the last run, proxy and broker are gone, unless another run starts.
DaemonsGoWithLastRun ==
    (\A p \in Pid : kind[p] # "wrapper") ~>
        \/ \A p \in Pid : kind[p] \notin {"proxy", "broker"}
        \/ \E p \in Pid : kind[p] = "wrapper"

\* The lifecycle implements SharedProxy: the running proxy is the endpoint, an
\* attached wrapper was told the port its profile is frozen with.
Endpoint ==
    LET R == {q \in Pid : kind[q] = "proxy" /\ phase[q] = "up"}
    IN  IF R = {} THEN 0 ELSE port[CHOOSE q \in R : TRUE]

Told == [p \in Pid |-> IF Attached(p) THEN port[p] ELSE 0]

SP == INSTANCE SharedProxy WITH User <- Pid, Address <- Port, Nowhere <- 0,
                                endpoint <- Endpoint, told <- Told

ImplementsSharedProxy == SP!Spec

-----------------------------------------------------------------------------
(***************************************************************************)
(* What comments and documents say and the code does not keep              *)
(***************************************************************************)

\* lifecycle.go:63, the broker "shares the proxy's lifetime exactly": no broker
\* runs that neither the lock nor an Attach knows.
BrokerSharesProxyLifetime ==
    \A b \in Pid : kind[b] = "broker" /\ Running(b) => b \in {lock.broker, cs.broker}

\* lifecycle.go:147, BrokerPID is the live broker daemon: as long as it runs and
\* nobody has asked it to stop, its socket is the one the addon reaches.
RecordedBrokerReachable ==
    (cs.op = "none" /\ lock.broker # 0 /\ kind[lock.broker] = "broker"
        /\ phase[lock.broker] = "up") => sock = lock.broker
=============================================================================
