----------------------- MODULE ProxyLifecycleProofs -----------------------
(***************************************************************************)
(* Theorems of ProxyLifecycle, for every set of PIDs, ports and scenarios. *)
(***************************************************************************)
EXTENDS ProxyLifecycle, TLAPS

-----------------------------------------------------------------------------
(***************************************************************************)
(* The operations on the process table, typed                              *)
(***************************************************************************)

ProcTyped ==
    /\ kind \in [Pid -> Kinds]
    /\ start \in [Pid -> 0..MaxBirths]
    /\ phase \in [Pid -> Phases]
    /\ port \in [Pid -> Port \cup {0}]
    /\ births \in 0..MaxBirths

\* A birth leaves the process table well typed, and only under p.
LEMMA SpawnTyped ==
    ASSUME ProcTyped, NEW p \in Pid, NEW k \in Kinds, NEW ph \in Phases,
           NEW n \in Port \cup {0}, Spawn(p, k, ph, n)
    PROVE  /\ ProcTyped'
           /\ kind[p] = "free"
           /\ kind'[p] = k /\ phase'[p] = ph /\ start'[p] = births'
           /\ births' = births + 1
           /\ \A q \in Pid \ {p} : /\ kind'[q] = kind[q] /\ phase'[q] = phase[q]
                                   /\ start'[q] = start[q] /\ port'[q] = port[q]
BY LifecycleAssumption DEF ProcTyped, Spawn, CanSpawn

\* So does an exit.
LEMMA ExitTyped ==
    ASSUME ProcTyped, NEW p \in Pid, Exit(p)
    PROVE  /\ ProcTyped'
           /\ kind'[p] = "free" /\ phase'[p] = "none"
           /\ start' = start /\ births' = births
           /\ \A q \in Pid \ {p} : /\ kind'[q] = kind[q] /\ phase'[q] = phase[q]
                                   /\ port'[q] = port[q]
BY LifecycleAssumption DEF ProcTyped, Exit, Kinds, Phases

\* SIGTERM changes the phase of a daemon that has not been asked to stop.
LEMMA TerminatedTyped ==
    ASSUME ProcTyped, NEW p \in Pid
    PROVE  /\ Terminated(p) \in Phases
           /\ phase[p] \in {"fresh", "attached", "leaving"} => Terminated(p) = phase[p]
           /\ Terminated(p) \in {"fresh", "attached", "leaving"} => Terminated(p) = phase[p]
BY DEF ProcTyped, Terminated, Phases

\* A signal leaves the table well typed and no wrapper in another phase.
LEMMA SigTermTyped ==
    ASSUME ProcTyped, NEW S, SigTerm(S)
    PROVE  /\ phase' \in [Pid -> Phases]
           /\ misfired' \in BOOLEAN
           /\ \A p \in Pid : \/ phase[p] \in {"fresh", "attached", "leaving"}
                             \/ phase'[p] \in {"fresh", "attached", "leaving"}
                             => phase'[p] = phase[p]
<1>1. phase' \in [Pid -> Phases]
  BY TerminatedTyped DEF ProcTyped, SigTerm
<1>2. misfired' \in BOOLEAN
  BY DEF SigTerm
<1>3. ASSUME NEW p \in Pid,
             \/ phase[p] \in {"fresh", "attached", "leaving"}
             \/ phase'[p] \in {"fresh", "attached", "leaving"}
      PROVE  phase'[p] = phase[p]
  BY <1>3, TerminatedTyped DEF SigTerm
<1>4. QED
  BY <1>1, <1>2, <1>3

-----------------------------------------------------------------------------
(***************************************************************************)
(* Types, and what the holder of the flock is                              *)
(***************************************************************************)

\* Whoever is in the process table was born; the holder of an Attach is a fresh
\* wrapper, the holder of a Detach a leaving one, the operator has no PID; a
\* section is only ever at a step of its own operation.
HolderInv ==
    /\ \A p \in Pid : kind[p] # "free" => start[p] >= 1
    /\ cs.op = "none" => cs.step = "none"
    /\ cs.op = "attach" =>
         /\ cs.step \in {"broker", "brokerWait", "proxy", "proxyWait", "record"}
         /\ cs.pid \in Pid /\ kind[cs.pid] = "wrapper" /\ phase[cs.pid] = "fresh"
    /\ cs.op = "detach" =>
         /\ cs.step \in {"drop", "signal", "stopBroker", "clear"}
         /\ cs.pid \in Pid /\ kind[cs.pid] = "wrapper" /\ phase[cs.pid] = "leaving"
    /\ cs.op \in {"orphan", "clean"} =>
         /\ cs.step \in {"signal", "stopBroker", "clear"}
         /\ cs.pid = 0

\* The part of TypeOK that is not the process table.
RestTyped ==
    /\ lock \in LockState
    /\ overlay \in BOOLEAN
    /\ sock \in Pid \cup {0}
    /\ foreign \subseteq Port
    /\ env \in Scenarios
    /\ cs \in Section
    /\ warned \subseteq Pid
    /\ misfired \in BOOLEAN

LEMMA TypeParts == TypeOK <=> ProcTyped /\ RestTyped
BY DEF TypeOK, ProcTyped, RestTyped

\* The idle section and the empty lock are well typed.
LEMMA IdleTyped == NoSection \in Section /\ NoLock \in LockState
BY DEF NoSection, Section, Steps, NoLock, LockState


\* Types and the holder's shape hold at first.
LEMMA HolderInit == Init => TypeOK /\ HolderInv
<1> SUFFICES ASSUME Init PROVE TypeOK /\ HolderInv
  OBVIOUS
<1>1. ProcTyped
  BY LifecycleAssumption DEF Init, ProcTyped, Kinds, Phases
<1>2. lock \in LockState /\ cs \in Section
  BY IdleTyped DEF Init
<1>3. overlay \in BOOLEAN /\ misfired \in BOOLEAN
  BY DEF Init
<1>4. /\ sock \in Pid \cup {0} /\ foreign \subseteq Port
      /\ env \in Scenarios /\ warned \subseteq Pid
  BY DEF Init
<1>5. RestTyped
  BY <1>2, <1>3, <1>4 DEF RestTyped
<1>6. HolderInv
  BY LifecycleAssumption DEF Init, HolderInv, NoSection
<1>7. QED
  BY <1>1, <1>5, <1>6, TypeParts

\* A section that has just ended leaves only the ages of processes to show.
LEMMA HolderIdle ==
    ASSUME cs' = NoSection, \A p \in Pid : kind'[p] # "free" => start'[p] >= 1
    PROVE  HolderInv'
BY DEF HolderInv, NoSection

\* RestTyped of a step that changes neither env nor foreign.
LEMMA RestStep ==
    ASSUME RestTyped, UNCHANGED <<foreign, env>>,
           lock' \in LockState, cs' \in Section, sock' \in Pid \cup {0},
           overlay' \in BOOLEAN, warned' \subseteq Pid, misfired' \in BOOLEAN
    PROVE  RestTyped'
BY DEF RestTyped

\* What the induction carries.
TypeInv == ProcTyped /\ RestTyped /\ HolderInv

\* The steps of an Attach keep types and holder.
LEMMA AttachTyped ==
    ASSUME TypeInv, AttachStep
    PROVE  TypeInv'
<1>0. ProcTyped /\ RestTyped /\ HolderInv
  BY DEF TypeInv
<1>1. ASSUME NEW p \in Pid, AttachReuse(p)
      PROVE  TypeInv'
  <2>1. ProcTyped'
    BY <1>0, <1>1 DEF AttachReuse, ProcTyped, procVars
  <2>2. cs' \in Section
    BY <1>0, <1>1 DEF AttachReuse, RestTyped, LockState, Section, Steps, PruneDead
  <2>3. RestTyped'
    BY <1>0, <1>1, <2>2, RestStep DEF AttachReuse, RestTyped
  <2>4. HolderInv'
    BY <1>0, <1>1, LifecycleAssumption DEF AttachReuse, HolderInv, procVars
  <2>5. QED
    BY <2>1, <2>3, <2>4 DEF TypeInv
<1>2. ASSUME NEW p \in Pid, AttachRestart(p)
      PROVE  TypeInv'
  <2>1. ProcTyped'
    BY <1>0, <1>2 DEF AttachRestart, ProcTyped, procVars
  <2> PICK n \in PortChoices :
        /\ cs' = [op |-> "attach", step |-> "broker", pid |-> p,
                  alive |-> PruneDead(lock.agents), port |-> n,
                  proxy |-> 0, broker |-> 0]
        /\ warned' = warned \cup Stranded(n)
    BY <1>2 DEF AttachRestart
  <2>2. PruneDead(lock.agents) \subseteq Ref /\ n \in Port \cup {0}
    BY <1>0 DEF RestTyped, LockState, PruneDead, PortChoices
  <2>3. cs' \in Section
    BY <2>2 DEF Section, Steps
  <2>4. Stranded(n) \subseteq Pid
    BY <2>2 DEF Stranded, Ref
  <2>5. RestTyped'
    BY <1>0, <1>2, <2>3, <2>4, RestStep DEF AttachRestart, RestTyped
  <2>6. HolderInv'
    BY <1>0, <1>2, LifecycleAssumption DEF AttachRestart, HolderInv, procVars
  <2>7. QED
    BY <2>1, <2>5, <2>6 DEF TypeInv
<1>3. ASSUME NEW p \in Pid, AttachNoPort(p)
      PROVE  TypeInv'
  <2>1. ProcTyped' /\ start' = start /\ \A q \in Pid : kind'[q] # "free" => kind[q] # "free"
    BY <1>0, <1>3, ExitTyped DEF AttachNoPort
  <2>2. RestTyped'
    BY <1>0, <1>3, RestStep DEF AttachNoPort, RestTyped
  <2>3. HolderInv'
    BY <1>0, <1>3, <2>1, LifecycleAssumption DEF AttachNoPort, HolderInv
  <2>4. QED
    BY <2>1, <2>2, <2>3 DEF TypeInv
<1>4. CASE AttachNoBroker
  <2>1. ProcTyped'
    BY <1>0, <1>4 DEF AttachNoBroker, ProcTyped, procVars
  <2>2. RestTyped'
    BY <1>0, <1>4, RestStep DEF AttachNoBroker, RestTyped, Section, Steps
  <2>3. HolderInv'
    BY <1>0, <1>4 DEF AttachNoBroker, HolderInv, procVars, RestTyped, Section
  <2>4. QED
    BY <2>1, <2>2, <2>3 DEF TypeInv
<1>5. CASE AttachBrokerReady
  <2>1. ProcTyped'
    BY <1>0, <1>5 DEF AttachBrokerReady, ProcTyped, procVars
  <2>2. RestTyped'
    BY <1>0, <1>5, RestStep DEF AttachBrokerReady, RestTyped, Section, Steps
  <2>3. HolderInv'
    BY <1>0, <1>5 DEF AttachBrokerReady, HolderInv, procVars, RestTyped, Section
  <2>4. QED
    BY <2>1, <2>2, <2>3 DEF TypeInv
<1>6. CASE AttachProxyReady
  <2>1. ProcTyped'
    BY <1>0, <1>6 DEF AttachProxyReady, ProcTyped, procVars
  <2>2. RestTyped'
    BY <1>0, <1>6, RestStep DEF AttachProxyReady, RestTyped, Section, Steps
  <2>3. HolderInv'
    BY <1>0, <1>6 DEF AttachProxyReady, HolderInv, procVars, RestTyped, Section
  <2>4. QED
    BY <2>1, <2>2, <2>3 DEF TypeInv
<1>7. CASE AttachBrokerFailed
  <2>1. ProcTyped' /\ misfired' \in BOOLEAN
    BY <1>0, <1>7, SigTermTyped DEF AttachBrokerFailed, ProcTyped
  <2>2. \A p \in Pid : phase[p] \in {"fresh", "leaving"} => phase'[p] = phase[p]
    BY <1>0, <1>7, SigTermTyped DEF AttachBrokerFailed
  <2>3. cs' \in Section /\ sock' \in Pid \cup {0}
    BY <1>0, <1>7 DEF AttachBrokerFailed, RestTyped, Section, Steps
  <2>4. RestTyped'
    BY <1>0, <1>7, <2>1, <2>3, RestStep DEF AttachBrokerFailed, RestTyped
  <2>5. HolderInv'
    BY <1>0, <1>7, <2>2 DEF AttachBrokerFailed, HolderInv, RestTyped, Section
  <2>6. QED
    BY <2>1, <2>4, <2>5 DEF TypeInv
<1>8. ASSUME NEW p \in Pid, AttachSpawnBroker(p)
      PROVE  TypeInv'
  <2>1. Spawn(p, "broker", "starting", 0) /\ 0 \in Port \cup {0}
    BY <1>0, <1>8 DEF AttachSpawnBroker, RestTyped, Section
  <2>2. "broker" \in Kinds /\ "starting" \in Phases
    BY DEF Kinds, Phases
  <2>3. /\ ProcTyped'
        /\ kind[p] = "free" /\ start'[p] = births + 1
        /\ \A q \in Pid \ {p} : /\ kind'[q] = kind[q] /\ phase'[q] = phase[q]
                                /\ start'[q] = start[q]
    BY <1>0, <2>1, <2>2, SpawnTyped
  <2>4. cs' \in Section
    BY <1>0, <1>8 DEF AttachSpawnBroker, RestTyped, Section, Steps
  <2>5. RestTyped'
    BY <1>0, <1>8, <2>4, RestStep DEF AttachSpawnBroker, RestTyped
  <2>6. \A q \in Pid : kind'[q] # "free" => start'[q] >= 1
    BY <1>0, <2>3, LifecycleAssumption DEF HolderInv, ProcTyped
  <2>7. HolderInv'
    BY <1>0, <1>8, <2>3, <2>6 DEF AttachSpawnBroker, HolderInv, RestTyped, Section
  <2>8. QED
    BY <2>3, <2>5, <2>7 DEF TypeInv
<1>9. ASSUME NEW p \in Pid, AttachSpawnProxy(p)
      PROVE  TypeInv'
  <2>1. Spawn(p, "proxy", "starting", cs.port) /\ cs.port \in Port \cup {0}
    BY <1>0, <1>9 DEF AttachSpawnProxy, RestTyped, Section
  <2>2. "proxy" \in Kinds /\ "starting" \in Phases
    BY DEF Kinds, Phases
  <2>3. /\ ProcTyped'
        /\ kind[p] = "free" /\ start'[p] = births + 1
        /\ \A q \in Pid \ {p} : /\ kind'[q] = kind[q] /\ phase'[q] = phase[q]
                                /\ start'[q] = start[q]
    BY <1>0, <2>1, <2>2, SpawnTyped
  <2>4. cs' \in Section
    BY <1>0, <1>9 DEF AttachSpawnProxy, RestTyped, Section, Steps
  <2>5. RestTyped'
    BY <1>0, <1>9, <2>4, RestStep DEF AttachSpawnProxy, RestTyped
  <2>6. \A q \in Pid : kind'[q] # "free" => start'[q] >= 1
    BY <1>0, <2>3, LifecycleAssumption DEF HolderInv, ProcTyped
  <2>7. HolderInv'
    BY <1>0, <1>9, <2>3, <2>6 DEF AttachSpawnProxy, HolderInv, RestTyped, Section
  <2>8. QED
    BY <2>3, <2>5, <2>7 DEF TypeInv
<1>10. CASE AttachProxyFailed
  <2>1. cs.op = "attach" /\ cs.pid \in Pid
    BY <1>0, <1>10 DEF AttachProxyFailed, HolderInv, RestTyped, Section
  <2>2. /\ kind' = [kind EXCEPT ![cs.pid] = "free"]
        /\ UNCHANGED <<start, port, births>>
    BY <1>10 DEF AttachProxyFailed
  <2>3. phase' \in [Pid -> Phases]
    BY <1>0, <1>10, TerminatedTyped DEF AttachProxyFailed, Phases, ProcTyped
  <2>4. ProcTyped'
    BY <1>0, <2>2, <2>3 DEF ProcTyped, Kinds
  <2>5. misfired' \in BOOLEAN
    BY <1>10 DEF AttachProxyFailed
  <2>6. RestTyped'
    BY <1>0, <1>10, <2>5, IdleTyped, RestStep DEF AttachProxyFailed, RestTyped
  <2>7. HolderInv'
    BY <1>0, <1>10, <2>2, HolderIdle DEF AttachProxyFailed, HolderInv, ProcTyped
  <2>8. QED
    BY <2>4, <2>6, <2>7 DEF TypeInv
<1>11. CASE AttachRecord
  <2>1. cs.pid \in Pid /\ start[cs.pid] \in 1..MaxBirths
    <3>1. cs.pid \in Pid /\ kind[cs.pid] # "free"
      BY <1>0, <1>11 DEF AttachRecord, HolderInv
    <3>2. start[cs.pid] >= 1
      BY <1>0, <3>1 DEF HolderInv
    <3>3. start[cs.pid] \in 0..MaxBirths
      BY <1>0, <3>1 DEF ProcTyped
    <3>4. QED
      BY <3>1, <3>2, <3>3, LifecycleAssumption
  <2>2. SelfRef(cs.pid) \in Ref
    BY <2>1 DEF SelfRef, Ref
  <2>3. cs.alive \subseteq Ref /\ cs.port \in Port \cup {0}
    BY <1>0 DEF RestTyped, Section
  <2>4. AddRef(cs.alive, SelfRef(cs.pid)) \subseteq Ref
    BY <2>2, <2>3 DEF AddRef
  <2>5. lock' \in LockState
    BY <1>0, <1>11, <2>4 DEF AttachRecord, LockState, RestTyped, Section
  <2>6. ProcTyped'
    BY <1>0, <1>11, <2>1, <2>3 DEF AttachRecord, ProcTyped, Phases
  <2>7. RestTyped'
    BY <1>0, <1>11, <2>5, IdleTyped, RestStep DEF AttachRecord, RestTyped
  <2>8. HolderInv'
    BY <1>0, <1>11, HolderIdle DEF AttachRecord, HolderInv
  <2>9. QED
    BY <2>6, <2>7, <2>8 DEF TypeInv
<1>12. CASE AttachRecordFailed
  <2>1. cs.pid \in Pid /\ Exit(cs.pid)
    BY <1>0, <1>12 DEF AttachRecordFailed, HolderInv
  <2>2. ProcTyped' /\ \A q \in Pid : kind'[q] # "free" => start'[q] >= 1
    BY <1>0, <2>1, ExitTyped DEF HolderInv
  <2>3. RestTyped'
    BY <1>0, <1>12, IdleTyped, RestStep DEF AttachRecordFailed, RestTyped
  <2>4. HolderInv'
    BY <1>12, <2>2, HolderIdle DEF AttachRecordFailed
  <2>5. QED
    BY <2>2, <2>3, <2>4 DEF TypeInv
<1>13. QED
  BY <1>1, <1>2, <1>3, <1>4, <1>5, <1>6, <1>7, <1>8, <1>9, <1>10, <1>11, <1>12
     DEF AttachStep

\* The steps of a Detach, a doctor and a clean keep them.
LEMMA TeardownTyped ==
    ASSUME TypeInv, TeardownStep
    PROVE  TypeInv'
<1>0. ProcTyped /\ RestTyped /\ HolderInv
  BY DEF TypeInv
<1>1. ASSUME NEW p \in Pid, DetachBegin(p)
      PROVE  TypeInv'
  <2>1. ProcTyped'
    BY <1>0, <1>1 DEF DetachBegin, ProcTyped, Phases
  <2>2. cs' \in Section
    BY <1>1 DEF DetachBegin, Section, Steps, NoSection
  <2>3. RestTyped'
    BY <1>0, <1>1, <2>2, RestStep DEF DetachBegin, RestTyped
  <2>4. HolderInv'
    BY <1>0, <1>1 DEF DetachBegin, HolderInv, ProcTyped, NoSection
  <2>5. QED
    BY <2>1, <2>3, <2>4 DEF TypeInv
<1>2. CASE DetachDrop
  <2>1. cs.op = "detach" /\ cs.pid \in Pid /\ Exit(cs.pid)
    BY <1>0, <1>2 DEF DetachDrop, HolderInv, RestTyped, Section
  <2>2. ProcTyped' /\ \A q \in Pid : kind'[q] # "free" => start'[q] >= 1
    BY <1>0, <2>1, ExitTyped DEF HolderInv
  <2>3. lock' \in LockState
    BY <1>0, <1>2 DEF DetachDrop, RestTyped, LockState, RemoveRef
  <2>4. RestTyped'
    BY <1>0, <1>2, <2>3, IdleTyped, RestStep DEF DetachDrop, RestTyped
  <2>5. HolderInv'
    BY <1>2, <2>2, HolderIdle DEF DetachDrop
  <2>6. QED
    BY <2>2, <2>4, <2>5 DEF TypeInv
<1>3. CASE CleanOrphanBegin
  <2>1. ProcTyped'
    BY <1>0, <1>3 DEF CleanOrphanBegin, ProcTyped, procVars
  <2>2. RestTyped'
    BY <1>0, <1>3, RestStep DEF CleanOrphanBegin, RestTyped, Section, Steps, NoSection
  <2>3. HolderInv'
    BY <1>0, <1>3 DEF CleanOrphanBegin, HolderInv, procVars, RestTyped, Section, NoSection
  <2>4. QED
    BY <2>1, <2>2, <2>3 DEF TypeInv
<1>4. ASSUME NEW f \in BOOLEAN, CleanBegin(f)
      PROVE  TypeInv'
  <2>1. ProcTyped'
    BY <1>0, <1>4 DEF CleanBegin, ProcTyped, procVars
  <2>2. RestTyped'
    BY <1>0, <1>4, RestStep DEF CleanBegin, RestTyped, Section, Steps, NoSection
  <2>3. HolderInv'
    BY <1>0, <1>4 DEF CleanBegin, HolderInv, procVars, RestTyped, Section, NoSection
  <2>4. QED
    BY <2>1, <2>2, <2>3 DEF TypeInv
<1>5. CASE TeardownSignal
  <2>1. ProcTyped' /\ misfired' \in BOOLEAN
    BY <1>0, <1>5, SigTermTyped DEF TeardownSignal, ProcTyped
  <2>2. \A p \in Pid : phase[p] \in {"fresh", "leaving"} => phase'[p] = phase[p]
    BY <1>0, <1>5, SigTermTyped DEF TeardownSignal
  <2>3. cs' \in Section /\ sock' \in Pid \cup {0}
    BY <1>0, <1>5 DEF TeardownSignal, RestTyped, Section, Steps
  <2>4. RestTyped'
    BY <1>0, <1>5, <2>1, <2>3, RestStep DEF TeardownSignal, RestTyped
  <2>5. HolderInv'
    BY <1>0, <1>5, <2>2 DEF TeardownSignal, HolderInv, RestTyped, Section
  <2>6. QED
    BY <2>1, <2>4, <2>5 DEF TypeInv
<1>6. CASE TeardownBroker
  <2>1. ProcTyped' /\ misfired' \in BOOLEAN
    BY <1>0, <1>6, SigTermTyped DEF TeardownBroker, ProcTyped
  <2>2. \A p \in Pid : phase[p] \in {"fresh", "leaving"} => phase'[p] = phase[p]
    BY <1>0, <1>6, SigTermTyped DEF TeardownBroker
  <2>3. cs' \in Section /\ sock' \in Pid \cup {0}
    BY <1>0, <1>6 DEF TeardownBroker, RestTyped, Section, Steps
  <2>4. RestTyped'
    BY <1>0, <1>6, <2>1, <2>3, RestStep DEF TeardownBroker, RestTyped
  <2>5. HolderInv'
    BY <1>0, <1>6, <2>2 DEF TeardownBroker, HolderInv, RestTyped, Section
  <2>6. QED
    BY <2>1, <2>4, <2>5 DEF TypeInv
<1>7. ASSUME SectionExit
      PROVE  ProcTyped' /\ \A q \in Pid : kind'[q] # "free" => start'[q] >= 1
  <2>1. CASE cs.pid # 0
    <3>1. cs.pid \in Pid /\ Exit(cs.pid)
      BY <1>0, <1>7, <2>1 DEF SectionExit, RestTyped, Section
    <3>2. QED
      BY <1>0, <3>1, ExitTyped DEF HolderInv
  <2>2. CASE cs.pid = 0
    BY <1>0, <1>7, <2>2 DEF SectionExit, procVars, ProcTyped, HolderInv
  <2>3. QED
    BY <2>1, <2>2
<1>8. CASE TeardownClear
  <2>1. RestTyped'
    BY <1>0, <1>8, IdleTyped, RestStep DEF TeardownClear, RestTyped
  <2>2. HolderInv'
    BY <1>7, <1>8, HolderIdle DEF TeardownClear
  <2>3. QED
    BY <1>7, <1>8, <2>1, <2>2 DEF TypeInv, TeardownClear
<1>9. CASE TeardownFailed
  <2>1. lock' \in {lock, NoLock} /\ overlay' \in {overlay, FALSE}
    BY <1>9 DEF TeardownFailed
  <2>2. RestTyped'
    BY <1>0, <1>9, <2>1, IdleTyped, RestStep DEF TeardownFailed, RestTyped
  <2>3. HolderInv'
    BY <1>7, <1>9, HolderIdle DEF TeardownFailed
  <2>4. QED
    BY <1>7, <1>9, <2>2, <2>3 DEF TypeInv, TeardownFailed
<1>10. QED
  BY <1>1, <1>2, <1>3, <1>4, <1>5, <1>6, <1>8, <1>9 DEF TeardownStep

\* The steps of the daemons keep them.
LEMMA DaemonTyped ==
    ASSUME TypeInv, DaemonStep
    PROVE  TypeInv'
<1>0. ProcTyped /\ RestTyped /\ HolderInv
  BY DEF TypeInv
<1> PICK p \in Pid : \/ ProxyBind(p) \/ ProxyExit(p) \/ ProxyCrash(p)
                     \/ BrokerBind(p) \/ BrokerClose(p) \/ BrokerExit(p)
                     \/ BrokerCrash(p)
  BY DEF DaemonStep
<1>1. kind[p] \in {"proxy", "broker"}
  BY DEF ProxyBind, ProxyExit, ProxyCrash, BrokerBind, BrokerClose, BrokerExit, BrokerCrash
<1>2. /\ UNCHANGED <<lock, overlay, foreign, env, cs, warned, misfired>>
      /\ sock' \in {sock, p, 0}
  BY DEF ProxyBind, ProxyExit, ProxyCrash, BrokerBind, BrokerClose, BrokerExit, BrokerCrash
<1>3. RestTyped'
  BY <1>0, <1>2, RestStep DEF RestTyped
<1>4. \/ Exit(p)
      \/ /\ phase' \in {[phase EXCEPT ![p] = "up"], [phase EXCEPT ![p] = "closed"]}
         /\ UNCHANGED <<kind, start, port, births>>
  BY DEF ProxyBind, ProxyExit, ProxyCrash, BrokerBind, BrokerClose, BrokerExit, BrokerCrash
<1>5. CASE Exit(p)
  <2>1. /\ ProcTyped'
        /\ kind'[p] = "free" /\ start' = start
        /\ \A q \in Pid \ {p} : kind'[q] = kind[q] /\ phase'[q] = phase[q]
    BY <1>0, <1>5, ExitTyped
  <2>2. HolderInv'
    BY <1>0, <1>1, <1>2, <2>1 DEF HolderInv
  <2>3. QED
    BY <1>3, <2>1, <2>2 DEF TypeInv
<1>6. CASE /\ phase' \in {[phase EXCEPT ![p] = "up"], [phase EXCEPT ![p] = "closed"]}
           /\ UNCHANGED <<kind, start, port, births>>
  <2>1. ProcTyped'
    BY <1>0, <1>6 DEF ProcTyped, Phases
  <2>2. \A q \in Pid \ {p} : phase'[q] = phase[q]
    BY <1>0, <1>6 DEF ProcTyped
  <2>3. HolderInv'
    BY <1>0, <1>1, <1>2, <1>6, <2>2 DEF HolderInv
  <2>4. QED
    BY <1>3, <2>1, <2>3 DEF TypeInv
<1>7. QED
  BY <1>4, <1>5, <1>6

\* So does everything that happens outside the lifecycle.
LEMMA WorldTyped ==
    ASSUME TypeInv, WorldStep
    PROVE  TypeInv'
<1>0. ProcTyped /\ RestTyped /\ HolderInv
  BY DEF TypeInv
<1>1. ASSUME NEW p \in Pid, StartRun(p)
      PROVE  TypeInv'
  <2>1. Spawn(p, "wrapper", "fresh", 0) /\ "wrapper" \in Kinds /\ "fresh" \in Phases
    BY <1>1 DEF StartRun, Kinds, Phases
  <2>2. /\ ProcTyped'
        /\ kind[p] = "free" /\ start'[p] = births + 1
        /\ \A q \in Pid \ {p} : /\ kind'[q] = kind[q] /\ phase'[q] = phase[q]
                                /\ start'[q] = start[q]
    BY <1>0, <2>1, SpawnTyped
  <2>3. RestTyped'
    BY <1>0, <1>1, RestStep DEF StartRun, RestTyped
  <2>4. \A q \in Pid : kind'[q] # "free" => start'[q] >= 1
    BY <1>0, <2>2, LifecycleAssumption DEF HolderInv, ProcTyped
  <2>5. HolderInv'
    BY <1>0, <1>1, <2>2, <2>4 DEF StartRun, HolderInv
  <2>6. QED
    BY <2>2, <2>3, <2>5 DEF TypeInv
<1>2. ASSUME NEW p \in Pid, OtherStarts(p)
      PROVE  TypeInv'
  <2>1. Spawn(p, "other", "none", 0) /\ "other" \in Kinds /\ "none" \in Phases
    BY <1>2 DEF OtherStarts, Kinds, Phases
  <2>2. /\ ProcTyped'
        /\ kind[p] = "free" /\ start'[p] = births + 1
        /\ \A q \in Pid \ {p} : /\ kind'[q] = kind[q] /\ phase'[q] = phase[q]
                                /\ start'[q] = start[q]
    BY <1>0, <2>1, SpawnTyped
  <2>3. RestTyped'
    BY <1>0, <1>2, RestStep DEF OtherStarts, RestTyped
  <2>4. \A q \in Pid : kind'[q] # "free" => start'[q] >= 1
    BY <1>0, <2>2, LifecycleAssumption DEF HolderInv, ProcTyped
  <2>5. HolderInv'
    BY <1>0, <1>2, <2>2, <2>4 DEF OtherStarts, HolderInv
  <2>6. QED
    BY <2>2, <2>3, <2>5 DEF TypeInv
<1>3. ASSUME NEW p \in Pid, KillWrapper(p) \/ OtherExits(p)
      PROVE  TypeInv'
  <2>1. /\ Exit(p)
        /\ UNCHANGED <<lock, overlay, sock, foreign, env, cs, warned, misfired>>
    BY <1>3 DEF KillWrapper, OtherExits
  <2>2. cs.pid # p \/ cs.op \in {"none", "orphan", "clean"}
    BY <1>0, <1>3 DEF KillWrapper, OtherExits, HolderInv, RestTyped, Section
  <2>3. /\ ProcTyped'
        /\ kind'[p] = "free" /\ start' = start
        /\ \A q \in Pid \ {p} : kind'[q] = kind[q] /\ phase'[q] = phase[q]
    BY <1>0, <2>1, ExitTyped
  <2>4. RestTyped'
    BY <1>0, <2>1, RestStep DEF RestTyped
  <2>5. HolderInv'
    BY <1>0, <2>1, <2>2, <2>3 DEF HolderInv
  <2>6. QED
    BY <2>3, <2>4, <2>5 DEF TypeInv
<1>4. CASE KillHolder
  <2>1. ProcTyped' /\ \A q \in Pid : kind'[q] # "free" => start'[q] >= 1
    <3>1. CASE cs.pid # 0
      <4>1. cs.pid \in Pid /\ Exit(cs.pid)
        BY <1>0, <1>4, <3>1 DEF KillHolder, SectionExit, RestTyped, Section
      <4>2. QED
        BY <1>0, <4>1, ExitTyped DEF HolderInv
    <3>2. CASE cs.pid = 0
      BY <1>0, <1>4, <3>2 DEF KillHolder, SectionExit, procVars, ProcTyped, HolderInv
    <3>3. QED
      BY <3>1, <3>2
  <2>2. lock' \in {lock, NoLock}
    BY <1>4 DEF KillHolder
  <2>3. RestTyped'
    BY <1>0, <1>4, <2>2, IdleTyped, RestStep DEF KillHolder, RestTyped
  <2>4. HolderInv'
    BY <1>4, <2>1, HolderIdle DEF KillHolder
  <2>5. QED
    BY <2>1, <2>3, <2>4 DEF TypeInv
<1>5. CASE AllowOnce
  <2>1. ProcTyped' /\ HolderInv'
    BY <1>0, <1>5 DEF AllowOnce, ProcTyped, HolderInv, procVars
  <2>2. RestTyped'
    BY <1>0, <1>5, RestStep DEF AllowOnce, RestTyped
  <2>3. QED
    BY <2>1, <2>2 DEF TypeInv
<1>6. ASSUME NEW n \in Port, ForeignBinds(n) \/ ForeignCloses(n)
      PROVE  TypeInv'
  <2>1. ProcTyped' /\ HolderInv'
    BY <1>0, <1>6 DEF ForeignBinds, ForeignCloses, ProcTyped, HolderInv, procVars
  <2>2. RestTyped'
    BY <1>0, <1>6 DEF ForeignBinds, ForeignCloses, RestTyped
  <2>3. QED
    BY <2>1, <2>2 DEF TypeInv
<1>7. QED
  BY <1>1, <1>2, <1>3, <1>4, <1>5, <1>6 DEF WorldStep

\* Stuttering keeps them.
LEMMA StutterTyped ==
    ASSUME TypeInv, UNCHANGED vars
    PROVE  TypeInv'
BY DEF TypeInv, ProcTyped, RestTyped, HolderInv, vars

LEMMA TypeStep == TypeInv /\ [Next]_vars => TypeInv'
BY AttachTyped, TeardownTyped, DaemonTyped, WorldTyped, StutterTyped DEF Next

\* Every variable keeps its type: no section writes a lock, a process table or
\* locals of a shape the code's structs do not have.
THEOREM TypeCorrect == Spec => []TypeOK
<1>1. Init => TypeInv
  BY HolderInit, TypeParts DEF TypeInv
<1>2. TypeInv => TypeOK
  BY TypeParts DEF TypeInv
<1>3. QED
  BY <1>1, <1>2, TypeStep, PTL DEF Spec

-----------------------------------------------------------------------------
(***************************************************************************)
(* The refcount                                                            *)
(***************************************************************************)

Quiet == env \cap {"force", "io", "torn"} = {}

InUse(p) == kind[p] = "wrapper" /\ phase[p] \in {"attached", "leaving"}

TearsDown == cs.step \in {"signal", "stopBroker", "clear"}

\* No entry is younger than the kernel's clock, so a process born later cannot
\* be taken for the one an entry records; an Attach works on entries of the
\* lock it read.
AgesInv ==
    /\ \A p \in Pid : start[p] <= births
    /\ \A r \in lock.agents : r.start <= births
    /\ cs.op = "attach" => cs.alive \subseteq lock.agents

\* RefcountExact, what makes Attach's AddRef effective, and what Detach, doctor
\* and clean established before they began to tear down.  That an entry is never
\* a stranger holds whatever fails and whoever insists.
RefsInv ==
    /\ \A r \in PruneDead(lock.agents) : InUse(r.pid)
    /\ cs.op = "attach" => \A r \in cs.alive : r.pid # cs.pid
    /\ Quiet =>
        /\ \A p \in Pid : Attached(p) => SelfRef(p) \in lock.agents
        /\ cs.op = "attach" => \A p \in Pid : Attached(p) => SelfRef(p) \in cs.alive
        /\ TearsDown => \A p \in Pid : ~Attached(p)

\* A step that attaches nobody, and under which an old process is still what it
\* was: the steps of everything but Attach's last.
Calm ==
    /\ env' = env
    /\ births <= births'
    /\ \A p \in Pid :
        /\ start'[p] <= births'
        /\ Attached(p)' => Attached(p) /\ start'[p] = start[p]
        /\ kind'[p] # "free" /\ start'[p] <= births =>
              kind[p] # "free" /\ start'[p] = start[p] /\ (InUse(p) => InUse(p)')

\* The section goes on, ends, or an Attach begins on what it read and pruned.
AttachGoesOn ==
    cs'.op = "attach" =>
        /\ lock' = lock
        /\ \/ cs.op = "attach" /\ cs'.alive = cs.alive /\ cs'.pid = cs.pid
           \/ cs'.alive = PruneDead(lock.agents) /\ ~InUse(cs'.pid)

\* A calm step that drops no entry of an attached wrapper, and begins a teardown
\* only when none is attached, preserves everything.
LEMMA CalmKeeps ==
    ASSUME TypeInv, TypeInv', AgesInv, RefsInv, Calm, AttachGoesOn,
           lock'.agents \subseteq lock.agents,
           Quiet' => \A p \in Pid : Attached(p)' => SelfRef(p) \in lock'.agents,
           Quiet' /\ TearsDown' => TearsDown \/ \A p \in Pid : ~Attached(p)
    PROVE  AgesInv' /\ RefsInv'
<1>0. /\ births \in Nat /\ births' \in Nat
      /\ \A r \in lock.agents : r.pid \in Pid /\ r.start \in Nat
      /\ \A p \in Pid : start[p] \in Nat /\ start'[p] \in Nat
  BY LifecycleAssumption DEF TypeInv, ProcTyped, RestTyped, LockState, Ref
<1>1. AgesInv'
  <2>1. PruneDead(lock.agents) \subseteq lock.agents
    BY DEF PruneDead
  <2>2. cs'.op = "attach" => cs'.alive \subseteq lock'.agents
    BY <2>1 DEF AttachGoesOn, AgesInv
  <2>3. QED
    BY <1>0, <2>2 DEF AgesInv, Calm
<1>2. ASSUME Quiet' PROVE Quiet
  BY <1>2 DEF Quiet, Calm
<1>3. ASSUME Quiet', NEW p \in Pid, Attached(p)'
      PROVE  SelfRef(p)' \in lock'.agents /\ (cs'.op = "attach" => SelfRef(p)' \in cs'.alive)
  <2>1. Attached(p) /\ SelfRef(p)' = SelfRef(p)
    BY <1>3 DEF Calm, SelfRef
  <2>2. SelfRef(p) \in lock.agents /\ SelfRef(p)' \in lock'.agents
    BY <1>3, <2>1
  <2>3. SelfRef(p) \in PruneDead(lock.agents)
    BY <2>1, <2>2, LifecycleAssumption DEF PruneDead, SelfRef, Alive, Attached
  <2>4. QED
    BY <1>2, <1>3, <2>1, <2>2, <2>3 DEF RefsInv, AttachGoesOn
<1>4. ASSUME NEW r \in PruneDead(lock.agents)'
      PROVE  InUse(r.pid)'
  <2>1. r \in lock.agents /\ r.pid \in Pid /\ kind'[r.pid] # "free" /\ start'[r.pid] = r.start
    BY <1>0, <1>4 DEF PruneDead, Alive
  <2>2. start'[r.pid] <= births
    BY <2>1 DEF AgesInv
  <2>3. /\ kind[r.pid] # "free" /\ start[r.pid] = r.start
        /\ InUse(r.pid) => InUse(r.pid)'
    BY <2>1, <2>2 DEF Calm
  <2>4. r \in PruneDead(lock.agents)
    BY <2>1, <2>3, LifecycleAssumption DEF PruneDead, Alive
  <2>5. QED
    BY <1>4, <2>3, <2>4 DEF RefsInv
<1>5. ASSUME cs'.op = "attach", NEW r \in cs'.alive PROVE r.pid # cs'.pid
  BY <1>5 DEF RefsInv, AttachGoesOn
<1>6. ASSUME Quiet', TearsDown', NEW p \in Pid PROVE ~Attached(p)'
  BY <1>2, <1>6 DEF RefsInv, Calm
<1>7. QED
  BY <1>1, <1>3, <1>4, <1>5, <1>6 DEF RefsInv

\* Start times are numbers the kernel's clock has passed.
LEMMA TimesTyped ==
    ASSUME ProcTyped, AgesInv
    PROVE  births \in Nat /\ \A p \in Pid : start[p] \in Nat /\ start[p] <= births
<1>1. births \in Nat
  BY LifecycleAssumption DEF ProcTyped
<1>2. ASSUME NEW p \in Pid PROVE start[p] \in Nat
  BY LifecycleAssumption DEF ProcTyped
<1>3. QED
  BY <1>1, <1>2 DEF AgesInv

\* The kinds of step on the process table that are calm.
LEMMA TableCalm ==
    ASSUME TypeInv, AgesInv, env' = env,
           \/ UNCHANGED procVars
           \/ \E p \in Pid : Exit(p)
           \/ \E p \in Pid, k \in Kinds, ph \in Phases \ {"attached"},
                 n \in Port \cup {0} : Spawn(p, k, ph, n)
           \/ (\E S : SigTerm(S)) /\ UNCHANGED <<kind, start, births>>
    PROVE  Calm
<1>0. /\ ProcTyped /\ births \in Nat
      /\ \A p \in Pid : start[p] \in Nat /\ start[p] <= births
  BY LifecycleAssumption DEF TypeInv, ProcTyped, AgesInv
<1>1. CASE UNCHANGED procVars
  BY <1>0, <1>1 DEF Calm, procVars, Attached, InUse
<1>2. ASSUME NEW p \in Pid, Exit(p) PROVE Calm
  <2>1. /\ kind'[p] = "free" /\ start' = start /\ births' = births
        /\ \A q \in Pid \ {p} : kind'[q] = kind[q] /\ phase'[q] = phase[q]
    BY <1>0, <1>2, ExitTyped
  <2>2. QED
    BY <1>0, <2>1 DEF Calm, Attached, InUse
<1>3. ASSUME NEW p \in Pid, NEW k \in Kinds, NEW ph \in Phases \ {"attached"},
             NEW n \in Port \cup {0}, Spawn(p, k, ph, n)
      PROVE  Calm
  <2>1. /\ phase'[p] = ph /\ start'[p] = births' /\ births' = births + 1
        /\ \A q \in Pid \ {p} : /\ kind'[q] = kind[q] /\ phase'[q] = phase[q]
                                /\ start'[q] = start[q]
    BY <1>0, <1>3, SpawnTyped
  <2>2. QED
    BY <1>0, <2>1 DEF Calm, Attached, InUse
<1>4. ASSUME NEW S, SigTerm(S), UNCHANGED <<kind, start, births>> PROVE Calm
  <2>1. \A p \in Pid : \/ phase[p] \in {"fresh", "attached", "leaving"}
                       \/ phase'[p] \in {"fresh", "attached", "leaving"}
                       => phase'[p] = phase[p]
    BY <1>0, <1>4, SigTermTyped
  <2>2. QED
    BY <1>0, <1>4, <2>1 DEF Calm, Attached, InUse
<1>5. QED
  BY <1>1, <1>2, <1>3, <1>4

\* An attached wrapper is in the lock, and passes pruneDead.
LEMMA AttachedRecorded ==
    ASSUME RefsInv, Quiet, NEW p \in Pid, Attached(p)
    PROVE  SelfRef(p) \in lock.agents /\ SelfRef(p) \in PruneDead(lock.agents)
BY LifecycleAssumption DEF RefsInv, PruneDead, SelfRef, Alive, Attached

\* A calm step that changes neither lock nor the course of the section.
LEMMA CalmPlain ==
    ASSUME TypeInv, TypeInv', AgesInv, RefsInv, Calm, AttachGoesOn, lock' = lock,
           TearsDown' => TearsDown
    PROVE  AgesInv' /\ RefsInv'
<1>1. ASSUME Quiet', NEW p \in Pid, Attached(p)' PROVE SelfRef(p) \in lock'.agents
  BY <1>1, AttachedRecorded DEF Calm, Quiet
<1>2. QED
  BY <1>1, CalmKeeps

\* Every step preserves the refcount.
LEMMA RefsStep ==
    ASSUME TypeInv, TypeInv', AgesInv, RefsInv, [Next]_vars
    PROVE  AgesInv' /\ RefsInv'
<1>0. ProcTyped /\ RestTyped /\ HolderInv
  BY DEF TypeInv
<1>1. ASSUME NEW p \in Pid, AttachReuse(p) \/ AttachRestart(p)
      PROVE  AgesInv' /\ RefsInv'
  <2>1. /\ UNCHANGED procVars /\ lock' = lock /\ env' = env
        /\ cs'.op = "attach" /\ cs'.step \in {"record", "broker"}
        /\ cs'.pid = p /\ cs'.alive = PruneDead(lock.agents)
    BY <1>1 DEF AttachReuse, AttachRestart
  <2>2. AttachGoesOn /\ ~TearsDown'
    BY <1>1, <2>1 DEF AttachGoesOn, InUse, TearsDown, AttachReuse, AttachRestart
  <2>3. QED
    BY <2>1, <2>2, TableCalm, CalmPlain
<1>2. ASSUME NEW p \in Pid, AttachNoPort(p) \/ KillWrapper(p) \/ OtherExits(p)
      PROVE  AgesInv' /\ RefsInv'
  <2>1. Exit(p) /\ UNCHANGED <<lock, cs, env>>
    BY <1>2 DEF AttachNoPort, KillWrapper, OtherExits
  <2>2. QED
    BY <2>1, TableCalm, CalmPlain DEF AttachGoesOn, TearsDown
<1>3. ASSUME AttachNoBroker \/ AttachBrokerReady \/ AttachProxyReady
      PROVE  AgesInv' /\ RefsInv'
  <2>1. /\ UNCHANGED procVars /\ lock' = lock /\ env' = env
        /\ cs'.step \in {"proxy", "record"}
        /\ cs'.op = cs.op /\ cs'.alive = cs.alive /\ cs'.pid = cs.pid
    BY <1>0, <1>3 DEF AttachNoBroker, AttachBrokerReady, AttachProxyReady, RestTyped, Section
  <2>2. QED
    BY <2>1, TableCalm, CalmPlain DEF AttachGoesOn, TearsDown
<1>4. ASSUME AttachBrokerFailed \/ TeardownSignal \/ TeardownBroker
      PROVE  AgesInv' /\ RefsInv'
  <2>1. /\ \E S : SigTerm(S)
        /\ UNCHANGED <<kind, start, births>> /\ lock' = lock /\ env' = env
    BY <1>4 DEF AttachBrokerFailed, TeardownSignal, TeardownBroker
  <2>2. /\ cs'.op = cs.op /\ cs'.alive = cs.alive /\ cs'.pid = cs.pid
        /\ TearsDown' => TearsDown
    BY <1>0, <1>4 DEF AttachBrokerFailed, TeardownSignal, TeardownBroker, RestTyped,
                      Section, TearsDown
  <2>3. QED
    BY <2>1, <2>2, TableCalm, CalmPlain DEF AttachGoesOn
<1>5. ASSUME NEW p \in Pid, AttachSpawnBroker(p) \/ AttachSpawnProxy(p)
      PROVE  AgesInv' /\ RefsInv'
  <2>1. \E k \in Kinds, ph \in Phases \ {"attached"}, n \in Port \cup {0} : Spawn(p, k, ph, n)
    <3>1. {"proxy", "broker"} \subseteq Kinds /\ "starting" \in Phases \ {"attached"}
      BY DEF Kinds, Phases
    <3>2. cs.port \in Port \cup {0}
      BY <1>0 DEF RestTyped, Section
    <3>3. CASE AttachSpawnBroker(p)
      BY <3>1, <3>3 DEF AttachSpawnBroker
    <3>4. CASE AttachSpawnProxy(p)
      BY <3>1, <3>2, <3>4 DEF AttachSpawnProxy
    <3>5. QED
      BY <1>5, <3>3, <3>4
  <2>2. /\ lock' = lock /\ env' = env /\ cs'.step \in {"brokerWait", "proxyWait"}
        /\ cs'.op = cs.op /\ cs'.alive = cs.alive /\ cs'.pid = cs.pid
    BY <1>0, <1>5 DEF AttachSpawnBroker, AttachSpawnProxy, RestTyped, Section
  <2>3. Calm
    BY <2>1, <2>2, TableCalm
  <2>4. QED
    BY <2>2, <2>3, CalmPlain DEF AttachGoesOn, TearsDown
<1>6. CASE AttachProxyFailed
  <2>1. cs.pid \in Pid /\ cs'.op = "none" /\ cs'.step = "none" /\ lock' = lock
    BY <1>0, <1>6 DEF AttachProxyFailed, HolderInv, NoSection, RestTyped, Section
  <2>2. \A p \in Pid : InUse(p) => phase'[p] = phase[p] /\ p # cs.pid
    BY <1>0, <1>6, TerminatedTyped
       DEF AttachProxyFailed, HolderInv, InUse, RestTyped, Section, ProcTyped
  <2>3. \A p \in Pid : phase'[p] = "attached" => phase[p] = "attached" /\ p # cs.pid
    BY <1>0, <1>6, TerminatedTyped DEF AttachProxyFailed, ProcTyped
  <2>4. /\ kind' = [kind EXCEPT ![cs.pid] = "free"]
        /\ UNCHANGED <<start, births, env>>
    BY <1>6 DEF AttachProxyFailed
  <2>5. /\ births \in Nat
        /\ \A p \in Pid : start[p] \in Nat /\ start[p] <= births
    BY <1>0, TimesTyped
  <2>6. Calm
    BY <1>0, <2>2, <2>3, <2>4, <2>5 DEF Calm, Attached, InUse, ProcTyped
  <2>7. QED
    BY <2>1, <2>6, CalmPlain DEF AttachGoesOn, TearsDown
<1>7. CASE AttachRecord
  <2>1. /\ cs.pid \in Pid /\ kind[cs.pid] = "wrapper" /\ phase[cs.pid] = "fresh"
        /\ cs.op = "attach" /\ cs'.op = "none" /\ cs'.step = "none"
    BY <1>0, <1>7 DEF AttachRecord, HolderInv, NoSection
  <2>2. /\ phase' = [phase EXCEPT ![cs.pid] = "attached"]
        /\ UNCHANGED <<kind, start, births, env>>
        /\ lock'.agents = AddRef(cs.alive, SelfRef(cs.pid))
    BY <1>7 DEF AttachRecord
  <2>3. cs.alive \subseteq lock.agents
    BY <2>1 DEF AgesInv
  <2>4. lock'.agents \subseteq cs.alive \cup {SelfRef(cs.pid)}
    BY <2>2 DEF AddRef
  <2>5. AgesInv'
    <3>1. \A r \in lock'.agents : r.start <= births
      BY <2>1, <2>3, <2>4 DEF AgesInv, SelfRef
    <3>2. QED
      BY <2>1, <2>2, <3>1 DEF AgesInv
  <2>6. /\ \A r \in PruneDead(lock.agents)' : InUse(r.pid)'
        /\ Quiet' => \A p \in Pid : Attached(p)' => SelfRef(p)' \in lock'.agents
    <3>2. \A r \in cs.alive : r.pid # cs.pid
      BY <2>1 DEF RefsInv
    <3>3. lock'.agents = cs.alive \cup {SelfRef(cs.pid)}
      BY <2>2, <3>2 DEF AddRef, SelfRef
    <3>4. \A p \in Pid : Attached(p)' => Attached(p) \/ p = cs.pid
      BY <1>0, <2>1, <2>2 DEF Attached, ProcTyped
    <3>5. Quiet' => \A p \in Pid : Attached(p) => SelfRef(p) \in cs.alive
      BY <2>1, <2>2 DEF RefsInv, Quiet
    <3>6. \A p \in Pid : SelfRef(p)' = SelfRef(p)
      BY <2>2 DEF SelfRef
    <3>7. ASSUME NEW r \in PruneDead(lock.agents)'
          PROVE  InUse(r.pid)'
      <4>1. /\ r \in cs.alive \/ r = SelfRef(cs.pid)
            /\ r.pid # 0 /\ kind[r.pid] # "free" /\ start[r.pid] = r.start
        BY <2>2, <3>3, <3>7 DEF PruneDead, Alive
      <4>2. CASE r \in cs.alive
        <5>1. r \in PruneDead(lock.agents)
          BY <2>3, <4>1, <4>2 DEF PruneDead, Alive
        <5>2. InUse(r.pid) /\ r.pid # cs.pid
          BY <3>2, <4>2, <5>1 DEF RefsInv
        <5>3. QED
          BY <1>0, <2>2, <5>2 DEF InUse, ProcTyped
      <4>3. CASE r = SelfRef(cs.pid)
        BY <1>0, <2>1, <2>2, <4>3 DEF InUse, SelfRef, ProcTyped
      <4>4. QED
        BY <4>1, <4>2, <4>3
    <3>8. QED
      BY <3>3, <3>4, <3>5, <3>6, <3>7
  <2>7. QED
    BY <2>1, <2>5, <2>6 DEF RefsInv, TearsDown
<1>8. CASE AttachRecordFailed
  <2>1. "io" \in env /\ env' = env /\ lock' \in {lock, NoLock} /\ cs' = NoSection
        /\ Exit(cs.pid) /\ cs.pid \in Pid
    BY <1>0, <1>8 DEF AttachRecordFailed, HolderInv
  <2>2. ~Quiet' /\ Calm
    BY <2>1, TableCalm DEF Quiet
  <2>3. QED
    BY <2>1, <2>2, CalmKeeps DEF AttachGoesOn, NoSection, NoLock, TearsDown
<1>9. ASSUME NEW p \in Pid, DetachBegin(p)
      PROVE  AgesInv' /\ RefsInv'
  <2>1. /\ kind[p] = "wrapper" /\ phase[p] = "attached"
        /\ phase' = [phase EXCEPT ![p] = "leaving"]
        /\ UNCHANGED <<kind, start, births, env>> /\ lock' = lock
        /\ cs'.op = "detach" /\ (TearsDown' => LastOut(p))
    BY <1>9 DEF DetachBegin, NoSection, TearsDown
  <2>2. /\ births \in Nat
        /\ \A q \in Pid : start[q] \in Nat /\ start[q] <= births
    BY <1>0, TimesTyped
  <2>3. Calm
    BY <1>0, <2>1, <2>2 DEF Calm, Attached, InUse, ProcTyped
  <2>4. ASSUME Quiet, NEW q \in Pid, Attached(q)' PROVE q # p /\ SelfRef(q) \in lock.agents
    <3>1. q # p /\ Attached(q)
      BY <1>0, <2>1, <2>4 DEF Attached, ProcTyped
    <3>2. QED
      BY <2>4, <3>1, AttachedRecorded
  <2>5. AgesInv'
    BY <2>1 DEF AgesInv
  <2>6. ASSUME Quiet', TearsDown', NEW q \in Pid PROVE ~Attached(q)'
    <3>1. SUFFICES ASSUME Attached(q)' PROVE FALSE
      OBVIOUS
    <3>2. q # p /\ SelfRef(q) \in lock.agents
      BY <2>1, <2>4, <2>6, <3>1 DEF Quiet
    <3>3. SelfRef(q) \in RemoveRef(lock.agents, p)
      BY <3>2 DEF RemoveRef, SelfRef
    <3>4. QED
      BY <2>1, <2>6, <3>3 DEF LastOut
  <2>7. ASSUME Quiet', NEW q \in Pid, Attached(q)' PROVE SelfRef(q)' \in lock'.agents
    BY <2>1, <2>4, <2>7 DEF Quiet, SelfRef
  <2>8. ASSUME NEW r \in PruneDead(lock.agents)' PROVE InUse(r.pid)'
    <3>1. r \in PruneDead(lock.agents)
      BY <2>1, <2>8 DEF PruneDead, Alive
    <3>2. InUse(r.pid)
      BY <2>1, <3>1 DEF RefsInv
    <3>3. QED
      BY <1>0, <2>1, <3>2 DEF InUse, ProcTyped
  <2>9. QED
    BY <2>1, <2>5, <2>6, <2>7, <2>8 DEF RefsInv
<1>10. CASE DetachDrop
  <2>1. /\ cs.op = "detach" /\ cs.pid \in Pid /\ phase[cs.pid] = "leaving"
        /\ Exit(cs.pid) /\ env' = env /\ cs' = NoSection
        /\ lock'.agents = RemoveRef(lock.agents, cs.pid)
    BY <1>0, <1>10 DEF DetachDrop, HolderInv, RestTyped, Section, LockState
  <2>2. Calm /\ lock'.agents \subseteq lock.agents
    BY <2>1, TableCalm DEF RemoveRef
  <2>3. ASSUME Quiet', NEW q \in Pid, Attached(q)' PROVE SelfRef(q) \in lock'.agents
    <3>1. Attached(q) /\ SelfRef(q) \in lock.agents /\ q # cs.pid
      BY <2>1, <2>2, <2>3, AttachedRecorded DEF Calm, Quiet, Attached
    <3>2. QED
      BY <2>1, <3>1 DEF RemoveRef, SelfRef
  <2>4. QED
    BY <2>1, <2>2, <2>3, CalmKeeps DEF AttachGoesOn, TearsDown, NoSection
<1>11. ASSUME CleanOrphanBegin \/ CleanBegin(FALSE) \/ CleanBegin(TRUE)
       PROVE  AgesInv' /\ RefsInv'
  <2>1. /\ UNCHANGED procVars /\ lock' = lock /\ env' = env /\ cs'.op \in {"orphan", "clean"}
        /\ ("force" \in env \/ PruneDead(lock.agents) = {})
    BY <1>11 DEF CleanOrphanBegin, CleanBegin, Orphaned, NoSection
  <2>2. Calm /\ AttachGoesOn
    BY <2>1, TableCalm DEF AttachGoesOn
  <2>3. ASSUME Quiet', NEW q \in Pid PROVE ~Attached(q)
    BY <2>1, <2>3, AttachedRecorded DEF Quiet
  <2>4. ASSUME Quiet', NEW q \in Pid, Attached(q)' PROVE SelfRef(q) \in lock'.agents
    BY <2>2, <2>3, <2>4 DEF Calm
  <2>5. QED
    BY <2>1, <2>2, <2>3, <2>4, CalmKeeps
<1>12. ASSUME SectionExit, env' = env PROVE Calm
  <2>1. CASE cs.pid # 0
    BY <1>0, <1>12, <2>1, TableCalm DEF SectionExit, RestTyped, Section
  <2>2. CASE cs.pid = 0
    BY <1>12, <2>2, TableCalm DEF SectionExit
  <2>3. QED
    BY <2>1, <2>2
<1>13. CASE TeardownClear
  <2>1. TearsDown /\ Calm /\ lock' = NoLock /\ cs' = NoSection
    BY <1>12, <1>13 DEF TeardownClear, TearsDown
  <2>2. ASSUME Quiet', NEW q \in Pid PROVE ~Attached(q)'
    BY <2>1, <2>2 DEF Calm, Quiet, RefsInv
  <2>3. QED
    BY <2>1, <2>2, CalmKeeps DEF AttachGoesOn, NoSection, NoLock, TearsDown
<1>14. CASE TeardownFailed
  <2>1. Calm /\ lock' \in {lock, NoLock} /\ cs' = NoSection /\ ~Quiet'
    BY <1>12, <1>14 DEF TeardownFailed, Quiet
  <2>2. QED
    BY <2>1, CalmKeeps DEF AttachGoesOn, NoSection, NoLock, TearsDown
<1>15. CASE KillHolder
  <2>1. /\ Calm /\ cs' = NoSection
        /\ lock' = lock \/ (lock' = NoLock /\ ~Quiet')
    BY <1>12, <1>15 DEF KillHolder, Quiet
  <2>2. CASE lock' = lock
    BY <2>1, <2>2, CalmPlain DEF AttachGoesOn, NoSection, TearsDown
  <2>3. CASE lock' = NoLock /\ ~Quiet'
    BY <2>1, <2>3, CalmKeeps DEF AttachGoesOn, NoSection, NoLock, TearsDown
  <2>4. QED
    BY <2>1, <2>2, <2>3
<1>16. ASSUME NEW p \in Pid, StartRun(p) \/ OtherStarts(p)
       PROVE  AgesInv' /\ RefsInv'
  <2>1. \E k \in Kinds, ph \in Phases \ {"attached"} : Spawn(p, k, ph, 0)
    BY <1>16 DEF StartRun, OtherStarts, Kinds, Phases
  <2>2. UNCHANGED <<lock, cs, env>>
    BY <1>16 DEF StartRun, OtherStarts
  <2>3. Calm
    BY <2>1, <2>2, TableCalm
  <2>4. QED
    BY <2>2, <2>3, CalmPlain DEF AttachGoesOn, TearsDown
<1>17. CASE DaemonStep
  <2> PICK p \in Pid : \/ ProxyBind(p) \/ ProxyExit(p) \/ ProxyCrash(p)
                       \/ BrokerBind(p) \/ BrokerClose(p) \/ BrokerExit(p)
                       \/ BrokerCrash(p)
    BY <1>17 DEF DaemonStep
  <2>1. /\ kind[p] \in {"proxy", "broker"} /\ UNCHANGED <<lock, cs, env>>
        /\ \/ Exit(p)
           \/ /\ phase' \in {[phase EXCEPT ![p] = "up"], [phase EXCEPT ![p] = "closed"]}
              /\ UNCHANGED <<kind, start, births>>
    BY DEF ProxyBind, ProxyExit, ProxyCrash, BrokerBind, BrokerClose, BrokerExit, BrokerCrash
  <2>2. CASE Exit(p)
    BY <2>1, <2>2, TableCalm, CalmPlain DEF AttachGoesOn, TearsDown
  <2>3. CASE /\ phase' \in {[phase EXCEPT ![p] = "up"], [phase EXCEPT ![p] = "closed"]}
             /\ UNCHANGED <<kind, start, births>>
    <3>1. births \in Nat /\ \A q \in Pid : start[q] \in Nat /\ start[q] <= births
      BY <1>0, TimesTyped
    <3>2. Calm
      BY <1>0, <2>1, <2>3, <3>1 DEF Calm, Attached, InUse, ProcTyped
    <3>3. QED
      BY <2>1, <3>2, CalmPlain DEF AttachGoesOn, TearsDown
  <2>4. QED
    BY <2>1, <2>2, <2>3
<1>18. ASSUME \/ AllowOnce
              \/ \E n \in Port : ForeignBinds(n) \/ ForeignCloses(n)
              \/ UNCHANGED vars
       PROVE  AgesInv' /\ RefsInv'
  <2>1. UNCHANGED procVars /\ UNCHANGED <<lock, cs, env>>
    BY <1>18 DEF AllowOnce, ForeignBinds, ForeignCloses, vars, procVars
  <2>2. QED
    BY <2>1, TableCalm, CalmPlain DEF AttachGoesOn, TearsDown
<1>19. CASE AttachStep
  BY <1>1, <1>2, <1>3, <1>4, <1>5, <1>6, <1>7, <1>8, <1>19 DEF AttachStep
<1>20. CASE TeardownStep
  BY <1>4, <1>9, <1>10, <1>11, <1>13, <1>14, <1>20 DEF TeardownStep
<1>21. CASE WorldStep
  BY <1>2, <1>15, <1>16, <1>18, <1>21 DEF WorldStep
<1>22. QED
  BY <1>17, <1>18, <1>19, <1>20, <1>21 DEF Next

\* The inductive invariant.
LifecycleInv == TypeInv /\ AgesInv /\ RefsInv

LEMMA LifecycleInvariant == Spec => []LifecycleInv
<1>1. Init => LifecycleInv
  <2> SUFFICES ASSUME Init PROVE LifecycleInv
    OBVIOUS
  <2>1. TypeInv
    BY HolderInit, TypeParts DEF TypeInv
  <2>2. AgesInv /\ RefsInv
    BY LifecycleAssumption
       DEF Init, AgesInv, RefsInv, NoLock, NoSection, PruneDead, TearsDown, Attached
  <2>3. QED
    BY <2>1, <2>2 DEF LifecycleInv
<1>2. LifecycleInv /\ [Next]_vars => LifecycleInv'
  <2> SUFFICES ASSUME LifecycleInv, [Next]_vars PROVE LifecycleInv'
    OBVIOUS
  <2>1. TypeInv'
    BY TypeStep DEF LifecycleInv
  <2>2. AgesInv' /\ RefsInv'
    BY <2>1, RefsStep DEF LifecycleInv
  <2>3. QED
    BY <2>1, <2>2 DEF LifecycleInv
<1>3. QED
  BY <1>1, <1>2, PTL DEF Spec

\* The refcount never lies: however wrappers start, leave, are killed outside or
\* inside the flock, and however PIDs are recycled, an attached wrapper is
\* recorded and an entry that survives pruneDead is one.
THEOREM RefcountCorrect == Spec => []RefcountExact
<1>1. LifecycleInv => RefcountExact
  BY DEF LifecycleInv, RefsInv, RefcountExact, Quiet, InUse
<1>2. QED
  BY <1>1, LifecycleInvariant, PTL

\* The session overlay (`allow --once`) is purged only when no session is left:
\* whoever reached the purge in Detach, doctor or an unforced clean saw the last
\* agent out, and nobody attached since.
THEOREM OverlayCorrect == Spec => OverlayOutlivesSessions
<1> DEFINE A == (env \cap {"force", "io", "torn"} = {} /\ overlay /\ ~overlay') =>
                   \A p \in Pid : ~Attached(p)
<1>1. LifecycleInv /\ [Next]_vars => [A]_vars
  <2> SUFFICES ASSUME LifecycleInv, [Next]_vars, Quiet, overlay, ~overlay'
               PROVE  \A p \in Pid : ~Attached(p)
    BY DEF Quiet
  <2>1. ~UNCHANGED overlay
    OBVIOUS
  <2>2. TearsDown
    BY <2>1 DEF Next, vars, AttachStep, AttachReuse, AttachRestart, AttachNoPort, AttachNoBroker,
       AttachSpawnBroker, AttachBrokerReady, AttachBrokerFailed, AttachSpawnProxy,
       AttachProxyReady, AttachProxyFailed, AttachRecord, AttachRecordFailed,
       TeardownStep, DetachBegin, DetachDrop, CleanOrphanBegin, CleanBegin,
       TeardownSignal, TeardownBroker, TeardownClear, TeardownFailed, Quiet,
       DaemonStep, ProxyBind, ProxyExit, ProxyCrash, BrokerBind, BrokerClose,
       BrokerExit, BrokerCrash, WorldStep, StartRun, KillWrapper, OtherStarts,
       OtherExits, KillHolder, AllowOnce, ForeignBinds, ForeignCloses, TearsDown
  <2>3. QED
    BY <2>2 DEF LifecycleInv, RefsInv
<1>2. QED
  BY <1>1, LifecycleInvariant, PTL DEF Spec, OverlayOutlivesSessions

-----------------------------------------------------------------------------
(***************************************************************************)
(* Who is signalled                                                        *)
(***************************************************************************)

\* A PID that was a daemon and can be nothing else while PIDs are not reused.
Ours(q) == start[q] >= 1 /\ kind[q] \in {"proxy", "broker", "free"}

Named(q) == q \in {lock.proxy, lock.broker, cs.proxy, cs.broker}

\* Without PID reuse, every PID a teardown could signal is ours.
SignalInv ==
    "recycle" \notin env =>
        /\ ~misfired
        /\ \A q \in Pid : Named(q) => Ours(q)

\* What a step does to the table, as far as Ours can tell: one birth, or nobody
\* becomes anything but free.
TableStep ==
    \/ \E p \in Pid, k \in Kinds, ph \in Phases, n \in Port \cup {0} : Spawn(p, k, ph, n)
    \/ start' = start /\ \A q \in Pid : kind'[q] \in {kind[q], "free"}

\* Neither makes anything else of a PID that is ours.
LEMMA OursKept ==
    ASSUME TypeInv, "recycle" \notin env, TableStep, NEW q \in Pid, Ours(q)
    PROVE  Ours(q)'
<1>0. ProcTyped /\ start[q] \in Nat
  BY LifecycleAssumption DEF TypeInv, ProcTyped
<1>1. CASE start' = start /\ \A r \in Pid : kind'[r] \in {kind[r], "free"}
  BY <1>1 DEF Ours
<1>2. ASSUME NEW p \in Pid, NEW k \in Kinds, NEW ph \in Phases, NEW n \in Port \cup {0},
             Spawn(p, k, ph, n)
      PROVE  Ours(q)'
  <2>1. start[p] = 0
    BY <1>2 DEF Spawn, CanSpawn
  <2>2. q # p
    BY <2>1 DEF Ours
  <2>3. QED
    BY <1>0, <1>2, <2>2, SpawnTyped DEF Ours
<1>3. QED
  BY <1>1, <1>2 DEF TableStep

\* The steps of the process table are table steps.
LEMMA TableSteps ==
    ASSUME ProcTyped
    PROVE  /\ UNCHANGED procVars => TableStep
           /\ UNCHANGED <<kind, start>> => TableStep
           /\ \A p \in Pid : Exit(p) => TableStep
<1>1. UNCHANGED <<kind, start>> => TableStep
  BY DEF TableStep
<1>2. UNCHANGED procVars => TableStep
  BY <1>1 DEF procVars
<1>3. ASSUME NEW p \in Pid, Exit(p) PROVE TableStep
  BY <1>3 DEF TableStep, Exit, ProcTyped
<1>4. QED
  BY <1>1, <1>2, <1>3

\* A step that names nobody new and does not signal preserves SignalInv.
LEMMA SignalQuiet ==
    ASSUME TypeInv, SignalInv, TableStep, env' = env, misfired' = misfired,
           \A q \in Pid : Named(q)' => Named(q) \/ Ours(q)'
    PROVE  SignalInv'
BY OursKept DEF SignalInv

\* So does a step that signals only PIDs that are named.
LEMMA SignalNamed ==
    ASSUME TypeInv, SignalInv, TableStep, env' = env,
           NEW S \in SUBSET Pid, \A q \in S : Named(q),
           misfired' = (misfired \/ \E q \in S : kind[q] \in {"wrapper", "other"}),
           \A q \in Pid : Named(q)' => Named(q)
    PROVE  SignalInv'
<1>1. SUFFICES ASSUME "recycle" \notin env
      PROVE  ~misfired' /\ \A q \in Pid : Named(q)' => Ours(q)'
  BY DEF SignalInv
<1>2. ~misfired /\ \A q \in Pid : Named(q) => Ours(q)
  BY <1>1 DEF SignalInv
<1>3. \A q \in S : kind[q] \notin {"wrapper", "other"}
  BY <1>2 DEF Ours
<1>4. QED
  BY <1>1, <1>2, <1>3, OursKept

\* And one that ends a section and names nobody the lock did not.
LEMMA SignalEnds ==
    ASSUME TypeInv, SignalInv, TableStep, env' = env, misfired' = misfired,
           cs' = NoSection,
           \/ lock' \in {lock, NoLock}
           \/ lock'.proxy = lock.proxy /\ lock'.broker = lock.broker
           \/ lock'.proxy = cs.proxy /\ lock'.broker = cs.broker
    PROVE  SignalInv'
<1>1. 0 \notin Pid
  BY LifecycleAssumption
<1>2. \A q \in Pid : Named(q)' => Named(q)
  BY <1>1 DEF Named, NoSection, NoLock
<1>3. QED
  BY <1>2, SignalQuiet

\* Attach preserves it.
LEMMA SignalAttach ==
    ASSUME TypeInv, SignalInv, AttachStep
    PROVE  SignalInv'
<1>0. ProcTyped /\ RestTyped /\ HolderInv
  BY DEF TypeInv
<1>1. /\ 0 \notin Pid
      /\ cs.proxy \in Pid \cup {0} /\ cs.broker \in Pid \cup {0} /\ cs.port \in Port \cup {0}
  BY <1>0, LifecycleAssumption DEF RestTyped, Section
<1>2. ASSUME NEW p \in Pid, AttachReuse(p) \/ AttachRestart(p)
      PROVE  SignalInv'
  <2>1. TableStep
    BY <1>0, <1>2, TableSteps DEF AttachReuse, AttachRestart, procVars
  <2>2. /\ env' = env /\ misfired' = misfired /\ lock' = lock
        /\ cs'.proxy \in {lock.proxy, 0} /\ cs'.broker \in {lock.broker, 0}
    BY <1>2 DEF AttachReuse, AttachRestart
  <2>3. QED
    BY <1>1, <2>1, <2>2, SignalQuiet DEF Named
<1>3. ASSUME AttachNoBroker \/ AttachBrokerReady \/ AttachProxyReady
      PROVE  SignalInv'
  <2>1. /\ UNCHANGED procVars /\ env' = env /\ misfired' = misfired /\ lock' = lock
        /\ cs'.proxy = cs.proxy /\ cs'.broker = cs.broker
    BY <1>0, <1>3 DEF AttachNoBroker, AttachBrokerReady, AttachProxyReady, RestTyped, Section
  <2>2. QED
    BY <1>0, <2>1, TableSteps, SignalQuiet DEF Named
<1>4. ASSUME NEW p \in Pid, AttachNoPort(p)
      PROVE  SignalInv'
  BY <1>0, <1>4, TableSteps, SignalQuiet DEF AttachNoPort, Named
<1>5. ASSUME NEW p \in Pid, AttachSpawnBroker(p) \/ AttachSpawnProxy(p)
      PROVE  SignalInv'
  <2>1. \E k \in {"proxy", "broker"}, n \in Port \cup {0} : Spawn(p, k, "starting", n)
    BY <1>1, <1>5 DEF AttachSpawnBroker, AttachSpawnProxy
  <2>2. PICK k \in {"proxy", "broker"}, n \in Port \cup {0} : Spawn(p, k, "starting", n)
    BY <2>1
  <2>3. k \in Kinds /\ "starting" \in Phases
    BY DEF Kinds, Phases
  <2>4. TableStep
    BY <2>2, <2>3 DEF TableStep
  <2>5. kind'[p] = k /\ start'[p] = births + 1 /\ births \in Nat
    BY <1>0, <2>2, <2>3, SpawnTyped, LifecycleAssumption DEF ProcTyped
  <2>6. Ours(p)'
    BY <2>5 DEF Ours
  <2>7. /\ lock' = lock /\ env' = env /\ misfired' = misfired
        /\ cs'.proxy \in {cs.proxy, p} /\ cs'.broker \in {cs.broker, p}
    BY <1>0, <1>5 DEF AttachSpawnBroker, AttachSpawnProxy, RestTyped, Section
  <2>8. QED
    BY <2>4, <2>6, <2>7, SignalQuiet DEF Named
<1>6. ASSUME AttachBrokerFailed
      PROVE  SignalInv'
  <2>1. /\ UNCHANGED <<kind, start>> /\ env' = env /\ lock' = lock
        /\ cs'.proxy = cs.proxy /\ cs'.broker = 0
    BY <1>0, <1>6 DEF AttachBrokerFailed, RestTyped, Section
  <2>2. misfired' = (misfired \/ \E q \in {cs.broker} \cap Pid : kind[q] \in {"wrapper", "other"})
    BY <1>6 DEF AttachBrokerFailed, SigTerm
  <2>3. \A q \in {cs.broker} \cap Pid : Named(q)
    BY DEF Named
  <2>4. \A q \in Pid : Named(q)' => Named(q)
    BY <1>1, <2>1 DEF Named
  <2>5. TableStep
    BY <1>0, <2>1, TableSteps
  <2>6. QED
    BY <2>1, <2>2, <2>3, <2>4, <2>5, SignalNamed
<1>7. ASSUME AttachProxyFailed
      PROVE  SignalInv'
  <2>1. /\ kind' = [kind EXCEPT ![cs.pid] = "free"] /\ start' = start
        /\ env' = env /\ lock' = lock /\ cs' = NoSection
    BY <1>7 DEF AttachProxyFailed
  <2>2. misfired' = (misfired \/ \E q \in {cs.proxy, cs.broker} \ {0} :
                                     kind[q] \in {"wrapper", "other"})
    BY <1>7 DEF AttachProxyFailed
  <2>3. {cs.proxy, cs.broker} \ {0} \in SUBSET Pid
    BY <1>1
  <2>4. \A q \in {cs.proxy, cs.broker} \ {0} : Named(q)
    BY DEF Named
  <2>5. \A q \in Pid : Named(q)' => Named(q)
    BY <1>1, <2>1 DEF Named, NoSection
  <2>6. TableStep
    BY <1>0, <2>1 DEF TableStep, ProcTyped
  <2>7. QED
    BY <2>1, <2>2, <2>3, <2>4, <2>5, <2>6, SignalNamed
<1>8. ASSUME AttachRecord
      PROVE  SignalInv'
  <2>1. /\ UNCHANGED <<kind, start>> /\ env' = env /\ misfired' = misfired
        /\ cs' = NoSection /\ lock'.proxy = cs.proxy /\ lock'.broker = cs.broker
    BY <1>8 DEF AttachRecord
  <2>2. QED
    BY <1>0, <2>1, TableSteps, SignalEnds
<1>9. ASSUME AttachRecordFailed
      PROVE  SignalInv'
  <2>1. cs.pid \in Pid
    BY <1>0, <1>9 DEF AttachRecordFailed, HolderInv
  <2>2. QED
    BY <1>0, <1>9, <2>1, TableSteps, SignalEnds DEF AttachRecordFailed
<1>10. QED
  BY <1>2, <1>3, <1>4, <1>5, <1>6, <1>7, <1>8, <1>9 DEF AttachStep

\* Detach, CleanOrphan and Clean preserve it.
LEMMA SignalTeardown ==
    ASSUME TypeInv, SignalInv, TeardownStep
    PROVE  SignalInv'
<1>0. ProcTyped /\ RestTyped /\ HolderInv
  BY DEF TypeInv
<1>1. 0 \notin Pid
  BY LifecycleAssumption
<1>2. ASSUME NEW p \in Pid, DetachBegin(p)
      PROVE  SignalInv'
  <2>1. /\ UNCHANGED <<kind, start>> /\ env' = env /\ misfired' = misfired /\ lock' = lock
        /\ cs'.proxy = 0 /\ cs'.broker = 0
    BY <1>2 DEF DetachBegin, NoSection
  <2>2. QED
    BY <1>0, <1>1, <2>1, TableSteps, SignalQuiet DEF Named
<1>3. ASSUME CleanOrphanBegin \/ CleanBegin(FALSE) \/ CleanBegin(TRUE)
      PROVE  SignalInv'
  <2>1. /\ UNCHANGED procVars /\ env' = env /\ misfired' = misfired /\ lock' = lock
        /\ cs'.proxy = 0 /\ cs'.broker = 0
    BY <1>3 DEF CleanOrphanBegin, CleanBegin, NoSection
  <2>2. QED
    BY <1>0, <1>1, <2>1, TableSteps, SignalQuiet DEF Named
<1>4. ASSUME TeardownSignal \/ TeardownBroker
      PROVE  SignalInv'
  <2>1. /\ UNCHANGED <<kind, start>> /\ env' = env /\ lock' = lock
        /\ cs'.proxy = cs.proxy /\ cs'.broker = cs.broker
    BY <1>0, <1>4 DEF TeardownSignal, TeardownBroker, RestTyped, Section
  <2>2. PICK S \in {{lock.proxy} \cap Pid, {lock.broker} \cap Pid} : SigTerm(S)
    BY <1>4 DEF TeardownSignal, TeardownBroker
  <2>3. misfired' = (misfired \/ \E q \in S : kind[q] \in {"wrapper", "other"})
    BY <2>2 DEF SigTerm
  <2>4. S \in SUBSET Pid /\ \A q \in S : Named(q)
    BY DEF Named
  <2>5. \A q \in Pid : Named(q)' => Named(q)
    BY <2>1 DEF Named
  <2>6. TableStep
    BY <1>0, <2>1, TableSteps
  <2>7. QED
    BY <2>1, <2>3, <2>4, <2>5, <2>6, SignalNamed
<1>5. ASSUME SectionExit \/ (cs.pid \in Pid /\ Exit(cs.pid))
      PROVE  TableStep
  <2>1. cs.pid \in Pid \cup {0}
    BY <1>0 DEF RestTyped, Section
  <2>2. QED
    BY <1>0, <1>5, <2>1, TableSteps DEF SectionExit
<1>6. ASSUME DetachDrop
      PROVE  SignalInv'
  <2>1. cs.pid \in Pid
    BY <1>0, <1>6 DEF DetachDrop, HolderInv, RestTyped, Section
  <2>2. /\ env' = env /\ misfired' = misfired /\ cs' = NoSection /\ Exit(cs.pid)
        /\ lock'.proxy = lock.proxy /\ lock'.broker = lock.broker
    BY <1>0, <1>6 DEF DetachDrop, RestTyped, LockState
  <2>3. QED
    BY <1>5, <2>1, <2>2, SignalEnds
<1>7. ASSUME TeardownClear \/ TeardownFailed
      PROVE  SignalInv'
  <2>1. /\ env' = env /\ misfired' = misfired /\ cs' = NoSection /\ SectionExit
        /\ lock' \in {lock, NoLock}
    BY <1>7 DEF TeardownClear, TeardownFailed
  <2>2. QED
    BY <1>5, <2>1, SignalEnds
<1>8. QED
  BY <1>2, <1>3, <1>4, <1>6, <1>7 DEF TeardownStep

\* So does everything else.
LEMMA SignalRest ==
    ASSUME TypeInv, SignalInv, DaemonStep \/ WorldStep \/ UNCHANGED vars
    PROVE  SignalInv'
<1>0. ProcTyped /\ RestTyped /\ HolderInv
  BY DEF TypeInv
<1>1. ASSUME TableStep, UNCHANGED <<lock, cs, env, misfired>>
      PROVE  SignalInv'
  BY <1>1, SignalQuiet DEF Named
<1>2. ASSUME NEW p \in Pid,
             \/ ProxyBind(p) \/ ProxyExit(p) \/ ProxyCrash(p) \/ BrokerBind(p)
             \/ BrokerClose(p) \/ BrokerExit(p) \/ BrokerCrash(p)
      PROVE  SignalInv'
  <2>1. /\ UNCHANGED <<lock, cs, env, misfired>>
        /\ UNCHANGED <<kind, start>> \/ Exit(p)
    BY <1>2 DEF ProxyBind, ProxyExit, ProxyCrash, BrokerBind, BrokerClose, BrokerExit, BrokerCrash
  <2>2. QED
    BY <1>0, <1>1, <2>1, TableSteps
<1>3. ASSUME NEW p \in Pid, StartRun(p) \/ OtherStarts(p)
      PROVE  SignalInv'
  <2>1. /\ UNCHANGED <<lock, cs, env, misfired>>
        /\ Spawn(p, "wrapper", "fresh", 0) \/ Spawn(p, "other", "none", 0)
    BY <1>3 DEF StartRun, OtherStarts
  <2>2. TableStep
    BY <2>1 DEF TableStep, Kinds, Phases
  <2>3. QED
    BY <1>1, <2>1, <2>2
<1>4. ASSUME NEW p \in Pid, KillWrapper(p) \/ OtherExits(p)
      PROVE  SignalInv'
  BY <1>0, <1>1, <1>4, TableSteps DEF KillWrapper, OtherExits
<1>5. ASSUME KillHolder
      PROVE  SignalInv'
  <2>1. /\ env' = env /\ misfired' = misfired /\ cs' = NoSection /\ SectionExit
        /\ lock' \in {lock, NoLock}
    BY <1>5 DEF KillHolder
  <2>2. cs.pid \in Pid \cup {0}
    BY <1>0 DEF RestTyped, Section
  <2>3. TableStep
    BY <1>0, <2>1, <2>2, TableSteps DEF SectionExit
  <2>4. QED
    BY <2>1, <2>3, SignalEnds
<1>6. ASSUME AllowOnce \/ (\E n \in Port : ForeignBinds(n) \/ ForeignCloses(n)) \/ UNCHANGED vars
      PROVE  SignalInv'
  <2>1. UNCHANGED procVars /\ UNCHANGED <<lock, cs, env, misfired>>
    BY <1>6 DEF AllowOnce, ForeignBinds, ForeignCloses, vars, procVars
  <2>2. QED
    BY <1>0, <1>1, <2>1, TableSteps
<1>7. QED
  BY <1>2, <1>3, <1>4, <1>5, <1>6 DEF DaemonStep, WorldStep

\* Warn-never-kill (lifecycle.go: Attach and Detach signal the recorded daemons
\* and never a recorded agent): with no PID reuse, no behaviour, with any number
\* of runs, crashes, kills and failures, sends SIGTERM to anything but a daemon
\* that this project's lifecycle started.
THEOREM SignalsCorrect == Spec => []SignalsOnlyDaemons
<1>1. Init => SignalInv
  BY LifecycleAssumption DEF Init, SignalInv, Named, NoLock, NoSection
<1>2. TypeInv /\ SignalInv /\ [Next]_vars => SignalInv'
  BY SignalAttach, SignalTeardown, SignalRest DEF Next
<1>3. Spec => []TypeInv
  BY LifecycleInvariant, PTL DEF LifecycleInv
<1>4. SignalInv => SignalsOnlyDaemons
  BY DEF SignalInv, SignalsOnlyDaemons
<1>5. QED
  BY <1>1, <1>2, <1>3, <1>4, PTL DEF Spec

-----------------------------------------------------------------------------
(***************************************************************************)
(* The shared service: what an attached wrapper can count on (the proxy it *)
(* was told of, or a warning), what becomes of the daemons once nobody is  *)
(* left and, last, that the lifecycle implements SharedProxy, step by      *)
(* step: under users, operators and SIGKILL outside the flock, every step  *)
(* of proxy.lock, wrappers and daemons is a step of the one shared         *)
(* service, or changes nothing of it.                                      *)
(***************************************************************************)

\* The environment is fixed at the start.
LEMMA EnvFixed == [Next]_vars => env' = env
BY DEF Next, AttachStep, AttachReuse, AttachRestart, AttachNoPort, AttachNoBroker,
       AttachSpawnBroker, AttachBrokerReady, AttachBrokerFailed, AttachSpawnProxy,
       AttachProxyReady, AttachProxyFailed, AttachRecord, AttachRecordFailed,
       TeardownStep, DetachBegin, DetachDrop, CleanOrphanBegin, CleanBegin,
       TeardownSignal, TeardownBroker, TeardownClear, TeardownFailed,
       DaemonStep, ProxyBind, ProxyExit, ProxyCrash, BrokerBind, BrokerClose, BrokerExit,
       BrokerCrash, WorldStep, StartRun, KillWrapper, OtherStarts, OtherExits, KillHolder,
       AllowOnce, ForeignBinds, ForeignCloses, vars

-----------------------------------------------------------------------------
(***************************************************************************)
(* The shape of proxy.lock                                                 *)
(***************************************************************************)

\* proxy.lock is either empty or names a proxy, its port and at least one
\* agent; an Attach only ever records a proxy it has and a port it chose; a
\* Detach that only drops its entry leaves another one.
ShapeInv ==
    /\ lock.proxy = 0 => lock.broker = 0 /\ lock.port = 0 /\ lock.agents = {}
    /\ lock.proxy # 0 => lock.port # 0 /\ lock.agents # {}
    /\ cs.op = "attach" => cs.port # 0
    /\ cs.op = "attach" /\ cs.step \in {"proxyWait", "record"} => cs.proxy # 0
    /\ cs.step = "drop" => RemoveRef(lock.agents, cs.pid) # {}

\* With the flock released and the lock as it was, or empty, nothing else is
\* to show.
LEMMA ShapeIdle ==
    ASSUME ShapeInv, cs' = NoSection, lock' \in {lock, NoLock}
    PROVE  ShapeInv'
BY DEF ShapeInv, NoSection, NoLock

LEMMA ShapeStep ==
    ASSUME TypeInv, ShapeInv, [Next]_vars
    PROVE  ShapeInv'
<1>0. /\ RestTyped /\ HolderInv /\ cs \in Section /\ lock \in LockState
      /\ 0 \notin Pid /\ 0 \notin Port
  BY LifecycleAssumption DEF TypeInv, RestTyped
<1>1. ASSUME NEW p \in Pid, AttachReuse(p) \/ AttachRestart(p)
      PROVE  ShapeInv'
  <2>1. lock' = lock /\ cs'.op = "attach"
    BY <1>1 DEF AttachReuse, AttachRestart
  <2>2. cs'.port # 0 /\ (cs'.step \in {"proxyWait", "record"} => cs'.proxy # 0)
    BY <1>0, <1>1 DEF AttachReuse, AttachRestart, ProxyUp, ShapeInv, PortChoices
  <2>3. cs'.step # "drop"
    BY <1>1 DEF AttachReuse, AttachRestart
  <2>4. QED
    BY <2>1, <2>2, <2>3 DEF ShapeInv
<1>2. ASSUME \/ AttachNoBroker \/ AttachBrokerReady \/ AttachBrokerFailed \/ AttachProxyReady
             \/ \E p \in Pid : AttachSpawnBroker(p) \/ AttachSpawnProxy(p)
      PROVE  ShapeInv'
  <2>1. /\ lock' = lock /\ cs'.op = cs.op /\ cs'.port = cs.port /\ cs'.step # "drop"
        /\ \/ cs'.step \in {"brokerWait", "proxy"}
           \/ cs'.step = "proxyWait" /\ cs'.proxy \in Pid
           \/ cs.step = "proxyWait" /\ cs'.proxy = cs.proxy
    BY <1>0, <1>2 DEF AttachNoBroker, AttachBrokerReady, AttachBrokerFailed,
                      AttachProxyReady, AttachSpawnBroker, AttachSpawnProxy, Section
  <2>2. QED
    BY <1>0, <2>1 DEF ShapeInv
<1>3. CASE AttachRecord
  <2>1. /\ cs.op = "attach" /\ cs.step = "record" /\ cs' = NoSection
        /\ lock'.proxy = cs.proxy /\ lock'.port = cs.port
        /\ lock'.agents = AddRef(cs.alive, SelfRef(cs.pid))
    BY <1>3 DEF AttachRecord
  <2>2. lock'.proxy # 0 /\ lock'.port # 0 /\ lock'.agents # {}
    BY <2>1 DEF ShapeInv, AddRef
  <2>3. QED
    BY <2>1, <2>2 DEF ShapeInv, NoSection
<1>4. ASSUME \/ AttachProxyFailed \/ AttachRecordFailed
             \/ TeardownClear \/ TeardownFailed \/ KillHolder
      PROVE  ShapeInv'
  <2>1. cs' = NoSection /\ lock' \in {lock, NoLock}
    BY <1>4 DEF AttachProxyFailed, AttachRecordFailed, TeardownClear, TeardownFailed, KillHolder
  <2>2. QED
    BY <2>1, ShapeIdle
<1>5. ASSUME NEW p \in Pid, DetachBegin(p)
      PROVE  ShapeInv'
  <2>1. /\ lock' = lock /\ cs'.op = "detach" /\ cs'.pid = p
        /\ cs'.step = "drop" => ~LastOut(p)
    BY <1>5 DEF DetachBegin, NoSection
  <2>2. QED
    BY <2>1 DEF ShapeInv, LastOut, RemoveRef
<1>6. CASE DetachDrop
  <2>1. /\ cs.step = "drop" /\ cs' = NoSection
        /\ lock'.proxy = lock.proxy /\ lock'.broker = lock.broker /\ lock'.port = lock.port
        /\ lock'.agents = RemoveRef(lock.agents, cs.pid)
    BY <1>0, <1>6 DEF DetachDrop, LockState
  <2>2. lock'.agents # {} /\ lock'.agents \subseteq lock.agents
    BY <2>1 DEF ShapeInv, RemoveRef
  <2>3. QED
    BY <2>1, <2>2 DEF ShapeInv, NoSection
<1>7. ASSUME \/ CleanOrphanBegin \/ CleanBegin(FALSE) \/ CleanBegin(TRUE)
             \/ TeardownSignal \/ TeardownBroker
      PROVE  ShapeInv'
  <2>1. /\ lock' = lock /\ cs'.step \in {"signal", "stopBroker", "clear"}
        /\ cs'.op \in {"orphan", "clean", cs.op}
    BY <1>0, <1>7 DEF CleanOrphanBegin, CleanBegin, TeardownSignal, TeardownBroker, NoSection,
                      Section
  <2>2. CASE cs'.op \in {"orphan", "clean"}
    BY <2>1, <2>2 DEF ShapeInv
  <2>3. CASE TeardownSignal \/ TeardownBroker
    BY <1>0, <2>1, <2>3 DEF ShapeInv, HolderInv, TeardownSignal, TeardownBroker
  <2>4. QED
    BY <1>7, <2>2, <2>3 DEF CleanOrphanBegin, CleanBegin, NoSection
<1>8. ASSUME UNCHANGED <<lock, cs>>
      PROVE  ShapeInv'
  BY <1>8 DEF ShapeInv, RemoveRef
<1>9. CASE DaemonStep
  BY <1>8, <1>9 DEF DaemonStep, ProxyBind, ProxyExit, ProxyCrash, BrokerBind,
                    BrokerClose, BrokerExit, BrokerCrash
<1>10. CASE WorldStep
  BY <1>4, <1>8, <1>10 DEF WorldStep, StartRun, KillWrapper, OtherStarts, OtherExits,
                           AllowOnce, ForeignBinds, ForeignCloses
<1>11. CASE AttachStep
  BY <1>1, <1>2, <1>3, <1>4, <1>8, <1>11 DEF AttachStep, AttachNoPort
<1>12. CASE TeardownStep
  BY <1>4, <1>5, <1>6, <1>7, <1>12 DEF TeardownStep
<1>13. QED
  BY <1>8, <1>9, <1>10, <1>11, <1>12 DEF Next, vars

LEMMA ShapeInvariant == Spec => [](LifecycleInv /\ ShapeInv)
<1>1. Init => ShapeInv
  BY DEF Init, ShapeInv, NoLock, NoSection
<1>2. LifecycleInv /\ ShapeInv /\ [Next]_vars => ShapeInv'
  BY ShapeStep DEF LifecycleInv
<1>3. QED
  BY <1>1, <1>2, LifecycleInvariant, PTL DEF Spec

-----------------------------------------------------------------------------
(***************************************************************************)
(* Warn-never-kill: the warning                                            *)
(***************************************************************************)

\* StrandedAreWarned at every moment, and the same of the entries an Attach is
\* about to write back with the port it has chosen.
WarnInv ==
    /\ \A r \in PruneDead(lock.agents) : port[r.pid] # lock.port => r.pid \in warned
    /\ cs.op = "attach" =>
         \A r \in PruneDead(cs.alive) : port[r.pid] # cs.port => r.pid \in warned

\* A process that is as old as before is the process it was, with the port it
\* was told; a warning is forgotten only when its PID changes hands.
PortsKept ==
    \A p \in Pid : kind'[p] # "free" /\ start'[p] <= births =>
        /\ kind[p] # "free" /\ start'[p] = start[p] /\ port'[p] = port[p]
        /\ p \in warned => p \in warned'

\* The kinds of step on the process table that keep ports.
LEMMA TablePorts ==
    ASSUME TypeInv, AgesInv,
           \/ UNCHANGED <<kind, start, port>> /\ warned \subseteq warned'
           \/ warned' = warned /\ \E p \in Pid : Exit(p)
           \/ \E p \in Pid, k \in Kinds, ph \in Phases, n \in Port \cup {0} :
                 Spawn(p, k, ph, n) /\ warned \ {p} \subseteq warned'
    PROVE  PortsKept
<1>0. ProcTyped /\ births \in Nat
  BY TimesTyped DEF TypeInv
<1>1. CASE UNCHANGED <<kind, start, port>> /\ warned \subseteq warned'
  BY <1>1 DEF PortsKept
<1>2. ASSUME warned' = warned, NEW p \in Pid, Exit(p) PROVE PortsKept
  BY <1>0, <1>2, ExitTyped DEF PortsKept
<1>3. ASSUME NEW p \in Pid, NEW k \in Kinds, NEW ph \in Phases, NEW n \in Port \cup {0},
             Spawn(p, k, ph, n), warned \ {p} \subseteq warned'
      PROVE  PortsKept
  <2>1. /\ start'[p] = births' /\ births' = births + 1
        /\ \A q \in Pid \ {p} : /\ kind'[q] = kind[q] /\ start'[q] = start[q]
                                /\ port'[q] = port[q]
    BY <1>0, <1>3, SpawnTyped
  <2>2. QED
    BY <1>0, <1>3, <2>1 DEF PortsKept
<1>4. QED
  BY <1>1, <1>2, <1>3

\* Such a step that adds no entry and keeps the recorded port keeps the promise.
LEMMA WarnKeeps ==
    ASSUME TypeInv, AgesInv, WarnInv, PortsKept,
           lock'.agents \subseteq lock.agents,
           lock'.port = lock.port \/ lock'.agents = {},
           cs'.op = "attach" =>
             cs.op = "attach" /\ cs'.alive = cs.alive /\ cs'.port = cs.port
    PROVE  WarnInv'
<1>1. 0 \notin Pid /\ \A r \in lock.agents : r.pid \in Pid /\ r.start <= births
  BY LifecycleAssumption DEF TypeInv, RestTyped, LockState, Ref, AgesInv
<1>2. ASSUME NEW r \in lock.agents, kind'[r.pid] # "free", start'[r.pid] = r.start
      PROVE  /\ r.pid # 0 /\ kind[r.pid] # "free" /\ start[r.pid] = r.start
             /\ port'[r.pid] = port[r.pid]
             /\ r.pid \in warned => r.pid \in warned'
  BY <1>1, <1>2 DEF PortsKept
<1>3. ASSUME NEW r \in PruneDead(lock.agents)', port'[r.pid] # lock'.port
      PROVE  r.pid \in warned'
  <2>1. /\ r \in lock.agents /\ kind'[r.pid] # "free" /\ start'[r.pid] = r.start
        /\ lock'.port = lock.port
    BY <1>3 DEF PruneDead, Alive
  <2>2. r \in PruneDead(lock.agents)
    BY <1>2, <2>1 DEF PruneDead, Alive
  <2>3. QED
    BY <1>2, <1>3, <2>1, <2>2 DEF WarnInv
<1>4. ASSUME cs'.op = "attach", NEW r \in PruneDead(cs.alive)', port'[r.pid] # cs'.port
      PROVE  r.pid \in warned'
  <2>1. /\ cs.op = "attach" /\ r \in cs.alive /\ cs'.port = cs.port
        /\ kind'[r.pid] # "free" /\ start'[r.pid] = r.start
    BY <1>4 DEF PruneDead, Alive
  <2>2. r \in lock.agents
    BY <2>1 DEF AgesInv
  <2>3. r \in PruneDead(cs.alive)
    BY <1>2, <2>1, <2>2 DEF PruneDead, Alive
  <2>4. QED
    BY <1>2, <1>4, <2>1, <2>2, <2>3 DEF WarnInv
<1>5. QED
  BY <1>3, <1>4 DEF WarnInv

\* The kinds of step that do not touch the lock, as WarnKeeps needs them.
LEMMA WarnPlain ==
    ASSUME TypeInv, AgesInv, WarnInv, PortsKept, lock' = lock,
           cs'.op = "attach" =>
             cs.op = "attach" /\ cs'.alive = cs.alive /\ cs'.port = cs.port
    PROVE  WarnInv'
BY WarnKeeps

LEMMA WarnStep ==
    ASSUME LifecycleInv, ShapeInv, WarnInv, [Next]_vars
    PROVE  WarnInv'
<1>0. /\ TypeInv /\ ProcTyped /\ RestTyped /\ HolderInv /\ AgesInv /\ RefsInv
      /\ cs \in Section /\ lock \in LockState /\ 0 \notin Pid
  BY LifecycleAssumption DEF LifecycleInv, TypeInv, RestTyped
<1>1. ASSUME NEW p \in Pid, AttachReuse(p)
      PROVE  WarnInv'
  <2>1. /\ UNCHANGED <<lock, kind, start, port, warned>>
        /\ cs'.alive = PruneDead(lock.agents) /\ cs'.port = lock.port
    BY <1>1 DEF AttachReuse, procVars
  <2>2. QED
    BY <2>1 DEF WarnInv, PruneDead, Alive
<1>2. ASSUME NEW p \in Pid, AttachRestart(p)
      PROVE  WarnInv'
  <2> PICK n \in PortChoices :
        /\ cs' = [op |-> "attach", step |-> "broker", pid |-> p,
                  alive |-> PruneDead(lock.agents), port |-> n,
                  proxy |-> 0, broker |-> 0]
        /\ warned' = warned \cup Stranded(n)
    BY <1>2 DEF AttachRestart
  <2>1. /\ UNCHANGED <<lock, kind, start, port>> /\ warned \subseteq warned'
        /\ cs'.alive = PruneDead(lock.agents) /\ cs'.port = n
    BY <1>2 DEF AttachRestart, procVars
  <2>2. \A r \in PruneDead(lock.agents)' : port'[r.pid] # lock'.port => r.pid \in warned'
    BY <2>1 DEF WarnInv, PruneDead, Alive
  <2>3. ASSUME NEW r \in PruneDead(lock.agents), port[r.pid] # n
        PROVE  r.pid \in warned'
    <3>1. lock.port # 0
      BY <2>3 DEF ShapeInv, PruneDead
    <3>2. CASE n = lock.port
      BY <2>1, <2>3, <3>2 DEF WarnInv
    <3>3. CASE n # lock.port
      BY <2>3, <3>1, <3>3 DEF Stranded
    <3>4. QED
      BY <3>2, <3>3
  <2>4. \A r \in PruneDead(cs.alive)' : r \in PruneDead(lock.agents)
    BY <2>1 DEF PruneDead, Alive
  <2>5. QED
    BY <2>1, <2>2, <2>3, <2>4 DEF WarnInv
<1>3. ASSUME NEW p \in Pid, AttachNoPort(p) \/ KillWrapper(p) \/ OtherExits(p)
      PROVE  WarnInv'
  <2>1. Exit(p) /\ UNCHANGED <<lock, cs, warned>>
    BY <1>3 DEF AttachNoPort, KillWrapper, OtherExits
  <2>2. QED
    BY <1>0, <2>1, TablePorts, WarnPlain
<1>4. ASSUME \/ AttachNoBroker \/ AttachBrokerReady \/ AttachProxyReady
             \/ AttachBrokerFailed \/ TeardownSignal \/ TeardownBroker
      PROVE  WarnInv'
  <2>1. /\ UNCHANGED <<lock, kind, start, port, warned>>
        /\ cs'.op = cs.op /\ cs'.alive = cs.alive /\ cs'.port = cs.port
    BY <1>0, <1>4 DEF AttachNoBroker, AttachBrokerReady, AttachProxyReady, AttachBrokerFailed,
                      TeardownSignal, TeardownBroker, procVars, Section
  <2>2. QED
    BY <1>0, <2>1, TablePorts, WarnPlain
<1>5. ASSUME NEW p \in Pid, AttachSpawnBroker(p) \/ AttachSpawnProxy(p)
      PROVE  WarnInv'
  <2>1. /\ UNCHANGED <<lock, warned>>
        /\ cs'.op = cs.op /\ cs'.alive = cs.alive /\ cs'.port = cs.port
    BY <1>0, <1>5 DEF AttachSpawnBroker, AttachSpawnProxy, Section
  <2>2. {"proxy", "broker"} \subseteq Kinds /\ "starting" \in Phases /\ cs.port \in Port \cup {0}
    BY <1>0 DEF Kinds, Phases, Section
  <2>3. \E k \in Kinds, ph \in Phases, n \in Port \cup {0} : Spawn(p, k, ph, n)
    BY <1>5, <2>2 DEF AttachSpawnBroker, AttachSpawnProxy
  <2>4. QED
    BY <1>0, <2>1, <2>3, TablePorts, WarnPlain
<1>6. CASE AttachProxyFailed
  <2>1. /\ kind' = [kind EXCEPT ![cs.pid] = "free"]
        /\ UNCHANGED <<lock, start, port, warned>> /\ cs' = NoSection
    BY <1>6 DEF AttachProxyFailed
  <2>2. PortsKept
    BY <1>0, <2>1 DEF PortsKept, ProcTyped
  <2>3. QED
    BY <1>0, <2>1, <2>2, WarnPlain DEF NoSection
<1>7. CASE AttachRecord
  <2>1. /\ cs.op = "attach" /\ cs.pid \in Pid /\ cs' = NoSection
        /\ lock'.port = cs.port /\ lock'.agents = AddRef(cs.alive, SelfRef(cs.pid))
        /\ port' = [port EXCEPT ![cs.pid] = cs.port]
        /\ UNCHANGED <<kind, start, warned>>
    BY <1>0, <1>7 DEF AttachRecord, HolderInv
  <2>2. ASSUME NEW r \in PruneDead(lock.agents)', port'[r.pid] # lock'.port
        PROVE  r.pid \in warned'
    <3>1. /\ r \in AddRef(cs.alive, SelfRef(cs.pid))
          /\ r.pid # 0 /\ kind[r.pid] # "free" /\ start[r.pid] = r.start
      BY <2>1, <2>2 DEF PruneDead, Alive
    <3>2. r.pid # cs.pid
      BY <1>0, <2>1, <2>2 DEF ProcTyped
    <3>3. r \in cs.alive
      BY <3>1, <3>2 DEF AddRef, SelfRef
    <3>4. r \in PruneDead(cs.alive) /\ port[r.pid] # cs.port
      BY <1>0, <2>1, <2>2, <3>1, <3>2, <3>3 DEF PruneDead, Alive, ProcTyped
    <3>5. QED
      BY <2>1, <3>4 DEF WarnInv
  <2>3. QED
    BY <2>1, <2>2 DEF WarnInv, NoSection
<1>8. ASSUME NEW p \in Pid, Exit(p), warned' = warned, cs' = NoSection,
             lock' \in {lock, NoLock}
      PROVE  WarnInv'
  BY <1>0, <1>8, TablePorts, WarnKeeps DEF NoSection, NoLock
<1>9. ASSUME SectionExit, warned' = warned, cs' = NoSection, lock' \in {lock, NoLock}
      PROVE  WarnInv'
  <2>1. CASE cs.pid = 0
    <3>1. UNCHANGED <<kind, start, port>>
      BY <1>9, <2>1 DEF SectionExit, procVars
    <3>2. QED
      BY <1>0, <1>9, <3>1, TablePorts, WarnKeeps DEF NoSection, NoLock
  <2>2. CASE cs.pid # 0
    BY <1>0, <1>8, <1>9, <2>2 DEF SectionExit, Section
  <2>3. QED
    BY <2>1, <2>2
<1>10. CASE AttachRecordFailed
  BY <1>0, <1>8, <1>10 DEF AttachRecordFailed, HolderInv
<1>11. ASSUME TeardownClear \/ TeardownFailed \/ KillHolder
       PROVE  WarnInv'
  BY <1>9, <1>11 DEF TeardownClear, TeardownFailed, KillHolder
<1>12. ASSUME \/ \E p \in Pid : DetachBegin(p)
              \/ CleanOrphanBegin \/ CleanBegin(FALSE) \/ CleanBegin(TRUE)
       PROVE  WarnInv'
  <2>1. UNCHANGED <<lock, kind, start, port, warned>> /\ cs'.op # "attach"
    BY <1>12 DEF DetachBegin, CleanOrphanBegin, CleanBegin, NoSection, procVars
  <2>2. QED
    BY <1>0, <2>1, TablePorts, WarnPlain
<1>13. CASE DetachDrop
  <2>1. /\ cs.pid \in Pid /\ Exit(cs.pid) /\ warned' = warned /\ cs' = NoSection
        /\ lock'.port = lock.port /\ lock'.agents = RemoveRef(lock.agents, cs.pid)
    BY <1>0, <1>13 DEF DetachDrop, HolderInv, LockState, Section
  <2>2. lock'.agents \subseteq lock.agents /\ cs'.op # "attach"
    BY <2>1 DEF RemoveRef, NoSection
  <2>3. QED
    BY <1>0, <2>1, <2>2, TablePorts, WarnKeeps
<1>14. ASSUME NEW p \in Pid, StartRun(p) \/ OtherStarts(p)
       PROVE  WarnInv'
  <2>1. UNCHANGED <<lock, cs>> /\ warned \ {p} \subseteq warned'
    BY <1>14 DEF StartRun, OtherStarts
  <2>2. \E k \in Kinds, ph \in Phases : Spawn(p, k, ph, 0)
    BY <1>14 DEF StartRun, OtherStarts, Kinds, Phases
  <2>3. QED
    BY <1>0, <2>1, <2>2, TablePorts, WarnPlain
<1>15. ASSUME UNCHANGED <<lock, cs, warned>>, UNCHANGED <<kind, start, port>>
       PROVE  WarnInv'
  BY <1>0, <1>15, TablePorts, WarnPlain
<1>16. CASE DaemonStep
  <2> PICK p \in Pid : \/ ProxyBind(p) \/ ProxyExit(p) \/ ProxyCrash(p)
                       \/ BrokerBind(p) \/ BrokerClose(p) \/ BrokerExit(p)
                       \/ BrokerCrash(p)
    BY <1>16 DEF DaemonStep
  <2>1. UNCHANGED <<lock, cs, warned>> /\ (Exit(p) \/ UNCHANGED <<kind, start, port>>)
    BY DEF ProxyBind, ProxyExit, ProxyCrash, BrokerBind, BrokerClose, BrokerExit, BrokerCrash
  <2>2. QED
    BY <1>0, <1>15, <2>1, TablePorts, WarnPlain
<1>17. ASSUME \/ AllowOnce
              \/ \E n \in Port : ForeignBinds(n) \/ ForeignCloses(n)
              \/ UNCHANGED vars
       PROVE  WarnInv'
  BY <1>15, <1>17 DEF AllowOnce, ForeignBinds, ForeignCloses, vars, procVars
<1>18. CASE AttachStep
  BY <1>1, <1>2, <1>3, <1>4, <1>5, <1>6, <1>7, <1>10, <1>18 DEF AttachStep
<1>19. CASE TeardownStep
  BY <1>4, <1>11, <1>12, <1>13, <1>19 DEF TeardownStep
<1>20. CASE WorldStep
  BY <1>3, <1>11, <1>14, <1>17, <1>20 DEF WorldStep
<1>21. QED
  BY <1>16, <1>17, <1>18, <1>19, <1>20 DEF Next

\* No agent is stranded silently (lifecycle.go: warnPortChanged on every restart
\* that could not take the recorded port again): whatever crashes, fails or is
\* forced, and through any number of restarts on any ports, a live recorded
\* agent whose frozen port is not the recorded one has been named in a warning.
THEOREM WarningsCorrect == Spec => []StrandedAreWarned
<1>1. Init => WarnInv
  BY DEF Init, WarnInv, NoLock, NoSection, PruneDead
<1>2. LifecycleInv /\ ShapeInv /\ WarnInv /\ [Next]_vars => WarnInv'
  BY WarnStep
<1>3. WarnInv => StrandedAreWarned
  BY DEF WarnInv, StrandedAreWarned
<1>4. QED
  BY <1>1, <1>2, <1>3, ShapeInvariant, PTL DEF Spec

-----------------------------------------------------------------------------
(***************************************************************************)
(* Where the proxies are                                                   *)
(***************************************************************************)

\* No section is cut short, no port is taken by a stranger, and a proxy that
\* died is not taken for one that inherited its PID.
Steady ==
    /\ env \cap {"killInLock", "io", "foreignPort"} = {}
    /\ ~({"proxyCrash", "recycle"} \subseteq env)

RunningProxy(q) == kind[q] = "proxy" /\ phase[q] \in {"starting", "up"}

Serves(q, n) == q \in Pid /\ kind[q] = "proxy" /\ phase[q] = "up" /\ port[q] = n

\* No proxy, or one that crashed.
Gone(q) ==
    q = 0 \/ ("proxyCrash" \in env /\ q \in Pid /\ kind[q] = "free" /\ start[q] >= 1)

\* An Attach that found no proxy, until it has one.
Starting == cs.step \in {"broker", "brokerWait", "proxy", "proxyWait"}

\* A teardown that has signalled the proxy.
Stopping == cs.step \in {"stopBroker", "clear"}

\* A proxy nobody has asked to stop is the recorded one, which serves the
\* recorded port unless it crashed, or the one an Attach is starting.  While it
\* is being started no other one serves, and nothing else answers on its port.
ProxyKnown ==
    /\ foreign = {}
    /\ \A q \in Pid : RunningProxy(q) => q \in {lock.proxy, cs.proxy}
    /\ ~Stopping => Serves(lock.proxy, lock.port) \/ Gone(lock.proxy)
    /\ Stopping => \A q \in Pid : ~RunningProxy(q)
    /\ Starting => /\ Gone(lock.proxy)
                   /\ \A q \in Pid : Listens(q) /\ port[q] = cs.port => q = cs.proxy
    /\ cs.step = "proxyWait" =>
         \/ cs.proxy \in Pid /\ RunningProxy(cs.proxy) /\ port[cs.proxy] = cs.port
         \/ Gone(cs.proxy)
    /\ cs.step = "record" =>
         /\ Serves(cs.proxy, cs.port) \/ Gone(cs.proxy)
         /\ Gone(lock.proxy) \/ (lock.proxy = cs.proxy /\ lock.port = cs.port)
    /\ cs.step \notin {"proxyWait", "record"} => cs.proxy = 0

KnownInv == Steady => ProxyKnown

\* A step that starts, stops and crashes no proxy, and lets none listen.
ProxiesKept ==
    \A q \in Pid :
        /\ RunningProxy(q) \/ RunningProxy(q)' =>
             kind'[q] = kind[q] /\ phase'[q] = phase[q] /\ port'[q] = port[q]
        /\ Listens(q)' => Listens(q) /\ port'[q] = port[q]

\* A crashed proxy stays one: its PID is not handed out again.
LEMMA GoneKept ==
    ASSUME TypeInv, Steady, TableStep, env' = env, NEW q, Gone(q)
    PROVE  Gone(q)'
<1>0. ProcTyped /\ births \in Nat
  BY LifecycleAssumption DEF TypeInv, ProcTyped
<1>1. CASE q = 0
  BY <1>1 DEF Gone
<1>2. CASE q # 0
  <2>1. /\ "proxyCrash" \in env /\ q \in Pid /\ kind[q] = "free" /\ start[q] >= 1
        /\ "recycle" \notin env
    BY <1>2 DEF Gone, Steady
  <2>2. CASE start' = start /\ \A r \in Pid : kind'[r] \in {kind[r], "free"}
    BY <2>1, <2>2 DEF Gone
  <2>3. ASSUME NEW p \in Pid, NEW k \in Kinds, NEW ph \in Phases, NEW n \in Port \cup {0},
               Spawn(p, k, ph, n)
        PROVE  Gone(q)'
    <3>1. start[p] = 0
      BY <2>1, <2>3 DEF Spawn, CanSpawn
    <3>2. q # p
      BY <2>1, <3>1
    <3>3. kind'[q] = kind[q] /\ start'[q] = start[q]
      BY <1>0, <2>1, <2>3, <3>2, SpawnTyped
    <3>4. QED
      BY <2>1, <3>3 DEF Gone
  <2>4. QED
    BY <2>2, <2>3 DEF TableStep
<1>3. QED
  BY <1>1, <1>2

\* What a step that keeps the proxies keeps of each.
LEMMA KeptProxies ==
    ASSUME ProxiesKept
    PROVE  /\ \A q, n : Serves(q, n) => Serves(q, n)'
           /\ \A q \in Pid : RunningProxy(q)' <=> RunningProxy(q)
           /\ \A q \in Pid : RunningProxy(q) => port'[q] = port[q]
           /\ \A q \in Pid : Listens(q)' => Listens(q) /\ port'[q] = port[q]
BY DEF ProxiesKept, Serves, RunningProxy

\* Which steps on the process table keep the proxies.
LEMMA ProxiesKeptBy ==
    ASSUME TypeInv
    PROVE  /\ UNCHANGED <<kind, phase, port>> => ProxiesKept
           /\ \A p \in Pid : Exit(p) /\ ~RunningProxy(p) => ProxiesKept
           /\ \A p \in Pid, k \in Kinds \ {"proxy"}, ph \in Phases, n \in Port \cup {0} :
                Spawn(p, k, ph, n) => ProxiesKept
           /\ \A S : SigTerm(S) /\ UNCHANGED <<kind, port>>
                        /\ (\A q \in S \cap Pid : ~RunningProxy(q)) => ProxiesKept
<1>0. ProcTyped
  BY DEF TypeInv
<1>1. UNCHANGED <<kind, phase, port>> => ProxiesKept
  BY DEF ProxiesKept, RunningProxy, Listens
<1>2. ASSUME NEW p \in Pid, Exit(p), ~RunningProxy(p) PROVE ProxiesKept
  BY <1>0, <1>2, ExitTyped DEF ProxiesKept, RunningProxy, Listens
<1>3. ASSUME NEW p \in Pid, NEW k \in Kinds \ {"proxy"}, NEW ph \in Phases,
             NEW n \in Port \cup {0}, Spawn(p, k, ph, n)
      PROVE  ProxiesKept
  <2>1. /\ kind[p] = "free" /\ kind'[p] = k
        /\ \A q \in Pid \ {p} : /\ kind'[q] = kind[q] /\ phase'[q] = phase[q]
                                /\ port'[q] = port[q]
    BY <1>0, <1>3, SpawnTyped
  <2>2. QED
    BY <2>1 DEF ProxiesKept, RunningProxy, Listens
<1>4. ASSUME NEW S, SigTerm(S), UNCHANGED <<kind, port>>,
             \A q \in S \cap Pid : ~RunningProxy(q)
      PROVE  ProxiesKept
  <2>1. \A q \in Pid : phase'[q] = IF q \in S THEN Terminated(q) ELSE phase[q]
    BY <1>4 DEF SigTerm
  <2>2. \A q \in Pid : kind[q] = "proxy" => phase'[q] = phase[q]
    BY <1>4, <2>1 DEF Terminated, RunningProxy
  <2>3. QED
    BY <1>4, <2>2 DEF ProxiesKept, RunningProxy, Listens
<1>5. QED
  BY <1>1, <1>2, <1>3, <1>4

\* Nothing is lost when neither the proxies nor what the lock and the section
\* say of them changes.
LEMMA KnownKeeps ==
    ASSUME TypeInv, KnownInv, ProxiesKept, TableStep, env' = env, foreign' \subseteq foreign,
           lock'.proxy = lock.proxy, lock'.port = lock.port,
           cs'.step = cs.step, cs'.proxy = cs.proxy, cs'.port = cs.port
    PROVE  KnownInv'
<1>1. SUFFICES ASSUME Steady' PROVE ProxyKnown'
  BY DEF KnownInv
<1>2. Steady /\ ProxyKnown
  BY <1>1 DEF Steady, KnownInv
<1>3. \A q : Gone(q) => Gone(q)'
  BY <1>2, GoneKept
<1>4. QED
  BY <1>2, <1>3, KeptProxies DEF ProxyKnown, Starting, Stopping

\* The steps of an Attach.
LEMMA KnownAttach ==
    ASSUME TypeInv, ShapeInv, KnownInv, AttachStep
    PROVE  KnownInv'
<1>0. /\ ProcTyped /\ RestTyped /\ HolderInv
      /\ cs \in Section /\ lock \in LockState /\ 0 \notin Pid /\ 0 \notin Port
  BY LifecycleAssumption DEF TypeInv, RestTyped
<1>1. SUFFICES ASSUME Steady' PROVE ProxyKnown'
  BY DEF KnownInv
<1>2. env' = env /\ foreign' = foreign
  BY DEF AttachStep, AttachReuse, AttachRestart, AttachNoPort, AttachNoBroker,
         AttachSpawnBroker, AttachBrokerReady, AttachBrokerFailed, AttachSpawnProxy,
         AttachProxyReady, AttachProxyFailed, AttachRecord, AttachRecordFailed
<1>3. Steady /\ ProxyKnown
  BY <1>1, <1>2 DEF Steady, KnownInv
<1>4. foreign' = {}
  BY <1>2, <1>3 DEF ProxyKnown
<1>5. TableStep => \A q : Gone(q) => Gone(q)'
  BY <1>2, <1>3, GoneKept
<1>6. \A q \in Pid : Gone(q) => ~RunningProxy(q)
  BY <1>0 DEF Gone, RunningProxy
<1>7. ASSUME NEW p \in Pid, AttachReuse(p)
      PROVE  ProxyKnown'
  <2>1. ProxiesKept /\ TableStep
    BY <1>0, <1>7, ProxiesKeptBy, TableSteps DEF AttachReuse, procVars
  <2>2. /\ lock' = lock /\ cs.step = "none" /\ cs'.step = "record"
        /\ cs'.proxy = lock.proxy /\ cs'.port = lock.port
    BY <1>0, <1>7 DEF AttachReuse, HolderInv
  <2>3. cs.proxy = 0 /\ (Serves(lock.proxy, lock.port) \/ Gone(lock.proxy))
    BY <1>3, <2>2 DEF ProxyKnown, Stopping
  <2>4. QED
    BY <1>0, <1>3, <1>4, <1>5, <2>1, <2>2, <2>3, KeptProxies
       DEF ProxyKnown, Starting, Stopping
<1>8. ASSUME NEW p \in Pid, AttachRestart(p)
      PROVE  ProxyKnown'
  <2>1. ProxiesKept /\ TableStep
    BY <1>0, <1>8, ProxiesKeptBy, TableSteps DEF AttachRestart, procVars
  <2>2. /\ lock' = lock /\ cs.step = "none" /\ ~ProxyUp
        /\ cs'.step = "broker" /\ cs'.proxy = 0 /\ cs'.port \in PortChoices
    BY <1>0, <1>8 DEF AttachRestart, HolderInv
  <2>3. cs.proxy = 0 /\ Gone(lock.proxy)
    <3>1. Serves(lock.proxy, lock.port) => ProxyUp
      BY <1>0 DEF Serves, ProxyUp, Alive, Probe, Listens
    <3>2. QED
      BY <1>3, <2>2, <3>1 DEF ProxyKnown, Stopping
  <2>4. \A q \in Pid : ~(Listens(q) /\ port[q] = cs'.port)
    BY <2>2 DEF PortChoices, Probe
  <2>5. QED
    BY <1>0, <1>3, <1>4, <1>5, <2>1, <2>2, <2>3, <2>4, KeptProxies
       DEF ProxyKnown, Starting, Stopping
<1>9. ASSUME NEW p \in Pid, AttachNoPort(p)
      PROVE  ProxyKnown'
  <2>1. UNCHANGED <<lock, cs>> /\ Exit(p) /\ ~RunningProxy(p)
    BY <1>9 DEF AttachNoPort, RunningProxy
  <2>2. ProxiesKept /\ TableStep
    BY <1>0, <2>1, ProxiesKeptBy, TableSteps
  <2>3. QED
    BY <1>1, <1>2, <2>1, <2>2, KnownKeeps DEF KnownInv
<1>10. ASSUME AttachNoBroker \/ AttachBrokerReady
       PROVE  ProxyKnown'
  <2>1. ProxiesKept /\ TableStep
    BY <1>0, <1>10, ProxiesKeptBy, TableSteps DEF AttachNoBroker, AttachBrokerReady, procVars
  <2>2. /\ lock' = lock /\ cs.step \in {"broker", "brokerWait"} /\ cs'.step = "proxy"
        /\ cs'.proxy = cs.proxy /\ cs'.port = cs.port
    BY <1>0, <1>10 DEF AttachNoBroker, AttachBrokerReady, Section
  <2>3. QED
    BY <1>3, <1>4, <1>5, <2>1, <2>2, KeptProxies DEF ProxyKnown, Starting, Stopping
<1>11. ASSUME NEW p \in Pid, AttachSpawnBroker(p)
       PROVE  ProxyKnown'
  <2>1. /\ "broker" \in Kinds \ {"proxy"} /\ "starting" \in Phases /\ 0 \in Port \cup {0}
        /\ Spawn(p, "broker", "starting", 0)
    BY <1>11 DEF AttachSpawnBroker, Kinds, Phases
  <2>2. ProxiesKept /\ TableStep
    BY <2>1, ProxiesKeptBy DEF TableStep
  <2>3. /\ lock' = lock /\ cs.step = "broker" /\ cs'.step = "brokerWait"
        /\ cs'.proxy = cs.proxy /\ cs'.port = cs.port
    BY <1>0, <1>11 DEF AttachSpawnBroker, Section
  <2>4. QED
    BY <1>3, <1>4, <1>5, <2>2, <2>3, KeptProxies DEF ProxyKnown, Starting, Stopping
<1>12. CASE AttachBrokerFailed
  <2>1. /\ lock' = lock /\ cs.step = "brokerWait" /\ cs'.step = "proxy"
        /\ cs'.proxy = cs.proxy /\ cs'.port = cs.port
        /\ SigTerm({cs.broker} \cap Pid) /\ UNCHANGED <<kind, start, port>>
    BY <1>0, <1>12 DEF AttachBrokerFailed, Section
  <2>2. \A q \in Pid : ~RunningProxy(q)
    BY <1>0, <1>3, <1>6, <2>1 DEF ProxyKnown, Starting
  <2>3. ProxiesKept /\ TableStep
    BY <1>0, <2>1, <2>2, ProxiesKeptBy, TableSteps
  <2>4. QED
    BY <1>3, <1>4, <1>5, <2>1, <2>3, KeptProxies DEF ProxyKnown, Starting, Stopping
<1>13. ASSUME NEW q \in Pid, AttachSpawnProxy(q)
       PROVE  ProxyKnown'
  <2>1. /\ "proxy" \in Kinds /\ "starting" \in Phases /\ cs.port \in Port \cup {0}
        /\ Spawn(q, "proxy", "starting", cs.port)
    BY <1>0, <1>13 DEF AttachSpawnProxy, Kinds, Phases, Section
  <2>2. /\ TableStep /\ kind[q] = "free" /\ kind'[q] = "proxy" /\ phase'[q] = "starting"
        /\ \A r \in Pid \ {q} : /\ kind'[r] = kind[r] /\ phase'[r] = phase[r]
                                /\ port'[r] = port[r]
    BY <1>0, <2>1, SpawnTyped DEF TableStep
  <2>3. port'[q] = cs.port
    BY <1>0, <2>1 DEF Spawn, ProcTyped
  <2>4. /\ lock' = lock /\ cs.step = "proxy" /\ cs'.step = "proxyWait"
        /\ cs'.proxy = q /\ cs'.port = cs.port
    BY <1>0, <1>13 DEF AttachSpawnProxy, Section
  <2>5. cs.proxy = 0 /\ Gone(lock.proxy) /\ Gone(lock.proxy)'
    BY <1>3, <1>5, <2>2, <2>4 DEF ProxyKnown, Starting
  <2>6. \A r \in Pid : RunningProxy(r)' => r = q
    BY <1>0, <1>3, <1>6, <2>2, <2>5 DEF ProxyKnown, RunningProxy
  <2>7. \A r \in Pid : Listens(r)' /\ port'[r] = cs.port => r = q
    BY <1>0, <1>3, <2>2, <2>4, <2>5 DEF ProxyKnown, Starting, Listens
  <2>8. RunningProxy(q)'
    BY <2>2 DEF RunningProxy
  <2>9. QED
    BY <1>4, <2>3, <2>4, <2>5, <2>6, <2>7, <2>8 DEF ProxyKnown, Starting, Stopping
<1>14. CASE AttachProxyReady
  <2>1. ProxiesKept /\ TableStep
    BY <1>0, <1>14, ProxiesKeptBy, TableSteps DEF AttachProxyReady, procVars
  <2>2. /\ lock' = lock /\ cs.step = "proxyWait" /\ cs'.step = "record" /\ cs.op = "attach"
        /\ cs'.proxy = cs.proxy /\ cs'.port = cs.port /\ Probe(cs.port)
    BY <1>0, <1>14 DEF AttachProxyReady, Section, HolderInv
  <2>3. Serves(cs.proxy, cs.port)
    <3>1. PICK r \in Pid : Listens(r) /\ port[r] = cs.port
      BY <1>3, <2>2 DEF Probe, ProxyKnown
    <3>2. r = cs.proxy
      BY <1>3, <2>2, <3>1 DEF ProxyKnown, Starting
    <3>3. RunningProxy(r)
      BY <1>0, <1>3, <2>2, <3>1, <3>2 DEF ProxyKnown, Gone, Listens
    <3>4. QED
      BY <3>1, <3>2, <3>3 DEF Listens, RunningProxy, Serves
  <2>4. QED
    BY <1>3, <1>4, <1>5, <2>1, <2>2, <2>3, KeptProxies DEF ProxyKnown, Starting, Stopping
<1>15. CASE AttachProxyFailed
  <2>1. /\ lock' = lock /\ cs' = NoSection /\ cs.step \in {"proxy", "proxyWait"}
        /\ start' = start /\ kind' = [kind EXCEPT ![cs.pid] = "free"]
        /\ \A q \in Pid : phase'[q] = IF q = cs.pid THEN "none"
                                      ELSE IF q \in {cs.proxy, cs.broker} THEN Terminated(q)
                                      ELSE phase[q]
    BY <1>15 DEF AttachProxyFailed
  <2>2. TableStep
    BY <1>0, <2>1 DEF TableStep, ProcTyped
  <2>3. Gone(lock.proxy) /\ \A q \in Pid : RunningProxy(q) => q = cs.proxy
    BY <1>0, <1>3, <1>6, <2>1 DEF ProxyKnown, Starting
  <2>4. ASSUME NEW q \in Pid PROVE ~RunningProxy(q)'
    <3>1. SUFFICES ASSUME kind'[q] = "proxy" PROVE phase'[q] \notin {"starting", "up"}
      BY DEF RunningProxy
    <3>2. kind[q] = "proxy" /\ q # cs.pid
      BY <1>0, <2>1, <3>1 DEF ProcTyped
    <3>3. CASE q = cs.proxy
      BY <2>1, <3>2, <3>3 DEF Terminated
    <3>4. CASE q # cs.proxy
      <4>1. ~RunningProxy(q)
        BY <2>3, <3>4
      <4>2. QED
        BY <2>1, <3>2, <4>1 DEF RunningProxy, Terminated
    <3>5. QED
      BY <3>3, <3>4
  <2>5. QED
    BY <1>4, <1>5, <2>1, <2>2, <2>3, <2>4 DEF ProxyKnown, Starting, Stopping, NoSection
<1>16. CASE AttachRecord
  <2>1. /\ cs.step = "record" /\ cs' = NoSection /\ cs.pid \in Pid /\ kind[cs.pid] = "wrapper"
        /\ UNCHANGED <<kind, start>>
        /\ phase' = [phase EXCEPT ![cs.pid] = "attached"]
        /\ port' = [port EXCEPT ![cs.pid] = cs.port]
        /\ lock'.proxy = cs.proxy /\ lock'.port = cs.port
    BY <1>0, <1>16 DEF AttachRecord, HolderInv
  <2>2. ProxiesKept /\ TableStep
    BY <1>0, <2>1, TableSteps DEF ProxiesKept, RunningProxy, Listens, ProcTyped
  <2>3. \A q \in Pid : RunningProxy(q) => q = cs.proxy
    BY <1>0, <1>3, <1>6, <2>1 DEF ProxyKnown
  <2>4. QED
    BY <1>3, <1>4, <1>5, <2>1, <2>2, <2>3, KeptProxies
       DEF ProxyKnown, Starting, Stopping, NoSection
<1>17. CASE AttachRecordFailed
  BY <1>3, <1>17 DEF AttachRecordFailed, Steady
<1>18. QED
  BY <1>7, <1>8, <1>9, <1>10, <1>11, <1>12, <1>13, <1>14, <1>15, <1>16, <1>17
     DEF AttachStep

\* The steps of a Detach, a doctor and a clean.
LEMMA KnownTeardown ==
    ASSUME TypeInv, ShapeInv, KnownInv, TeardownStep
    PROVE  KnownInv'
<1>0. /\ ProcTyped /\ RestTyped /\ HolderInv
      /\ cs \in Section /\ lock \in LockState /\ 0 \notin Pid
  BY LifecycleAssumption DEF TypeInv, RestTyped
<1>1. SUFFICES ASSUME Steady' PROVE ProxyKnown'
  BY DEF KnownInv
<1>2. env' = env /\ foreign' = foreign
  BY DEF TeardownStep, DetachBegin, DetachDrop, CleanOrphanBegin, CleanBegin,
         TeardownSignal, TeardownBroker, TeardownClear, TeardownFailed
<1>3. Steady /\ ProxyKnown /\ foreign' = {}
  BY <1>1, <1>2 DEF Steady, KnownInv, ProxyKnown
<1>4. TableStep => \A q : Gone(q) => Gone(q)'
  BY <1>2, <1>3, GoneKept
<1>5. \A q \in Pid : Gone(q) => ~RunningProxy(q)
  BY <1>0 DEF Gone, RunningProxy
<1>6. ASSUME NEW p \in Pid, DetachBegin(p)
      PROVE  ProxyKnown'
  <2>1. /\ UNCHANGED <<kind, start, port>> /\ kind[p] = "wrapper"
        /\ phase' = [phase EXCEPT ![p] = "leaving"]
        /\ lock' = lock /\ cs.step = "none" /\ cs'.step \in {"signal", "drop"} /\ cs'.proxy = 0
    BY <1>0, <1>6 DEF DetachBegin, HolderInv, NoSection
  <2>2. ProxiesKept /\ TableStep
    BY <1>0, <2>1, TableSteps DEF ProxiesKept, RunningProxy, Listens, ProcTyped
  <2>3. QED
    BY <1>3, <1>4, <2>1, <2>2, KeptProxies DEF ProxyKnown, Starting, Stopping
<1>7. ASSUME CleanOrphanBegin \/ CleanBegin(FALSE) \/ CleanBegin(TRUE)
      PROVE  ProxyKnown'
  <2>1. ProxiesKept /\ TableStep
    BY <1>0, <1>7, ProxiesKeptBy, TableSteps DEF CleanOrphanBegin, CleanBegin, procVars
  <2>2. lock' = lock /\ cs.step = "none" /\ cs'.step = "signal" /\ cs'.proxy = 0
    BY <1>0, <1>7 DEF CleanOrphanBegin, CleanBegin, HolderInv, NoSection
  <2>3. QED
    BY <1>3, <1>4, <2>1, <2>2, KeptProxies DEF ProxyKnown, Starting, Stopping
<1>8. CASE DetachDrop
  <2>1. /\ cs.step = "drop" /\ cs.pid \in Pid /\ kind[cs.pid] = "wrapper" /\ Exit(cs.pid)
        /\ cs' = NoSection /\ lock'.proxy = lock.proxy /\ lock'.port = lock.port
    BY <1>0, <1>8 DEF DetachDrop, HolderInv, LockState, Section
  <2>2. ProxiesKept /\ TableStep
    BY <1>0, <2>1, ProxiesKeptBy, TableSteps DEF RunningProxy
  <2>3. QED
    BY <1>3, <1>4, <2>1, <2>2, KeptProxies DEF ProxyKnown, Starting, Stopping, NoSection
<1>9. CASE TeardownSignal
  <2>1. /\ lock' = lock /\ cs.step = "signal" /\ cs'.step = "stopBroker"
        /\ cs'.proxy = cs.proxy /\ UNCHANGED <<kind, start, port>>
        /\ SigTerm({lock.proxy} \cap Pid)
    BY <1>0, <1>9 DEF TeardownSignal, Section
  <2>2. cs.proxy = 0 /\ \A q \in Pid : RunningProxy(q) => q = lock.proxy
    BY <1>0, <1>3, <2>1 DEF ProxyKnown
  <2>3. \A q \in Pid : phase'[q] = IF q = lock.proxy THEN Terminated(q) ELSE phase[q]
    BY <2>1 DEF SigTerm
  <2>4. ASSUME NEW q \in Pid PROVE ~RunningProxy(q)'
    <3>1. CASE q = lock.proxy
      BY <2>3, <3>1 DEF Terminated, RunningProxy
    <3>2. CASE q # lock.proxy
      BY <2>1, <2>2, <2>3, <3>2 DEF RunningProxy
    <3>3. QED
      BY <3>1, <3>2
  <2>5. QED
    BY <1>3, <2>1, <2>2, <2>4 DEF ProxyKnown, Starting, Stopping
<1>10. CASE TeardownBroker
  <2>1. /\ lock' = lock /\ cs.step = "stopBroker" /\ cs'.step = "clear"
        /\ cs'.proxy = cs.proxy /\ UNCHANGED <<kind, start, port>>
        /\ SigTerm({lock.broker} \cap Pid)
    BY <1>0, <1>10 DEF TeardownBroker, Section
  <2>2. \A q \in Pid : ~RunningProxy(q)
    BY <1>3, <2>1 DEF ProxyKnown, Stopping
  <2>3. ProxiesKept
    BY <2>1, <2>2, ProxiesKeptBy
  <2>4. QED
    BY <1>3, <2>1, <2>3, KeptProxies DEF ProxyKnown, Starting, Stopping
<1>11. CASE TeardownClear
  <2>1. cs.step = "clear" /\ lock' = NoLock /\ cs' = NoSection /\ SectionExit
    BY <1>11 DEF TeardownClear
  <2>2. \A q \in Pid : ~RunningProxy(q)
    BY <1>3, <2>1 DEF ProxyKnown, Stopping
  <2>3. ProxiesKept
    BY <1>0, <2>1, <2>2, ProxiesKeptBy DEF SectionExit, Section, procVars
  <2>4. QED
    BY <1>3, <2>1, <2>2, <2>3, KeptProxies
       DEF ProxyKnown, Starting, Stopping, NoSection, NoLock, Gone
<1>12. CASE TeardownFailed
  BY <1>3, <1>12 DEF TeardownFailed, Steady
<1>13. QED
  BY <1>6, <1>7, <1>8, <1>9, <1>10, <1>11, <1>12 DEF TeardownStep

\* What daemons and the rest of the world do.
LEMMA KnownRest ==
    ASSUME TypeInv, ShapeInv, KnownInv, DaemonStep \/ WorldStep \/ UNCHANGED vars
    PROVE  KnownInv'
<1>0. /\ ProcTyped /\ RestTyped /\ HolderInv
      /\ cs \in Section /\ lock \in LockState /\ 0 \notin Pid
  BY LifecycleAssumption DEF TypeInv, RestTyped
<1>1. SUFFICES ASSUME Steady' PROVE ProxyKnown'
  BY DEF KnownInv
<1>2. env' = env
  BY EnvFixed DEF Next
<1>3. Steady /\ ProxyKnown
  BY <1>1, <1>2 DEF Steady, KnownInv
<1>4. ASSUME UNCHANGED <<lock, cs>>, foreign' \subseteq foreign, ProxiesKept, TableStep
      PROVE  ProxyKnown'
  BY <1>1, <1>2, <1>4, KnownKeeps DEF KnownInv
<1>5. ASSUME NEW q \in Pid, ProxyBind(q)
      PROVE  ProxyKnown'
  <2>1. UNCHANGED <<lock, cs, foreign>> /\ kind[q] = "proxy" /\ phase[q] = "starting"
    BY <1>5 DEF ProxyBind
  <2>2. RunningProxy(q) /\ ~Serves(q, lock.port) /\ ~Serves(q, cs.port)
        /\ ~Gone(q)
    BY <1>0, <2>1 DEF RunningProxy, Serves, Gone
  <2>3. q # lock.proxy /\ q = cs.proxy /\ cs.step = "proxyWait" /\ port[q] = cs.port
    BY <1>0, <1>3, <2>2 DEF ProxyKnown
  <2>4. ~Probe(port[q])
    BY <1>3, <2>1, <2>3 DEF ProxyKnown, Starting, Probe, Listens
  <2>5. phase' = [phase EXCEPT ![q] = "up"] /\ UNCHANGED <<kind, start, port>>
    BY <1>5, <2>4 DEF ProxyBind
  <2>6. TableStep
    BY <1>0, <2>5, TableSteps
  <2>7. Gone(lock.proxy)'
    BY <1>2, <1>3, <2>1, <2>3, <2>6, GoneKept DEF ProxyKnown, Starting
  <2>8. /\ \A r \in Pid : RunningProxy(r)' => r = q \/ RunningProxy(r)
        /\ \A r \in Pid : Listens(r)' => r = q \/ Listens(r)
        /\ RunningProxy(q)'
    BY <1>0, <2>1, <2>5 DEF RunningProxy, Listens, ProcTyped
  <2>9. QED
    BY <1>3, <2>1, <2>3, <2>5, <2>7, <2>8 DEF ProxyKnown, Starting, Stopping
<1>6. ASSUME NEW q \in Pid, ProxyCrash(q)
      PROVE  ProxyKnown'
  <2>1. /\ UNCHANGED <<lock, cs, foreign, start>> /\ "proxyCrash" \in env
        /\ kind'[q] = "free" /\ kind[q] = "proxy" /\ phase'[q] = "none"
        /\ \A r \in Pid \ {q} : /\ kind'[r] = kind[r] /\ phase'[r] = phase[r]
                                /\ port'[r] = port[r]
        /\ TableStep
    BY <1>0, <1>6, ExitTyped, TableSteps DEF ProxyCrash
  <2>2. start[q] >= 1
    BY <1>0, <2>1 DEF HolderInv
  <2>3. Gone(q)'
    BY <1>2, <2>1, <2>2 DEF Gone
  <2>4. \A r : Gone(r) => Gone(r)'
    BY <1>2, <1>3, <2>1, GoneKept
  <2>5. /\ \A r, n : Serves(r, n) => Serves(r, n)' \/ Gone(r)'
        /\ \A r \in Pid : RunningProxy(r)' => RunningProxy(r)
        /\ \A r \in Pid : RunningProxy(r) => Gone(r)' \/ (RunningProxy(r)' /\ port'[r] = port[r])
        /\ \A r \in Pid : Listens(r)' => Listens(r) /\ port'[r] = port[r]
    BY <2>1, <2>3 DEF Serves, RunningProxy, Listens
  <2>6. QED
    BY <1>3, <2>1, <2>4, <2>5 DEF ProxyKnown, Starting, Stopping
<1>7. ASSUME NEW q \in Pid,
             ProxyExit(q) \/ BrokerExit(q) \/ BrokerCrash(q) \/ KillWrapper(q) \/ OtherExits(q)
      PROVE  ProxyKnown'
  <2>1. UNCHANGED <<lock, cs, foreign>> /\ Exit(q) /\ ~RunningProxy(q)
    BY <1>7 DEF ProxyExit, BrokerExit, BrokerCrash, KillWrapper, OtherExits, RunningProxy
  <2>2. QED
    BY <1>0, <1>4, <2>1, ProxiesKeptBy, TableSteps
<1>8. ASSUME NEW b \in Pid, BrokerBind(b) \/ BrokerClose(b)
      PROVE  ProxyKnown'
  <2>1. /\ UNCHANGED <<lock, cs, foreign, kind, start, port>> /\ kind[b] = "broker"
        /\ \A q \in Pid \ {b} : phase'[q] = phase[q]
    BY <1>0, <1>8 DEF BrokerBind, BrokerClose, ProcTyped
  <2>2. ProxiesKept
    BY <2>1 DEF ProxiesKept, RunningProxy, Listens
  <2>3. QED
    BY <1>0, <1>4, <2>1, <2>2, TableSteps
<1>9. ASSUME NEW p \in Pid, StartRun(p) \/ OtherStarts(p)
      PROVE  ProxyKnown'
  <2>1. UNCHANGED <<lock, cs, foreign>>
    BY <1>9 DEF StartRun, OtherStarts
  <2>2. \E k \in Kinds \ {"proxy"}, ph \in Phases : Spawn(p, k, ph, 0)
    BY <1>9 DEF StartRun, OtherStarts, Kinds, Phases
  <2>3. ProxiesKept /\ TableStep
    BY <2>2, ProxiesKeptBy DEF TableStep
  <2>4. QED
    BY <1>4, <2>1, <2>3
<1>10. CASE KillHolder
  BY <1>3, <1>10 DEF KillHolder, Steady
<1>11. ASSUME UNCHANGED procVars, UNCHANGED <<lock, cs>>, foreign' \subseteq foreign
       PROVE  ProxyKnown'
  BY <1>0, <1>4, <1>11, ProxiesKeptBy, TableSteps DEF procVars
<1>12. ASSUME NEW n \in Port, ForeignBinds(n)
       PROVE  ProxyKnown'
  BY <1>3, <1>12 DEF ForeignBinds, Steady
<1>13. ASSUME AllowOnce \/ (\E n \in Port : ForeignCloses(n)) \/ UNCHANGED vars
       PROVE  ProxyKnown'
  BY <1>11, <1>13 DEF AllowOnce, ForeignCloses, vars, procVars
<1>14. QED
  BY <1>5, <1>6, <1>7, <1>8, <1>9, <1>10, <1>12, <1>13 DEF DaemonStep, WorldStep

LEMMA KnownInvariant == Spec => [](LifecycleInv /\ ShapeInv /\ KnownInv)
<1>1. Init => KnownInv
  BY LifecycleAssumption
     DEF Init, KnownInv, ProxyKnown, NoLock, NoSection, RunningProxy, Gone, Starting, Stopping
<1>2. LifecycleInv /\ ShapeInv /\ KnownInv /\ [Next]_vars => KnownInv'
  BY KnownAttach, KnownTeardown, KnownRest DEF Next, LifecycleInv
<1>3. QED
  BY <1>1, <1>2, ShapeInvariant, PTL DEF Spec

-----------------------------------------------------------------------------
(***************************************************************************)
(* Where the brokers are                                                   *)
(***************************************************************************)

\* As long as no proxy crashes, the broker has the proxy's lifetime.
Tame == env \cap {"proxyCrash", "killInLock", "io", "foreignPort"} = {}

RunningBroker(b) == kind[b] = "broker" /\ phase[b] \in {"starting", "up"}

\* A broker nobody has asked to stop is the recorded one or the one an Attach
\* has started.  An Attach that starts one found none recorded; one that does
\* not start one carries over the recorded one.
BrokerKnown ==
    /\ \A b \in Pid : RunningBroker(b) => b \in {lock.broker, cs.broker}
    /\ cs.step \notin {"brokerWait", "proxy", "proxyWait", "record"} => cs.broker = 0
    /\ cs.op = "attach" =>
         lock.broker = 0 \/ (cs.step = "record" /\ cs.broker = lock.broker)
    /\ cs.step = "clear" => \A b \in Pid : ~RunningBroker(b)

BrokerInv == Tame => BrokerKnown

\* A step that starts no broker.
NoNewBroker == \A b \in Pid : RunningBroker(b)' => RunningBroker(b)

\* Which steps on the process table start none.
LEMMA NoNewBrokerBy ==
    ASSUME TypeInv
    PROVE  /\ UNCHANGED <<kind, phase>> => NoNewBroker
           /\ \A p \in Pid : Exit(p) => NoNewBroker
           /\ \A p \in Pid, k \in Kinds \ {"broker"}, ph \in Phases, n \in Port \cup {0} :
                Spawn(p, k, ph, n) => NoNewBroker
           /\ \A S : SigTerm(S) /\ kind' = kind =>
                NoNewBroker /\ \A b \in S \cap Pid : ~RunningBroker(b)'
<1>0. ProcTyped
  BY DEF TypeInv
<1>1. UNCHANGED <<kind, phase>> => NoNewBroker
  BY DEF NoNewBroker, RunningBroker
<1>2. ASSUME NEW p \in Pid, Exit(p) PROVE NoNewBroker
  BY <1>0, <1>2, ExitTyped DEF NoNewBroker, RunningBroker
<1>3. ASSUME NEW p \in Pid, NEW k \in Kinds \ {"broker"}, NEW ph \in Phases,
             NEW n \in Port \cup {0}, Spawn(p, k, ph, n)
      PROVE  NoNewBroker
  BY <1>0, <1>3, SpawnTyped DEF NoNewBroker, RunningBroker
<1>4. ASSUME NEW S, SigTerm(S), kind' = kind
      PROVE  NoNewBroker /\ \A b \in S \cap Pid : ~RunningBroker(b)'
  <2>1. \A b \in Pid : phase'[b] = IF b \in S THEN Terminated(b) ELSE phase[b]
    BY <1>4 DEF SigTerm
  <2>2. \A b \in Pid : Terminated(b) \notin {"starting", "up"}
    BY DEF Terminated
  <2>3. QED
    BY <1>4, <2>1, <2>2 DEF NoNewBroker, RunningBroker
<1>5. QED
  BY <1>1, <1>2, <1>3, <1>4

LEMMA BrokerStep ==
    ASSUME TypeInv, ShapeInv, KnownInv, BrokerInv, [Next]_vars
    PROVE  BrokerInv'
<1>0. /\ ProcTyped /\ RestTyped /\ HolderInv
      /\ cs \in Section /\ lock \in LockState /\ 0 \notin Pid
  BY LifecycleAssumption DEF TypeInv, RestTyped
<1>1. SUFFICES ASSUME Tame' PROVE BrokerKnown'
  BY DEF BrokerInv
<1>2. env' = env
  BY EnvFixed
<1>3. Tame /\ BrokerKnown /\ Steady /\ ProxyKnown
  BY <1>1, <1>2 DEF Tame, BrokerInv, Steady, KnownInv
<1>4. ASSUME NEW p \in Pid, AttachReuse(p)
      PROVE  BrokerKnown'
  <2>1. /\ UNCHANGED <<lock, kind, phase>> /\ cs.step = "none"
        /\ cs'.step = "record" /\ cs'.broker = lock.broker
    BY <1>0, <1>4 DEF AttachReuse, procVars, HolderInv
  <2>2. QED
    BY <1>0, <1>3, <2>1 DEF BrokerKnown, RunningBroker
<1>5. ASSUME NEW p \in Pid, AttachRestart(p)
      PROVE  BrokerKnown'
  <2>1. /\ UNCHANGED <<lock, kind, phase>> /\ cs.step = "none" /\ ~ProxyUp
        /\ cs'.step = "broker" /\ cs'.broker = 0
    BY <1>0, <1>5 DEF AttachRestart, procVars, HolderInv
  <2>2. Serves(lock.proxy, lock.port) \/ Gone(lock.proxy)
    BY <1>3, <2>1 DEF ProxyKnown, Stopping
  <2>3. lock.proxy = 0
    BY <1>0, <1>3, <2>1, <2>2 DEF Serves, ProxyUp, Alive, Probe, Listens, Gone, Tame
  <2>4. lock.broker = 0
    BY <2>3 DEF ShapeInv
  <2>5. QED
    BY <1>3, <2>1, <2>4 DEF BrokerKnown, RunningBroker
<1>6. ASSUME UNCHANGED <<lock, cs>>, NoNewBroker
      PROVE  BrokerKnown'
  BY <1>3, <1>6 DEF BrokerKnown, NoNewBroker
<1>7. ASSUME AttachNoBroker \/ AttachBrokerReady \/ AttachProxyReady
      PROVE  BrokerKnown'
  <2>1. /\ UNCHANGED <<lock, kind, phase>>
        /\ cs.step \in {"broker", "brokerWait", "proxyWait"}
        /\ cs'.step \in {"proxy", "record"} /\ cs'.op = cs.op /\ cs'.broker = cs.broker
    BY <1>0, <1>7 DEF AttachNoBroker, AttachBrokerReady, AttachProxyReady, procVars, Section
  <2>2. QED
    BY <1>3, <2>1 DEF BrokerKnown, RunningBroker
<1>8. ASSUME NEW b \in Pid, AttachSpawnBroker(b)
      PROVE  BrokerKnown'
  <2>1. /\ "broker" \in Kinds /\ "starting" \in Phases /\ 0 \in Port \cup {0}
        /\ Spawn(b, "broker", "starting", 0)
    BY <1>8 DEF AttachSpawnBroker, Kinds, Phases
  <2>2. \A q \in Pid \ {b} : kind'[q] = kind[q] /\ phase'[q] = phase[q]
    BY <1>0, <2>1, SpawnTyped
  <2>3. /\ lock' = lock /\ cs.step = "broker" /\ cs.op = "attach"
        /\ cs'.step = "brokerWait" /\ cs'.op = "attach" /\ cs'.broker = b
    BY <1>0, <1>8 DEF AttachSpawnBroker, Section, HolderInv
  <2>4. QED
    BY <1>0, <1>3, <2>2, <2>3 DEF BrokerKnown, RunningBroker
<1>9. CASE AttachBrokerFailed
  <2>1. /\ lock' = lock /\ cs.step = "brokerWait" /\ cs.op = "attach"
        /\ cs'.step = "proxy" /\ cs'.op = "attach" /\ cs'.broker = 0
        /\ SigTerm({cs.broker} \cap Pid) /\ kind' = kind
    BY <1>0, <1>9 DEF AttachBrokerFailed, Section, HolderInv
  <2>2. lock.broker = 0 /\ \A b \in Pid : RunningBroker(b) => b = cs.broker
    BY <1>0, <1>3, <2>1 DEF BrokerKnown
  <2>3. \A b \in Pid : ~RunningBroker(b)'
    BY <2>1, <2>2, NoNewBrokerBy DEF NoNewBroker
  <2>4. QED
    BY <1>3, <2>1, <2>2, <2>3 DEF BrokerKnown
<1>10. ASSUME NEW q \in Pid, AttachSpawnProxy(q)
       PROVE  BrokerKnown'
  <2>1. /\ "proxy" \in Kinds \ {"broker"} /\ "starting" \in Phases /\ cs.port \in Port \cup {0}
        /\ Spawn(q, "proxy", "starting", cs.port)
    BY <1>0, <1>10 DEF AttachSpawnProxy, Kinds, Phases, Section
  <2>2. NoNewBroker
    BY <2>1, NoNewBrokerBy
  <2>3. /\ lock' = lock /\ cs.step = "proxy" /\ cs'.step = "proxyWait"
        /\ cs'.op = cs.op /\ cs'.broker = cs.broker
    BY <1>0, <1>10 DEF AttachSpawnProxy, Section
  <2>4. QED
    BY <1>3, <2>2, <2>3 DEF BrokerKnown, NoNewBroker
<1>11. CASE AttachProxyFailed
  <2>1. /\ lock' = lock /\ cs' = NoSection /\ cs.op = "attach"
        /\ cs.step \in {"proxy", "proxyWait"}
        /\ kind' = [kind EXCEPT ![cs.pid] = "free"]
        /\ \A q \in Pid : phase'[q] = IF q = cs.pid THEN "none"
                                      ELSE IF q \in {cs.proxy, cs.broker} THEN Terminated(q)
                                      ELSE phase[q]
    BY <1>0, <1>11 DEF AttachProxyFailed, HolderInv, Section
  <2>2. lock.broker = 0 /\ \A b \in Pid : RunningBroker(b) => b = cs.broker
    BY <1>0, <1>3, <2>1 DEF BrokerKnown
  <2>3. ASSUME NEW b \in Pid PROVE ~RunningBroker(b)'
    <3>1. SUFFICES ASSUME kind'[b] = "broker" PROVE phase'[b] \notin {"starting", "up"}
      BY DEF RunningBroker
    <3>2. kind[b] = "broker" /\ b # cs.pid
      BY <1>0, <2>1, <3>1 DEF ProcTyped
    <3>3. Terminated(b) \notin {"starting", "up"}
      BY DEF Terminated
    <3>4. QED
      BY <2>1, <2>2, <3>2, <3>3 DEF RunningBroker
  <2>4. QED
    BY <2>1, <2>2, <2>3 DEF BrokerKnown, NoSection
<1>12. CASE AttachRecord
  <2>1. /\ cs.step = "record" /\ cs.op = "attach" /\ cs' = NoSection
        /\ lock'.broker = cs.broker /\ kind' = kind
        /\ phase' = [phase EXCEPT ![cs.pid] = "attached"]
    BY <1>12 DEF AttachRecord
  <2>2. NoNewBroker
    BY <1>0, <2>1 DEF NoNewBroker, RunningBroker, ProcTyped
  <2>3. QED
    BY <1>0, <1>3, <2>1, <2>2 DEF BrokerKnown, NoNewBroker, NoSection
<1>13. ASSUME AttachRecordFailed \/ TeardownFailed \/ KillHolder
       PROVE  BrokerKnown'
  BY <1>3, <1>13 DEF AttachRecordFailed, TeardownFailed, KillHolder, Tame
<1>14. ASSUME \/ \E p \in Pid : DetachBegin(p)
              \/ CleanOrphanBegin \/ CleanBegin(FALSE) \/ CleanBegin(TRUE)
       PROVE  BrokerKnown'
  <2>1. /\ lock' = lock /\ cs.step = "none" /\ cs'.step \in {"signal", "drop"}
        /\ cs'.op # "attach" /\ cs'.broker = 0
        /\ kind' = kind /\ \A q \in Pid : phase'[q] \in {phase[q], "leaving"}
    BY <1>0, <1>14 DEF DetachBegin, CleanOrphanBegin, CleanBegin, HolderInv, NoSection,
                       procVars, ProcTyped
  <2>2. NoNewBroker
    BY <2>1 DEF NoNewBroker, RunningBroker
  <2>3. QED
    BY <1>3, <2>1, <2>2 DEF BrokerKnown, NoNewBroker
<1>15. CASE DetachDrop
  <2>1. /\ cs.step = "drop" /\ cs.pid \in Pid /\ Exit(cs.pid)
        /\ cs' = NoSection /\ lock'.broker = lock.broker
    BY <1>0, <1>15 DEF DetachDrop, HolderInv, LockState, Section
  <2>2. NoNewBroker
    BY <2>1, NoNewBrokerBy
  <2>3. QED
    BY <1>3, <2>1, <2>2 DEF BrokerKnown, NoNewBroker, NoSection
<1>16. CASE TeardownSignal
  <2>1. /\ lock' = lock /\ cs.step = "signal" /\ cs'.step = "stopBroker"
        /\ cs'.op = cs.op /\ cs'.broker = cs.broker
        /\ SigTerm({lock.proxy} \cap Pid) /\ kind' = kind
    BY <1>0, <1>16 DEF TeardownSignal, Section
  <2>2. NoNewBroker
    BY <2>1, NoNewBrokerBy
  <2>3. QED
    BY <1>3, <2>1, <2>2 DEF BrokerKnown, NoNewBroker
<1>17. CASE TeardownBroker
  <2>1. /\ lock' = lock /\ cs.step = "stopBroker" /\ cs.op # "attach" /\ cs'.step = "clear"
        /\ cs'.op = cs.op /\ cs'.broker = cs.broker
        /\ SigTerm({lock.broker} \cap Pid) /\ kind' = kind
    BY <1>0, <1>17 DEF TeardownBroker, Section, HolderInv
  <2>2. \A b \in Pid : RunningBroker(b) => b = lock.broker
    BY <1>0, <1>3, <2>1 DEF BrokerKnown
  <2>3. \A b \in Pid : ~RunningBroker(b)'
    BY <2>1, <2>2, NoNewBrokerBy DEF NoNewBroker
  <2>4. QED
    BY <1>3, <2>1, <2>3 DEF BrokerKnown
<1>18. CASE TeardownClear
  <2>1. cs.step = "clear" /\ cs' = NoSection /\ SectionExit
    BY <1>18 DEF TeardownClear
  <2>2. NoNewBroker
    BY <1>0, <2>1, NoNewBrokerBy DEF SectionExit, Section, procVars
  <2>3. QED
    BY <1>3, <2>1, <2>2 DEF BrokerKnown, NoNewBroker, NoSection
<1>19. ASSUME NEW p \in Pid,
              \/ AttachNoPort(p) \/ KillWrapper(p) \/ OtherExits(p) \/ ProxyExit(p)
              \/ ProxyCrash(p) \/ BrokerExit(p) \/ BrokerCrash(p)
       PROVE  BrokerKnown'
  <2>1. UNCHANGED <<lock, cs>> /\ Exit(p)
    BY <1>19 DEF AttachNoPort, KillWrapper, OtherExits, ProxyExit, ProxyCrash, BrokerExit,
                 BrokerCrash
  <2>2. QED
    BY <1>6, <2>1, NoNewBrokerBy
<1>20. ASSUME NEW p \in Pid, ProxyBind(p) \/ BrokerBind(p) \/ BrokerClose(p)
       PROVE  BrokerKnown'
  <2>1. /\ UNCHANGED <<lock, cs>>
        /\ \/ Exit(p)
           \/ /\ kind' = kind /\ \A q \in Pid \ {p} : phase'[q] = phase[q]
              /\ \/ kind[p] = "proxy" \/ phase'[p] = "closed"
                 \/ kind[p] = "broker" /\ phase[p] = "starting"
    BY <1>0, <1>20 DEF ProxyBind, BrokerBind, BrokerClose, ProcTyped
  <2>2. NoNewBroker
    BY <2>1, NoNewBrokerBy DEF NoNewBroker, RunningBroker
  <2>3. QED
    BY <1>6, <2>1, <2>2
<1>21. ASSUME NEW p \in Pid, StartRun(p) \/ OtherStarts(p)
       PROVE  BrokerKnown'
  <2>1. UNCHANGED <<lock, cs>>
    BY <1>21 DEF StartRun, OtherStarts
  <2>2. \E k \in Kinds \ {"broker"}, ph \in Phases : Spawn(p, k, ph, 0)
    BY <1>21 DEF StartRun, OtherStarts, Kinds, Phases
  <2>3. QED
    BY <1>6, <2>1, <2>2, NoNewBrokerBy
<1>22. ASSUME \/ AllowOnce
              \/ \E n \in Port : ForeignBinds(n) \/ ForeignCloses(n)
              \/ UNCHANGED vars
       PROVE  BrokerKnown'
  <2>1. UNCHANGED <<lock, cs, kind, phase>>
    BY <1>22 DEF AllowOnce, ForeignBinds, ForeignCloses, vars, procVars
  <2>2. QED
    BY <1>6, <2>1, NoNewBrokerBy
<1>23. CASE AttachStep
  BY <1>4, <1>5, <1>7, <1>8, <1>9, <1>10, <1>11, <1>12, <1>13, <1>19, <1>23 DEF AttachStep
<1>24. CASE TeardownStep
  BY <1>13, <1>14, <1>15, <1>16, <1>17, <1>18, <1>24 DEF TeardownStep
<1>25. CASE DaemonStep
  BY <1>19, <1>20, <1>25 DEF DaemonStep
<1>26. CASE WorldStep
  BY <1>13, <1>19, <1>21, <1>22, <1>26 DEF WorldStep
<1>27. QED
  BY <1>22, <1>23, <1>24, <1>25, <1>26 DEF Next

\* Nothing the lifecycle started is forgotten (lifecycle.go: every daemon is
\* recorded in proxy.lock before the flock is released, and stopped before its
\* record is cleared): through any interleaving of runs, kills, forced cleans,
\* broker crashes and recycled PIDs, a proxy or broker nobody asked to stop is
\* in the lock or in the hands of the Attach that is starting it.
THEOREM DaemonsRecorded == Spec => []NoUnrecordedDaemon
<1>1. Init => BrokerInv
  BY DEF Init, BrokerInv, BrokerKnown, NoLock, NoSection, RunningBroker
<1>2. LifecycleInv /\ ShapeInv /\ KnownInv /\ BrokerInv /\ [Next]_vars => BrokerInv'
  BY BrokerStep DEF LifecycleInv
<1>3. KnownInv /\ BrokerInv => NoUnrecordedDaemon
  <2> SUFFICES ASSUME KnownInv, BrokerInv, Tame, NEW q \in Pid, Running(q)
               PROVE  q \in {lock.proxy, lock.broker, cs.proxy, cs.broker}
    BY DEF NoUnrecordedDaemon, Tame
  <2>1. ProxyKnown /\ BrokerKnown
    BY DEF KnownInv, BrokerInv, Tame, Steady
  <2>2. RunningProxy(q) \/ RunningBroker(q)
    BY DEF Running, RunningProxy, RunningBroker
  <2>3. QED
    BY <2>1, <2>2 DEF ProxyKnown, BrokerKnown
<1>4. QED
  BY <1>1, <1>2, <1>3, KnownInvariant, PTL DEF Spec

-----------------------------------------------------------------------------
(***************************************************************************)
(* The last one out                                                        *)
(***************************************************************************)

\* Nobody is killed and no section is cut short: wrappers leave by Detach.
Leaves == env \cap {"kill", "killInLock", "io"} = {}

Detaching(p) == phase[p] = "leaving" /\ cs.op = "detach" /\ cs.pid = p

\* Every entry is an attached wrapper, but for the one that is detaching.
AgentsInv ==
    Leaves => \A r \in lock.agents :
                 kind[r.pid] = "wrapper" /\ (phase[r.pid] = "attached" \/ Detaching(r.pid))

\* Neither an entry nor what makes it one changes.
LEMMA AgentsKeep ==
    ASSUME AgentsInv, env' = env, lock'.agents \subseteq lock.agents,
           \A r \in lock'.agents : kind[r.pid] = "wrapper" =>
              /\ kind'[r.pid] = "wrapper"
              /\ phase[r.pid] = "attached" => phase'[r.pid] = "attached"
              /\ Detaching(r.pid) => Detaching(r.pid)'
    PROVE  AgentsInv'
BY DEF AgentsInv, Leaves

LEMMA AgentsStep ==
    ASSUME LifecycleInv, AgentsInv, [Next]_vars
    PROVE  AgentsInv'
<1>0. /\ TypeInv /\ ProcTyped /\ RestTyped /\ HolderInv /\ AgesInv
      /\ cs \in Section /\ lock \in LockState /\ 0 \notin Pid
      /\ \A r \in lock.agents : r.pid \in Pid
  BY LifecycleAssumption DEF LifecycleInv, TypeInv, RestTyped, LockState, Ref
<1>1. ASSUME UNCHANGED <<lock, env, kind, phase>>,
             cs' = cs \/ cs.op # "detach" \/ (cs'.op = cs.op /\ cs'.pid = cs.pid)
      PROVE  AgentsInv'
  BY <1>1, AgentsKeep DEF Detaching
<1>2. ASSUME NEW p \in Pid, AttachReuse(p) \/ AttachRestart(p)
      PROVE  AgentsInv'
  BY <1>1, <1>2 DEF AttachReuse, AttachRestart, procVars
<1>3. ASSUME AttachNoBroker \/ AttachBrokerReady \/ AttachProxyReady
      PROVE  AgentsInv'
  <2>1. cs'.op = cs.op /\ cs'.pid = cs.pid
    BY <1>0, <1>3 DEF AttachNoBroker, AttachBrokerReady, AttachProxyReady, Section
  <2>2. QED
    BY <1>1, <1>3, <2>1 DEF AttachNoBroker, AttachBrokerReady, AttachProxyReady, procVars
<1>4. ASSUME NEW p \in Pid, Exit(p), UNCHANGED <<lock, env, cs>>,
             kind[p] = "wrapper" => phase[p] = "fresh" \/ ~Leaves
      PROVE  AgentsInv'
  <2>1. \A q \in Pid \ {p} : kind'[q] = kind[q] /\ phase'[q] = phase[q]
    BY <1>0, <1>4, ExitTyped
  <2>2. CASE ~Leaves
    BY <1>4, <2>2 DEF AgentsInv, Leaves
  <2>3. CASE Leaves
    <3>1. \A r \in lock.agents : r.pid # p
      BY <1>4, <2>3 DEF AgentsInv, Detaching
    <3>2. QED
      BY <1>0, <1>4, <2>1, <3>1, AgentsKeep DEF Detaching
  <2>4. QED
    BY <2>2, <2>3
<1>5. ASSUME NEW p \in Pid,
             \/ AttachNoPort(p) \/ KillWrapper(p) \/ OtherExits(p) \/ ProxyExit(p)
             \/ ProxyCrash(p) \/ BrokerExit(p) \/ BrokerCrash(p)
      PROVE  AgentsInv'
  BY <1>4, <1>5 DEF AttachNoPort, KillWrapper, OtherExits, ProxyExit, ProxyCrash,
                    BrokerExit, BrokerCrash, Leaves
<1>6. ASSUME NEW p \in Pid, NEW k \in Kinds, NEW ph \in Phases, NEW n \in Port \cup {0},
             Spawn(p, k, ph, n), UNCHANGED <<lock, env>>, cs'.op = cs.op, cs'.pid = cs.pid
      PROVE  AgentsInv'
  <2>1. /\ kind[p] = "free"
        /\ \A q \in Pid \ {p} : kind'[q] = kind[q] /\ phase'[q] = phase[q]
    BY <1>0, <1>6, SpawnTyped
  <2>2. QED
    BY <1>0, <1>6, <2>1, AgentsKeep DEF Detaching
<1>7. ASSUME NEW p \in Pid, AttachSpawnBroker(p) \/ AttachSpawnProxy(p)
      PROVE  AgentsInv'
  <2>1. UNCHANGED <<lock, env>> /\ cs'.op = cs.op /\ cs'.pid = cs.pid
    BY <1>0, <1>7 DEF AttachSpawnBroker, AttachSpawnProxy, Section
  <2>2. {"proxy", "broker"} \subseteq Kinds /\ "starting" \in Phases /\ cs.port \in Port \cup {0}
    BY <1>0 DEF Kinds, Phases, Section
  <2>3. \E k \in Kinds, ph \in Phases, n \in Port \cup {0} : Spawn(p, k, ph, n)
    BY <1>7, <2>2 DEF AttachSpawnBroker, AttachSpawnProxy
  <2>4. QED
    BY <1>6, <2>1, <2>3
<1>8. ASSUME NEW p \in Pid, StartRun(p) \/ OtherStarts(p)
      PROVE  AgentsInv'
  <2>1. UNCHANGED <<lock, env, cs>>
    BY <1>8 DEF StartRun, OtherStarts
  <2>2. \E k \in Kinds, ph \in Phases : Spawn(p, k, ph, 0)
    BY <1>8 DEF StartRun, OtherStarts, Kinds, Phases
  <2>3. QED
    BY <1>6, <2>1, <2>2
<1>9. ASSUME AttachBrokerFailed \/ TeardownSignal \/ TeardownBroker
      PROVE  AgentsInv'
  <2>1. /\ UNCHANGED <<lock, env, kind>> /\ cs'.op = cs.op /\ cs'.pid = cs.pid
        /\ \E S : SigTerm(S)
    BY <1>0, <1>9 DEF AttachBrokerFailed, TeardownSignal, TeardownBroker, Section
  <2>2. \A p \in Pid : phase[p] \in {"attached", "leaving"} => phase'[p] = phase[p]
    BY <1>0, <2>1, SigTermTyped
  <2>3. QED
    BY <1>0, <2>1, <2>2, AgentsKeep DEF Detaching
<1>10. CASE AttachProxyFailed
  <2>1. /\ UNCHANGED <<lock, env>> /\ cs.op = "attach" /\ cs.pid \in Pid
        /\ phase[cs.pid] = "fresh"
        /\ kind' = [kind EXCEPT ![cs.pid] = "free"]
        /\ \A q \in Pid : phase'[q] \in {"none", Terminated(q), phase[q]}
                          /\ (phase'[q] = "none" => q = cs.pid \/ phase[q] = "none"
                                                    \/ Terminated(q) = "none")
    BY <1>0, <1>10 DEF AttachProxyFailed, HolderInv, Section
  <2>2. \A q \in Pid : phase[q] = "attached" => kind'[q] = kind[q] /\ phase'[q] = "attached"
    BY <1>0, <2>1, TerminatedTyped DEF ProcTyped
  <2>3. CASE Leaves
    <3>1. \A r \in lock.agents : kind[r.pid] = "wrapper" /\ phase[r.pid] = "attached"
      BY <2>1, <2>3 DEF AgentsInv, Detaching
    <3>2. QED
      BY <1>0, <2>1, <2>2, <3>1 DEF AgentsInv
  <2>4. CASE ~Leaves
    BY <2>1, <2>4 DEF AgentsInv, Leaves
  <2>5. QED
    BY <2>3, <2>4
<1>11. CASE AttachRecord
  <2>1. /\ cs.op = "attach" /\ cs.pid \in Pid /\ kind[cs.pid] = "wrapper"
        /\ lock'.agents = AddRef(cs.alive, SelfRef(cs.pid))
        /\ phase' = [phase EXCEPT ![cs.pid] = "attached"]
        /\ kind' = kind /\ env' = env
    BY <1>0, <1>11 DEF AttachRecord, HolderInv
  <2>2. \A r \in lock'.agents : r \in lock.agents \/ r.pid = cs.pid
    BY <1>0, <2>1 DEF AddRef, SelfRef, AgesInv
  <2>3. ASSUME Leaves, NEW r \in lock'.agents
        PROVE  kind'[r.pid] = "wrapper" /\ phase'[r.pid] = "attached"
    BY <1>0, <2>1, <2>2, <2>3 DEF AgentsInv, Detaching, ProcTyped
  <2>4. QED
    BY <2>1, <2>3 DEF AgentsInv, Leaves
<1>12. ASSUME AttachRecordFailed \/ TeardownFailed \/ KillHolder
       PROVE  AgentsInv'
  BY <1>12 DEF AttachRecordFailed, TeardownFailed, KillHolder, AgentsInv, Leaves
<1>13. ASSUME NEW p \in Pid, DetachBegin(p)
       PROVE  AgentsInv'
  <2>1. /\ UNCHANGED <<lock, env, kind>> /\ cs.op = "none"
        /\ phase' = [phase EXCEPT ![p] = "leaving"]
        /\ cs'.op = "detach" /\ cs'.pid = p
    BY <1>13 DEF DetachBegin, NoSection
  <2>2. ASSUME Leaves, NEW r \in lock.agents
        PROVE  kind'[r.pid] = "wrapper" /\ (phase'[r.pid] = "attached" \/ Detaching(r.pid)')
    BY <1>0, <2>1, <2>2 DEF AgentsInv, Detaching, ProcTyped
  <2>3. QED
    BY <2>1, <2>2 DEF AgentsInv, Leaves
<1>14. CASE DetachDrop
  <2>1. /\ cs.pid \in Pid /\ Exit(cs.pid) /\ env' = env
        /\ lock'.agents = RemoveRef(lock.agents, cs.pid)
    BY <1>0, <1>14 DEF DetachDrop, HolderInv, LockState, Section
  <2>2. \A q \in Pid \ {cs.pid} : kind'[q] = kind[q] /\ phase'[q] = phase[q]
    BY <1>0, <2>1, ExitTyped
  <2>3. \A r \in lock'.agents : r \in lock.agents /\ r.pid # cs.pid
    BY <2>1 DEF RemoveRef
  <2>4. QED
    BY <1>0, <2>1, <2>2, <2>3, AgentsKeep DEF Detaching
<1>15. ASSUME CleanOrphanBegin \/ CleanBegin(FALSE) \/ CleanBegin(TRUE)
       PROVE  AgentsInv'
  BY <1>1, <1>15 DEF CleanOrphanBegin, CleanBegin, procVars
<1>16. CASE TeardownClear
  BY <1>16 DEF TeardownClear, NoLock, AgentsInv
<1>17. ASSUME NEW p \in Pid, ProxyBind(p) \/ BrokerBind(p) \/ BrokerClose(p)
       PROVE  AgentsInv'
  <2>1. CASE Exit(p)
    BY <1>4, <1>17, <2>1 DEF ProxyBind, BrokerBind, BrokerClose
  <2>2. CASE ~Exit(p)
    <3>1. /\ UNCHANGED <<lock, env, cs, kind>> /\ kind[p] # "wrapper"
          /\ \A q \in Pid \ {p} : phase'[q] = phase[q]
      BY <1>0, <1>17, <2>2 DEF ProxyBind, BrokerBind, BrokerClose, ProcTyped
    <3>2. QED
      BY <1>0, <3>1, AgentsKeep DEF Detaching
  <2>3. QED
    BY <2>1, <2>2
<1>18. ASSUME \/ AllowOnce
              \/ \E n \in Port : ForeignBinds(n) \/ ForeignCloses(n)
              \/ UNCHANGED vars
       PROVE  AgentsInv'
  <2>1. UNCHANGED <<lock, env, cs, kind, phase>>
    BY <1>18 DEF AllowOnce, ForeignBinds, ForeignCloses, vars, procVars
  <2>2. QED
    BY <1>1, <2>1
<1>19. CASE AttachStep
  BY <1>2, <1>3, <1>5, <1>7, <1>9, <1>10, <1>11, <1>12, <1>19 DEF AttachStep
<1>20. CASE TeardownStep
  BY <1>9, <1>12, <1>13, <1>14, <1>15, <1>16, <1>20 DEF TeardownStep
<1>21. CASE DaemonStep
  BY <1>5, <1>17, <1>21 DEF DaemonStep
<1>22. CASE WorldStep
  BY <1>5, <1>8, <1>12, <1>18, <1>22 DEF WorldStep
<1>23. QED
  BY <1>18, <1>19, <1>20, <1>21, <1>22 DEF Next

\* The last agent out stops the proxy (lifecycle.go, Detach: the proxy goes with
\* the last agent): where wrappers leave by Detach, forced cleans and crashes of
\* mitmdump and the broker included, no proxy is left running once the flock is
\* free and no wrapper attached.
THEOREM LastOutCorrect == Spec => []LastOutStopsProxy
<1>1. Init => AgentsInv
  BY DEF Init, AgentsInv, NoLock
<1>2. LifecycleInv /\ AgentsInv /\ [Next]_vars => AgentsInv'
  BY AgentsStep
<1>3. LifecycleInv /\ ShapeInv /\ KnownInv /\ AgentsInv => LastOutStopsProxy
  <2> SUFFICES ASSUME LifecycleInv, ShapeInv, KnownInv, AgentsInv,
                      env \cap {"kill", "killInLock", "io", "foreignPort", "recycle"} = {},
                      cs.op = "none", \A p \in Pid : ~Attached(p),
                      NEW q \in Pid, Running(q), kind[q] = "proxy"
               PROVE  FALSE
    BY DEF LastOutStopsProxy
  <2>1. ProxyKnown /\ RunningProxy(q) /\ cs.step = "none" /\ Leaves
    BY DEF KnownInv, Steady, Running, RunningProxy, LifecycleInv, TypeInv, HolderInv, Leaves
  <2>2. q = lock.proxy /\ q # 0
    BY <2>1, LifecycleAssumption DEF ProxyKnown
  <2>3. PICK r \in lock.agents : TRUE
    BY <2>2 DEF ShapeInv
  <2>4. r.pid \in Pid
    BY DEF LifecycleInv, TypeInv, RestTyped, LockState, Ref
  <2>5. Attached(r.pid)
    BY <2>1, <2>3 DEF AgentsInv, Detaching, Attached
  <2>6. QED
    BY <2>4, <2>5
<1>4. QED
  BY <1>1, <1>2, <1>3, KnownInvariant, PTL DEF Spec

-----------------------------------------------------------------------------
(***************************************************************************)
(* The proxy an attached wrapper was told of                               *)
(***************************************************************************)

\* Every attached wrapper was told the recorded port.
PortInv ==
    env \subseteq Orderly => \A p \in Pid : Attached(p) => port[p] = lock.port

\* A step that attaches nobody and tells nobody another port.
ToldKept == \A p \in Pid : Attached(p)' => Attached(p) /\ port'[p] = port[p]

\* The steps on the process table that do.
LEMMA ToldKeptBy ==
    ASSUME TypeInv,
           \/ UNCHANGED <<kind, phase, port>>
           \/ \E p \in Pid : Exit(p)
           \/ \E p \in Pid, k \in Kinds, ph \in Phases \ {"attached"},
                 n \in Port \cup {0} : Spawn(p, k, ph, n)
           \/ (\E S : SigTerm(S)) /\ UNCHANGED <<kind, port>>
    PROVE  ToldKept
<1>0. ProcTyped
  BY DEF TypeInv
<1>1. CASE UNCHANGED <<kind, phase, port>>
  BY <1>1 DEF ToldKept, Attached
<1>2. ASSUME NEW p \in Pid, Exit(p) PROVE ToldKept
  BY <1>0, <1>2, ExitTyped DEF ToldKept, Attached
<1>3. ASSUME NEW p \in Pid, NEW k \in Kinds, NEW ph \in Phases \ {"attached"},
             NEW n \in Port \cup {0}, Spawn(p, k, ph, n)
      PROVE  ToldKept
  BY <1>0, <1>3, SpawnTyped DEF ToldKept, Attached
<1>4. ASSUME NEW S, SigTerm(S), UNCHANGED <<kind, port>> PROVE ToldKept
  BY <1>0, <1>4, SigTermTyped DEF ToldKept, Attached
<1>5. QED
  BY <1>1, <1>2, <1>3, <1>4

\* What every step but an Attach's last tells: nobody anything.  In an orderly
\* environment the lock's port changes only when nobody is attached.
LEMMA ToldStep ==
    ASSUME LifecycleInv, [Next]_vars, env \subseteq Orderly
    PROVE  \/ AttachRecord
           \/ ToldKept /\ env' = env /\ (lock'.port = lock.port \/ \A p \in Pid : ~Attached(p))
<1>0. /\ TypeInv /\ ProcTyped /\ RestTyped /\ HolderInv /\ RefsInv
      /\ cs \in Section /\ lock \in LockState
  BY DEF LifecycleInv, TypeInv, RestTyped
<1> DEFINE Claim ==
      ToldKept /\ env' = env /\ (lock'.port = lock.port \/ \A p \in Pid : ~Attached(p))
<1>1. env \cap {"io", "killInLock", "proxyCrash", "force", "torn", "foreignPort"} = {}
  BY DEF Orderly
<1>2. ASSUME \/ \E p \in Pid : AttachReuse(p) \/ AttachRestart(p)
             \/ AttachNoBroker \/ AttachBrokerReady \/ AttachProxyReady
             \/ CleanOrphanBegin \/ CleanBegin(FALSE) \/ CleanBegin(TRUE)
             \/ AllowOnce \/ (\E n \in Port : ForeignBinds(n) \/ ForeignCloses(n))
             \/ UNCHANGED vars
      PROVE  Claim
  <2>1. UNCHANGED <<lock, env, kind, phase, port>>
    BY <1>2 DEF AttachReuse, AttachRestart, AttachNoBroker, AttachBrokerReady,
                AttachProxyReady, CleanOrphanBegin, CleanBegin, AllowOnce, ForeignBinds,
                ForeignCloses, vars, procVars
  <2>2. QED
    BY <1>0, <2>1, ToldKeptBy
<1>3. ASSUME NEW p \in Pid,
             \/ AttachNoPort(p) \/ KillWrapper(p) \/ OtherExits(p) \/ ProxyExit(p)
             \/ ProxyCrash(p) \/ BrokerExit(p) \/ BrokerCrash(p)
      PROVE  Claim
  <2>1. UNCHANGED <<lock, env>> /\ Exit(p)
    BY <1>3 DEF AttachNoPort, KillWrapper, OtherExits, ProxyExit, ProxyCrash, BrokerExit,
                BrokerCrash
  <2>2. QED
    BY <1>0, <2>1, ToldKeptBy
<1>4. ASSUME NEW p \in Pid,
             AttachSpawnBroker(p) \/ AttachSpawnProxy(p) \/ StartRun(p) \/ OtherStarts(p)
      PROVE  Claim
  <2>1. UNCHANGED <<lock, env>>
    BY <1>4 DEF AttachSpawnBroker, AttachSpawnProxy, StartRun, OtherStarts
  <2>2. /\ {"proxy", "broker", "wrapper", "other"} \subseteq Kinds
        /\ {"starting", "fresh", "none"} \subseteq Phases \ {"attached"}
        /\ {0, cs.port} \subseteq Port \cup {0}
    BY <1>0 DEF Kinds, Phases, Section
  <2>3. \E k \in Kinds, ph \in Phases \ {"attached"}, n \in Port \cup {0} : Spawn(p, k, ph, n)
    BY <1>4, <2>2 DEF AttachSpawnBroker, AttachSpawnProxy, StartRun, OtherStarts
  <2>4. QED
    BY <1>0, <2>1, <2>3, ToldKeptBy
<1>5. ASSUME AttachBrokerFailed \/ TeardownSignal \/ TeardownBroker
      PROVE  Claim
  <2>1. UNCHANGED <<lock, env, kind, port>> /\ \E S : SigTerm(S)
    BY <1>5 DEF AttachBrokerFailed, TeardownSignal, TeardownBroker
  <2>2. QED
    BY <1>0, <2>1, ToldKeptBy
<1>6. CASE AttachProxyFailed
  <2>1. /\ UNCHANGED <<lock, env, port>> /\ kind' = [kind EXCEPT ![cs.pid] = "free"]
        /\ \A q \in Pid : phase'[q] \in {"none", Terminated(q), phase[q]}
    BY <1>6 DEF AttachProxyFailed
  <2>2. ToldKept
    BY <1>0, <2>1, TerminatedTyped DEF ToldKept, Attached, ProcTyped
  <2>3. QED
    BY <2>1, <2>2
<1>7. ASSUME AttachRecordFailed \/ TeardownFailed \/ KillHolder
      PROVE  Claim
  BY <1>1, <1>7 DEF AttachRecordFailed, TeardownFailed, KillHolder
<1>8. ASSUME NEW p \in Pid, DetachBegin(p)
      PROVE  Claim
  <2>1. UNCHANGED <<lock, env, kind, port>> /\ phase' = [phase EXCEPT ![p] = "leaving"]
    BY <1>8 DEF DetachBegin
  <2>2. QED
    BY <1>0, <2>1 DEF ToldKept, Attached, ProcTyped
<1>9. CASE DetachDrop
  <2>1. /\ cs.pid \in Pid /\ Exit(cs.pid) /\ env' = env /\ lock'.port = lock.port
    BY <1>0, <1>9 DEF DetachDrop, HolderInv, LockState, Section
  <2>2. QED
    BY <1>0, <2>1, ToldKeptBy
<1>10. CASE TeardownClear
  <2>1. env' = env /\ SectionExit /\ TearsDown
    BY <1>10 DEF TeardownClear, TearsDown
  <2>2. \A p \in Pid : ~Attached(p)
    BY <1>0, <1>1, <2>1 DEF RefsInv, Quiet
  <2>3. ToldKept
    BY <1>0, <2>1, ToldKeptBy DEF SectionExit, Section, procVars
  <2>4. QED
    BY <2>1, <2>2, <2>3
<1>11. ASSUME NEW p \in Pid, ProxyBind(p) \/ BrokerBind(p) \/ BrokerClose(p)
       PROVE  Claim
  <2>1. UNCHANGED <<lock, env>>
    BY <1>11 DEF ProxyBind, BrokerBind, BrokerClose
  <2>2. CASE Exit(p)
    BY <1>0, <2>1, <2>2, ToldKeptBy
  <2>3. CASE ~Exit(p)
    <3>1. UNCHANGED <<kind, port>> /\ \A q \in Pid : phase'[q] \in {phase[q], "up", "closed"}
      BY <1>0, <1>11, <2>3 DEF ProxyBind, BrokerBind, BrokerClose, ProcTyped
    <3>2. QED
      BY <2>1, <3>1 DEF ToldKept, Attached
  <2>4. QED
    BY <2>2, <2>3
<1>12. CASE AttachStep
  BY <1>2, <1>3, <1>4, <1>5, <1>6, <1>7, <1>12 DEF AttachStep
<1>13. CASE TeardownStep
  BY <1>2, <1>5, <1>7, <1>8, <1>9, <1>10, <1>13 DEF TeardownStep
<1>14. CASE DaemonStep
  BY <1>3, <1>11, <1>14 DEF DaemonStep
<1>15. CASE WorldStep
  BY <1>2, <1>3, <1>4, <1>7, <1>15 DEF WorldStep
<1>16. QED
  BY <1>2, <1>12, <1>13, <1>14, <1>15 DEF Next

\* When an Attach records itself in an orderly environment its proxy serves, and
\* whoever is attached was told the same port.
LEMMA RecordServes ==
    ASSUME LifecycleInv, ShapeInv, KnownInv, PortInv, env \subseteq Orderly, AttachRecord
    PROVE  /\ Serves(cs.proxy, cs.port) /\ cs.port # 0
           /\ \A p \in Pid : Attached(p) => port[p] = cs.port
<1>1. /\ cs.op = "attach" /\ cs.step = "record" /\ ProxyKnown /\ Quiet /\ RefsInv
      /\ "proxyCrash" \notin env
  BY DEF AttachRecord, KnownInv, Steady, Orderly, Quiet, LifecycleInv
<1>2. cs.port # 0 /\ cs.proxy # 0
  BY <1>1 DEF ShapeInv
<1>3. Serves(cs.proxy, cs.port)
  BY <1>1, <1>2 DEF ProxyKnown, Gone
<1>4. ASSUME NEW p \in Pid, Attached(p) PROVE port[p] = cs.port
  <2>1. SelfRef(p) \in lock.agents
    BY <1>1, <1>4, AttachedRecorded
  <2>2. lock.proxy # 0
    BY <2>1 DEF ShapeInv
  <2>3. lock.port = cs.port
    BY <1>1, <2>2 DEF ProxyKnown, Gone
  <2>4. QED
    BY <1>4, <2>3 DEF PortInv
<1>5. QED
  BY <1>2, <1>3, <1>4

LEMMA PortStep ==
    ASSUME LifecycleInv, ShapeInv, KnownInv, PortInv, [Next]_vars
    PROVE  PortInv'
<1>1. SUFFICES ASSUME env' \subseteq Orderly, NEW p \in Pid, Attached(p)'
               PROVE  port'[p] = lock'.port
  BY DEF PortInv
<1>2. env \subseteq Orderly /\ ProcTyped
  BY <1>1, EnvFixed DEF LifecycleInv, TypeInv
<1>3. CASE AttachRecord
  <2>1. /\ lock'.port = cs.port /\ port' = [port EXCEPT ![cs.pid] = cs.port]
        /\ kind' = kind /\ phase' = [phase EXCEPT ![cs.pid] = "attached"]
    BY <1>3 DEF AttachRecord
  <2>2. p = cs.pid \/ Attached(p)
    BY <1>1, <1>2, <2>1 DEF Attached, ProcTyped
  <2>3. QED
    BY <1>2, <1>3, <2>1, <2>2, RecordServes DEF ProcTyped
<1>4. CASE /\ ToldKept
           /\ lock'.port = lock.port \/ \A r \in Pid : ~Attached(r)
  BY <1>1, <1>2, <1>4 DEF ToldKept, PortInv
<1>5. QED
  BY <1>2, <1>3, <1>4, ToldStep

LEMMA PortInvariant == Spec => [](LifecycleInv /\ ShapeInv /\ KnownInv /\ PortInv)
<1>1. Init => PortInv
  BY DEF Init, PortInv, Attached
<1>2. LifecycleInv /\ ShapeInv /\ KnownInv /\ PortInv /\ [Next]_vars => PortInv'
  BY PortStep
<1>3. QED
  BY <1>1, <1>2, KnownInvariant, PTL DEF Spec

\* The promise a cage's frozen sandbox profile depends on (lifecycle.go: no
\* exit, doctor or unforced clean of one agent takes the proxy away from
\* another): whoever starts, leaves, is killed or reuses a PID, and whatever the
\* broker does, an attached wrapper finds a proxy on the port it was told.
THEOREM ServiceCorrect == Spec => []ServedWhileAttached
<1>1. LifecycleInv /\ ShapeInv /\ KnownInv /\ PortInv => ServedWhileAttached
  <2> SUFFICES ASSUME LifecycleInv, ShapeInv, KnownInv, PortInv, env \subseteq Orderly,
                      NEW p \in Pid, Attached(p)
               PROVE  \E q \in Pid : kind[q] = "proxy" /\ phase[q] = "up" /\ port[q] = port[p]
    BY DEF ServedWhileAttached
  <2>1. ProxyKnown /\ Quiet /\ RefsInv /\ "proxyCrash" \notin env
    BY DEF KnownInv, Steady, Orderly, Quiet, LifecycleInv
  <2>2. ~TearsDown /\ SelfRef(p) \in lock.agents
    BY <2>1 DEF RefsInv
  <2>3. lock.proxy # 0 /\ ~Stopping
    BY <2>2 DEF ShapeInv, TearsDown, Stopping
  <2>4. Serves(lock.proxy, lock.port)
    BY <2>1, <2>3 DEF ProxyKnown, Gone
  <2>5. QED
    BY <2>4 DEF Serves, PortInv
<1>2. QED
  BY <1>1, PortInvariant, PTL


-----------------------------------------------------------------------------
(***************************************************************************)
(* The refinement mapping                                                  *)
(***************************************************************************)

UpProxies == {q \in Pid : kind[q] = "proxy" /\ phase[q] = "up"}

\* With one proxy up, its port is the endpoint; with none there is no endpoint.
LEMMA EndpointOne ==
    ASSUME NEW q, UpProxies = {q}
    PROVE  Endpoint = port[q]
BY DEF Endpoint, UpProxies

LEMMA EndpointOneNext ==
    ASSUME NEW q, UpProxies' = {q}
    PROVE  Endpoint' = port'[q]
BY DEF Endpoint, UpProxies

LEMMA EndpointNone ==
    /\ UpProxies = {} => Endpoint = 0
    /\ UpProxies' = {} => Endpoint' = 0
BY DEF Endpoint, UpProxies

\* The endpoint is the same as long as the same proxies are up, on their ports.
LEMMA EndpointKept ==
    ASSUME UpProxies' = UpProxies, \A q \in UpProxies : port'[q] = port[q]
    PROVE  Endpoint' = Endpoint
<1>1. CASE UpProxies = {}
  BY <1>1, EndpointNone
<1>2. CASE UpProxies # {}
  <2>1. (CHOOSE q \in UpProxies : TRUE) \in UpProxies
    BY <1>2
  <2>2. /\ Endpoint = port[CHOOSE q \in UpProxies : TRUE]
        /\ Endpoint' = port'[CHOOSE q \in UpProxies' : TRUE]
    BY <1>2 DEF Endpoint, UpProxies
  <2>3. QED
    BY <2>1, <2>2
<1>3. QED
  BY <1>1, <1>2

\* A step that leaves every user and the service alone.
SameUse ==
    \A p \in Pid :
        /\ Attached(p)' <=> Attached(p)
        /\ p \in UpProxies' <=> p \in UpProxies
        /\ Attached(p) \/ p \in UpProxies => port'[p] = port[p]

LEMMA SameUseStutters ==
    ASSUME SameUse
    PROVE  UNCHANGED SP!vars
<1>1. Endpoint' = Endpoint
  <2>1. UpProxies' = UpProxies /\ \A q \in UpProxies : port'[q] = port[q]
    BY DEF SameUse, UpProxies
  <2>2. QED
    BY <2>1, EndpointKept
<1>2. Told' = Told
  BY DEF SameUse, Told
<1>3. QED
  BY <1>1, <1>2 DEF SP!vars

\* The steps on the process table that do.
LEMMA SameUseBy ==
    ASSUME TypeInv,
           \/ UNCHANGED <<kind, phase, port>>
           \/ \E p \in Pid : Exit(p) /\ ~Attached(p) /\ p \notin UpProxies
           \/ \E p \in Pid, k \in Kinds, ph \in Phases \ {"attached", "up"},
                 n \in Port \cup {0} : Spawn(p, k, ph, n)
           \/ \E S : SigTerm(S) /\ S \cap UpProxies = {} /\ UNCHANGED <<kind, port>>
    PROVE  SameUse
<1>0. ProcTyped
  BY DEF TypeInv
<1>1. CASE UNCHANGED <<kind, phase, port>>
  BY <1>1 DEF SameUse, Attached, UpProxies
<1>2. ASSUME NEW p \in Pid, Exit(p), ~Attached(p), p \notin UpProxies PROVE SameUse
  BY <1>0, <1>2, ExitTyped DEF SameUse, Attached, UpProxies
<1>3. ASSUME NEW p \in Pid, NEW k \in Kinds, NEW ph \in Phases \ {"attached", "up"},
             NEW n \in Port \cup {0}, Spawn(p, k, ph, n)
      PROVE  SameUse
  BY <1>0, <1>3, SpawnTyped DEF SameUse, Attached, UpProxies
<1>4. ASSUME NEW S, SigTerm(S), S \cap UpProxies = {}, UNCHANGED <<kind, port>>
      PROVE  SameUse
  <2>1. \A q \in Pid : phase'[q] = IF q \in S THEN Terminated(q) ELSE phase[q]
    BY <1>4 DEF SigTerm
  <2>2. \A q \in Pid : Terminated(q) # "up"
    BY DEF Terminated
  <2>3. \A q \in Pid : q \in UpProxies' <=> q \in UpProxies
    BY <1>4, <2>1, <2>2 DEF UpProxies
  <2>4. \A q \in Pid : Attached(q)' <=> Attached(q)
    BY <1>0, <1>4, SigTermTyped DEF Attached
  <2>5. QED
    BY <1>4, <2>3, <2>4 DEF SameUse
<1>5. QED
  BY <1>1, <1>2, <1>3, <1>4

\* What holds in an orderly environment.
OrderlyInv ==
    LifecycleInv /\ ShapeInv /\ KnownInv /\ PortInv /\ env \subseteq Orderly

\* At most one proxy is up: the recorded one, or the one being started while
\* none is recorded.  A user was told a port, so it is one.
LEMMA OrderlyFacts ==
    ASSUME OrderlyInv
    PROVE  /\ TypeInv /\ ProcTyped /\ RestTyped /\ HolderInv /\ RefsInv /\ Quiet
           /\ ProxyKnown /\ 0 \notin Pid
           /\ \A q : Gone(q) <=> q = 0
           /\ \A q \in UpProxies : RunningProxy(q) /\ q \in {lock.proxy, cs.proxy}
           /\ \A p \in Pid : Attached(p) => port[p] # 0 /\ lock.proxy # 0
<1>1. /\ TypeInv /\ ProcTyped /\ RestTyped /\ HolderInv /\ RefsInv /\ 0 \notin Pid
  BY LifecycleAssumption DEF OrderlyInv, LifecycleInv, TypeInv
<1>2. Quiet /\ ProxyKnown /\ "proxyCrash" \notin env
  BY DEF OrderlyInv, Orderly, Quiet, KnownInv, Steady
<1>3. \A q : Gone(q) <=> q = 0
  BY <1>2 DEF Gone
<1>4. \A q \in UpProxies : RunningProxy(q) /\ q \in {lock.proxy, cs.proxy}
  BY <1>2 DEF UpProxies, RunningProxy, ProxyKnown
<1>5. ASSUME NEW p \in Pid, Attached(p) PROVE port[p] # 0 /\ lock.proxy # 0
  <2>1. SelfRef(p) \in lock.agents
    BY <1>1, <1>2, <1>5, AttachedRecorded
  <2>2. lock.proxy # 0 /\ lock.port # 0
    BY <2>1 DEF OrderlyInv, ShapeInv
  <2>3. QED
    BY <1>5, <2>2 DEF OrderlyInv, PortInv
<1>6. QED
  BY <1>1, <1>2, <1>3, <1>4, <1>5

-----------------------------------------------------------------------------
(***************************************************************************)
(* The four steps of the service                                           *)
(***************************************************************************)

\* mitmdump binds the port: the service starts, and nobody uses it yet.
LEMMA BindStarts ==
    ASSUME OrderlyInv, NEW q \in Pid, ProxyBind(q)
    PROVE  SP!Next \/ UNCHANGED SP!vars
<1>0. TypeInv /\ ProcTyped /\ ProxyKnown /\ RestTyped /\ 0 \notin Pid
  BY OrderlyFacts
<1>1. kind[q] = "proxy" /\ phase[q] = "starting" /\ RunningProxy(q) /\ q \notin UpProxies
  BY DEF ProxyBind, RunningProxy, UpProxies
<1>2. CASE Exit(q)
  BY <1>0, <1>1, <1>2, SameUseBy, SameUseStutters DEF Attached
<1>3. CASE ~Exit(q)
  <2>1. phase' = [phase EXCEPT ![q] = "up"] /\ UNCHANGED <<kind, port>>
    BY <1>3 DEF ProxyBind
  <2>2. q # lock.proxy /\ q = cs.proxy /\ cs.step = "proxyWait" /\ port[q] = cs.port
    BY <1>0, <1>1, OrderlyFacts DEF ProxyKnown, Serves, Stopping
  <2>3. lock.proxy = 0
    BY <1>0, <2>2, OrderlyFacts DEF ProxyKnown, Starting
  <2>4. UpProxies = {}
    <3>1. 0 \notin UpProxies
      BY <1>0 DEF UpProxies
    <3>2. \A r \in UpProxies : r \in {0, q}
      BY <2>2, <2>3, OrderlyFacts
    <3>3. QED
      BY <1>1, <3>1, <3>2
  <2>5. UpProxies' = {q}
    BY <1>0, <1>1, <2>1, <2>4 DEF UpProxies, ProcTyped
  <2>6. Endpoint = 0 /\ Endpoint' = cs.port
    BY <2>1, <2>2, <2>4, <2>5, EndpointNone, EndpointOneNext
  <2>7. cs.op = "attach"
    BY <2>2, OrderlyFacts DEF HolderInv, RestTyped, Section
  <2>8. cs.port \in Port
    BY <1>0, <2>7 DEF OrderlyInv, ShapeInv, RestTyped, Section
  <2>9. \A p \in Pid : ~Attached(p) /\ ~Attached(p)'
    <3>1. \A p \in Pid : ~Attached(p)
      BY <2>3, OrderlyFacts
    <3>2. \A p \in Pid : Attached(p)' => Attached(p)
      BY <1>0, <2>1 DEF Attached, ProcTyped
    <3>3. QED
      BY <3>1, <3>2
  <2>10. Told' = Told /\ \A p \in Pid : Told[p] = 0
    BY <2>9 DEF Told
  <2>11. SP!Start(cs.port)
    BY <2>6, <2>10 DEF SP!Start, SP!Unused
  <2>12. QED
    BY <2>8, <2>11 DEF SP!Next
<1>4. QED
  BY <1>2, <1>3

\* A wrapper records itself: it joins, and was told where the service is.
LEMMA RecordJoins ==
    ASSUME OrderlyInv, AttachRecord
    PROVE  SP!Next
<1>0. TypeInv /\ ProcTyped /\ ProxyKnown /\ HolderInv /\ 0 \notin Pid
  BY OrderlyFacts
<1>1. /\ cs.step = "record" /\ cs.pid \in Pid /\ kind[cs.pid] = "wrapper"
      /\ phase[cs.pid] = "fresh" /\ kind' = kind
      /\ phase' = [phase EXCEPT ![cs.pid] = "attached"]
      /\ port' = [port EXCEPT ![cs.pid] = cs.port]
  BY <1>0 DEF AttachRecord, HolderInv
<1>2. Serves(cs.proxy, cs.port) /\ cs.port # 0
  BY RecordServes DEF OrderlyInv
<1>3. UpProxies = {cs.proxy}
  <2>1. lock.proxy \in {0, cs.proxy}
    BY <1>0, <1>1, OrderlyFacts DEF ProxyKnown
  <2>2. cs.proxy \in UpProxies
    BY <1>2 DEF Serves, UpProxies
  <2>3. 0 \notin UpProxies
    BY <1>0 DEF UpProxies
  <2>4. QED
    BY <2>1, <2>2, <2>3, OrderlyFacts
<1>4. UpProxies' = {cs.proxy} /\ port'[cs.proxy] = port[cs.proxy]
  BY <1>0, <1>1, <1>2, <1>3 DEF UpProxies, ProcTyped, Serves
<1>5. Endpoint = cs.port /\ Endpoint' = cs.port
  BY <1>2, <1>3, <1>4, EndpointOne, EndpointOneNext DEF Serves
<1>6. Told[cs.pid] = 0
  BY <1>1 DEF Told, Attached
<1>7. Told' = [Told EXCEPT ![cs.pid] = cs.port]
  <2>1. \A p \in Pid \ {cs.pid} : (Attached(p)' <=> Attached(p)) /\ port'[p] = port[p]
    BY <1>0, <1>1 DEF Attached, ProcTyped
  <2>2. \A p \in Pid : p = cs.pid => Attached(p)' /\ port'[p] = cs.port
    BY <1>0, <1>1 DEF Attached, ProcTyped
  <2>3. QED
    BY <1>1, <2>1, <2>2 DEF Told
<1>8. SP!Join(cs.pid)
  BY <1>2, <1>5, <1>6, <1>7 DEF SP!Join
<1>9. QED
  BY <1>1, <1>8 DEF SP!Next

\* A wrapper that is attached no more has left, whatever it becomes.
LEMMA GoingLeaves ==
    ASSUME OrderlyInv, NEW p \in Pid, Attached(p), ~Attached(p)',
           \A q \in Pid \ {p} : kind'[q] = kind[q] /\ phase'[q] = phase[q] /\ port'[q] = port[q],
           ~(kind'[p] = "proxy")
    PROVE  SP!Next
<1>1. UpProxies' = UpProxies /\ \A q \in UpProxies : port'[q] = port[q]
  BY DEF UpProxies, Attached
<1>2. Endpoint' = Endpoint
  BY <1>1, EndpointKept
<1>3. Told[p] # 0
  BY OrderlyFacts DEF Told
<1>4. Told' = [Told EXCEPT ![p] = 0]
  <2>1. \A q \in Pid \ {p} : (Attached(q)' <=> Attached(q)) /\ port'[q] = port[q]
    BY DEF Attached
  <2>2. QED
    BY <2>1 DEF Told
<1>5. SP!Leave(p)
  BY <1>2, <1>3, <1>4 DEF SP!Leave
<1>6. QED
  BY <1>5 DEF SP!Next

\* The teardown signals the recorded proxy: the service stops, unused.
LEMMA SignalStops ==
    ASSUME OrderlyInv, TeardownSignal
    PROVE  SP!Next \/ UNCHANGED SP!vars
<1>0. TypeInv /\ ProcTyped /\ ProxyKnown /\ RefsInv /\ Quiet /\ 0 \notin Pid
  BY OrderlyFacts
<1>1. cs.step = "signal" /\ SigTerm({lock.proxy} \cap Pid) /\ UNCHANGED <<kind, port>>
  BY DEF TeardownSignal
<1>2. cs.proxy = 0 /\ (lock.proxy = 0 \/ Serves(lock.proxy, lock.port))
  BY <1>0, <1>1, OrderlyFacts DEF ProxyKnown, Stopping
<1>3. CASE lock.proxy = 0
  BY <1>0, <1>1, <1>3, SameUseBy, SameUseStutters
<1>4. CASE lock.proxy # 0
  <2>1. UpProxies = {lock.proxy} /\ port[lock.proxy] = lock.port /\ lock.port # 0
    <3>1. Serves(lock.proxy, lock.port) /\ cs.proxy = 0
      BY <1>2, <1>4
    <3>2. lock.proxy \in UpProxies /\ 0 \notin UpProxies
      BY <1>0, <3>1 DEF Serves, UpProxies
    <3>3. QED
      BY <1>4, <3>1, <3>2, OrderlyFacts DEF Serves, OrderlyInv, ShapeInv
  <2>2. \A q \in Pid : phase'[q] = IF q = lock.proxy THEN Terminated(q) ELSE phase[q]
    BY <1>1 DEF SigTerm
  <2>3. Terminated(lock.proxy) # "up"
    BY DEF Terminated
  <2>4. UpProxies' = {}
    BY <1>1, <2>1, <2>2, <2>3 DEF UpProxies
  <2>5. Endpoint # 0 /\ Endpoint' = 0
    BY <2>1, <2>4, EndpointOne, EndpointNone
  <2>6. \A p \in Pid : ~Attached(p)
    BY <1>0, <1>1 DEF RefsInv, TearsDown
  <2>7. \A p \in Pid : Attached(p)' => Attached(p)
    BY <1>0, <1>1, SigTermTyped DEF Attached
  <2>8. Told' = Told /\ \A p \in Pid : Told[p] = 0
    BY <2>6, <2>7 DEF Told
  <2>9. SP!Stop
    BY <2>5, <2>8 DEF SP!Stop, SP!Unused
  <2>10. QED
    BY <2>9 DEF SP!Next
<1>5. QED
  BY <1>3, <1>4

-----------------------------------------------------------------------------
(***************************************************************************)
(* Every other step leaves the service alone                               *)
(***************************************************************************)

\* While a proxy is being started, or after one was stopped, none is up.
LEMMA NoneUp ==
    ASSUME OrderlyInv,
           cs.step \in {"broker", "brokerWait", "proxy", "stopBroker", "clear"}
             \/ (cs.step = "proxyWait" /\ ~Probe(cs.port))
    PROVE  UpProxies = {}
<1>0. ProxyKnown /\ 0 \notin Pid /\ UpProxies \subseteq Pid
  BY OrderlyFacts DEF UpProxies
<1>1. CASE cs.step \in {"stopBroker", "clear"}
  BY <1>0, <1>1, OrderlyFacts DEF ProxyKnown, Stopping
<1>2. CASE cs.step \in {"broker", "brokerWait", "proxy"}
  <2>1. lock.proxy = 0 /\ cs.proxy = 0
    BY <1>0, <1>2, OrderlyFacts DEF ProxyKnown, Starting
  <2>2. QED
    BY <1>0, <2>1, OrderlyFacts
<1>3. CASE cs.step = "proxyWait" /\ ~Probe(cs.port)
  <2>1. lock.proxy = 0
    BY <1>0, <1>3, OrderlyFacts DEF ProxyKnown, Starting
  <2>2. cs.proxy \in Pid => port[cs.proxy] = cs.port
    BY <1>0, <1>3, OrderlyFacts DEF ProxyKnown
  <2>3. cs.proxy \notin UpProxies
    BY <1>3, <2>2 DEF UpProxies, Probe, Listens
  <2>4. QED
    BY <1>0, <2>1, <2>3, OrderlyFacts
<1>4. QED
  BY <1>1, <1>2, <1>3

\* No proxy in time: what was started is stopped before it ever served.
LEMMA FailureStutters ==
    ASSUME OrderlyInv, AttachProxyFailed
    PROVE  UNCHANGED SP!vars
<1>0. ProcTyped /\ HolderInv /\ RestTyped
  BY OrderlyFacts
<1>1. cs.step \in {"proxy", "proxyWait"} /\ (cs.step = "proxyWait" => ~Probe(cs.port))
  BY DEF AttachProxyFailed
<1>2. UpProxies = {}
  BY <1>1, NoneUp
<1>3. cs.pid \in Pid /\ phase[cs.pid] = "fresh"
  BY <1>0, <1>1 DEF HolderInv, RestTyped, Section
<1>4. \A q \in Pid : phase'[q] \in {"none", phase[q], Terminated(q)}
  BY DEF AttachProxyFailed
<1>5. /\ \A q \in Pid \ {cs.pid} : kind'[q] = kind[q]
      /\ \A q \in Pid : q = cs.pid => kind'[q] = "free"
      /\ port' = port
  BY <1>0, <1>3 DEF AttachProxyFailed, ProcTyped
<1>6. \A q \in Pid : q \notin UpProxies'
  BY <1>2, <1>4, <1>5 DEF UpProxies, Terminated
<1>7. \A q \in Pid : Attached(q)' => Attached(q)
  BY <1>0, <1>4, <1>5, TerminatedTyped DEF Attached
<1>8. \A q \in Pid : Attached(q) => Attached(q)'
  <2>1. \A q \in Pid : Attached(q) => q # cs.pid /\ Terminated(q) = phase[q]
    BY <1>0, <1>3, TerminatedTyped DEF Attached
  <2>2. \A q \in Pid \ {cs.pid} : phase'[q] \in {phase[q], Terminated(q)}
    BY DEF AttachProxyFailed
  <2>3. QED
    BY <1>5, <2>1, <2>2 DEF Attached
<1>9. SameUse
  BY <1>2, <1>5, <1>6, <1>7, <1>8 DEF SameUse
<1>10. QED
  BY <1>9, SameUseStutters

\* Attach.
LEMMA AttachSimulates ==
    ASSUME OrderlyInv, AttachStep
    PROVE  SP!Next \/ UNCHANGED SP!vars
<1>0. TypeInv /\ ProcTyped /\ HolderInv /\ RestTyped /\ 0 \notin Pid
  BY OrderlyFacts
<1>1. ASSUME NEW p \in Pid, AttachReuse(p) \/ AttachRestart(p)
      PROVE  UNCHANGED SP!vars
  BY <1>0, <1>1, SameUseBy, SameUseStutters DEF AttachReuse, AttachRestart, procVars
<1>2. ASSUME NEW p \in Pid, AttachNoPort(p)
      PROVE  UNCHANGED SP!vars
  <2>1. Exit(p) /\ ~Attached(p) /\ p \notin UpProxies
    BY <1>2 DEF AttachNoPort, Attached, UpProxies
  <2>2. QED
    BY <1>0, <2>1, SameUseBy, SameUseStutters
<1>3. CASE AttachNoBroker \/ AttachBrokerReady \/ AttachProxyReady
  BY <1>0, <1>3, SameUseBy, SameUseStutters
     DEF AttachNoBroker, AttachBrokerReady, AttachProxyReady, procVars
<1>4. CASE AttachBrokerFailed
  <2>1. SigTerm({cs.broker} \cap Pid) /\ UNCHANGED <<kind, port>> /\ UpProxies = {}
    BY <1>4, NoneUp DEF AttachBrokerFailed
  <2>2. QED
    BY <1>0, <2>1, SameUseBy, SameUseStutters
<1>5. ASSUME NEW p \in Pid, AttachSpawnBroker(p) \/ AttachSpawnProxy(p)
      PROVE  UNCHANGED SP!vars
  <2>1. \E k \in Kinds, ph \in Phases \ {"attached", "up"}, n \in Port \cup {0} :
           Spawn(p, k, ph, n)
    BY <1>0, <1>5 DEF AttachSpawnBroker, AttachSpawnProxy, Kinds, Phases, RestTyped, Section
  <2>2. QED
    BY <1>0, <2>1, SameUseBy, SameUseStutters
<1>6. CASE AttachProxyFailed
  BY <1>6, FailureStutters
<1>7. CASE AttachRecord
  BY <1>7, RecordJoins
<1>8. ~AttachRecordFailed
  BY DEF AttachRecordFailed, OrderlyInv, Orderly
<1>9. QED
  BY <1>1, <1>2, <1>3, <1>4, <1>5, <1>6, <1>7, <1>8 DEF AttachStep

\* Detach, doctor and clean.
LEMMA TeardownSimulates ==
    ASSUME OrderlyInv, TeardownStep
    PROVE  SP!Next \/ UNCHANGED SP!vars
<1>0. TypeInv /\ ProcTyped /\ HolderInv /\ RestTyped /\ 0 \notin Pid
  BY OrderlyFacts
<1>1. ASSUME NEW p \in Pid, DetachBegin(p)
      PROVE  SP!Next
  <2>1. /\ Attached(p) /\ kind' = kind /\ port' = port
        /\ phase' = [phase EXCEPT ![p] = "leaving"]
    BY <1>1 DEF DetachBegin, Attached
  <2>2. \A q \in Pid \ {p} : kind'[q] = kind[q] /\ phase'[q] = phase[q] /\ port'[q] = port[q]
    BY <1>0, <2>1 DEF ProcTyped
  <2>3. ~Attached(p)' /\ kind'[p] # "proxy"
    BY <1>0, <2>1 DEF ProcTyped, Attached
  <2>4. QED
    BY <2>1, <2>2, <2>3, GoingLeaves
<1>2. CASE DetachDrop
  <2>1. /\ Exit(cs.pid) /\ cs.pid \in Pid /\ kind[cs.pid] = "wrapper"
        /\ phase[cs.pid] = "leaving"
    BY <1>0, <1>2 DEF DetachDrop, HolderInv, RestTyped, Section
  <2>2. ~Attached(cs.pid) /\ cs.pid \notin UpProxies
    BY <2>1 DEF Attached, UpProxies
  <2>3. QED
    BY <1>0, <2>1, <2>2, SameUseBy, SameUseStutters
<1>3. CASE CleanOrphanBegin \/ CleanBegin(FALSE) \/ CleanBegin(TRUE)
  BY <1>0, <1>3, SameUseBy, SameUseStutters DEF CleanOrphanBegin, CleanBegin, procVars
<1>4. CASE TeardownSignal
  BY <1>4, SignalStops
<1>5. CASE TeardownBroker
  <2>1. SigTerm({lock.broker} \cap Pid) /\ UNCHANGED <<kind, port>> /\ UpProxies = {}
    BY <1>5, NoneUp DEF TeardownBroker
  <2>2. QED
    BY <1>0, <2>1, SameUseBy, SameUseStutters
<1>6. CASE TeardownClear
  <2>1. CASE cs.pid = 0
    BY <1>0, <1>6, <2>1, SameUseBy, SameUseStutters DEF TeardownClear, SectionExit, procVars
  <2>2. CASE cs.pid # 0
    <3>1. Exit(cs.pid) /\ cs.pid \in Pid /\ UpProxies = {}
      BY <1>0, <1>6, <2>2, NoneUp DEF TeardownClear, SectionExit, RestTyped, Section
    <3>2. ~Attached(cs.pid)
      BY <1>0, <1>6, <2>2 DEF TeardownClear, HolderInv, RestTyped, Section, Attached
    <3>3. QED
      BY <1>0, <3>1, <3>2, SameUseBy, SameUseStutters
  <2>3. QED
    BY <2>1, <2>2
<1>7. ~TeardownFailed
  BY DEF TeardownFailed, OrderlyInv, Orderly
<1>8. QED
  BY <1>1, <1>2, <1>3, <1>4, <1>5, <1>6, <1>7 DEF TeardownStep

\* mitmdump and the broker.
LEMMA DaemonSimulates ==
    ASSUME OrderlyInv, DaemonStep
    PROVE  SP!Next \/ UNCHANGED SP!vars
<1>0. TypeInv /\ ProcTyped
  BY OrderlyFacts
<1> PICK q \in Pid : \/ ProxyBind(q) \/ ProxyExit(q) \/ ProxyCrash(q)
                     \/ BrokerBind(q) \/ BrokerClose(q) \/ BrokerExit(q)
                     \/ BrokerCrash(q)
  BY DEF DaemonStep
<1>1. CASE ProxyBind(q)
  BY <1>1, BindStarts
<1>2. ~ProxyCrash(q)
  BY DEF ProxyCrash, OrderlyInv, Orderly
<1>3. CASE ProxyExit(q) \/ BrokerExit(q) \/ BrokerCrash(q)
  <2>1. Exit(q) /\ ~Attached(q) /\ q \notin UpProxies
    BY <1>3 DEF ProxyExit, BrokerExit, BrokerCrash, Attached, UpProxies
  <2>2. QED
    BY <1>0, <2>1, SameUseBy, SameUseStutters
<1>4. CASE BrokerBind(q) \/ BrokerClose(q)
  <2>1. /\ kind[q] = "broker" /\ UNCHANGED <<kind, port>>
        /\ \A p \in Pid \ {q} : phase'[p] = phase[p]
    BY <1>0, <1>4 DEF BrokerBind, BrokerClose, ProcTyped
  <2>2. SameUse
    BY <2>1 DEF SameUse, Attached, UpProxies
  <2>3. QED
    BY <2>2, SameUseStutters
<1>5. QED
  BY <1>1, <1>2, <1>3, <1>4

\* Users, and everybody else's processes.
LEMMA WorldSimulates ==
    ASSUME OrderlyInv, WorldStep
    PROVE  SP!Next \/ UNCHANGED SP!vars
<1>0. TypeInv /\ ProcTyped /\ 0 \notin Pid
  BY OrderlyFacts
<1>1. ASSUME NEW p \in Pid, StartRun(p) \/ OtherStarts(p)
      PROVE  UNCHANGED SP!vars
  <2>1. \E k \in Kinds, ph \in Phases \ {"attached", "up"}, n \in Port \cup {0} :
           Spawn(p, k, ph, n)
    BY <1>1 DEF StartRun, OtherStarts, Kinds, Phases
  <2>2. QED
    BY <1>0, <2>1, SameUseBy, SameUseStutters
<1>2. ASSUME NEW p \in Pid, KillWrapper(p)
      PROVE  SP!Next \/ UNCHANGED SP!vars
  <2>1. Exit(p) /\ kind[p] = "wrapper"
    BY <1>2 DEF KillWrapper
  <2>2. CASE Attached(p)
    <3>1. /\ \A q \in Pid \ {p} : kind'[q] = kind[q] /\ phase'[q] = phase[q]
                                  /\ port'[q] = port[q]
          /\ kind'[p] = "free"
      BY <1>0, <2>1, ExitTyped
    <3>2. ~Attached(p)'
      BY <3>1 DEF Attached
    <3>3. QED
      BY <2>2, <3>1, <3>2, GoingLeaves
  <2>3. CASE ~Attached(p)
    <3>1. p \notin UpProxies
      BY <2>1 DEF UpProxies
    <3>2. QED
      BY <1>0, <2>1, <2>3, <3>1, SameUseBy, SameUseStutters
  <2>4. QED
    BY <2>2, <2>3
<1>3. ASSUME NEW p \in Pid, OtherExits(p)
      PROVE  UNCHANGED SP!vars
  <2>1. Exit(p) /\ ~Attached(p) /\ p \notin UpProxies
    BY <1>3 DEF OtherExits, Attached, UpProxies
  <2>2. QED
    BY <1>0, <2>1, SameUseBy, SameUseStutters
<1>4. CASE AllowOnce \/ \E n \in Port : ForeignCloses(n)
  BY <1>0, <1>4, SameUseBy, SameUseStutters DEF AllowOnce, ForeignCloses, procVars
<1>5. ~KillHolder /\ \A n \in Port : ~ForeignBinds(n)
  BY DEF KillHolder, ForeignBinds, OrderlyInv, Orderly
<1>6. QED
  BY <1>1, <1>2, <1>3, <1>4, <1>5 DEF WorldStep

LEMMA StepSimulates ==
    ASSUME OrderlyInv, [Next]_vars
    PROVE  SP!Next \/ UNCHANGED SP!vars
<1>1. CASE UNCHANGED vars
  BY <1>1, SameUseBy, SameUseStutters, OrderlyFacts DEF vars
<1>2. QED
  BY <1>1, AttachSimulates, TeardownSimulates, DaemonSimulates, WorldSimulates DEF Next

-----------------------------------------------------------------------------
(***************************************************************************)
(* The refinement                                                          *)
(***************************************************************************)

\* As long as no daemon but the broker dies, no port is taken, no write fails
\* and nobody insists, everything lifecycle.go and the daemons do is a step of
\* one service that appears and disappears only while nobody uses it and that
\* every user was told the address of, or does not show.  That the service does
\* not stay up for good, the fairness of SharedProxy, is not stated here.
THEOREM LifecycleImplementsSharedProxy ==
    Spec /\ env \subseteq Orderly => SP!Init /\ [][SP!Next]_(SP!vars)
<1>1. Init => SP!Init
  <2> SUFFICES ASSUME Init PROVE SP!Init
    OBVIOUS
  <2>1. \A p \in Pid : kind[p] = "free"
    BY DEF Init
  <2>2. UpProxies = {}
    BY <2>1 DEF UpProxies
  <2>3. Endpoint = 0
    BY <2>2, EndpointNone
  <2>4. Told = [p \in Pid |-> 0]
    BY <2>1 DEF Told, Attached
  <2>5. QED
    BY <2>3, <2>4 DEF SP!Init
<1>2. env \subseteq Orderly /\ [Next]_vars => (env \subseteq Orderly)'
  BY EnvFixed
<1>3. /\ LifecycleInv /\ ShapeInv /\ KnownInv /\ PortInv /\ env \subseteq Orderly
      /\ [Next]_vars
      => [SP!Next]_(SP!vars)
  BY StepSimulates DEF OrderlyInv
<1>4. QED
  BY <1>1, <1>2, <1>3, PortInvariant, PTL DEF Spec

=============================================================================
