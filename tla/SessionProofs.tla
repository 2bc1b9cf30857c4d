---------------------------- MODULE SessionProofs ----------------------------
(***************************************************************************)
(* Theorems of three parts of a session that share nothing.  Of CageRun:   *)
(* for every set of wrappers, every host, every config and any number of   *)
(* signals, failures and edits.  Of EnforcerFlow: for any number of flows, *)
(* every list of policies that Commands may make, every set of requests,   *)
(* and any number of reloads and failures.  Of Generators: for any number  *)
(* of processes and jobs, every set of manifests and whatever the          *)
(* registries answer.                                                      *)
(***************************************************************************)
EXTENDS CageRun, EnforcerFlow, Generators, PolicyMatchProofs, Iteration,
        SequenceTheorems, FiniteSetTheorems, TLAPS

-----------------------------------------------------------------------------
(***************************************************************************)
(* CageRun: the order of the steps                                         *)
(***************************************************************************)

LEMMA StepAt ==
    ASSUME NEW i \in 1..14
    PROVE  After(Steps[i]) = Steps[1 + i]
<1> DEFINE j == CHOOSE k \in DOMAIN Steps : Steps[k] = Steps[i]
<1>1. DOMAIN Steps = 1..14
  BY DEF Steps
<1>2. j \in 1..14 /\ Steps[j] = Steps[i]
  BY <1>1
<1>3. j = i
  BY <1>2 DEF Steps
<1>4. After(Steps[i]) = Steps[1 + j]
  BY DEF After
<1> QED
  BY <1>3, <1>4

LEMMA Order ==
    /\ After("check") = "compile" /\ After("compile") = "load"
    /\ After("load") = "profile" /\ After("profile") = "notify"
    /\ After("notify") = "attach" /\ After("attach") = "resolve"
    /\ After("resolve") = "files" /\ After("files") = "prepare"
    /\ After("prepare") = "build" /\ After("build") = "watch"
    /\ After("watch") = "start" /\ After("start") = "subscribe"
    /\ After("subscribe") = "loop"
<1>1. \A i \in 1..13 : After(Steps[i]) = Steps[1 + i]
  BY StepAt
<1> QED
  BY <1>1 DEF Steps

(***************************************************************************)
(* The invariant.  What is deferred tells how far a wrapper came: nothing, *)
(* the handler that ignores signals, the attachment above it, the watcher  *)
(* if there is one, and the runner's handler on top.  So an attachment is  *)
(* never there without the handler, and no signal kills its wrapper.       *)
(***************************************************************************)

Ignoring == <<"ignore">>
Attached == <<"detach", "ignore">>
Watching == <<"unwatch", "detach", "ignore">>
Unwatched == <<"stop", "detach", "ignore">>
Watched == <<"stop", "unwatch", "detach", "ignore">>

Holding == {Attached, Watching, Unwatched, Watched}
Stacks == {<<>>, Ignoring} \cup Holding

Before == {"check", "compile", "load", "profile", "notify"}
Inside == {"resolve", "files", "prepare", "build", "watch"}
Counters == Before \cup {"attach"} \cup Inside
                \cup {"start", "subscribe", "loop", "unwind", "ended"}

\* How much is deferred at each step.
StackAt(step) ==
    IF step \in Before \cup {"ended"} THEN {<<>>}
    ELSE IF step = "attach" THEN {Ignoring}
    ELSE IF step \in Inside THEN {Attached}
    ELSE IF step \in {"start", "subscribe"} THEN {Attached, Watching}
    ELSE IF step = "loop" THEN {Unwatched, Watched}
    ELSE Stacks

Leaders == {"none", "starting", "running", "killed", "gone"}
Alive == {"starting", "running", "killed"}

TypesOK ==
    /\ pc \in [Wrapper -> Counters]
    /\ defers \in [Wrapper -> Stacks]
    /\ subs \in [Wrapper -> SUBSET {"run", "runner"}]
    /\ leader \in [Wrapper -> Leaders]
    /\ out \in [Wrapper -> {"", "exited", "killed"}]

WrapperOK(w) ==
    /\ defers[w] \in StackAt(pc[w])
    /\ w \in users <=> defers[w] \in Holding
    /\ defers[w] # <<>> => "run" \in subs[w]
    /\ leader[w] \in Alive => pc[w] \in {"subscribe", "loop"}
    /\ out[w] # "" => pc[w] = "ended"

RunInv == TypesOK /\ \A w \in Wrapper : WrapperOK(w)

-----------------------------------------------------------------------------
(***************************************************************************)
(* Facts about what is deferred                                            *)
(***************************************************************************)

Undos == {"ignore", "detach", "unwatch", "stop"}

\* What was put on top of a sequence comes first, and the rest stays.
LEMMA Push ==
    ASSUME NEW S, NEW what \in S, NEW s \in Seq(S), NEW t \in Seq(S),
           Len(t) = Len(s) + 1, t[1] = what, \A i \in 1..Len(s) : t[i + 1] = s[i]
    PROVE  <<what>> \o s = t
<1> DEFINE u == <<what>>
<1>1. u \in Seq(S) /\ Len(u) = 1 /\ u[1] = what
  <2>1. u \in Seq(S)
    OBVIOUS
  <2>2. Len(u) = 1
    OBVIOUS
  <2>3. u[1] = what
    OBVIOUS
  <2> QED
    BY <2>1, <2>2, <2>3
<1> HIDE DEF u
<1>2. u \o s \in Seq(S) /\ Len(u \o s) = Len(s) + 1
  BY <1>1, ConcatProperties
<1>3. \A i \in 1..Len(t) : (u \o s)[i] = t[i]
  <2> TAKE i \in 1..Len(t)
  <2>1. CASE i = 1
    BY <1>1, <2>1, ConcatProperties, SMTT(30)
  <2>2. CASE i # 1
    <3>1. i - 1 \in 1..Len(s) /\ i = (i - 1) + 1
      BY <2>2
    <3>2. Len(s) \in Nat /\ i \in 1..(Len(u) + Len(s))
      BY <1>1
    <3>3. (u \o s)[i] = IF i <= Len(u) THEN u[i] ELSE s[i - Len(u)]
      BY <1>1, <3>2, ConcatProperties
    <3>4. (u \o s)[i] = s[i - 1]
      BY <1>1, <2>2, <3>3
    <3> QED
      BY <3>1, <3>4
  <2> QED
    BY <2>1, <2>2
<1>4. u \o s = t
  BY <1>2, <1>3, SeqEqual
<1> QED
  BY <1>4 DEF u

LEMMA Tops ==
    /\ Len(Ignoring) = 1 /\ Ignoring[1] = "ignore"
    /\ Len(Attached) = 2 /\ Attached[1] = "detach" /\ Attached[2] = "ignore"
    /\ Len(Watching) = 3 /\ Watching[1] = "unwatch" /\ Watching[2] = "detach"
    /\ Watching[3] = "ignore"
    /\ Len(Unwatched) = 3 /\ Unwatched[1] = "stop" /\ Unwatched[2] = "detach"
    /\ Unwatched[3] = "ignore"
    /\ Len(Watched) = 4 /\ Watched[1] = "stop" /\ Watched[2] = "unwatch"
    /\ Watched[3] = "detach" /\ Watched[4] = "ignore"
BY DEF Ignoring, Attached, Watching, Unwatched, Watched

LEMMA StacksTyped ==
    /\ Ignoring \in Seq(Undos) /\ Attached \in Seq(Undos)
    /\ Watching \in Seq(Undos) /\ Unwatched \in Seq(Undos)
    /\ Watched \in Seq(Undos)
BY DEF Ignoring, Attached, Watching, Unwatched, Watched, Undos

LEMMA Pushed ==
    /\ <<"ignore">> \o <<>> = Ignoring
    /\ <<"detach">> \o Ignoring = Attached
    /\ <<"unwatch">> \o Attached = Watching
    /\ <<"stop">> \o Attached = Unwatched
    /\ <<"stop">> \o Watching = Watched
<1>1. <<>> \in Seq(Undos) /\ Len(<<>>) = 0
  OBVIOUS
<1>2. "ignore" \in Undos /\ "detach" \in Undos /\ "unwatch" \in Undos /\ "stop" \in Undos
  BY DEF Undos
<1>3. <<"ignore">> \o <<>> = Ignoring
  BY <1>1, <1>2, Tops, StacksTyped, Push
<1>4. <<"detach">> \o Ignoring = Attached
  <2>1. /\ Len(Attached) = Len(Ignoring) + 1 /\ Attached[1] = "detach"
        /\ \A i \in 1..Len(Ignoring) : Attached[i + 1] = Ignoring[i]
    BY Tops
  <2> QED
    BY <2>1, <1>2, StacksTyped, Push
<1>5. <<"unwatch">> \o Attached = Watching
  <2>1. /\ Len(Watching) = Len(Attached) + 1 /\ Watching[1] = "unwatch"
        /\ \A i \in 1..Len(Attached) : Watching[i + 1] = Attached[i]
    BY Tops
  <2> QED
    BY <2>1, <1>2, StacksTyped, Push
<1>6. <<"stop">> \o Attached = Unwatched
  <2>1. /\ Len(Unwatched) = Len(Attached) + 1 /\ Unwatched[1] = "stop"
        /\ \A i \in 1..Len(Attached) : Unwatched[i + 1] = Attached[i]
    BY Tops
  <2> QED
    BY <2>1, <1>2, StacksTyped, Push
<1>7. <<"stop">> \o Watching = Watched
  <2>1. /\ Len(Watched) = Len(Watching) + 1 /\ Watched[1] = "stop"
        /\ \A i \in 1..Len(Watching) : Watched[i + 1] = Watching[i]
    BY Tops
  <2> QED
    BY <2>1, <1>2, StacksTyped, Push
<1> QED
  BY <1>3, <1>4, <1>5, <1>6, <1>7

LEMMA Popped ==
    /\ Head(Ignoring) = "ignore" /\ Tail(Ignoring) = <<>>
    /\ Head(Attached) = "detach" /\ Tail(Attached) = Ignoring
    /\ Head(Watching) = "unwatch" /\ Tail(Watching) = Attached
    /\ Head(Unwatched) = "stop" /\ Tail(Unwatched) = Attached
    /\ Head(Watched) = "stop" /\ Tail(Watched) = Watching
BY DEF Ignoring, Attached, Watching, Unwatched, Watched

LEMMA Different ==
    /\ Ignoring # <<>> /\ \A s \in Holding : s # <<>> /\ s # Ignoring
<1>1. Len(<<>>) = 0
  OBVIOUS
<1> QED
  BY <1>1, Tops DEF Holding

LEMMA RunInvInit == RunInit(Worlds) => RunInv
<1> SUFFICES ASSUME RunInit(Worlds) PROVE RunInv
  OBVIOUS
<1>1. TypesOK
  BY DEF RunInit, TypesOK, All, Before, Counters, Stacks, Leaders
<1>2. ASSUME NEW w \in Wrapper PROVE WrapperOK(w)
  <2>1. /\ defers[w] = <<>> /\ w \notin users /\ leader[w] = "none"
        /\ out[w] = "" /\ pc[w] = "check"
    BY <1>2 DEF RunInit, All
  <2>2. defers[w] \in StackAt(pc[w])
    BY <2>1 DEF StackAt, Before
  <2>3. defers[w] \notin Holding
    BY <2>1, Different
  <2> QED
    BY <2>1, <2>2, <2>3 DEF WrapperOK, Alive
<1> QED
  BY <1>1, <1>2 DEF RunInv

LEMMA RunInvSafe == RunInv => RefcountSafe
<1> SUFFICES ASSUME RunInv, NEW w \in Wrapper
             PROVE  /\ leader[w] \in Alive => w \in users
                    /\ out[w] # "" => w \notin users
  BY DEF RefcountSafe, Alive
<1>1. WrapperOK(w)
  BY DEF RunInv
<1>2. CASE pc[w] \in {"subscribe", "loop"}
  BY <1>1, <1>2 DEF WrapperOK, StackAt, Before, Inside, Holding
<1>3. CASE pc[w] = "ended"
  BY <1>1, <1>3, Different DEF WrapperOK, StackAt, Before, Inside, Holding, Alive
<1> QED
  BY <1>1, <1>2, <1>3 DEF WrapperOK

-----------------------------------------------------------------------------
(***************************************************************************)
(* Steps.  A step of a wrapper leaves the others alone.                    *)
(***************************************************************************)

SameFor(v) ==
    /\ pc'[v] = pc[v] /\ defers'[v] = defers[v] /\ subs'[v] = subs[v]
    /\ leader'[v] = leader[v] /\ out'[v] = out[v]
    /\ v \in users' <=> v \in users

LEMMA StepOf ==
    ASSUME RunInv, NEW w \in Wrapper, TypesOK', WrapperOK(w)',
           \A v \in Wrapper \ {w} : SameFor(v)
    PROVE  RunInv'
<1>1. ASSUME NEW v \in Wrapper \ {w} PROVE WrapperOK(v)'
  <2>1. WrapperOK(v) /\ SameFor(v)
    BY DEF RunInv
  <2> QED
    BY <2>1 DEF WrapperOK, SameFor
<1> QED
  BY <1>1 DEF RunInv

\* A step of the start that defers nothing, or the end of the start.
LEMMA Moves ==
    ASSUME RunInv, NEW w \in Wrapper, NEW p \in Counters,
           pc' = [pc EXCEPT ![w] = p], UNCHANGED <<defers, subs, users, leader, out>>,
           pc[w] \notin {"subscribe", "loop", "ended"}, defers[w] \in StackAt(p)
    PROVE  RunInv'
<1>1. TypesOK'
  BY DEF RunInv, TypesOK
<1>2. pc'[w] = p /\ WrapperOK(w)
  BY DEF RunInv, TypesOK
<1>3. WrapperOK(w)'
  BY <1>2 DEF WrapperOK
<1>4. \A v \in Wrapper \ {w} : SameFor(v)
  BY DEF RunInv, TypesOK, SameFor
<1> QED
  BY <1>1, <1>3, <1>4, StepOf

LEMMA FailMoves ==
    ASSUME RunInv, NEW w \in Wrapper, Fail(w),
           UNCHANGED <<defers, subs, users, leader, out>>,
           pc[w] \notin {"subscribe", "loop", "ended"}
    PROVE  RunInv'
<1>1. defers[w] \in StackAt("unwind")
  BY DEF RunInv, TypesOK, StackAt, Before, Inside
<1>2. "unwind" \in Counters
  BY DEF Counters
<1> QED
  BY <1>1, <1>2, Moves DEF Fail

Silent == (Before \cup Inside) \ {"notify", "watch"}

LEMMA GoMoves ==
    ASSUME RunInv, NEW w \in Wrapper, Go(w, pc[w]), pc[w] \in Silent,
           UNCHANGED <<defers, subs, users, leader, out>>
    PROVE  RunInv'
<1> DEFINE p == After(pc[w])
<1>1. pc[w] \in {"check", "compile", "load", "profile", "resolve", "files",
                 "prepare", "build"}
  BY DEF Silent, Before, Inside
<1>2. p \in Before \cup Inside /\ (p \in Before <=> pc[w] \in Before)
  BY <1>1, Order DEF Before, Inside
<1>3. WrapperOK(w)
  BY DEF RunInv
<1>4. defers[w] \in StackAt(p)
  BY <1>1, <1>2, <1>3 DEF WrapperOK, StackAt, Before, Inside
<1>5. p \in Counters
  BY <1>2 DEF Counters
<1> QED
  BY <1>1, <1>4, <1>5, Moves DEF Go

LEMMA StartKeeps ==
    ASSUME RunInv, NEW w \in Wrapper, StartStep(w)
    PROVE  RunInv'
<1>0. WrapperOK(w) /\ TypesOK
  BY DEF RunInv
<1> USE Order
<1>1. CASE CheckHost(w)
  <2>1. pc[w] = "check" /\ (Go(w, pc[w]) \/ Fail(w))
    BY <1>1 DEF CheckHost, Gate
  <2> QED
    BY <1>1, <2>1, GoMoves, FailMoves
        DEF CheckHost, Gate, shared, Silent, Before, Inside
<1>2. CASE CompilePolicy(w)
  <2>1. pc[w] = "compile" /\ (Go(w, pc[w]) \/ Fail(w))
    BY <1>2 DEF CompilePolicy, Gate
  <2> QED
    BY <1>2, <2>1, GoMoves, FailMoves
        DEF CompilePolicy, Gate, shared, Silent, Before, Inside
<1>3. CASE LoadConfig(w)
  <2>1. pc[w] = "load" /\ (Go(w, pc[w]) \/ Fail(w))
    BY <1>3 DEF LoadConfig
  <2> QED
    BY <1>3, <2>1, GoMoves, FailMoves
        DEF LoadConfig, shared, Silent, Before, Inside
<1>4. CASE CompileProfile(w)
  <2>1. pc[w] = "profile" /\ (Go(w, pc[w]) \/ Fail(w))
    BY <1>4 DEF CompileProfile
  <2> QED
    BY <1>4, <2>1, GoMoves, FailMoves
        DEF CompileProfile, Silent, Before, Inside
<1>5. CASE Notify(w)
  <2>1. /\ pc[w] = "notify" /\ defers[w] = <<>>
        /\ leader[w] \notin Alive /\ out[w] = "" /\ w \notin users
    BY <1>0, <1>5, Different DEF Notify, WrapperOK, StackAt, Before
  <2>2. /\ pc' = [pc EXCEPT ![w] = "attach"]
        /\ defers' = [defers EXCEPT ![w] = Ignoring]
        /\ subs' = [subs EXCEPT ![w] = @ \cup {"run"}]
        /\ UNCHANGED <<users, leader, out>>
    BY <1>0, <1>5, <2>1, Pushed DEF Notify, Go, Defer, TypesOK, shared
  <2>3. TypesOK'
    BY <1>0, <2>2 DEF TypesOK, Counters, Stacks
  <2>4. /\ pc'[w] = "attach" /\ defers'[w] = Ignoring /\ "run" \in subs'[w]
    BY <1>0, <2>2 DEF TypesOK
  <2>5. WrapperOK(w)'
    <3>1. defers'[w] \in StackAt(pc'[w])
      BY <2>4 DEF StackAt, Before
    <3>2. w \notin users' /\ defers'[w] \notin Holding
      BY <2>1, <2>2, <2>4, Different
    <3> QED
      BY <2>1, <2>2, <2>4, <3>1, <3>2 DEF WrapperOK
  <2>6. \A v \in Wrapper \ {w} : SameFor(v)
    BY <1>0, <2>2 DEF TypesOK, SameFor
  <2> QED
    BY <2>3, <2>5, <2>6, StepOf
<1>6. CASE Attach(w)
  <2>1. /\ pc[w] = "attach" /\ defers[w] = Ignoring
        /\ leader[w] \notin Alive /\ out[w] = "" /\ "run" \in subs[w]
    BY <1>0, <1>6, Different DEF Attach, WrapperOK, StackAt, Before, Inside
  <2>2. /\ pc' = [pc EXCEPT ![w] = "resolve"]
        /\ defers' = [defers EXCEPT ![w] = Attached]
        /\ users' = users \cup {w}
        /\ UNCHANGED <<subs, leader, out>>
    BY <1>0, <1>6, <2>1, Pushed DEF Attach, Go, Defer, TypesOK
  <2>3. TypesOK'
    BY <1>0, <2>2 DEF TypesOK, Counters, Stacks, Holding, Inside
  <2>4. /\ pc'[w] = "resolve" /\ defers'[w] = Attached
    BY <1>0, <2>2 DEF TypesOK
  <2>5. WrapperOK(w)'
    <3>1. defers'[w] \in StackAt(pc'[w])
      BY <2>4 DEF StackAt, Before, Inside
    <3>2. w \in users' /\ defers'[w] \in Holding
      BY <2>2, <2>4 DEF Holding
    <3> QED
      BY <2>1, <2>2, <2>4, <3>1, <3>2 DEF WrapperOK
  <2>6. \A v \in Wrapper \ {w} : SameFor(v)
    BY <1>0, <2>2 DEF TypesOK, SameFor
  <2> QED
    BY <2>3, <2>5, <2>6, StepOf
<1>7. CASE ResolveInputs(w)
  <2>1. pc[w] = "resolve" /\ (Go(w, pc[w]) \/ Fail(w))
    BY <1>7 DEF ResolveInputs
  <2> QED
    BY <1>7, <2>1, GoMoves, FailMoves
        DEF ResolveInputs, shared, Silent, Before, Inside
<1>8. CASE ConfigFiles(w)
  <2>1. pc[w] = "files" /\ (Go(w, pc[w]) \/ Fail(w))
    BY <1>8 DEF ConfigFiles
  <2> QED
    BY <1>8, <2>1, GoMoves, FailMoves
        DEF ConfigFiles, shared, Silent, Before, Inside
<1>9. CASE Prepare(w)
  <2>1. pc[w] = "prepare" /\ UNCHANGED <<defers, subs, users, leader, out>>
    BY <1>9 DEF Prepare
  <2>2. Go(w, pc[w]) \/ Fail(w) \/ pc' = pc
    BY <1>9 DEF Prepare
  <2>3. CASE pc' = pc
    <3>1. pc' = [pc EXCEPT ![w] = pc[w]] /\ pc[w] \in Counters
      BY <1>0, <2>3 DEF TypesOK
    <3>2. defers[w] \in StackAt(pc[w])
      BY <1>0 DEF WrapperOK
    <3> QED
      BY <2>1, <3>1, <3>2, Moves
  <2> QED
    BY <2>1, <2>2, <2>3, GoMoves, FailMoves DEF Silent, Before, Inside
<1>10. CASE BuildInvocation(w)
  <2>1. pc[w] = "build" /\ (Go(w, pc[w]) \/ Fail(w))
    BY <1>10 DEF BuildInvocation
  <2> QED
    BY <1>10, <2>1, GoMoves, FailMoves
        DEF BuildInvocation, shared, Silent, Before, Inside
<1>11. CASE Watch(w)
  <2>1. /\ pc[w] = "watch" /\ defers[w] = Attached
        /\ leader[w] \notin Alive /\ out[w] = "" /\ "run" \in subs[w]
        /\ w \in users
    BY <1>0, <1>11, Different
        DEF Watch, WrapperOK, StackAt, Before, Inside, Holding
  <2>2. /\ pc' = [pc EXCEPT ![w] = "start"]
        /\ \/ defers' = [defers EXCEPT ![w] = Watching]
           \/ defers' = [defers EXCEPT ![w] = Attached]
        /\ UNCHANGED <<users, subs, leader, out>>
    BY <1>0, <1>11, <2>1, Pushed DEF Watch, Go, Defer, TypesOK, shared
  <2>3. TypesOK'
    BY <1>0, <2>2 DEF TypesOK, Counters, Stacks, Holding
  <2>4. /\ pc'[w] = "start" /\ defers'[w] \in {Attached, Watching}
    BY <1>0, <2>2 DEF TypesOK
  <2>5. WrapperOK(w)'
    BY <2>1, <2>2, <2>4 DEF WrapperOK, StackAt, Before, Inside, Holding
  <2>6. \A v \in Wrapper \ {w} : SameFor(v)
    BY <1>0, <2>2 DEF TypesOK, SameFor
  <2> QED
    BY <2>3, <2>5, <2>6, StepOf
<1>12. CASE Start(w)
  <2>1. /\ pc[w] = "start" /\ defers[w] \in {Attached, Watching}
        /\ out[w] = "" /\ "run" \in subs[w] /\ w \in users
    BY <1>0, <1>12, Different
        DEF Start, WrapperOK, StackAt, Before, Inside, Holding
  <2>2. /\ pc' = [pc EXCEPT ![w] = "subscribe"]
        /\ leader' = [leader EXCEPT ![w] = "starting"]
        /\ UNCHANGED <<users, subs, defers, out>>
    BY <1>12 DEF Start, Go, shared
  <2>3. TypesOK'
    BY <1>0, <2>2 DEF TypesOK, Counters, Leaders
  <2>4. /\ pc'[w] = "subscribe" /\ leader'[w] = "starting"
    BY <1>0, <2>2 DEF TypesOK
  <2>5. WrapperOK(w)'
    BY <2>1, <2>2, <2>4 DEF WrapperOK, StackAt, Before, Inside, Holding
  <2>6. \A v \in Wrapper \ {w} : SameFor(v)
    BY <1>0, <2>2 DEF TypesOK, SameFor
  <2> QED
    BY <2>3, <2>5, <2>6, StepOf
<1>13. CASE Subscribe(w)
  <2>1. /\ pc[w] = "subscribe" /\ defers[w] \in {Attached, Watching}
        /\ out[w] = "" /\ "run" \in subs[w] /\ w \in users
    BY <1>0, <1>13, Different
        DEF Subscribe, WrapperOK, StackAt, Before, Inside, Holding
  <2>2. /\ pc' = [pc EXCEPT ![w] = "loop"]
        /\ \/ defers' = [defers EXCEPT ![w] = Unwatched]
           \/ defers' = [defers EXCEPT ![w] = Watched]
        /\ subs' = [subs EXCEPT ![w] = @ \cup {"runner"}]
        /\ UNCHANGED <<users, leader, out>>
    BY <1>0, <1>13, <2>1, Pushed DEF Subscribe, Go, Defer, TypesOK, shared
  <2>3. TypesOK'
    BY <1>0, <2>2 DEF TypesOK, Counters, Stacks, Holding
  <2>4. /\ pc'[w] = "loop" /\ defers'[w] \in {Unwatched, Watched}
        /\ "run" \in subs'[w]
    BY <1>0, <2>1, <2>2 DEF TypesOK
  <2>5. WrapperOK(w)'
    BY <2>1, <2>2, <2>4 DEF WrapperOK, StackAt, Before, Inside, Holding
  <2>6. \A v \in Wrapper \ {w} : SameFor(v)
    BY <1>0, <2>2 DEF TypesOK, SameFor
  <2> QED
    BY <2>3, <2>5, <2>6, StepOf
<1> QED
  BY <1>1, <1>2, <1>3, <1>4, <1>5, <1>6, <1>7, <1>8, <1>9, <1>10, <1>11,
     <1>12, <1>13 DEF StartStep

\* A step that moves nobody and defers nothing, and may end a cage's process.
LEMMA LeaderMoves ==
    ASSUME RunInv, NEW w \in Wrapper, NEW l \in Leaders,
           leader' = [leader EXCEPT ![w] = l],
           UNCHANGED <<pc, defers, subs, users, out>>,
           l \in Alive => leader[w] \in Alive
    PROVE  RunInv'
<1>0. WrapperOK(w) /\ TypesOK
  BY DEF RunInv
<1>1. TypesOK'
  BY <1>0 DEF TypesOK
<1>2. leader'[w] = l
  BY <1>0 DEF TypesOK
<1>3. WrapperOK(w)'
  BY <1>0, <1>2 DEF WrapperOK
<1>4. \A v \in Wrapper \ {w} : SameFor(v)
  BY <1>0 DEF TypesOK, SameFor
<1> QED
  BY <1>1, <1>3, <1>4, StepOf

LEMMA StutterKeeps ==
    ASSUME RunInv, UNCHANGED <<pc, defers, subs, users, leader, out>>
    PROVE  RunInv'
<1>1. TypesOK'
  BY DEF RunInv, TypesOK
<1>2. ASSUME NEW v \in Wrapper PROVE WrapperOK(v)'
  BY DEF RunInv, WrapperOK
<1> QED
  BY <1>1, <1>2 DEF RunInv

LEMMA UndoKeeps ==
    ASSUME RunInv, NEW w \in Wrapper, Undo(w)
    PROVE  RunInv'
<1> DEFINE what == Head(defers[w])
<1>0. WrapperOK(w) /\ TypesOK
  BY DEF RunInv
<1>1. /\ pc[w] = "unwind" /\ defers[w] \in {Ignoring} \cup Holding
      /\ leader[w] \notin Alive /\ out[w] = "" /\ "run" \in subs[w]
  BY <1>0 DEF Undo, WrapperOK, TypesOK, Stacks
<1>2. /\ defers' = [defers EXCEPT ![w] = Tail(defers[w])]
      /\ subs' = IF what \in {"ignore", "stop"}
                 THEN [subs EXCEPT ![w] = subs[w] \ {Handler(what)}] ELSE subs
      /\ users' = IF what = "detach" THEN users \ {w} ELSE users
      /\ UNCHANGED <<pc, leader, out>>
  BY DEF Undo
<1>3. \/ what = "ignore" /\ Tail(defers[w]) = <<>> /\ defers[w] \notin Holding
      \/ what = "detach" /\ Tail(defers[w]) = Ignoring
      \/ what \in {"unwatch", "stop"} /\ defers[w] \in Holding
            /\ Tail(defers[w]) \in {Attached, Watching}
  BY <1>1, Popped, Different DEF Holding
<1>4. Tail(defers[w]) \in Stacks
  BY <1>3 DEF Stacks, Holding
<1>5. TypesOK'
  BY <1>0, <1>2, <1>4 DEF TypesOK, Handler
<1>6. defers'[w] = Tail(defers[w]) /\ pc'[w] = "unwind"
  BY <1>0, <1>1, <1>2 DEF TypesOK
<1>7. defers'[w] \in StackAt(pc'[w])
  BY <1>4, <1>6 DEF StackAt, Before, Inside
<1>8. w \in users' <=> defers'[w] \in Holding
  <2>1. CASE what = "ignore"
    BY <1>0, <1>2, <1>3, <1>6, <2>1, Different DEF WrapperOK
  <2>2. CASE what = "detach"
    BY <1>2, <1>3, <1>6, <2>2, Different
  <2>3. CASE what \in {"unwatch", "stop"}
    BY <1>0, <1>2, <1>3, <1>6, <2>3 DEF WrapperOK, Holding
  <2> QED
    BY <1>3, <2>1, <2>2, <2>3
<1>9. defers'[w] # <<>> => "run" \in subs'[w]
  <2>1. CASE what = "ignore"
    BY <1>3, <1>6, <2>1
  <2>2. CASE what # "ignore"
    BY <1>0, <1>1, <1>2, <1>3, <2>2 DEF Handler, TypesOK
  <2> QED
    BY <2>1, <2>2
<1>10. WrapperOK(w)'
  BY <1>1, <1>2, <1>7, <1>8, <1>9 DEF WrapperOK
<1>11. \A v \in Wrapper \ {w} : SameFor(v)
  BY <1>0, <1>2 DEF TypesOK, SameFor
<1> QED
  BY <1>5, <1>10, <1>11, StepOf

LEMMA ExitKeeps ==
    ASSUME RunInv, NEW w \in Wrapper, NEW how \in {"exited", "killed"},
           pc[w] # "ended", defers[w] = <<>>, leader[w] \notin Alive,
           pc' = [pc EXCEPT ![w] = "ended"], out' = [out EXCEPT ![w] = how],
           UNCHANGED <<defers, subs, users, leader>>
    PROVE  RunInv'
<1>0. WrapperOK(w) /\ TypesOK
  BY DEF RunInv
<1>1. TypesOK'
  BY <1>0 DEF TypesOK, Counters
<1>2. pc'[w] = "ended"
  BY <1>0 DEF TypesOK
<1>3. defers'[w] \in StackAt(pc'[w])
  BY <1>2 DEF StackAt
<1>4. WrapperOK(w)'
  BY <1>0, <1>2, <1>3 DEF WrapperOK
<1>5. \A v \in Wrapper \ {w} : SameFor(v)
  BY <1>0 DEF TypesOK, SameFor
<1> QED
  BY <1>1, <1>4, <1>5, StepOf

LEMMA EndKeeps ==
    ASSUME RunInv, NEW w \in Wrapper, EndStep(w)
    PROVE  RunInv'
<1>0. WrapperOK(w) /\ TypesOK
  BY DEF RunInv
<1>1. CASE Forward(w)
  BY <1>1, StutterKeeps DEF Forward, shared
<1>2. CASE Escalate(w)
  <2>1. PICK l \in Leaders : /\ leader' = [leader EXCEPT ![w] = l]
                             /\ l \in {leader[w], "killed"}
    BY <1>0, <1>2 DEF Escalate, TypesOK, Leaders
  <2>2. /\ pc[w] = "loop" /\ UNCHANGED <<pc, defers, subs, users, out>>
    BY <1>2 DEF Escalate, shared
  <2>3. TypesOK'
    BY <1>0, <2>1, <2>2 DEF TypesOK
  <2>4. WrapperOK(w)'
    BY <1>0, <2>2 DEF WrapperOK
  <2>5. \A v \in Wrapper \ {w} : SameFor(v)
    BY <1>0, <2>1, <2>2 DEF TypesOK, SameFor
  <2> QED
    BY <2>3, <2>4, <2>5, StepOf
<1>3. CASE Reap(w)
  <2>1. /\ pc[w] = "loop" /\ leader[w] = "gone"
        /\ pc' = [pc EXCEPT ![w] = "unwind"]
        /\ UNCHANGED <<defers, subs, users, leader, out>>
    BY <1>3 DEF Reap, shared
  <2>2. TypesOK'
    BY <1>0, <2>1 DEF TypesOK, Counters
  <2>3. pc'[w] = "unwind" /\ defers'[w] \in Stacks
    BY <1>0, <2>1 DEF TypesOK
  <2>4. defers'[w] \in StackAt(pc'[w])
    BY <2>3 DEF StackAt, Before, Inside
  <2>5. leader'[w] \notin Alive
    BY <2>1 DEF Alive
  <2>6. WrapperOK(w)'
    BY <1>0, <2>1, <2>4, <2>5 DEF WrapperOK
  <2>7. \A v \in Wrapper \ {w} : SameFor(v)
    BY <1>0, <2>1 DEF TypesOK, SameFor
  <2> QED
    BY <2>2, <2>6, <2>7, StepOf
<1>4. CASE Undo(w)
  BY <1>4, UndoKeeps
<1>5. CASE Exit(w)
  <2>1. pc[w] = "unwind" /\ leader[w] \notin Alive
    BY <1>0, <1>5 DEF Exit, WrapperOK
  <2> QED
    BY <1>5, <2>1, ExitKeeps DEF Exit, shared
<1> QED
  BY <1>1, <1>2, <1>3, <1>4, <1>5 DEF EndStep

LEMMA FailsKeeps ==
    ASSUME RunInv, NEW w \in Wrapper, StepFails(w)
    PROVE  RunInv'
BY FailMoves DEF StepFails, shared

\* A signal that kills finds nothing deferred: who has joined the proxy takes
\* its signals.
LEMMA SignalKeeps ==
    ASSUME RunInv, NEW w \in Wrapper, Signal(w)
    PROVE  RunInv'
<1>1. WrapperOK(w) /\ TypesOK
  BY DEF RunInv
<1>2. CASE subs[w] = {}
  <2>1. defers[w] = <<>>
    BY <1>1, <1>2 DEF WrapperOK
  <2>2. leader[w] \notin Alive
    <3>1. ASSUME leader[w] \in Alive PROVE FALSE
      <4>1. pc[w] \in {"subscribe", "loop"} /\ defers[w] \in StackAt(pc[w])
        BY <1>1, <3>1 DEF WrapperOK
      <4>2. defers[w] \in Holding
        BY <4>1 DEF StackAt, Before, Inside, Holding
      <4> QED
        BY <2>1, <4>2, Different
    <3> QED
      BY <3>1
  <2> QED
    BY <1>2, <2>1, <2>2, ExitKeeps DEF Signal, shared
<1>3. CASE subs[w] # {}
  BY <1>3, StutterKeeps DEF Signal, shared
<1> QED
  BY <1>2, <1>3

LEMMA CageKeeps ==
    ASSUME RunInv, NEW w \in Wrapper,
           SafehouseReads(w) \/ LeaderExits(w) \/ LeaderDies(w)
    PROVE  RunInv'
<1>1. CASE SafehouseReads(w)
  BY <1>1, LeaderMoves DEF SafehouseReads, shared, Leaders, Alive
<1>2. CASE LeaderExits(w)
  BY <1>2, LeaderMoves DEF LeaderExits, shared, Leaders, Alive
<1>3. CASE LeaderDies(w)
  BY <1>3, LeaderMoves DEF LeaderDies, shared, Leaders, Alive
<1> QED
  BY <1>1, <1>2, <1>3

LEMMA RunInvStep == RunInv /\ [RunNext]_runVars => RunInv'
<1> SUFFICES ASSUME RunInv, [RunNext]_runVars PROVE RunInv'
  OBVIOUS
<1>1. ASSUME NEW w \in Wrapper, StartStep(w) PROVE RunInv'
  BY <1>1, StartKeeps
<1>2. ASSUME NEW w \in Wrapper, EndStep(w) PROVE RunInv'
  BY <1>2, EndKeeps
<1>3. ASSUME NEW w \in Wrapper, StepFails(w) \/ Signal(w) PROVE RunInv'
  BY <1>3, FailsKeeps, SignalKeeps
<1>4. ASSUME NEW w \in Wrapper,
             SafehouseReads(w) \/ LeaderExits(w) \/ LeaderDies(w)
      PROVE  RunInv'
  BY <1>4, CageKeeps
<1>5. CASE Edit
  BY <1>5, StutterKeeps DEF Edit, own
<1>6. CASE UNCHANGED runVars
  BY <1>6, StutterKeeps DEF runVars, shared, own
<1> QED
  BY <1>1, <1>2, <1>3, <1>4, <1>5, <1>6 DEF RunNext

-----------------------------------------------------------------------------
\* A wrapper whose cage runs is counted as a user of the proxy, and one that
\* ended is not: the deferred clean-ups of cli/run.go undo exactly what was
\* done, whichever step failed, and the handler that ignores signals
\* (run.go's Notify) is there as long as the attachment is.
THEOREM CageRefcountCorrect == RunSpec => []RefcountSafe
<1>1. RunInv /\ [RunNext]_runVars => RunInv'
  BY RunInvStep
<1> QED
  BY RunInvInit, <1>1, RunInvSafe, PTL DEF RunSpec

-----------------------------------------------------------------------------
(***************************************************************************)
(* CageProfile: of the rules that match, the last decides, so that lists   *)
(* of rules that are joined say what the last of them says that has        *)
(* something to say.                                                       *)
(***************************************************************************)

\* The names there are, with those of the code.
Texts == STRING \cup
    {"", "localhost", ".claude", ".claude.json", ".probe", "x", "other",
     "Library", "Keychains", "login.keychain-db", ".fl", "-wal", ".mitmproxy",
     "mitmproxy-ca-cert.pem", "broker.sock"}
Paths == Seq(Texts)
Endpoints == [host : Texts, port : Int, path : Paths]
Operations == {Network, Read, Write, Stat, Lookup}
SBRules == [allow : BOOLEAN, ops : SUBSET Operations,
            form : {"any", "literal", "below"}, on : Endpoints]

\* What a list of rules says of a target: nothing, or yes, or no.
About(rules, op, target) == \E i \in DOMAIN rules : Matches(rules[i], op, target)

Says(rules, op, target) ==
    IF ~About(rules, op, target) THEN "none"
    ELSE IF Permits(rules, op, target) THEN "yes" ELSE "no"

Over(first, then) == IF then = "none" THEN first ELSE then

LastOf(rules, op, target, i) ==
    /\ i \in DOMAIN rules /\ Matches(rules[i], op, target)
    /\ \A j \in DOMAIN rules : Matches(rules[j], op, target) => j <= i

\* If a rule matches, there is a last one that does.
LEMMA LastExists ==
    ASSUME NEW rules \in Seq(SBRules), NEW op, NEW target, About(rules, op, target)
    PROVE  \E i \in DOMAIN rules : LastOf(rules, op, target, i)
<1> DEFINE n == Len(rules)
           hits == {i \in 1..n : Matches(rules[i], op, target)}
           T == {n - i : i \in hits}
<1>1. n \in Nat /\ DOMAIN rules = 1..n
  OBVIOUS
<1>2. hits # {}
  BY <1>1 DEF About
<1>3. T \subseteq Nat /\ T # {}
  BY <1>1, <1>2
<1>4. PICK x \in T : \A y \in T : x <= y
  <2> HIDE DEF T
  <2> QED BY <1>3, Least
<1>5. PICK i \in hits : x = n - i
  OBVIOUS
<1>6. \A j \in hits : n - j \in T /\ j \in Int
  BY <1>1
<1>7. \A j \in hits : j <= i
  <2> HIDE DEF T, hits, n
  <2> TAKE j \in hits
  <2>1. n - i <= n - j
    BY <1>4, <1>5, <1>6
  <2>2. i \in Int /\ j \in Int
    BY <1>6
  <2> QED BY <1>1, <2>1, <2>2
<1> QED BY <1>1, <1>7 DEF LastOf

\* It decides.
LEMMA LastDecides ==
    ASSUME NEW rules \in Seq(SBRules), NEW op, NEW target, NEW i,
           LastOf(rules, op, target, i)
    PROVE  Says(rules, op, target) = IF rules[i].allow THEN "yes" ELSE "no"
<1> DEFINE hits == {k \in DOMAIN rules : Matches(rules[k], op, target)}
           m == CHOOSE k \in hits : \A j \in hits : j <= k
<1>1. i \in hits /\ \A j \in hits : j <= i
  BY DEF LastOf
<1>2. m \in hits /\ \A j \in hits : j <= m
  BY <1>1
<1>3. m \in Int /\ i \in Int
  BY <1>1, <1>2
<1>4. m = i
  <2> HIDE DEF m
  <2> QED BY <1>1, <1>2, <1>3
<1>5. Permits(rules, op, target) <=> hits # {} /\ rules[m].allow
  BY DEF Permits
<1>6. About(rules, op, target)
  BY <1>1 DEF About
<1> HIDE DEF hits, m
<1> QED BY <1>1, <1>4, <1>5, <1>6 DEF Says

\* What it is to decide.
LEMMA VerdictIs ==
    ASSUME NEW rules, NEW op, NEW target
    PROVE  /\ Says(rules, op, target) \in {"none", "yes", "no"}
           /\ Says(rules, op, target) = "none" <=> ~About(rules, op, target)
BY DEF Says

\* Permitted is what the verdict says yes of.
LEMMA PermitsIs ==
    ASSUME NEW rules, NEW op, NEW target
    PROVE  Permits(rules, op, target) <=> Says(rules, op, target) = "yes"
<1>1. Permits(rules, op, target) => About(rules, op, target)
  BY DEF Permits, About
<1> QED BY <1>1 DEF Says

\* Of two lists the second decides, if it says anything.
LEMMA VerdictJoined ==
    ASSUME NEW a \in Seq(SBRules), NEW b \in Seq(SBRules), NEW op, NEW target
    PROVE  Says(a \o b, op, target)
             = Over(Says(a, op, target), Says(b, op, target))
<1> DEFINE c == a \o b
           m == Len(a)
           n == Len(b)
<1>1. /\ c \in Seq(SBRules) /\ m \in Nat /\ n \in Nat
      /\ DOMAIN a = 1..m /\ DOMAIN b = 1..n /\ DOMAIN c = 1..(m + n)
      /\ \A i \in 1..m : c[i] = a[i]
      /\ \A i \in 1..n : c[m + i] = b[i]
  BY ConcatProperties
<1>2. \A k \in 1..(m + n) : k \in 1..m \/ (k - m \in 1..n /\ k = m + (k - m))
  BY <1>1
<1>3. \A i \in 1..m : i \in 1..(m + n)
  BY <1>1
<1>4. \A i \in 1..n : m + i \in 1..(m + n)
  BY <1>1
<1> HIDE DEF c, m, n
<1>8. ASSUME NEW k \in DOMAIN c, Matches(c[k], op, target)
      PROVE  \/ k \in DOMAIN a /\ Matches(a[k], op, target)
             \/ k - m \in DOMAIN b /\ Matches(b[k - m], op, target)
  <2>1. CASE k \in 1..m
    BY <1>1, <1>8, <2>1
  <2>2. CASE k - m \in 1..n /\ k = m + (k - m)
    <3>1. c[k] = b[k - m]
      BY <1>1, <2>2
    <3> QED BY <1>1, <1>8, <2>2, <3>1
  <2> QED BY <1>1, <1>2, <2>1, <2>2
<1>9. (\A k \in DOMAIN a : k \in 1..m) /\ \A k \in DOMAIN c : k \in Int
  BY <1>1
<1>5. CASE About(b, op, target)
  <2>1. PICK i \in DOMAIN b : LastOf(b, op, target, i)
    BY <1>5, LastExists
  <2>2. ASSUME NEW k \in DOMAIN c, Matches(c[k], op, target)
        PROVE  k <= m + i
    <3>1. CASE k \in DOMAIN a
      BY <1>1, <2>1, <3>1
    <3>2. CASE k - m \in DOMAIN b /\ Matches(b[k - m], op, target)
      <4>1. k - m <= i
        BY <2>1, <3>2 DEF LastOf
      <4> QED BY <1>1, <1>9, <2>1, <4>1
    <3> QED BY <1>8, <2>2, <3>1, <3>2
  <2>3. LastOf(c, op, target, m + i) /\ c[m + i] = b[i]
    BY <1>1, <1>4, <2>1, <2>2 DEF LastOf
  <2>4. Says(c, op, target) = Says(b, op, target)
    <3>1. Says(c, op, target) = IF c[m + i].allow THEN "yes" ELSE "no"
      BY <1>1, <2>3, LastDecides
    <3>2. Says(b, op, target) = IF b[i].allow THEN "yes" ELSE "no"
      BY <1>1, <2>1, LastDecides
    <3> QED BY <2>3, <3>1, <3>2
  <2>5. Says(b, op, target) # "none"
    BY <1>5, VerdictIs
  <2> QED BY <2>4, <2>5 DEF Over, c
<1>6. CASE ~About(b, op, target) /\ About(a, op, target)
  <2>1. PICK i \in DOMAIN a : LastOf(a, op, target, i)
    BY <1>6, LastExists
  <2>2. ASSUME NEW k \in DOMAIN c, Matches(c[k], op, target)
        PROVE  k <= i
    BY <1>6, <1>8, <2>1, <2>2 DEF About, LastOf
  <2>3. LastOf(c, op, target, i) /\ c[i] = a[i]
    BY <1>1, <1>3, <2>1, <2>2 DEF LastOf
  <2>4. Says(c, op, target) = Says(a, op, target)
    BY <1>1, <2>1, <2>3, LastDecides
  <2>5. Says(b, op, target) = "none"
    BY <1>6, VerdictIs
  <2> QED BY <2>4, <2>5 DEF Over, c
<1>7. CASE ~About(b, op, target) /\ ~About(a, op, target)
  <2>1. ~About(c, op, target)
    BY <1>7, <1>8 DEF About
  <2>2. Says(c, op, target) = "none" /\ Says(b, op, target) = "none"
        /\ Says(a, op, target) = "none"
    BY <1>7, <2>1, VerdictIs
  <2> QED BY <2>2 DEF Over, c
<1> QED BY <1>5, <1>6, <1>7

\* A list whose rules all allow does not say no, and the other way round.
LEMMA OneSided ==
    ASSUME NEW rules \in Seq(SBRules), NEW op, NEW target
    PROVE  /\ (\A i \in DOMAIN rules : rules[i].allow)
                  => Says(rules, op, target) # "no"
           /\ (\A i \in DOMAIN rules : ~rules[i].allow)
                  => Says(rules, op, target) # "yes"
<1>1. CASE About(rules, op, target)
  <2>1. PICK i \in DOMAIN rules : LastOf(rules, op, target, i)
    BY <1>1, LastExists
  <2>2. Says(rules, op, target) = IF rules[i].allow THEN "yes" ELSE "no"
    BY <2>1, LastDecides
  <2> QED BY <2>2
<1>2. CASE ~About(rules, op, target)
  BY <1>2, VerdictIs
<1> QED BY <1>1, <1>2

\* A list of one.
LEMMA VerdictOfOne ==
    ASSUME NEW rule \in SBRules, NEW op, NEW target
    PROVE  /\ Says(<<rule>>, op, target)
                = IF ~Matches(rule, op, target) THEN "none"
                  ELSE IF rule.allow THEN "yes" ELSE "no"
<1> DEFINE r == <<rule>>
<1>1. r \in Seq(SBRules) /\ DOMAIN r = {1} /\ r[1] = rule
  OBVIOUS
<1> HIDE DEF r
<1>2. CASE Matches(rule, op, target)
  <2>1. LastOf(r, op, target, 1)
    BY <1>1, <1>2 DEF LastOf
  <2> QED BY <1>1, <1>2, <2>1, LastDecides DEF r
<1>3. CASE ~Matches(rule, op, target)
  <2>1. ~About(r, op, target)
    BY <1>1, <1>3 DEF About
  <2> QED BY <1>3, <2>1, VerdictIs DEF r
<1> QED BY <1>2, <1>3

-----------------------------------------------------------------------------
(***************************************************************************)
(* CageProfile: what each form of rule matches.                            *)
(***************************************************************************)

\* Rules that allow, and rules that deny.
LEMMA AllowsOnly ==
    ASSUME NEW rules \in Seq(SBRules), NEW op, NEW target,
           \A i \in DOMAIN rules : rules[i].allow
    PROVE  Says(rules, op, target) = IF About(rules, op, target) THEN "yes" ELSE "none"
BY OneSided, VerdictIs

LEMMA Denies ==
    ASSUME NEW rules \in Seq(SBRules), NEW op, NEW target,
           \A i \in DOMAIN rules : ~rules[i].allow
    PROVE  Says(rules, op, target) = IF About(rules, op, target) THEN "no" ELSE "none"
BY OneSided, VerdictIs

\* The rules the fragments are made of are rules.
LEMMA RulesTyped ==
    /\ \A op \in Operations : AllowAny(op) \in SBRules /\ DenyAny(op) \in SBRules
    /\ \A ops \in SUBSET Operations, path \in Paths :
          /\ AllowLiteral(ops, path) \in SBRules /\ DenyLiteral(ops, path) \in SBRules
          /\ AllowBelow(ops, path) \in SBRules
    /\ \A p \in Int : allowRule(p) \in SBRules
<1>1. \A path \in Paths : File(path) \in Endpoints
  BY DEF File, Endpoints, Texts
<1>2. File(<<>>) \in Endpoints
  <2>1. <<>> \in Paths
    BY DEF Paths
  <2> QED BY <1>1, <2>1
<1>3. \A p \in Int : Port("localhost", p) \in Endpoints
  BY <1>2 DEF Port, File, Endpoints, Texts, Paths
<1>4. Network \in Operations
  BY DEF Operations
<1> QED
  BY <1>1, <1>2, <1>3, <1>4
     DEF AllowAny, DenyAny, AllowLiteral, DenyLiteral, AllowBelow, allowRule, Rule, SBRules

\* What each form of rule matches.
LEMMA AnyMatches ==
    ASSUME NEW on, NEW op, NEW target
    PROVE  /\ Matches(AllowAny(on), op, target) <=> op = on
           /\ Matches(DenyAny(on), op, target) <=> op = on
           /\ AllowAny(on).allow /\ ~DenyAny(on).allow
BY DEF Matches, AllowAny, DenyAny, Rule

LEMMA LiteralMatches ==
    ASSUME NEW ops, NEW path, NEW op, NEW target
    PROVE  /\ Matches(AllowLiteral(ops, path), op, target) <=> op \in ops /\ target = File(path)
           /\ Matches(DenyLiteral(ops, path), op, target) <=> op \in ops /\ target = File(path)
           /\ AllowLiteral(ops, path).allow /\ ~DenyLiteral(ops, path).allow
BY DEF Matches, AllowLiteral, DenyLiteral, Rule

LEMMA BelowMatches ==
    ASSUME NEW ops, NEW path, NEW op, NEW target
    PROVE  /\ Matches(AllowBelow(ops, path), op, target)
                <=> op \in ops /\ target.path # <<>> /\ Below(path, target.path)
           /\ AllowBelow(ops, path).allow
BY DEF Matches, AllowBelow, Rule, File

LEMMA PortMatches ==
    ASSUME NEW p, NEW op, NEW target
    PROVE  /\ Matches(allowRule(p), op, target)
                <=> op = Network /\ target = Port("localhost", p)
           /\ allowRule(p).allow
BY DEF Matches, allowRule, Rule

MountRules(ops, dirs) == [i \in DOMAIN dirs |-> AllowBelow(ops, EvalSymlinks(dirs[i]))]

\* One path below another, name by name.
LEMMA BelowIs ==
    ASSUME NEW dir \in Paths, NEW path \in Paths
    PROVE  Below(dir, path) <=> /\ Len(dir) <= Len(path)
                                /\ \A i \in 1..Len(dir) : path[i] = dir[i]
<1> DEFINE m == Len(dir)
           sub == SubSeq(path, 1, m)
<1>1. m \in Nat /\ Len(path) \in Nat
  BY DEF Paths
<1>2. CASE m <= Len(path)
  <2>1. \A i \in 1..m : path[i] \in Texts
    BY <1>1, <1>2 DEF Paths
  <2>2. sub \in Seq(Texts) /\ Len(sub) = m /\ \A i \in 1..m : sub[i] = path[i]
    <3>1. /\ sub \in Seq(Texts) /\ Len(sub) = IF 1 <= m THEN m - 1 + 1 ELSE 0
          /\ \A i \in 1..(m - 1 + 1) : sub[i] = path[1 + i - 1]
      <4> HIDE DEF m
      <4> QED BY <1>1, <2>1, SubSeqProperties
    <3> HIDE DEF sub, m
    <3> QED BY <1>1, <3>1
  <2>3. (\A i \in 1..m : sub[i] = dir[i]) <=> sub = dir
    <3>1. ASSUME \A i \in 1..m : sub[i] = dir[i] PROVE sub = dir
      <4> HIDE DEF sub
      <4> QED BY <2>2, <3>1, SeqEqual DEF Paths
    <3> QED BY <3>1
  <2> QED BY <1>2, <2>2, <2>3 DEF Below
<1>3. CASE ~(m <= Len(path))
  BY <1>3 DEF Below
<1> QED BY <1>2, <1>3

\* Paths joined, and a path with one name more.
LEMMA Grown ==
    ASSUME NEW p \in Paths, NEW s \in Paths
    PROVE  /\ p \o s \in Paths /\ Len(p \o s) = Len(p) + Len(s)
           /\ \A i \in 1..Len(p) : (p \o s)[i] = p[i]
           /\ \A i \in 1..Len(s) : (p \o s)[Len(p) + i] = s[i]
           /\ Below(p, p \o s)
<1>1. /\ p \o s \in Paths /\ Len(p \o s) = Len(p) + Len(s)
      /\ Len(p) \in Nat /\ Len(s) \in Nat
      /\ \A i \in 1..Len(p) : (p \o s)[i] = p[i]
      /\ \A i \in 1..Len(s) : (p \o s)[Len(p) + i] = s[i]
  BY DEF Paths
<1>2. Below(p, p \o s)
  <2> DEFINE u == p \o s
  <2>1. u \in Paths /\ Len(p) <= Len(u) /\ \A i \in 1..Len(p) : u[i] = p[i]
    BY <1>1
  <2> HIDE DEF u
  <2>2. Below(p, u)
    BY <2>1, BelowIs
  <2> QED BY <2>2 DEF u
<1> QED BY <1>1, <1>2

LEMMA GrownByOne ==
    ASSUME NEW p \in Paths, NEW x \in Texts
    PROVE  /\ Append(p, x) = p \o <<x>>
           /\ Append(p, x) \in Paths /\ Len(Append(p, x)) = Len(p) + 1
           /\ \A i \in 1..Len(p) : Append(p, x)[i] = p[i]
           /\ Append(p, x)[Len(p) + 1] = x
           /\ Below(p, Append(p, x))
<1>1. /\ <<x>> \in Paths
      /\ Append(p, x) \in Paths /\ Len(Append(p, x)) = Len(p) + 1
      /\ \A i \in 1..Len(p) : Append(p, x)[i] = p[i]
      /\ Append(p, x)[Len(p) + 1] = x
  BY DEF Paths
<1>2. Append(p, x) = p \o <<x>>
  BY DEF Paths
<1> QED BY <1>1, <1>2, Grown

\* The names of a host are names.
LEMMA PlacesTyped ==
    /\ Seq(STRING) \subseteq Paths
    /\ {Home, RealHome, Project, Root} \subseteq Paths
<1>1. Seq(STRING) \subseteq Paths
  <2> SUFFICES ASSUME NEW s \in Seq(STRING) PROVE s \in Paths
    OBVIOUS
  <2>1. STRING \subseteq Texts
    BY DEF Texts
  <2>2. s \in Seq(Texts)
    BY <2>1, SeqMonotonic, Zenon
  <2> QED BY <2>2 DEF Paths
<1>2. {Home, RealHome, Project, Root} \subseteq Seq(STRING)
  BY PathsAssumption
<1> QED BY <1>1, <1>2, Zenon

\* What is below the home is found below the real one.
LEMMA EvalIs ==
    /\ \A path \in Paths : EvalSymlinks(path) \in Paths
    /\ \A s \in Paths : EvalSymlinks(Home \o s) = RealHome \o s
    /\ EvalSymlinks(Home) = RealHome
<1>0. Home \in Paths /\ RealHome \in Paths /\ Len(Home) \in Nat
  BY PlacesTyped DEF Paths
<1>1. ASSUME NEW path \in Paths PROVE EvalSymlinks(path) \in Paths
  <2>1. SubSeq(path, Len(Home) + 1, Len(path)) \in Paths
    <3>1. \A i \in (Len(Home) + 1)..Len(path) : path[i] \in Texts
      BY <1>0 DEF Paths
    <3> QED BY <1>0, <3>1, SubSeqProperties DEF Paths
  <2> QED BY <1>0, <2>1, Grown DEF EvalSymlinks
<1>2. ASSUME NEW s \in Paths PROVE EvalSymlinks(Home \o s) = RealHome \o s
  <2> DEFINE u == Home \o s
             t == SubSeq(u, Len(Home) + 1, Len(u))
  <2>1. Below(Home, u) /\ u \in Paths /\ Len(u) = Len(Home) + Len(s)
    BY <1>0, Grown
  <2>2. Len(s) \in Nat /\ \A i \in (Len(Home) + 1)..Len(u) : u[i] \in Texts
    BY <1>0, <2>1 DEF Paths
  <2> HIDE DEF u
  <2>3. /\ t \in Seq(Texts)
        /\ Len(t) = IF Len(Home) + 1 <= Len(u) THEN Len(u) - (Len(Home) + 1) + 1 ELSE 0
        /\ \A i \in 1..(Len(u) - (Len(Home) + 1) + 1) : t[i] = u[Len(Home) + 1 + i - 1]
    <3>1. Len(Home) + 1 \in Int /\ Len(u) \in Int
      BY <1>0, <2>1, <2>2
    <3> QED BY <2>2, <3>1, SubSeqProperties
  <2>4. Len(t) = Len(s) /\ \A i \in 1..Len(s) : t[i] = u[Len(Home) + i]
    <3> HIDE DEF t
    <3> QED BY <1>0, <2>1, <2>2, <2>3, SMTT(30)
  <2>5. \A i \in 1..Len(s) : t[i] = s[i]
    <3> HIDE DEF t
    <3>1. \A i \in 1..Len(s) : u[Len(Home) + i] = s[i]
      BY <1>0, Grown DEF u
    <3> QED BY <2>4, <3>1
  <2>6. t = s
    <3> HIDE DEF t
    <3> QED BY <2>3, <2>4, <2>5, SeqEqual DEF Paths
  <2>7. EvalSymlinks(u) = RealHome \o t
    BY <2>1 DEF EvalSymlinks
  <2> QED BY <2>6, <2>7 DEF u
<1>3. EvalSymlinks(Home) = RealHome
  <2>1. Home \o <<>> = Home /\ RealHome \o <<>> = RealHome /\ <<>> \in Paths
    BY <1>0 DEF Paths
  <2> QED BY <1>2, <2>1
<1> QED BY <1>1, <1>2, <1>3

-----------------------------------------------------------------------------
(***************************************************************************)
(* CageProfile: what each part of a profile says.                          *)
(***************************************************************************)

LEMMA MountSays ==
    ASSUME NEW ops \in SUBSET Operations, NEW dirs \in Seq(Paths), NEW op, NEW target
    PROVE  /\ MountRules(ops, dirs) \in Seq(SBRules)
           /\ Says(MountRules(ops, dirs), op, target)
                = IF /\ op \in ops /\ target.path # <<>>
                     /\ \E dir \in Elements(dirs) : Below(EvalSymlinks(dir), target.path)
                  THEN "yes" ELSE "none"
<1> DEFINE r == MountRules(ops, dirs)
           n == Len(dirs)
<1>1. n \in Nat /\ DOMAIN dirs = 1..n /\ \A i \in 1..n : dirs[i] \in Paths
  OBVIOUS
<1>2. \A i \in 1..n : AllowBelow(ops, EvalSymlinks(dirs[i])) \in SBRules
  <2> HIDE DEF n
  <2> QED BY <1>1, EvalIs, RulesTyped
<1>3. r = [i \in 1..n |-> AllowBelow(ops, EvalSymlinks(dirs[i]))]
  BY <1>1 DEF MountRules
<1> HIDE DEF r, n
<1>4. r \in Seq(SBRules) /\ DOMAIN r = 1..n
      /\ \A i \in 1..n : r[i] = AllowBelow(ops, EvalSymlinks(dirs[i]))
  BY <1>1, <1>2, <1>3
<1>5. Says(r, op, target) = IF About(r, op, target) THEN "yes" ELSE "none"
  <2>1. \A i \in DOMAIN r : r[i].allow
    BY <1>4, BelowMatches
  <2> QED BY <1>4, <2>1, AllowsOnly
<1>6. \A i \in 1..n : Matches(r[i], op, target)
          <=> op \in ops /\ target.path # <<>> /\ Below(EvalSymlinks(dirs[i]), target.path)
  BY <1>4, BelowMatches
<1>7. About(r, op, target)
        <=> /\ op \in ops /\ target.path # <<>>
            /\ \E dir \in Elements(dirs) : Below(EvalSymlinks(dir), target.path)
  BY <1>1, <1>4, <1>6 DEF About, Elements
<1> QED BY <1>4, <1>5, <1>7 DEF r

\* The services of a config.
ServiceEntries == [label : STRING, port : Int]
Services == Seq(ServiceEntries)

LEMMA ServicesTyped ==
    ASSUME NEW services \in Services
    PROVE  /\ Len(services) \in Nat /\ DOMAIN services = 1..Len(services)
           /\ \A i \in 1..Len(services) : services[i].port \in Int
<1>1. /\ Len(services) \in Nat /\ DOMAIN services = 1..Len(services)
      /\ \A i \in 1..Len(services) : services[i] \in ServiceEntries
  BY DEF Services
<1>2. \A s \in ServiceEntries : s.port \in Int
  BY DEF ServiceEntries
<1> QED BY <1>1, <1>2

\* Dropping a port that was there before loses no port.
LEMMA ServicesOnce ==
    ASSUME NEW services \in Services
    PROVE  LET ports == dedupeByPort(services)
           IN /\ ports \in Services
              /\ {s.port : s \in Elements(ports)} = {s.port : s \in Elements(services)}
<1> DEFINE keys == [i \in DOMAIN services |-> services[i].port]
           once == DedupeBy(services, keys)
           E == Elements(services)
<1>1. /\ Len(services) \in Nat /\ DOMAIN services = 1..Len(services)
      /\ \A i \in 1..Len(services) : keys[i] = services[i].port
  BY ServicesTyped
<1>2. services \in Seq(E)
  BY <1>1 DEF Elements, Services
<1>3. once \in Seq(E)
  <2> HIDE DEF keys, E
  <2> QED BY <1>2, DedupeType
<1>4. once \in Services
  <2> HIDE DEF keys
  <2> QED BY DedupeType DEF Services
<1>5. Elements(once) \subseteq E
  <2> HIDE DEF once, E
  <2> QED BY <1>3 DEF Elements
<1>6. ASSUME NEW i \in 1..Len(services)
      PROVE  \E s \in Elements(once) : s.port = services[i].port
  <2>1. PICK k \in 1..i : keys[k] = keys[i] /\ services[k] \in Elements(once)
    <3> HIDE DEF keys, E
    <3> QED BY <1>2, DedupeKeeps
  <2>2. k \in 1..Len(services)
    BY <1>1
  <2> QED BY <1>1, <2>1, <2>2
<1>7. {s.port : s \in Elements(once)} = {s.port : s \in Elements(services)}
  <2> HIDE DEF once, keys
  <2>1. \A s \in Elements(services) : \E i \in 1..Len(services) : s = services[i]
    BY <1>1 DEF Elements
  <2> QED BY <1>5, <1>6, <2>1
<1>8. dedupeByPort(services) = once
  BY DEF dedupeByPort
<1> QED BY <1>4, <1>7, <1>8

LEMMA NetworkSays ==
    ASSUME NEW services \in Services, NEW op, NEW target
    PROVE  /\ RenderNetworkSB(services) \in Seq(SBRules)
           /\ Says(RenderNetworkSB(services), op, target)
                = IF op # Network THEN "none"
                  ELSE IF \E s \in Elements(services) : target = Port("localhost", s.port)
                  THEN "yes" ELSE "no"
<1> DEFINE ports == dedupeByPort(services)
           d == <<DenyAny(Network)>>
           r == [i \in DOMAIN ports |-> allowRule(ports[i].port)]
           n == Len(ports)
<1>1. /\ ports \in Services
      /\ {s.port : s \in Elements(ports)} = {s.port : s \in Elements(services)}
  BY ServicesOnce
<1>2. RenderNetworkSB(services) = d \o r
  BY DEF RenderNetworkSB
<1> HIDE DEF ports
<1>3. /\ n \in Nat /\ DOMAIN ports = 1..n
      /\ \A i \in 1..n : ports[i].port \in Int
  BY <1>1, ServicesTyped
<1>4. \A i \in 1..n : allowRule(ports[i].port) \in SBRules
  <2> HIDE DEF n
  <2> QED BY <1>3, RulesTyped
<1>5. r \in Seq(SBRules) /\ DOMAIN r = 1..n
      /\ \A i \in 1..n : r[i] = allowRule(ports[i].port)
  <2> HIDE DEF n
  <2> QED BY <1>3, <1>4
<1>6. DenyAny(Network) \in SBRules
  BY RulesTyped DEF Operations
<1>7. d \in Seq(SBRules)
  <2> DEFINE x == DenyAny(Network)
  <2> HIDE DEF x
  <2> QED BY <1>6 DEF x
<1>8. Says(d, op, target) = IF op = Network THEN "no" ELSE "none"
  BY <1>6, VerdictOfOne, AnyMatches
<1> HIDE DEF r, n, d
<1>9. Says(r, op, target) = IF About(r, op, target) THEN "yes" ELSE "none"
  <2>1. \A i \in DOMAIN r : r[i].allow
    BY <1>5, PortMatches
  <2> QED BY <1>5, <2>1, AllowsOnly
<1>10. \A i \in 1..n : Matches(r[i], op, target)
           <=> op = Network /\ target = Port("localhost", ports[i].port)
  BY <1>5, PortMatches
<1>11. About(r, op, target)
         <=> op = Network /\ \E p \in {s.port : s \in Elements(ports)} :
                                target = Port("localhost", p)
  BY <1>3, <1>5, <1>10 DEF About, Elements
<1>12. About(r, op, target)
         <=> op = Network /\ \E s \in Elements(services) : target = Port("localhost", s.port)
  BY <1>1, <1>11
<1>13. Says(d \o r, op, target)
         = Over(Says(d, op, target), Says(r, op, target))
  BY <1>5, <1>7, VerdictJoined
<1>14. d \o r \in Seq(SBRules)
  BY <1>5, <1>7, ConcatProperties
<1> QED BY <1>2, <1>8, <1>9, <1>12, <1>13, <1>14 DEF Over

LEMMA ProxySays ==
    ASSUME NEW q \in Int, NEW op, NEW target
    PROVE  /\ <<allowRule(q)>> \in Seq(SBRules)
           /\ Says(<<allowRule(q)>>, op, target)
                = IF op = Network /\ target = Port("localhost", q) THEN "yes" ELSE "none"
<1> DEFINE x == allowRule(q)
<1>1. x \in SBRules
  BY RulesTyped
<1>2. Matches(x, op, target) <=> op = Network /\ target = Port("localhost", q)
  BY PortMatches
<1>3. x.allow
  BY PortMatches
<1> HIDE DEF x
<1>4. <<x>> \in Seq(SBRules)
  BY <1>1
<1>5. Says(<<x>>, op, target) = IF Matches(x, op, target) THEN "yes" ELSE "none"
  BY <1>1, <1>3, VerdictOfOne
<1> QED BY <1>2, <1>4, <1>5 DEF x

\* The last rule says the same as one that is put after the others.
LEMMA ManySay ==
    ASSUME NEW rules \in Seq(SBRules), NEW n \in Nat, DOMAIN rules = 1..n,
           \A i \in 1..n : rules[i].allow, NEW op, NEW target
    PROVE  Says(rules, op, target)
             = IF \E i \in 1..n : Matches(rules[i], op, target) THEN "yes" ELSE "none"
BY AllowsOnly DEF About

LEMMA CASays ==
    ASSUME NEW path \in Paths, path # <<>>, NEW op, NEW target
    PROVE  /\ RenderCAReadFragment(path) # Nil
           /\ RenderCAReadFragment(path)[1] \in Seq(SBRules)
           /\ Says(RenderCAReadFragment(path)[1], op, target)
                = IF \/ op = Stat /\ target = File(AllButLast(path))
                     \/ op \in {Read, Stat} /\ target = File(path)
                  THEN "yes" ELSE "none"
<1> DEFINE a == AllowLiteral({Stat}, AllButLast(path))
           b == AllowLiteral({Read, Stat}, path)
           r == <<a, b>>
<1>1. AllButLast(path) \in Paths
  <2>1. Len(path) \in Nat /\ \A i \in 1..(Len(path) - 1) : path[i] \in Texts
    BY DEF Paths
  <2>2. Len(path) - 1 \in Int
    BY <2>1
  <2> QED BY <2>1, <2>2, SubSeqProperties DEF AllButLast, Paths
<1>2. a \in SBRules /\ b \in SBRules
  BY <1>1, RulesTyped DEF Operations
<1>3. /\ a.allow /\ b.allow
      /\ Matches(a, op, target) <=> op \in {Stat} /\ target = File(AllButLast(path))
      /\ Matches(b, op, target) <=> op \in {Read, Stat} /\ target = File(path)
  BY LiteralMatches
<1>4. RenderCAReadFragment(path) = Some(r)
  BY DEF RenderCAReadFragment
<1>5. Some(r) # Nil /\ Some(r)[1] = r
  BY DEF Some, Nil
<1> HIDE DEF a, b
<1>6. r \in Seq(SBRules) /\ DOMAIN r = 1..2 /\ r[1] = a /\ r[2] = b
  BY <1>2
<1> HIDE DEF r
<1>7. \A i \in 1..2 : i = 1 \/ i = 2
  OBVIOUS
<1>8. \A i \in 1..2 : r[i].allow
  BY <1>3, <1>6, <1>7
<1>9. Says(r, op, target) = IF \E i \in 1..2 : Matches(r[i], op, target) THEN "yes" ELSE "none"
  BY <1>6, <1>8, ManySay
<1>10. (\E i \in 1..2 : Matches(r[i], op, target)) <=> Matches(a, op, target) \/ Matches(b, op, target)
  BY <1>6, <1>7
<1> QED BY <1>3, <1>4, <1>5, <1>6, <1>9, <1>10

KeychainDir(home) == home \o <<"Library", "Keychains">>

\* The keychain is reached, and so are its locks.
LEMMA KeychainSays ==
    ASSUME NEW home \in Paths, home # <<>>, NEW op, NEW target
    PROVE  /\ RenderKeychainFragment(home) # Nil
           /\ RenderKeychainFragment(home)[1] \in Seq(SBRules)
           /\ Says(RenderKeychainFragment(home)[1], op, target)
                = IF \/ op = Lookup
                     \/ /\ op \in {Read, Stat, Write} /\ target.path # <<>>
                        /\ \/ Below(Append(KeychainDir(home), "login.keychain-db"), target.path)
                           \/ Below(Append(KeychainDir(home), ".fl"), target.path)
                  THEN "yes" ELSE "none"
<1> DEFINE rw == {Read, Stat, Write}
           db == Append(KeychainDir(home), "login.keychain-db")
           fl == Append(KeychainDir(home), ".fl")
           a == AllowAny(Lookup)
           b == AllowBelow(rw, db)
           c == AllowBelow(rw, fl)
           r == <<a, b, c>>
<1>1. db \in Paths /\ fl \in Paths
  <2>1. <<"Library", "Keychains">> \in Paths
    <3>1. "Library" \in Texts /\ "Keychains" \in Texts
      BY DEF Texts
    <3> QED BY <3>1 DEF Paths
  <2>2. KeychainDir(home) \in Paths
    BY <2>1, Grown DEF KeychainDir
  <2>3. "login.keychain-db" \in Texts /\ ".fl" \in Texts
    BY DEF Texts
  <2> QED BY <2>2, <2>3, GrownByOne
<1>2. RenderKeychainFragment(home) = Some(r)
  BY DEF RenderKeychainFragment, validateHome, KeychainDir
<1> HIDE DEF db, fl
<1>3. a \in SBRules /\ b \in SBRules /\ c \in SBRules
  BY <1>1, RulesTyped DEF Operations
<1>4. /\ a.allow /\ (Matches(a, op, target) <=> op = Lookup)
      /\ b.allow /\ (Matches(b, op, target)
            <=> op \in rw /\ target.path # <<>> /\ Below(db, target.path))
      /\ c.allow /\ (Matches(c, op, target)
            <=> op \in rw /\ target.path # <<>> /\ Below(fl, target.path))
  <2>1. a.allow /\ (Matches(a, op, target) <=> op = Lookup)
    BY AnyMatches
  <2>2. b.allow /\ (Matches(b, op, target)
            <=> op \in rw /\ target.path # <<>> /\ Below(db, target.path))
    BY BelowMatches
  <2>3. c.allow /\ (Matches(c, op, target)
            <=> op \in rw /\ target.path # <<>> /\ Below(fl, target.path))
    BY BelowMatches
  <2> HIDE DEF a, b, c, rw
  <2> QED BY <2>1, <2>2, <2>3
<1>5. Some(r) # Nil /\ Some(r)[1] = r
  BY DEF Some, Nil
<1> HIDE DEF a, b, c
<1>6. r \in Seq(SBRules) /\ DOMAIN r = 1..3 /\ r[1] = a /\ r[2] = b /\ r[3] = c
  BY <1>3
<1> HIDE DEF r
<1>7. \A i \in 1..3 : i = 1 \/ i = 2 \/ i = 3
  OBVIOUS
<1>8. \A i \in 1..3 : r[i].allow
  BY <1>4, <1>6, <1>7
<1>9. Says(r, op, target) = IF \E i \in 1..3 : Matches(r[i], op, target) THEN "yes" ELSE "none"
  BY <1>6, <1>8, ManySay
<1>10. (\E i \in 1..3 : Matches(r[i], op, target))
          <=> Matches(a, op, target) \/ Matches(b, op, target) \/ Matches(c, op, target)
  BY <1>6, <1>7
<1>11. Says(r, op, target)
         = IF Matches(a, op, target) \/ Matches(b, op, target) \/ Matches(c, op, target)
           THEN "yes" ELSE "none"
  BY <1>9, <1>10
<1> HIDE DEF rw
<1>12. (Matches(a, op, target) \/ Matches(b, op, target) \/ Matches(c, op, target))
         <=> \/ op = Lookup
             \/ /\ op \in rw /\ target.path # <<>>
                /\ Below(db, target.path) \/ Below(fl, target.path)
  BY <1>4
<1> QED BY <1>2, <1>5, <1>6, <1>11, <1>12 DEF db, fl, rw

\* The account's state is reached.
LEMMA ClaudeSays ==
    ASSUME NEW home \in Paths, home # <<>>, NEW op, NEW target
    PROVE  /\ RenderClaudeStateFragment(home) # Nil
           /\ RenderClaudeStateFragment(home)[1] \in Seq(SBRules)
           /\ Says(RenderClaudeStateFragment(home)[1], op, target)
                = IF \/ op = Stat /\ target = File(home)
                     \/ /\ op \in {Read, Stat, Write} /\ target.path # <<>>
                        /\ Below(Append(home, ".claude.json"), target.path)
                  THEN "yes" ELSE "none"
<1> DEFINE rw == {Read, Stat, Write}
           json == Append(home, ".claude.json")
           a == AllowLiteral({Stat}, home)
           b == AllowBelow(rw, json)
           r == <<a, b>>
<1>1. json \in Paths
  <2>1. ".claude.json" \in Texts
    BY DEF Texts
  <2> QED BY <2>1, GrownByOne
<1>2. RenderClaudeStateFragment(home) = Some(r)
  BY DEF RenderClaudeStateFragment, validateHome
<1> HIDE DEF json
<1>3. a \in SBRules /\ b \in SBRules
  BY <1>1, RulesTyped DEF Operations
<1>4. /\ a.allow /\ (Matches(a, op, target) <=> op \in {Stat} /\ target = File(home))
  BY LiteralMatches
<1>5. /\ b.allow /\ (Matches(b, op, target)
            <=> op \in rw /\ target.path # <<>> /\ Below(json, target.path))
  BY BelowMatches
<1>6. Some(r) # Nil /\ Some(r)[1] = r
  BY DEF Some, Nil
<1> HIDE DEF a, b
<1>7. r \in Seq(SBRules) /\ DOMAIN r = 1..2 /\ r[1] = a /\ r[2] = b
  BY <1>3
<1> HIDE DEF r
<1>8. \A i \in 1..2 : i = 1 \/ i = 2
  OBVIOUS
<1>9. \A i \in 1..2 : r[i].allow
  BY <1>4, <1>5, <1>7, <1>8
<1>10. Says(r, op, target) = IF \E i \in 1..2 : Matches(r[i], op, target) THEN "yes" ELSE "none"
  BY <1>7, <1>9, ManySay
<1>11. (\E i \in 1..2 : Matches(r[i], op, target)) <=> Matches(a, op, target) \/ Matches(b, op, target)
  BY <1>7, <1>8
<1> HIDE DEF rw
<1>12. Says(r, op, target)
         = IF Matches(a, op, target) \/ Matches(b, op, target) THEN "yes" ELSE "none"
  BY <1>10, <1>11
<1> QED BY <1>2, <1>4, <1>5, <1>6, <1>7, <1>12 DEF json, rw

\* No file of the config is written.
LEMMA ConfigSays ==
    ASSUME NEW paths \in Seq(Paths), NEW op, NEW target
    PROVE  /\ RenderConfigReadOnlyFragment(paths) # Nil
           /\ RenderConfigReadOnlyFragment(paths)[1] \in Seq(SBRules)
           /\ Says(RenderConfigReadOnlyFragment(paths)[1], op, target)
                = IF op = Write /\ \E f \in Elements(paths) : target = File(f)
                  THEN "no" ELSE "none"
<1> DEFINE once == DedupeBy(paths, paths)
           r == [i \in DOMAIN once |-> DenyLiteral({Write}, once[i])]
           n == Len(once)
<1>1. once \in Seq(Paths) /\ Elements(once) = Elements(paths)
  BY DedupeType, DedupeElements
<1>2. RenderConfigReadOnlyFragment(paths) = Some(r)
  BY DEF RenderConfigReadOnlyFragment
<1>3. Some(r) # Nil /\ Some(r)[1] = r
  BY DEF Some, Nil
<1> HIDE DEF once
<1>4. n \in Nat /\ DOMAIN once = 1..n /\ \A i \in 1..n : once[i] \in Paths
  BY <1>1
<1>5. \A i \in 1..n : DenyLiteral({Write}, once[i]) \in SBRules
  <2> HIDE DEF n
  <2> QED BY <1>4, RulesTyped DEF Operations
<1>6. r \in Seq(SBRules) /\ DOMAIN r = 1..n
      /\ \A i \in 1..n : r[i] = DenyLiteral({Write}, once[i])
  <2>1. r = [i \in 1..n |-> DenyLiteral({Write}, once[i])]
    BY <1>4
  <2> DEFINE rule(path) == DenyLiteral({Write}, path)
  <2> HIDE DEF n, r, rule
  <2>2. r = [i \in 1..n |-> rule(once[i])] /\ \A i \in 1..n : rule(once[i]) \in SBRules
    BY <1>5, <2>1 DEF rule
  <2>3. r \in Seq(SBRules) /\ DOMAIN r = 1..n /\ \A i \in 1..n : r[i] = rule(once[i])
    BY <1>4, <2>2
  <2> QED BY <2>3 DEF rule
<1> HIDE DEF r, n
<1>7. \A i \in DOMAIN r : ~r[i].allow
  <2> TAKE i \in DOMAIN r
  <2>1. r[i] = DenyLiteral({Write}, once[i])
    BY <1>6
  <2>2. ~DenyLiteral({Write}, once[i]).allow
    BY LiteralMatches
  <2> QED BY <2>1, <2>2
<1>8. Says(r, op, target) = IF About(r, op, target) THEN "no" ELSE "none"
  BY <1>6, <1>7, Denies
<1>9. \A i \in 1..n : Matches(r[i], op, target) <=> op \in {Write} /\ target = File(once[i])
  BY <1>6, LiteralMatches
<1>10. About(r, op, target) <=> op = Write /\ \E f \in Elements(once) : target = File(f)
  BY <1>4, <1>6, <1>9 DEF About, Elements
<1> QED BY <1>1, <1>2, <1>3, <1>6, <1>8, <1>10

\* The socket of the broker is not touched.
LEMMA BrokerSays ==
    ASSUME NEW sock \in Paths, sock # <<>>, NEW op, NEW target
    PROVE  /\ RenderBrokerDenyFragment(sock) # Nil
           /\ RenderBrokerDenyFragment(sock)[1] \in Seq(SBRules)
           /\ Says(RenderBrokerDenyFragment(sock)[1], op, target)
                = IF op \in {Network, Read, Stat, Write} /\ target = File(sock)
                  THEN "no" ELSE "none"
<1> DEFINE a == DenyLiteral({Network}, sock)
           b == DenyLiteral({Read, Stat, Write}, sock)
           r == <<a, b>>
<1>1. RenderBrokerDenyFragment(sock) = Some(r)
  BY DEF RenderBrokerDenyFragment
<1>2. a \in SBRules /\ b \in SBRules
  BY RulesTyped DEF Operations
<1>3. ~a.allow /\ (Matches(a, op, target) <=> op \in {Network} /\ target = File(sock))
  BY LiteralMatches
<1>4. ~b.allow /\ (Matches(b, op, target) <=> op \in {Read, Stat, Write} /\ target = File(sock))
  BY LiteralMatches
<1>5. Some(r) # Nil /\ Some(r)[1] = r
  BY DEF Some, Nil
<1> HIDE DEF a, b
<1>6. r \in Seq(SBRules) /\ DOMAIN r = 1..2 /\ r[1] = a /\ r[2] = b
  BY <1>2
<1> HIDE DEF r
<1>7. \A i \in 1..2 : i = 1 \/ i = 2
  OBVIOUS
<1>8. \A i \in DOMAIN r : ~r[i].allow
  BY <1>3, <1>4, <1>6, <1>7
<1>9. Says(r, op, target) = IF About(r, op, target) THEN "no" ELSE "none"
  BY <1>6, <1>8, Denies
<1>10. About(r, op, target) <=> Matches(a, op, target) \/ Matches(b, op, target)
  BY <1>6, <1>7 DEF About
<1> QED BY <1>1, <1>3, <1>4, <1>5, <1>6, <1>9, <1>10

(***************************************************************************)
(* The profile of a cage: its parts in order.                              *)
(***************************************************************************)

FragmentNames == Elements(AppendProfiles)

LEMMA FragmentNamesAre ==
    /\ FragmentNames = {"network", "proxy", "ca", "keychain", "claude", "config-ro", "broker"}
    /\ DOMAIN AppendProfiles = 1..7
    /\ AppendProfiles[1] = "network" /\ AppendProfiles[2] = "proxy"
    /\ AppendProfiles[3] = "ca" /\ AppendProfiles[4] = "keychain"
    /\ AppendProfiles[5] = "claude" /\ AppendProfiles[6] = "config-ro"
    /\ AppendProfiles[7] = "broker"
<1>1. /\ DOMAIN AppendProfiles = 1..7
      /\ AppendProfiles[1] = "network" /\ AppendProfiles[2] = "proxy"
      /\ AppendProfiles[3] = "ca" /\ AppendProfiles[4] = "keychain"
      /\ AppendProfiles[5] = "claude" /\ AppendProfiles[6] = "config-ro"
      /\ AppendProfiles[7] = "broker"
  BY DEF AppendProfiles
<1>2. 1..7 = {1, 2, 3, 4, 5, 6, 7}
  OBVIOUS
<1> QED BY <1>1, <1>2 DEF FragmentNames, Elements

\* Seven sequences joined.
LEMMA ConcatOfSeven ==
    ASSUME NEW s, DOMAIN s = 1..7, s = [i \in 1..7 |-> s[i]],
           \A i \in 1..7 : s[i] \in Seq(SBRules)
    PROVE  Concat(s) = (((((s[1] \o s[2]) \o s[3]) \o s[4]) \o s[5]) \o s[6]) \o s[7]
<1> DEFINE a == s[1]
           b == s[2]
           c == s[3]
           d == s[4]
           e == s[5]
           f == s[6]
           g == s[7]
<1>0. 1 \in 1..7 /\ 2 \in 1..7 /\ 3 \in 1..7 /\ 4 \in 1..7 /\ 5 \in 1..7 /\ 6 \in 1..7 /\ 7 \in 1..7
      /\ 1..7 = {1, 2, 3, 4, 5, 6, 7}
  OBVIOUS
<1>20. s = <<a, b, c, d, e, f, g>>
  <2> DEFINE u == <<a, b, c, d, e, f, g>>
  <2>1. u = [i \in 1..7 |-> u[i]]
    OBVIOUS
  <2>2. /\ u[1] = s[1] /\ u[2] = s[2] /\ u[3] = s[3] /\ u[4] = s[4] /\ u[5] = s[5]
        /\ u[6] = s[6] /\ u[7] = s[7]
    OBVIOUS
  <2> HIDE DEF u
  <2>3. \A i \in 1..7 : u[i] = s[i]
    BY <1>0, <2>2
  <2> QED BY <2>1, <2>3 DEF u
<1> DEFINE V == Seq(SBRules)
<1>1. Closed(V)
  BY ConcatProperties, EmptySeq DEF Closed
<1> HIDE DEF V
<1>2. a \in V /\ b \in V /\ c \in V /\ d \in V /\ e \in V /\ f \in V /\ g \in V
  BY <1>0 DEF V
<1> HIDE DEF a, b, c, d, e, f, g
<1>3. /\ <<>> \in Seq(V) /\ <<a>> \in Seq(V) /\ <<a, b>> \in Seq(V) /\ <<a, b, c>> \in Seq(V)
      /\ <<a, b, c, d>> \in Seq(V) /\ <<a, b, c, d, e>> \in Seq(V)
      /\ <<a, b, c, d, e, f>> \in Seq(V)
  BY <1>2
<1>4. /\ <<a>> = Append(<<>>, a) /\ <<a, b>> = Append(<<a>>, b)
      /\ <<a, b, c>> = Append(<<a, b>>, c)
      /\ <<a, b, c, d>> = Append(<<a, b, c>>, d)
      /\ <<a, b, c, d, e>> = Append(<<a, b, c, d>>, e)
      /\ <<a, b, c, d, e, f>> = Append(<<a, b, c, d, e>>, f)
      /\ <<a, b, c, d, e, f, g>> = Append(<<a, b, c, d, e, f>>, g)
  OBVIOUS
<1>5. <<>> \o a = a
  BY <1>2 DEF V
<1>6. \A parts \in Seq(V), x \in V : Concat(Append(parts, x)) = Concat(parts) \o x
  BY <1>1, ConcatGrows DEF SequencesOf, Then
<1>7. Concat(<<>>) = <<>>
  BY <1>1, ConcatGrows
<1>8. Concat(<<a>>) = a
  BY <1>2, <1>3, <1>4, <1>5, <1>6, <1>7
<1>9. Concat(<<a, b>>) = a \o b
  BY <1>2, <1>3, <1>4, <1>6, <1>8
<1>10. Concat(<<a, b, c>>) = (a \o b) \o c
  BY <1>2, <1>3, <1>4, <1>6, <1>9
<1>11. Concat(<<a, b, c, d>>) = ((a \o b) \o c) \o d
  BY <1>2, <1>3, <1>4, <1>6, <1>10
<1>12. Concat(<<a, b, c, d, e>>) = (((a \o b) \o c) \o d) \o e
  BY <1>2, <1>3, <1>4, <1>6, <1>11
<1>13. Concat(<<a, b, c, d, e, f>>) = ((((a \o b) \o c) \o d) \o e) \o f
  BY <1>2, <1>3, <1>4, <1>6, <1>12
<1>14. Concat(<<a, b, c, d, e, f, g>>) = (((((a \o b) \o c) \o d) \o e) \o f) \o g
  BY <1>2, <1>3, <1>4, <1>6, <1>13
<1> QED BY <1>20, <1>14, Zenon DEF a, b, c, d, e, f, g

\* What is said later is over what was said before.
AllSay(inv0, f, op, t) ==
    LET v(rules) == Says(rules, op, t)
    IN Over(Over(Over(v(<<AllowAny(Network)>>), v(MountRules({Read, Stat}, inv0.ro))),
                 v(MountRules({Read, Stat, Write}, inv0.rw))),
            Over(Over(Over(Over(Over(Over(v(f["network"]), v(f["proxy"])), v(f["ca"])),
                                v(f["keychain"])), v(f["claude"])), v(f["config-ro"])),
                 v(f["broker"])))

\* What comes later has the last word.
LEMMA CageSays ==
    ASSUME NEW inv0, inv0.ro \in Seq(Paths), inv0.rw \in Seq(Paths),
           inv0.profiles = AppendProfiles,
           NEW f, \A name \in FragmentNames : f[name] \in Seq(SBRules),
           NEW op, NEW target
    PROVE  Says(Cage(inv0, f), op, target) = AllSay(inv0, f, op, target)
<1> DEFINE net == <<AllowAny(Network)>>
           mro == MountRules({Read, Stat}, inv0.ro)
           mrw == MountRules({Read, Stat, Write}, inv0.rw)
           parts == [i \in DOMAIN AppendProfiles |-> f[AppendProfiles[i]]]
           V == Seq(SBRules)
           v(x) == Says(x, op, target)
<1>1. Cage(inv0, f) = ((net \o mro) \o mrw) \o Concat(parts)
  BY DEF Cage, MountRules
<1>2. /\ DOMAIN parts = 1..7 /\ parts = [i \in 1..7 |-> parts[i]]
      /\ parts[1] = f["network"] /\ parts[2] = f["proxy"] /\ parts[3] = f["ca"]
      /\ parts[4] = f["keychain"] /\ parts[5] = f["claude"] /\ parts[6] = f["config-ro"]
      /\ parts[7] = f["broker"]
  BY FragmentNamesAre
<1>3. /\ f["network"] \in V /\ f["proxy"] \in V /\ f["ca"] \in V /\ f["keychain"] \in V
      /\ f["claude"] \in V /\ f["config-ro"] \in V /\ f["broker"] \in V
  BY FragmentNamesAre
<1> DEFINE p2 == f["network"] \o f["proxy"]
           p3 == p2 \o f["ca"]
           p4 == p3 \o f["keychain"]
           p5 == p4 \o f["claude"]
           p6 == p5 \o f["config-ro"]
           p7 == p6 \o f["broker"]
<1>4. Concat(parts) = p7
  <2> HIDE DEF parts
  <2>1. 1..7 = {1, 2, 3, 4, 5, 6, 7}
    OBVIOUS
  <2>2. \A i \in 1..7 : parts[i] \in Seq(SBRules)
    BY <1>2, <1>3, <2>1
  <2>3. Concat(parts) = (((((parts[1] \o parts[2]) \o parts[3]) \o parts[4]) \o parts[5])
                            \o parts[6]) \o parts[7]
    BY <1>2, <2>2, ConcatOfSeven
  <2> QED BY <1>2, <2>3, Zenon
<1>5. \A a, b \in V : a \o b \in V /\ v(a \o b) = Over(v(a), v(b))
  BY VerdictJoined, ConcatProperties
<1>6. mro \in V /\ mrw \in V
  BY MountSays DEF Operations
<1>7. net \in V
  <2>1. AllowAny(Network) \in SBRules
    BY RulesTyped DEF Operations
  <2> QED BY <2>1
<1> HIDE DEF V, v, net, mro, mrw
<1>8. p2 \in V /\ v(p2) = Over(v(f["network"]), v(f["proxy"]))
  BY <1>3, <1>5
<1>9. p3 \in V /\ v(p3) = Over(v(p2), v(f["ca"]))
  <2> HIDE DEF p2
  <2> QED BY <1>3, <1>5, <1>8
<1>10. p4 \in V /\ v(p4) = Over(v(p3), v(f["keychain"]))
  <2> HIDE DEF p3
  <2> QED BY <1>3, <1>5, <1>9
<1>11. p5 \in V /\ v(p5) = Over(v(p4), v(f["claude"]))
  <2> HIDE DEF p4
  <2> QED BY <1>3, <1>5, <1>10
<1>12. p6 \in V /\ v(p6) = Over(v(p5), v(f["config-ro"]))
  <2> HIDE DEF p5
  <2> QED BY <1>3, <1>5, <1>11
<1>13. p7 \in V /\ v(p7) = Over(v(p6), v(f["broker"]))
  <2> HIDE DEF p6
  <2> QED BY <1>3, <1>5, <1>12
<1> HIDE DEF p2, p3, p4, p5, p6, p7
<1>14. (net \o mro) \in V /\ v(net \o mro) = Over(v(net), v(mro))
  BY <1>5, <1>6, <1>7
<1>15. ((net \o mro) \o mrw) \in V /\ v((net \o mro) \o mrw) = Over(v(net \o mro), v(mrw))
  BY <1>5, <1>6, <1>14
<1>16. v(((net \o mro) \o mrw) \o p7) = Over(v((net \o mro) \o mrw), v(p7))
  BY <1>5, <1>13, <1>15
<1>17. v(Cage(inv0, f)) = v(((net \o mro) \o mrw) \o p7)
  BY <1>1, <1>4
<1>18. v(Cage(inv0, f))
         = Over(Over(Over(v(net), v(mro)), v(mrw)),
                Over(Over(Over(Over(Over(Over(v(f["network"]), v(f["proxy"])), v(f["ca"])),
                                    v(f["keychain"])), v(f["claude"])), v(f["config-ro"])),
                     v(f["broker"])))
  BY <1>8, <1>9, <1>10, <1>11, <1>12, <1>13, <1>14, <1>15, <1>16, <1>17
<1> QED BY <1>18, Zenon DEF v, net, mro, mrw, AllSay

-----------------------------------------------------------------------------
(***************************************************************************)
(* CageProfile: what the rules of a whole cage decide, as one formula.     *)
(***************************************************************************)

CAPath == IF world.caFile THEN EvalSymlinks(caCertPath) ELSE caCertPath

\* What the file of a fragment may hold once it is written.
IsFragment(name, r) ==
    CASE name = "network" -> \E c \in versions : r = RenderNetworkSB(c.services)
      [] name = "proxy" -> \E q \in Ports : r = <<allowRule(q)>>
      [] name = "ca" -> Some(r) = RenderCAReadFragment(CAPath)
      [] name = "keychain" -> Some(r) = RenderKeychainFragment(RealHome)
      [] name = "claude" -> Some(r) = RenderClaudeStateFragment(RealHome)
      [] name = "config-ro" -> \E c \in versions : Some(r) = RenderConfigReadOnlyFragment(c.files)
      [] name = "broker" -> Some(r) = RenderBrokerDenyFragment(BrokerSock)

\* The mounts and the rules about files that let an operation through.
Mounted(dirs, t) == t.path # <<>> /\ \E dir \in Elements(dirs) : Below(EvalSymlinks(dir), t.path)

LetThrough(ro, rw, op, t) ==
    \/ op \in {Read, Stat} /\ Mounted(ro, t)
    \/ op \in {Read, Stat, Write} /\ Mounted(rw, t)
    \/ op = Stat /\ t = File(AllButLast(CAPath))
    \/ op \in {Read, Stat} /\ t = File(CAPath)
    \/ op = Lookup
    \/ /\ op \in {Read, Stat, Write} /\ t.path # <<>>
       /\ \/ Below(Append(KeychainDir(RealHome), "login.keychain-db"), t.path)
          \/ Below(Append(KeychainDir(RealHome), ".fl"), t.path)
    \/ op = Stat /\ t = File(RealHome)
    \/ /\ op \in {Read, Stat, Write} /\ t.path # <<>>
       /\ Below(Append(RealHome, ".claude.json"), t.path)

\* What is known of a config and of the paths of a host.
LEMMA ConfigTyped ==
    ASSUME NEW c \in Configs
    PROVE  /\ c.services \in Services /\ c.files \in Seq(Paths)
           /\ expandList(c.rw) \in Seq(Paths) /\ expandList(c.ro) \in Seq(Paths)
<1> DEFINE Written == [form : {"home", "abs", "rel"}, path : Seq(STRING)]
<1>1. c.services \in Services /\ {c.rw, c.ro} \subseteq Seq(Written) /\ c.files \in Seq(Seq(STRING))
  <2>1. ConfigOK(c)
    BY ConfigsAssumption
  <2> QED BY <2>1, Zenon DEF ConfigOK, Services, ServiceEntries
<1>2. c.files \in Seq(Paths)
  <2> DEFINE Q == Seq(STRING)
  <2>1. Q \subseteq Paths
    BY PlacesTyped
  <2>2. c.files \in Seq(Q)
    BY <1>1
  <2> HIDE DEF Q
  <2> QED BY <2>1, <2>2, SeqMonotonic
<1>3. ASSUME NEW w \in Written PROVE expandPath(w) \in Paths
  <2>1. w.form \in {"home", "abs", "rel"} /\ w.path \in Seq(STRING)
    OBVIOUS
  <2>2. w.path \in Paths
    BY <2>1, PlacesTyped, Zenon
  <2>3. Home \o w.path \in Paths /\ Project \o w.path \in Paths
    BY <2>2, PlacesTyped, Grown
  <2>4. CASE w.form = "home"
    BY <2>3, <2>4 DEF expandPath
  <2>5. CASE w.form = "abs"
    BY <2>2, <2>5 DEF expandPath
  <2>6. CASE w.form = "rel"
    BY <2>3, <2>6 DEF expandPath
  <2> QED BY <2>1, <2>4, <2>5, <2>6
<1> HIDE DEF Written
<1>4. ASSUME NEW l \in Seq(Written) PROVE expandList(l) \in Seq(Paths)
  <2> DEFINE n == Len(l)
  <2>1. n \in Nat /\ DOMAIN l = 1..n /\ \A i \in 1..n : l[i] \in Written
    OBVIOUS
  <2>2. expandList(l) = [i \in 1..n |-> expandPath(l[i])]
    BY <2>1 DEF expandList
  <2> HIDE DEF n
  <2>3. \A i \in 1..n : expandPath(l[i]) \in Paths
    BY <1>3, <2>1
  <2> QED BY <2>1, <2>2, <2>3
<1> QED BY <1>1, <1>2, <1>4

LEMMA PathsAre ==
    /\ BrokerSock \in Paths /\ BrokerSock # <<>>
    /\ caCertPath \in Paths /\ CAPath \in Paths /\ CAPath # <<>>
    /\ EvalSymlinks(caCertPath) = RealHome \o <<".mitmproxy", "mitmproxy-ca-cert.pem">>
<1> DEFINE cert == <<".mitmproxy", "mitmproxy-ca-cert.pem">>
<1>1. cert \in Paths /\ Len(cert) = 2
  <2>1. ".mitmproxy" \in Texts /\ "mitmproxy-ca-cert.pem" \in Texts
    BY DEF Texts
  <2> QED BY <2>1 DEF Paths
<1>2. caCertPath = Home \o cert
  BY DEF caCertPath
<1> HIDE DEF cert
<1>3. /\ caCertPath \in Paths /\ Len(caCertPath) = Len(Home) + 2
      /\ RealHome \o cert \in Paths /\ Len(RealHome \o cert) = Len(RealHome) + 2
      /\ EvalSymlinks(caCertPath) = RealHome \o cert
  <2>1. Home \in Paths /\ RealHome \in Paths
    BY PlacesTyped
  <2>2. Home \o cert \in Paths /\ Len(Home \o cert) = Len(Home) + 2
    <3>1. Len(Home \o cert) = Len(Home) + Len(cert) /\ Home \o cert \in Paths
      BY <1>1, <2>1, Grown
    <3> QED BY <1>1, <3>1
  <2>3. RealHome \o cert \in Paths /\ Len(RealHome \o cert) = Len(RealHome) + 2
    <3>1. Len(RealHome \o cert) = Len(RealHome) + Len(cert) /\ RealHome \o cert \in Paths
      BY <1>1, <2>1, Grown
    <3> QED BY <1>1, <3>1
  <2>4. EvalSymlinks(Home \o cert) = RealHome \o cert
    BY <1>1, EvalIs
  <2> QED BY <1>2, <2>2, <2>3, <2>4
<1>4. Len(Home) \in Nat /\ Len(RealHome) \in Nat /\ Len(<<>>) = 0
  BY PlacesTyped DEF Paths
<1>5. CAPath \in Paths /\ CAPath # <<>>
  BY <1>3, <1>4 DEF CAPath
<1>6. BrokerSock \in Paths /\ BrokerSock # <<>>
  <2>1. "broker.sock" \in Texts
    BY DEF Texts
  <2>2. BrokerSock \in Paths /\ Len(BrokerSock) = Len(Root) + 1
    BY <2>1, PlacesTyped, GrownByOne DEF BrokerSock
  <2>3. Len(Root) \in Nat
    BY PlacesTyped DEF Paths
  <2> QED BY <1>4, <2>2, <2>3
<1> QED BY <1>3, <1>5, <1>6 DEF cert

\* What the rules of a cage decide.
LEMMA CageDecides ==
    ASSUME versions \subseteq Configs, NEW q \in Int,
           NEW f, \A name \in FragmentNames : IsFragment(name, f[name]),
           f["proxy"] = <<allowRule(q)>>,
           NEW ro \in Seq(Paths), NEW rw \in Seq(Paths), NEW inv0,
           inv0.ro = ro, inv0.rw = rw, inv0.profiles = AppendProfiles
    PROVE  /\ \E c \in versions : \A t :
                  Says(Cage(inv0, f), Network, t)
                    = IF t = File(BrokerSock) THEN "no"
                      ELSE IF \/ t = Port("localhost", q)
                              \/ \E s \in Elements(c.services) : t = Port("localhost", s.port)
                      THEN "yes" ELSE "no"
           /\ \E c \in versions : \A op \in {Read, Stat, Write, Lookup} : \A t :
                  Says(Cage(inv0, f), op, t)
                    = IF op # Lookup /\ t = File(BrokerSock) THEN "no"
                      ELSE IF op = Write /\ \E g \in Elements(c.files) : t = File(g) THEN "no"
                      ELSE IF LetThrough(ro, rw, op, t) THEN "yes" ELSE "none"
<1>1. /\ IsFragment("network", f["network"]) /\ IsFragment("ca", f["ca"])
      /\ IsFragment("keychain", f["keychain"]) /\ IsFragment("claude", f["claude"])
      /\ IsFragment("config-ro", f["config-ro"]) /\ IsFragment("broker", f["broker"])
  BY FragmentNamesAre
<1>2. PICK c \in versions : f["network"] = RenderNetworkSB(c.services)
  BY <1>1 DEF IsFragment
<1>3. PICK d \in versions : Some(f["config-ro"]) = RenderConfigReadOnlyFragment(d.files)
  BY <1>1 DEF IsFragment
<1>4. /\ Some(f["ca"]) = RenderCAReadFragment(CAPath)
      /\ Some(f["keychain"]) = RenderKeychainFragment(RealHome)
      /\ Some(f["claude"]) = RenderClaudeStateFragment(RealHome)
      /\ Some(f["broker"]) = RenderBrokerDenyFragment(BrokerSock)
  BY <1>1 DEF IsFragment
<1>5. \A x : Some(x)[1] = x /\ Some(x) # Nil
  BY DEF Some, Nil
<1>6. /\ f["ca"] = RenderCAReadFragment(CAPath)[1]
      /\ f["keychain"] = RenderKeychainFragment(RealHome)[1]
      /\ f["claude"] = RenderClaudeStateFragment(RealHome)[1]
      /\ f["config-ro"] = RenderConfigReadOnlyFragment(d.files)[1]
      /\ f["broker"] = RenderBrokerDenyFragment(BrokerSock)[1]
  BY <1>3, <1>4, <1>5
<1>7. RealHome \in Paths /\ RealHome # <<>>
  <2>1. RenderKeychainFragment(RealHome) # Nil
    BY <1>4, <1>5
  <2>2. RealHome # <<>>
    BY <2>1 DEF RenderKeychainFragment, validateHome
  <2> QED BY <2>2, PlacesTyped
<1>8. c \in Configs /\ d \in Configs /\ c.services \in Services /\ d.files \in Seq(Paths)
  BY ConfigTyped
<1> DEFINE v(x, op, t) == Says(x, op, t)
           net(op, t) == IF op # Network THEN "none"
                         ELSE IF \E s \in Elements(c.services) : t = Port("localhost", s.port)
                         THEN "yes" ELSE "no"
           prx(op, t) == IF op = Network /\ t = Port("localhost", q) THEN "yes" ELSE "none"
           cas(op, t) == IF \/ op = Stat /\ t = File(AllButLast(CAPath))
                            \/ op \in {Read, Stat} /\ t = File(CAPath)
                         THEN "yes" ELSE "none"
           key(op, t) == IF \/ op = Lookup
                            \/ /\ op \in {Read, Stat, Write} /\ t.path # <<>>
                               /\ \/ Below(Append(KeychainDir(RealHome), "login.keychain-db"), t.path)
                                  \/ Below(Append(KeychainDir(RealHome), ".fl"), t.path)
                         THEN "yes" ELSE "none"
           cla(op, t) == IF \/ op = Stat /\ t = File(RealHome)
                            \/ /\ op \in {Read, Stat, Write} /\ t.path # <<>>
                               /\ Below(Append(RealHome, ".claude.json"), t.path)
                         THEN "yes" ELSE "none"
           cfg(op, t) == IF op = Write /\ \E g \in Elements(d.files) : t = File(g)
                         THEN "no" ELSE "none"
           bro(op, t) == IF op \in {Network, Read, Stat, Write} /\ t = File(BrokerSock)
                         THEN "no" ELSE "none"
           mro(op, t) == IF op \in {Read, Stat} /\ Mounted(ro, t) THEN "yes" ELSE "none"
           mrw(op, t) == IF op \in {Read, Stat, Write} /\ Mounted(rw, t) THEN "yes" ELSE "none"
           opn(op) == IF op = Network THEN "yes" ELSE "none"
<1>9. ASSUME NEW op, NEW t
      PROVE  Says(Cage(inv0, f), op, t)
               = Over(Over(Over(opn(op), mro(op, t)), mrw(op, t)),
                      Over(Over(Over(Over(Over(Over(net(op, t), prx(op, t)), cas(op, t)),
                                          key(op, t)), cla(op, t)), cfg(op, t)), bro(op, t)))
  <2>1. f["network"] \in Seq(SBRules) /\ Says(f["network"], op, t) = net(op, t)
    BY <1>2, <1>8, NetworkSays
  <2>2. f["proxy"] \in Seq(SBRules) /\ Says(f["proxy"], op, t) = prx(op, t)
    BY ProxySays
  <2>3. f["ca"] \in Seq(SBRules) /\ Says(f["ca"], op, t) = cas(op, t)
    <3> DEFINE r == RenderCAReadFragment(CAPath)[1]
    <3>1. r \in Seq(SBRules) /\ Says(r, op, t) = cas(op, t)
      BY PathsAre, CASays
    <3>2. f["ca"] = r
      BY <1>6
    <3> HIDE DEF r, cas
    <3> QED BY <3>1, <3>2
  <2>4. f["keychain"] \in Seq(SBRules) /\ Says(f["keychain"], op, t) = key(op, t)
    <3> DEFINE r == RenderKeychainFragment(RealHome)[1]
    <3>1. r \in Seq(SBRules) /\ Says(r, op, t) = key(op, t)
      BY <1>7, KeychainSays
    <3>2. f["keychain"] = r
      BY <1>6
    <3> HIDE DEF r, key
    <3> QED BY <3>1, <3>2
  <2>5. f["claude"] \in Seq(SBRules) /\ Says(f["claude"], op, t) = cla(op, t)
    <3> DEFINE r == RenderClaudeStateFragment(RealHome)[1]
    <3>1. r \in Seq(SBRules) /\ Says(r, op, t) = cla(op, t)
      BY <1>7, ClaudeSays
    <3>2. f["claude"] = r
      BY <1>6
    <3> HIDE DEF r, cla
    <3> QED BY <3>1, <3>2
  <2>6. f["config-ro"] \in Seq(SBRules) /\ Says(f["config-ro"], op, t) = cfg(op, t)
    <3> DEFINE r == RenderConfigReadOnlyFragment(d.files)[1]
    <3>1. r \in Seq(SBRules) /\ Says(r, op, t) = cfg(op, t)
      BY <1>8, ConfigSays
    <3>2. f["config-ro"] = r
      BY <1>6
    <3> HIDE DEF r, cfg
    <3> QED BY <3>1, <3>2
  <2>7. f["broker"] \in Seq(SBRules) /\ Says(f["broker"], op, t) = bro(op, t)
    <3> DEFINE r == RenderBrokerDenyFragment(BrokerSock)[1]
    <3>1. r \in Seq(SBRules) /\ Says(r, op, t) = bro(op, t)
      BY PathsAre, BrokerSays
    <3>2. f["broker"] = r
      BY <1>6
    <3> HIDE DEF r, bro
    <3> QED BY <3>1, <3>2
  <2>8. Says(MountRules({Read, Stat}, ro), op, t) = mro(op, t)
    <3> DEFINE ops == {Read, Stat}
               m == MountRules(ops, ro)
    <3>1. ops \in SUBSET Operations
      BY DEF Operations
    <3> HIDE DEF ops
    <3>2. Says(m, op, t)
            = IF /\ op \in ops /\ t.path # <<>>
                 /\ \E dir \in Elements(ro) : Below(EvalSymlinks(dir), t.path)
              THEN "yes" ELSE "none"
      BY <3>1, MountSays, ZenonT(30)
    <3> HIDE DEF m
    <3>3. Says(m, op, t) = IF op \in ops /\ Mounted(ro, t) THEN "yes" ELSE "none"
      BY <3>2 DEF Mounted
    <3> QED BY <3>3 DEF ops, m
  <2>9. Says(MountRules({Read, Stat, Write}, rw), op, t) = mrw(op, t)
    <3> DEFINE ops == {Read, Stat, Write}
               m == MountRules(ops, rw)
    <3>1. ops \in SUBSET Operations
      BY DEF Operations
    <3> HIDE DEF ops
    <3>2. Says(m, op, t)
            = IF /\ op \in ops /\ t.path # <<>>
                 /\ \E dir \in Elements(rw) : Below(EvalSymlinks(dir), t.path)
              THEN "yes" ELSE "none"
      BY <3>1, MountSays
    <3> HIDE DEF m
    <3>3. Says(m, op, t) = IF op \in ops /\ Mounted(rw, t) THEN "yes" ELSE "none"
      BY <3>2 DEF Mounted
    <3> QED BY <3>3 DEF ops, m
  <2>10. Says(<<AllowAny(Network)>>, op, t) = opn(op)
    <3>1. AllowAny(Network) \in SBRules
      BY RulesTyped DEF Operations
    <3> QED BY <3>1, VerdictOfOne, AnyMatches
  <2>11. \A name \in FragmentNames : f[name] \in Seq(SBRules)
    BY <2>1, <2>2, <2>3, <2>4, <2>5, <2>6, <2>7, FragmentNamesAre
  <2> HIDE DEF net, prx, cas, key, cla, cfg, bro, mro, mrw, opn
  <2>12. Says(Cage(inv0, f), op, t) = AllSay(inv0, f, op, t)
    BY <2>11, CageSays
  <2> QED BY <2>1, <2>2, <2>3, <2>4, <2>5, <2>6, <2>7, <2>8, <2>9, <2>10, <2>12 DEF AllSay
<1>10. ASSUME NEW t
       PROVE  Says(Cage(inv0, f), Network, t)
                = IF t = File(BrokerSock) THEN "no"
                  ELSE IF \/ t = Port("localhost", q)
                          \/ \E s \in Elements(c.services) : t = Port("localhost", s.port)
                  THEN "yes" ELSE "no"
  <2>1. Network \notin {Read, Stat, Write, Lookup}
    BY DEF Network, Read, Stat, Write, Lookup
  <2>2. /\ mro(Network, t) = "none" /\ mrw(Network, t) = "none" /\ cas(Network, t) = "none"
        /\ key(Network, t) = "none" /\ cla(Network, t) = "none" /\ cfg(Network, t) = "none"
        /\ net(Network, t) \in {"yes", "no"} /\ prx(Network, t) \in {"yes", "none"}
        /\ bro(Network, t) = IF t = File(BrokerSock) THEN "no" ELSE "none"
    BY <2>1
  <2>3. /\ net(Network, t) = "yes"
             <=> \E s \in Elements(c.services) : t = Port("localhost", s.port)
        /\ prx(Network, t) = "yes" <=> t = Port("localhost", q)
    OBVIOUS
  <2> HIDE DEF net, prx, cas, key, cla, cfg, bro, mro, mrw, opn
  <2> QED BY <1>9, <2>2, <2>3 DEF Over
<1>11. ASSUME NEW op \in {Read, Stat, Write, Lookup}, NEW t
       PROVE  Says(Cage(inv0, f), op, t)
                = IF op # Lookup /\ t = File(BrokerSock) THEN "no"
                  ELSE IF op = Write /\ \E g \in Elements(d.files) : t = File(g) THEN "no"
                  ELSE IF LetThrough(ro, rw, op, t) THEN "yes" ELSE "none"
  <2>1. op # Network /\ (op \in {Network, Read, Stat, Write} <=> op # Lookup)
    BY DEF Network, Read, Stat, Write, Lookup
  <2>2. /\ opn(op) = "none" /\ net(op, t) = "none" /\ prx(op, t) = "none"
        /\ mro(op, t) \in {"yes", "none"} /\ mrw(op, t) \in {"yes", "none"}
        /\ cas(op, t) \in {"yes", "none"} /\ key(op, t) \in {"yes", "none"}
        /\ cla(op, t) \in {"yes", "none"}
        /\ bro(op, t) = IF op # Lookup /\ t = File(BrokerSock) THEN "no" ELSE "none"
    BY <2>1
  <2>3. LetThrough(ro, rw, op, t)
          <=> \/ mro(op, t) = "yes" \/ mrw(op, t) = "yes" \/ cas(op, t) = "yes"
              \/ key(op, t) = "yes" \/ cla(op, t) = "yes"
    BY DEF LetThrough
  <2>4. cfg(op, t) = IF op = Write /\ \E g \in Elements(d.files) : t = File(g)
                     THEN "no" ELSE "none"
    OBVIOUS
  <2> HIDE DEF net, prx, cas, key, cla, cfg, bro, mro, mrw, opn
  <2> QED BY <1>9, <2>2, <2>3, <2>4 DEF Over
<1> QED BY <1>10, <1>11

-----------------------------------------------------------------------------
(***************************************************************************)
(* CageProfile: the mounts and the environment of an invocation.           *)
(***************************************************************************)

\* The marketplaces can be listed: there are finitely many.
LEMMA ImageFinite ==
    ASSUME NEW S, IsFiniteSet(S), NEW f
    PROVE  IsFiniteSet({f[x] : x \in S})
<1> DEFINE T == {f[x] : x \in S}
           g == [x \in S |-> f[x]]
<1>1. g \in [S -> T] /\ \A y \in T : \E x \in S : g[x] = y
  OBVIOUS
<1>2. g \in Surjection(S, T)
  BY <1>1 DEF Surjection
<1> QED BY <1>2, FS_Surjection

LEMMA Listed ==
    ASSUME NEW S, IsFiniteSet(S)
    PROVE  /\ Cardinality(S) \in Nat
           /\ \E s \in [1..Cardinality(S) -> S] : Elements(s) = S
<1>1. Cardinality(S) \in Nat /\ Bijection(1..Cardinality(S), S) # {}
  BY FS_CardinalityType DEF ExistsBijection
<1>2. PICK s : s \in Bijection(1..Cardinality(S), S)
  BY <1>1
<1>3. s \in [1..Cardinality(S) -> S] /\ \A y \in S : \E x \in 1..Cardinality(S) : s[x] = y
  BY <1>2 DEF Bijection, Surjection
<1>4. Elements(s) = S
  BY <1>3 DEF Elements
<1> QED BY <1>1, <1>3, <1>4

\* The marketplaces a session is granted are directories that were detected.
LEMMA MarketplaceDirs ==
    ASSUME world \in Worlds
    PROVE  /\ pluginMarketplaceDirs(world.registry) \in Seq(Paths)
           /\ \A dir \in Elements(pluginMarketplaceDirs(world.registry)) :
                  \E p \in Detect(world.registry) : p \in Paths /\ dir = EvalSymlinks(p)
<1> DEFINE registry == world.registry
           D == Detect(registry)
           here == {e \in registry : e.source \in {"directory", "file"} /\ e.isDir}
           named == [e \in here |-> IF e.path = <<>> THEN e.installed ELSE e.path]
           resolved == [p \in D |-> EvalSymlinks(p)]
           grant == {d \in {EvalSymlinks(p) : p \in D} :
                        ~withinAny(d, {Project, EvalSymlinks(ClaudeDir)})}
           dirs == pluginMarketplaceDirs(registry)
<1>1. WorldOK(world)
  BY WorldsAssumption
<1>2. IsFiniteSet(registry) /\ D \subseteq Seq(STRING)
  BY <1>1 DEF WorldOK
<1>3. D \subseteq Paths
  BY <1>2, PlacesTyped
<1>4. IsFiniteSet(here)
  BY <1>2, FS_Subset
<1>5. IsFiniteSet({named[e] : e \in here})
  <2> HIDE DEF here, named
  <2> QED BY <1>4, ImageFinite
<1>6. D = {named[e] : e \in here} \ {<<>>}
  BY DEF Detect
<1>7. IsFiniteSet(D)
  <2> DEFINE N == {named[e] : e \in here}
  <2>1. D \in SUBSET N
    BY <1>6
  <2> HIDE DEF D, N
  <2> QED BY <1>5, <2>1, FS_Subset DEF N
<1> HIDE DEF D, here, named
<1>8. IsFiniteSet({resolved[p] : p \in D})
  <2> HIDE DEF resolved
  <2> QED BY <1>7, ImageFinite
<1>9. grant \in SUBSET {resolved[p] : p \in D}
  OBVIOUS
<1>10. IsFiniteSet(grant)
  <2> HIDE DEF grant, resolved
  <2> QED BY <1>8, <1>9, FS_Subset
<1>11. dirs = CHOOSE s \in [1..Cardinality(grant) -> grant] : Elements(s) = grant
  BY Zenon DEF pluginMarketplaceDirs, D
<1>12. \A d \in grant : \E p \in D : p \in Paths /\ d = EvalSymlinks(p)
  BY <1>3
<1> HIDE DEF grant, dirs
<1>13. /\ Cardinality(grant) \in Nat
       /\ \E s \in [1..Cardinality(grant) -> grant] : Elements(s) = grant
  BY <1>10, Listed
<1>14. dirs \in [1..Cardinality(grant) -> grant] /\ Elements(dirs) = grant
  BY <1>11, <1>13
<1>15. grant \subseteq Paths
  BY <1>12, EvalIs
<1>16. dirs \in Seq(Paths)
  BY <1>13, <1>14, <1>15
<1> QED BY <1>12, <1>14, <1>16 DEF dirs, D

LaunchInputs(c, p, files) ==
    [cfg |-> c, port |-> p, home |-> Home, binary |-> ResolvedBinary(world.path),
     extra |-> pluginMarketplaceDirs(world.registry), configFiles |-> files]

\* What two sequences have is what they have when joined.
LEMMA ElementsJoined ==
    ASSUME NEW S, NEW s \in Seq(S), NEW t \in Seq(S)
    PROVE  s \o t \in Seq(S) /\ Elements(s \o t) = Elements(s) \cup Elements(t)
<1> DEFINE u == s \o t
           m == Len(s)
           n == Len(t)
<1>1. /\ u \in Seq(S) /\ m \in Nat /\ n \in Nat
      /\ DOMAIN s = 1..m /\ DOMAIN t = 1..n /\ DOMAIN u = 1..(m + n)
      /\ \A i \in 1..m : u[i] = s[i]
      /\ \A i \in 1..n : u[m + i] = t[i]
  BY ConcatProperties
<1> HIDE DEF u, m, n
<1>2. \A k \in 1..(m + n) : k \in 1..m \/ (k - m \in 1..n /\ k = m + (k - m))
  BY <1>1
<1>3. (\A i \in 1..m : i \in 1..(m + n)) /\ \A i \in 1..n : m + i \in 1..(m + n)
  BY <1>1
<1>4. Elements(u) \subseteq Elements(s) \cup Elements(t)
  <2> SUFFICES ASSUME NEW k \in 1..(m + n) PROVE u[k] \in Elements(s) \cup Elements(t)
    BY <1>1 DEF Elements
  <2>1. CASE k \in 1..m
    BY <1>1, <2>1 DEF Elements
  <2>2. CASE k - m \in 1..n /\ k = m + (k - m)
    <3>1. u[k] = t[k - m]
      BY <1>1, <2>2
    <3> QED BY <1>1, <2>2, <3>1 DEF Elements
  <2> QED BY <1>2, <2>1, <2>2
<1>5. \A i \in 1..m : s[i] \in Elements(u)
  BY <1>1, <1>3 DEF Elements
<1>6. \A i \in 1..n : t[i] \in Elements(u)
  BY <1>1, <1>3 DEF Elements
<1>7. Elements(s) \subseteq Elements(u) /\ Elements(t) \subseteq Elements(u)
  BY <1>1, <1>5, <1>6 DEF Elements
<1> QED BY <1>1, <1>4, <1>7 DEF u

\* What is known of the mounts and the environment of an invocation.
LEMMA BuildIs ==
    ASSUME world \in Worlds, NEW c \in Configs, NEW p, NEW files,
           Build(LaunchInputs(c, p, files)) # Nil
    PROVE  LET made == Build(LaunchInputs(c, p, files))[1]
           IN /\ made.ro \in Seq(Paths) /\ made.rw \in Seq(Paths)
              /\ made.profiles = AppendProfiles
              /\ \A dir \in Elements(made.ro) \cup Elements(made.rw), path \in Elsewhere :
                     ~Below(EvalSymlinks(dir), path)
              /\ \E dir \in Elements(made.rw) : Below(EvalSymlinks(dir), Project)
              /\ \E dir \in Elements(made.rw) : EvalSymlinks(dir) = Append(RealHome, ".claude")
              /\ \A v \in ProxyVars : made.env[v] = Port("127.0.0.1", p)
<1> DEFINE r == LaunchInputs(c, p, files)
           made == Build(r)[1]
           crw == expandList(c.rw)
           cro == expandList(c.ro)
           claude == Append(Home, ".claude")
           one == <<claude>>
           extra == pluginMarketplaceDirs(world.registry)
<1>1. /\ made.rw = crw \o one /\ made.ro = cro \o extra
      /\ made.profiles = AppendProfiles /\ made.env = buildEnv(r)
  BY DEF Build, LaunchInputs, Some, Nil
<1>2. /\ crw \in Seq(Paths) /\ cro \in Seq(Paths)
  BY ConfigTyped
<1>3. ".claude" \in Texts /\ Home \in Paths /\ RealHome \in Paths /\ Project \in Paths
  BY PlacesTyped DEF Texts
<1>4. claude \in Paths
  BY <1>3, GrownByOne
<1>5. EvalSymlinks(claude) = Append(RealHome, ".claude")
  <2>1. claude = Home \o <<".claude">> /\ Append(RealHome, ".claude") = RealHome \o <<".claude">>
    BY <1>3, GrownByOne
  <2>2. <<".claude">> \in Paths
    BY <1>3 DEF Paths
  <2> QED BY <2>1, <2>2, EvalIs
<1>6. one \in Seq(Paths) /\ Elements(one) = {claude}
  <2> HIDE DEF claude
  <2>1. DOMAIN one = {1} /\ one[1] = claude /\ one \in Seq(Paths)
    BY <1>4
  <2> QED BY <2>1 DEF Elements
<1>7. extra \in Seq(Paths)
  BY MarketplaceDirs
<1> HIDE DEF crw, cro, one, extra
<1>8. /\ made.rw \in Seq(Paths) /\ Elements(made.rw) = Elements(crw) \cup {claude}
      /\ made.ro \in Seq(Paths) /\ Elements(made.ro) = Elements(cro) \cup Elements(extra)
  BY <1>1, <1>2, <1>6, <1>7, ElementsJoined
<1>9. ConfigOK(c) /\ WorldOK(world)
  BY ConfigsAssumption, WorldsAssumption
<1>10. /\ \A dir \in Elements(crw) \cup Elements(cro) : Apart(dir)
       /\ \E dir \in Elements(crw) : Below(EvalSymlinks(dir), Project)
  BY <1>9 DEF ConfigOK, crw, cro
<1>11. \A dir \in Elements(extra) : Apart(dir)
  <2>1. \A q \in Detect(world.registry) : Apart(EvalSymlinks(q))
    BY <1>9 DEF WorldOK
  <2> QED BY <2>1, MarketplaceDirs DEF extra
<1>12. Apart(claude)
  <2> DEFINE d == Append(RealHome, ".claude")
             n == Len(RealHome)
  <2>1. d \in Paths /\ Len(d) = n + 1 /\ d[n + 1] = ".claude" /\ n \in Nat
    BY <1>3, GrownByOne DEF Paths
  <2>2. ASSUME NEW x \in {"other", "x"} PROVE ~Below(d, Append(RealHome, x))
    <3>1. x \in Texts /\ x # ".claude"
      BY DEF Texts
    <3>2. Append(RealHome, x) \in Paths /\ Append(RealHome, x)[n + 1] = x
      BY <1>3, <3>1, GrownByOne
    <3> DEFINE e == Append(RealHome, x)
    <3>3. n + 1 \in 1..Len(d)
      BY <2>1
    <3> HIDE DEF d, e
    <3> QED BY <2>1, <3>1, <3>2, <3>3, BelowIs DEF e
  <2> QED BY <1>5, <2>2 DEF Apart, Elsewhere
<1>13. \A dir \in Elements(made.ro) \cup Elements(made.rw) : Apart(dir)
  BY <1>8, <1>10, <1>11, <1>12
<1>14. \A v \in ProxyVars : buildEnv(r)[v] = Port("127.0.0.1", p)
  <2> TAKE v \in ProxyVars
  <2>1. v \notin NoProxyVars /\ v \notin CAVars
    BY DEF ProxyVars, NoProxyVars, CAVars
  <2> DEFINE value == CASE v \in ProxyVars -> Port("127.0.0.1", r.port)
                        [] v \in NoProxyVars -> Port("localhost", 0)
                        [] v \in CAVars -> File(caCertPath)
                        [] OTHER -> r.cfg.env[v]
  <2>2. buildEnv(r)[v] = value
    <3> HIDE DEF r
    <3> QED BY DEF buildEnv
  <2>3. value = Port("127.0.0.1", r.port)
    BY <2>1
  <2> QED BY <2>2, <2>3 DEF LaunchInputs
<1> HIDE DEF made
<1> QED BY <1>1, <1>5, <1>8, <1>10, <1>13, <1>14 DEF Apart, made

-----------------------------------------------------------------------------
(***************************************************************************)
(* CageProfile: what the battery probes for.                               *)
(***************************************************************************)

Last(path) == path[Len(path)]

\* The names of the model are names.
LEMMA NamesTyped ==
    /\ "Library" \in Texts /\ "Keychains" \in Texts /\ "login.keychain-db" \in Texts
    /\ "-wal" \in Texts /\ ".claude.json" \in Texts /\ ".probe" \in Texts /\ "x" \in Texts
    /\ "other" \in Texts /\ ".claude" \in Texts /\ ".mitmproxy" \in Texts
    /\ "mitmproxy-ca-cert.pem" \in Texts /\ "broker.sock" \in Texts /\ ".fl" \in Texts
BY DEF Texts

LEMMA LastIs ==
    ASSUME NEW p \in Paths, NEW x \in Texts
    PROVE  Last(Append(p, x)) = x
<1>1. Len(Append(p, x)) = Len(p) + 1 /\ Append(p, x)[Len(p) + 1] = x
  BY GrownByOne
<1> QED BY <1>1 DEF Last

\* One, two and three names more.
LEMMA OneMore ==
    ASSUME NEW S, NEW x \in S, NEW y \in S, NEW z \in S
    PROVE  Append(<<x>>, y) = <<x, y>> /\ Append(<<x, y>>, z) = <<x, y, z>>
<1>1. <<x>> \in Seq(S) /\ <<x, y>> \in Seq(S) /\ <<x, y, z>> \in Seq(S)
  OBVIOUS
<1>2. Append(<<x>>, y) = <<x, y>>
  <2> DEFINE t == Append(<<x>>, y)
             u == <<x, y>>
  <2>1. t \in Seq(S) /\ Len(t) = 2 /\ t[1] = x /\ t[2] = y
    BY <1>1
  <2>2. u \in Seq(S) /\ Len(u) = 2 /\ u[1] = x /\ u[2] = y
    OBVIOUS
  <2> HIDE DEF t, u
  <2>3. \A i \in 1..2 : t[i] = u[i]
    BY <2>1, <2>2
  <2>4. t = u
    BY <2>1, <2>2, <2>3, SeqEqual
  <2> QED BY <2>4 DEF t, u
<1>3. Append(<<x, y>>, z) = <<x, y, z>>
  <2> DEFINE t == Append(<<x, y>>, z)
             u == <<x, y, z>>
  <2>1. t \in Seq(S) /\ Len(t) = 3 /\ t[1] = x /\ t[2] = y /\ t[3] = z
    BY <1>1
  <2>2. u \in Seq(S) /\ Len(u) = 3 /\ u[1] = x /\ u[2] = y /\ u[3] = z
    OBVIOUS
  <2> HIDE DEF t, u
  <2>3. \A i \in 1..3 : t[i] = u[i]
    BY <2>1, <2>2
  <2>4. t = u
    BY <2>1, <2>2, <2>3, SeqEqual
  <2> QED BY <2>4 DEF t, u
<1> QED BY <1>2, <1>3

LEMMA TwoMore ==
    ASSUME NEW p \in Paths, NEW x \in Texts, NEW y \in Texts
    PROVE  p \o <<x, y>> = Append(Append(p, x), y)
<1>1. <<x>> \in Paths /\ <<y>> \in Paths
  BY DEF Paths
<1>2. Append(p, x) = p \o <<x>> /\ Append(p, x) \in Paths
  BY GrownByOne
<1>3. Append(Append(p, x), y) = Append(p, x) \o <<y>>
  BY <1>2, GrownByOne
<1>4. (p \o <<x>>) \o <<y>> = p \o (<<x>> \o <<y>>)
  BY <1>1, ConcatAssociative DEF Paths
<1>5. <<x>> \o <<y>> = <<x, y>>
  <2>1. Append(<<x>>, y) = <<x, y>>
    BY OneMore
  <2> QED BY <1>1, <2>1, GrownByOne
<1> QED BY <1>2, <1>3, <1>4, <1>5

LEMMA ThreeMore ==
    ASSUME NEW p \in Paths, NEW x \in Texts, NEW y \in Texts, NEW z \in Texts
    PROVE  p \o <<x, y, z>> = Append(Append(Append(p, x), y), z)
<1>1. <<x, y>> \in Paths /\ <<z>> \in Paths
  BY DEF Paths
<1>2. p \o <<x, y>> = Append(Append(p, x), y) /\ Append(Append(p, x), y) \in Paths
  <2>1. Append(p, x) \in Paths
    BY GrownByOne
  <2> QED BY <2>1, TwoMore, GrownByOne
<1>3. Append(Append(Append(p, x), y), z) = (p \o <<x, y>>) \o <<z>>
  BY <1>2, GrownByOne
<1>4. (p \o <<x, y>>) \o <<z>> = p \o (<<x, y>> \o <<z>>)
  BY <1>1, ConcatAssociative DEF Paths
<1>5. <<x, y>> \o <<z>> = <<x, y, z>>
  <2>1. Append(<<x, y>>, z) = <<x, y, z>>
    BY OneMore
  <2> QED BY <1>1, <2>1, GrownByOne
<1> QED BY <1>3, <1>4, <1>5

\* Below a path is whatever is below what is below it.
LEMMA BelowBelow ==
    ASSUME NEW p \in Paths, NEW q \in Paths, NEW x \in Texts, Below(p, q)
    PROVE  Below(p, Append(q, x))
<1> DEFINE r == Append(q, x)
<1>1. r \in Paths /\ Len(r) = Len(q) + 1 /\ \A i \in 1..Len(q) : r[i] = q[i]
  BY GrownByOne
<1>2. Len(p) \in Nat /\ Len(q) \in Nat
  BY DEF Paths
<1>3. Len(p) <= Len(q) /\ \A i \in 1..Len(p) : q[i] = p[i]
  BY BelowIs
<1> HIDE DEF r
<1>4. Len(p) <= Len(r) /\ \A i \in 1..Len(p) : r[i] = p[i]
  BY <1>1, <1>2, <1>3
<1>5. Below(p, r)
  BY <1>1, <1>4, BelowIs
<1> QED BY <1>5 DEF r

LEMMA BelowItself ==
    ASSUME NEW p \in Paths
    PROVE  Below(p, p)
<1>1. Len(p) \in Nat
  BY DEF Paths
<1> QED BY <1>1, BelowIs

\* Targets that differ.
LEMMA EndpointsDiffer ==
    /\ \A a, b : File(a) = File(b) <=> a = b
    /\ \A a : File(a).path = a
    /\ \A p, q : Port("localhost", p) = Port("localhost", q) <=> p = q
    /\ \A a, p : Port("localhost", p) # File(a)
    /\ \A p, q : Port("ex.com", p) # Port("localhost", q)
<1>1. ASSUME NEW a, NEW b, File(a) = File(b) PROVE a = b
  <2>1. File(a).path = a /\ File(b).path = b
    BY DEF File
  <2> QED BY <1>1, <2>1
<1>2. ASSUME NEW p, NEW q, Port("localhost", p) = Port("localhost", q) PROVE p = q
  <2>1. Port("localhost", p).port = p /\ Port("localhost", q).port = q
    BY DEF Port
  <2> QED BY <1>2, <2>1
<1>3. \A a : File(a).path = a /\ File(a).host = ""
  BY DEF File
<1>4. \A p : Port("localhost", p).host = "localhost" /\ Port("ex.com", p).host = "ex.com"
  BY DEF Port
<1>5. \A a, p : Port("localhost", p) # File(a)
  BY <1>3, <1>4
<1>6. \A p, q : Port("ex.com", p) # Port("localhost", q)
  BY <1>4
<1> QED BY <1>1, <1>2, <1>3, <1>5, <1>6

LEMMA OperationsDiffer ==
    /\ Read # Write /\ Read # Stat /\ Read # Lookup /\ Read # Network
    /\ Write # Stat /\ Write # Lookup /\ Write # Network
    /\ Stat # Lookup /\ Stat # Network /\ Lookup # Network
BY DEF Read, Write, Stat, Lookup, Network

\* What is planted outside the mounts is not reached.
LEMMA OutsideKept ==
    ASSUME NEW ro, NEW rw, NEW x \in {"other", "x"}, NEW op \in {Read, Write},
           \A dir \in Elements(ro) \cup Elements(rw), path \in Elsewhere :
               ~Below(EvalSymlinks(dir), path)
    PROVE  ~LetThrough(ro, rw, op, File(Append(RealHome, x)))
<1> DEFINE p == Append(RealHome, x)
           n == Len(RealHome)
           db == Append(KeychainDir(RealHome), "login.keychain-db")
           fl == Append(KeychainDir(RealHome), ".fl")
           json == Append(RealHome, ".claude.json")
<1>1. RealHome \in Paths /\ x \in Texts /\ n \in Nat
  BY PlacesTyped, NamesTyped DEF Paths
<1>2. p \in Paths /\ Len(p) = n + 1 /\ p[n + 1] = x /\ Last(p) = x
  BY <1>1, GrownByOne, LastIs
<1>3. p \in Elsewhere /\ File(p).path = p
  BY EndpointsDiffer DEF Elsewhere
<1>4. ~Mounted(ro, File(p)) /\ ~Mounted(rw, File(p))
  BY <1>3 DEF Mounted
<1>5. File(p) # File(CAPath)
  <2>1. Last(CAPath) = "mitmproxy-ca-cert.pem"
    <3> DEFINE y == ".mitmproxy"
               z == "mitmproxy-ca-cert.pem"
    <3>1. y \in Texts /\ z \in Texts
      BY NamesTyped
    <3>2. CAPath = RealHome \o <<y, z>> \/ CAPath = Home \o <<y, z>>
      BY PathsAre DEF CAPath, caCertPath
    <3>3. Home \in Paths
      BY PlacesTyped
    <3> HIDE DEF y, z
    <3>4. ASSUME NEW h \in Paths PROVE Last(h \o <<y, z>>) = z
      <4>1. Append(h, y) \in Paths
        BY <3>1, GrownByOne
      <4>2. h \o <<y, z>> = Append(Append(h, y), z)
        BY <3>1, TwoMore
      <4> QED BY <3>1, <4>1, <4>2, LastIs
    <3>5. Last(CAPath) = z
      BY <1>1, <3>2, <3>3, <3>4
    <3> QED BY <3>5 DEF z
  <2>2. x # "mitmproxy-ca-cert.pem"
    OBVIOUS
  <2> QED BY <1>2, <2>1, <2>2, EndpointsDiffer
<1>6. ~Below(db, p) /\ ~Below(fl, p)
  <2> DEFINE k == "Keychains"
             l == Append(RealHome, "Library")
             m == KeychainDir(RealHome)
  <2>1. m = Append(l, k) /\ k \in Texts
    BY <1>1, NamesTyped, TwoMore DEF KeychainDir
  <2>2. l \in Paths /\ Len(l) = n + 1
    BY <1>1, NamesTyped, GrownByOne
  <2> HIDE DEF k, l, m, n
  <2>3. m \in Paths /\ Len(m) = n + 1 + 1
    BY <2>1, <2>2, GrownByOne
  <2>4. \A y \in Texts : Append(m, y) \in Paths /\ Len(Append(m, y)) = n + 1 + 1 + 1
    BY <2>3, GrownByOne
  <2>5. db \in Paths /\ fl \in Paths /\ Len(db) = n + 1 + 1 + 1 /\ Len(fl) = n + 1 + 1 + 1
    BY <2>4, NamesTyped DEF m
  <2> HIDE DEF db, fl, p, n
  <2> QED BY <1>1, <1>2, <2>5, BelowIs
<1>7. ~Below(json, p)
  <2>1. json \in Paths /\ Len(json) = n + 1 /\ json[n + 1] = ".claude.json"
    BY <1>1, NamesTyped, GrownByOne
  <2>2. x # ".claude.json"
    OBVIOUS
  <2>3. n + 1 \in 1..(n + 1)
    BY <1>1
  <2> HIDE DEF json, p, n
  <2> QED BY <1>2, <2>1, <2>2, <2>3, BelowIs
<1>8. op # Stat /\ op # Lookup
  BY OperationsDiffer
<1> HIDE DEF p, db, fl, json
<1>9. ~LetThrough(ro, rw, op, File(p))
  BY <1>3, <1>4, <1>5, <1>6, <1>7, <1>8 DEF LetThrough, db, fl, json
<1> QED BY <1>9 DEF p

\* A target of the battery, and the socket of the broker.
LEMMA TargetsDiffer ==
    /\ \A path \in Paths : Last(path) # "broker.sock" => path # BrokerSock
    /\ \A p \in Paths, y \in Texts : y # "broker.sock" => Append(p, y) # BrokerSock
<1>1. Last(BrokerSock) = "broker.sock"
  BY PlacesTyped, NamesTyped, LastIs DEF BrokerSock
<1> DEFINE b == "broker.sock"
<1> HIDE DEF b
<1>2. \A path \in Paths : Last(path) # b => path # BrokerSock
  BY <1>1 DEF b
<1>3. ASSUME NEW p \in Paths, NEW y \in Texts, y # b PROVE Append(p, y) # BrokerSock
  <2>1. Append(p, y) \in Paths /\ Last(Append(p, y)) = y
    BY GrownByOne, LastIs
  <2> QED BY <1>2, <1>3, <2>1
<1> QED BY <1>2, <1>3 DEF b

\* The paths of the battery are names below others.
LEMMA ProbedPaths ==
    /\ KeychainDB = Append(KeychainDir(RealHome), "login.keychain-db")
    /\ KeychainDB \in Paths
    /\ EvalSymlinks(caCertPath)
         = Append(Append(RealHome, ".mitmproxy"), "mitmproxy-ca-cert.pem")
    /\ RealHome \o <<".claude.json", ".probe">> = Append(Append(RealHome, ".claude.json"), ".probe")
    /\ RealHome \o <<".claude", "x">> = Append(Append(RealHome, ".claude"), "x")
    /\ RealHome \o <<"other">> = Append(RealHome, "other")
<1>1. RealHome \in Paths
  BY PlacesTyped
<1>2. RealHome \o <<"other">> = Append(RealHome, "other")
  BY <1>1, NamesTyped, GrownByOne
<1>3. \A x, y \in Texts : RealHome \o <<x, y>> = Append(Append(RealHome, x), y)
  BY <1>1, TwoMore
<1>4. ASSUME NEW x \in Texts, NEW y \in Texts, NEW z \in Texts
      PROVE  RealHome \o <<x, y, z>> = Append(RealHome \o <<x, y>>, z)
  <2>1. RealHome \o <<x, y, z>> = Append(Append(Append(RealHome, x), y), z)
    BY <1>1, ThreeMore
  <2>2. RealHome \o <<x, y>> = Append(Append(RealHome, x), y)
    BY <1>1, TwoMore
  <2> QED BY <2>1, <2>2
<1>5. KeychainDB = Append(KeychainDir(RealHome), "login.keychain-db")
  BY <1>4, NamesTyped DEF KeychainDB, KeychainDir
<1>6. KeychainDB \in Paths
  <2>1. Append(RealHome, "Library") \in Paths
    BY <1>1, NamesTyped, GrownByOne
  <2>2. KeychainDir(RealHome) = Append(Append(RealHome, "Library"), "Keychains")
    BY <1>3, NamesTyped DEF KeychainDir
  <2>3. KeychainDir(RealHome) \in Paths
    BY <2>1, <2>2, NamesTyped, GrownByOne
  <2> QED BY <1>5, <2>3, NamesTyped, GrownByOne
<1> QED BY <1>2, <1>3, <1>5, <1>6, NamesTyped, PathsAre

Whole(f) == \A name \in FragmentNames : IsFragment(name, f[name])

\* A cage whose fragments were whole refuses what must be refused.
LEMMA BlockedIsRefused ==
    ASSUME world \in Worlds, versions \subseteq Configs, NEW c \in versions,
           NEW p \in Ports, NEW files, Build(LaunchInputs(c, p, files)) # Nil,
           NEW f, Whole(f), f["proxy"] = <<allowRule(p)>>, NEW w
    PROVE  \A b \in Blocked(ClosedPorts \ ((UNION {PortsOf(d) : d \in versions}) \cup {p}),
                            RealHome \o <<"other">>) \cup Frozen(w) :
               ~Permits(Cage(Build(LaunchInputs(c, p, files))[1], f), b.op, b.target)
<1> DEFINE made == Build(LaunchInputs(c, p, files))[1]
           rules == Cage(made, f)
           declared == UNION {PortsOf(d) : d \in versions}
           sock == File(BrokerSock)
<1>1. /\ made.ro \in Seq(Paths) /\ made.rw \in Seq(Paths) /\ made.profiles = AppendProfiles
      /\ \A dir \in Elements(made.ro) \cup Elements(made.rw), path \in Elsewhere :
             ~Below(EvalSymlinks(dir), path)
  BY BuildIs
<1>2. p \in Int
  BY PortsAssumption
<1> HIDE DEF made
<1>3. /\ \E d \in versions : \A t :
             Says(rules, Network, t)
               = IF t = sock THEN "no"
                 ELSE IF \/ t = Port("localhost", p)
                         \/ \E s \in Elements(d.services) : t = Port("localhost", s.port)
                 THEN "yes" ELSE "no"
      /\ \E d \in versions : \A op \in {Read, Stat, Write, Lookup} : \A t :
             Says(rules, op, t)
               = IF op # Lookup /\ t = sock THEN "no"
                 ELSE IF op = Write /\ \E g \in Elements(d.files) : t = File(g) THEN "no"
                 ELSE IF LetThrough(made.ro, made.rw, op, t) THEN "yes" ELSE "none"
  BY <1>1, <1>2, CageDecides, ZenonT(30) DEF Whole
<1> HIDE DEF rules
<1>4. PICK d \in versions : \A t :
          Says(rules, Network, t)
            = IF t = sock THEN "no"
              ELSE IF \/ t = Port("localhost", p)
                      \/ \E s \in Elements(d.services) : t = Port("localhost", s.port)
              THEN "yes" ELSE "no"
  BY <1>3
<1>5. PICK e \in versions : \A op \in {Read, Stat, Write, Lookup} : \A t :
          Says(rules, op, t)
            = IF op # Lookup /\ t = sock THEN "no"
              ELSE IF op = Write /\ \E g \in Elements(e.files) : t = File(g) THEN "no"
              ELSE IF LetThrough(made.ro, made.rw, op, t) THEN "yes" ELSE "none"
  BY <1>3
<1>6. \A x \in {"other", "x"}, op \in {Read, Write} :
          ~Permits(rules, op, File(Append(RealHome, x)))
  <2> TAKE x \in {"other", "x"}, op \in {Read, Write}
  <2>1. ~LetThrough(made.ro, made.rw, op, File(Append(RealHome, x)))
    BY <1>1, OutsideKept
  <2>2. Says(rules, op, File(Append(RealHome, x))) # "yes"
    BY <1>5, <2>1
  <2> QED BY <2>2, PermitsIs
<1>7. \A q : ~Permits(rules, Network, Port("ex.com", q))
  BY <1>4, EndpointsDiffer, PermitsIs
<1>8. ~Permits(rules, Network, sock)
  BY <1>4, PermitsIs
<1>9. ASSUME NEW q, q \notin declared \cup {p}
      PROVE  ~Permits(rules, Network, Port("localhost", q))
  <2>1. \A s \in Elements(d.services) : s.port \in declared
    BY DEF PortsOf
  <2>2. Port("localhost", q) # Port("localhost", p)
        /\ \A s \in Elements(d.services) : Port("localhost", q) # Port("localhost", s.port)
    BY <1>9, <2>1, EndpointsDiffer
  <2>3. Says(rules, Network, Port("localhost", q)) # "yes"
    BY <1>4, <2>2
  <2> QED BY <2>3, PermitsIs
<1>10. ASSUME NEW b \in Frozen(w) PROVE ~Permits(rules, b.op, b.target)
  <2>1. PICK k \in versions :
            /\ \A m \in versions : Elements(k.files) \subseteq Elements(m.files)
            /\ \E g \in Elements(k.files) : b = Probe("config", Write, File(g))
    BY <1>10 DEF Frozen
  <2>4. PICK g \in Elements(k.files) : b = Probe("config", Write, File(g))
    BY <2>1
  <2>2. b.op = Write /\ b.target = File(g) /\ g \in Elements(e.files)
    BY <2>1, <2>4 DEF Probe
  <2>3. Says(rules, Write, File(g)) = "no"
    BY <1>5, <2>2
  <2> QED BY <2>2, <2>3, PermitsIs
<1>11. ASSUME NEW b \in Blocked(ClosedPorts \ (declared \cup {p}), RealHome \o <<"other">>)
       PROVE  ~Permits(rules, b.op, b.target)
  <2>1. \/ b = Probe("fs-outside", Read, File(RealHome \o <<"other">>))
        \/ b = Probe("fs-home-write", Write, File(Append(RealHome, "x")))
        \/ b = Probe("net-raw-tcp", Network, Port("ex.com", 443))
        \/ b = Probe("net-dns", Network, Port("ex.com", 53))
        \/ b = Probe("broker-socket", Network, sock)
        \/ \E q \in ClosedPorts \ (declared \cup {p}) :
               b = Probe("net-localhost", Network, Port("localhost", q))
    BY <1>11 DEF Blocked
  <2>2. \A id, op, t : Probe(id, op, t).op = op /\ Probe(id, op, t).target = t
    BY DEF Probe
  <2>3. RealHome \o <<"other">> = Append(RealHome, "other")
    BY ProbedPaths
  <2> HIDE DEF declared, sock
  <2>4. CASE b = Probe("fs-outside", Read, File(RealHome \o <<"other">>))
    <3>1. File(RealHome \o <<"other">>) = File(Append(RealHome, "other"))
      BY <2>3, Zenon
    <3>2. b.op = Read /\ b.target = File(RealHome \o <<"other">>)
      <4> DEFINE o == File(RealHome \o <<"other">>)
      <4>1. b = Probe("fs-outside", Read, o)
        BY <2>4
      <4> HIDE DEF o
      <4>2. b.op = Read /\ b.target = o
        BY <2>2, <4>1
      <4> QED BY <4>2 DEF o
    <3> QED BY <1>6, <3>1, <3>2
  <2>5. CASE b = Probe("fs-home-write", Write, File(Append(RealHome, "x")))
    BY <1>6, <2>2, <2>5
  <2>6. CASE b = Probe("net-raw-tcp", Network, Port("ex.com", 443))
    BY <1>7, <2>2, <2>6
  <2>7. CASE b = Probe("net-dns", Network, Port("ex.com", 53))
    BY <1>7, <2>2, <2>7
  <2>8. CASE b = Probe("broker-socket", Network, sock)
    BY <1>8, <2>2, <2>8
  <2>9. ASSUME NEW q \in ClosedPorts \ (declared \cup {p}),
               b = Probe("net-localhost", Network, Port("localhost", q))
        PROVE  ~Permits(rules, b.op, b.target)
    <3>1. q \notin declared \cup {p}
      BY <2>9
    <3> QED BY <1>9, <2>2, <2>9, <3>1
  <2> QED BY <2>1, <2>4, <2>5, <2>6, <2>7, <2>8, <2>9
<1>12. \A b \in Blocked(ClosedPorts \ (declared \cup {p}), RealHome \o <<"other">>) \cup Frozen(w) :
           ~Permits(rules, b.op, b.target)
  BY <1>10, <1>11
<1> QED BY <1>12, Zenon DEF rules, made

\* What is let through and is neither the broker's socket nor, if written, a
\* file of the config.
LEMMA LetThroughWorks ==
    ASSUME NEW rules, NEW ro, NEW rw, NEW files,
           \A op \in {Read, Stat, Write, Lookup} : \A t :
               Says(rules, op, t)
                 = IF op # Lookup /\ t = File(BrokerSock) THEN "no"
                   ELSE IF op = Write /\ \E g \in Elements(files) : t = File(g) THEN "no"
                   ELSE IF LetThrough(ro, rw, op, t) THEN "yes" ELSE "none",
           NEW op \in {Read, Write}, NEW path \in Paths, path # BrokerSock,
           \A g \in Elements(files) : op = Write => File(path) # File(g),
           LetThrough(ro, rw, op, File(path))
    PROVE  Permits(rules, op, File(path))
<1>1. File(path) # File(BrokerSock)
  BY EndpointsDiffer
<1>2. op \in {Read, Stat, Write, Lookup}
  OBVIOUS
<1>3. Says(rules, op, File(path)) = "yes"
  BY <1>1, <1>2
<1> QED BY <1>3, PermitsIs

\* What the rules about files let through of what the battery asks for.
LEMMA NeededLetThrough ==
    ASSUME NEW ro, NEW rw \in Seq(Paths),
           \E dir \in Elements(rw) : Below(EvalSymlinks(dir), Project),
           \E dir \in Elements(rw) : EvalSymlinks(dir) = Append(RealHome, ".claude")
    PROVE  /\ LetThrough(ro, rw, Read, File(KeychainDB))
           /\ LetThrough(ro, rw, Write, File(Append(KeychainDB, "-wal")))
           /\ LetThrough(ro, rw, Write, File(Append(Append(RealHome, ".claude.json"), ".probe")))
           /\ LetThrough(ro, rw, Write, File(Append(Project, "x")))
           /\ LetThrough(ro, rw, Write, File(Append(Append(RealHome, ".claude"), "x")))
<1>1. RealHome \in Paths /\ Project \in Paths
  BY PlacesTyped
<1>2. \A p \in Paths, x \in Texts : Append(p, x) \in Paths /\ Append(p, x) # <<>>
  <2> SUFFICES ASSUME NEW p \in Paths, NEW x \in Texts
               PROVE  Append(p, x) \in Paths /\ Append(p, x) # <<>>
    OBVIOUS
  <2>1. Append(p, x) \in Paths /\ Len(Append(p, x)) = Len(p) + 1
    BY GrownByOne
  <2>2. Len(p) \in Nat /\ Len(<<>>) = 0
    BY DEF Paths
  <2> QED BY <2>1, <2>2
<1>3. \A p : File(p).path = p
  BY EndpointsDiffer
<1>4. \A p \in Paths : Below(p, p)
  BY BelowItself
<1>5. \A p, q \in Paths : \A x \in Texts : Below(p, q) => Below(p, Append(q, x))
  BY BelowBelow
<1> DEFINE db == "login.keychain-db"
           json == Append(RealHome, ".claude.json")
           claude == Append(RealHome, ".claude")
<1>6. KeychainDB \in Paths /\ KeychainDB = Append(KeychainDir(RealHome), db) /\ KeychainDB # <<>>
  <2>1. KeychainDB = RealHome \o <<"Library", "Keychains", "login.keychain-db">>
    BY DEF KeychainDB
  <2>2. KeychainDB = Append(Append(Append(RealHome, "Library"), "Keychains"), "login.keychain-db")
    BY <1>1, <2>1, NamesTyped, ThreeMore
  <2>3. KeychainDB # <<>>
    BY <1>1, <1>2, <2>2, NamesTyped
  <2> QED BY <2>3, ProbedPaths
<1>7. LetThrough(ro, rw, Read, File(KeychainDB))
  <2>1. Below(Append(KeychainDir(RealHome), "login.keychain-db"), File(KeychainDB).path)
    BY <1>3, <1>4, <1>6
  <2>2. File(KeychainDB).path # <<>>
    BY <1>3, <1>6
  <2> QED BY <2>1, <2>2 DEF LetThrough
<1>8. LetThrough(ro, rw, Write, File(Append(KeychainDB, "-wal")))
  <2> DEFINE t == File(Append(KeychainDB, "-wal"))
  <2>1. Below(KeychainDB, Append(KeychainDB, "-wal")) /\ Append(KeychainDB, "-wal") # <<>>
    BY <1>2, <1>4, <1>5, <1>6, NamesTyped
  <2>2. Below(Append(KeychainDir(RealHome), "login.keychain-db"), t.path) /\ t.path # <<>>
    BY <1>3, <1>6, <2>1
  <2> HIDE DEF t
  <2>3. LetThrough(ro, rw, Write, t)
    BY <2>2 DEF LetThrough
  <2> QED BY <2>3 DEF t
<1>9. LetThrough(ro, rw, Write, File(Append(json, ".probe")))
  <2> DEFINE t == File(Append(json, ".probe"))
  <2>1. json \in Paths
    BY <1>1, <1>2, NamesTyped
  <2>2. Below(json, Append(json, ".probe")) /\ Append(json, ".probe") # <<>>
    BY <1>2, <1>4, <1>5, <2>1, NamesTyped
  <2>3. Below(json, t.path) /\ t.path # <<>>
    BY <1>3, <2>2
  <2> HIDE DEF t
  <2>4. LetThrough(ro, rw, Write, t)
    BY <2>3 DEF LetThrough
  <2> QED BY <2>4 DEF t
<1>10. ASSUME NEW dir \in Elements(rw), NEW path \in Paths, path # <<>>,
              Below(EvalSymlinks(dir), path)
       PROVE  LetThrough(ro, rw, Write, File(path))
  <2>1. Mounted(rw, File(path))
    BY <1>3, <1>10 DEF Mounted
  <2> QED BY <2>1 DEF LetThrough
<1>11. LetThrough(ro, rw, Write, File(Append(Project, "x")))
  <2>1. PICK dir \in Elements(rw) : Below(EvalSymlinks(dir), Project)
    OBVIOUS
  <2>2. dir \in Paths
    BY DEF Elements
  <2>3. EvalSymlinks(dir) \in Paths
    BY <2>2, EvalIs
  <2>4. Below(EvalSymlinks(dir), Append(Project, "x"))
    BY <1>1, <1>5, <2>1, <2>3, NamesTyped
  <2> QED BY <1>1, <1>2, <1>10, <2>4, NamesTyped
<1>12. LetThrough(ro, rw, Write, File(Append(claude, "x")))
  <2>1. PICK dir \in Elements(rw) : EvalSymlinks(dir) = claude
    OBVIOUS
  <2>2. claude \in Paths
    BY <1>1, <1>2, NamesTyped
  <2>3. Below(EvalSymlinks(dir), Append(claude, "x"))
    BY <1>4, <1>5, <2>1, <2>2, NamesTyped
  <2> QED BY <1>2, <1>10, <2>2, <2>3, NamesTyped
<1> QED BY <1>7, <1>8, <1>9, <1>11, <1>12

\* A cage whose fragments were whole lets through what must work.
LEMMA AllowedIsGranted ==
    ASSUME world \in Worlds, versions \subseteq Configs, NEW c \in versions,
           NEW p \in Ports, NEW files, Build(LaunchInputs(c, p, files)) # Nil,
           NEW f, Whole(f), f["proxy"] = <<allowRule(p)>>
    PROVE  \A b \in Allowed(OpenPorts \cup {p}) :
               (b.id = "env-ca" /\ ~world.caFile)
                 \/ Permits(Cage(Build(LaunchInputs(c, p, files))[1], f), b.op, b.target)
<1> DEFINE made == Build(LaunchInputs(c, p, files))[1]
           rules == Cage(made, f)
           sock == File(BrokerSock)
<1>1. /\ made.ro \in Seq(Paths) /\ made.rw \in Seq(Paths) /\ made.profiles = AppendProfiles
      /\ \E dir \in Elements(made.rw) : Below(EvalSymlinks(dir), Project)
      /\ \E dir \in Elements(made.rw) : EvalSymlinks(dir) = Append(RealHome, ".claude")
  BY BuildIs
<1>2. p \in Int
  BY PortsAssumption
<1> HIDE DEF made
<1>3. /\ \E d \in versions : \A t :
             Says(rules, Network, t)
               = IF t = sock THEN "no"
                 ELSE IF \/ t = Port("localhost", p)
                         \/ \E s \in Elements(d.services) : t = Port("localhost", s.port)
                 THEN "yes" ELSE "no"
      /\ \E d \in versions : \A op \in {Read, Stat, Write, Lookup} : \A t :
             Says(rules, op, t)
               = IF op # Lookup /\ t = sock THEN "no"
                 ELSE IF op = Write /\ \E g \in Elements(d.files) : t = File(g) THEN "no"
                 ELSE IF LetThrough(made.ro, made.rw, op, t) THEN "yes" ELSE "none"
  BY <1>1, <1>2, CageDecides, ZenonT(30) DEF Whole
<1> HIDE DEF rules
<1>4. PICK d \in versions : \A t :
          Says(rules, Network, t)
            = IF t = sock THEN "no"
              ELSE IF \/ t = Port("localhost", p)
                      \/ \E s \in Elements(d.services) : t = Port("localhost", s.port)
              THEN "yes" ELSE "no"
  BY <1>3
<1>5. PICK e \in versions : \A op \in {Read, Stat, Write, Lookup} : \A t :
          Says(rules, op, t)
            = IF op # Lookup /\ t = sock THEN "no"
              ELSE IF op = Write /\ \E g \in Elements(e.files) : t = File(g) THEN "no"
              ELSE IF LetThrough(made.ro, made.rw, op, t) THEN "yes" ELSE "none"
  BY <1>3
<1>6. \A g \in Elements(e.files), b \in Allowed({}) : b.target # File(g)
  <2>1. ConfigOK(e)
    BY ConfigsAssumption
  <2> QED BY <2>1 DEF ConfigOK
<1>7. ASSUME NEW op \in {Read, Write}, NEW path \in Paths, path # BrokerSock,
             op = Write => \E b \in Allowed({}) : b.target = File(path),
             LetThrough(made.ro, made.rw, op, File(path))
      PROVE  Permits(rules, op, File(path))
  <2>1. \A g \in Elements(e.files) : op = Write => File(path) # File(g)
    BY <1>6, <1>7
  <2> QED BY <1>5, <1>7, <2>1, LetThroughWorks
<1>8. RealHome \in Paths /\ Project \in Paths
  BY PlacesTyped
<1>9. \A q \in Paths, y \in Texts :
          Append(q, y) \in Paths /\ (y # "broker.sock" => Append(q, y) # BrokerSock)
  BY GrownByOne, TargetsDiffer
<1>10. \A id, op, t : Probe(id, op, t).op = op /\ Probe(id, op, t).target = t /\ Probe(id, op, t).id = id
  BY DEF Probe
<1>11. world.caFile => Permits(rules, Read, File(EvalSymlinks(caCertPath)))
  <2> DEFINE ca == EvalSymlinks(caCertPath)
             l == Append(RealHome, ".mitmproxy")
  <2> SUFFICES ASSUME world.caFile PROVE Permits(rules, Read, File(ca))
    OBVIOUS
  <2>1. ca = CAPath
    BY DEF CAPath
  <2>2. l \in Paths
    BY <1>8, <1>9, NamesTyped
  <2>3. ca = Append(l, "mitmproxy-ca-cert.pem")
    BY ProbedPaths
  <2>4. "mitmproxy-ca-cert.pem" # "broker.sock"
    OBVIOUS
  <2> HIDE DEF ca, l
  <2>5. ca \in Paths /\ ca # BrokerSock
    BY <1>9, <2>2, <2>3, <2>4, NamesTyped
  <2>6. LetThrough(made.ro, made.rw, Read, File(ca))
    BY <2>1 DEF LetThrough
  <2>7. Read # Write
    BY OperationsDiffer
  <2> QED BY <1>7, <2>5, <2>6, <2>7
<1>12. Permits(rules, Lookup, File(<<>>))
  <2>1. Lookup \in {Read, Stat, Write, Lookup} /\ Lookup # Write
    BY OperationsDiffer
  <2>2. LetThrough(made.ro, made.rw, Lookup, File(<<>>))
    BY DEF LetThrough
  <2>3. Says(rules, Lookup, File(<<>>)) = "yes"
    BY <1>5, <2>1, <2>2
  <2> QED BY <2>3, PermitsIs
<1> DEFINE wal == Append(KeychainDB, "-wal")
           probe == Append(Append(RealHome, ".claude.json"), ".probe")
           rm == Append(Project, "x")
           doc == Append(Append(RealHome, ".claude"), "x")
<1>13. /\ LetThrough(made.ro, made.rw, Read, File(KeychainDB))
       /\ LetThrough(made.ro, made.rw, Write, File(wal))
       /\ LetThrough(made.ro, made.rw, Write, File(probe))
       /\ LetThrough(made.ro, made.rw, Write, File(rm))
       /\ LetThrough(made.ro, made.rw, Write, File(doc))
  BY <1>1, NeededLetThrough
<1>14. /\ Probe("kc-write", Write, File(wal)) \in Allowed({})
       /\ Probe("claude-json-rw", Write, File(probe)) \in Allowed({})
       /\ Probe("doc-rm", Write, File(rm)) \in Allowed({})
       /\ Probe("doc-claude-rw", Write, File(doc)) \in Allowed({})
  <2>1. File(RealHome \o <<".claude.json", ".probe">>) = File(probe)
        /\ File(RealHome \o <<".claude", "x">>) = File(doc)
    BY ProbedPaths, Zenon
  <2> DEFINE X == File(RealHome \o <<".claude.json", ".probe">>)
             Y == File(RealHome \o <<".claude", "x">>)
  <2>2. /\ Probe("kc-write", Write, File(wal)) \in Allowed({})
        /\ Probe("claude-json-rw", Write, X) \in Allowed({})
        /\ Probe("doc-rm", Write, File(rm)) \in Allowed({})
        /\ Probe("doc-claude-rw", Write, Y) \in Allowed({})
    BY Zenon DEF Allowed
  <2> QED BY <2>1, <2>2, Zenon
<1>15. /\ KeychainDB \in Paths /\ wal \in Paths /\ probe \in Paths /\ rm \in Paths /\ doc \in Paths
       /\ KeychainDB # BrokerSock /\ wal # BrokerSock /\ probe # BrokerSock
       /\ rm # BrokerSock /\ doc # BrokerSock
  <2>1. \A q \in Paths, y \in {"login.keychain-db", "-wal", ".probe", "x"} :
            Append(q, y) \in Paths /\ Append(q, y) # BrokerSock
    BY <1>9, NamesTyped
  <2>2. Append(RealHome, ".claude.json") \in Paths /\ Append(RealHome, ".claude") \in Paths
    BY <1>8, <1>9, NamesTyped
  <2>3. KeychainDB \in Paths /\ KeychainDB # BrokerSock
    <3>1. Last(KeychainDB) = "login.keychain-db"
      <4>1. Append(Append(RealHome, "Library"), "Keychains") \in Paths
        BY <1>8, <1>9, NamesTyped
      <4>2. KeychainDB = Append(Append(Append(RealHome, "Library"), "Keychains"), "login.keychain-db")
        BY <1>8, NamesTyped, ThreeMore DEF KeychainDB
      <4> QED BY <4>1, <4>2, NamesTyped, LastIs
    <3>2. "login.keychain-db" # "broker.sock"
      OBVIOUS
    <3> QED BY <3>1, <3>2, ProbedPaths, TargetsDiffer
  <2> QED BY <1>8, <2>1, <2>2, <2>3
<1>16. Permits(rules, Read, File(KeychainDB))
  <2>1. Read # Write
    BY OperationsDiffer
  <2> QED BY <1>7, <1>13, <1>15, <2>1
<1> HIDE DEF wal, probe, rm, doc
<1>17. /\ Permits(rules, Write, File(wal)) /\ Permits(rules, Write, File(probe))
       /\ Permits(rules, Write, File(rm)) /\ Permits(rules, Write, File(doc))
  <2>1. \A q \in {wal, probe, rm, doc} : \E b \in Allowed({}) : b.target = File(q)
    BY <1>10, <1>14
  <2> QED BY <1>7, <1>13, <1>15, <2>1
<1>18. ASSUME NEW q \in OpenPorts \cup {p}
       PROVE  Permits(rules, Network, Port("localhost", q))
  <2>1. q = p \/ \E s \in Elements(d.services) : q = s.port
    BY DEF OpenPorts, PortsOf
  <2>2. Port("localhost", q) # sock
    BY EndpointsDiffer
  <2>3. Says(rules, Network, Port("localhost", q)) = "yes"
    BY <1>4, <2>1, <2>2
  <2> QED BY <2>3, PermitsIs
<1>19. ASSUME NEW b \in Allowed(OpenPorts \cup {p})
       PROVE  (b.id = "env-ca" /\ ~world.caFile) \/ Permits(rules, b.op, b.target)
  <2> DEFINE X == File(RealHome \o <<".claude.json", ".probe">>)
             Y == File(RealHome \o <<".claude", "x">>)
             ca == File(EvalSymlinks(caCertPath))
             none == File(<<>>)
  <2>1. X = File(probe) /\ Y = File(doc)
    BY ProbedPaths, Zenon DEF probe, doc
  <2>2. \/ b = Probe("env-ca", Read, ca) \/ b = Probe("kc-read", Lookup, none)
        \/ b = Probe("kc-read", Read, File(KeychainDB)) \/ b = Probe("kc-write", Write, File(wal))
        \/ b = Probe("claude-json-rw", Write, X) \/ b = Probe("doc-rm", Write, File(rm))
        \/ b = Probe("doc-claude-rw", Write, Y)
        \/ \E q \in OpenPorts \cup {p} : b = Probe("svc-allowed", Network, Port("localhost", q))
    BY Zenon DEF Allowed, wal, rm
  <2>3. (world.caFile => Permits(rules, Read, ca)) /\ Permits(rules, Lookup, none)
    BY <1>11, <1>12
  <2> HIDE DEF X, Y, ca, none
  <2>4. CASE b = Probe("env-ca", Read, ca)
    BY <1>10, <2>3, <2>4
  <2>5. CASE b = Probe("kc-read", Lookup, none)
    BY <1>10, <2>3, <2>5
  <2>6. CASE b = Probe("kc-read", Read, File(KeychainDB))
    BY <1>10, <1>16, <2>6
  <2>7. CASE b = Probe("kc-write", Write, File(wal))
    BY <1>10, <1>17, <2>7
  <2>8. CASE b = Probe("claude-json-rw", Write, X)
    BY <1>10, <1>17, <2>1, <2>8
  <2>9. CASE b = Probe("doc-rm", Write, File(rm))
    BY <1>10, <1>17, <2>9
  <2>10. CASE b = Probe("doc-claude-rw", Write, Y)
    BY <1>10, <1>17, <2>1, <2>10
  <2>11. ASSUME NEW q \in OpenPorts \cup {p},
                b = Probe("svc-allowed", Network, Port("localhost", q))
         PROVE  Permits(rules, b.op, b.target)
    BY <1>10, <1>18, <2>11
  <2> QED BY <2>2, <2>4, <2>5, <2>6, <2>7, <2>8, <2>9, <2>10, <2>11
<1>20. \A b \in Allowed(OpenPorts \cup {p}) :
           (b.id = "env-ca" /\ ~world.caFile) \/ Permits(rules, b.op, b.target)
  BY <1>19
<1> QED BY <1>20, Zenon DEF rules, made

-----------------------------------------------------------------------------
(***************************************************************************)
(* CageRun: the invariant of the cage.  The fragments on disk are those of *)
(* configs there have been and of this host; a wrapper that has written    *)
(* its own shares the proxy's port with everybody who is attached, so that *)
(* whoever writes the proxy's fragment writes that port.                   *)
(***************************************************************************)

Early == Before \cup {"attach", "resolve", "files"}
Loaded == {"profile", "notify", "attach", "resolve"}
Built == {"watch", "start", "subscribe", "loop"}
Ready == {"build"} \cup Built
Launching == {"prepare"} \cup Ready

FragmentOK(name) ==
    frags[name] = Nil \/ \E r : frags[name] = Some(r) /\ IsFragment(name, r)

\* The proxy's fragment, for a wrapper that has written it.
OwnPort(w) == at[w].at > 1 => frags["proxy"] \in {Nil, Some(<<allowRule(port)>>)}

WithFiles(w, files) == \E c \in versions : in[w] = Some(LaunchInputs(c, port, files))

CageBuilt(w) ==
    \E f : /\ Whole(f) /\ f["proxy"] = <<allowRule(port)>>
           /\ cage[w] = Some(Cage(inv[w][1], f))

CageOK(w) ==
    /\ pc[w] \in Early => at[w] = Next1
    /\ pc[w] = "prepare" => at[w] \in [at : 1..6, truncated : BOOLEAN]
    /\ pc[w] \in Loaded => \E c \in versions : in[w] = Some(c)
    /\ pc[w] = "files" => WithFiles(w, <<>>)
    /\ pc[w] \in Launching => \E c \in versions : WithFiles(w, c.files)
    /\ pc[w] \in Ready => at[w].at > 1
    /\ pc[w] \in Built => inv[w] = Build(in[w][1]) /\ inv[w] # Nil
    /\ leader[w] = "running" /\ cage[w] # Nil => CageBuilt(w)

SharedOK ==
    /\ world \in Worlds /\ versions \subseteq Configs /\ config \in versions
    /\ users \subseteq Wrapper /\ (users # {} => port \in Ports)
    /\ DOMAIN frags = FragmentNames

DomainsOK ==
    DOMAIN in = Wrapper /\ DOMAIN inv = Wrapper /\ DOMAIN at = Wrapper /\ DOMAIN cage = Wrapper

CageInv ==
    /\ SharedOK /\ DomainsOK
    /\ \A name \in FragmentNames : FragmentOK(name)
    /\ \A u \in users : OwnPort(u)
    /\ \A w \in Wrapper : CageOK(w)

LEMMA StagesAre ==
    /\ Early = {"check", "compile", "load", "profile", "notify", "attach", "resolve", "files"}
    /\ Ready = {"build", "watch", "start", "subscribe", "loop"}
    /\ Launching = {"prepare", "build", "watch", "start", "subscribe", "loop"}
BY DEF Early, Before, Ready, Launching, Built

\* Who is past attaching is a user of the proxy, and so is whose cage runs.
LEMMA JoinedIs ==
    ASSUME RunInv, NEW v \in Wrapper
    PROVE  /\ pc[v] \in {"resolve", "files"} \cup Launching => v \in users
           /\ leader[v] \in Alive => v \in users /\ pc[v] \in {"subscribe", "loop"}
<1>1. WrapperOK(v)
  BY DEF RunInv
<1>2. ASSUME pc[v] \in {"resolve", "files"} \cup Launching PROVE v \in users
  <2>1. defers[v] \in Holding
    BY <1>1, <1>2, StagesAre DEF WrapperOK, StackAt, Before, Inside, Holding
  <2> QED BY <1>1, <2>1 DEF WrapperOK
<1> QED BY <1>1, <1>2, StagesAre DEF WrapperOK

LEMMA FragmentGrows ==
    ASSUME NEW name \in FragmentNames, NEW r, IsFragment(name, r),
           world' = world, versions \subseteq versions'
    PROVE  IsFragment(name, r)'
BY FragmentNamesAre DEF IsFragment, CAPath

LEMMA WithFilesKept ==
    ASSUME NEW v, NEW files, WithFiles(v, files), in'[v] = in[v], port' = port,
           world' = world, versions \subseteq versions'
    PROVE  WithFiles(v, files)'
BY DEF WithFiles, LaunchInputs

LEMMA BuiltKept ==
    ASSUME NEW v, CageBuilt(v), cage'[v] = cage[v], inv'[v] = inv[v], port' = port,
           world' = world, versions \subseteq versions'
    PROVE  CageBuilt(v)'
<1>1. PICK f : /\ Whole(f) /\ f["proxy"] = <<allowRule(port)>>
               /\ cage[v] = Some(Cage(inv[v][1], f))
  BY DEF CageBuilt
<1>2. Whole(f)'
  BY <1>1, FragmentGrows DEF Whole
<1>3. f["proxy"] = <<allowRule(port')>> /\ cage'[v] = Some(Cage(inv'[v][1], f))
  BY <1>1
<1> QED BY <1>2, <1>3 DEF CageBuilt

SameCage(v) ==
    /\ pc'[v] = pc[v] /\ in'[v] = in[v] /\ inv'[v] = inv[v] /\ at'[v] = at[v]
    /\ leader'[v] = leader[v] /\ cage'[v] = cage[v]

\* A wrapper that does not move keeps what is known of it while the configs
\* grow, and the port stays as long as it is attached.
LEMMA OtherKept ==
    ASSUME RunInv, NEW v \in Wrapper, CageOK(v), SameCage(v), world' = world,
           versions \subseteq versions', v \in users => port' = port
    PROVE  CageOK(v)'
<1>1. pc[v] = "files" => WithFiles(v, <<>>)'
  BY JoinedIs, WithFilesKept DEF CageOK, SameCage
<1>2. ASSUME pc[v] \in Launching PROVE \E c \in versions' : WithFiles(v, c.files)'
  <2>1. PICK c \in versions : WithFiles(v, c.files)
    BY <1>2 DEF CageOK
  <2>2. WithFiles(v, c.files)'
    BY <1>2, <2>1, JoinedIs, WithFilesKept DEF SameCage
  <2> QED BY <2>2
<1>3. ASSUME leader[v] = "running", cage[v] # Nil PROVE CageBuilt(v)'
  <2>1. v \in users
    BY <1>3, JoinedIs DEF Alive
  <2> QED BY <1>3, <2>1, BuiltKept DEF CageOK, SameCage
<1>4. pc[v] \in Loaded => \E c \in versions' : in'[v] = Some(c)
  BY DEF CageOK, SameCage
<1> QED BY <1>1, <1>2, <1>3, <1>4 DEF CageOK, SameCage

\* A step of a wrapper that leaves what is shared alone.
LEMMA CageStepOf ==
    ASSUME RunInv, CageInv, NEW w \in Wrapper, UNCHANGED shared, DomainsOK',
           \A v \in Wrapper \ {w} : SameCage(v),
           CageOK(w)', w \in users => OwnPort(w)'
    PROVE  CageInv'
<1>1. UNCHANGED <<world, config, versions, frags, port, users>>
  BY DEF shared
<1>2. SharedOK'
  BY <1>1 DEF CageInv, SharedOK
<1>3. ASSUME NEW name \in FragmentNames PROVE FragmentOK(name)'
  <2>1. FragmentOK(name)
    BY DEF CageInv
  <2> QED BY <1>1, <2>1, FragmentGrows DEF FragmentOK
<1>4. ASSUME NEW u \in users' PROVE OwnPort(u)'
  <2>1. u \in users /\ u \in Wrapper /\ OwnPort(u)
    BY <1>1 DEF CageInv, SharedOK
  <2>2. u # w => OwnPort(u)'
    BY <1>1, <2>1 DEF OwnPort, SameCage
  <2> QED BY <2>1, <2>2
<1>5. ASSUME NEW v \in Wrapper PROVE CageOK(v)'
  <2>1. CASE v = w
    BY <2>1
  <2>2. CASE v # w
    BY <1>1, <2>2, OtherKept DEF CageInv
  <2> QED BY <2>1, <2>2
<1> QED BY <1>2, <1>3, <1>4, <1>5 DEF CageInv

\* To know as much of a wrapper after a step as before.
Onward(a, b) ==
    \A S \in {Early, {"prepare"}, Loaded, {"files"}, Launching, Ready, Built} : b \in S => a \in S

LEMMA CageMoves ==
    ASSUME RunInv, CageInv, NEW w \in Wrapper, UNCHANGED <<shared, in, inv, at, cage>>,
           \A v \in Wrapper \ {w} : pc'[v] = pc[v] /\ leader'[v] = leader[v],
           leader'[w] = "running" => leader[w] = "running",
           Onward(pc[w], pc'[w])
    PROVE  CageInv'
<1>1. CageOK(w) /\ DomainsOK /\ (w \in users => OwnPort(w))
  BY DEF CageInv
<1>2. UNCHANGED <<world, config, versions, frags, port, users, in, inv, at, cage>>
  BY DEF shared
<1>3. \A v \in Wrapper \ {w} : SameCage(v)
  BY <1>2 DEF SameCage
<1>4. DomainsOK' /\ (w \in users => OwnPort(w)')
  BY <1>1, <1>2 DEF DomainsOK, OwnPort
<1>5. /\ pc'[w] \in Early => pc[w] \in Early
      /\ pc'[w] = "prepare" => pc[w] = "prepare"
      /\ pc'[w] \in Loaded => pc[w] \in Loaded
      /\ pc'[w] = "files" => pc[w] = "files"
      /\ pc'[w] \in Launching => pc[w] \in Launching
      /\ pc'[w] \in Ready => pc[w] \in Ready
      /\ pc'[w] \in Built => pc[w] \in Built
  <2>1. \A S \in {Early, {"prepare"}, Loaded, {"files"}, Launching, Ready, Built} :
            pc'[w] \in S => pc[w] \in S
    BY DEF Onward
  <2> QED BY <2>1
<1>6. \A files : WithFiles(w, files) => WithFiles(w, files)'
  BY <1>2, WithFilesKept
<1>7. CageBuilt(w) => CageBuilt(w)'
  BY <1>2, BuiltKept
<1>8. CageOK(w)'
  BY <1>1, <1>2, <1>5, <1>6, <1>7 DEF CageOK
<1> QED BY <1>3, <1>4, <1>8, CageStepOf DEF shared

LEMMA NotRunning ==
    ASSUME RunInv, NEW w \in Wrapper, pc[w] \notin {"subscribe", "loop"}
    PROVE  leader[w] \notin Alive /\ leader[w] # "running"
BY JoinedIs DEF Alive

LEMMA Ends ==
    ASSUME NEW a, NEW b \in {"unwind", "ended"} PROVE Onward(a, b)
BY StagesAre DEF Onward, Loaded, Built

LEMMA Waits == \A a : Onward(a, a)
BY DEF Onward

LEMMA StartsOnward ==
    /\ Onward("check", "compile") /\ Onward("compile", "load")
    /\ Onward("notify", "attach") /\ Onward("watch", "start")
    /\ Onward("start", "subscribe") /\ Onward("subscribe", "loop")
BY StagesAre DEF Onward, Loaded, Built

LEMMA GoIs ==
    ASSUME RunInv, NEW w \in Wrapper, NEW step, Go(w, step)
    PROVE  pc'[w] = After(step) /\ \A v \in Wrapper \ {w} : pc'[v] = pc[v]
BY DEF RunInv, TypesOK, Go

LEMMA FailIs ==
    ASSUME RunInv, NEW w \in Wrapper, Fail(w)
    PROVE  pc'[w] = "unwind" /\ \A v \in Wrapper \ {w} : pc'[v] = pc[v]
BY DEF RunInv, TypesOK, Fail

LEMMA CageFails ==
    ASSUME RunInv, CageInv, NEW w \in Wrapper, Fail(w),
           UNCHANGED <<shared, in, inv, at, leader, cage>>
    PROVE  CageInv'
<1>1. pc'[w] = "unwind" /\ \A v \in Wrapper \ {w} : pc'[v] = pc[v]
  BY FailIs
<1>2. Onward(pc[w], pc'[w])
  BY <1>1, Ends
<1> QED BY <1>1, <1>2, CageMoves

LEMMA CageGoes ==
    ASSUME RunInv, CageInv, NEW w \in Wrapper, NEW step, pc[w] = step, Go(w, step),
           Onward(step, After(step)),
           UNCHANGED <<shared, in, inv, at, cage>>,
           \A v \in Wrapper \ {w} : leader'[v] = leader[v],
           leader'[w] = "running" => leader[w] = "running"
    PROVE  CageInv'
BY GoIs, CageMoves

\* The steps that change nothing the cage is made of.
LEMMA QuietStartKeeps ==
    ASSUME RunInv, CageInv, NEW w \in Wrapper,
           \/ CheckHost(w) \/ CompilePolicy(w) \/ Notify(w) \/ Watch(w) \/ Start(w) \/ Subscribe(w)
    PROVE  CageInv'
<1> USE StartsOnward, Order
<1>1. CASE CheckHost(w)
  BY <1>1, CageFails, CageGoes DEF CheckHost, Gate
<1>2. CASE CompilePolicy(w)
  BY <1>2, CageFails, CageGoes DEF CompilePolicy, Gate
<1>3. CASE Notify(w)
  BY <1>3, CageGoes DEF Notify
<1>4. CASE Watch(w)
  BY <1>4, CageGoes DEF Watch
<1>5. CASE Start(w)
  <2>1. leader \in [Wrapper -> Leaders]
    BY DEF RunInv, TypesOK
  <2>2. leader'[w] = "starting" /\ \A v \in Wrapper \ {w} : leader'[v] = leader[v]
    BY <1>5, <2>1 DEF Start
  <2> QED BY <1>5, <2>2, CageGoes DEF Start
<1>6. CASE Subscribe(w)
  BY <1>6, CageGoes DEF Subscribe
<1> QED BY <1>1, <1>2, <1>3, <1>4, <1>5, <1>6

LEMMA QuietEndKeeps ==
    ASSUME RunInv, CageInv, NEW w \in Wrapper,
           \/ Forward(w) \/ Escalate(w) \/ Reap(w) \/ Exit(w)
           \/ StepFails(w) \/ Signal(w) \/ LeaderExits(w) \/ LeaderDies(w)
    PROVE  CageInv'
<1>1. pc \in [Wrapper -> Counters] /\ leader \in [Wrapper -> Leaders]
  BY DEF RunInv, TypesOK
<1>2. UNCHANGED <<shared, in, inv, at, cage>>
  BY DEF Forward, Escalate, Reap, Exit, StepFails, Signal, LeaderExits, LeaderDies
<1>3. pc'[w] \in {pc[w], "unwind", "ended"} /\ \A v \in Wrapper \ {w} : pc'[v] = pc[v]
  BY <1>1 DEF Forward, Escalate, Reap, Exit, StepFails, Signal, LeaderExits, LeaderDies, Fail
<1>4. \A v \in Wrapper \ {w} : leader'[v] = leader[v]
  BY <1>1 DEF Forward, Escalate, Reap, Exit, StepFails, Signal, LeaderExits, LeaderDies
<1>5. leader'[w] \in {leader[w], "killed", "gone"}
  BY <1>1 DEF Forward, Escalate, Reap, Exit, StepFails, Signal, LeaderExits, LeaderDies
<1>6. Onward(pc[w], pc'[w])
  BY <1>3, Ends, Waits
<1> QED BY <1>2, <1>3, <1>4, <1>5, <1>6, CageMoves

\* A step of a wrapper that ends where its cage does not run.
LEMMA ChangeKeeps ==
    ASSUME RunInv, CageInv, NEW w \in Wrapper, NEW p, UNCHANGED <<shared, at, leader, cage>>,
           pc[w] \notin {"subscribe", "loop"},
           pc'[w] = p, \A v \in Wrapper \ {w} : pc'[v] = pc[v],
           DOMAIN in' = Wrapper, DOMAIN inv' = Wrapper,
           \A v \in Wrapper \ {w} : in'[v] = in[v] /\ inv'[v] = inv[v],
           p \in Early => pc[w] \in Early,
           p = "prepare" => pc[w] \in Early,
           p \in Ready => pc[w] \in Ready,
           p \in Loaded => \E c \in versions : in'[w] = Some(c),
           p = "files" => WithFiles(w, <<>>)',
           p \in Launching => \E c \in versions : WithFiles(w, c.files)',
           p \in Built => inv'[w] = Build(in'[w][1]) /\ inv'[w] # Nil
    PROVE  CageInv'
<1>1. CageOK(w) /\ DomainsOK /\ (w \in users => OwnPort(w))
  BY DEF CageInv
<1>2. UNCHANGED <<world, config, versions, frags, port, users, at, leader, cage>>
  BY DEF shared
<1>3. \A v \in Wrapper \ {w} : SameCage(v)
  BY <1>2 DEF SameCage
<1>4. DomainsOK' /\ (w \in users => OwnPort(w)')
  BY <1>1, <1>2 DEF DomainsOK, OwnPort
<1>5. leader'[w] # "running"
  BY <1>2, NotRunning
<1>6. Next1 \in [at : 1..6, truncated : BOOLEAN]
  BY DEF Next1
<1>7. CageOK(w)'
  BY <1>1, <1>2, <1>5, <1>6 DEF CageOK, Ready
<1> QED BY <1>3, <1>4, <1>7, CageStepOf DEF shared

LEMMA LoadKeeps ==
    ASSUME RunInv, CageInv, NEW w \in Wrapper, LoadConfig(w)
    PROVE  CageInv'
<1>1. CASE config.valid
  <2>1. pc[w] = "load" /\ in' = [in EXCEPT ![w] = Some(config)] /\ Go(w, "load")
        /\ UNCHANGED <<shared, inv, at, leader, cage>>
    BY <1>1 DEF LoadConfig
  <2>2. pc'[w] = "profile" /\ \A v \in Wrapper \ {w} : pc'[v] = pc[v]
    BY <2>1, GoIs, Order
  <2>3. DomainsOK /\ config \in versions
    BY DEF CageInv, SharedOK
  <2>4. DOMAIN in' = Wrapper /\ in'[w] = Some(config) /\ \A v \in Wrapper \ {w} : in'[v] = in[v]
    BY <2>1, <2>3 DEF DomainsOK
  <2>5. DOMAIN inv' = Wrapper /\ inv' = inv
    BY <2>1, <2>3 DEF DomainsOK
  <2> DEFINE p == "profile"
  <2>6. /\ p \in Early /\ p # "prepare" /\ p \notin Ready /\ p # "files"
        /\ p \notin Launching /\ p \notin Built
        /\ "load" \in Early
    BY StagesAre DEF Built
  <2> HIDE DEF p
  <2>7. pc'[w] = p
    BY <2>2 DEF p
  <2> QED BY <2>1, <2>2, <2>3, <2>4, <2>5, <2>6, <2>7, ChangeKeeps
<1>2. CASE ~config.valid
  BY <1>2, CageFails DEF LoadConfig
<1> QED BY <1>1, <1>2

LEMMA ResolveKeeps ==
    ASSUME RunInv, CageInv, NEW w \in Wrapper, ResolveInputs(w)
    PROVE  CageInv'
<1> DEFINE r == Resolve(in[w][1], port, world.home)
<1>1. CASE r = Nil
  BY <1>1, CageFails DEF ResolveInputs
<1>2. CASE r # Nil
  <2> DEFINE new == [r[1] EXCEPT !.binary = ResolvedBinary(world.path),
                                 !.extra = pluginMarketplaceDirs(world.registry)]
  <2>1. pc[w] = "resolve" /\ in' = [in EXCEPT ![w] = Some(new)] /\ Go(w, "resolve")
        /\ UNCHANGED <<shared, inv, at, leader, cage>>
    BY <1>2 DEF ResolveInputs
  <2>2. pc'[w] = "files" /\ \A v \in Wrapper \ {w} : pc'[v] = pc[v]
    BY <2>1, GoIs, Order
  <2>3. DomainsOK /\ CageOK(w) /\ world \in Worlds
    BY DEF CageInv, SharedOK
  <2>4. PICK c \in versions : in[w] = Some(c)
    BY <2>1, <2>3 DEF CageOK, Loaded
  <2>5. world.home = Home
    <3>1. world.home # <<>>
      BY <1>2 DEF Resolve
    <3>2. WorldOK(world)
      BY <2>3, WorldsAssumption
    <3> QED BY <3>1, <3>2 DEF WorldOK
  <2>6. new = LaunchInputs(c, port, <<>>)
    <3>1. in[w][1] = c
      BY <2>4 DEF Some
    <3> DEFINE made == [cfg |-> c, port |-> port, home |-> Home,
                        binary |-> "", extra |-> <<>>, configFiles |-> <<>>]
    <3>2. r = Some(made)
      BY <1>2, <2>5, <3>1 DEF Resolve
    <3>3. [made EXCEPT !.binary = ResolvedBinary(world.path),
                       !.extra = pluginMarketplaceDirs(world.registry)]
            = LaunchInputs(c, port, <<>>)
      <4> DEFINE x == ResolvedBinary(world.path)
                 y == pluginMarketplaceDirs(world.registry)
      <4>1. LaunchInputs(c, port, <<>>)
              = [cfg |-> c, port |-> port, home |-> Home,
                 binary |-> x, extra |-> y, configFiles |-> <<>>]
        BY DEF LaunchInputs
      <4> DEFINE none == <<>>
                 safehouse == ""
      <4>0. made = [cfg |-> c, port |-> port, home |-> Home,
                    binary |-> safehouse, extra |-> none, configFiles |-> none]
        OBVIOUS
      <4> HIDE DEF x, y, none, safehouse, made
      <4>2. [made EXCEPT !.binary = x, !.extra = y]
              = [cfg |-> c, port |-> port, home |-> Home,
                 binary |-> x, extra |-> y, configFiles |-> <<>>]
        <5> DEFINE half == [cfg |-> c, port |-> port, home |-> Home,
                            binary |-> x, extra |-> none, configFiles |-> none]
                   whole == [cfg |-> c, port |-> port, home |-> Home,
                             binary |-> x, extra |-> y, configFiles |-> none]
        <5>1. [made EXCEPT !.binary = x, !.extra = y]
                = [[made EXCEPT !.binary = x] EXCEPT !.extra = y]
          BY Zenon
        <5>2. [made EXCEPT !.binary = x] = half
          BY <4>0
        <5>3. [half EXCEPT !.extra = y] = whole
          OBVIOUS
        <5> HIDE DEF half, whole
        <5>4. [made EXCEPT !.binary = x, !.extra = y] = whole
          BY <5>1, <5>2, <5>3, Zenon
        <5> QED BY <5>4, Zenon DEF none, whole
      <4>3. [made EXCEPT !.binary = x, !.extra = y] = LaunchInputs(c, port, <<>>)
        BY <4>1, <4>2, Zenon
      <4> QED BY <4>3 DEF x, y
    <3> HIDE DEF made, r
    <3>4. r[1] = made
      BY <3>2 DEF Some
    <3> QED BY <3>3, <3>4
  <2> HIDE DEF new
  <2>7. DOMAIN in' = Wrapper /\ in'[w] = Some(new) /\ \A v \in Wrapper \ {w} : in'[v] = in[v]
    BY <2>1, <2>3 DEF DomainsOK
  <2>8. DOMAIN inv' = Wrapper /\ inv' = inv
    BY <2>1, <2>3 DEF DomainsOK
  <2>9. UNCHANGED <<world, versions, port>>
    BY <2>1 DEF shared
  <2>10. WithFiles(w, <<>>)'
    BY <2>6, <2>7, <2>9 DEF WithFiles, LaunchInputs
  <2> DEFINE p == "files"
  <2>11. /\ p \in Early /\ p # "prepare" /\ p \notin Ready /\ p \notin Loaded
         /\ p \notin Launching /\ p \notin Built
         /\ "resolve" \in Early
    BY StagesAre DEF Built, Loaded
  <2> HIDE DEF p
  <2>12. pc'[w] = p
    BY <2>2 DEF p
  <2> QED BY <2>1, <2>2, <2>7, <2>8, <2>10, <2>11, <2>12, ChangeKeeps
<1> QED BY <1>1, <1>2

LEMMA FilesKeep ==
    ASSUME RunInv, CageInv, NEW w \in Wrapper, ConfigFiles(w)
    PROVE  CageInv'
<1>1. CASE config.valid
  <2>1. pc[w] = "files" /\ in' = [in EXCEPT ![w][1].configFiles = config.files] /\ Go(w, "files")
        /\ UNCHANGED <<shared, inv, at, leader, cage>>
    BY <1>1 DEF ConfigFiles
  <2>2. pc'[w] = "prepare" /\ \A v \in Wrapper \ {w} : pc'[v] = pc[v]
    BY <2>1, GoIs, Order
  <2>3. DomainsOK /\ CageOK(w) /\ config \in versions
    BY DEF CageInv, SharedOK
  <2>4. WithFiles(w, <<>>)
    BY <2>1, <2>3 DEF CageOK
  <2>5. PICK c \in versions : in[w] = Some(LaunchInputs(c, port, <<>>))
    BY <2>4 DEF WithFiles
  <2> DEFINE old == LaunchInputs(c, port, <<>>)
             new == LaunchInputs(c, port, config.files)
  <2>6. [old EXCEPT !.configFiles = config.files] = new
    BY DEF LaunchInputs
  <2> HIDE DEF old
  <2>7. [in[w] EXCEPT ![1].configFiles = config.files]
            = Some([old EXCEPT !.configFiles = config.files])
    BY <2>5 DEF Some, old
  <2>8. /\ in'[w] = [in[w] EXCEPT ![1].configFiles = config.files]
        /\ DOMAIN in' = Wrapper /\ \A v \in Wrapper \ {w} : in'[v] = in[v]
    BY <2>1, <2>3 DEF DomainsOK
  <2> HIDE DEF new
  <2>9. in'[w] = Some(new)
    BY <2>6, <2>7, <2>8
  <2>10. DOMAIN inv' = Wrapper /\ inv' = inv
    BY <2>1, <2>3 DEF DomainsOK
  <2>11. UNCHANGED <<world, config, versions, port>>
    BY <2>1 DEF shared
  <2>12. PICK d \in versions : d = config
    BY <2>3
  <2>13. WithFiles(w, d.files)'
    BY <2>9, <2>11, <2>12 DEF WithFiles, LaunchInputs, new
  <2> DEFINE p == "prepare"
  <2>14. /\ p \notin Early /\ p \notin Ready /\ p \notin Loaded /\ p # "files" /\ p \notin Built
         /\ "files" \in Early
    BY StagesAre DEF Built, Loaded
  <2> HIDE DEF p
  <2>15. pc'[w] = p
    BY <2>2 DEF p
  <2> QED BY <2>1, <2>2, <2>8, <2>10, <2>13, <2>14, <2>15, ChangeKeeps
<1>2. CASE ~config.valid
  BY <1>2, CageFails DEF ConfigFiles
<1> QED BY <1>1, <1>2

LEMMA BuildKeeps ==
    ASSUME RunInv, CageInv, NEW w \in Wrapper, BuildInvocation(w)
    PROVE  CageInv'
<1>1. CASE Build(in[w][1]) = Nil
  BY <1>1, CageFails DEF BuildInvocation
<1>2. CASE Build(in[w][1]) # Nil
  <2>1. pc[w] = "build" /\ inv' = [inv EXCEPT ![w] = Build(in[w][1])] /\ Go(w, "build")
        /\ UNCHANGED <<shared, in, at, leader, cage>>
    BY <1>2 DEF BuildInvocation
  <2>2. pc'[w] = "watch" /\ \A v \in Wrapper \ {w} : pc'[v] = pc[v]
    BY <2>1, GoIs, Order
  <2>3. DomainsOK /\ CageOK(w)
    BY DEF CageInv
  <2>4. DOMAIN inv' = Wrapper /\ inv'[w] = Build(in[w][1]) /\ \A v \in Wrapper \ {w} : inv'[v] = inv[v]
    BY <2>1, <2>3 DEF DomainsOK
  <2>5. DOMAIN in' = Wrapper /\ in' = in
    BY <2>1, <2>3 DEF DomainsOK
  <2>6. "build" \in Launching /\ "build" \in Ready
    BY StagesAre
  <2>7. \E c \in versions : WithFiles(w, c.files)'
    <3>1. PICK c \in versions : WithFiles(w, c.files)
      BY <2>1, <2>3, <2>6 DEF CageOK
    <3>2. UNCHANGED <<world, versions, port>>
      BY <2>1 DEF shared
    <3> QED BY <2>5, <3>1, <3>2, WithFilesKept
  <2> DEFINE p == "watch"
  <2>8. /\ p \notin Early /\ p \notin Loaded /\ p # "files" /\ p # "prepare"
    BY StagesAre DEF Loaded
  <2> HIDE DEF p
  <2>9. pc'[w] = p
    BY <2>2 DEF p
  <2>10. inv'[w] = Build(in'[w][1]) /\ inv'[w] # Nil
    BY <1>2, <2>4, <2>5
  <2> QED BY <2>1, <2>2, <2>4, <2>5, <2>6, <2>7, <2>8, <2>9, <2>10, ChangeKeeps
<1> QED BY <1>1, <1>2

LEMMA SomeIs == \A x : Some(x) # Nil /\ Some(x)[1] = x
BY DEF Some, Nil

\* The parts of the invariant, for the steps that change what is shared.
LEMMA SharedStep ==
    ASSUME RunInv, CageInv, NEW w \in Wrapper, world' = world,
           \A v \in Wrapper \ {w} : SameCage(v) /\ (v \in users => port' = port),
           versions' = versions, SharedOK', DomainsOK', CageOK(w)',
           \A name \in FragmentNames : FragmentOK(name)',
           \A u \in users' : OwnPort(u)'
    PROVE  CageInv'
<1>1. ASSUME NEW v \in Wrapper PROVE CageOK(v)'
  <2>1. CASE v = w
    BY <2>1
  <2>2. CASE v # w
    BY <2>2, OtherKept DEF CageInv
  <2> QED BY <2>1, <2>2
<1> QED BY <1>1 DEF CageInv

LEMMA FragmentKept ==
    ASSUME NEW name \in FragmentNames, FragmentOK(name), frags'[name] = frags[name],
           world' = world, versions \subseteq versions'
    PROVE  FragmentOK(name)'
BY FragmentGrows DEF FragmentOK

LEMMA ProfileKeeps ==
    ASSUME RunInv, CageInv, NEW w \in Wrapper, CompileProfile(w)
    PROVE  CageInv'
<1>1. CASE ~config.valid
  <2>1. Fail(w) /\ UNCHANGED <<shared, in, inv, at, leader, cage>>
    BY <1>1 DEF CompileProfile, shared
  <2> QED BY <2>1, CageFails
<1>2. CASE config.valid
  <2>1. /\ pc[w] = "profile" /\ Go(w, "profile")
        /\ frags' = [frags EXCEPT !["network"] = Some(RenderNetworkSB(config.services))]
        /\ UNCHANGED <<world, config, versions, port, users, in, inv, at, leader, cage>>
    BY <1>2 DEF CompileProfile
  <2>2. pc'[w] = "notify" /\ \A v \in Wrapper \ {w} : pc'[v] = pc[v]
    BY <2>1, GoIs, Order
  <2>3. SharedOK /\ DomainsOK /\ CageOK(w) /\ DOMAIN frags = FragmentNames
    BY DEF CageInv, SharedOK
  <2>4. /\ DOMAIN frags' = FragmentNames
        /\ frags'["network"] = Some(RenderNetworkSB(config.services))
        /\ \A name \in FragmentNames : name # "network" => frags'[name] = frags[name]
    BY <2>1, <2>3, FragmentNamesAre
  <2>5. SharedOK' /\ DomainsOK'
    BY <2>1, <2>3, <2>4 DEF SharedOK, DomainsOK
  <2>6. ASSUME NEW name \in FragmentNames PROVE FragmentOK(name)'
    <3>1. CASE name # "network"
      BY <2>1, <2>4, <3>1, FragmentKept DEF CageInv
    <3>2. CASE name = "network"
      <4>1. PICK c \in versions : c = config
        BY <2>3 DEF SharedOK
      <4>2. PICK r : r = RenderNetworkSB(c.services)
        OBVIOUS
      <4>3. IsFragment(name, r)'
        BY <2>1, <3>2, <4>1, <4>2 DEF IsFragment
      <4>4. frags'[name] = Some(r)
        BY <2>4, <3>2, <4>1, <4>2
      <4> QED BY <4>3, <4>4 DEF FragmentOK
    <3> QED BY <3>1, <3>2
  <2>7. frags'["proxy"] = frags["proxy"]
    BY <2>4, FragmentNamesAre
  <2>8. \A u \in users' : OwnPort(u)'
    BY <2>1, <2>7 DEF CageInv, OwnPort
  <2>9. \A v \in Wrapper \ {w} : SameCage(v)
    BY <2>1, <2>2 DEF SameCage
  <2>10. CageOK(w)'
    <3>1. leader'[w] # "running"
      BY <2>1, NotRunning
    <3>2. "profile" \in Early /\ "profile" \in Loaded
      BY StagesAre DEF Loaded
    <3>3. "notify" \notin Launching /\ "notify" \notin Ready /\ "notify" \notin Built
      BY StagesAre DEF Built
    <3> QED BY <2>1, <2>2, <2>3, <3>1, <3>2, <3>3 DEF CageOK
  <2> QED BY <2>1, <2>5, <2>6, <2>8, <2>9, <2>10, SharedStep
<1> QED BY <1>1, <1>2

LEMMA AttachKeeps ==
    ASSUME RunInv, CageInv, NEW w \in Wrapper, Attach(w)
    PROVE  CageInv'
<1>1. /\ pc[w] = "attach" /\ Go(w, "attach") /\ users' = users \cup {w}
      /\ IF users = {} THEN port' \in Ports ELSE port' = port
      /\ UNCHANGED <<world, config, versions, frags, in, inv, at, leader, cage>>
  BY DEF Attach
<1>2. pc'[w] = "resolve" /\ \A v \in Wrapper \ {w} : pc'[v] = pc[v]
  BY <1>1, GoIs, Order
<1>3. SharedOK /\ DomainsOK /\ CageOK(w)
  BY DEF CageInv
<1>4. port' \in Ports /\ \A v \in users : port' = port
  BY <1>1, <1>3 DEF SharedOK
<1>5. SharedOK' /\ DomainsOK'
  BY <1>1, <1>3, <1>4 DEF SharedOK, DomainsOK
<1>6. \A name \in FragmentNames : FragmentOK(name)'
  BY <1>1, FragmentKept DEF CageInv
<1>7. at[w] = Next1
  BY <1>1, <1>3, StagesAre DEF CageOK
<1>8. ASSUME NEW u \in users' PROVE OwnPort(u)'
  <2>1. CASE u = w
    BY <1>1, <1>7, <2>1 DEF OwnPort, Next1
  <2>2. CASE u # w
    <3>1. u \in users /\ OwnPort(u) /\ port' = port
      BY <1>1, <1>4, <2>2 DEF CageInv
    <3> QED BY <1>1, <3>1 DEF OwnPort
  <2> QED BY <2>1, <2>2
<1>9. \A v \in Wrapper \ {w} : SameCage(v)
  BY <1>1, <1>2 DEF SameCage
<1>10. CageOK(w)'
  <2>1. leader'[w] # "running"
    BY <1>1, NotRunning
  <2>2. "attach" \in Loaded
    BY DEF Loaded
  <2>3. "resolve" \notin Launching /\ "resolve" \notin Ready /\ "resolve" \notin Built
    BY StagesAre DEF Built
  <2> QED BY <1>1, <1>2, <1>3, <1>7, <2>1, <2>2, <2>3 DEF CageOK
<1> QED BY <1>1, <1>4, <1>5, <1>6, <1>8, <1>9, <1>10, SharedStep

LEMMA UndoCage ==
    ASSUME RunInv, CageInv, NEW w \in Wrapper, Undo(w)
    PROVE  CageInv'
<1>1. /\ pc[w] = "unwind" /\ users' \in {users, users \ {w}}
      /\ port' = IF users' = {} THEN 0 ELSE port
      /\ UNCHANGED <<world, config, versions, frags, pc, in, inv, at, leader, cage>>
  BY DEF Undo
<1>2. SharedOK /\ DomainsOK /\ CageOK(w)
  BY DEF CageInv
<1>3. \A v \in Wrapper \ {w} : v \in users => port' = port
  BY <1>1
<1>4. SharedOK' /\ DomainsOK'
  BY <1>1, <1>2 DEF SharedOK, DomainsOK
<1>5. \A name \in FragmentNames : FragmentOK(name)'
  BY <1>1, FragmentKept DEF CageInv
<1>6. ASSUME NEW u \in users' PROVE OwnPort(u)'
  <2>1. u \in users /\ OwnPort(u) /\ port' = port
    BY <1>1 DEF CageInv
  <2> QED BY <1>1, <2>1 DEF OwnPort
<1>7. \A v \in Wrapper \ {w} : SameCage(v)
  BY <1>1 DEF SameCage
<1>8. CageOK(w)'
  <2>1. leader'[w] # "running"
    BY <1>1, NotRunning
  <2>2. /\ "unwind" \notin Early /\ "unwind" \notin Loaded /\ "unwind" \notin Launching
        /\ "unwind" \notin Ready /\ "unwind" \notin Built
    BY StagesAre DEF Built, Loaded
  <2> QED BY <1>1, <2>1, <2>2 DEF CageOK
<1> QED BY <1>1, <1>3, <1>4, <1>5, <1>6, <1>7, <1>8, SharedStep

LEMMA EditKeeps ==
    ASSUME RunInv, CageInv, Edit
    PROVE  CageInv'
<1>1. /\ config' \in Configs /\ versions' = versions \cup {config'}
      /\ UNCHANGED <<world, frags, port, users, pc, in, inv, at, leader, cage>>
  BY DEF Edit, own
<1>2. SharedOK /\ DomainsOK
  BY DEF CageInv
<1>3. SharedOK' /\ DomainsOK'
  BY <1>1, <1>2 DEF SharedOK, DomainsOK
<1>4. \A name \in FragmentNames : FragmentOK(name)'
  BY <1>1, FragmentKept DEF CageInv
<1>5. \A u \in users' : OwnPort(u)'
  BY <1>1 DEF OwnPort, CageInv
<1>6. ASSUME NEW v \in Wrapper PROVE CageOK(v)'
  <2>1. SameCage(v) /\ CageOK(v)
    BY <1>1 DEF SameCage, CageInv
  <2> QED BY <1>1, <2>1, OtherKept
<1> QED BY <1>3, <1>4, <1>5, <1>6 DEF CageInv

\* What safehouse makes of the fragments it finds.
LEMMA ReadsKeep ==
    ASSUME RunInv, CageInv, NEW w \in Wrapper, SafehouseReads(w)
    PROVE  CageInv'
<1> DEFINE all == \A name \in DOMAIN frags : frags[name] # Nil
           found == [n \in DOMAIN frags |-> frags[n][1]]
<1>1. /\ leader[w] = "starting" /\ leader' = [leader EXCEPT ![w] = "running"]
      /\ cage' = [cage EXCEPT ![w] = IF all THEN Some(Cage(inv[w][1], found)) ELSE Nil]
      /\ UNCHANGED <<shared, pc, in, inv, at>>
  BY DEF SafehouseReads
<1>2. UNCHANGED <<world, config, versions, frags, port, users>>
  BY <1>1 DEF shared
<1>3. SharedOK /\ DomainsOK /\ CageOK(w) /\ leader \in [Wrapper -> Leaders]
  BY DEF CageInv, RunInv, TypesOK
<1>4. w \in users /\ pc[w] \in {"subscribe", "loop"}
  BY <1>1, JoinedIs DEF Alive
<1>5. /\ DomainsOK' /\ cage'[w] = IF all THEN Some(Cage(inv[w][1], found)) ELSE Nil
      /\ \A v \in Wrapper \ {w} : SameCage(v)
  BY <1>1, <1>3 DEF DomainsOK, SameCage
<1>6. OwnPort(w)'
  BY <1>1, <1>2, <1>4 DEF OwnPort, CageInv
<1>7. ASSUME all PROVE CageBuilt(w)'
  <2>1. PICK f : f = found
    OBVIOUS
  <2>2. ASSUME NEW name \in FragmentNames PROVE frags[name] = Some(f[name]) /\ IsFragment(name, f[name])
    <3>1. name \in DOMAIN frags /\ FragmentOK(name) /\ frags[name] # Nil
      BY <1>3, <1>7 DEF SharedOK, CageInv
    <3>2. PICK r : frags[name] = Some(r) /\ IsFragment(name, r)
      BY <3>1 DEF FragmentOK
    <3>3. f[name] = r
      BY <2>1, <3>1, <3>2, SomeIs
    <3> QED BY <3>2, <3>3
  <2>3. f["proxy"] = <<allowRule(port)>>
    <3>1. at[w].at > 1
      BY <1>3, <1>4, StagesAre DEF CageOK
    <3>2. frags["proxy"] \in {Nil, Some(<<allowRule(port)>>)} /\ "proxy" \in FragmentNames
      BY <1>4, <3>1, FragmentNamesAre DEF CageInv, OwnPort
    <3>3. frags["proxy"] = Some(f["proxy"])
      BY <2>2, <3>2
    <3>4. Some(f["proxy"]) = Some(<<allowRule(port)>>)
      BY <3>2, <3>3, SomeIs
    <3> QED BY <3>4, SomeIs
  <2>4. Whole(f)'
    <3>1. \A name \in FragmentNames : IsFragment(name, f[name])'
      BY <1>2, <2>2, FragmentGrows
    <3> QED BY <3>1 DEF Whole
  <2>5. cage'[w] = Some(Cage(inv'[w][1], f)) /\ f["proxy"] = <<allowRule(port')>>
    BY <1>1, <1>2, <1>5, <1>7, <2>1, <2>3
  <2> QED BY <2>4, <2>5 DEF CageBuilt
<1>8. \A files : WithFiles(w, files) => WithFiles(w, files)'
  BY <1>1, <1>2, WithFilesKept
<1>9. cage'[w] # Nil => CageBuilt(w)'
  BY <1>5, <1>7
<1>10. CageOK(w)'
  BY <1>1, <1>2, <1>3, <1>8, <1>9 DEF CageOK
<1> QED BY <1>1, <1>5, <1>6, <1>10, CageStepOf

LEMMA PreparedIs ==
    /\ Len(Prepared) = 6
    /\ \A i \in 1..6 : Prepared[i] \in FragmentNames \ {"network"}
    /\ \A i \in 1..6 : Prepared[i] = "proxy" <=> i = 1
<1>1. /\ Len(Prepared) = 6
      /\ Prepared[1] = "proxy" /\ Prepared[2] = "ca" /\ Prepared[3] = "keychain"
      /\ Prepared[4] = "claude" /\ Prepared[5] = "config-ro" /\ Prepared[6] = "broker"
  BY DEF Prepared
<1>2. \A i \in 1..6 : i = 1 \/ i = 2 \/ i = 3 \/ i = 4 \/ i = 5 \/ i = 6
  OBVIOUS
<1> QED BY <1>1, <1>2, FragmentNamesAre

\* What the launch writes to a fragment is what it may hold.
LEMMA FragmentIs ==
    ASSUME NEW name \in FragmentNames \ {"network"}, NEW c \in versions, NEW d \in versions,
           port \in Ports, NEW k, k = LaunchInputs(c, port, d.files),
           Fragment(name, k, world.caFile) # Nil
    PROVE  \E r : /\ Fragment(name, k, world.caFile) = Some(r) /\ IsFragment(name, r)
                  /\ name = "proxy" => r = <<allowRule(port)>>
<1> DEFINE body == Fragment(name, k, world.caFile)
<1>1. EvalSymlinks(k.home) = RealHome /\ k.port = port /\ k.configFiles = d.files
  <2>1. k.home = Home /\ k.port = port /\ k.configFiles = d.files
    BY DEF LaunchInputs
  <2> QED BY <2>1, EvalIs
<1>2. CASE name = "proxy"
  <2>1. body = RenderProxyFragment(port)
    BY <1>1, <1>2 DEF Fragment
  <2>2. body = Some(<<allowRule(port)>>)
    BY <2>1 DEF RenderProxyFragment
  <2>3. PICK r : r = <<allowRule(port)>>
    OBVIOUS
  <2>4. IsFragment(name, r)
    BY <1>2, <2>3 DEF IsFragment
  <2> QED BY <2>2, <2>3, <2>4
<1>3. CASE name = "ca"
  <2>1. body = RenderCAReadFragment(CAPath)
    BY <1>3 DEF Fragment, CAPath
  <2>2. \E r : body = Some(r)
    BY <2>1 DEF RenderCAReadFragment
  <2>3. PICK r : body = Some(r)
    BY <2>2
  <2>4. IsFragment(name, r)
    BY <1>3, <2>1, <2>3 DEF IsFragment
  <2> QED BY <1>3, <2>3, <2>4
<1>4. CASE name = "keychain"
  <2>1. body = RenderKeychainFragment(RealHome)
    BY <1>1, <1>4 DEF Fragment
  <2>2. \E r : body = Some(r)
    BY <2>1 DEF RenderKeychainFragment
  <2>3. PICK r : body = Some(r)
    BY <2>2
  <2>4. IsFragment(name, r)
    BY <1>4, <2>1, <2>3 DEF IsFragment
  <2> QED BY <1>4, <2>3, <2>4
<1>5. CASE name = "claude"
  <2>1. body = RenderClaudeStateFragment(RealHome)
    BY <1>1, <1>5 DEF Fragment
  <2>2. \E r : body = Some(r)
    BY <2>1 DEF RenderClaudeStateFragment
  <2>3. PICK r : body = Some(r)
    BY <2>2
  <2>4. IsFragment(name, r)
    BY <1>5, <2>1, <2>3 DEF IsFragment
  <2> QED BY <1>5, <2>3, <2>4
<1>6. CASE name = "config-ro"
  <2>1. body = RenderConfigReadOnlyFragment(d.files)
    BY <1>1, <1>6 DEF Fragment
  <2>2. \E r : body = Some(r)
    BY <2>1 DEF RenderConfigReadOnlyFragment
  <2>3. PICK r : body = Some(r)
    BY <2>2
  <2>4. IsFragment(name, r)
    BY <1>6, <2>1, <2>3 DEF IsFragment
  <2> QED BY <1>6, <2>3, <2>4
<1>7. CASE name = "broker"
  <2>1. body = RenderBrokerDenyFragment(BrokerSock)
    BY <1>7 DEF Fragment
  <2>2. \E r : body = Some(r)
    BY <2>1 DEF RenderBrokerDenyFragment
  <2>3. PICK r : body = Some(r)
    BY <2>2
  <2>4. IsFragment(name, r)
    BY <1>7, <2>1, <2>3 DEF IsFragment
  <2> QED BY <1>7, <2>3, <2>4
<1> QED BY <1>2, <1>3, <1>4, <1>5, <1>6, <1>7, FragmentNamesAre

\* A step of the launch that changes one fragment: it holds nothing, or what
\* it may hold.
LEMMA PrepareMoves ==
    ASSUME RunInv, CageInv, NEW w \in Wrapper, NEW name \in FragmentNames \ {"network"},
           NEW body, NEW next, NEW p \in {"prepare", "build"}, pc[w] = "prepare",
           frags' = [frags EXCEPT ![name] = body], at' = [at EXCEPT ![w] = next],
           pc'[w] = p, \A v \in Wrapper \ {w} : pc'[v] = pc[v],
           UNCHANGED <<world, config, versions, port, users, in, inv, leader, cage>>,
           body = Nil \/ \E r : body = Some(r) /\ IsFragment(name, r),
           name = "proxy" => body \in {Nil, Some(<<allowRule(port)>>)},
           p = "prepare" => next \in [at : 1..6, truncated : BOOLEAN],
           p = "build" => next.at > 1,
           next.at > 1 => at[w].at > 1 \/ name = "proxy"
    PROVE  CageInv'
<1>1. SharedOK /\ DomainsOK /\ CageOK(w)
  BY DEF CageInv
<1>2. /\ DOMAIN frags' = FragmentNames /\ frags'[name] = body
      /\ \A n \in FragmentNames : n # name => frags'[n] = frags[n]
  BY <1>1 DEF SharedOK
<1>3. DOMAIN at' = Wrapper /\ at'[w] = next /\ \A v \in Wrapper \ {w} : at'[v] = at[v]
  BY <1>1 DEF DomainsOK
<1>4. SharedOK' /\ DomainsOK'
  BY <1>1, <1>2, <1>3 DEF SharedOK, DomainsOK
<1>5. ASSUME NEW n \in FragmentNames PROVE FragmentOK(n)'
  <2>1. CASE n # name
    BY <1>2, <2>1, FragmentKept DEF CageInv
  <2>2. CASE n = name /\ body = Nil
    BY <1>2, <2>2 DEF FragmentOK
  <2>3. CASE n = name /\ body # Nil
    <3>1. PICK r : body = Some(r) /\ IsFragment(name, r)
      BY <2>3
    <3>2. IsFragment(n, r)'
      BY <2>3, <3>1, FragmentGrows
    <3> QED BY <1>2, <2>3, <3>1, <3>2 DEF FragmentOK
  <2> QED BY <2>1, <2>2, <2>3
<1>6. "proxy" \in FragmentNames
  BY FragmentNamesAre
<1>7. w \in users
  BY JoinedIs, StagesAre
<1>8. ASSUME NEW u \in users' PROVE OwnPort(u)'
  <2>1. u \in users /\ u \in Wrapper /\ OwnPort(u)
    BY <1>1 DEF CageInv, SharedOK
  <2>2. CASE name = "proxy"
    BY <1>2, <2>2 DEF OwnPort
  <2>3. CASE name # "proxy"
    <3>1. frags'["proxy"] = frags["proxy"]
      BY <1>2, <1>6, <2>3
    <3>2. at'[u].at > 1 => at[u].at > 1
      BY <1>3, <2>1, <2>3
    <3> QED BY <2>1, <3>1, <3>2 DEF OwnPort
  <2> QED BY <2>2, <2>3
<1>9. \A v \in Wrapper \ {w} : SameCage(v)
  BY <1>3 DEF SameCage
<1>10. \E c \in versions' : WithFiles(w, c.files)'
  <2>1. PICK c \in versions : WithFiles(w, c.files)
    BY <1>1, StagesAre DEF CageOK
  <2> QED BY <2>1, WithFilesKept
<1>11. CageOK(w)'
  <2>1. leader'[w] # "running"
    BY NotRunning
  <2>2. p \notin Early /\ p \notin Loaded /\ p # "files" /\ p \notin Built
    BY StagesAre DEF Built, Loaded
  <2>3. p \in Ready => next.at > 1
    BY StagesAre
  <2> QED BY <1>3, <1>10, <2>1, <2>2, <2>3 DEF CageOK
<1> QED BY <1>4, <1>5, <1>8, <1>9, <1>11, SharedStep

LEMMA PrepareKeeps ==
    ASSUME RunInv, CageInv, NEW w \in Wrapper, Prepare(w)
    PROVE  CageInv'
<1> DEFINE name0 == Prepared[at[w].at]
           body0 == Fragment(name0, in[w][1], world.caFile)
<1>1. /\ pc[w] = "prepare"
      /\ IF body0 = Nil THEN Fail(w) /\ UNCHANGED <<frags, at>>
         ELSE IF ~at[w].truncated
         THEN /\ frags' = [frags EXCEPT ![name0] = Nil]
              /\ at' = [at EXCEPT ![w].truncated = TRUE]
              /\ UNCHANGED pc
         ELSE /\ frags' = [frags EXCEPT ![name0] = body0]
              /\ at' = [at EXCEPT ![w] = [at |-> @.at + 1, truncated |-> FALSE]]
              /\ IF at[w].at < Len(Prepared) THEN UNCHANGED pc ELSE Go(w, "prepare")
      /\ UNCHANGED <<world, config, versions, port, users, in, inv, leader, cage>>
  BY DEF Prepare
<1>2. SharedOK /\ DomainsOK /\ CageOK(w)
  BY DEF CageInv
<1>3. at[w] \in [at : 1..6, truncated : BOOLEAN]
  BY <1>1, <1>2 DEF CageOK
<1>4. PICK i \in 1..6 : at[w].at = i
  BY <1>3
<1>5. PICK name \in FragmentNames \ {"network"} : name = name0 /\ (name = "proxy" <=> i = 1)
  BY <1>4, PreparedIs
<1>6. CASE body0 = Nil
  BY <1>1, <1>6, CageFails DEF shared
<1>7. CASE body0 # Nil /\ ~at[w].truncated
  <2> DEFINE next0 == [at[w] EXCEPT !.truncated = TRUE]
             p == "prepare"
             none == Nil
  <2>1. /\ frags' = [frags EXCEPT ![name] = none] /\ at' = [at EXCEPT ![w] = next0]
        /\ pc' = pc /\ pc'[w] = p
    BY <1>1, <1>5, <1>7, <1>2 DEF DomainsOK
  <2>2. next0 \in [at : 1..6, truncated : BOOLEAN] /\ next0.at = at[w].at
    BY <1>3
  <2>3. p \in {"prepare", "build"} /\ p # "build"
    OBVIOUS
  <2> HIDE DEF p, next0
  <2>4. PICK next : next = next0
    OBVIOUS
  <2> QED BY <1>1, <2>1, <2>2, <2>3, <2>4, PrepareMoves
<1>8. CASE body0 # Nil /\ at[w].truncated
  <2> DEFINE next0 == [at |-> i + 1, truncated |-> FALSE]
  <2>1. frags' = [frags EXCEPT ![name] = body0] /\ at' = [at EXCEPT ![w] = next0]
    BY <1>1, <1>2, <1>4, <1>5, <1>8 DEF DomainsOK
  <2>2. PICK p \in {"prepare", "build"} : /\ pc'[w] = p /\ (p = "prepare" => i < 6)
                                          /\ \A v \in Wrapper \ {w} : pc'[v] = pc[v]
    <3>1. CASE i < 6
      <4>1. pc' = pc
        BY <1>1, <1>4, <1>8, <3>1, PreparedIs
      <4> QED BY <1>1, <3>1, <4>1
    <3>2. CASE ~(i < 6)
      <4>1. Go(w, "prepare")
        BY <1>1, <1>4, <1>8, <3>2, PreparedIs
      <4>2. pc'[w] = "build" /\ \A v \in Wrapper \ {w} : pc'[v] = pc[v]
        BY <4>1, GoIs, Order
      <4> QED BY <4>2
    <3> QED BY <3>1, <3>2
  <2>3. next0.at = i + 1 /\ (p = "prepare" => next0 \in [at : 1..6, truncated : BOOLEAN])
    BY <2>2
  <2>4. i + 1 > 1 /\ (i > 1 \/ i = 1)
    OBVIOUS
  <2>5. port \in Ports
    <3>1. w \in users
      BY <1>1, JoinedIs, StagesAre
    <3> QED BY <1>2, <3>1 DEF SharedOK
  <2>6. PICK d \in versions : WithFiles(w, d.files)
    BY <1>1, <1>2, StagesAre DEF CageOK
  <2>7. PICK c \in versions : in[w] = Some(LaunchInputs(c, port, d.files))
    BY <2>6 DEF WithFiles
  <2>8. PICK k : k = in[w][1]
    OBVIOUS
  <2>9. k = LaunchInputs(c, port, d.files)
    BY <2>7, <2>8, SomeIs
  <2>10. body0 = Fragment(name, k, world.caFile)
    BY <1>5, <2>8
  <2> HIDE DEF body0, next0
  <2>11. PICK r : /\ body0 = Some(r) /\ IsFragment(name, r)
                  /\ name = "proxy" => r = <<allowRule(port)>>
    BY <1>8, <2>5, <2>9, <2>10, FragmentIs
  <2>12. PICK body : body = body0
    OBVIOUS
  <2>13. PICK next : next = next0
    OBVIOUS
  <2>14. next.at > 1 /\ (next.at > 1 => at[w].at > 1 \/ name = "proxy")
    BY <1>4, <1>5, <2>3, <2>4, <2>13
  <2>15. name = "proxy" => body \in {Nil, Some(<<allowRule(port)>>)}
    BY <2>11, <2>12
  <2> QED BY <1>1, <2>1, <2>2, <2>3, <2>11, <2>12, <2>13, <2>14, <2>15, PrepareMoves
<1> QED BY <1>6, <1>7, <1>8

LEMMA CageInvInit == RunInit(Worlds) => CageInv
<1> SUFFICES ASSUME RunInit(Worlds) PROVE CageInv
  OBVIOUS
<1>1. /\ world \in Worlds /\ config \in FirstConfigs /\ versions = {config}
      /\ frags = [n \in FragmentNames |-> Nil] /\ users = {}
      /\ pc = All("check") /\ in = All(Nil) /\ inv = All(Nil) /\ at = All(Next1)
      /\ leader = All("none") /\ cage = All(Nil)
  BY DEF RunInit, FragmentNames
<1>2. SharedOK
  BY <1>1, ConfigsAssumption DEF SharedOK
<1>3. DomainsOK
  BY <1>1 DEF DomainsOK, All
<1>4. \A name \in FragmentNames : FragmentOK(name)
  BY <1>1 DEF FragmentOK
<1>5. ASSUME NEW w \in Wrapper PROVE CageOK(w)
  <2>1. pc[w] = "check" /\ at[w] = Next1 /\ leader[w] = "none"
    BY <1>1 DEF All
  <2>2. /\ "check" \notin Loaded /\ "check" \notin Launching /\ "check" \notin Ready
        /\ "check" \notin Built
    BY StagesAre DEF Built, Loaded
  <2> QED BY <2>1, <2>2 DEF CageOK
<1> QED BY <1>1, <1>2, <1>3, <1>4, <1>5 DEF CageInv

LEMMA CageStutters ==
    ASSUME RunInv, CageInv, UNCHANGED runVars
    PROVE  CageInv'
<1>1. UNCHANGED <<world, config, versions, frags, port, users, pc, in, inv, at, leader, cage>>
  BY DEF runVars, shared, own
<1>2. SharedOK' /\ DomainsOK'
  BY <1>1 DEF CageInv, SharedOK, DomainsOK
<1>3. \A name \in FragmentNames : FragmentOK(name)'
  BY <1>1, FragmentKept DEF CageInv
<1>4. \A u \in users' : OwnPort(u)'
  BY <1>1 DEF OwnPort, CageInv
<1>5. ASSUME NEW v \in Wrapper PROVE CageOK(v)'
  <2>1. SameCage(v) /\ CageOK(v)
    BY <1>1 DEF SameCage, CageInv
  <2> QED BY <1>1, <2>1, OtherKept
<1> QED BY <1>2, <1>3, <1>4, <1>5 DEF CageInv

LEMMA CageInvStep == RunInv /\ CageInv /\ [RunNext]_runVars => CageInv'
<1> SUFFICES ASSUME RunInv, CageInv, [RunNext]_runVars PROVE CageInv'
  OBVIOUS
<1>1. ASSUME NEW w \in Wrapper, StartStep(w) PROVE CageInv'
  BY <1>1, QuietStartKeeps, LoadKeeps, ProfileKeeps, AttachKeeps, ResolveKeeps, FilesKeep,
     PrepareKeeps, BuildKeeps DEF StartStep
<1>2. ASSUME NEW w \in Wrapper, EndStep(w) PROVE CageInv'
  BY <1>2, QuietEndKeeps, UndoCage DEF EndStep
<1>3. ASSUME NEW w \in Wrapper,
             StepFails(w) \/ Signal(w) \/ LeaderExits(w) \/ LeaderDies(w)
      PROVE  CageInv'
  BY <1>3, QuietEndKeeps
<1>4. ASSUME NEW w \in Wrapper, SafehouseReads(w) PROVE CageInv'
  BY <1>4, ReadsKeep
<1>5. CASE Edit
  BY <1>5, EditKeeps
<1>6. CASE UNCHANGED runVars
  BY <1>6, CageStutters
<1> QED BY <1>1, <1>2, <1>3, <1>4, <1>5, <1>6 DEF RunNext

\* What the invariant says of a cage that runs is what the battery probes for.
LEMMA CageInvSafe == RunInv /\ CageInv => CageAsPromised
<1> SUFFICES ASSUME RunInv, CageInv, NEW w \in Wrapper, cage[w] # Nil, leader[w] = "running"
             PROVE  LET rules == cage[w][1]
                        mine == in[w][1].port
                        declared == UNION {PortsOf(c) : c \in versions}
                    IN /\ \A p \in Blocked(ClosedPorts \ (declared \cup {mine}),
                                           RealHome \o <<"other">>) \cup Frozen(w) :
                            ~Permits(rules, p.op, p.target)
                       /\ \A p \in Allowed(OpenPorts \cup {mine}) :
                            (p.id = "env-ca" /\ ~world.caFile) \/ Permits(rules, p.op, p.target)
                       /\ \A v \in ProxyVars : inv[w][1].env[v] = Port("127.0.0.1", port)
                       /\ mine = port
  BY DEF CageAsPromised
<1>1. SharedOK /\ CageOK(w)
  BY DEF CageInv
<1>2. w \in users /\ pc[w] \in {"subscribe", "loop"}
  BY JoinedIs DEF Alive
<1>3. world \in Worlds /\ versions \subseteq Configs /\ port \in Ports
  BY <1>1, <1>2 DEF SharedOK
<1>4. inv[w] = Build(in[w][1]) /\ inv[w] # Nil
  BY <1>1, <1>2 DEF CageOK, Built
<1>5. PICK d \in versions : WithFiles(w, d.files)
  BY <1>1, <1>2, StagesAre DEF CageOK
<1>6. PICK c \in versions : in[w] = Some(LaunchInputs(c, port, d.files))
  BY <1>5 DEF WithFiles
<1>7. PICK f : /\ Whole(f) /\ f["proxy"] = <<allowRule(port)>>
               /\ cage[w] = Some(Cage(inv[w][1], f))
  BY <1>1 DEF CageOK, CageBuilt
<1>8. in[w][1] = LaunchInputs(c, port, d.files) /\ cage[w][1] = Cage(inv[w][1], f)
  BY <1>6, <1>7, SomeIs
<1>9. LaunchInputs(c, port, d.files).port = port
  BY DEF LaunchInputs
<1> DEFINE made == Build(LaunchInputs(c, port, d.files))[1]
<1>10. inv[w][1] = made /\ Build(LaunchInputs(c, port, d.files)) # Nil
  BY <1>4, <1>8
<1>11. \A v \in ProxyVars : made.env[v] = Port("127.0.0.1", port)
  BY <1>3, <1>10, BuildIs
<1>12. \A b \in Blocked(ClosedPorts \ ((UNION {PortsOf(e) : e \in versions}) \cup {port}),
                        RealHome \o <<"other">>) \cup Frozen(w) :
           ~Permits(Cage(made, f), b.op, b.target)
  BY <1>3, <1>7, <1>10, BlockedIsRefused
<1>13. \A b \in Allowed(OpenPorts \cup {port}) :
           (b.id = "env-ca" /\ ~world.caFile) \/ Permits(Cage(made, f), b.op, b.target)
  BY <1>3, <1>7, <1>10, AllowedIsGranted
<1> HIDE DEF made
<1>14. in[w][1].port = port /\ cage[w][1] = Cage(made, f) /\ inv[w][1] = made
  BY <1>8, <1>9, <1>10
<1> QED BY <1>11, <1>12, <1>13, <1>14

\* A cage whose fragments were whole holds what was promised of it.
THEOREM CageCorrect == RunSpec => []CageAsPromised
<1>1. RunInv /\ [RunNext]_runVars => RunInv'
  BY RunInvStep
<1>2. RunInit(Worlds) => RunInv /\ CageInv
  BY RunInvInit, CageInvInit
<1> QED
  BY <1>1, <1>2, CageInvStep, CageInvSafe, PTL DEF RunSpec

-----------------------------------------------------------------------------
(***************************************************************************)
(* EnforcerFlow: the invariant.  What is known of a flow grows with its    *)
(* stage: nothing is decided early; who waits for the broker holds the     *)
(* rule and the credential of the policy that decided, whatever is in      *)
(* force now; who goes on to the server has the header that policy asks    *)
(* for.                                                                    *)
(***************************************************************************)

FlowFields == DOMAIN NewFlow

Phantom == [h \in {"Authorization", "X-Key"} |-> <<"phantom">>]

Policy(g) == RuleSets[g.by]
Decided(g) == Py_decide(Policy(g), g.req[1])
RuleFor(g) == Policy(g).allow[Decided(g).index]

LetIn(g) == Decided(g).decision = "allow"
Sent(g) == g.upstream # Nil => LetIn(g) /\ g.upstream[1] = Expected(Policy(g), Decided(g))

Untouched(g) ==
    g.upstream = Nil /\ ~g.tunnel /\ g.response = Nil /\ g.log = <<>>

Judged(g) ==
    g.by \in DOMAIN RuleSets /\ g.verdict = Some(Decided(g))

\* Only a flow in which a hook raised, and that went nowhere, may have no
\* verdict.
Ruled(g) == ~g.raised \/ g.upstream # Nil => Judged(g)

\* The status a client sees of a request that was decided, if no hook raised.
StatusFor(g, status) ==
    status \in CASE Decided(g).decision = "allow" -> {200, 401, 472}
                 [] Decided(g).decision = "soft-deny" -> {470}
                 [] OTHER -> {471}

\* A host that was tunnelled, or refused, as a whole.
WholeHost(g, decision) ==
    /\ g.by \in DOMAIN RuleSets
    /\ HostDecided(Policy(g), g.req[1].host, decision)

EarlyOK(g) == g.stage \in {"new", "connect", "hello", "request"} => Untouched(g)

AskedOK(g) ==
    /\ g.stage # "new" => g.req[1] \in Asked
    /\ g.stage \in {"connect", "hello", "request", "broker"} => g.header = Phantom

BrokerOK(g) ==
    g.stage = "broker" =>
        /\ Untouched(g) /\ Judged(g) /\ LetIn(g)
        /\ ~RuleFor(g).in_cage /\ RuleFor(g).inject # ""
        /\ g.injected = RuleFor(g).inject
        /\ g.cred = Some(Policy(g).credentials[RuleFor(g).inject])

ForwardOK(g) ==
    g.stage = "forward" =>
        /\ Untouched(g) /\ Judged(g) /\ LetIn(g)
        /\ g.header = Expected(Policy(g), Decided(g))

UpstreamOK(g) ==
    g.stage = "upstream" =>
        /\ Judged(g) /\ LetIn(g)
        /\ g.upstream[1] = Expected(Policy(g), Decided(g))
        /\ ~g.tunnel /\ g.response = Nil /\ g.log = <<>>

ResponseOK(g) ==
    g.stage = "response" =>
        /\ Ruled(g) /\ Sent(g)
        /\ ~g.tunnel /\ g.response # Nil /\ g.log = <<>>
        /\ ~g.raised => StatusFor(g, g.response[1].status)

Logged(g) ==
    /\ Len(g.log) = 1
    /\ \/ g.log[1].status = 0 /\ WholeHost(g, g.log[1].decision)
       \/ /\ Judged(g)
          /\ g.log[1].decision = Decided(g).decision
          /\ g.log[1].status = g.response[1].status
          /\ StatusFor(g, g.response[1].status)

DoneOK(g) ==
    g.stage = "done" =>
        /\ g.upstream # Nil => Judged(g) /\ Sent(g)
        /\ g.tunnel => g.log[1].decision = "allow"
        /\ ~g.raised /\ (g.response = Nil => g.tunnel) => Logged(g)

Stages == {"new", "connect", "hello", "request", "broker", "forward",
           "upstream", "response", "done"}

FlowOK(g) ==
    /\ DOMAIN g = FlowFields /\ g.stage \in Stages
    /\ EarlyOK(g) /\ AskedOK(g) /\ BrokerOK(g) /\ ForwardOK(g)
    /\ UpstreamOK(g) /\ ResponseOK(g) /\ DoneOK(g)

FlowInv ==
    /\ ruleset \in DOMAIN RuleSets
    /\ DOMAIN flow = Flow
    /\ \A f \in Flow : FlowOK(flow[f])

-----------------------------------------------------------------------------
LEMMA FieldsAre ==
    FlowFields = {"stage", "req", "sni", "header", "verdict", "by", "cred",
              "injected", "tunnel", "upstream", "response", "log", "raised"}
BY DEF FlowFields, NewFlow

LEMMA FlowInvInit == FlowInit(Flow, DOMAIN RuleSets) => FlowInv
<1> SUFFICES ASSUME FlowInit(Flow, DOMAIN RuleSets) PROVE FlowInv
  OBVIOUS
<1>1. FlowOK(NewFlow)
  <2>1. NewFlow.stage = "new" /\ Untouched(NewFlow)
    BY DEF NewFlow, Untouched
  <2> QED
    BY <2>1 DEF FlowOK, Stages, FlowFields, EarlyOK, AskedOK, BrokerOK, ForwardOK,
                UpstreamOK, ResponseOK, DoneOK
<1> QED
  BY <1>1 DEF FlowInit, FlowInv

\* Only one flow takes a step.
LEMMA FlowStepOf ==
    ASSUME FlowInv, NEW f \in Flow, NEW g, Step(f, g), FlowOK(g),
           ruleset' = ruleset
    PROVE  FlowInv'
BY DEF FlowInv, Step

\* The two matchers agree on the policies and the requests there are.
LEMMA MatchersAgree ==
    ASSUME NEW rs \in Elements(RuleSets), NEW q \in Asked
    PROVE  Decide(rs, q) = Py_decide(rs, q)
BY RuleSetsAssumption, SameDecide

LEMMA FlowInvSafe ==
    ASSUME FlowInv
    PROVE  FlowAsDecided
<1> SUFFICES ASSUME NEW f \in Flow PROVE
        LET g == flow[f]
            rs == RuleSets[g.by]
            result == Decide(rs, g.req[1])
        IN /\ g.upstream # Nil =>
                /\ result.decision = "allow"
                /\ g.upstream[1] = Expected(rs, result)
           /\ g.tunnel => g.log[1].decision = "allow"
           /\ g.stage = "done" /\ ~g.raised /\ (g.response = Nil => g.tunnel) =>
                /\ Len(g.log) = 1
                /\ \/ /\ g.log[1].status = 0
                      /\ HostDecided(rs, g.req[1].host, g.log[1].decision)
                   \/ /\ g.log[1].decision = result.decision
                      /\ g.log[1].status = g.response[1].status
                      /\ g.response[1].status \in
                            CASE result.decision = "allow" -> {200, 401, 472}
                              [] result.decision = "soft-deny" -> {470}
                              [] OTHER -> {471}
  BY DEF FlowInv, FlowAsDecided
<1> DEFINE g == flow[f]
<1>1. FlowOK(g)
  BY DEF FlowInv
<1>2. g.stage # "new" /\ g.by \in DOMAIN RuleSets =>
        Decide(Policy(g), g.req[1]) = Decided(g)
  BY <1>1, MatchersAgree DEF FlowOK, AskedOK, Elements, Decided, Policy
<1>3. CASE g.stage \in {"new", "connect", "hello", "request", "broker", "forward"}
  <2>1. Untouched(g)
    BY <1>1, <1>3 DEF FlowOK, EarlyOK, BrokerOK, ForwardOK
  <2> QED
    BY <1>3, <2>1 DEF Untouched
<1>4. CASE g.stage = "upstream"
  <2>1. /\ Judged(g) /\ LetIn(g)
        /\ g.upstream[1] = Expected(Policy(g), Decided(g)) /\ ~g.tunnel
    BY <1>1, <1>4 DEF FlowOK, UpstreamOK
  <2>2. Decide(Policy(g), g.req[1]) = Decided(g)
    BY <1>2, <1>4, <2>1 DEF Judged
  <2> QED
    BY <1>4, <2>1, <2>2 DEF LetIn, Policy
<1>5. CASE g.stage = "response"
  <2>1. (g.upstream # Nil => Judged(g)) /\ Sent(g) /\ ~g.tunnel
    BY <1>1, <1>5 DEF FlowOK, ResponseOK, Ruled
  <2>2. g.upstream # Nil => Decide(Policy(g), g.req[1]) = Decided(g)
    BY <1>2, <1>5, <2>1 DEF Judged
  <2> QED
    BY <1>5, <2>1, <2>2 DEF Sent, LetIn, Policy
<1>6. CASE g.stage = "done"
  <2>1. /\ g.upstream # Nil => Judged(g) /\ Sent(g)
        /\ g.tunnel => g.log[1].decision = "allow"
        /\ ~g.raised /\ (g.response = Nil => g.tunnel) => Logged(g)
    BY <1>1, <1>6 DEF FlowOK, DoneOK
  <2>2. Judged(g) => Decide(Policy(g), g.req[1]) = Decided(g)
    BY <1>2, <1>6 DEF Judged
  <2>3. g.upstream # Nil =>
            /\ Decide(RuleSets[g.by], g.req[1]).decision = "allow"
            /\ g.upstream[1] = Expected(RuleSets[g.by], Decide(RuleSets[g.by], g.req[1]))
    BY <2>1, <2>2 DEF Sent, LetIn, Policy
  <2>4. ASSUME Logged(g)
        PROVE  /\ Len(g.log) = 1
               /\ \/ /\ g.log[1].status = 0
                     /\ HostDecided(RuleSets[g.by], g.req[1].host, g.log[1].decision)
                  \/ /\ g.log[1].decision = Decide(RuleSets[g.by], g.req[1]).decision
                     /\ g.log[1].status = g.response[1].status
                     /\ g.response[1].status \in
                          CASE Decide(RuleSets[g.by], g.req[1]).decision = "allow" -> {200, 401, 472}
                            [] Decide(RuleSets[g.by], g.req[1]).decision = "soft-deny" -> {470}
                            [] OTHER -> {471}
    <3>1. CASE g.log[1].status = 0 /\ WholeHost(g, g.log[1].decision)
      BY <2>4, <3>1 DEF Logged, WholeHost, Policy
    <3>2. CASE /\ Judged(g)
               /\ g.log[1].decision = Decided(g).decision
               /\ g.log[1].status = g.response[1].status
               /\ StatusFor(g, g.response[1].status)
      BY <2>2, <2>4, <3>2 DEF Logged, StatusFor, Policy
    <3> QED
      BY <2>4, <3>1, <3>2 DEF Logged
  <2> QED
    BY <2>1, <2>3, <2>4
<1> QED
  BY <1>1, <1>3, <1>4, <1>5, <1>6 DEF FlowOK, Stages

-----------------------------------------------------------------------------
(***************************************************************************)
(* The hooks                                                               *)
(***************************************************************************)

LEMMA SomeOf ==
    ASSUME NEW x, NEW y, y = Some(x)
    PROVE  y[1] = x
BY DEF Some

LEMMA StatusOf ==
    ASSUME NEW status, NEW injected
    PROVE  /\ FromUpstream(status, injected).status = status
           /\ injection_unavailable(injected).status = 472
BY DEF FromUpstream, injection_unavailable, CageResponse

LEMMA LogOfOne ==
    ASSUME NEW decision, NEW status, NEW log,
           log = Append(<<>>, [decision |-> decision, status |-> status])
    PROVE  Len(log) = 1 /\ log[1].decision = decision /\ log[1].status = status
<1> DEFINE e == [decision |-> decision, status |-> status]
<1>1. Len(Append(<<>>, e)) = 1 /\ Append(<<>>, e)[1] = e
  OBVIOUS
<1>2. e.decision = decision /\ e.status = status
  OBVIOUS
<1> QED
  BY <1>1, <1>2

\* What CONNECT finds out about a host holds for the requests to it.
LEMMA HostKnown ==
    ASSUME FlowInv, NEW q \in Asked
    PROVE  LET disp == Py_host_disposition(InForce, q.host)
           IN /\ disp.passthrough /\ disp.deny_reason = Nil =>
                    HostDecided(InForce, q.host, "allow")
              /\ disp.deny_reason # Nil => HostDecided(InForce, q.host, "hard-deny")
<1> DEFINE disp == Py_host_disposition(InForce, q.host)
<1>1. /\ RulesOK(InForce.allow) /\ RulesOK(InForce.deny)
      /\ \A r \in Asked : r \in RequestTypes /\ r.host \in Hosts
  BY RuleSetsAssumption DEF FlowInv, InForce, Elements, RequestTypes
<1> HIDE DEF disp
<1>2. ASSUME disp.passthrough, disp.deny_reason = Nil
      PROVE  HostDecided(InForce, q.host, "allow")
  <2>1. ASSUME NEW r \in Asked, r.host = q.host
        PROVE  Decide(InForce, r).decision = "allow"
    BY <1>1, <1>2, <2>1, TunnelAllowed DEF disp
  <2> QED BY <2>1 DEF HostDecided
<1>3. ASSUME disp.deny_reason # Nil
      PROVE  HostDecided(InForce, q.host, "hard-deny")
  <2>1. PICK d \in HostLevel(InForce.deny) : matchHost(d.host, canonicalHost(q.host))
    BY <1>1, <1>3, ReasonOfRule DEF disp
  <2>2. ASSUME NEW r \in Asked, r.host = q.host, matchMethod(d.methods, r.method)
        PROVE  Decide(InForce, r).decision = "hard-deny"
    BY <1>1, <2>1, <2>2, DeniedByHost
  <2> QED BY <2>1, <2>2 DEF HostDecided
<1> QED BY <1>2, <1>3 DEF disp

LEMMA BeginKeeps ==
    ASSUME FlowInv, NEW f \in Flow, Begin(f)
    PROVE  FlowInv'
<1> DEFINE g == flow[f]
<1>1. PICK req \in Asked, sni \in BOOLEAN, stage \in {"connect", "request"} :
        Step(f, [g EXCEPT !.stage = stage, !.req = Some(req), !.sni = sni,
                          !.header = Phantom])
  BY DEF Begin, Phantom
<1> DEFINE h == [g EXCEPT !.stage = stage, !.req = Some(req), !.sni = sni,
                          !.header = Phantom]
<1>2. FlowOK(g) /\ g.stage = "new" /\ Untouched(g)
  BY DEF FlowInv, Begin, FlowOK, EarlyOK
<1>3. /\ DOMAIN h = FlowFields /\ h.stage = stage /\ h.req = Some(req) /\ h.header = Phantom
      /\ h.upstream = g.upstream /\ h.tunnel = g.tunnel
      /\ h.response = g.response /\ h.log = g.log
  BY <1>2, FieldsAre DEF FlowOK
<1>4. Untouched(h) /\ h.req[1] \in Asked
  BY <1>2, <1>3 DEF Untouched, Some
<1> HIDE DEF h
<1>5. FlowOK(h)
  BY <1>3, <1>4 DEF FlowOK, Stages, EarlyOK, AskedOK, BrokerOK, ForwardOK,
                    UpstreamOK, ResponseOK, DoneOK
<1>6. Step(f, h) /\ ruleset' = ruleset
  BY <1>1 DEF Begin, Quiet, h
<1> QED
  BY <1>5, <1>6, FlowStepOf

LEMMA ConnectKeeps ==
    ASSUME FlowInv, NEW f \in Flow, http_connect(f)
    PROVE  FlowInv'
<1> DEFINE g == flow[f]
           disp == Py_host_disposition(InForce, g.req[1].host)
           x == [g EXCEPT !.by = ruleset]
           h == Entry(Refused(x), "hard-deny", 0)
           k == [g EXCEPT !.stage = "hello"]
<1>1. /\ FlowOK(g) /\ g.stage = "connect" /\ Untouched(g)
      /\ g.req[1] \in Asked /\ g.header = Phantom
  BY DEF FlowInv, http_connect, FlowOK, EarlyOK, AskedOK
<1>2. /\ Step(f, IF disp.passthrough /\ disp.deny_reason # Nil THEN h ELSE k)
      /\ ruleset' = ruleset
  BY DEF http_connect, Quiet
<1>3. CASE disp.passthrough /\ disp.deny_reason # Nil
  <2>1. /\ DOMAIN h = FlowFields /\ h.stage = "done" /\ h.by = ruleset
        /\ h.req = g.req /\ h.upstream = g.upstream /\ h.tunnel = g.tunnel
        /\ h.log = Append(g.log, [decision |-> "hard-deny", status |-> 0])
    BY <1>1, FieldsAre DEF FlowOK, Entry, Refused, Answered
  <2>2. /\ Len(h.log) = 1
        /\ h.log[1].decision = "hard-deny" /\ h.log[1].status = 0
    <3>1. h.log = Append(<<>>, [decision |-> "hard-deny", status |-> 0])
      BY <1>1, <2>1 DEF Untouched
    <3> HIDE DEF h
    <3> QED
      BY <3>1, LogOfOne
  <2>3. h.upstream = Nil /\ ~h.tunnel
    BY <1>1, <2>1 DEF Untouched
  <2>4. WholeHost(h, "hard-deny")
    BY <1>1, <1>3, <2>1, HostKnown DEF WholeHost, Policy, InForce, FlowInv
  <2> HIDE DEF h
  <2>5. FlowOK(h)
    BY <1>1, <2>1, <2>2, <2>3, <2>4
       DEF FlowOK, Stages, EarlyOK, AskedOK, BrokerOK, ForwardOK, UpstreamOK,
           ResponseOK, DoneOK, Logged
  <2> QED
    BY <1>2, <1>3, <2>5, FlowStepOf
<1>4. CASE ~(disp.passthrough /\ disp.deny_reason # Nil)
  <2>1. /\ DOMAIN k = FlowFields /\ k.stage = "hello"
        /\ k.req = g.req /\ k.header = g.header /\ k.upstream = g.upstream
        /\ k.tunnel = g.tunnel /\ k.response = g.response /\ k.log = g.log
    BY <1>1, FieldsAre DEF FlowOK
  <2>2. Untouched(k)
    BY <1>1, <2>1 DEF Untouched
  <2> HIDE DEF k
  <2>3. FlowOK(k)
    BY <1>1, <2>1, <2>2
       DEF FlowOK, Stages, EarlyOK, AskedOK, BrokerOK, ForwardOK, UpstreamOK,
           ResponseOK, DoneOK
  <2> QED
    BY <1>2, <1>4, <2>3, FlowStepOf
<1> QED
  BY <1>3, <1>4

LEMMA HelloKeeps ==
    ASSUME FlowInv, NEW f \in Flow, tls_clienthello(f)
    PROVE  FlowInv'
<1> DEFINE g == flow[f]
           disp == Py_host_disposition(InForce, g.req[1].host)
           x == [g EXCEPT !.stage = "done", !.tunnel = TRUE, !.by = ruleset]
           h == Entry(x, "allow", 0)
           k == [g EXCEPT !.stage = "request"]
           opens == g.sni /\ disp.passthrough /\ disp.deny_reason = Nil
<1>1. /\ FlowOK(g) /\ g.stage = "hello" /\ Untouched(g)
      /\ g.req[1] \in Asked /\ g.header = Phantom
  BY DEF FlowInv, tls_clienthello, FlowOK, EarlyOK, AskedOK
<1>2. Step(f, IF opens THEN h ELSE k) /\ ruleset' = ruleset
  BY DEF tls_clienthello, Quiet
<1>3. CASE opens
  <2>1. /\ DOMAIN h = FlowFields /\ h.stage = "done" /\ h.by = ruleset
        /\ h.req = g.req /\ h.upstream = g.upstream
        /\ h.log = Append(g.log, [decision |-> "allow", status |-> 0])
    BY <1>1, FieldsAre DEF FlowOK, Entry
  <2>2. /\ Len(h.log) = 1
        /\ h.log[1].decision = "allow" /\ h.log[1].status = 0
    <3>1. h.log = Append(<<>>, [decision |-> "allow", status |-> 0])
      BY <1>1, <2>1 DEF Untouched
    <3> HIDE DEF h
    <3> QED
      BY <3>1, LogOfOne
  <2>3. h.upstream = Nil
    BY <1>1, <2>1 DEF Untouched
  <2>4. WholeHost(h, "allow")
    BY <1>1, <1>3, <2>1, HostKnown DEF WholeHost, Policy, InForce, FlowInv
  <2> HIDE DEF h
  <2>5. FlowOK(h)
    BY <1>1, <2>1, <2>2, <2>3, <2>4
       DEF FlowOK, Stages, EarlyOK, AskedOK, BrokerOK, ForwardOK, UpstreamOK,
           ResponseOK, DoneOK, Logged
  <2> QED
    BY <1>2, <1>3, <2>5, FlowStepOf
<1>4. CASE ~opens
  <2>1. /\ DOMAIN k = FlowFields /\ k.stage = "request"
        /\ k.req = g.req /\ k.header = g.header /\ k.upstream = g.upstream
        /\ k.tunnel = g.tunnel /\ k.response = g.response /\ k.log = g.log
    BY <1>1, FieldsAre DEF FlowOK
  <2>2. Untouched(k)
    BY <1>1, <2>1 DEF Untouched
  <2> HIDE DEF k
  <2>3. FlowOK(k)
    BY <1>1, <2>1, <2>2
       DEF FlowOK, Stages, EarlyOK, AskedOK, BrokerOK, ForwardOK, UpstreamOK,
           ResponseOK, DoneOK
  <2> QED
    BY <1>2, <1>4, <2>3, FlowStepOf
<1> QED
  BY <1>3, <1>4

\* A flow with a response that decided it, and that the server may have seen.
LEMMA AnsweredOK ==
    ASSUME NEW g, DOMAIN g = FlowFields, NEW r, g.req[1] \in Asked, Ruled(g), Sent(g),
           ~g.tunnel, g.log = <<>>, ~g.raised => StatusFor(g, r.status)
    PROVE  FlowOK(Answered(g, r))
<1> DEFINE h == Answered(g, r)
<1>1. /\ DOMAIN h = FlowFields /\ h.stage = "response" /\ h.response = Some(r)
      /\ h.req = g.req /\ h.by = g.by /\ h.verdict = g.verdict
      /\ h.upstream = g.upstream /\ h.tunnel = g.tunnel /\ h.log = g.log
      /\ h.raised = g.raised
  BY FieldsAre DEF Answered
<1>2. Decided(h) = Decided(g) /\ Policy(h) = Policy(g)
  BY <1>1 DEF Decided, Policy
<1>3. Ruled(h) /\ Sent(h)
  BY <1>1, <1>2 DEF Ruled, Judged, Sent, LetIn
<1>4. h.response # Nil /\ h.response[1] = r
  BY <1>1 DEF Some, Nil
<1>5. ~h.raised => StatusFor(h, h.response[1].status)
  BY <1>1, <1>2, <1>4 DEF StatusFor
<1> HIDE DEF h
<1>6. FlowOK(h)
  BY <1>1, <1>3, <1>4, <1>5
     DEF FlowOK, Stages, EarlyOK, AskedOK, BrokerOK, ForwardOK, UpstreamOK,
         ResponseOK, DoneOK
<1> QED
  BY <1>6 DEF h

\* The policy in force decides, with a verdict to keep.
LEMMA DecidedNow ==
    ASSUME FlowInv, NEW f \in Flow, flow[f].stage = "request",
           NEW g, g = [flow[f] EXCEPT !.verdict = Some(Py_decide(InForce, flow[f].req[1])),
                                      !.by = ruleset]
    PROVE  /\ DOMAIN g = FlowFields /\ Untouched(g) /\ Judged(g)
           /\ g.req[1] \in Asked /\ g.header = Phantom
           /\ Decided(g) = Py_decide(InForce, flow[f].req[1])
           /\ Policy(g) = InForce
<1>1. /\ FlowOK(flow[f]) /\ Untouched(flow[f])
      /\ flow[f].req[1] \in Asked /\ flow[f].header = Phantom
  BY DEF FlowInv, FlowOK, EarlyOK, AskedOK
<1>2. /\ DOMAIN g = FlowFields /\ g.by = ruleset /\ g.req = flow[f].req
      /\ g.verdict = Some(Py_decide(InForce, flow[f].req[1]))
      /\ g.header = flow[f].header /\ g.upstream = flow[f].upstream
      /\ g.tunnel = flow[f].tunnel /\ g.response = flow[f].response
      /\ g.log = flow[f].log
  BY <1>1, FieldsAre DEF FlowOK
<1>3. Untouched(g)
  BY <1>1, <1>2 DEF Untouched
<1>4. Policy(g) = InForce
  BY <1>2 DEF Policy, InForce
<1>5. Decided(g) = Py_decide(InForce, flow[f].req[1])
  BY <1>2, <1>4 DEF Decided
<1>6. Judged(g)
  BY <1>2, <1>5 DEF Judged, FlowInv
<1> QED
  BY <1>1, <1>2, <1>3, <1>4, <1>5, <1>6

LEMMA InjectionOK ==
    ASSUME NEW g, DOMAIN g = FlowFields, Untouched(g), Judged(g), LetIn(g),
           Policy(g) = InForce, g.req[1] \in Asked, g.header = Phantom
    PROVE  FlowOK(apply_injection(g, Decided(g)))
<1> DEFINE rule == InForce.allow[Decided(g).index]
           creds == InForce.credentials
<1>1. rule = RuleFor(g)
  BY DEF RuleFor
<1>2. CASE rule.in_cage \/ rule.inject = ""
  <2> DEFINE h == [g EXCEPT !.stage = "forward"]
  <2>1. apply_injection(g, Decided(g)) = h
    BY <1>2 DEF apply_injection
  <2>2. /\ DOMAIN h = FlowFields /\ h.stage = "forward" /\ h.req = g.req
        /\ h.by = g.by /\ h.verdict = g.verdict /\ h.header = g.header
        /\ h.upstream = g.upstream /\ h.tunnel = g.tunnel
        /\ h.response = g.response /\ h.log = g.log
    BY FieldsAre
  <2>3. Decided(h) = Decided(g) /\ Policy(h) = Policy(g)
    BY <2>2 DEF Decided, Policy
  <2>4. Untouched(h) /\ Judged(h) /\ LetIn(h)
    BY <2>2, <2>3 DEF Untouched, Judged, LetIn
  <2>5. Expected(Policy(g), Decided(g)) = Phantom
    BY <1>1, <1>2 DEF Expected, Phantom, RuleFor
  <2> HIDE DEF h
  <2>6. FlowOK(h)
    BY <2>2, <2>3, <2>4, <2>5
       DEF FlowOK, Stages, EarlyOK, AskedOK, BrokerOK, ForwardOK, UpstreamOK,
           ResponseOK, DoneOK
  <2> QED
    BY <2>1, <2>6
<1>3. CASE ~rule.in_cage /\ rule.inject # "" /\ rule.inject \notin DOMAIN creds
  <2>1. apply_injection(g, Decided(g)) = Answered(g, injection_unavailable(rule.inject))
    BY <1>3 DEF apply_injection
  <2>2. StatusFor(g, injection_unavailable(rule.inject).status)
    BY DEF StatusFor, LetIn, injection_unavailable, CageResponse
  <2>3. Sent(g) /\ ~g.tunnel /\ g.log = <<>>
    BY DEF Untouched, Sent
  <2> QED
    BY <2>1, <2>2, <2>3, AnsweredOK DEF Ruled
<1>4. CASE ~rule.in_cage /\ rule.inject # "" /\ rule.inject \in DOMAIN creds
  <2> DEFINE h == [g EXCEPT !.stage = "broker", !.injected = rule.inject,
                            !.cred = Some(creds[rule.inject])]
  <2>1. apply_injection(g, Decided(g)) = h
    BY <1>4 DEF apply_injection
  <2>2. /\ DOMAIN h = FlowFields /\ h.stage = "broker" /\ h.req = g.req
        /\ h.injected = rule.inject /\ h.cred = Some(creds[rule.inject])
        /\ h.by = g.by /\ h.verdict = g.verdict /\ h.header = g.header
        /\ h.upstream = g.upstream /\ h.tunnel = g.tunnel
        /\ h.response = g.response /\ h.log = g.log
    BY FieldsAre
  <2>3. Decided(h) = Decided(g) /\ Policy(h) = Policy(g)
    BY <2>2 DEF Decided, Policy
  <2>4. RuleFor(h) = rule
    BY <1>1, <2>3 DEF RuleFor
  <2>5. Untouched(h) /\ Judged(h) /\ LetIn(h)
    BY <2>2, <2>3 DEF Untouched, Judged, LetIn
  <2> HIDE DEF h
  <2>6. BrokerOK(h)
    BY <1>4, <2>2, <2>3, <2>4, <2>5 DEF BrokerOK
  <2>7. FlowOK(h)
    BY <2>2, <2>5, <2>6
       DEF FlowOK, Stages, EarlyOK, AskedOK, ForwardOK, UpstreamOK,
           ResponseOK, DoneOK
  <2> QED
    BY <2>1, <2>7
<1> QED
  BY <1>2, <1>3, <1>4

LEMMA RequestKeeps ==
    ASSUME FlowInv, NEW f \in Flow, request(f)
    PROVE  FlowInv'
<1> DEFINE result == Py_decide(InForce, flow[f].req[1])
           g == [flow[f] EXCEPT !.verdict = Some(result), !.by = ruleset]
           h == CASE result.decision = "allow" -> apply_injection(g, result)
                  [] result.decision = "soft-deny" -> Answered(g, soft_deny)
                  [] OTHER -> Answered(g, hard_deny)
<1>1. flow[f].stage = "request" /\ Step(f, h) /\ ruleset' = ruleset
  BY DEF request, Quiet
<1>2. /\ DOMAIN g = FlowFields /\ Untouched(g) /\ Judged(g)
      /\ g.req[1] \in Asked /\ g.header = Phantom
      /\ Decided(g) = result /\ Policy(g) = InForce
  BY <1>1, DecidedNow
<1> HIDE DEF g
<1>3. Sent(g) /\ ~g.tunnel /\ g.log = <<>>
  BY <1>2 DEF Sent, Untouched
<1>4. CASE result.decision = "allow"
  BY <1>1, <1>2, <1>4, InjectionOK, FlowStepOf DEF LetIn
<1>5. CASE result.decision = "soft-deny"
  <2>1. StatusFor(g, soft_deny.status)
    BY <1>2, <1>5 DEF StatusFor, soft_deny, CageResponse
  <2> QED
    BY <1>1, <1>2, <1>3, <1>5, <2>1, AnsweredOK, FlowStepOf DEF Ruled
<1>6. CASE result.decision \notin {"allow", "soft-deny"}
  <2>1. StatusFor(g, hard_deny.status)
    BY <1>2, <1>6 DEF StatusFor, hard_deny, CageResponse
  <2> QED
    BY <1>1, <1>2, <1>3, <1>6, <2>1, AnsweredOK, FlowStepOf DEF Ruled
<1> QED
  BY <1>4, <1>5, <1>6

\* What was asked of the broker is asked for by the policy that decided, even
\* if another one is in force when the answer comes.
LEMMA FetchKeeps ==
    ASSUME FlowInv, NEW f \in Flow, broker_fetch(f)
    PROVE  FlowInv'
<1> DEFINE g == flow[f]
           cred == g.cred[1]
           value == render_credential_value(cred.template, cred.username, g.injected)
           h == [g EXCEPT !.header[cred.header] = value, !.cred = Nil,
                          !.stage = "forward"]
           r == injection_unavailable(g.injected)
           k == [Answered(g, r) EXCEPT !.cred = Nil, !.injected = ""]
<1>1. /\ FlowOK(g) /\ g.stage = "broker" /\ BrokerOK(g)
      /\ g.req[1] \in Asked /\ g.header = Phantom
  BY DEF FlowInv, broker_fetch, FlowOK, AskedOK
<1>2. (Step(f, h) \/ Step(f, k)) /\ ruleset' = ruleset
  BY DEF broker_fetch, Quiet
<1>3. CASE Step(f, h)
  <2>1. /\ DOMAIN h = FlowFields /\ h.stage = "forward" /\ h.req = g.req
        /\ h.by = g.by /\ h.verdict = g.verdict
        /\ h.header = [g.header EXCEPT ![cred.header] = value]
        /\ h.upstream = g.upstream /\ h.tunnel = g.tunnel
        /\ h.response = g.response /\ h.log = g.log
    BY <1>1, FieldsAre DEF FlowOK
  <2>2. Decided(h) = Decided(g) /\ Policy(h) = Policy(g)
    BY <2>1 DEF Decided, Policy
  <2>3. Untouched(h) /\ Judged(h) /\ LetIn(h)
    BY <1>1, <2>1, <2>2 DEF BrokerOK, Untouched, Judged, LetIn
  <2>4. cred = Policy(g).credentials[RuleFor(g).inject]
    <3>1. g.cred = Some(Policy(g).credentials[RuleFor(g).inject])
      BY <1>1 DEF BrokerOK
    <3> QED
      BY <3>1, SomeOf
  <2>5. Expected(Policy(g), Decided(g)) =
            [Phantom EXCEPT ![cred.header] =
                render_credential_value(cred.template, cred.username, RuleFor(g).inject)]
    BY <1>1, <2>4 DEF BrokerOK, Expected, Phantom, RuleFor
  <2>6. h.header = Expected(Policy(h), Decided(h))
    BY <1>1, <2>1, <2>2, <2>5 DEF BrokerOK
  <2> HIDE DEF h
  <2>7. FlowOK(h)
    BY <1>1, <2>1, <2>3, <2>6
       DEF FlowOK, Stages, EarlyOK, AskedOK, BrokerOK, ForwardOK, UpstreamOK,
           ResponseOK, DoneOK
  <2> QED
    BY <1>2, <1>3, <2>7, FlowStepOf
<1>4. CASE Step(f, k)
  <2> DEFINE x == [g EXCEPT !.cred = Nil, !.injected = ""]
  <2>1. /\ DOMAIN x = FlowFields /\ x.req = g.req /\ x.by = g.by
        /\ x.verdict = g.verdict /\ x.upstream = g.upstream
        /\ x.tunnel = g.tunnel /\ x.log = g.log
    BY <1>1, FieldsAre DEF FlowOK
  <2>2. Decided(x) = Decided(g) /\ Policy(x) = Policy(g)
    BY <2>1 DEF Decided, Policy
  <2>3. Judged(x) /\ Sent(x) /\ ~x.tunnel /\ x.log = <<>>
    BY <1>1, <2>1, <2>2 DEF BrokerOK, Untouched, Judged, Sent
  <2>4. StatusFor(x, r.status)
    <3>1. r.status = 472 /\ Decided(x).decision = "allow"
      BY <1>1, <2>2, StatusOf, ZenonT(30) DEF BrokerOK, LetIn
    <3> QED
      BY <3>1 DEF StatusFor
  <2>5. k = Answered(x, r)
    BY <1>1, FieldsAre DEF FlowOK, Answered
  <2>6. FlowOK(Answered(x, r))
    <3> HIDE DEF x
    <3> QED
      BY <1>1, <2>1, <2>3, <2>4, AnsweredOK DEF Ruled
  <2> QED
    BY <1>2, <1>4, <2>5, <2>6, FlowStepOf
<1> QED
  BY <1>2, <1>3, <1>4

LEMMA SendKeeps ==
    ASSUME FlowInv, NEW f \in Flow, SendUpstream(f)
    PROVE  FlowInv'
<1> DEFINE g == flow[f]
           h == [g EXCEPT !.stage = "upstream", !.upstream = Some(g.header)]
<1>1. /\ FlowOK(g) /\ g.stage = "forward" /\ ForwardOK(g) /\ g.req[1] \in Asked
  BY DEF FlowInv, SendUpstream, FlowOK, AskedOK
<1>2. Step(f, h) /\ ruleset' = ruleset
  BY DEF SendUpstream, Quiet
<1>3. /\ DOMAIN h = FlowFields /\ h.stage = "upstream" /\ h.req = g.req
      /\ h.by = g.by /\ h.verdict = g.verdict /\ h.upstream = Some(g.header)
      /\ h.tunnel = g.tunnel /\ h.response = g.response /\ h.log = g.log
  BY <1>1, FieldsAre DEF FlowOK
<1>4. Decided(h) = Decided(g) /\ Policy(h) = Policy(g) /\ h.upstream[1] = g.header
  BY <1>3 DEF Decided, Policy, Some
<1>5. UpstreamOK(h)
  BY <1>1, <1>3, <1>4 DEF ForwardOK, UpstreamOK, Untouched, Judged, LetIn
<1> HIDE DEF h
<1>6. FlowOK(h)
  BY <1>1, <1>3, <1>5
     DEF FlowOK, Stages, EarlyOK, AskedOK, BrokerOK, ForwardOK, ResponseOK, DoneOK
<1> QED
  BY <1>2, <1>6, FlowStepOf

LEMMA HeadersKeep ==
    ASSUME FlowInv, NEW f \in Flow, responseheaders(f)
    PROVE  FlowInv'
<1> DEFINE g == flow[f]
<1>1. /\ FlowOK(g) /\ g.stage = "upstream" /\ UpstreamOK(g) /\ g.req[1] \in Asked
  <2>1. FlowOK(g) /\ g.stage = "upstream"
    BY Zenon DEF FlowInv, responseheaders
  <2> QED BY <2>1 DEF FlowOK, AskedOK
<1>2. PICK status \in {200, 401} :
        Step(f, Answered(g, FromUpstream(status, IF status = 401 THEN g.injected ELSE "")))
  BY Zenon DEF responseheaders
<1> DEFINE told == IF status = 401 THEN g.injected ELSE ""
           r == FromUpstream(status, told)
<1>7. Step(f, Answered(g, r)) /\ ruleset' = ruleset
  BY <1>2 DEF responseheaders, Quiet
<1> HIDE DEF told
<1>3. r.status = status
  BY StatusOf
<1> HIDE DEF r
<1>4. StatusFor(g, r.status)
  <2>1. Decided(g).decision = "allow"
    BY <1>1 DEF UpstreamOK, LetIn
  <2> QED
    BY <1>3, <2>1 DEF StatusFor
<1>5. DOMAIN g = FlowFields /\ Judged(g) /\ Sent(g) /\ ~g.tunnel /\ g.log = <<>>
  BY <1>1 DEF FlowOK, UpstreamOK, Sent
<1>6. FlowOK(Answered(g, r))
  BY <1>1, <1>4, <1>5, AnsweredOK DEF Ruled
<1> QED
  BY <1>6, <1>7, FlowStepOf

\* Ending without an entry: the server or a hook failed.
LEMMA EndOK ==
    ASSUME NEW g, FlowOK(g), g.stage \in {"upstream", "response"}, NEW h,
           DOMAIN h = FlowFields, h.stage = "done", h.req = g.req, h.by = g.by,
           h.verdict = g.verdict, h.upstream = g.upstream, h.tunnel = g.tunnel,
           h.response = g.response, h.raised \/ (h.response = Nil /\ ~h.tunnel)
    PROVE  FlowOK(h)
<1>1. Decided(h) = Decided(g) /\ Policy(h) = Policy(g)
  BY DEF Decided, Policy
<1>2. (g.upstream # Nil => Judged(g)) /\ Sent(g) /\ ~g.tunnel /\ g.req[1] \in Asked
  BY DEF FlowOK, AskedOK, UpstreamOK, ResponseOK, Ruled, Sent
<1>3. (h.upstream # Nil => Judged(h)) /\ Sent(h)
  BY <1>1, <1>2 DEF Judged, Sent, LetIn
<1> QED
  BY <1>2, <1>3
     DEF FlowOK, Stages, EarlyOK, AskedOK, BrokerOK, ForwardOK, UpstreamOK,
         ResponseOK, DoneOK

LEMMA FailKeeps ==
    ASSUME FlowInv, NEW f \in Flow, UpstreamFails(f)
    PROVE  FlowInv'
<1> DEFINE g == flow[f]
           h == [g EXCEPT !.stage = "done"]
<1>1. FlowOK(g) /\ g.stage = "upstream" /\ g.response = Nil /\ ~g.tunnel
  BY DEF FlowInv, UpstreamFails, FlowOK, UpstreamOK
<1>2. /\ DOMAIN h = FlowFields /\ h.stage = "done" /\ h.req = g.req
      /\ h.by = g.by /\ h.verdict = g.verdict /\ h.upstream = g.upstream
      /\ h.tunnel = g.tunnel /\ h.response = g.response
  BY <1>1, FieldsAre DEF FlowOK
<1>3. Step(f, h) /\ ruleset' = ruleset
  BY DEF UpstreamFails, Quiet
<1> HIDE DEF h
<1>4. FlowOK(h)
  BY <1>1, <1>2, EndOK
<1> QED
  BY <1>3, <1>4, FlowStepOf

LEMMA ResponseKeeps ==
    ASSUME FlowInv, NEW f \in Flow, response(f)
    PROVE  FlowInv'
<1> DEFINE g == flow[f]
           decision == g.verdict[1].decision
           status == g.response[1].status
           e == IF g.verdict = Nil THEN g ELSE Entry(g, decision, status)
           h == [e EXCEPT !.stage = "done"]
<1>1. /\ FlowOK(g) /\ g.stage = "response" /\ ResponseOK(g) /\ g.req[1] \in Asked
  BY DEF FlowInv, response, FlowOK, AskedOK
<1>2. Step(f, h) /\ ruleset' = ruleset
  BY DEF response, Quiet
<1>3. /\ DOMAIN h = FlowFields /\ h.stage = "done" /\ h.req = g.req /\ h.by = g.by
      /\ h.verdict = g.verdict /\ h.upstream = g.upstream /\ h.tunnel = g.tunnel
      /\ h.response = g.response /\ h.raised = g.raised
      /\ g.verdict # Nil =>
            h.log = Append(g.log, [decision |-> decision, status |-> status])
  <2>1. DOMAIN g = FlowFields
    BY <1>1 DEF FlowOK
  <2>2. CASE g.verdict = Nil
    <3>1. h = [g EXCEPT !.stage = "done"]
      BY <2>2
    <3> HIDE DEF h
    <3> QED BY <2>1, <2>2, <3>1, FieldsAre
  <2>3. CASE g.verdict # Nil
    <3>1. h = [Entry(g, decision, status) EXCEPT !.stage = "done"]
      BY <2>3
    <3> HIDE DEF h, decision, status
    <3> QED BY <2>1, <2>3, <3>1, FieldsAre DEF Entry
  <2> QED BY <2>2, <2>3
<1> HIDE DEF h
<1>4. CASE g.raised
  <2>1. FlowOK(h)
    BY <1>1, <1>3, <1>4, EndOK
  <2> QED BY <1>2, <2>1, FlowStepOf
<1>5. CASE ~g.raised
  <2>1. /\ Judged(g) /\ Sent(g) /\ ~g.tunnel /\ g.log = <<>>
        /\ StatusFor(g, status)
    BY <1>1, <1>5 DEF ResponseOK, Ruled
  <2>2. g.verdict # Nil /\ g.verdict[1] = Decided(g)
    BY <2>1, SomeOf DEF Judged, Some, Nil
  <2>3. h.log = Append(<<>>, [decision |-> decision, status |-> status])
    BY <1>3, <2>1, <2>2
  <2>4. Decided(h) = Decided(g) /\ Policy(h) = Policy(g)
    BY <1>3 DEF Decided, Policy
  <2>5. Judged(h) /\ Sent(h) /\ decision = Decided(h).decision
    <3>1. Judged(h) /\ Sent(h)
      BY <1>3, <2>1, <2>4 DEF Judged, Sent, LetIn
    <3> QED BY <2>2, <2>4, <3>1
  <2>6. Len(h.log) = 1 /\ h.log[1].decision = decision /\ h.log[1].status = status
    <3> HIDE DEF decision, status
    <3> QED BY <2>3, LogOfOne
  <2>7. Logged(h)
    BY <1>3, <2>1, <2>4, <2>5, <2>6 DEF Logged, StatusFor
  <2>8. FlowOK(h)
    BY <1>1, <1>3, <2>1, <2>5, <2>7
       DEF FlowOK, Stages, EarlyOK, AskedOK, BrokerOK, ForwardOK, UpstreamOK,
           ResponseOK, DoneOK
  <2> QED BY <1>2, <2>8, FlowStepOf
<1> QED BY <1>4, <1>5

\* A hook that raises lets nothing through.
LEMMA RaiseKeeps ==
    ASSUME FlowInv, NEW f \in Flow, HookRaises(f)
    PROVE  FlowInv'
<1> DEFINE g == [flow[f] EXCEPT !.raised = TRUE]
           x == [g EXCEPT !.cred = Nil, !.injected = ""]
<1>1. FlowOK(flow[f])
  BY DEF FlowInv
<1>2. /\ DOMAIN g = FlowFields /\ g.stage = flow[f].stage /\ g.req = flow[f].req
      /\ g.header = flow[f].header /\ g.verdict = flow[f].verdict
      /\ g.by = flow[f].by /\ g.cred = flow[f].cred
      /\ g.injected = flow[f].injected /\ g.tunnel = flow[f].tunnel
      /\ g.upstream = flow[f].upstream /\ g.response = flow[f].response
      /\ g.log = flow[f].log /\ g.raised
  BY <1>1, FieldsAre DEF FlowOK
<1>3. ruleset' = ruleset
  BY DEF HookRaises
<1>4. CASE g.stage = "connect" /\ Step(f, Refused(g))
  <2> DEFINE h == Refused(g)
  <2>1. /\ DOMAIN h = FlowFields /\ h.stage = "done" /\ h.req = g.req
        /\ h.upstream = g.upstream /\ h.tunnel = g.tunnel /\ h.raised
    BY <1>2, FieldsAre DEF Refused, Answered
  <2>2. h.upstream = Nil /\ ~h.tunnel /\ h.req[1] \in Asked
    BY <1>1, <1>2, <1>4, <2>1 DEF FlowOK, EarlyOK, AskedOK, Untouched
  <2> HIDE DEF h
  <2>3. FlowOK(h)
    BY <2>1, <2>2
       DEF FlowOK, Stages, EarlyOK, AskedOK, BrokerOK, ForwardOK, UpstreamOK,
           ResponseOK, DoneOK
  <2> QED
    BY <1>3, <1>4, <2>3, FlowStepOf DEF h
<1>5. CASE g.stage = "hello" /\ Step(f, [g EXCEPT !.stage = "request"])
  <2> DEFINE h == [g EXCEPT !.stage = "request"]
  <2>1. /\ DOMAIN h = FlowFields /\ h.stage = "request" /\ h.req = g.req
        /\ h.header = g.header /\ h.upstream = g.upstream
        /\ h.tunnel = g.tunnel /\ h.response = g.response /\ h.log = g.log
    BY <1>2, FieldsAre
  <2>2. Untouched(h) /\ h.req[1] \in Asked /\ h.header = Phantom
    BY <1>1, <1>2, <1>5, <2>1 DEF FlowOK, EarlyOK, AskedOK, Untouched
  <2> HIDE DEF h
  <2>3. FlowOK(h)
    BY <2>1, <2>2
       DEF FlowOK, Stages, EarlyOK, AskedOK, BrokerOK, ForwardOK, UpstreamOK,
           ResponseOK, DoneOK
  <2> QED
    BY <1>3, <1>5, <2>3, FlowStepOf DEF h
<1>6. CASE /\ g.stage = "broker"
           /\ Step(f, [Answered(g, hard_deny) EXCEPT !.cred = Nil, !.injected = ""])
  <2>1. /\ DOMAIN x = FlowFields /\ x.req = g.req /\ x.by = g.by
        /\ x.verdict = g.verdict /\ x.upstream = g.upstream
        /\ x.tunnel = g.tunnel /\ x.log = g.log /\ x.raised
    BY <1>2, FieldsAre
  <2>2. Decided(x) = Decided(flow[f]) /\ Policy(x) = Policy(flow[f])
    BY <1>2, <2>1 DEF Decided, Policy
  <2>3. /\ Judged(x) /\ Sent(x) /\ ~x.tunnel /\ x.log = <<>> /\ x.req[1] \in Asked
    BY <1>1, <1>2, <1>6, <2>1, <2>2, ZenonT(30)
       DEF FlowOK, AskedOK, BrokerOK, Untouched, Judged, Sent
  <2>4. [Answered(g, hard_deny) EXCEPT !.cred = Nil, !.injected = ""]
            = Answered(x, hard_deny)
    BY <1>2, FieldsAre DEF Answered
  <2>5. FlowOK(Answered(x, hard_deny))
    <3> HIDE DEF x
    <3> QED
      BY <2>1, <2>3, AnsweredOK DEF Ruled
  <2> QED
    BY <1>3, <1>6, <2>4, <2>5, FlowStepOf
<1>7. CASE g.stage = "response" /\ Step(f, [g EXCEPT !.stage = "done"])
  <2> DEFINE h == [g EXCEPT !.stage = "done"]
  <2>1. /\ DOMAIN h = FlowFields /\ h.stage = "done" /\ h.req = g.req
        /\ h.by = g.by /\ h.verdict = g.verdict /\ h.upstream = g.upstream
        /\ h.tunnel = g.tunnel /\ h.response = g.response /\ h.raised
    BY <1>2, FieldsAre
  <2> HIDE DEF h
  <2>2. FlowOK(h)
    BY <1>1, <1>2, <1>7, <2>1, EndOK
  <2> QED
    BY <1>3, <1>7, <2>2, FlowStepOf DEF h
<1>8. ASSUME g.stage = "request",
             NEW y, y = g \/ y = [g EXCEPT !.by = ruleset,
                                !.verdict = Some(Py_decide(InForce, g.req[1]))],
             Step(f, Answered(y, hard_deny))
      PROVE  FlowInv'
  <2>1. /\ DOMAIN y = FlowFields /\ y.req = g.req /\ y.upstream = g.upstream
        /\ y.tunnel = g.tunnel /\ y.log = g.log /\ y.raised
    BY <1>2, <1>8, FieldsAre
  <2>2. y.req[1] \in Asked /\ y.upstream = Nil /\ ~y.tunnel /\ y.log = <<>>
    BY <1>1, <1>2, <1>8, <2>1 DEF FlowOK, EarlyOK, AskedOK, Untouched
  <2>3. FlowOK(Answered(y, hard_deny))
    BY <2>1, <2>2, AnsweredOK DEF Ruled, Sent
  <2> QED BY <1>3, <1>8, <2>3, FlowStepOf
<1> QED
  BY <1>4, <1>5, <1>6, <1>7, <1>8 DEF HookRaises

LEMMA FlowInvStep ==
    ASSUME FlowInv, [FlowNext]_flowVars
    PROVE  FlowInv'
<1>1. ASSUME NEW f \in Flow, Begin(f) \/ http_connect(f) \/ tls_clienthello(f)
      PROVE  FlowInv'
  BY <1>1, BeginKeeps, ConnectKeeps, HelloKeeps
<1>2. ASSUME NEW f \in Flow, request(f) \/ broker_fetch(f) \/ SendUpstream(f)
      PROVE  FlowInv'
  BY <1>2, RequestKeeps, FetchKeeps, SendKeeps
<1>3. ASSUME NEW f \in Flow, \/ responseheaders(f) \/ UpstreamFails(f)
                             \/ response(f) \/ HookRaises(f)
      PROVE  FlowInv'
  BY <1>3, HeadersKeep, FailKeeps, ResponseKeeps, RaiseKeeps
<1>4. CASE Reload
  BY <1>4 DEF Reload, FlowInv
<1>5. CASE UNCHANGED flowVars
  BY <1>5 DEF flowVars, FlowInv
<1>6. DOMAIN flow = Flow
  BY DEF FlowInv
<1> QED
  BY <1>1, <1>2, <1>3, <1>4, <1>5, <1>6 DEF FlowNext

-----------------------------------------------------------------------------
\* Whatever reaches a server was allowed by one policy and carries the
\* credential that policy asks for, and is logged as it was decided, by either
\* of the two matchers: request and _apply_injection of enforcer.py hold on to
\* the rule and the credential over the await.
THEOREM FlowCorrect == FlowSpec => []FlowAsDecided
<1>1. FlowInv /\ [FlowNext]_flowVars => FlowInv'
  BY FlowInvStep
<1>2. FlowInv => FlowAsDecided
  BY FlowInvSafe
<1> QED
  BY FlowInvInit, <1>1, <1>2, PTL DEF FlowSpec

-----------------------------------------------------------------------------
(***************************************************************************)
(* Generators: the packages of a manifest.                                 *)
(***************************************************************************)

\* The packages of a manifest are a list of some it depends on.
LEMMA DepsType ==
    ASSUME NEW mf
    PROVE  deps(mf) \in Seq(mf.doc.direct \cup mf.doc.dev)
<1> DEFINE all == [i \in DOMAIN Names |-> Names[i].name]
           T == Elements(all)
           U == mf.doc.direct \cup mf.doc.dev
           some == Among(all, U)
<1>1. all \in SequencesOf(T)
  BY GeneratorsAssumption DEF SequencesOf, Elements
<1> HIDE DEF all, T, U
<1>2. some \in SequencesOf(T \cap U)
  BY <1>1, AmongType DEF SequencesOf
<1>3. sortedUnique(mf.doc.direct, mf.doc.dev) = some
  BY Zenon DEF sortedUnique, some, all, U
<1> HIDE DEF some
<1>4. \A S : Among(some, S) \in SequencesOf((T \cap U) \cap S)
  BY <1>2, AmongType DEF SequencesOf
<1>5. deps(mf) \in SequencesOf(T \cap U) \/ \E S : deps(mf) \in SequencesOf((T \cap U) \cap S)
  BY <1>2, <1>3, <1>4, Zenon DEF deps
<1>6. \A S : SequencesOf((T \cap U) \cap S) \subseteq Seq(U) /\ SequencesOf(T \cap U) \subseteq Seq(U)
  BY DEF SequencesOf
<1> QED BY <1>5, <1>6 DEF U

(***************************************************************************)
(* What a job may use, of the answers from one on.                         *)
(***************************************************************************)

EntryPaths(mf) == [i \in DOMAIN deps(mf) |-> entryPath(mf.eco, deps(mf)[i])]
PathsOf(mf) == {outputPath(mf)} \cup Elements(EntryPaths(mf))

\* Rules of the first m packages of a manifest, each of an answer of its own.
SoFar(mf, m, rules, from, ans) ==
    \E k \in [1..m -> from..Len(ans)] :
        /\ \A i \in 1..m : ans[k[i]].path = entryPath(mf.eco, deps(mf)[i])
        /\ rules = Concat([i \in 1..m |->
                      PackageRules(mf.eco, deps(mf)[i], ans[k[i]].said)])

MadeOf(mf, rules, from, ans) == SoFar(mf, Len(deps(mf)), rules, from, ans)
ToldOf(path, said, from, ans) ==
    \E k \in from..Len(ans) : ans[k].path = path /\ ans[k].said = said

\* A file that holds nothing but such answers, or rules of them.
Genuine(path, v, from, ans) ==
    /\ v.is = "entry" => ToldOf(path, v.said, from, ans)
    /\ v.is = "output" =>
        \A mf \in Inputs : outputPath(mf) = path => MadeOf(mf, v.rules, from, ans)

\* The files of a manifest.
LEMMA PathsType ==
    ASSUME NEW mf \in Inputs
    PROVE  /\ PathsOf(mf) \subseteq CachePaths
           /\ EntryPaths(mf) \in Seq(CachePaths)
           /\ Len(EntryPaths(mf)) = Len(deps(mf)) /\ Len(deps(mf)) \in Nat
           /\ DOMAIN deps(mf) = 1..Len(deps(mf))
           /\ \A i \in 1..Len(deps(mf)) :
                  EntryPaths(mf)[i] = entryPath(mf.eco, deps(mf)[i])
<1> DEFINE all == deps(mf)
<1>1. all \in Seq(mf.doc.direct \cup mf.doc.dev)
  BY DepsType
<1>2. outputPath(mf) \in CachePaths
  BY Zenon DEF CachePaths
<1>3. \A n \in mf.doc.direct \cup mf.doc.dev : entryPath(mf.eco, n) \in CachePaths
  BY DEF CachePaths
<1>4. EntryPaths(mf) = [i \in DOMAIN all |-> entryPath(mf.eco, all[i])]
  BY Zenon DEF EntryPaths
<1> HIDE DEF all
<1>5. DOMAIN all = 1..Len(all) /\ Len(all) \in Nat
  BY <1>1
<1>6. \A i \in 1..Len(all) : entryPath(mf.eco, all[i]) \in CachePaths
  BY <1>1, <1>3
<1>7. EntryPaths(mf) \in Seq(CachePaths) /\ Len(EntryPaths(mf)) = Len(all)
  BY <1>4, <1>5, <1>6
<1>8. Elements(EntryPaths(mf)) \subseteq CachePaths
  BY <1>7 DEF Elements
<1> QED BY <1>2, <1>4, <1>5, <1>7, <1>8 DEF PathsOf, all

\* An output is no entry, and is of one manifest.
LEMMA PathsDiffer ==
    /\ \A mf, eco, name : outputPath(mf) # entryPath(eco, name)
    /\ \A mf : outputPath(mf)[1] = "generators"
    /\ \A eco, name : entryPath(eco, name)[1] = "registries"
    /\ \A mf, other : outputPath(mf) = outputPath(other) =>
           mf.eco = other.eco /\ mf.doc = other.doc
BY DEF outputPath, entryPath

\* What a package contributes is a list.
LEMMA PackageType ==
    ASSUME NEW eco, NEW name, NEW said
    PROVE  PackageRules(eco, name, said) \in Seq(Elements(PackageRules(eco, name, said)))
<1> DEFINE src == sourceOf(eco, name)
<1>1. \A url : \E T : homepageRule(url, src) \in Seq(T)
  <2> TAKE url
  <2>1. \A r : <<r>> \in Seq({r}) /\ <<>> \in Seq({r})
    OBVIOUS
  <2> QED BY <2>1, Zenon DEF homepageRule
<1>2. \A url : \E T : RepositoryRules(url, src) \in Seq(T)
  <2> TAKE url
  <2>1. \A host : \E n \in Nat : DOMAIN forges(host) = 1..n
    <3> TAKE host
    <3>1. CASE host = <<"github", "com">>
      <4>1. DOMAIN forges(host) = 1..6
        BY <3>1 DEF forges
      <4> QED BY <4>1
    <3>2. CASE host = <<"gitlab", "com">>
      <4>1. DOMAIN forges(host) = 1..2
        BY <3>2 DEF forges
      <4> QED BY <4>1
    <3>3. CASE host # <<"github", "com">> /\ host # <<"gitlab", "com">>
      <4>1. DOMAIN forges(host) = 1..1
        BY <3>3 DEF forges
      <4> QED BY <4>1
    <3> QED BY <3>1, <3>2, <3>3
  <2>2. PICK n \in Nat : DOMAIN forges(url[1].host) = 1..n
    BY <2>1
  <2>3. \A f : DOMAIN f = 1..n /\ f = [i \in DOMAIN f |-> f[i]] => f \in Seq({f[i] : i \in 1..n})
    OBVIOUS
  <2>4. <<>> \in Seq({})
    OBVIOUS
  <2>5. RepositoryRules(url, src) = <<>>
        \/ /\ DOMAIN RepositoryRules(url, src) = 1..n
           /\ RepositoryRules(url, src)
                = [i \in DOMAIN RepositoryRules(url, src) |-> RepositoryRules(url, src)[i]]
    BY <2>2 DEF RepositoryRules
  <2> QED BY <2>3, <2>4, <2>5
<1>3. \A a, b : (\E T : a \in Seq(T)) /\ (\E T : b \in Seq(T)) => \E T : a \o b \in Seq(T)
  <2> TAKE a, b
  <2>1. ASSUME NEW S, a \in Seq(S), NEW T, b \in Seq(T) PROVE a \o b \in Seq(S \cup T)
    BY <2>1
  <2> QED BY <2>1
<1>4. \E T : PackageRules(eco, name, said) \in Seq(T)
  <2>1. <<>> \in Seq({})
    OBVIOUS
  <2> QED BY <1>1, <1>2, <1>3, <2>1, Zenon DEF PackageRules
<1>5. \A r : (\E T : r \in Seq(T)) => r \in Seq(Elements(r))
  BY DEF Elements
<1> QED BY <1>4, <1>5

\* Answers that were given stay, and more are given.
Longer(ans, more) ==
    /\ Len(ans) \in Nat /\ Len(more) \in Nat /\ Len(ans) <= Len(more)
    /\ \A i \in 1..Len(ans) : more[i] = ans[i]

\* Of no packages there are no rules.
LEMMA SoFarNone ==
    ASSUME NEW mf, NEW from, NEW ans
    PROVE  SoFar(mf, 0, <<>>, from, ans)
<1> DEFINE k == [i \in 1..0 |-> 0]
           parts == [i \in 1..0 |-> PackageRules(mf.eco, deps(mf)[i], ans[k[i]].said)]
<1>1. k \in [1..0 -> from..Len(ans)]
  OBVIOUS
<1>2. parts = <<>>
  <2> DEFINE f(i) == PackageRules(mf.eco, deps(mf)[i], ans[k[i]].said)
  <2> HIDE DEF f
  <2>1. [i \in 1..0 |-> f(i)] = <<>>
    OBVIOUS
  <2> QED BY <2>1 DEF f
<1>3. Concat(parts) = <<>>
  <2> HIDE DEF parts
  <2>1. <<>> \in SequencesOf({}) /\ \A e, x \in SequencesOf({}) : e \o x \in SequencesOf({})
    BY DEF SequencesOf
  <2>2. Closed(SequencesOf({}))
    BY <2>1, Zenon DEF Closed
  <2>3. Concat(<<>>) = <<>>
    BY <2>2, ConcatGrows, Zenon
  <2> QED BY <1>2, <2>3
<1>4. \A i \in 1..0 : ans[k[i]].path = entryPath(mf.eco, deps(mf)[i])
  OBVIOUS
<1> HIDE DEF k
<1> QED BY <1>1, <1>3, <1>4, Zenon DEF SoFar

\* One package more, of an answer of its own.
LEMMA SoFarNext ==
    ASSUME NEW mf, NEW m \in Nat, NEW rules, NEW from \in Nat, NEW ans, NEW said,
           Len(ans) \in Nat, SoFar(mf, m, rules, from, ans),
           ToldOf(entryPath(mf.eco, deps(mf)[m + 1]), said, from, ans)
    PROVE  SoFar(mf, m + 1, rules \o PackageRules(mf.eco, deps(mf)[m + 1], said), from, ans)
<1> DEFINE P(n, a) == PackageRules(mf.eco, deps(mf)[n], ans[a].said)
           Path(n) == entryPath(mf.eco, deps(mf)[n])
           A == from..Len(ans)
<1>1. PICK k \in [1..m -> A] : /\ \A i \in 1..m : ans[k[i]].path = Path(i)
                               /\ rules = Concat([i \in 1..m |-> P(i, k[i])])
  BY Zenon DEF SoFar
<1>2. PICK a \in A : ans[a].path = Path(m + 1) /\ ans[a].said = said
  BY Zenon DEF ToldOf
<1>3. \A n, b : P(n, b) \in Seq(Elements(P(n, b)))
  BY PackageType, Zenon
<1>4. PackageRules(mf.eco, deps(mf)[m + 1], said) = P(m + 1, a)
  BY <1>2, Zenon
<1> HIDE DEF P, Path, A
<1> DEFINE h == [i \in 1..(m + 1) |-> IF i = m + 1 THEN a ELSE k[i]]
           old == [i \in 1..m |-> P(i, k[i])]
           new == [i \in 1..(m + 1) |-> P(i, h[i])]
           T == UNION {Elements(new[i]) : i \in 1..(m + 1)}
           V == SequencesOf(T)
<1>5. h \in [1..(m + 1) -> A] /\ h[m + 1] = a /\ \A i \in 1..m : h[i] = k[i]
  BY <1>1, <1>2
<1>6. \A i \in 1..(m + 1) : ans[h[i]].path = Path(i)
  <2> TAKE i \in 1..(m + 1)
  <2>1. i \in 1..m \/ i = m + 1
    OBVIOUS
  <2> QED BY <1>1, <1>2, <1>5, <2>1
<1> HIDE DEF h
<1>7. /\ DOMAIN new = 1..(m + 1) /\ \A i \in 1..(m + 1) : new[i] \in V
      /\ new[m + 1] = P(m + 1, a) /\ \A i \in 1..m : new[i] = old[i]
  <2>1. \A i \in 1..(m + 1) : new[i] = P(i, h[i])
    OBVIOUS
  <2>2. ASSUME NEW i \in 1..(m + 1) PROVE new[i] \in Seq(T)
    <3>1. new[i] \in Seq(Elements(new[i]))
      BY <1>3, <2>1
    <3> HIDE DEF new
    <3>2. Elements(new[i]) \subseteq T
      OBVIOUS
    <3> HIDE DEF T
    <3> QED BY <3>1, <3>2
  <2>3. m + 1 \in 1..(m + 1) /\ \A i \in 1..m : i \in 1..(m + 1)
    OBVIOUS
  <2>4. \A i \in 1..m : old[i] = P(i, k[i])
    OBVIOUS
  <2>5. DOMAIN new = 1..(m + 1)
    OBVIOUS
  <2> HIDE DEF new, old, T
  <2> QED BY <1>5, <2>1, <2>2, <2>3, <2>4, <2>5 DEF SequencesOf
<1>8. Closed(V)
  <2> HIDE DEF T
  <2>1. <<>> \in V /\ \A e, x \in V : e \o x \in V
    BY DEF SequencesOf
  <2> QED BY <2>1, Zenon DEF Closed
<1> HIDE DEF V, T
<1>9. old \in SequencesOf(V) /\ new = Append(old, P(m + 1, a)) /\ P(m + 1, a) \in V
  <2>1. old \in Seq(V) /\ Len(old) = m
    <3>1. old = [i \in 1..m |-> old[i]]
      OBVIOUS
    <3> HIDE DEF old, new
    <3>2. \A i \in 1..m : i \in 1..(m + 1)
      OBVIOUS
    <3>3. \A i \in 1..m : old[i] \in V
      BY <1>7, <3>2, Zenon
    <3> QED BY <3>1, <3>3
  <2>2. new \in Seq(V) /\ Len(new) = m + 1
    BY <1>7
  <2>3. P(m + 1, a) \in V
    BY <1>7
  <2> HIDE DEF old, new
  <2>4. Append(old, P(m + 1, a)) \in Seq(V) /\ Len(Append(old, P(m + 1, a))) = m + 1
        /\ \A i \in 1..(m + 1) : Append(old, P(m + 1, a))[i]
                                   = IF i = m + 1 THEN P(m + 1, a) ELSE old[i]
    BY <2>1, <2>3
  <2>5. \A i \in 1..(m + 1) : Append(old, P(m + 1, a))[i] = new[i]
    BY <1>7, <2>4
  <2>6. new = Append(old, P(m + 1, a))
    BY <2>2, <2>4, <2>5
  <2> QED BY <2>1, <2>3, <2>6 DEF SequencesOf
<1>10. Concat(new) = rules \o P(m + 1, a)
  <2>1. Concat(Append(old, P(m + 1, a))) = Then(Concat(old), P(m + 1, a))
    <3> HIDE DEF old, new
    <3> QED BY <1>8, <1>9, ConcatGrows, Zenon
  <2>2. Concat(old) = rules
    BY <1>1
  <2> HIDE DEF old, new
  <2> QED BY <1>9, <2>1, <2>2 DEF Then
<1>11. rules \o PackageRules(mf.eco, deps(mf)[m + 1], said)
         = Concat([i \in 1..(m + 1) |-> P(i, h[i])])
  BY <1>4, <1>10
<1> QED BY <1>5, <1>6, <1>11, Zenon DEF SoFar, P, Path, A

\* Whole manifests are what RulesAsAnswered is about.
LEMMA MadeFromIs ==
    \A mf, rules, from : MadeOf(mf, rules, from, answers) => MadeFrom(mf, rules, from)
<1> TAKE mf, rules, from
<1>1. DOMAIN deps(mf) = 1..Len(deps(mf))
  BY DepsType
<1> QED BY <1>1, Zenon DEF MadeFrom, MadeOf, SoFar

\* What was answered stays answered.
LEMMA ToldGrows ==
    ASSUME NEW path, NEW said, NEW from \in Nat, NEW low \in Nat \ {0}, low <= from,
           NEW ans, NEW more, Longer(ans, more), ToldOf(path, said, from, ans)
    PROVE  ToldOf(path, said, low, more)
<1>1. PICK k \in from..Len(ans) : ans[k].path = path /\ ans[k].said = said
  BY Zenon DEF ToldOf
<1>2. k \in low..Len(more) /\ more[k] = ans[k]
  BY DEF Longer
<1> QED BY <1>1, <1>2, Zenon DEF ToldOf

\* And so do the rules of answers.
LEMMA SoFarGrows ==
    ASSUME NEW mf, NEW m, NEW rules, NEW from \in Nat, NEW low \in Nat \ {0}, low <= from,
           NEW ans, NEW more, Longer(ans, more), SoFar(mf, m, rules, from, ans)
    PROVE  SoFar(mf, m, rules, low, more)
<1> DEFINE Parts(k, a) ==
               [i \in 1..m |-> PackageRules(mf.eco, deps(mf)[i], a[k[i]].said)]
<1>1. PICK k \in [1..m -> from..Len(ans)] :
          /\ \A i \in 1..m : ans[k[i]].path = entryPath(mf.eco, deps(mf)[i])
          /\ rules = Concat(Parts(k, ans))
  BY Zenon DEF SoFar
<1>2. \A n \in from..Len(ans) : n \in low..Len(more) /\ more[n] = ans[n]
  BY DEF Longer
<1>3. k \in [1..m -> low..Len(more)] /\ \A i \in 1..m : more[k[i]] = ans[k[i]]
  BY <1>2
<1>4. Parts(k, more) = Parts(k, ans)
  BY <1>3, Zenon
<1> HIDE DEF Parts
<1>5. \A i \in 1..m : more[k[i]].path = entryPath(mf.eco, deps(mf)[i])
  BY <1>1, <1>3, Zenon
<1>6. rules = Concat(Parts(k, more))
  BY <1>1, <1>4, Zenon
<1> QED BY <1>3, <1>5, <1>6, Zenon DEF SoFar, Parts

\* And what a file has of them.
LEMMA GenuineGrows ==
    ASSUME NEW path, NEW v, NEW from \in Nat, NEW low \in Nat \ {0}, low <= from,
           NEW ans, NEW more, Longer(ans, more), Genuine(path, v, from, ans)
    PROVE  Genuine(path, v, low, more)
<1>1. v.is = "entry" => ToldOf(path, v.said, low, more)
  BY ToldGrows, Zenon DEF Genuine
<1>2. ASSUME NEW mf \in Inputs, v.is = "output", outputPath(mf) = path
      PROVE  MadeOf(mf, v.rules, low, more)
  <2>1. SoFar(mf, Len(deps(mf)), v.rules, from, ans)
    BY <1>2, Zenon DEF Genuine, MadeOf
  <2> QED BY <2>1, SoFarGrows, Zenon DEF MadeOf
<1> QED BY <1>1, <1>2, Zenon DEF Genuine

\* The files that hold nothing of interest.
LEMMA NothingInIt ==
    \A path, from, ans : /\ Genuine(path, Absent, from, ans)
                         /\ Genuine(path, Empty, from, ans)
                         /\ Genuine(path, Torn, from, ans)
BY DEF Genuine, Absent, Empty, Torn

(***************************************************************************)
(* The invariant                                                           *)
(***************************************************************************)

JobFields == DOMAIN NoJob
Manifest(j) == j.inputs[j.at]
InFlight(j) == j.pc \notin {"idle", "done"}
Clearing(j) == j.pc \in {"clear", "remove"}
Walking(j) == j.pc \in {"walk", "fetch"}
Keeping(j) == j.pc \in {"open", "write", "rename", "cleanup"}

\* The packages of the manifest that are still to do.
Suffix(queue, all) ==
    \E m \in 1..Len(all) : queue = SubSeq(all, m, Len(all))

\* The rules are those of the packages done.
WalkOK(j, ans) ==
    \E m \in 1..Len(deps(Manifest(j))) :
        /\ j.queue = SubSeq(deps(Manifest(j)), m, Len(deps(Manifest(j))))
        /\ SoFar(Manifest(j), m - 1, j.rules, UsableFrom(j), ans)

KeepOK(j, ans) ==
    /\ \/ /\ j.path = outputPath(Manifest(j))
          /\ MadeOf(Manifest(j), j.rules, UsableFrom(j), ans)
       \/ /\ WalkOK(j, ans)
          /\ j.path = entryPath(Manifest(j).eco, Head(j.queue))
          /\ ToldOf(j.path, j.said, UsableFrom(j), ans)
    /\ j.pc = "write" => Genuine(j.path, j.out, UsableFrom(j), ans)

JobOK(j, ans) ==
    /\ DOMAIN j = JobFields
    /\ j.since \in 0..Len(ans)
    /\ j.inputs \in Seq(Inputs)
    /\ j.pc = "done" =>
        /\ Len(j.made) = Len(j.inputs)
        /\ \A i \in DOMAIN j.inputs : MadeOf(j.inputs[i], j.made[i], UsableFrom(j), ans)
    /\ InFlight(j) =>
        /\ j.at \in 1..Len(j.inputs)
        /\ j.pc \in {"clear", "remove", "generate"} => j.rules = <<>>
        /\ Clearing(j) \/ j.pc = "generate" \/ Walking(j) \/ Keeping(j)
        /\ Clearing(j) =>
            /\ j.made = <<>>
            /\ \/ j.queue = <<outputPath(Manifest(j))>>
               \/ Suffix(j.queue, EntryPaths(Manifest(j)))
        /\ ~Clearing(j) =>
            /\ \E T : j.made \in Seq(T)
            /\ Len(j.made) = j.at - 1
            /\ \A i \in 1..(j.at - 1) :
                   MadeOf(j.inputs[i], j.made[i], UsableFrom(j), ans)
        /\ Walking(j) => WalkOK(j, ans)
        /\ Keeping(j) => KeepOK(j, ans)

\* What a refresh has still to clear.
Left(j) ==
    IF ~Clearing(j) THEN {}
    ELSE Elements(j.queue)
         \cup (IF j.queue = <<outputPath(Manifest(j))>> THEN PathsOf(Manifest(j)) ELSE {})
         \cup UNION {PathsOf(j.inputs[i]) : i \in (j.at + 1)..Len(j.inputs)}

\* A refresh that no other job overlaps finds what it cleared gone, or made
\* since.
AloneOK(j, ans, cs) ==
    InFlight(j) /\ j.kind = "refresh" /\ j.alone =>
        /\ \A i \in DOMAIN j.inputs : \A path \in PathsOf(j.inputs[i]) :
               path \in Left(j) \/ Genuine(path, cs[path].dest, j.since + 1, ans)
        /\ j.pc = "write" => j.fd = "tmp" /\ cs[j.path].tmp = Empty
        /\ j.pc = "rename" => Genuine(j.path, cs[j.path].tmp, j.since + 1, ans)

CachesOK(cs, ans) ==
    /\ DOMAIN cs = CachePaths
    /\ \A path \in CachePaths :
        /\ DOMAIN cs[path] = {"dest", "tmp"}
        /\ Genuine(path, cs[path].dest, 1, ans)
        /\ Genuine(path, cs[path].tmp, 1, ans)

GenInv ==
    /\ \E T : answers \in Seq(T)
    /\ DOMAIN job = Maker
    /\ CachesOK(caches, answers)
    /\ \A p \in Maker : JobOK(job[p], answers) /\ AloneOK(job[p], answers, caches)
    /\ \A p, q \in Maker : Running(p) /\ Running(q) /\ job[p].alone => p = q

LEMMA JobFieldsAre ==
    JobFields = {"pc", "kind", "inputs", "at", "queue", "rules", "made", "said", "path",
                 "fd", "out", "since", "alone"}
BY DEF JobFields, NoJob

\* A job that differs in what others do to it keeps what it has, when more is
\* answered.
LEMMA JobLike ==
    ASSUME NEW j, NEW ans, JobOK(j, ans), NEW more, Longer(ans, more),
           NEW h, DOMAIN h = DOMAIN j, h.alone => j.alone,
           \A f \in JobFields \ {"fd", "alone"} : h[f] = j[f]
    PROVE  JobOK(h, more) /\ UsableFrom(h) \in Nat \ {0}
<1>1. /\ h.pc = j.pc /\ h.kind = j.kind /\ h.inputs = j.inputs /\ h.at = j.at
      /\ h.queue = j.queue /\ h.rules = j.rules /\ h.made = j.made /\ h.said = j.said
      /\ h.path = j.path /\ h.out = j.out /\ h.since = j.since
  BY JobFieldsAre
<1>2. j.since \in Nat /\ j.since \in 0..Len(more)
  BY DEF JobOK, Longer
<1>3. UsableFrom(h) \in Nat \ {0} /\ UsableFrom(j) \in Nat /\ UsableFrom(h) <= UsableFrom(j)
  <2>1. /\ UsableFrom(j) = j.since + 1 \/ UsableFrom(j) = 1
        /\ UsableFrom(h) = UsableFrom(j) \/ UsableFrom(h) = 1
    BY <1>1, Zenon DEF UsableFrom
  <2> QED BY <1>2, <2>1
<1>4. /\ Manifest(h) = Manifest(j) /\ InFlight(h) = InFlight(j) /\ Clearing(h) = Clearing(j)
      /\ Walking(h) = Walking(j) /\ Keeping(h) = Keeping(j)
  BY <1>1, Zenon DEF Manifest, InFlight, Clearing, Walking, Keeping
<1>5. \A mf, m, rules : SoFar(mf, m, rules, UsableFrom(j), ans) =>
                            SoFar(mf, m, rules, UsableFrom(h), more)
  BY <1>3, SoFarGrows, Zenon
<1>6. \A mf, rules : MadeOf(mf, rules, UsableFrom(j), ans) =>
                         MadeOf(mf, rules, UsableFrom(h), more)
  BY <1>5, Zenon DEF MadeOf
<1>7. \A path, said : ToldOf(path, said, UsableFrom(j), ans) =>
                          ToldOf(path, said, UsableFrom(h), more)
  BY <1>3, ToldGrows, Zenon
<1>8. \A path, v : Genuine(path, v, UsableFrom(j), ans) =>
                       Genuine(path, v, UsableFrom(h), more)
  BY <1>3, GenuineGrows, Zenon
<1>9. WalkOK(j, ans) => WalkOK(h, more)
  BY <1>1, <1>4, <1>5, Zenon DEF WalkOK
<1>10. KeepOK(j, ans) => KeepOK(h, more)
  BY <1>1, <1>4, <1>6, <1>7, <1>8, <1>9, Zenon DEF KeepOK
<1>11. j.pc = "done" =>
          /\ Len(j.made) = Len(j.inputs)
          /\ \A i \in DOMAIN j.inputs : MadeOf(j.inputs[i], j.made[i], UsableFrom(h), more)
  BY <1>6, Zenon DEF JobOK
<1>12. ASSUME InFlight(h)
       PROVE  /\ h.at \in 1..Len(h.inputs)
              /\ h.pc \in {"clear", "remove", "generate"} => h.rules = <<>>
              /\ Clearing(h) \/ h.pc = "generate" \/ Walking(h) \/ Keeping(h)
              /\ Clearing(h) =>
                  /\ h.made = <<>>
                  /\ \/ h.queue = <<outputPath(Manifest(h))>>
                     \/ Suffix(h.queue, EntryPaths(Manifest(h)))
              /\ ~Clearing(h) =>
                  /\ \E T : h.made \in Seq(T)
                  /\ Len(h.made) = h.at - 1
                  /\ \A i \in 1..(h.at - 1) :
                         MadeOf(h.inputs[i], h.made[i], UsableFrom(h), more)
              /\ Walking(h) => WalkOK(h, more)
              /\ Keeping(h) => KeepOK(h, more)
  BY <1>1, <1>4, <1>6, <1>9, <1>10, <1>12, Zenon DEF JobOK
<1>13. DOMAIN h = JobFields /\ h.inputs \in Seq(Inputs) /\ h.since \in 0..Len(more)
  BY <1>1, <1>2, Zenon DEF JobOK
<1> QED BY <1>1, <1>3, <1>11, <1>12, <1>13, Zenon DEF JobOK

\* A job with a list of rules for each manifest it is done with.
MadeSoFar(j, n, ans) ==
    /\ \E T : j.made \in Seq(T)
    /\ Len(j.made) = n
    /\ \A i \in 1..n : MadeOf(j.inputs[i], j.made[i], UsableFrom(j), ans)

\* One that gets to its n-th manifest.
Ahead(j, n, ans) ==
    /\ DOMAIN j = JobFields
    /\ j.since \in 0..Len(ans)
    /\ j.inputs \in Seq(Inputs)
    /\ n \in 1..(Len(j.inputs) + 1)
    /\ \/ j.pc = "clear" /\ j.made = <<>> /\ j.rules = <<>>
       \/ j.pc = "generate" /\ MadeSoFar(j, n - 1, ans)

\* And with what a refresh alone has still to clear.
AheadAlone(j, n, ans, cs) ==
    j.kind = "refresh" /\ j.alone =>
        \A i \in DOMAIN j.inputs : \A path \in PathsOf(j.inputs[i]) :
            \/ Genuine(path, cs[path].dest, j.since + 1, ans)
            \/ j.pc = "clear" /\ \E l \in n..Len(j.inputs) : path \in PathsOf(j.inputs[l])

LEMMA AtInputOK ==
    ASSUME NEW j, NEW n, NEW ans, NEW cs, Len(ans) \in Nat,
           Ahead(j, n, ans), AheadAlone(j, n, ans, cs)
    PROVE  JobOK(AtInput(j, n), ans) /\ AloneOK(AtInput(j, n), ans, cs)
<1> DEFINE h == AtInput(j, n)
<1>1. DOMAIN j = JobFields /\ n \in Nat /\ Len(j.inputs) \in Nat
      /\ n \in 1..(Len(j.inputs) + 1) /\ j.inputs \in Seq(Inputs) /\ j.since \in 0..Len(ans)
      /\ DOMAIN j.inputs = 1..Len(j.inputs)
  BY DEF Ahead
<1>2. CASE n <= Len(j.inputs)
  <2> DEFINE q == IF j.pc = "clear" THEN <<outputPath(j.inputs[n])>> ELSE <<>>
  <2>1. h = [j EXCEPT !.at = n, !.rules = <<>>, !.path = <<>>, !.out = Absent, !.queue = q]
    BY <1>2, Zenon DEF AtInput
  <2> HIDE DEF h, q
  <2>2. /\ DOMAIN h = JobFields /\ h.at = n /\ h.rules = <<>> /\ h.queue = q
        /\ h.pc = j.pc /\ h.inputs = j.inputs /\ h.made = j.made /\ h.since = j.since
        /\ h.kind = j.kind /\ h.alone = j.alone
    BY <1>1, <2>1, JobFieldsAre
  <2>3. UsableFrom(h) = UsableFrom(j) /\ Manifest(h) = j.inputs[n]
    BY <2>2, Zenon DEF UsableFrom, Manifest
  <2>4. n \in 1..Len(j.inputs)
    BY <1>1, <1>2
  <2>5. CASE j.pc = "clear"
    <3>1. Clearing(h) /\ InFlight(h) /\ ~Walking(h) /\ ~Keeping(h) /\ h.pc # "done"
      BY <2>2, <2>5 DEF Clearing, InFlight, Walking, Keeping
    <3>2. h.made = <<>> /\ h.queue = <<outputPath(Manifest(h))>>
      <4>1. q = <<outputPath(j.inputs[n])>>
        BY <2>5, Zenon DEF q
      <4>2. j.made = <<>>
        BY <2>5 DEF Ahead
      <4> QED BY <2>2, <2>3, <4>1, <4>2, Zenon
    <3>3. JobOK(h, ans)
      BY <1>1, <2>2, <2>4, <3>1, <3>2, Zenon DEF JobOK
    <3>4. \A i \in n..Len(j.inputs) : \A path \in PathsOf(j.inputs[i]) : path \in Left(h)
      <4>1. Left(h) = Elements(h.queue) \cup PathsOf(j.inputs[n])
                      \cup UNION {PathsOf(j.inputs[i]) : i \in (n + 1)..Len(j.inputs)}
        BY <2>2, <2>3, <3>1, <3>2, Zenon DEF Left
      <4>2. \A i \in n..Len(j.inputs) : i = n \/ i \in (n + 1)..Len(j.inputs)
        BY <1>1
      <4> QED BY <4>1, <4>2
    <3>5. h.pc # "write" /\ h.pc # "rename"
      BY <2>2, <2>5
    <3>6. AloneOK(h, ans, cs)
      BY <2>2, <3>4, <3>5, Zenon DEF AloneOK, AheadAlone
    <3> QED BY <3>3, <3>6 DEF h
  <2>6. CASE j.pc = "generate"
    <3>1. ~Clearing(h) /\ InFlight(h) /\ ~Walking(h) /\ ~Keeping(h) /\ h.pc # "done"
          /\ h.pc = "generate" /\ h.pc # "write" /\ h.pc # "rename"
      BY <2>2, <2>6 DEF Clearing, InFlight, Walking, Keeping
    <3>2. j.pc # "clear"
      BY <2>6
    <3>3. MadeSoFar(j, n - 1, ans)
      BY <3>2, Zenon DEF Ahead
    <3>4. JobOK(h, ans)
      BY <1>1, <2>2, <2>3, <2>4, <3>1, <3>3, Zenon DEF JobOK, MadeSoFar
    <3>5. AloneOK(h, ans, cs)
      BY <2>2, <3>1, <3>2, Zenon DEF AloneOK, AheadAlone
    <3> QED BY <3>4, <3>5 DEF h
  <2> QED BY <2>5, <2>6 DEF Ahead
<1>3. CASE ~(n <= Len(j.inputs)) /\ j.pc = "clear" /\ j.inputs # <<>>
  <2>1. h = [j EXCEPT !.pc = "generate", !.at = 1, !.queue = <<>>]
    BY <1>3, Zenon DEF AtInput
  <2> HIDE DEF h
  <2>2. /\ DOMAIN h = JobFields /\ h.at = 1 /\ h.rules = j.rules /\ h.queue = <<>>
        /\ h.pc = "generate" /\ h.inputs = j.inputs /\ h.made = j.made /\ h.since = j.since
        /\ h.kind = j.kind /\ h.alone = j.alone
    BY <1>1, <2>1, JobFieldsAre
  <2>3. j.made = <<>> /\ j.rules = <<>>
    BY <1>3 DEF Ahead
  <2>4. 1 \in 1..Len(j.inputs)
    BY <1>1, <1>3
  <2>5. ~Clearing(h) /\ InFlight(h) /\ ~Walking(h) /\ ~Keeping(h) /\ h.pc # "done"
        /\ h.pc = "generate" /\ h.pc # "write" /\ h.pc # "rename"
    BY <2>2 DEF Clearing, InFlight, Walking, Keeping
  <2>6. /\ \E T : h.made \in Seq(T)
        /\ Len(h.made) = h.at - 1
        /\ \A i \in 1..(h.at - 1) : MadeOf(h.inputs[i], h.made[i], UsableFrom(h), ans)
    <3>1. <<>> \in Seq({}) /\ Len(<<>>) = 0 /\ 1 - 1 = 0 /\ 1..0 = {}
      OBVIOUS
    <3>2. \E T : <<>> \in Seq(T)
      BY <3>1
    <3> QED BY <2>2, <2>3, <3>1, <3>2, Zenon
  <2>7. JobOK(h, ans)
    BY <1>1, <2>2, <2>3, <2>4, <2>5, <2>6, Zenon DEF JobOK
  <2>8. ~ \E l \in n..Len(j.inputs) : TRUE
    BY <1>1, <1>3
  <2>9. AloneOK(h, ans, cs)
    BY <2>2, <2>5, <2>8, Zenon DEF AloneOK, AheadAlone
  <2> QED BY <2>7, <2>9 DEF h
<1>4. CASE ~(n <= Len(j.inputs)) /\ ~(j.pc = "clear" /\ j.inputs # <<>>)
  <2>1. h = [NoJob EXCEPT !.pc = "done", !.kind = j.kind, !.inputs = j.inputs,
                          !.made = j.made, !.since = j.since, !.alone = j.alone]
    BY <1>4, Zenon DEF AtInput
  <2> HIDE DEF h
  <2>2. /\ DOMAIN h = JobFields /\ h.pc = "done" /\ h.kind = j.kind /\ h.inputs = j.inputs
        /\ h.made = j.made /\ h.since = j.since /\ h.alone = j.alone
    <3>1. DOMAIN NoJob = JobFields
      BY DEF JobFields
    <3> QED BY <2>1, <3>1, JobFieldsAre
  <2>3. ~InFlight(h) /\ UsableFrom(h) = UsableFrom(j)
    BY <2>2, Zenon DEF InFlight, UsableFrom
  <2>4. /\ Len(h.made) = Len(h.inputs)
        /\ \A i \in DOMAIN h.inputs : MadeOf(h.inputs[i], h.made[i], UsableFrom(h), ans)
    <3>1. CASE j.pc = "clear"
      <4>1. j.inputs = <<>> /\ j.made = <<>> /\ DOMAIN <<>> = {}
        BY <1>4, <3>1 DEF Ahead
      <4> QED BY <2>2, <4>1
    <3>2. CASE j.pc = "generate"
      <4>1. MadeSoFar(j, n - 1, ans)
        BY <3>2 DEF Ahead
      <4>2. n - 1 = Len(j.inputs)
        BY <1>1, <1>4
      <4> QED BY <1>1, <2>2, <2>3, <4>1, <4>2, Zenon DEF MadeSoFar
    <3> QED BY <3>1, <3>2 DEF Ahead
  <2>5. JobOK(h, ans)
    BY <1>1, <2>2, <2>3, <2>4, Zenon DEF JobOK
  <2>6. AloneOK(h, ans, cs)
    BY <2>3, Zenon DEF AloneOK
  <2> QED BY <2>5, <2>6 DEF h
<1> QED BY <1>2, <1>3, <1>4

\* A job is on its way, past what it clears.
Generating(j) == InFlight(j) /\ ~Clearing(j)

\* What such a job keeps from step to step, whatever it does next.
SameWork(h, j) ==
    /\ DOMAIN h = JobFields
    /\ h.inputs = j.inputs /\ h.at = j.at /\ h.made = j.made /\ h.since = j.since
    /\ h.kind = j.kind /\ h.alone = j.alone

LEMMA SameWorkOK ==
    ASSUME NEW j, NEW ans, JobOK(j, ans), Generating(j), NEW h, SameWork(h, j),
           (Walking(h) /\ WalkOK(h, ans)) \/ (Keeping(h) /\ KeepOK(h, ans))
    PROVE  /\ JobOK(h, ans)
           /\ \A cs : h.pc # "write" /\ h.pc # "rename" /\ AloneOK(j, ans, cs)
                          => AloneOK(h, ans, cs)
<1>1. UsableFrom(h) = UsableFrom(j) /\ Manifest(h) = Manifest(j)
  BY Zenon DEF SameWork, UsableFrom, Manifest
<1>2. ~Clearing(h) /\ InFlight(h) /\ h.pc # "generate" /\ h.pc # "done"
      /\ h.pc \notin {"clear", "remove", "generate"}
  BY DEF Walking, Keeping, Clearing, InFlight
<1>3. ~(Walking(h) /\ Keeping(h))
  BY DEF Walking, Keeping
<1>4. ~Clearing(j) /\ InFlight(j)
  BY Zenon DEF Generating
<1>5. JobOK(h, ans)
  BY <1>1, <1>2, <1>3, <1>4, Zenon DEF JobOK, SameWork
<1>6. Left(h) = {} /\ Left(j) = {}
  BY <1>2, <1>4, Zenon DEF Left
<1>7. ASSUME NEW cs, h.pc # "write", h.pc # "rename", AloneOK(j, ans, cs)
      PROVE  AloneOK(h, ans, cs)
  BY <1>4, <1>6, <1>7, Zenon DEF AloneOK, SameWork
<1> QED BY <1>5, <1>7

\* The packages that are left: a first one, and the others.
LEMMA SuffixType ==
    ASSUME NEW T, NEW all \in Seq(T), NEW m \in 1..Len(all), NEW queue,
           queue = SubSeq(all, m, Len(all))
    PROVE  /\ Head(queue) = all[m] /\ queue # <<>>
           /\ Tail(queue) = SubSeq(all, m + 1, Len(all))
           /\ Tail(queue) = <<>> => m = Len(all)
           /\ Tail(queue) # <<>> => m + 1 \in 1..Len(all)
<1>1. Len(all) \in Nat /\ m <= Len(all) /\ m >= 1 /\ m \in Nat
  OBVIOUS
<1>2. queue \in Seq(T) /\ Len(queue) = Len(all) - m + 1
      /\ \A i \in 1..(Len(all) - m + 1) : queue[i] = all[m + i - 1]
  BY <1>1, SubSeqProperties
<1>0. \A s \in Seq(T) : /\ s = <<>> <=> Len(s) = 0
                        /\ s # <<>> => Head(s) = s[1]
  OBVIOUS
<1>3. queue # <<>> /\ Head(queue) = queue[1]
  <2>1. Len(queue) # 0
    BY <1>1, <1>2
  <2> QED BY <1>0, <1>2, <2>1
<1>4. Tail(queue) \in Seq(T) /\ Len(Tail(queue)) = Len(all) - m
      /\ \A i \in 1..(Len(all) - m) : Tail(queue)[i] = all[m + i]
  BY <1>1, <1>2, <1>3
<1> DEFINE rest == SubSeq(all, m + 1, Len(all))
<1>5. rest \in Seq(T) /\ Len(rest) = Len(all) - m
      /\ \A i \in 1..(Len(all) - m) : rest[i] = all[m + i]
  <2>1. \A i \in (m + 1)..Len(all) : all[i] \in T
    BY <1>1
  <2>2. rest \in Seq(T)
    BY <1>1, <2>1, SubSeqProperties
  <2>3. Len(rest) = Len(all) - m
    BY <1>1, SubSeqProperties
  <2>4. \A i \in 1..(Len(all) - m) : rest[i] = all[m + i]
    BY <1>1, SubSeqProperties
  <2> QED BY <2>2, <2>3, <2>4
<1> HIDE DEF rest
<1>6. Tail(queue) = rest
  BY <1>4, <1>5
<1>7. Head(queue) = all[m]
  BY <1>1, <1>2, <1>3
<1>8. Tail(queue) = <<>> <=> Len(all) - m = 0
  BY <1>0, <1>4, Zenon
<1> QED BY <1>1, <1>3, <1>6, <1>7, <1>8 DEF rest

\* The next package, when the present one has been answered for.
LEMMA NextDepOK ==
    ASSUME NEW p \in Maker, NEW ans, NEW said, Len(ans) \in Nat,
           JobOK(job[p], ans), Generating(job[p]), WalkOK(job[p], ans),
           ToldOf(entryPath(Manifest(job[p]).eco, Head(job[p].queue)), said,
                  UsableFrom(job[p]), ans)
    PROVE  /\ JobOK(NextDep(p, said, Tail(job[p].queue)), ans)
           /\ \A cs : AloneOK(job[p], ans, cs)
                          => AloneOK(NextDep(p, said, Tail(job[p].queue)), ans, cs)
           /\ SameWork(NextDep(p, said, Tail(job[p].queue)), job[p])
<1> DEFINE j == job[p]
           mf == Manifest(j)
           all == deps(mf)
           more == PackageRules(mf.eco, Head(j.queue), said)
           walked == [j EXCEPT !.pc = "walk", !.queue = Tail(j.queue), !.said = Nil,
                               !.rules = @ \o more]
           h == NextDep(p, said, Tail(j.queue))
<1>1. Input(p) = mf
  BY Zenon DEF Input, Manifest
<1>2. h = IF Tail(j.queue) = <<>> THEN Storing(walked, outputPath(mf)) ELSE walked
  BY <1>1, Zenon DEF NextDep
<1>3. DOMAIN j = JobFields /\ UsableFrom(j) \in Nat
  <2>1. DOMAIN j = JobFields /\ j.since \in Nat
    BY DEF JobOK
  <2> QED BY <2>1 DEF UsableFrom
<1>4. PICK m \in 1..Len(all) : /\ j.queue = SubSeq(all, m, Len(all))
                               /\ SoFar(mf, m - 1, j.rules, UsableFrom(j), ans)
  BY Zenon DEF WalkOK
<1>5. all \in Seq(mf.doc.direct \cup mf.doc.dev)
  BY DepsType
<1>6. ToldOf(entryPath(mf.eco, Head(j.queue)), said, UsableFrom(j), ans)
  OBVIOUS
<1>7. JobOK(j, ans) /\ Generating(j)
  OBVIOUS
<1> HIDE DEF h, j, mf, all
<1>8. /\ Head(j.queue) = all[m]
      /\ Tail(j.queue) = SubSeq(all, m + 1, Len(all))
      /\ Tail(j.queue) = <<>> => m = Len(all)
      /\ Tail(j.queue) # <<>> => m + 1 \in 1..Len(all)
  BY <1>4, <1>5, SuffixType
<1>9. SoFar(mf, m, j.rules \o more, UsableFrom(j), ans)
  <2>1. m - 1 \in Nat /\ (m - 1) + 1 = m
    BY <1>4, <1>5
  <2>2. ToldOf(entryPath(mf.eco, deps(mf)[(m - 1) + 1]), said, UsableFrom(j), ans)
    BY <1>6, <1>8, <2>1, Zenon DEF all
  <2>3. SoFar(mf, (m - 1) + 1, j.rules \o PackageRules(mf.eco, deps(mf)[(m - 1) + 1], said),
              UsableFrom(j), ans)
    BY <1>3, <1>4, <2>1, <2>2, SoFarNext, Zenon
  <2> QED BY <1>8, <2>1, <2>3, Zenon DEF all
<1> HIDE DEF more
<1>10. /\ DOMAIN walked = JobFields /\ walked.pc = "walk" /\ walked.queue = Tail(j.queue)
       /\ walked.rules = j.rules \o more /\ SameWork(walked, j)
  BY <1>3, JobFieldsAre DEF SameWork
<1> HIDE DEF walked
<1>11. CASE Tail(j.queue) = <<>>
  <2>1. h = [walked EXCEPT !.pc = "open", !.path = outputPath(mf)]
    BY <1>2, <1>11, Zenon DEF Storing
  <2>2. /\ h.pc = "open" /\ h.path = outputPath(mf) /\ h.rules = j.rules \o more
        /\ SameWork(h, j)
    BY <1>10, <2>1, JobFieldsAre DEF SameWork
  <2>3. UsableFrom(h) = UsableFrom(j) /\ Manifest(h) = mf
    BY <2>2, Zenon DEF SameWork, UsableFrom, Manifest, mf
  <2>4. MadeOf(mf, h.rules, UsableFrom(h), ans)
    BY <1>8, <1>9, <1>11, <2>2, <2>3, Zenon DEF MadeOf, all
  <2>5. h.pc # "write" /\ h.pc # "rename" /\ Keeping(h)
    BY <2>2 DEF Keeping
  <2>6. KeepOK(h, ans)
    BY <2>2, <2>3, <2>4, <2>5, Zenon DEF KeepOK
  <2> QED BY <1>7, <2>2, <2>5, <2>6, SameWorkOK, Zenon DEF h, j
<1>12. CASE Tail(j.queue) # <<>>
  <2>1. h = walked
    BY <1>2, <1>12
  <2>2. UsableFrom(h) = UsableFrom(j) /\ Manifest(h) = mf
    BY <1>10, <2>1, Zenon DEF SameWork, UsableFrom, Manifest, mf
  <2>3. (m + 1) - 1 = m
    BY <1>4, <1>5
  <2>4. WalkOK(h, ans)
    BY <1>8, <1>9, <1>10, <1>12, <2>1, <2>2, <2>3, Zenon DEF WalkOK, all
  <2>5. h.pc # "write" /\ h.pc # "rename" /\ Walking(h)
    BY <1>10, <2>1 DEF Walking
  <2> QED BY <1>7, <1>10, <2>1, <2>4, <2>5, SameWorkOK, Zenon DEF h, j
<1> QED BY <1>11, <1>12

(***************************************************************************)
(* The steps.                                                              *)
(***************************************************************************)

\* A job that is none.
LEMMA NoJobOK ==
    ASSUME NEW ans, Len(ans) \in Nat
    PROVE  JobOK(NoJob, ans) /\ ~InFlight(NoJob) /\ \A cs : AloneOK(NoJob, ans, cs)
<1>1. /\ NoJob.pc = "idle" /\ NoJob.inputs = <<>> /\ NoJob.since = 0
      /\ DOMAIN NoJob = JobFields
  BY DEF NoJob, JobFields
<1>2. <<>> \in Seq(Inputs) /\ 0 \in 0..Len(ans) /\ "idle" # "done"
  OBVIOUS
<1>3. ~InFlight(NoJob)
  BY <1>1 DEF InFlight
<1> QED BY <1>1, <1>2, <1>3, Zenon DEF JobOK, AloneOK

\* What a step of another process may do to a job: to its file descriptor.
Touched(h, j) ==
    /\ DOMAIN h = DOMAIN j /\ h.alone = j.alone
    /\ \A f \in JobFields \ {"fd", "alone"} : h[f] = j[f]

LEMMA AnswersAre == GenInv => Len(answers) \in Nat /\ Longer(answers, answers)
<1>1. ASSUME NEW T, answers \in Seq(T) PROVE Len(answers) \in Nat /\ Longer(answers, answers)
  BY <1>1 DEF Longer
<1> QED BY <1>1, Zenon DEF GenInv

\* A step of a job that runs.
LEMMA StepKeeps ==
    ASSUME GenInv, NEW p \in Maker, Running(p),
           Longer(answers, answers'), \E T : answers' \in Seq(T),
           CachesOK(caches', answers'),
           DOMAIN job' = Maker, \A q \in Maker \ {p} : Touched(job'[q], job[q]),
           JobOK(job'[p], answers'), AloneOK(job'[p], answers', caches'),
           InFlight(job'[p]) => job'[p].alone = job[p].alone
    PROVE  GenInv'
<1>1. /\ \A q \in Maker : JobOK(job[q], answers)
      /\ \A q, r \in Maker : Running(q) /\ Running(r) /\ job[q].alone => q = r
  BY Zenon DEF GenInv
<1>2. \A q \in Maker : (Running(q) <=> InFlight(job[q])) /\ (Running(q)' <=> InFlight(job'[q]))
  BY DEF Running, InFlight
<1>3. ASSUME NEW q \in Maker \ {p}
      PROVE  /\ JobOK(job'[q], answers')
             /\ job'[q].alone = job[q].alone
             /\ InFlight(job'[q]) <=> InFlight(job[q])
             /\ ~(InFlight(job'[q]) /\ job'[q].alone)
  <2>1. Touched(job'[q], job[q]) /\ JobOK(job[q], answers)
    BY <1>1
  <2>2. JobOK(job'[q], answers')
    <3>1. job'[q].alone => job[q].alone
      BY <2>1, Zenon DEF Touched
    <3> QED BY <2>1, <3>1, JobLike, Zenon DEF Touched
  <2>3. "pc" \in JobFields \ {"fd", "alone"}
    BY JobFieldsAre
  <2>4. job'[q].pc = job[q].pc
    BY <2>1, <2>3, Zenon DEF Touched
  <2>5. InFlight(job'[q]) <=> InFlight(job[q])
    BY <2>4 DEF InFlight
  <2>6. job'[q].alone = job[q].alone
    BY <2>1, Zenon DEF Touched
  <2>7. ~(Running(q) /\ job[q].alone)
    BY <1>1, Zenon
  <2> QED BY <1>2, <2>2, <2>5, <2>6, <2>7, Zenon
<1>4. \A q \in Maker : JobOK(job'[q], answers') /\ AloneOK(job'[q], answers', caches')
  <2>1. \A q \in Maker \ {p} : AloneOK(job'[q], answers', caches')
    BY <1>3, Zenon DEF AloneOK
  <2> QED BY <1>3, <2>1, Zenon
<1>5. \A q, r \in Maker : Running(q)' /\ Running(r)' /\ job'[q].alone => q = r
  <2> TAKE q \in Maker, r \in Maker
  <2> HAVE Running(q)' /\ Running(r)' /\ job'[q].alone
  <2>1. q = p
    BY <1>2, <1>3, Zenon
  <2>2. CASE r # p
    <3>1. Running(r) /\ job[p].alone
      BY <1>2, <1>3, <2>1, <2>2, Zenon
    <3> QED BY <1>1, <2>1, <3>1, Zenon
  <2> QED BY <2>1, <2>2
<1>6. \A q \in Maker : JobOK(job[q], answers)' /\ AloneOK(job[q], answers, caches)'
  BY <1>4
<1> QED BY <1>4, <1>5, Zenon DEF GenInv

\* One that changes nothing of others.
LEMMA BecomesKeeps ==
    ASSUME GenInv, NEW p \in Maker, Running(p), NEW h, Becomes(p, h),
           Longer(answers, answers'), \E T : answers' \in Seq(T),
           CachesOK(caches', answers'),
           JobOK(h, answers'), AloneOK(h, answers', caches'),
           InFlight(h) => h.alone = job[p].alone
    PROVE  GenInv'
<1>1. DOMAIN job = Maker
  BY Zenon DEF GenInv
<1>2. DOMAIN job' = Maker /\ job'[p] = h /\ \A q \in Maker \ {p} : job'[q] = job[q]
  BY <1>1 DEF Becomes
<1>3. \A q \in Maker \ {p} : Touched(job'[q], job[q])
  BY <1>2, Zenon DEF Touched
<1> QED BY <1>2, <1>3, StepKeeps, Zenon

\* And nothing of the files and the answers.
LEMMA OwnStep ==
    ASSUME GenInv, NEW p \in Maker, Running(p), NEW h, Becomes(p, h),
           UNCHANGED <<caches, answers>>,
           JobOK(h, answers), AloneOK(h, answers, caches),
           InFlight(h) => h.alone = job[p].alone
    PROVE  GenInv'
<1>1. caches' = caches /\ answers' = answers
  BY DEF genVars
<1>2. CachesOK(caches, answers) /\ \E T : answers \in Seq(T)
  BY Zenon DEF GenInv
<1>3. Longer(answers, answers)
  BY AnswersAre
<1> QED BY <1>1, <1>2, <1>3, BecomesKeeps, Zenon

\* What is known of a job that runs.
LEMMA RunningFacts ==
    ASSUME GenInv, NEW p \in Maker, Running(p)
    PROVE  /\ JobOK(job[p], answers) /\ AloneOK(job[p], answers, caches)
           /\ InFlight(job[p]) /\ DOMAIN job[p] = JobFields
           /\ Input(p) = Manifest(job[p]) /\ Manifest(job[p]) \in Inputs
           /\ job[p].inputs \in Seq(Inputs) /\ job[p].at \in 1..Len(job[p].inputs)
           /\ Len(answers) \in Nat /\ CachesOK(caches, answers)
<1>1. JobOK(job[p], answers) /\ AloneOK(job[p], answers, caches) /\ CachesOK(caches, answers)
  BY Zenon DEF GenInv
<1>2. InFlight(job[p])
  BY DEF Running, InFlight
<1>3. /\ DOMAIN job[p] = JobFields /\ job[p].inputs \in Seq(Inputs)
      /\ job[p].at \in 1..Len(job[p].inputs)
  BY <1>1, <1>2, Zenon DEF JobOK
<1>4. Manifest(job[p]) \in Inputs
  BY <1>3 DEF Manifest
<1>5. Input(p) = Manifest(job[p])
  BY Zenon DEF Input, Manifest
<1> QED BY <1>1, <1>2, <1>3, <1>4, <1>5, AnswersAre

LEMMA FdTouched ==
    ASSUME NEW j, DOMAIN j = JobFields, NEW fd
    PROVE  Touched([j EXCEPT !.fd = fd], j) /\ Touched(j, j)
BY JobFieldsAre DEF Touched

\* Others, when a file is moved or removed under them.
LEMMA OthersTouched ==
    ASSUME GenInv, NEW p \in Maker,
           \A q \in Maker \ {p} :
               job'[q] = job[q] \/ \E fd : job'[q] = [job[q] EXCEPT !.fd = fd]
    PROVE  \A q \in Maker \ {p} : Touched(job'[q], job[q])
<1> TAKE q \in Maker \ {p}
<1>1. JobOK(job[q], answers)
  BY Zenon DEF GenInv
<1>2. DOMAIN job[q] = JobFields
  BY <1>1, Zenon DEF JobOK
<1> QED BY <1>2, FdTouched, Zenon

\* The elements of a list: the first, and those of the rest.
LEMMA HeadTail ==
    ASSUME NEW T, NEW s \in Seq(T), s # <<>>
    PROVE  Elements(s) = {Head(s)} \cup Elements(Tail(s))
<1>1. Len(s) \in Nat \ {0} /\ Head(s) = s[1] /\ DOMAIN s = 1..Len(s)
      /\ Tail(s) \in Seq(T) /\ DOMAIN Tail(s) = 1..(Len(s) - 1)
      /\ \A i \in 1..(Len(s) - 1) : Tail(s)[i] = s[i + 1]
  OBVIOUS
<1>2. \A i \in 1..Len(s) : i = 1 \/ i - 1 \in 1..(Len(s) - 1)
  BY <1>1
<1>3. \A i \in 1..(Len(s) - 1) : i + 1 \in 1..Len(s)
  BY <1>1
<1> DEFINE t == Tail(s)
<1> HIDE DEF t
<1>4. ASSUME NEW x \in Elements(s) PROVE x = Head(s) \/ x \in Elements(t)
  <2>1. PICK i \in 1..Len(s) : x = s[i]
    BY <1>1 DEF Elements
  <2>2. CASE i # 1
    <3>1. i - 1 \in 1..(Len(s) - 1) /\ t[i - 1] = s[i]
      BY <1>1, <1>2, <2>2 DEF t
    <3> QED BY <1>1, <2>1, <3>1 DEF Elements, t
  <2> QED BY <1>1, <2>1, <2>2
<1>5. ASSUME NEW x, x = Head(s) \/ x \in Elements(t) PROVE x \in Elements(s)
  <2>1. CASE x = Head(s)
    BY <1>1, <2>1 DEF Elements
  <2>2. CASE x \in Elements(t)
    <3>1. PICK i \in 1..(Len(s) - 1) : x = t[i]
      BY <1>1, <2>2 DEF Elements, t
    <3>2. x = s[i + 1] /\ i + 1 \in 1..Len(s)
      BY <1>1, <1>3, <3>1 DEF t
    <3> QED BY <1>1, <3>2 DEF Elements
  <2> QED BY <1>5, <2>1, <2>2
<1> QED BY <1>4, <1>5 DEF t

\* What is to be cleared first, and what then.
LEMMA ClearsNext ==
    ASSUME GenInv, NEW p \in Maker, Running(p), Clearing(job[p])
    PROVE  LET j == job[p]
               mf == Manifest(j)
           IN  /\ Head(j.queue) \in CachePaths
               /\ j.made = <<>> /\ j.rules = <<>>
               /\ Cleared(p) # <<>> => Suffix(Cleared(p), EntryPaths(mf))
               /\ Elements(j.queue)
                    \cup (IF j.queue = <<outputPath(mf)>> THEN PathsOf(mf) ELSE {})
                  = {Head(j.queue)} \cup Elements(Cleared(p))
<1> DEFINE j == job[p]
           mf == Manifest(j)
           paths == EntryPaths(mf)
           last == IF j.queue = <<outputPath(mf)>> THEN PathsOf(mf) ELSE {}
           rest == Cleared(p)
<1>1. /\ JobOK(j, answers) /\ InFlight(j) /\ mf \in Inputs /\ Input(p) = mf /\ Clearing(j)
  BY RunningFacts
<1>2. /\ PathsOf(mf) \subseteq CachePaths /\ paths \in Seq(CachePaths)
      /\ PathsOf(mf) = {outputPath(mf)} \cup Elements(paths)
      /\ \A i \in 1..Len(paths) : paths[i] = entryPath(mf.eco, deps(mf)[i])
  BY <1>1, PathsType DEF PathsOf
<1>3. /\ j.made = <<>> /\ j.rules = <<>>
      /\ j.queue = <<outputPath(mf)>> \/ Suffix(j.queue, paths)
  <2>1. j.pc \in {"clear", "remove", "generate"}
    BY <1>1 DEF Clearing
  <2> QED BY <1>1, <2>1, Zenon DEF JobOK
<1>4. rest = IF Head(j.queue) = outputPath(mf) THEN paths ELSE Tail(j.queue)
  <2>1. [i \in DOMAIN deps(mf) |-> entryPath(mf.eco, deps(mf)[i])] = paths
    BY Zenon DEF EntryPaths
  <2> QED BY <1>1, <2>1, Zenon DEF Cleared
<1>5. \A n : entryPath(mf.eco, n) # outputPath(mf)
  BY PathsDiffer
<1> HIDE DEF j, mf, paths, rest
<1>6. CASE j.queue = <<outputPath(mf)>>
  <2>1. /\ Head(j.queue) = outputPath(mf) /\ Elements(j.queue) = {outputPath(mf)}
    BY <1>6 DEF Elements
  <2>2. rest = paths /\ last = PathsOf(mf)
    BY <1>4, <1>6, <2>1
  <2>3. rest # <<>> => Suffix(rest, paths)
    <3>1. paths # <<>> => 1 \in 1..Len(paths)
      BY <1>2
    <3>2. paths = SubSeq(paths, 1, Len(paths))
      BY <1>2
    <3> QED BY <2>2, <3>1, <3>2, Zenon DEF Suffix
  <2>4. Elements(j.queue) \cup last = {Head(j.queue)} \cup Elements(rest)
    BY <1>2, <2>1, <2>2
  <2>5. Head(j.queue) \in CachePaths
    BY <1>2, <2>1
  <2> QED BY <1>3, <2>3, <2>4, <2>5 DEF j, mf, paths, rest
<1>7. CASE Suffix(j.queue, paths)
  <2>1. PICK m \in 1..Len(paths) : j.queue = SubSeq(paths, m, Len(paths))
    BY <1>7 DEF Suffix
  <2>2. /\ Head(j.queue) = paths[m] /\ j.queue # <<>>
        /\ Tail(j.queue) = SubSeq(paths, m + 1, Len(paths))
        /\ Tail(j.queue) = <<>> => m = Len(paths)
        /\ Tail(j.queue) # <<>> => m + 1 \in 1..Len(paths)
    BY <1>2, <2>1, SuffixType
  <2>3. Head(j.queue) # outputPath(mf) /\ Head(j.queue) \in CachePaths
    BY <1>2, <1>5, <2>2
  <2>4. rest = Tail(j.queue) /\ last = {}
    <3>1. Head(<<outputPath(mf)>>) = outputPath(mf)
      OBVIOUS
    <3> QED BY <1>4, <2>3, <3>1, Zenon
  <2>5. rest # <<>> => Suffix(rest, paths)
    BY <2>2, <2>4, Zenon DEF Suffix
  <2>6. j.queue \in Seq(CachePaths)
    <3>1. \A i \in m..Len(paths) : paths[i] \in CachePaths
      BY <1>2
    <3>2. m \in Int /\ Len(paths) \in Int
      BY <1>2
    <3> QED BY <2>1, <3>1, <3>2, SubSeqProperties
  <2>7. Elements(j.queue) = {Head(j.queue)} \cup Elements(Tail(j.queue))
    BY <2>2, <2>6, HeadTail
  <2> QED BY <1>3, <2>3, <2>4, <2>5, <2>7 DEF j, mf, paths, rest
<1> QED BY <1>3, <1>6, <1>7

\* Getting to a manifest keeps what a job is.
LEMMA AtInputAlone ==
    ASSUME NEW j, DOMAIN j = JobFields, NEW n
    PROVE  AtInput(j, n).alone = j.alone /\ AtInput(j, n).inputs = j.inputs
<1>1. DOMAIN NoJob = JobFields
  BY DEF JobFields
<1>2. \A q : LET h == [j EXCEPT !.at = n, !.rules = <<>>, !.path = <<>>, !.out = Absent,
                                !.queue = q]
             IN h.alone = j.alone /\ h.inputs = j.inputs
  BY JobFieldsAre
<1>3. LET h == [j EXCEPT !.pc = "generate", !.at = 1, !.queue = <<>>]
      IN h.alone = j.alone /\ h.inputs = j.inputs
  BY JobFieldsAre
<1>4. LET h == [NoJob EXCEPT !.pc = "done", !.kind = j.kind, !.inputs = j.inputs,
                             !.made = j.made, !.since = j.since, !.alone = j.alone]
      IN h.alone = j.alone /\ h.inputs = j.inputs
  BY <1>1, JobFieldsAre
<1> QED BY <1>2, <1>3, <1>4, Zenon DEF AtInput

\* When the first path is gone, the job goes on.
LEMMA AfterClearingOK ==
    ASSUME GenInv, NEW p \in Maker, Running(p), Clearing(job[p]),
           NEW cs, cs[Head(job[p].queue)].dest = Absent,
           \A path \in CachePaths \ {Head(job[p].queue)} :
               cs[path].dest = caches[path].dest
    PROVE  /\ JobOK(AfterClearing(p), answers)
           /\ AloneOK(AfterClearing(p), answers, cs)
           /\ InFlight(AfterClearing(p)) => AfterClearing(p).alone = job[p].alone
<1> DEFINE j == job[p]
           mf == Manifest(j)
           rest == Cleared(p)
           h == AfterClearing(p)
           Later(path) == \E l \in (j.at + 1)..Len(j.inputs) : path \in PathsOf(j.inputs[l])
<1>1. /\ JobOK(j, answers) /\ AloneOK(j, answers, caches) /\ InFlight(j)
      /\ DOMAIN j = JobFields /\ Input(p) = mf /\ mf \in Inputs
      /\ j.inputs \in Seq(Inputs) /\ j.at \in 1..Len(j.inputs) /\ Len(answers) \in Nat
      /\ Clearing(j)
  BY RunningFacts
<1>2. /\ j.made = <<>> /\ j.rules = <<>>
      /\ rest # <<>> => Suffix(rest, EntryPaths(mf))
      /\ Elements(j.queue) \cup (IF j.queue = <<outputPath(mf)>> THEN PathsOf(mf) ELSE {})
           = {Head(j.queue)} \cup Elements(rest)
  BY ClearsNext
<1>3. /\ cs[Head(j.queue)].dest = Absent
      /\ \A path \in CachePaths \ {Head(j.queue)} : cs[path].dest = caches[path].dest
  OBVIOUS
<1>4. h = IF Head(j.queue) = outputPath(mf) /\ ~mf.doc.valid THEN NoJob
          ELSE IF rest = <<>> THEN AtInput([j EXCEPT !.pc = "clear"], j.at + 1)
          ELSE [j EXCEPT !.pc = "clear", !.queue = rest]
  BY <1>1, Zenon DEF AfterClearing
<1> HIDE DEF j, mf, rest, h
<1>5. \A i \in DOMAIN j.inputs : j.inputs[i] \in Inputs
  BY <1>1
<1>6. Left(j) = {Head(j.queue)} \cup Elements(rest)
                \cup UNION {PathsOf(j.inputs[i]) : i \in (j.at + 1)..Len(j.inputs)}
  BY <1>1, <1>2, Zenon DEF Left, mf
<1>7. ASSUME j.kind = "refresh", j.alone, NEW i \in DOMAIN j.inputs,
             NEW path \in PathsOf(j.inputs[i])
      PROVE  \/ Genuine(path, cs[path].dest, j.since + 1, answers)
             \/ path \in Elements(rest)
             \/ Later(path)
  <2>1. path \in Left(j) \/ Genuine(path, caches[path].dest, j.since + 1, answers)
    BY <1>1, <1>7, Zenon DEF AloneOK
  <2>2. path \in CachePaths
    BY <1>5, <1>7, PathsType
  <2>3. CASE path = Head(j.queue)
    BY <1>3, <2>3, NothingInIt, Zenon
  <2>4. CASE path # Head(j.queue)
    <3>1. cs[path].dest = caches[path].dest
      BY <1>3, <2>2, <2>4
    <3>2. path \in Left(j) => path \in Elements(rest) \/ Later(path)
      BY <1>6, <2>4
    <3> QED BY <2>1, <3>1, <3>2, Zenon
  <2> QED BY <2>3, <2>4
<1>8. CASE h = NoJob
  BY <1>1, <1>8, NoJobOK, Zenon DEF h
<1>9. CASE rest = <<>> /\ h # NoJob
  <2> DEFINE g == [j EXCEPT !.pc = "clear"]
  <2>1. h = AtInput(g, j.at + 1)
    BY <1>4, <1>9, Zenon
  <2>2. /\ DOMAIN g = JobFields /\ g.pc = "clear" /\ g.inputs = j.inputs /\ g.at = j.at
        /\ g.made = <<>> /\ g.rules = <<>> /\ g.since = j.since /\ g.kind = j.kind
        /\ g.alone = j.alone
    BY <1>1, <1>2, JobFieldsAre
  <2> HIDE DEF g
  <2>3. j.at + 1 \in 1..(Len(j.inputs) + 1)
    BY <1>1
  <2>4. Ahead(g, j.at + 1, answers)
    BY <1>1, <2>2, <2>3, Zenon DEF Ahead, JobOK
  <2>5. Elements(rest) = {}
    BY <1>9 DEF Elements
  <2>6. AheadAlone(g, j.at + 1, answers, cs)
    <3>1. ASSUME g.kind = "refresh", g.alone, NEW i \in DOMAIN g.inputs,
                 NEW path \in PathsOf(g.inputs[i])
          PROVE  \/ Genuine(path, cs[path].dest, g.since + 1, answers)
                 \/ \E l \in (j.at + 1)..Len(g.inputs) : path \in PathsOf(g.inputs[l])
      <4>1. Genuine(path, cs[path].dest, j.since + 1, answers) \/ Later(path)
        BY <1>7, <2>2, <2>5, <3>1
      <4> QED BY <2>2, <4>1, Zenon
    <3> QED BY <2>2, <3>1, Zenon DEF AheadAlone
  <2>7. JobOK(h, answers) /\ AloneOK(h, answers, cs)
    BY <1>1, <2>1, <2>4, <2>6, AtInputOK, Zenon
  <2>8. h.alone = j.alone
    BY <2>1, <2>2, JobFieldsAre, AtInputAlone
  <2> QED BY <2>7, <2>8 DEF h, j
<1>10. CASE rest # <<>> /\ h # NoJob
  <2>1. h = [j EXCEPT !.pc = "clear", !.queue = rest]
    BY <1>4, <1>10, Zenon
  <2>2. /\ DOMAIN h = JobFields /\ h.pc = "clear" /\ h.inputs = j.inputs /\ h.at = j.at
        /\ h.made = <<>> /\ h.rules = <<>> /\ h.since = j.since /\ h.kind = j.kind
        /\ h.alone = j.alone /\ h.queue = rest
    BY <1>1, <1>2, <2>1, JobFieldsAre
  <2>3. Clearing(h) /\ InFlight(h) /\ ~Walking(h) /\ ~Keeping(h) /\ h.pc # "done"
        /\ h.pc # "write" /\ h.pc # "rename"
    BY <2>2 DEF Clearing, InFlight, Walking, Keeping
  <2>4. Manifest(h) = mf
    BY <2>2, Zenon DEF Manifest, mf
  <2>5. JobOK(h, answers)
    BY <1>1, <1>2, <1>10, <2>2, <2>3, <2>4, Zenon DEF JobOK
  <2>6. \A path : path \in Elements(rest) \/ Later(path) => path \in Left(h)
    BY <2>2, <2>3 DEF Left
  <2>7. AloneOK(h, answers, cs)
    <3>1. ASSUME h.kind = "refresh", h.alone, NEW i \in DOMAIN h.inputs,
                 NEW path \in PathsOf(h.inputs[i])
          PROVE  path \in Left(h) \/ Genuine(path, cs[path].dest, h.since + 1, answers)
      BY <1>7, <2>2, <2>6, <3>1
    <3> QED BY <2>3, <3>1, Zenon DEF AloneOK
  <2> QED BY <2>2, <2>5, <2>7 DEF h, j
<1> QED BY <1>8, <1>9, <1>10

LEMMA StatCachedOK == ASSUME GenInv, NEW p \in Maker, StatCached(p) PROVE GenInv'
<1> DEFINE j == job[p]
           path == Head(j.queue)
           h == [j EXCEPT !.pc = "remove"]
<1>1. j.pc = "clear" /\ Clearing(j) /\ Running(p)
  BY DEF StatCached, Clearing, Running
<1>2. UNCHANGED <<caches, answers>>
  BY DEF StatCached
<1>3. Becomes(p, IF path[1] = "registries" /\ ~validatePackage(path[3]) THEN NoJob
                 ELSE IF caches[path].dest = Absent THEN AfterClearing(p) ELSE h)
  BY Zenon DEF StatCached
<1>4. /\ JobOK(j, answers) /\ AloneOK(j, answers, caches) /\ InFlight(j)
      /\ DOMAIN j = JobFields /\ Len(answers) \in Nat
  BY <1>1, RunningFacts
<1>5. CASE Becomes(p, NoJob)
  BY <1>1, <1>2, <1>4, <1>5, NoJobOK, OwnStep, Zenon
<1>6. CASE Becomes(p, AfterClearing(p)) /\ caches[path].dest = Absent
  BY <1>1, <1>2, <1>6, AfterClearingOK, OwnStep, Zenon
<1>7. CASE Becomes(p, h)
  <2>1. /\ DOMAIN h = JobFields /\ h.pc = "remove" /\ h.inputs = j.inputs /\ h.at = j.at
        /\ h.made = j.made /\ h.rules = j.rules /\ h.since = j.since /\ h.kind = j.kind
        /\ h.alone = j.alone /\ h.queue = j.queue
    BY <1>4, JobFieldsAre
  <2> HIDE DEF h, j
  <2>2. Clearing(h) /\ InFlight(h) /\ ~Walking(h) /\ ~Keeping(h) /\ h.pc # "done"
        /\ h.pc # "write" /\ h.pc # "rename" /\ h.pc \in {"clear", "remove", "generate"}
    BY <2>1 DEF Clearing, InFlight, Walking, Keeping
  <2>3. Manifest(h) = Manifest(j)
    BY <2>1, Zenon DEF Manifest
  <2>4. j.pc \in {"clear", "remove", "generate"}
    BY <1>1 DEF j
  <2>5. Left(h) = Left(j)
    BY <1>1, <2>1, <2>2, <2>3, Zenon DEF Left, j
  <2>6. JobOK(h, answers)
    BY <1>1, <1>4, <2>1, <2>2, <2>3, <2>4, Zenon DEF JobOK, j
  <2>7. AloneOK(h, answers, caches)
    BY <1>4, <2>1, <2>2, <2>5, Zenon DEF AloneOK
  <2> QED BY <1>1, <1>2, <1>7, <2>1, <2>6, <2>7, OwnStep, Zenon DEF j
<1> QED BY <1>3, <1>5, <1>6, <1>7, Zenon

InPlace(cs, path, v) == [cs EXCEPT ![path].dest = v]
Beside(cs, path, v) == [cs EXCEPT ![path].tmp = v]

\* One file of a cache is changed.
LEMMA OneFile ==
    ASSUME NEW cs, NEW ans, CachesOK(cs, ans), NEW path \in CachePaths,
           NEW v, Genuine(path, v, 1, ans)
    PROVE  /\ CachesOK(InPlace(cs, path, v), ans)
           /\ InPlace(cs, path, v)[path].dest = v
           /\ \A q \in CachePaths \ {path} : InPlace(cs, path, v)[q].dest = cs[q].dest
           /\ CachesOK(Beside(cs, path, v), ans)
           /\ Beside(cs, path, v)[path].tmp = v
           /\ \A q \in CachePaths : Beside(cs, path, v)[q].dest = cs[q].dest
<1>1. /\ DOMAIN cs = CachePaths
      /\ \A q \in CachePaths : /\ DOMAIN cs[q] = {"dest", "tmp"}
                               /\ Genuine(q, cs[q].dest, 1, ans)
                               /\ Genuine(q, cs[q].tmp, 1, ans)
  BY Zenon DEF CachesOK
<1>2. ASSUME NEW new, DOMAIN new = CachePaths, DOMAIN new[path] = {"dest", "tmp"},
             new[path].dest \in {v, cs[path].dest}, new[path].tmp \in {v, cs[path].tmp},
             \A q \in CachePaths \ {path} : new[q] = cs[q]
      PROVE  CachesOK(new, ans)
  <2>1. ASSUME NEW q \in CachePaths
        PROVE  /\ DOMAIN new[q] = {"dest", "tmp"}
               /\ Genuine(q, new[q].dest, 1, ans)
               /\ Genuine(q, new[q].tmp, 1, ans)
    <3>1. CASE q = path
      <4>1. (new[q].dest = v \/ new[q].dest = cs[q].dest)
            /\ (new[q].tmp = v \/ new[q].tmp = cs[q].tmp)
        BY <1>2, <3>1
      <4> QED BY <1>1, <1>2, <3>1, <4>1, Zenon
    <3>2. CASE q # path
      <4>1. new[q] = cs[q]
        BY <1>2, <3>2
      <4> QED BY <1>1, <4>1, Zenon
    <3> QED BY <3>1, <3>2
  <2> QED BY <1>2, <2>1, Zenon DEF CachesOK
<1>3. /\ CachesOK(InPlace(cs, path, v), ans)
      /\ InPlace(cs, path, v)[path].dest = v
      /\ \A q \in CachePaths \ {path} : InPlace(cs, path, v)[q].dest = cs[q].dest
  <2> DEFINE new == InPlace(cs, path, v)
  <2>1. /\ DOMAIN new = CachePaths /\ DOMAIN new[path] = {"dest", "tmp"}
        /\ new[path].dest = v /\ new[path].tmp = cs[path].tmp
        /\ \A q \in CachePaths \ {path} : new[q] = cs[q]
    BY <1>1 DEF InPlace
  <2> HIDE DEF new
  <2>2. CachesOK(new, ans)
    BY <1>2, <2>1
  <2>3. \A q \in CachePaths \ {path} : new[q].dest = cs[q].dest
    BY <2>1
  <2> QED BY <2>1, <2>2, <2>3 DEF new
<1>4. /\ CachesOK(Beside(cs, path, v), ans)
      /\ Beside(cs, path, v)[path].tmp = v
      /\ \A q \in CachePaths : Beside(cs, path, v)[q].dest = cs[q].dest
  <2> DEFINE new == Beside(cs, path, v)
  <2>1. /\ DOMAIN new = CachePaths /\ DOMAIN new[path] = {"dest", "tmp"}
        /\ new[path].dest = cs[path].dest /\ new[path].tmp = v
        /\ \A q \in CachePaths \ {path} : new[q] = cs[q]
    BY <1>1 DEF Beside
  <2> HIDE DEF new
  <2>2. CachesOK(new, ans)
    BY <1>2, <2>1
  <2>3. \A q \in CachePaths : new[q].dest = cs[q].dest
    BY <2>1
  <2> QED BY <2>1, <2>2, <2>3 DEF new
<1> QED BY <1>3, <1>4

LEMMA RemoveCachedOK == ASSUME GenInv, NEW p \in Maker, RemoveCached(p) PROVE GenInv'
<1> DEFINE j == job[p]
           path == Head(j.queue)
           h == IF caches[path].dest = Absent THEN NoJob ELSE AfterClearing(p)
           cs == InPlace(caches, path, Absent)
<1>1. Clearing(j) /\ Running(p)
  BY DEF RemoveCached, Clearing, Running
<1>2. /\ answers' = answers /\ caches' = cs
      /\ job' = [q \in Maker |->
            IF q = p THEN h
            ELSE IF job[q].path = path
            THEN [job[q] EXCEPT !.fd = Unlinked(@, "dest")] ELSE job[q]]
  BY Zenon DEF RemoveCached, InPlace
<1>3. /\ Len(answers) \in Nat /\ CachesOK(caches, answers) /\ path \in CachePaths
      /\ Longer(answers, answers) /\ \E T : answers \in Seq(T)
  BY <1>1, RunningFacts, ClearsNext, AnswersAre, Zenon DEF GenInv
<1>4. Genuine(path, Absent, 1, answers)
  BY NothingInIt
<1> HIDE DEF path
<1>5. /\ CachesOK(cs, answers) /\ cs[path].dest = Absent
      /\ \A q \in CachePaths \ {path} : cs[q].dest = caches[q].dest
  BY <1>3, <1>4, OneFile
<1> HIDE DEF cs, h
<1>6. /\ JobOK(h, answers) /\ AloneOK(h, answers, cs)
      /\ InFlight(h) => h.alone = j.alone
  <2>1. CASE h = NoJob
    BY <1>3, <2>1, NoJobOK, Zenon
  <2>2. CASE h = AfterClearing(p)
    BY <1>1, <1>5, <2>2, AfterClearingOK, Zenon DEF path
  <2> QED BY <2>1, <2>2 DEF h
<1>7. \A q \in Maker \ {p} : Touched(job'[q], job[q])
  <2>1. \A q \in Maker \ {p} :
            job'[q] = job[q] \/ \E fd : job'[q] = [job[q] EXCEPT !.fd = fd]
    BY <1>2, Zenon
  <2> QED BY <2>1, OthersTouched, Zenon
<1>8. DOMAIN job' = Maker /\ job'[p] = h
  BY <1>2
<1> QED BY <1>1, <1>2, <1>3, <1>5, <1>6, <1>7, <1>8, StepKeeps, Zenon

\* A job that has the rules of its manifest gets to the next one.
Adds(g, j, rules) ==
    /\ DOMAIN g = JobFields /\ g.pc = "generate" /\ g.made = Append(j.made, rules)
    /\ g.inputs = j.inputs /\ g.since = j.since /\ g.kind = j.kind /\ g.alone = j.alone

\* Of late, for a refresh alone.
AllUsable(j, ans, cs) ==
    j.kind = "refresh" /\ j.alone =>
        \A i \in DOMAIN j.inputs : \A path \in PathsOf(j.inputs[i]) :
            Genuine(path, cs[path].dest, j.since + 1, ans)

LEMMA NextInputOK ==
    ASSUME NEW j, NEW ans, NEW cs, NEW rules, NEW g, Len(ans) \in Nat,
           JobOK(j, ans), Generating(j), MadeOf(Manifest(j), rules, UsableFrom(j), ans),
           Adds(g, j, rules), AllUsable(j, ans, cs)
    PROVE  /\ JobOK(AtInput(g, j.at + 1), ans)
           /\ AloneOK(AtInput(g, j.at + 1), ans, cs)
           /\ AtInput(g, j.at + 1).alone = j.alone
<1>1. /\ j.since \in 0..Len(ans) /\ j.inputs \in Seq(Inputs) /\ j.at \in 1..Len(j.inputs)
      /\ \E T : j.made \in Seq(T)
      /\ Len(j.made) = j.at - 1
      /\ \A i \in 1..(j.at - 1) : MadeOf(j.inputs[i], j.made[i], UsableFrom(j), ans)
  BY Zenon DEF JobOK, Generating
<1> USE DEF Adds
<1>2. UsableFrom(g) = UsableFrom(j)
  BY Zenon DEF UsableFrom
<1>3. PICK T : j.made \in Seq(T)
  BY <1>1
<1>4. /\ g.made \in Seq(T \cup {rules}) /\ Len(g.made) = j.at
      /\ g.made[j.at] = rules /\ \A i \in 1..(j.at - 1) : g.made[i] = j.made[i]
  BY <1>1, <1>3
<1>5. \A i \in 1..j.at : i = j.at \/ i \in 1..(j.at - 1)
  BY <1>1
<1>6. ASSUME NEW i \in 1..j.at PROVE MadeOf(g.inputs[i], g.made[i], UsableFrom(g), ans)
  <2>1. CASE i = j.at
    <3>1. MadeOf(j.inputs[j.at], rules, UsableFrom(j), ans)
      BY Zenon DEF Manifest
    <3> QED BY <1>2, <1>4, <2>1, <3>1, Zenon
  <2>2. CASE i \in 1..(j.at - 1)
    BY <1>1, <1>2, <1>4, <2>2, Zenon
  <2> QED BY <1>5, <2>1, <2>2
<1>7. (j.at + 1) - 1 = j.at /\ j.at + 1 \in 1..(Len(j.inputs) + 1)
  BY <1>1
<1>8. MadeSoFar(g, (j.at + 1) - 1, ans)
  BY <1>4, <1>6, <1>7, Zenon DEF MadeSoFar
<1>9. Ahead(g, j.at + 1, ans)
  BY <1>1, <1>7, <1>8, Zenon DEF Ahead
<1>10. AheadAlone(g, j.at + 1, ans, cs)
  BY Zenon DEF AheadAlone, AllUsable
<1>11. JobOK(AtInput(g, j.at + 1), ans) /\ AloneOK(AtInput(g, j.at + 1), ans, cs)
  BY <1>9, <1>10, AtInputOK, Zenon
<1>12. AtInput(g, j.at + 1).alone = j.alone
  BY AtInputAlone, Zenon
<1> QED BY <1>11, <1>12

\* What a job finds in the caches of its manifest, it may use.
LEMMA CacheIsUsable ==
    ASSUME GenInv, NEW p \in Maker, Running(p), Generating(job[p])
    PROVE  /\ \A path \in PathsOf(Manifest(job[p])) :
                  Genuine(path, caches[path].dest, UsableFrom(job[p]), answers)
           /\ AllUsable(job[p], answers, caches)
<1> DEFINE j == job[p]
<1>1. /\ AloneOK(j, answers, caches) /\ InFlight(j) /\ Manifest(j) \in Inputs
      /\ j.inputs \in Seq(Inputs) /\ j.at \in 1..Len(j.inputs) /\ CachesOK(caches, answers)
  BY RunningFacts
<1>2. ~Clearing(j)
  BY Zenon DEF Generating
<1> HIDE DEF j
<1>3. Left(j) = {}
  BY <1>2, Zenon DEF Left
<1>4. j.kind = "refresh" /\ j.alone =>
          \A i \in DOMAIN j.inputs : \A path \in PathsOf(j.inputs[i]) :
              Genuine(path, caches[path].dest, j.since + 1, answers)
  BY <1>1, <1>3 DEF AloneOK
<1>5. ASSUME NEW path \in PathsOf(Manifest(j))
      PROVE  Genuine(path, caches[path].dest, UsableFrom(j), answers)
  <2>1. CASE j.kind = "refresh" /\ j.alone
    <3>1. j.at \in DOMAIN j.inputs /\ Manifest(j) = j.inputs[j.at]
      BY <1>1 DEF Manifest
    <3>2. Genuine(path, caches[path].dest, j.since + 1, answers)
      BY <1>4, <1>5, <2>1, <3>1, Zenon
    <3> QED BY <2>1, <3>2, Zenon DEF UsableFrom
  <2>2. CASE ~(j.kind = "refresh" /\ j.alone)
    <3>1. path \in CachePaths
      BY <1>1, <1>5, PathsType
    <3>2. Genuine(path, caches[path].dest, 1, answers)
      BY <1>1, <3>1, Zenon DEF CachesOK
    <3> QED BY <2>2, <3>2, Zenon DEF UsableFrom
  <2> QED BY <2>1, <2>2
<1> QED BY <1>4, <1>5 DEF j, AllUsable

\* The files a walk and what is kept are about are the manifest's.
LEMMA PathsInUse ==
    ASSUME NEW j, NEW ans, Manifest(j) \in Inputs
    PROVE  /\ WalkOK(j, ans) =>
                  entryPath(Manifest(j).eco, Head(j.queue)) \in PathsOf(Manifest(j))
           /\ KeepOK(j, ans) => j.path \in PathsOf(Manifest(j)) /\ j.path \in CachePaths
<1> DEFINE mf == Manifest(j)
           all == deps(mf)
<1>1. mf \in Inputs
  OBVIOUS
<1> HIDE DEF mf
<1>2. /\ PathsOf(mf) = {outputPath(mf)} \cup Elements(EntryPaths(mf))
      /\ PathsOf(mf) \subseteq CachePaths
      /\ EntryPaths(mf) \in Seq(CachePaths) /\ Len(EntryPaths(mf)) = Len(all)
      /\ \A i \in 1..Len(all) : EntryPaths(mf)[i] = entryPath(mf.eco, all[i])
      /\ all \in Seq(mf.doc.direct \cup mf.doc.dev)
  BY <1>1, PathsType, DepsType DEF PathsOf
<1> HIDE DEF all
<1>3. ASSUME WalkOK(j, ans) PROVE entryPath(mf.eco, Head(j.queue)) \in PathsOf(mf)
  <2>1. PICK m \in 1..Len(all) : j.queue = SubSeq(all, m, Len(all))
    BY <1>3, Zenon DEF WalkOK, mf, all
  <2>2. Head(j.queue) = all[m]
    BY <1>2, <2>1, SuffixType
  <2>3. EntryPaths(mf)[m] \in Elements(EntryPaths(mf))
    BY <1>2 DEF Elements
  <2> QED BY <1>2, <2>1, <2>2, <2>3
<1>4. KeepOK(j, ans) => j.path \in PathsOf(mf)
  BY <1>2, <1>3 DEF KeepOK, mf
<1> QED BY <1>2, <1>3, <1>4 DEF mf

LEMMA readCacheOK == ASSUME GenInv, NEW p \in Maker, readCache(p) PROVE GenInv'
<1> DEFINE j == job[p]
           mf == Manifest(j)
           path == outputPath(mf)
           found == caches[path].dest
           names == deps(mf)
           kept == [j EXCEPT !.made = Append(@, found.rules)]
           stores == Storing(j, path)
           walks == [j EXCEPT !.pc = "walk", !.queue = names]
<1>1. j.pc = "generate" /\ Generating(j) /\ Running(p)
  BY DEF readCache, Generating, Clearing, InFlight, Running
<1>2. UNCHANGED <<caches, answers>>
  BY DEF readCache
<1>3. /\ JobOK(j, answers) /\ AloneOK(j, answers, caches) /\ InFlight(j)
      /\ DOMAIN j = JobFields /\ Input(p) = mf /\ mf \in Inputs /\ Len(answers) \in Nat
  BY <1>1, RunningFacts
<1>4. Becomes(p, IF found.is = "output" THEN AtInput(kept, j.at + 1)
                 ELSE IF ~mf.doc.valid THEN NoJob
                 ELSE IF names = <<>> THEN stores ELSE walks)
  BY <1>3, Zenon DEF readCache
<1>5. j.rules = <<>>
  <2>1. j.pc \in {"clear", "remove", "generate"}
    BY <1>1
  <2> QED BY <1>3, <2>1, Zenon DEF JobOK
<1>6. /\ \A q \in PathsOf(mf) : Genuine(q, caches[q].dest, UsableFrom(j), answers)
      /\ AllUsable(j, answers, caches)
  BY <1>1, CacheIsUsable, Zenon
<1>7. CASE found.is = "output" /\ Becomes(p, AtInput(kept, j.at + 1))
  <2>1. Adds(kept, j, found.rules)
    <3> HIDE DEF found
    <3> QED BY <1>1, <1>3, JobFieldsAre DEF Adds
  <2>2. Genuine(path, found, UsableFrom(j), answers)
    BY <1>6 DEF PathsOf
  <2>3. MadeOf(mf, found.rules, UsableFrom(j), answers)
    BY <1>3, <1>7, <2>2, Zenon DEF Genuine
  <2> HIDE DEF kept, found, path
  <2>4. /\ JobOK(AtInput(kept, j.at + 1), answers)
        /\ AloneOK(AtInput(kept, j.at + 1), answers, caches)
        /\ AtInput(kept, j.at + 1).alone = j.alone
    BY <1>1, <1>3, <1>6, <2>1, <2>3, NextInputOK, ZenonT(30)
  <2> QED BY <1>1, <1>2, <1>7, <2>4, OwnStep, Zenon
<1>8. CASE Becomes(p, NoJob)
  BY <1>1, <1>2, <1>3, <1>8, NoJobOK, OwnStep, Zenon
<1>9. CASE names = <<>> /\ Becomes(p, stores)
  <2>1. stores = [j EXCEPT !.pc = "open", !.path = path]
    BY Zenon DEF Storing
  <2>2. /\ SameWork(stores, j) /\ stores.pc = "open" /\ stores.path = path
        /\ stores.rules = <<>>
    <3> HIDE DEF path, stores
    <3> QED BY <1>3, <1>5, <2>1, JobFieldsAre DEF SameWork
  <2> HIDE DEF stores
  <2>3. UsableFrom(stores) = UsableFrom(j) /\ Manifest(stores) = mf
    BY <2>2, Zenon DEF SameWork, UsableFrom, Manifest
  <2>4. Len(names) = 0
    BY <1>9
  <2>5. MadeOf(mf, stores.rules, UsableFrom(stores), answers)
    BY <2>2, <2>3, <2>4, SoFarNone, Zenon DEF MadeOf
  <2>6. stores.pc # "write" /\ stores.pc # "rename" /\ Keeping(stores)
    BY <2>2 DEF Keeping
  <2>7. KeepOK(stores, answers)
    BY <2>2, <2>3, <2>5, <2>6, Zenon DEF KeepOK
  <2>8. JobOK(stores, answers) /\ AloneOK(stores, answers, caches)
    BY <1>1, <1>3, <2>2, <2>6, <2>7, SameWorkOK, Zenon
  <2> QED BY <1>1, <1>2, <1>9, <2>2, <2>8, OwnStep, Zenon DEF SameWork
<1>10. CASE names # <<>> /\ Becomes(p, walks)
  <2>1. names \in Seq(mf.doc.direct \cup mf.doc.dev)
    BY DepsType
  <2> HIDE DEF names
  <2>2. /\ SameWork(walks, j) /\ walks.pc = "walk" /\ walks.queue = names
        /\ walks.rules = <<>>
    BY <1>3, <1>5, JobFieldsAre DEF SameWork
  <2> HIDE DEF walks
  <2>3. UsableFrom(walks) = UsableFrom(j) /\ Manifest(walks) = mf
    BY <2>2, Zenon DEF SameWork, UsableFrom, Manifest
  <2>4. /\ 1 \in 1..Len(names) /\ names = SubSeq(names, 1, Len(names)) /\ 1 - 1 = 0
    BY <1>10, <2>1
  <2>5. SoFar(mf, 1 - 1, walks.rules, UsableFrom(walks), answers)
    BY <2>2, <2>4, SoFarNone, Zenon
  <2>6. WalkOK(walks, answers)
    BY <2>2, <2>3, <2>4, <2>5, Zenon DEF WalkOK, names
  <2>7. walks.pc # "write" /\ walks.pc # "rename" /\ Walking(walks)
    BY <2>2 DEF Walking
  <2>8. JobOK(walks, answers) /\ AloneOK(walks, answers, caches)
    BY <1>1, <1>3, <2>2, <2>6, <2>7, SameWorkOK, Zenon
  <2> QED BY <1>1, <1>2, <1>10, <2>2, <2>8, OwnStep, Zenon DEF SameWork
<1> HIDE DEF names, found, stores, walks, kept
<1> QED BY <1>4, <1>7, <1>8, <1>9, <1>10, Zenon

LEMMA readFreshCacheOK == ASSUME GenInv, NEW p \in Maker, readFreshCache(p) PROVE GenInv'
<1> DEFINE j == job[p]
           mf == Manifest(j)
           name == Head(j.queue)
           path == entryPath(mf.eco, name)
           found == caches[path].dest
           next == NextDep(p, found.said, Tail(j.queue))
           asks == [j EXCEPT !.pc = "fetch"]
<1>1. j.pc = "walk" /\ Generating(j) /\ Walking(j) /\ Running(p)
  BY DEF readFreshCache, Generating, Clearing, InFlight, Walking, Running
<1>2. UNCHANGED <<caches, answers>>
  BY DEF readFreshCache
<1>3. /\ JobOK(j, answers) /\ AloneOK(j, answers, caches) /\ InFlight(j)
      /\ DOMAIN j = JobFields /\ Input(p) = mf /\ mf \in Inputs /\ Len(answers) \in Nat
  BY <1>1, RunningFacts
<1>4. Becomes(p, NoJob) \/ (Fresh(found) /\ Becomes(p, next)) \/ Becomes(p, asks)
  BY <1>3, Zenon DEF readFreshCache
<1>5. WalkOK(j, answers)
  BY <1>1, <1>3, Zenon DEF JobOK
<1>6. CASE Becomes(p, NoJob)
  BY <1>1, <1>2, <1>3, <1>6, NoJobOK, OwnStep, Zenon
<1>7. CASE Fresh(found) /\ Becomes(p, next)
  <2>1. path \in PathsOf(mf)
    BY <1>3, <1>5, PathsInUse
  <2>2. Genuine(path, found, UsableFrom(j), answers)
    BY <1>1, <2>1, CacheIsUsable
  <2>3. ToldOf(path, found.said, UsableFrom(j), answers)
    BY <1>7, <2>2, Zenon DEF Fresh, Genuine
  <2>4. /\ JobOK(next, answers) /\ AloneOK(next, answers, caches) /\ SameWork(next, j)
    BY <1>1, <1>3, <1>5, <2>3, NextDepOK
  <2> QED BY <1>1, <1>2, <1>7, <2>4, OwnStep, Zenon DEF SameWork
<1>8. CASE Becomes(p, asks)
  <2>1. /\ SameWork(asks, j) /\ asks.pc = "fetch" /\ asks.queue = j.queue
        /\ asks.rules = j.rules
    BY <1>3, JobFieldsAre DEF SameWork
  <2> HIDE DEF asks
  <2>2. UsableFrom(asks) = UsableFrom(j) /\ Manifest(asks) = mf
    BY <2>1, Zenon DEF SameWork, UsableFrom, Manifest
  <2>3. WalkOK(asks, answers)
    BY <1>5, <2>1, <2>2, Zenon DEF WalkOK
  <2>4. asks.pc # "write" /\ asks.pc # "rename" /\ Walking(asks)
    BY <2>1 DEF Walking
  <2>5. JobOK(asks, answers) /\ AloneOK(asks, answers, caches)
    BY <1>1, <1>3, <2>1, <2>3, <2>4, SameWorkOK, Zenon
  <2> QED BY <1>1, <1>2, <1>8, <2>1, <2>5, OwnStep, Zenon DEF SameWork
<1> QED BY <1>4, <1>6, <1>7, <1>8

\* An answer more.
LEMMA AnswersGrow ==
    ASSUME GenInv, NEW a, NEW more, more = Append(answers, a)
    PROVE  /\ Longer(answers, more) /\ \E T : more \in Seq(T)
           /\ Len(more) = Len(answers) + 1 /\ more[Len(more)] = a
           /\ CachesOK(caches, more)
           /\ \A p \in Maker : Running(p) =>
                  /\ JobOK(job[p], more) /\ AloneOK(job[p], more, caches)
                  /\ UsableFrom(job[p]) \in 1..Len(more)
<1>1. ASSUME NEW T, answers \in Seq(T)
      PROVE  /\ Longer(answers, more) /\ more \in Seq(T \cup {a}) /\ Len(answers) \in Nat
             /\ Len(more) = Len(answers) + 1 /\ more[Len(more)] = a
  BY <1>1 DEF Longer
<1>2. /\ Longer(answers, more) /\ \E T : more \in Seq(T)
      /\ Len(more) = Len(answers) + 1 /\ more[Len(more)] = a /\ Len(answers) \in Nat
  BY <1>1, Zenon DEF GenInv
<1>3. CachesOK(caches, more)
  <2>1. CachesOK(caches, answers)
    BY Zenon DEF GenInv
  <2>2. 1 \in Nat \ {0} /\ 1 \in Nat /\ 1 <= 1
    OBVIOUS
  <2>3. \A path, v : Genuine(path, v, 1, answers) => Genuine(path, v, 1, more)
    BY <1>2, <2>2, GenuineGrows, Zenon
  <2> QED BY <2>1, <2>3, Zenon DEF CachesOK
<1>4. ASSUME NEW p \in Maker, Running(p)
      PROVE  /\ JobOK(job[p], more) /\ AloneOK(job[p], more, caches)
             /\ UsableFrom(job[p]) \in 1..Len(more)
  <2> DEFINE j == job[p]
  <2>1. JobOK(j, answers) /\ AloneOK(j, answers, caches)
    BY <1>4, RunningFacts
  <2> HIDE DEF j
  <2>2. JobOK(j, more)
    BY <1>2, <2>1, JobLike, Zenon
  <2>3. j.since + 1 \in Nat \ {0} /\ j.since + 1 \in Nat /\ j.since + 1 <= j.since + 1
        /\ j.since + 1 \in 1..Len(more) /\ 1 \in 1..Len(more)
    <3>1. j.since \in 0..Len(answers)
      BY <2>1 DEF JobOK
    <3> QED BY <1>2, <3>1
  <2>4. \A path, v : Genuine(path, v, j.since + 1, answers)
                         => Genuine(path, v, j.since + 1, more)
    BY <1>2, <2>3, GenuineGrows, Zenon
  <2>5. AloneOK(j, more, caches)
    BY <2>1, <2>4, Zenon DEF AloneOK
  <2>6. UsableFrom(j) \in 1..Len(more)
    BY <2>3, Zenon DEF UsableFrom
  <2> QED BY <2>2, <2>5, <2>6 DEF j
<1> QED BY <1>2, <1>3, <1>4

LEMMA fetchOK == ASSUME GenInv, NEW p \in Maker, fetch(p) PROVE GenInv'
<1> DEFINE j == job[p]
           mf == Manifest(j)
           path == entryPath(mf.eco, Head(j.queue))
<1>1. j.pc = "fetch" /\ Generating(j) /\ Walking(j) /\ Running(p)
  BY DEF fetch, Generating, Clearing, InFlight, Walking, Running
<1>2. caches' = caches
  BY DEF fetch
<1>3. /\ InFlight(j) /\ DOMAIN j = JobFields /\ Input(p) = mf /\ mf \in Inputs
  BY <1>1, RunningFacts
<1>4. PICK said : /\ answers' = Append(answers, [path |-> path, said |-> said])
                  /\ Becomes(p, IF said = Nil THEN NextDep(p, Nil, Tail(j.queue))
                                ELSE Storing([j EXCEPT !.said = said], path))
  BY <1>3, Zenon DEF fetch
<1>5. /\ Longer(answers, answers') /\ \E T : answers' \in Seq(T)
      /\ answers'[Len(answers')] = [path |-> path, said |-> said]
      /\ CachesOK(caches, answers')
      /\ JobOK(j, answers') /\ AloneOK(j, answers', caches)
      /\ UsableFrom(j) \in 1..Len(answers')
  BY <1>1, <1>4, AnswersGrow
<1>6. ToldOf(path, said, UsableFrom(j), answers')
  <2>1. Len(answers') \in UsableFrom(j)..Len(answers')
    BY <1>5 DEF Longer
  <2>2. answers'[Len(answers')].path = path /\ answers'[Len(answers')].said = said
    BY <1>5
  <2> QED BY <2>1, <2>2, Zenon DEF ToldOf
<1>7. WalkOK(j, answers') /\ Len(answers') \in Nat
  BY <1>1, <1>3, <1>5, Zenon DEF JobOK, Longer
<1>8. CASE said = Nil
  <2> DEFINE next == NextDep(p, said, Tail(j.queue))
  <2>1. Becomes(p, next)
    BY <1>4, <1>8, Zenon
  <2>2. JobOK(next, answers') /\ AloneOK(next, answers', caches) /\ SameWork(next, j)
    BY <1>1, <1>5, <1>6, <1>7, NextDepOK
  <2> QED BY <1>1, <1>2, <1>5, <2>1, <2>2, BecomesKeeps, Zenon DEF SameWork
<1>9. CASE said # Nil
  <2> DEFINE h == Storing([j EXCEPT !.said = said], path)
  <2>1. Becomes(p, h)
    BY <1>4, <1>9, Zenon
  <2>2. h = [[j EXCEPT !.said = said] EXCEPT !.pc = "open", !.path = path]
    BY Zenon DEF Storing
  <2>3. /\ SameWork(h, j) /\ h.pc = "open" /\ h.path = path /\ h.said = said
        /\ h.queue = j.queue /\ h.rules = j.rules
    <3> HIDE DEF h, path
    <3> QED BY <1>3, <2>2, JobFieldsAre DEF SameWork
  <2> HIDE DEF h
  <2>4. UsableFrom(h) = UsableFrom(j) /\ Manifest(h) = mf
    BY <2>3, Zenon DEF SameWork, UsableFrom, Manifest
  <2>5. WalkOK(h, answers')
    BY <1>7, <2>3, <2>4, Zenon DEF WalkOK
  <2>6. h.pc # "write" /\ h.pc # "rename" /\ Keeping(h)
    BY <2>3 DEF Keeping
  <2>7. KeepOK(h, answers')
    BY <1>6, <2>3, <2>4, <2>5, <2>6, Zenon DEF KeepOK
  <2>8. JobOK(h, answers') /\ AloneOK(h, answers', caches)
    BY <1>1, <1>5, <2>3, <2>6, <2>7, SameWorkOK, Zenon
  <2> QED BY <1>1, <1>2, <1>5, <2>1, <2>3, <2>8, BecomesKeeps, Zenon DEF SameWork
<1> QED BY <1>8, <1>9

\* What a refresh alone may use stays when only temporary files are changed.
LEMMA DestsStay ==
    ASSUME GenInv, NEW p \in Maker, Running(p), Generating(job[p]),
           NEW cs, \A q \in CachePaths : cs[q].dest = caches[q].dest,
           job[p].kind = "refresh", job[p].alone
    PROVE  \A i \in DOMAIN job[p].inputs : \A q \in PathsOf(job[p].inputs[i]) :
               Genuine(q, cs[q].dest, job[p].since + 1, answers)
<1> TAKE i \in DOMAIN job[p].inputs
<1> TAKE q \in PathsOf(job[p].inputs[i])
<1>1. Genuine(q, caches[q].dest, job[p].since + 1, answers)
  BY CacheIsUsable, Zenon DEF AllUsable
<1>2. job[p].inputs[i] \in Inputs
  BY RunningFacts
<1>3. q \in CachePaths
  BY <1>2, PathsType
<1> QED BY <1>1, <1>3, Zenon

\* Two manifests of one output have the same packages.
LEMMA SameOutput ==
    ASSUME NEW mf, NEW other, outputPath(mf) = outputPath(other),
           NEW rules, NEW from, NEW ans, MadeOf(mf, rules, from, ans)
    PROVE  MadeOf(other, rules, from, ans)
<1>1. mf.eco = other.eco /\ mf.doc = other.doc
  BY PathsDiffer
<1>2. deps(mf) = deps(other)
  BY <1>1, Zenon DEF deps
<1> QED BY <1>1, <1>2, Zenon DEF MadeOf, SoFar

\* What a job keeps, it goes on keeping.
SameKept(h, j) ==
    /\ SameWork(h, j)
    /\ h.path = j.path /\ h.queue = j.queue /\ h.rules = j.rules /\ h.said = j.said

LEMMA KeepsKeeping ==
    ASSUME NEW j, NEW ans, KeepOK(j, ans), NEW h, SameKept(h, j),
           h.pc = "write" => Genuine(h.path, h.out, UsableFrom(h), ans)
    PROVE  KeepOK(h, ans)
<1>1. UsableFrom(h) = UsableFrom(j) /\ Manifest(h) = Manifest(j)
  BY Zenon DEF SameKept, SameWork, UsableFrom, Manifest
<1>2. WalkOK(j, ans) => WalkOK(h, ans)
  BY <1>1, Zenon DEF WalkOK, SameKept
<1> QED BY <1>1, <1>2, Zenon DEF KeepOK, SameKept

\* What is known of a job that keeps a file.
LEMMA KeepingFacts ==
    ASSUME GenInv, NEW p \in Maker, Keeping(job[p])
    PROVE  /\ Running(p) /\ Generating(job[p]) /\ KeepOK(job[p], answers)
           /\ job[p].path \in CachePaths
<1>1. Running(p) /\ Generating(job[p])
  BY DEF Keeping, Running, Generating, Clearing, InFlight
<1>2. JobOK(job[p], answers) /\ InFlight(job[p]) /\ Manifest(job[p]) \in Inputs
  BY <1>1, RunningFacts
<1>3. KeepOK(job[p], answers)
  BY <1>2, Zenon DEF JobOK
<1>4. job[p].path \in CachePaths
  BY <1>2, <1>3, PathsInUse
<1> QED BY <1>1, <1>3, <1>4

LEMMA OpenCacheOK == ASSUME GenInv, NEW p \in Maker, OpenCache(p) PROVE GenInv'
<1> DEFINE j == job[p]
           mf == Manifest(j)
           path == j.path
           written == IF path[1] = "registries" THEN Cached(j.said) ELSE Output(j.rules)
           h == [j EXCEPT !.pc = "write", !.fd = "tmp", !.out = written]
           cs == Beside(caches, path, Empty)
<1>1. j.pc = "open" /\ Keeping(j)
  BY DEF OpenCache, Keeping
<1>2. /\ caches' = cs /\ answers' = answers /\ Becomes(p, h)
  BY Zenon DEF OpenCache, Beside
<1>3. /\ Running(p) /\ Generating(j) /\ KeepOK(j, answers) /\ path \in CachePaths
  BY <1>1, KeepingFacts
<1>4. /\ JobOK(j, answers) /\ AloneOK(j, answers, caches) /\ InFlight(j)
      /\ DOMAIN j = JobFields /\ mf \in Inputs /\ Len(answers) \in Nat
      /\ CachesOK(caches, answers) /\ j.inputs \in Seq(Inputs)
      /\ Longer(answers, answers) /\ \E T : answers \in Seq(T)
  BY <1>3, RunningFacts, AnswersAre, Zenon DEF GenInv
<1>5. Genuine(path, written, UsableFrom(j), answers)
  <2>1. CASE path = outputPath(mf) /\ MadeOf(mf, j.rules, UsableFrom(j), answers)
    <3>1. written = Output(j.rules)
      <4>1. path[1] = "generators"
        BY <2>1, PathsDiffer
      <4> QED BY <4>1
    <3> HIDE DEF path, written, j, mf
    <3>2. written.is = "output" /\ written.rules = j.rules /\ written.is # "entry"
      BY <3>1 DEF Output
    <3>3. \A other \in Inputs : outputPath(other) = path
              => MadeOf(other, j.rules, UsableFrom(j), answers)
      BY <2>1, SameOutput, Zenon
    <3> QED BY <3>2, <3>3, Zenon DEF Genuine
  <2>2. CASE /\ path = entryPath(mf.eco, Head(j.queue))
             /\ ToldOf(path, j.said, UsableFrom(j), answers)
    <3>1. written = Cached(j.said)
      <4>1. path[1] = "registries"
        BY <2>2, PathsDiffer
      <4> QED BY <4>1
    <3> HIDE DEF path, written, j, mf
    <3>2. written.is = "entry" /\ written.said = j.said /\ written.is # "output"
      BY <3>1 DEF Cached
    <3> QED BY <2>2, <3>2, Zenon DEF Genuine
  <2> QED BY <1>3, <2>1, <2>2, Zenon DEF KeepOK
<1> HIDE DEF written
<1>6. /\ SameKept(h, j) /\ h.pc = "write" /\ h.fd = "tmp" /\ h.out = written
  BY <1>4, JobFieldsAre DEF SameKept, SameWork
<1> HIDE DEF h
<1>7. KeepOK(h, answers)
  <2>1. UsableFrom(h) = UsableFrom(j) /\ h.path = path
    BY <1>6, Zenon DEF SameKept, SameWork, UsableFrom
  <2> QED BY <1>3, <1>5, <1>6, <2>1, KeepsKeeping, Zenon
<1>8. JobOK(h, answers)
  <2>1. Keeping(h) /\ SameWork(h, j)
    BY <1>6 DEF Keeping, SameKept
  <2> QED BY <1>3, <1>4, <1>7, <2>1, SameWorkOK, Zenon
<1>9. /\ CachesOK(cs, answers) /\ cs[path].tmp = Empty
      /\ \A q \in CachePaths : cs[q].dest = caches[q].dest
  <2>1. Genuine(path, Empty, 1, answers)
    BY NothingInIt
  <2> HIDE DEF path
  <2> QED BY <1>3, <1>4, <2>1, OneFile
<1> HIDE DEF cs
<1>10. AloneOK(h, answers, cs)
  <2>1. h.path = path /\ h.inputs = j.inputs /\ h.since = j.since /\ h.kind = j.kind
        /\ h.alone = j.alone
    BY <1>6, Zenon DEF SameKept, SameWork
  <2>2. h.kind = "refresh" /\ h.alone =>
            \A i \in DOMAIN h.inputs : \A q \in PathsOf(h.inputs[i]) :
                Genuine(q, cs[q].dest, h.since + 1, answers)
    BY <1>3, <1>4, <1>9, <2>1, DestsStay, Zenon
  <2>3. h.pc # "rename" /\ h.fd = "tmp" /\ cs[h.path].tmp = Empty
    BY <1>6, <1>9, <2>1
  <2> QED BY <2>2, <2>3, Zenon DEF AloneOK
<1> QED BY <1>2, <1>3, <1>4, <1>6, <1>8, <1>9, <1>10, BecomesKeeps, Zenon DEF SameKept, SameWork

\* What is written where the opened file is by now.
LEMMA IntoCacheOK ==
    ASSUME GenInv, NEW p \in Maker, job[p].path \in CachePaths, NEW all \in BOOLEAN,
           IntoCache(p, all), Genuine(job[p].path, job[p].out, 1, answers)
    PROVE  /\ CachesOK(caches', answers)
           /\ all /\ job[p].fd = "tmp" /\ caches[job[p].path].tmp = Empty =>
                  caches' = Beside(caches, job[p].path, job[p].out)
<1> DEFINE path == job[p].path
           fd == job[p].fd
           written == job[p].out
<1>1. /\ CachesOK(caches, answers) /\ path \in CachePaths
      /\ Genuine(path, written, 1, answers) /\ Genuine(path, Torn, 1, answers)
  BY NothingInIt, Zenon DEF GenInv
<1>2. \/ fd = "gone" /\ caches' = caches
      \/ \E new \in IF all THEN Overwritten(caches[path][fd], written) ELSE {Torn} :
             caches' = [caches EXCEPT ![path][fd] = new]
  BY Zenon DEF IntoCache
<1> HIDE DEF path, fd, written
<1>3. CASE fd = "gone" /\ caches' = caches
  <2>1. "gone" # "tmp"
    OBVIOUS
  <2> QED BY <1>1, <1>3, <2>1, Zenon DEF path, fd, written
<1>4. ASSUME NEW new \in IF all THEN Overwritten(caches[path][fd], written) ELSE {Torn},
             caches' = [caches EXCEPT ![path][fd] = new]
      PROVE  /\ CachesOK(caches', answers)
             /\ all /\ fd = "tmp" /\ caches[path].tmp = Empty =>
                    caches' = Beside(caches, path, written)
  <2>1. new \in {written, Torn}
    BY <1>4 DEF Overwritten
  <2>2. Genuine(path, new, 1, answers)
    BY <1>1, <2>1, Zenon
  <2>3. CASE fd = "dest"
    <3>1. caches' = InPlace(caches, path, new)
      BY <1>4, <2>3 DEF InPlace
    <3>2. fd # "tmp"
      BY <2>3
    <3> QED BY <1>1, <2>2, <3>1, <3>2, OneFile
  <2>4. CASE fd = "tmp"
    <3>1. caches' = Beside(caches, path, new)
      BY <1>4, <2>4 DEF Beside
    <3>2. ASSUME all, caches[path].tmp = Empty PROVE new = written
      <4>1. caches[path][fd] = Empty
        BY <2>4, <3>2
      <4> QED BY <1>4, <3>2, <4>1 DEF Overwritten
    <3>3. CachesOK(caches', answers)
      BY <1>1, <2>2, <3>1, OneFile
    <3> QED BY <3>1, <3>2, <3>3
  <2>5. CASE fd # "dest" /\ fd # "tmp"
    <3>1. DOMAIN caches = CachePaths /\ DOMAIN caches[path] = {"dest", "tmp"}
      BY <1>1, Zenon DEF CachesOK
    <3>2. DOMAIN caches' = CachePaths /\ \A q \in CachePaths \ {path} : caches'[q] = caches[q]
      BY <1>4, <3>1
    <3>3. /\ DOMAIN caches'[path] = {"dest", "tmp"}
          /\ caches'[path].dest = caches[path].dest
          /\ caches'[path].tmp = caches[path].tmp
      BY <1>1, <1>4, <2>5, <3>1
    <3>4. ASSUME NEW q \in CachePaths
          PROVE  /\ DOMAIN caches'[q] = {"dest", "tmp"}
                 /\ caches'[q].dest = caches[q].dest
                 /\ caches'[q].tmp = caches[q].tmp
      <4>1. CASE q = path
        BY <3>3, <4>1
      <4>2. CASE q # path
        <5>1. caches'[q] = caches[q]
          BY <3>2, <4>2
        <5>2. DOMAIN caches[q] = {"dest", "tmp"}
          BY <1>1, Zenon DEF CachesOK
        <5> QED BY <5>1, <5>2
      <4> QED BY <4>1, <4>2
    <3> QED BY <1>1, <2>5, <3>2, <3>4, Zenon DEF CachesOK
  <2> QED BY <2>3, <2>4, <2>5
<1> QED BY <1>2, <1>3, <1>4 DEF path, fd, written

\* What is genuine of late is genuine.
LEMMA GenuineAtAll ==
    ASSUME GenInv, NEW p \in Maker, Running(p), NEW path, NEW v,
           Genuine(path, v, UsableFrom(job[p]), answers)
    PROVE  Genuine(path, v, 1, answers)
<1>1. /\ Longer(answers, answers) /\ job[p].since \in Nat
      /\ UsableFrom(job[p]) \in Nat /\ 1 <= UsableFrom(job[p]) /\ 1 \in Nat \ {0}
  <2>1. JobOK(job[p], answers)
    BY RunningFacts
  <2>2. job[p].since \in Nat
    BY <2>1 DEF JobOK
  <2> QED BY <2>2, AnswersAre DEF UsableFrom
<1> QED BY <1>1, GenuineGrows, Zenon

LEMMA WriteCacheOK == ASSUME GenInv, NEW p \in Maker, WriteCache(p) PROVE GenInv'
<1> DEFINE j == job[p]
           path == j.path
           h == [j EXCEPT !.pc = "rename", !.fd = "none"]
<1>1. j.pc = "write" /\ Keeping(j)
  BY DEF WriteCache, Keeping
<1>2. /\ IntoCache(p, TRUE) /\ answers' = answers /\ Becomes(p, h)
  BY Zenon DEF WriteCache
<1>3. /\ Running(p) /\ Generating(j) /\ KeepOK(j, answers) /\ path \in CachePaths
  BY <1>1, KeepingFacts
<1>4. /\ JobOK(j, answers) /\ AloneOK(j, answers, caches) /\ InFlight(j)
      /\ DOMAIN j = JobFields /\ Len(answers) \in Nat /\ CachesOK(caches, answers)
      /\ Longer(answers, answers) /\ \E T : answers \in Seq(T)
  BY <1>3, RunningFacts, AnswersAre, Zenon DEF GenInv
<1>5. Genuine(path, j.out, UsableFrom(j), answers)
  BY <1>1, <1>3, Zenon DEF KeepOK
<1>6. Genuine(path, j.out, 1, answers)
  BY <1>3, <1>5, GenuineAtAll, Zenon
<1>7. /\ CachesOK(caches', answers)
      /\ j.fd = "tmp" /\ caches[path].tmp = Empty => caches' = Beside(caches, path, j.out)
  BY <1>2, <1>3, <1>6, IntoCacheOK
<1>8. SameKept(h, j) /\ h.pc = "rename"
  BY <1>4, JobFieldsAre DEF SameKept, SameWork
<1> HIDE DEF h
<1>9. h.pc # "write" /\ Keeping(h) /\ SameWork(h, j)
  BY <1>8 DEF Keeping, SameKept
<1>10. JobOK(h, answers)
  <2>1. KeepOK(h, answers)
    BY <1>3, <1>8, <1>9, KeepsKeeping, Zenon
  <2> QED BY <1>3, <1>4, <1>9, <2>1, SameWorkOK, Zenon
<1>11. AloneOK(h, answers, caches')
  <2>1. h.path = path /\ h.inputs = j.inputs /\ h.since = j.since /\ h.kind = j.kind
        /\ h.alone = j.alone
    BY <1>8, Zenon DEF SameKept, SameWork
  <2>2. ASSUME h.kind = "refresh", h.alone
        PROVE  /\ \A i \in DOMAIN h.inputs : \A q \in PathsOf(h.inputs[i]) :
                      Genuine(q, caches'[q].dest, h.since + 1, answers)
               /\ Genuine(h.path, caches'[h.path].tmp, h.since + 1, answers)
    <3>1. j.fd = "tmp" /\ caches[path].tmp = Empty
      BY <1>1, <1>4, <2>1, <2>2, Zenon DEF AloneOK
    <3>2. caches' = Beside(caches, path, j.out)
      BY <1>7, <3>1
    <3> DEFINE cs == Beside(caches, path, j.out)
    <3>3. cs[path].tmp = j.out /\ \A q \in CachePaths : cs[q].dest = caches[q].dest
      <4> HIDE DEF j, path
      <4> QED BY <1>3, <1>4, <1>6, OneFile
    <3> HIDE DEF cs
    <3>4. \A i \in DOMAIN h.inputs : \A q \in PathsOf(h.inputs[i]) :
              Genuine(q, cs[q].dest, h.since + 1, answers)
      BY <1>3, <2>1, <2>2, <3>3, DestsStay, Zenon
    <3>5. UsableFrom(j) = j.since + 1
      BY <2>1, <2>2, Zenon DEF UsableFrom
    <3>6. Genuine(h.path, cs[h.path].tmp, h.since + 1, answers)
      BY <1>5, <2>1, <3>3, <3>5, Zenon
    <3> QED BY <3>2, <3>4, <3>6, Zenon DEF cs
  <2> QED BY <1>9, <2>2, Zenon DEF AloneOK
<1> QED BY <1>2, <1>3, <1>4, <1>7, <1>9, <1>10, <1>11, BecomesKeeps, Zenon DEF SameWork

LEMMA RenameCacheFailsOK ==
    ASSUME GenInv, NEW p \in Maker, RenameCacheFails(p) PROVE GenInv'
<1> DEFINE j == job[p]
           h == [j EXCEPT !.pc = "cleanup"]
<1>1. j.pc = "rename" /\ Keeping(j)
  BY DEF RenameCacheFails, Keeping
<1>2. UNCHANGED <<caches, answers>> /\ Becomes(p, h)
  BY DEF RenameCacheFails
<1>3. /\ Running(p) /\ Generating(j) /\ KeepOK(j, answers)
  BY <1>1, KeepingFacts
<1>4. JobOK(j, answers) /\ AloneOK(j, answers, caches) /\ DOMAIN j = JobFields
  BY <1>3, RunningFacts
<1>5. SameKept(h, j) /\ h.pc = "cleanup"
  BY <1>4, JobFieldsAre DEF SameKept, SameWork
<1> HIDE DEF h
<1>6. h.pc # "write" /\ h.pc # "rename" /\ Keeping(h) /\ SameWork(h, j)
  BY <1>5 DEF Keeping, SameKept
<1>7. KeepOK(h, answers)
  BY <1>3, <1>5, <1>6, KeepsKeeping, Zenon
<1>8. JobOK(h, answers) /\ AloneOK(h, answers, caches)
  BY <1>3, <1>4, <1>6, <1>7, SameWorkOK, Zenon
<1> QED BY <1>2, <1>3, <1>6, <1>8, OwnStep, Zenon DEF SameWork

LEMMA RenameCacheOK == ASSUME GenInv, NEW p \in Maker, RenameCache(p) PROVE GenInv'
<1> DEFINE j == job[p]
           mf == Manifest(j)
           path == j.path
           cs == [caches EXCEPT ![path] = [dest |-> @.tmp, tmp |-> Absent]]
           g == [j EXCEPT !.pc = "generate", !.made = Append(@, j.rules)]
           h == Stored(p)
<1>1. j.pc = "rename" /\ Keeping(j)
  BY DEF RenameCache, Keeping
<1>2. /\ caches' = cs /\ answers' = answers
      /\ job' = [q \in Maker |->
            IF q = p THEN h
            ELSE IF job[q].path = path THEN [job[q] EXCEPT !.fd = Renamed(@)]
            ELSE job[q]]
  BY Zenon DEF RenameCache
<1>3. /\ Running(p) /\ Generating(j) /\ KeepOK(j, answers) /\ path \in CachePaths
  BY <1>1, KeepingFacts
<1>4. /\ JobOK(j, answers) /\ AloneOK(j, answers, caches) /\ InFlight(j)
      /\ DOMAIN j = JobFields /\ mf \in Inputs /\ Len(answers) \in Nat
      /\ CachesOK(caches, answers) /\ j.inputs \in Seq(Inputs)
      /\ Longer(answers, answers) /\ \E T : answers \in Seq(T)
  BY <1>3, RunningFacts, AnswersAre, Zenon DEF GenInv
<1>5. DOMAIN job' = Maker /\ \A q \in Maker \ {p} : Touched(job'[q], job[q])
  <2>1. \A q \in Maker \ {p} :
            job'[q] = job[q] \/ \E fd : job'[q] = [job[q] EXCEPT !.fd = fd]
    BY <1>2, Zenon
  <2>2. \A q \in Maker \ {p} : Touched(job'[q], job[q])
    BY <2>1, OthersTouched, Zenon
  <2>3. DOMAIN job' = Maker
    BY <1>2
  <2> QED BY <2>2, <2>3
<1>6. h = IF path[1] = "registries" THEN NextDep(p, j.said, Tail(j.queue))
          ELSE AtInput(g, j.at + 1)
  BY Zenon DEF Stored
<1>7. /\ DOMAIN caches = CachePaths
      /\ \A q \in CachePaths : /\ DOMAIN caches[q] = {"dest", "tmp"}
                               /\ Genuine(q, caches[q].dest, 1, answers)
                               /\ Genuine(q, caches[q].tmp, 1, answers)
  BY <1>4, Zenon DEF CachesOK
<1>8. /\ DOMAIN cs = CachePaths /\ DOMAIN cs[path] = {"dest", "tmp"}
      /\ cs[path].dest = caches[path].tmp /\ cs[path].tmp = Absent
      /\ \A q \in CachePaths \ {path} : cs[q] = caches[q]
  <2> HIDE DEF path
  <2> QED BY <1>3, <1>7
<1> HIDE DEF cs, h
<1>9. CachesOK(cs, answers)
  <2>1. ASSUME NEW q \in CachePaths
        PROVE  /\ DOMAIN cs[q] = {"dest", "tmp"}
               /\ Genuine(q, cs[q].dest, 1, answers)
               /\ Genuine(q, cs[q].tmp, 1, answers)
    <3>1. CASE q = path
      BY <1>7, <1>8, <3>1, NothingInIt, Zenon
    <3>2. CASE q # path
      <4>1. cs[q] = caches[q]
        BY <1>8, <3>2
      <4> QED BY <1>7, <4>1, Zenon
    <3> QED BY <3>1, <3>2
  <2> QED BY <1>8, <2>1, Zenon DEF CachesOK
<1>10. ASSUME j.kind = "refresh", j.alone,
              NEW i \in DOMAIN j.inputs, NEW q \in PathsOf(j.inputs[i])
       PROVE  Genuine(q, cs[q].dest, j.since + 1, answers)
  <2>1. Genuine(q, caches[q].dest, j.since + 1, answers)
    BY <1>3, <1>10, CacheIsUsable, Zenon DEF AllUsable
  <2>2. CASE q = path
    <3>1. Genuine(path, caches[path].tmp, j.since + 1, answers)
      BY <1>1, <1>4, <1>10, Zenon DEF AloneOK
    <3> QED BY <1>8, <2>2, <3>1, Zenon
  <2>3. CASE q # path
    <3>1. j.inputs[i] \in Inputs
      BY <1>4
    <3>2. q \in CachePaths
      BY <3>1, PathsType
    <3>3. cs[q] = caches[q]
      BY <1>8, <2>3, <3>2
    <3> QED BY <2>1, <3>3, Zenon
  <2> QED BY <2>2, <2>3
<1>11. AloneOK(j, answers, cs)
  <2>1. j.pc # "write"
    BY <1>1
  <2>2. Genuine(path, cs[path].tmp, j.since + 1, answers)
    BY <1>8, NothingInIt, Zenon
  <2> QED BY <1>10, <2>1, <2>2, Zenon DEF AloneOK
<1>12. JobOK(h, answers) /\ AloneOK(h, answers, cs) /\ h.alone = j.alone
  <2>1. CASE path = outputPath(mf) /\ MadeOf(mf, j.rules, UsableFrom(j), answers)
    <3>1. h = AtInput(g, j.at + 1)
      <4>1. path[1] = "generators"
        BY <2>1, PathsDiffer
      <4>2. path[1] # "registries"
        BY <4>1
      <4> QED BY <1>6, <4>2, Zenon
    <3>2. Adds(g, j, j.rules)
      BY <1>4, JobFieldsAre DEF Adds
    <3>3. AllUsable(j, answers, cs)
      BY <1>10, Zenon DEF AllUsable
    <3>4. MadeOf(mf, j.rules, UsableFrom(j), answers)
      BY <2>1
    <3> HIDE DEF g, j
    <3>5. /\ JobOK(AtInput(g, j.at + 1), answers)
          /\ AloneOK(AtInput(g, j.at + 1), answers, cs)
          /\ AtInput(g, j.at + 1).alone = j.alone
      <4>1. Len(answers) \in Nat /\ JobOK(j, answers) /\ Generating(j)
        BY <1>3, <1>4
      <4> QED BY <3>2, <3>3, <3>4, <4>1, NextInputOK, Zenon
    <3> QED BY <3>1, <3>5, Zenon
  <2>2. CASE /\ WalkOK(j, answers) /\ path = entryPath(mf.eco, Head(j.queue))
             /\ ToldOf(path, j.said, UsableFrom(j), answers)
    <3>1. path[1] = "registries"
      BY <2>2, PathsDiffer
    <3>2. h = NextDep(p, j.said, Tail(j.queue))
      BY <1>6, <3>1, Zenon
    <3>3. ToldOf(entryPath(mf.eco, Head(j.queue)), j.said, UsableFrom(j), answers)
      BY <2>2, Zenon
    <3>4. /\ JobOK(NextDep(p, j.said, Tail(j.queue)), answers)
          /\ AloneOK(NextDep(p, j.said, Tail(j.queue)), answers, cs)
          /\ SameWork(NextDep(p, j.said, Tail(j.queue)), j)
      BY <1>3, <1>4, <1>11, <2>2, <3>3, NextDepOK
    <3> QED BY <3>2, <3>4, Zenon DEF SameWork
  <2> QED BY <1>3, <2>1, <2>2, Zenon DEF KeepOK
<1>13. job'[p] = h
  BY <1>2
<1> QED BY <1>2, <1>3, <1>4, <1>5, <1>9, <1>12, <1>13, StepKeeps, Zenon

LEMMA RemoveCacheTmpOK ==
    ASSUME GenInv, NEW p \in Maker, RemoveCacheTmp(p) PROVE GenInv'
<1> DEFINE j == job[p]
           path == j.path
           cs == Beside(caches, path, Absent)
<1>1. j.pc = "cleanup" /\ Keeping(j)
  BY DEF RemoveCacheTmp, Keeping
<1>2. /\ caches' = cs /\ answers' = answers
      /\ job' = [q \in Maker |->
            IF q = p THEN NoJob
            ELSE IF job[q].path = path THEN [job[q] EXCEPT !.fd = Unlinked(@, "tmp")]
            ELSE job[q]]
  BY Zenon DEF RemoveCacheTmp, Beside
<1>3. Running(p) /\ path \in CachePaths
  BY <1>1, KeepingFacts
<1>4. /\ Len(answers) \in Nat /\ CachesOK(caches, answers)
      /\ Longer(answers, answers) /\ \E T : answers \in Seq(T)
  BY AnswersAre, Zenon DEF GenInv
<1>5. CachesOK(cs, answers)
  <2>1. Genuine(path, Absent, 1, answers)
    BY NothingInIt
  <2> HIDE DEF path
  <2> QED BY <1>3, <1>4, <2>1, OneFile
<1>6. DOMAIN job' = Maker /\ \A q \in Maker \ {p} : Touched(job'[q], job[q])
  <2>1. \A q \in Maker \ {p} :
            job'[q] = job[q] \/ \E fd : job'[q] = [job[q] EXCEPT !.fd = fd]
    BY <1>2, Zenon
  <2>2. \A q \in Maker \ {p} : Touched(job'[q], job[q])
    BY <2>1, OthersTouched, Zenon
  <2>3. DOMAIN job' = Maker
    BY <1>2
  <2> QED BY <2>2, <2>3
<1>7. job'[p] = NoJob
  BY <1>2
<1> HIDE DEF cs
<1> QED BY <1>2, <1>3, <1>4, <1>5, <1>6, <1>7, NoJobOK, StepKeeps, Zenon

LEMMA BreaksOK == ASSUME GenInv, NEW p \in Maker, Breaks(p) PROVE GenInv'
<1>1. Running(p) /\ Becomes(p, NoJob) /\ answers' = answers
  BY DEF Breaks
<1>2. /\ Len(answers) \in Nat /\ CachesOK(caches, answers)
      /\ Longer(answers, answers) /\ \E T : answers \in Seq(T)
  BY AnswersAre, Zenon DEF GenInv
<1>3. CASE caches' = caches
  BY <1>1, <1>2, <1>3, NoJobOK, BecomesKeeps, Zenon
<1>4. CASE job[p].pc = "write" /\ IntoCache(p, FALSE)
  <2>1. Keeping(job[p])
    BY <1>4 DEF Keeping
  <2>2. KeepOK(job[p], answers) /\ job[p].path \in CachePaths
    BY <2>1, KeepingFacts
  <2>3. Genuine(job[p].path, job[p].out, UsableFrom(job[p]), answers)
    BY <1>4, <2>2, Zenon DEF KeepOK
  <2>4. Genuine(job[p].path, job[p].out, 1, answers)
    BY <1>1, <2>3, GenuineAtAll, Zenon
  <2>5. CachesOK(caches', answers)
    BY <1>4, <2>2, <2>4, IntoCacheOK
  <2> QED BY <1>1, <1>2, <2>5, NoJobOK, BecomesKeeps, Zenon
<1> QED BY <1>3, <1>4 DEF Breaks

LEMMA StartJobOK == ASSUME GenInv, NEW p \in Maker, StartJob(p) PROVE GenInv'
<1>1. PICK w \in Jobs[p] :
          LET others == {q \in Maker \ {p} : Running(q)}
              new == [NoJob EXCEPT !.kind = w.kind, !.inputs = w.inputs,
                                   !.pc = IF w.kind = "refresh" THEN "clear" ELSE "generate",
                                   !.since = Len(answers), !.alone = others = {}]
          IN job' = [q \in Maker |->
                      IF q = p THEN AtInput(new, 1)
                      ELSE IF q \in others THEN [job[q] EXCEPT !.alone = FALSE]
                      ELSE job[q]]
  BY Zenon DEF StartJob
<1> DEFINE others == {q \in Maker \ {p} : Running(q)}
           begins == IF w.kind = "refresh" THEN "clear" ELSE "generate"
           alone == others = {}
           new == [NoJob EXCEPT !.kind = w.kind, !.inputs = w.inputs, !.pc = begins,
                                !.since = Len(answers), !.alone = alone]
           h == AtInput(new, 1)
<1>2. caches' = caches /\ answers' = answers
  BY DEF StartJob
<1>3. /\ Len(answers) \in Nat /\ CachesOK(caches, answers)
      /\ Longer(answers, answers) /\ \E T : answers \in Seq(T)
      /\ \A q \in Maker : JobOK(job[q], answers) /\ AloneOK(job[q], answers, caches)
  BY AnswersAre, Zenon DEF GenInv
<1>4. /\ DOMAIN job' = Maker /\ job'[p] = h
      /\ \A q \in Maker \ {p} : job'[q] = IF Running(q) THEN [job[q] EXCEPT !.alone = FALSE]
                                          ELSE job[q]
  BY <1>1, Zenon
<1>5. begins = "clear" \/ (begins = "generate" /\ w.kind # "refresh")
  OBVIOUS
<1> HIDE DEF begins, alone
<1>6. /\ DOMAIN new = JobFields /\ new.pc = begins /\ new.inputs = w.inputs /\ new.made = <<>>
      /\ new.rules = <<>> /\ new.since = Len(answers) /\ new.kind = w.kind
      /\ new.alone = alone
  <2>1. DOMAIN NoJob = JobFields /\ NoJob.made = <<>> /\ NoJob.rules = <<>>
    BY DEF JobFields, NoJob
  <2> QED BY <2>1, JobFieldsAre
<1> HIDE DEF new
<1>7. w.inputs \in Seq(Inputs)
  <2>1. w.inputs \in Seq(Elements(w.inputs))
    BY GeneratorsAssumption
  <2>2. Elements(w.inputs) \subseteq Inputs
    BY DEF Inputs
  <2> HIDE DEF others
  <2> QED BY <2>1, <2>2
<1>8. Ahead(new, 1, answers)
  <2>1. 1 \in 1..(Len(w.inputs) + 1) /\ Len(answers) \in 0..Len(answers) /\ 1 - 1 = 0
        /\ 1..0 = {} /\ Len(<<>>) = 0 /\ <<>> \in Seq({})
    BY <1>3, <1>7
  <2>2. MadeSoFar(new, 1 - 1, answers)
    BY <1>6, <2>1, Zenon DEF MadeSoFar
  <2> QED BY <1>5, <1>6, <1>7, <2>1, <2>2, Zenon DEF Ahead
<1>9. AheadAlone(new, 1, answers, caches)
  <2>1. DOMAIN w.inputs = 1..Len(w.inputs)
    BY <1>7
  <2> QED BY <1>5, <1>6, <2>1, Zenon DEF AheadAlone
<1>10. /\ JobOK(h, answers) /\ AloneOK(h, answers, caches) /\ h.alone = alone
  BY <1>3, <1>6, <1>8, <1>9, AtInputOK, AtInputAlone, Zenon
<1> HIDE DEF h
<1>11. ASSUME NEW q \in Maker \ {p}
       PROVE  /\ JobOK(job'[q], answers) /\ AloneOK(job'[q], answers, caches)
              /\ InFlight(job'[q]) <=> Running(q)
              /\ ~(InFlight(job'[q]) /\ job'[q].alone)
  <2>1. /\ JobOK(job[q], answers) /\ AloneOK(job[q], answers, caches)
        /\ InFlight(job[q]) <=> Running(q)
    BY <1>3 DEF Running, InFlight
  <2>2. CASE ~Running(q)
    <3>1. job'[q] = job[q]
      BY <1>4, <2>2
    <3> QED BY <2>1, <2>2, <3>1, Zenon
  <2>3. CASE Running(q)
    <3> DEFINE g == [job[q] EXCEPT !.alone = FALSE]
    <3>1. job'[q] = g
      BY <1>4, <2>3
    <3>2. DOMAIN job[q] = JobFields
      BY <2>1, Zenon DEF JobOK
    <3>3. /\ DOMAIN g = DOMAIN job[q] /\ ~g.alone /\ g.pc = job[q].pc
          /\ \A f \in JobFields \ {"fd", "alone"} : g[f] = job[q][f]
      BY <3>2, JobFieldsAre
    <3> HIDE DEF g
    <3>4. JobOK(g, answers)
      BY <1>3, <2>1, <3>3, JobLike, Zenon
    <3>5. AloneOK(g, answers, caches)
      BY <3>3, Zenon DEF AloneOK
    <3>6. InFlight(g)
      BY <2>1, <2>3, <3>3, Zenon DEF InFlight
    <3> QED BY <2>3, <3>1, <3>3, <3>4, <3>5, <3>6, Zenon
  <2> QED BY <2>2, <2>3
<1>12. \A q \in Maker : JobOK(job[q], answers)' /\ AloneOK(job[q], answers, caches)'
  <2>1. \A q \in Maker : JobOK(job'[q], answers) /\ AloneOK(job'[q], answers, caches)
    BY <1>4, <1>10, <1>11, Zenon
  <2> QED BY <1>2, <2>1, Zenon
<1>13. \A q, r \in Maker : Running(q)' /\ Running(r)' /\ job'[q].alone => q = r
  <2>1. \A q \in Maker : Running(q)' <=> InFlight(job'[q])
    BY DEF Running, InFlight
  <2> TAKE q \in Maker, r \in Maker
  <2> HAVE Running(q)' /\ Running(r)' /\ job'[q].alone
  <2>2. q = p
    BY <1>11, <2>1, Zenon
  <2>3. CASE r # p
    <3>1. r \in others
      BY <1>11, <2>1, <2>3, Zenon
    <3>2. ~alone
      BY <3>1 DEF alone
    <3> QED BY <1>4, <1>10, <2>2, <3>2, Zenon
  <2> QED BY <2>2, <2>3
<1>14. CachesOK(caches, answers)' /\ \E T : answers' \in Seq(T)
  BY <1>2, <1>3, Zenon
<1> QED BY <1>4, <1>12, <1>13, <1>14, Zenon DEF GenInv

\* The first of the answers of a path.
LEMMA FirstAnswer ==
    ASSUME NEW T, NEW ans \in Seq(T), NEW path
    PROVE  LET n == IndexOf(ans, LAMBDA a : a.path = path)
           IN n = 0 \/ (n \in 1..Len(ans) /\ ans[n].path = path)
<1> DEFINE those == {i \in DOMAIN ans : ans[i].path = path}
           first == CHOOSE i \in those : \A k \in those : i <= k
<1>1. IndexOf(ans, LAMBDA a : a.path = path) = IF those = {} THEN 0 ELSE first
  BY Zenon DEF IndexOf
<1>2. DOMAIN ans = 1..Len(ans) /\ those \subseteq Nat
  OBVIOUS
<1>3. those # {} => first \in those
  <2> HIDE DEF those
  <2>1. those # {} => \E i \in those : \A k \in those : i <= k
    BY <1>2, Least
  <2> QED BY <2>1, Zenon
<1>4. \A i \in those : i \in 1..Len(ans) /\ ans[i].path = path
  BY <1>2
<1> HIDE DEF those, first
<1> QED BY <1>1, <1>3, <1>4, Zenon

LEMMA GenInitOK ==
    ASSUME NEW earlier, earlier \in Seq(Elements(earlier)), GenInit(earlier)
    PROVE  GenInv
<1> DEFINE N(path) == IndexOf(earlier, LAMBDA a : a.path = path)
           Held(path) == IF N(path) = 0 THEN Absent ELSE Cached(earlier[N(path)].said)
<1>1. /\ answers = earlier /\ job = [p \in Maker |-> NoJob]
      /\ caches = [path \in CachePaths |-> [dest |-> Held(path), tmp |-> Absent]]
  BY Zenon DEF GenInit
<1>2. /\ Len(answers) \in Nat /\ \E T : answers \in Seq(T)
  BY <1>1
<1>3. ASSUME NEW path PROVE Genuine(path, Held(path), 1, earlier)
  <2>1. CASE N(path) = 0
    BY <2>1, NothingInIt, Zenon
  <2>2. CASE N(path) # 0
    <3>1. N(path) \in 1..Len(earlier) /\ earlier[N(path)].path = path
      BY <2>2, FirstAnswer, Zenon
    <3>2. Held(path) = Cached(earlier[N(path)].said)
      BY <2>2, Zenon
    <3> HIDE DEF N, Held
    <3>3. ToldOf(path, earlier[N(path)].said, 1, earlier)
      BY <3>1, Zenon DEF ToldOf
    <3>4. Held(path).is = "entry" /\ Held(path).is # "output"
          /\ Held(path).said = earlier[N(path)].said
      BY <3>2 DEF Cached
    <3> QED BY <3>3, <3>4, Zenon DEF Genuine
  <2> QED BY <2>1, <2>2
<1> HIDE DEF Held
<1>4. CachesOK(caches, answers)
  <2>1. /\ DOMAIN caches = CachePaths
        /\ \A path \in CachePaths : /\ DOMAIN caches[path] = {"dest", "tmp"}
                                    /\ caches[path].dest = Held(path)
                                    /\ caches[path].tmp = Absent
    BY <1>1
  <2> QED BY <1>1, <1>3, <2>1, NothingInIt, Zenon DEF CachesOK
<1>5. DOMAIN job = Maker /\ \A p \in Maker : job[p] = NoJob /\ ~Running(p)
  BY <1>1, <1>2, NoJobOK DEF Running, InFlight
<1>6. \A p \in Maker : JobOK(job[p], answers) /\ AloneOK(job[p], answers, caches)
  BY <1>2, <1>5, NoJobOK, Zenon
<1> QED BY <1>2, <1>4, <1>5, <1>6, Zenon DEF GenInv

LEMMA GenUnchanged == ASSUME GenInv, UNCHANGED <<caches, answers, job>> PROVE GenInv'
<1>1. caches' = caches /\ answers' = answers /\ job' = job
  OBVIOUS
<1>2. \A p \in Maker : Running(p)' <=> Running(p)
  BY <1>1 DEF Running
<1> QED BY <1>1, <1>2, Zenon DEF GenInv

LEMMA GenNextOK == ASSUME GenInv, [GenNext]_genVars PROVE GenInv'
<1>1. CASE UNCHANGED genVars
  <2>1. UNCHANGED <<caches, answers, job>>
    BY <1>1 DEF genVars
  <2> QED BY <2>1, GenUnchanged
<1>2. CASE Tick
  <2>1. UNCHANGED <<caches, answers, job>>
    BY <1>2 DEF Tick
  <2> QED BY <2>1, GenUnchanged
<1>3. ASSUME NEW p \in Maker,
             \/ StartJob(p) \/ StatCached(p) \/ RemoveCached(p)
             \/ readCache(p) \/ readFreshCache(p) \/ fetch(p)
             \/ OpenCache(p) \/ WriteCache(p) \/ RenameCache(p)
             \/ RenameCacheFails(p) \/ RemoveCacheTmp(p) \/ Breaks(p)
      PROVE  GenInv'
  BY <1>3, StartJobOK, StatCachedOK, RemoveCachedOK, readCacheOK, readFreshCacheOK,
     fetchOK, OpenCacheOK, WriteCacheOK, RenameCacheOK, RenameCacheFailsOK,
     RemoveCacheTmpOK, BreaksOK, Zenon
<1> QED BY <1>1, <1>2, <1>3, Zenon DEF GenNext

LEMMA GenInvRules == ASSUME GenInv PROVE RulesAsAnswered
<1> SUFFICES ASSUME NEW p \in Maker, job[p].pc = "done"
             PROVE  /\ Len(job[p].made) = Len(job[p].inputs)
                    /\ \A i \in DOMAIN job[p].inputs :
                         MadeFrom(job[p].inputs[i], job[p].made[i], UsableFrom(job[p]))
  BY Zenon DEF RulesAsAnswered
<1>1. JobOK(job[p], answers)
  BY Zenon DEF GenInv
<1> QED BY <1>1, MadeFromIs, Zenon DEF JobOK

\* The rules a compile generates are what the registries answered, and those
\* of a refresh that nothing overlapped what they answered since it began:
\* for all manifests, jobs and registries, however many processes share the
\* caches, with whatever the registries answered before.
THEOREM RulesCorrect ==
    ASSUME NEW earlier, earlier \in Seq(Elements(earlier))
    PROVE  GenSpec(earlier) => []RulesAsAnswered
<1>1. GenInit(earlier) => GenInv
  BY GenInitOK
<1>2. GenInv /\ [GenNext]_genVars => GenInv'
  BY GenNextOK
<1>3. GenInv => RulesAsAnswered
  BY GenInvRules
<1> QED BY <1>1, <1>2, <1>3, PTL DEF GenSpec
==============================================================================
