----------------------- MODULE CredentialBrokerProofs -----------------------
(***************************************************************************)
(* Theorems of CredentialBroker, for every set of credentials and fetches, *)
(* every payload, every scenario and all margins, lifetimes and bounds.    *)
(***************************************************************************)
EXTENDS CredentialBroker, TLAPS

-----------------------------------------------------------------------------
(***************************************************************************)
(* Types                                                                   *)
(***************************************************************************)

RefState == [st : {"off", "mint", "sent", "rotate", "sleep", "backoff", "stopped"},
             at : Times, fails : 0..MaxFails]

ConnState == [st : {"none", "queued", "open", "got", "replied"},
              cred : Cred \cup {NoCred}, token : Garbled..MaxMints, exp : Times]

GrantState == [provider : 0..(2 * MaxMints), minter : 0..(2 * MaxMints),
               keychain : 0..(2 * MaxMints)]

PlainTyped ==
    /\ now \in 0..MaxTime
    /\ env \in Scenarios
    /\ payload \in Payloads
    /\ pc \in {"starting", "serving", "draining", "joining", "revoking", "wiping",
               "exited"}
    /\ cancelled \in BOOLEAN
    /\ revoked \in [Cred -> 0..MaxMints]

StoreTyped ==
    /\ issued \in [Cred -> 0..MaxMints]
    /\ expires \in [Cred -> 0..(MaxTime + Life)]

RefTyped == ref \in [Cred -> RefState]

ConnTyped ==
    /\ conn \in [Req -> ConnState]
    /\ client \in [Req -> Cred \cup {NoCred}]
    /\ given \in [Req -> Garbled..MaxMints]
    /\ \A r \in Req : conn[r].st \notin {"none", "replied"} => conn[r].cred \in Cred

\* The provider is at most one grant ahead of the minter, which received one
\* refresh token with each access token at most.
GrantTyped ==
    /\ grant \in [Cred -> GrantState]
    /\ \A c \in Cred : /\ grant[c].minter <= issued[c]
                       /\ grant[c].provider \in {grant[c].minter, grant[c].minter + 1}
                       /\ grant[c].keychain <= 2 * MaxMints

\* Before Start nothing was minted and no refresher runs.
StartClean ==
    pc = "starting" => \A c \in Cred : /\ issued[c] = 0 /\ grant[c].minter = 0
                                       /\ ref[c].st = "off"

TypeInv == PlainTyped /\ StoreTyped /\ RefTyped /\ ConnTyped /\ GrantTyped /\ StartClean

LEMMA TypeInvOK == TypeInv => TypeOK
BY BrokerAssumption DEF TypeInv, TypeOK, PlainTyped, StoreTyped, RefTyped, ConnTyped, GrantTyped,
     RefState, ConnState, GrantState, Times

\* The numbers the constants are.
LEMMA Bounds ==
    /\ Life \in Nat \ {0} /\ Early \in Nat /\ Jitter \in Nat /\ Backoff \in Nat
    /\ Latency \in Nat /\ MaxFails \in Nat /\ MaxMints \in Nat \ {0} /\ MaxTime \in Nat
BY BrokerAssumption

\* Replacing the state of one refresher, connection or grant by a typed one
\* keeps all of them typed.
LEMMA RefStepTyped ==
    ASSUME RefTyped, NEW c \in Cred, NEW at \in Times, NEW n \in 0..MaxFails,
           NEW st \in {"off", "mint", "sent", "rotate", "sleep", "backoff", "stopped"},
           RefStep(c, st, at, n)
    PROVE  /\ RefTyped'
           /\ ref'[c].st = st /\ ref'[c].at = at /\ ref'[c].fails = n
           /\ \A d \in Cred \ {c} : ref'[d] = ref[d]
BY DEF RefTyped, RefState, RefStep

LEMMA TypeInit == Init => TypeInv
<1> SUFFICES ASSUME Init PROVE TypeInv
  OBVIOUS
<1>0. 0 \in Times /\ None \in Garbled..MaxMints
  BY Bounds DEF Times, None, Garbled
<1>1. PlainTyped
  <2>1. 0 \in 0..MaxMints /\ 0 \in 0..MaxTime
    BY Bounds
  <2>2. revoked \in [Cred -> 0..MaxMints]
    BY <2>1 DEF Init
  <2>3. QED
    BY <2>1, <2>2 DEF Init, PlainTyped
<1>2. StoreTyped
  <2>1. 0 \in 0..MaxMints /\ 0 \in 0..(MaxTime + Life)
    BY Bounds
  <2>2. QED
    BY <2>1 DEF Init, StoreTyped
<1>3. RefTyped
  BY Bounds, <1>0 DEF Init, RefTyped, RefState
<1>4. ConnTyped
  BY Bounds, <1>0 DEF Init, ConnTyped, ConnState, NoConn
<1>5. GrantTyped
  BY Bounds DEF Init, GrantTyped, GrantState
<1>6. StartClean
  BY DEF Init, StartClean
<1>7. QED
  BY <1>1, <1>2, <1>3, <1>4, <1>5, <1>6 DEF TypeInv

LEMMA MainTyped ==
    ASSUME TypeInv, MainStep \/ SigTerm \/ Crash \/ Tick \/ UNCHANGED vars
    PROVE  TypeInv'
<1>0. PlainTyped /\ StoreTyped /\ RefTyped /\ ConnTyped /\ GrantTyped /\ StartClean
  BY DEF TypeInv
<1>1. CASE Start
  <2>1. PlainTyped' /\ StoreTyped'
    <3>1. 0 \in 0..MaxMints /\ 1 \in 0..MaxMints
      BY Bounds
    <3>2. QED
      BY <1>0, <1>1, <3>1 DEF Start, PlainTyped, StoreTyped
  <2>2. RefTyped'
    BY <1>0, <1>1 DEF Start, RefTyped, RefState
  <2>3. ConnTyped' 
    BY <1>0, <1>1 DEF Start, ConnTyped
  <2>4. GrantTyped'
    <3>1. \A c \in Cred : issued'[c] \in {0, 1} /\ grant[c].minter = 0
      BY <1>0, <1>1 DEF Start, StartClean
    <3>2. grant' = grant
      BY <1>1 DEF Start
    <3>3. QED
      BY <1>0, <3>1, <3>2 DEF GrantTyped
  <2>5. StartClean'
    BY <1>1 DEF Start, StartClean
  <2>6. QED
    BY <2>1, <2>2, <2>3, <2>4, <2>5 DEF TypeInv
<1>2. CASE SigTerm
  BY <1>0, <1>2 DEF SigTerm, TypeInv, StartClean, PlainTyped, StoreTyped, RefTyped, ConnTyped, GrantTyped, store
<1>3. CASE CloseListener
  <2>1. NoConn \in ConnState
    BY Bounds DEF NoConn, ConnState, Times, None, Garbled
  <2>2. ConnTyped'
    BY <1>0, <1>3, <2>1 DEF CloseListener, ConnTyped, NoConn
  <2>3. QED
    BY <1>0, <1>3, <2>2 DEF CloseListener, TypeInv, StartClean, PlainTyped, StoreTyped, RefTyped, GrantTyped, store
<1>4. CASE ServeReturns \/ JoinRefreshers \/ WipeAndExit
  BY <1>0, <1>4 DEF ServeReturns, JoinRefreshers, WipeAndExit, TypeInv, StartClean, PlainTyped, StoreTyped,
                    RefTyped, ConnTyped, GrantTyped, store
<1>5. CASE RevokeMinted
  <2>1. PlainTyped'
    BY <1>0, <1>5 DEF RevokeMinted, PlainTyped, StoreTyped
  <2>2. QED
    BY <1>0, <1>5, <2>1 DEF RevokeMinted, TypeInv, StartClean, StoreTyped, RefTyped, ConnTyped, GrantTyped, store
<1>6. CASE Crash
  <2>1. NoConn \in ConnState
    BY Bounds DEF NoConn, ConnState, Times, None, Garbled
  <2>2. ConnTyped'
    BY <1>0, <1>6, <2>1 DEF Crash, ConnTyped, NoConn
  <2>3. RefTyped'
    BY <1>0, <1>6 DEF Crash, RefTyped, RefState
  <2>4. QED
    BY <1>0, <1>6, <2>2, <2>3 DEF Crash, TypeInv, StartClean, PlainTyped, StoreTyped, GrantTyped, store
<1>7. CASE Tick
  <2>1. PlainTyped'
    BY <1>0, <1>7, Bounds DEF Tick, PlainTyped
  <2>2. QED
    BY <1>0, <1>7, <2>1 DEF Tick, TypeInv, StartClean, StoreTyped, RefTyped, ConnTyped, GrantTyped, store
<1>8. CASE UNCHANGED vars
  BY <1>0, <1>8 DEF vars, TypeInv, StartClean, PlainTyped, StoreTyped, RefTyped, ConnTyped, GrantTyped
<1>9. QED
  BY <1>1, <1>2, <1>3, <1>4, <1>5, <1>6, <1>7, <1>8 DEF MainStep

LEMMA RefresherTyped ==
    ASSUME TypeInv, NEW c \in Cred, RefresherStep(c)
    PROVE  TypeInv'
<1>0. PlainTyped /\ StoreTyped /\ RefTyped /\ ConnTyped /\ GrantTyped /\ StartClean
  BY DEF TypeInv
<1>1. /\ 0 \in Times /\ now \in Times /\ now + Backoff \in Times
      /\ 0 \in 0..MaxFails /\ ref[c].fails \in 0..MaxFails
      /\ now \in Nat /\ expires[c] \in Nat /\ issued[c] \in 0..MaxMints
  BY <1>0, Bounds DEF PlainTyped, StoreTyped, RefTyped, RefState, Times
<1>2. CASE MintBegin(c) \/ Wakes(c)
  <2>1. RefTyped'
    BY <1>0, <1>1, <1>2, RefStepTyped DEF MintBegin, Wakes
  <2>2. QED
    BY <1>0, <1>2, <2>1 DEF MintBegin, Wakes, TypeInv, StartClean, PlainTyped, StoreTyped, ConnTyped,
                            GrantTyped, store
<1>3. CASE MintSucceeds(c)
  <2>1. RefTyped'
    BY <1>0, <1>1, <1>3, RefStepTyped DEF MintSucceeds
  <2>2. \A t \in ref[c].at..now : Expiry(c, t) \in 0..(MaxTime + Life)
    BY <1>0, <1>1, Bounds DEF Expiry, PlainTyped, RefTyped, RefState, Times
  <2>3. StoreTyped'
    BY <1>0, <1>1, <1>3, <2>2, Bounds DEF MintSucceeds, StoreTyped
  <2>4. GrantTyped'
    <3>1. \A d \in Cred : issued'[d] >= issued[d]
      BY <1>0, <1>1, <1>3, Bounds DEF MintSucceeds, StoreTyped
    <3>2. CASE grant' = grant
      BY <1>0, <3>1, <3>2, <2>3, Bounds DEF GrantTyped, GrantState, StoreTyped
    <3>3. CASE grant' = [grant EXCEPT ![c].provider = grant[c].provider + 1,
                                      ![c].minter = grant[c].provider + 1]
      <4>1. grant[c].provider + 1 <= issued'[c] /\ issued'[c] <= MaxMints
        BY <1>0, <1>1, <1>3, Bounds DEF MintSucceeds, StoreTyped, Accepted, GrantTyped, GrantState
      <4>2. grant' \in [Cred -> GrantState]
        BY <1>0, <3>3, <4>1, <2>3, Bounds DEF GrantTyped, GrantState, StoreTyped
      <4>3. /\ grant'[c].provider = grant[c].provider + 1
            /\ grant'[c].minter = grant[c].provider + 1
            /\ grant'[c].keychain = grant[c].keychain
            /\ \A d \in Cred \ {c} : grant'[d] = grant[d]
        BY <1>0, <3>3 DEF GrantTyped, GrantState
      <4>4. QED
        BY <1>0, <2>3, <3>1, <4>1, <4>2, <4>3, Bounds DEF GrantTyped, GrantState, StoreTyped
    <3>4. QED
      BY <1>3, <3>2, <3>3 DEF MintSucceeds
  <2>5. StartClean'
    BY <1>0, <1>3 DEF MintSucceeds, StartClean
  <2>6. QED
    BY <1>0, <1>3, <2>1, <2>3, <2>4, <2>5 DEF MintSucceeds, TypeInv, PlainTyped, ConnTyped
<1>4. CASE MintFails(c)
  <2>1. RefTyped'
    <3>1. ref[c].fails < MaxFails => ref[c].fails + 1 \in 0..MaxFails
      BY <1>1, Bounds
    <3>2. QED
      BY <1>0, <1>1, <1>4, <3>1, RefStepTyped DEF MintFails
  <2>2. GrantTyped'
    <3>1. CASE grant' = grant
      BY <1>0, <1>4, <3>1 DEF MintFails, GrantTyped, store
    <3>2. CASE /\ Accepted(c) /\ grant[c].provider < 2 * MaxMints
               /\ grant' = [grant EXCEPT ![c].provider = grant[c].provider + 1]
      <4>1. /\ grant' \in [Cred -> GrantState]
            /\ grant'[c].provider = grant[c].provider + 1
            /\ grant'[c].minter = grant[c].minter
            /\ grant'[c].keychain = grant[c].keychain
            /\ \A d \in Cred \ {c} : grant'[d] = grant[d]
        BY <1>0, <3>2, Bounds DEF GrantTyped, GrantState
      <4>2. issued' = issued
        BY <1>4 DEF MintFails, store
      <4>3. QED
        BY <1>0, <3>2, <4>1, <4>2 DEF GrantTyped, Accepted
    <3>3. QED
      BY <1>4, <3>1, <3>2 DEF MintFails
  <2>3. QED
    BY <1>0, <1>4, <2>1, <2>2 DEF MintFails, TypeInv, StartClean, PlainTyped, StoreTyped, ConnTyped, store
<1>5. CASE PersistAndSleep(c)
  <2>1. \A d \in UntilRefresh(c) : now + d \in Times
    BY <1>0, <1>1, Bounds DEF UntilRefresh, Times, PlainTyped, StoreTyped
  <2>2. RefTyped'
    BY <1>0, <1>1, <1>5, <2>1, RefStepTyped DEF PersistAndSleep
  <2>3. GrantTyped'
    <3>1. issued' = issued
      BY <1>5 DEF PersistAndSleep, store
    <3>2. CASE grant' = grant
      BY <1>0, <3>1, <3>2 DEF GrantTyped
    <3>3. CASE grant' = [grant EXCEPT ![c].keychain = grant[c].minter]
      BY <1>0, <3>1, <3>3, Bounds DEF GrantTyped, GrantState
    <3>4. QED
      BY <1>5, <3>2, <3>3 DEF PersistAndSleep, Persisted
  <2>4. QED
    BY <1>0, <1>5, <2>2, <2>3 DEF PersistAndSleep, TypeInv, StartClean, PlainTyped, StoreTyped, ConnTyped, store
<1>6. QED
  BY <1>2, <1>3, <1>4, <1>5 DEF RefresherStep

LEMMA ConnStepTyped ==
    ASSUME TypeInv, NEW r \in Req,
           \/ HandlerStep(r) \/ ClientStep(r)
           \/ \E c \in Cred : Fetch(r, c)
    PROVE  TypeInv'
<1>0. PlainTyped /\ StoreTyped /\ RefTyped /\ ConnTyped /\ GrantTyped /\ StartClean
  BY DEF TypeInv
<1>1. NoConn \in ConnState
  BY Bounds DEF NoConn, ConnState, Times, None, Garbled
<1>2. conn[r] \in ConnState
  BY <1>0 DEF ConnTyped
<1>3. None \in Garbled..MaxMints /\ Garbled \in Garbled..MaxMints
      /\ 0..MaxMints \subseteq Garbled..MaxMints /\ 0..(MaxTime + Life) \subseteq Times
  BY Bounds DEF None, Garbled, Times
<1>4. CASE Accept(r)
  <2>1. ConnTyped'
    BY <1>0, <1>2, <1>4 DEF Accept, ConnTyped, ConnState
  <2>2. QED
    BY <1>0, <1>4, <2>1 DEF Accept, TypeInv, StartClean, PlainTyped, StoreTyped, RefTyped,
                            GrantTyped, store
<1>5. CASE Get(r)
  <2>1. conn[r].cred \in Cred
    BY <1>0, <1>5 DEF Get, ConnTyped
  <2>2. Token(conn[r].cred) \in Garbled..MaxMints /\ expires[conn[r].cred] \in Times
    BY <1>0, <1>3, <2>1 DEF Token, StoreTyped
  <2>3. ConnTyped'
    BY <1>0, <1>2, <1>5, <2>1, <2>2 DEF Get, ConnTyped, ConnState
  <2>4. QED
    BY <1>0, <1>5, <2>3 DEF Get, TypeInv, StartClean, PlainTyped, StoreTyped, RefTyped,
                            GrantTyped, store
<1>6. CASE Answer(r)
  <2>1. conn[r].token \in Garbled..MaxMints
    BY <1>2 DEF ConnState
  <2>2. PICK v \in Garbled..MaxMints :
             conn' = [conn EXCEPT ![r].token = v, ![r].st = "replied"]
    BY <1>3, <1>6, <2>1 DEF Answer, Copies
  <2>3. UNCHANGED <<client, given>>
    BY <1>6 DEF Answer
  <2>4. ConnTyped'
    BY <1>0, <1>2, <2>2, <2>3 DEF ConnTyped, ConnState
  <2>5. QED
    BY <1>0, <1>6, <2>4 DEF Answer, TypeInv, StartClean, PlainTyped, StoreTyped, RefTyped,
                            GrantTyped, store
<1>7. CASE Discard(r)
  <2>1. ConnTyped'
    BY <1>0, <1>1, <1>7 DEF Discard, ConnTyped, NoConn
  <2>2. QED
    BY <1>0, <1>7, <2>1 DEF Discard, TypeInv, StartClean, PlainTyped, StoreTyped, RefTyped,
                            GrantTyped, store
<1>8. CASE Receive(r)
  <2>1. conn[r].token \in Garbled..MaxMints
    BY <1>2 DEF ConnState
  <2>2. ConnTyped'
    BY <1>0, <1>1, <1>8, <2>1 DEF Receive, ConnTyped, NoConn
  <2>3. QED
    BY <1>0, <1>8, <2>2 DEF Receive, TypeInv, StartClean, PlainTyped, StoreTyped, RefTyped,
                            GrantTyped, store
<1>9. CASE GiveUp(r)
  <2>1. conn' \in {conn, [conn EXCEPT ![r] = NoConn]}
    BY <1>9 DEF GiveUp
  <2>2. ConnTyped'
    BY <1>0, <1>1, <1>3, <1>9, <2>1 DEF GiveUp, ConnTyped, NoConn
  <2>3. QED
    BY <1>0, <1>9, <2>2 DEF GiveUp, TypeInv, StartClean, PlainTyped, StoreTyped, RefTyped,
                            GrantTyped, store
<1>10. ASSUME NEW c \in Cred, Fetch(r, c)
       PROVE  TypeInv'
  <2>1. [NoConn EXCEPT !.st = "queued", !.cred = c] \in ConnState
    BY <1>1 DEF NoConn, ConnState
  <2>2. [NoConn EXCEPT !.st = "queued", !.cred = c].cred = c
    BY DEF NoConn
  <2>3. ConnTyped'
    BY <1>0, <1>10, <2>1, <2>2 DEF Fetch, ConnTyped
  <2>4. QED
    BY <1>0, <1>10, <2>3 DEF Fetch, TypeInv, StartClean, PlainTyped, StoreTyped, RefTyped,
                             GrantTyped, store
<1>11. QED
  BY <1>4, <1>5, <1>6, <1>7, <1>8, <1>9, <1>10 DEF HandlerStep, ClientStep

LEMMA TypeStep == TypeInv /\ [Next]_vars => TypeInv'
BY MainTyped, RefresherTyped, ConnStepTyped DEF Next

LEMMA Typed == Spec => []TypeInv
BY TypeInit, TypeStep, PTL DEF Spec

\* The type invariant of the broker: in particular the store, whose tokens and
\* expiries Refresher.Run sets, and the refresh tokens stay in their ranges.
THEOREM BrokerTypeCorrect == Spec => []TypeOK
BY Typed, TypeInvOK, PTL

-----------------------------------------------------------------------------
(***************************************************************************)
(* Keep-hot.  The margin, less the jitter, is worth MaxFails attempts and  *)
(* one that is slow; Spare is what is left of it after f failures.  While  *)
(* a refresher sleeps, asks or backs off, the token in the store outlives  *)
(* the present wait by what is spare.                                      *)
(***************************************************************************)

Spare(f) == (MaxFails - f) * (Latency + Backoff) + Latency

\* Refresher state x, at time n, with i tokens minted and the last expiring at e.
Hot(x, n, i, e) ==
    /\ x.st \notin {"off", "stopped"}
    /\ x.st = "rotate" => i > 0 /\ e >= n + Life - Latency
    /\ x.st = "sleep" => i > 0 /\ x.fails = 0 /\ n <= x.at /\ e - x.at > Spare(0)
    /\ x.st = "mint" => (i = 0 \/ e - n > Spare(x.fails))
    /\ x.st = "sent" => x.at <= n /\ n <= x.at + Latency
    /\ x.st = "backoff" => n <= x.at
    /\ x.st \in {"sent", "backoff"} => (i = 0 \/ e - x.at > Spare(x.fails))

Guarded == MarginsSuffice /\ ~cancelled /\ pc = "serving"

HotInv == Guarded => \A c \in Cred : Minted(c) => Hot(ref[c], now, issued[c], expires[c])

\* Each failed attempt uses up one Latency + Backoff of the margin; the Latency
\* of a last attempt is always left.
LEMMA SpareFacts ==
    ASSUME NEW f \in 0..MaxFails
    PROVE  /\ Spare(f) \in Nat /\ Spare(f) >= Latency
           /\ f < MaxFails => Spare(f + 1) = Spare(f) - (Latency + Backoff)
<1> DEFINE m == MaxFails - f
           k == Latency + Backoff
<1>1. m \in Nat /\ k \in Nat
  BY Bounds
<1>2. m * k \in Nat
  <2> HIDE DEF m, k
  <2> QED
    BY <1>1
<1>3. (m - 1) * k = m * k - k
  <2> HIDE DEF m, k
  <2> QED
    BY <1>1
<1>4. f < MaxFails => MaxFails - (f + 1) = m - 1
  BY Bounds
<1>5. Spare(f) = m * k + Latency
  BY DEF Spare
<1>6. f < MaxFails => Spare(f + 1) = (m - 1) * k + Latency
  BY <1>4 DEF Spare
<1> HIDE DEF m
<1>7. k = Latency + Backoff
  OBVIOUS
<1> HIDE DEF k
<1>8. QED
  BY <1>1, <1>2, <1>3, <1>5, <1>6, <1>7, Bounds

\* A step that leaves the refreshers, the store and the clock alone.
LEMMA HotQuiet ==
    ASSUME HotInv, Guarded' => Guarded, UNCHANGED <<now, payload, store, ref>>
    PROVE  HotInv'
BY DEF HotInv, Hot, Minted, store

LEMMA HotStart ==
    ASSUME TypeInv, Start
    PROVE  HotInv'
<1>1. \A c \in Cred : Minted(c) => ref'[c].st = "mint" /\ issued'[c] = 0
  BY DEF Start, Minted, TypeInv, RefTyped, RefState
<1>2. payload' = payload
  BY DEF Start
<1>3. QED
  BY <1>1, <1>2 DEF HotInv, Hot, Minted

LEMMA HotTick ==
    ASSUME TypeInv, HotInv, Tick
    PROVE  HotInv'
<1> SUFFICES ASSUME Guarded', NEW c \in Cred, Minted(c)'
             PROVE  Hot(ref[c], now, issued[c], expires[c])'
  BY DEF HotInv
<1>1. UNCHANGED <<payload, pc, cancelled, issued, expires, ref>> /\ now' = now + 1
  BY DEF Tick, store
<1>2. Hot(ref[c], now, issued[c], expires[c])
  BY <1>1 DEF HotInv, Guarded, Minted
<1>3. /\ now \in Nat /\ ref[c].at \in Nat /\ expires[c] \in Nat /\ ref[c].fails \in 0..MaxFails
      /\ ref[c].st \in {"off", "mint", "sent", "rotate", "sleep", "backoff", "stopped"}
  BY Bounds DEF TypeInv, PlainTyped, StoreTyped, RefTyped, RefState, Times
<1>4. Spare(ref[c].fails) \in Nat /\ Spare(0) \in Nat
  BY <1>3, SpareFacts, Bounds
<1>5. \/ ref[c].st \in {"sleep", "backoff"} /\ now < ref[c].at
      \/ ref[c].st = "sent" /\ now < ref[c].at + Latency
  BY <1>2, <1>3 DEF Tick, Hot
<1>6. QED
  BY <1>1, <1>2, <1>3, <1>4, <1>5, Bounds DEF Hot

LEMMA HotRefresher ==
    ASSUME TypeInv, HotInv, NEW c \in Cred, RefresherStep(c)
    PROVE  HotInv'
<1> SUFFICES ASSUME Guarded', NEW d \in Cred, Minted(d)'
             PROVE  Hot(ref[d], now, issued[d], expires[d])'
  BY DEF HotInv
<1>1. UNCHANGED <<now, payload, pc, cancelled>>
  BY DEF RefresherStep, MintBegin, MintSucceeds, MintFails, PersistAndSleep, Wakes
<1>2. Hot(ref[d], now, issued[d], expires[d])
  BY <1>1 DEF HotInv, Guarded, Minted
<1>3. /\ now \in Nat /\ ref[c].at \in Nat /\ expires[c] \in Nat /\ ref[c].fails \in 0..MaxFails
      /\ issued[c] \in 0..MaxMints /\ ref \in [Cred -> RefState]
      /\ issued \in [Cred -> 0..MaxMints] /\ expires \in [Cred -> 0..(MaxTime + Life)]
  BY Bounds DEF TypeInv, PlainTyped, StoreTyped, RefTyped, RefState, Times
<1>4. /\ Spare(ref[c].fails) \in Nat /\ Spare(0) \in Nat /\ Spare(0) >= Latency
      /\ ref[c].fails < MaxFails =>
            Spare(ref[c].fails + 1) = Spare(ref[c].fails) - (Latency + Backoff)
  BY <1>3, SpareFacts, Bounds
<1>5. ~cancelled /\ MarginsSuffice
  BY <1>1 DEF Guarded
<1>6. CASE d # c
  <2>1. ref'[d] = ref[d] /\ issued'[d] = issued[d] /\ expires'[d] = expires[d]
    BY <1>3, <1>6 DEF RefresherStep, MintBegin, MintSucceeds, MintFails, PersistAndSleep, Wakes,
                      RefStep, store
  <2>2. QED
    BY <1>1, <1>2, <2>1 DEF Hot
<1>7. CASE d = c /\ MintBegin(c)
  <2>1. ref'[c] = [st |-> "sent", at |-> now, fails |-> ref[c].fails] /\ ref[c].st = "mint"
        /\ UNCHANGED <<issued, expires>>
    BY <1>3, <1>5, <1>7 DEF MintBegin, RefStep, store
  <2>2. QED
    BY <1>1, <1>2, <1>3, <1>4, <1>7, <2>1, Bounds DEF Hot
<1>8. CASE d = c /\ MintSucceeds(c)
  <2>1. ref'[c] = [st |-> "rotate", at |-> 0, fails |-> 0] /\ ref[c].st = "sent"
        /\ issued'[c] = issued[c] + 1
    BY <1>3, <1>8 DEF MintSucceeds, RefStep
  <2>2. PICK t \in ref[c].at..now : expires'[c] = Expiry(c, t)
    BY <1>3, <1>8 DEF MintSucceeds
  <2>3. ref[c].at <= now /\ now <= ref[c].at + Latency
    BY <1>2, <1>8, <2>1 DEF Hot
  <2>4. expires'[c] \in Nat /\ expires'[c] >= now + Life - Latency
    BY <1>3, <2>2, <2>3, Bounds DEF Expiry
  <2>5. QED
    BY <1>1, <1>3, <1>8, <2>1, <2>4 DEF Hot
<1>9. CASE d = c /\ MintFails(c)
  <2>1. /\ ref'[c] = [st |-> "backoff", at |-> now + Backoff, fails |-> ref[c].fails + 1]
        /\ ref[c].st = "sent" /\ ref[c].fails < MaxFails
        /\ UNCHANGED <<issued, expires>>
    BY <1>3, <1>5, <1>9 DEF MintFails, RefStep, store
  <2>2. now <= ref[c].at + Latency /\ (issued[c] = 0 \/ expires[c] - ref[c].at > Spare(ref[c].fails))
    BY <1>2, <1>9, <2>1 DEF Hot
  <2>3. issued[c] = 0 \/ expires[c] - (now + Backoff) > Spare(ref[c].fails + 1)
    BY <1>3, <1>4, <2>1, <2>2, Bounds
  <2>4. now' <= now + Backoff
    BY <1>1, <1>3, Bounds
  <2>5. QED
    BY <1>1, <1>9, <2>1, <2>3, <2>4 DEF Hot
<1>10. CASE d = c /\ PersistAndSleep(c)
  <2>1. PICK w \in UntilRefresh(c) : ref'[c] = [st |-> "sleep", at |-> now + w, fails |-> 0]
    BY <1>3, <1>10 DEF PersistAndSleep, RefStep
  <2>2. ref[c].st = "rotate" /\ UNCHANGED <<issued, expires>>
    BY <1>10 DEF PersistAndSleep, store
  <2>3. issued[c] > 0 /\ expires[c] >= now + Life - Latency
    BY <1>2, <1>10, <2>2 DEF Hot
  <2>4. Early > Jitter + Spare(0) /\ Life > Latency + Spare(0)
    BY <1>5, Bounds DEF MarginsSuffice, Spare
  <2>5. w \in Nat /\ expires[c] - (now + w) > Spare(0)
    <3>1. PICK j \in Int : /\ j <= Jitter
                           /\ w = IF expires[c] - now - Early + j < 0 THEN 0
                                   ELSE expires[c] - now - Early + j
      BY <1>3, <2>1, Bounds DEF UntilRefresh
    <3>2. QED
      BY <1>3, <1>4, <2>3, <2>4, <3>1, Bounds
  <2>6. now <= now + w
    BY <1>3, <2>5
  <2>7. QED
    BY <1>1, <1>10, <2>1, <2>2, <2>3, <2>5, <2>6 DEF Hot
<1>11. CASE d = c /\ Wakes(c)
  <2>1. /\ ref'[c] = [st |-> "mint", at |-> 0, fails |-> ref[c].fails]
        /\ ref[c].st \in {"sleep", "backoff"} /\ now >= ref[c].at
        /\ UNCHANGED <<issued, expires>>
    BY <1>3, <1>5, <1>11 DEF Wakes, RefStep, store
  <2>2. now = ref[c].at
    BY <1>2, <1>3, <1>11, <2>1 DEF Hot
  <2>3. issued[c] = 0 \/ expires[c] - now > Spare(ref[c].fails)
    BY <1>2, <1>11, <2>1, <2>2 DEF Hot
  <2>4. QED
    BY <1>1, <1>11, <2>1, <2>3 DEF Hot
<1>12. QED
  BY <1>6, <1>7, <1>8, <1>9, <1>10, <1>11 DEF RefresherStep

LEMMA HotStep == TypeInv /\ HotInv /\ [Next]_vars => HotInv'
<1> SUFFICES ASSUME TypeInv, HotInv, [Next]_vars PROVE HotInv'
  OBVIOUS
<1>1. CASE \/ SigTerm \/ CloseListener \/ ServeReturns \/ JoinRefreshers \/ RevokeMinted
           \/ WipeAndExit \/ Crash
  BY <1>1 DEF SigTerm, CloseListener, ServeReturns, ServeDrained, JoinRefreshers, RefreshersJoined,
              RevokeMinted, WipeAndExit, Crash, HotInv, Guarded
<1>2. ASSUME NEW r \in Req,
             HandlerStep(r) \/ ClientStep(r) \/ \E c \in Cred : Fetch(r, c)
      PROVE  HotInv'
  <2>1. UNCHANGED <<now, payload, pc, cancelled, store, ref>>
    BY <1>2 DEF HandlerStep, Accept, Get, Answer, Discard, ClientStep, Receive, GiveUp, Fetch
  <2>2. QED
    BY <2>1, HotQuiet DEF Guarded
<1>3. CASE UNCHANGED vars
  BY <1>3, HotQuiet DEF vars, store, Guarded
<1>4. QED
  BY <1>1, <1>2, <1>3, HotStart, HotTick, HotRefresher DEF Next, MainStep

LEMMA HotEnough == TypeInv /\ HotInv => KeepsHot
<1> SUFFICES ASSUME TypeInv, HotInv, Guarded, NEW c \in Cred, Minted(c), issued[c] > 0
             PROVE  now < expires[c]
  BY DEF KeepsHot, Guarded
<1>1. Hot(ref[c], now, issued[c], expires[c])
  BY DEF HotInv
<1>2. /\ now \in Nat /\ ref[c].at \in Nat /\ expires[c] \in Nat /\ ref[c].fails \in 0..MaxFails
      /\ ref[c].st \in {"off", "mint", "sent", "rotate", "sleep", "backoff", "stopped"}
      /\ issued[c] \in Nat
  BY Bounds DEF TypeInv, PlainTyped, StoreTyped, RefTyped, RefState, Times
<1>3. /\ Spare(ref[c].fails) \in Nat /\ Spare(ref[c].fails) >= Latency
      /\ Spare(0) \in Nat
  BY <1>2, SpareFacts, Bounds
<1>4. Life > Latency + Spare(0)
  BY Bounds DEF Guarded, MarginsSuffice, Spare
<1>5. QED
  BY <1>1, <1>2, <1>3, <1>4, Bounds DEF Hot

\* Keep-hot, for all margins and any number of failures they leave room for:
\* once minted, the stored token of a credential never expires while the broker
\* serves (Refresher.Run, untilRefresh).
THEOREM HotCorrect == Spec => []KeepsHot
<1>1. Init => HotInv
  BY DEF Init, HotInv, Guarded
<1>2. Spec => []HotInv
  BY <1>1, Typed, HotStep, PTL DEF Spec
<1>3. QED
  BY <1>2, Typed, HotEnough, PTL

-----------------------------------------------------------------------------
(***************************************************************************)
(* Shutdown.  Serve's own drain empties the queue and then waits for the   *)
(* handlers, so from "joining" on nobody reads; wg.Wait leaves nobody who  *)
(* writes, so what revokeMinted read is what is there at the end.          *)
(***************************************************************************)

ReaderInv ==
    /\ pc \notin {"starting", "serving"} => \A r \in Req : conn[r].st # "queued"
    /\ pc \in {"joining", "revoking", "wiping", "exited"} =>
          \A r \in Req : conn[r].st \notin {"open", "got"}

LEMMA ReaderStep == TypeInv /\ ReaderInv /\ [Next]_vars => ReaderInv'
<1> SUFFICES ASSUME TypeInv, ReaderInv, [Next]_vars PROVE ReaderInv'
  OBVIOUS
<1>0. conn \in [Req -> ConnState]
  BY DEF TypeInv, ConnTyped
<1>1. CASE Start \/ SigTerm \/ JoinRefreshers \/ RevokeMinted \/ WipeAndExit \/ Tick \/ UNCHANGED vars
  BY <1>1 DEF Start, SigTerm, JoinRefreshers, RefreshersJoined, RevokeMinted, WipeAndExit, Tick,
              vars, ReaderInv
<1>2. CASE CloseListener
  BY <1>0, <1>2 DEF CloseListener, ReaderInv, NoConn
<1>3. CASE ServeReturns
  BY <1>3 DEF ServeReturns, ServeDrained, ReaderInv
<1>4. CASE Crash
  BY <1>4 DEF Crash, ReaderInv, NoConn
<1>5. ASSUME NEW c \in Cred, RefresherStep(c) PROVE ReaderInv'
  <2>1. UNCHANGED <<pc, conn>>
    BY <1>5 DEF RefresherStep, MintBegin, MintSucceeds, MintFails, PersistAndSleep, Wakes
  <2>2. QED
    BY <2>1 DEF ReaderInv
<1>6. ASSUME NEW r \in Req, HandlerStep(r) \/ ClientStep(r) \/ \E c \in Cred : Fetch(r, c)
      PROVE  ReaderInv'
  <2>1. pc' = pc /\ \A q \in Req \ {r} : conn'[q] = conn[q]
    BY <1>0, <1>6 DEF HandlerStep, Accept, Get, Answer, Discard, ClientStep, Receive, GiveUp, Fetch
  <2>2. \/ pc = "serving"
        \/ conn'[r].st \in {"none", "replied", conn[r].st}
        \/ conn[r].st = "open" /\ conn'[r].st = "got"
    <3>1. CASE Accept(r) \/ \E c \in Cred : Fetch(r, c)
      BY <3>1 DEF Accept, Fetch
    <3>2. CASE Get(r)
      BY <1>0, <3>2 DEF Get, ConnState
    <3>3. CASE Answer(r)
      BY <1>0, <3>3 DEF Answer, ConnState
    <3>4. CASE Discard(r) \/ ClientStep(r)
      BY <1>0, <3>4 DEF Discard, ClientStep, Receive, GiveUp, NoConn
    <3>5. QED
      BY <1>6, <3>1, <3>2, <3>3, <3>4 DEF HandlerStep
  <2>3. QED
    BY <2>1, <2>2 DEF ReaderInv
<1>7. QED
  BY <1>1, <1>2, <1>3, <1>4, <1>5, <1>6 DEF Next, MainStep

\* For any number of connections and credentials: the store is never revoked or
\* wiped under a handler (Server.Serve, runBroker's defers).
THEOREM NoReaderCorrect == Spec => []NoReaderAtTheEnd
<1>1. Init => ReaderInv
  BY DEF Init, ReaderInv, NoConn
<1>2. ReaderInv => NoReaderAtTheEnd
  BY DEF ReaderInv, NoReaderAtTheEnd
<1>3. QED
  BY <1>1, <1>2, Typed, ReaderStep, PTL DEF Spec

RevokeInv ==
    "crash" \notin env =>
        /\ pc \in {"revoking", "wiping", "exited"} => \A c \in Cred : ref[c].st \in {"off", "stopped"}
        /\ pc \in {"wiping", "exited"} => \A c \in Cred : payload[c] = "github" => revoked[c] = issued[c]

LEMMA RevokeStep == TypeInv /\ RevokeInv /\ [Next]_vars => RevokeInv'
<1> SUFFICES ASSUME TypeInv, RevokeInv, [Next]_vars PROVE RevokeInv'
  OBVIOUS
<1>1. CASE \/ Start \/ SigTerm \/ CloseListener \/ ServeReturns \/ WipeAndExit \/ Tick \/ Crash
           \/ UNCHANGED vars
  BY <1>1 DEF Start, SigTerm, CloseListener, ServeReturns, ServeDrained, WipeAndExit, Tick, Crash,
              vars, store, RevokeInv
<1>2. CASE JoinRefreshers
  BY <1>2 DEF JoinRefreshers, RefreshersJoined, RevokeInv
<1>3. CASE RevokeMinted
  <2>1. \A c \in Cred : payload[c] = "github" => revoked'[c] = issued[c]
    BY <1>3 DEF RevokeMinted
  <2>2. QED
    BY <1>3, <2>1 DEF RevokeMinted, RevokeInv, store
<1>4. ASSUME NEW c \in Cred, RefresherStep(c) PROVE RevokeInv'
  <2>1. UNCHANGED <<env, pc>>
    BY <1>4 DEF RefresherStep, MintBegin, MintSucceeds, MintFails, PersistAndSleep, Wakes
  <2>2. ref[c].st \notin {"off", "stopped"}
    BY <1>4 DEF RefresherStep, MintBegin, MintSucceeds, MintFails, PersistAndSleep, Wakes
  <2>3. QED
    BY <2>1, <2>2 DEF RevokeInv
<1>5. ASSUME NEW r \in Req, HandlerStep(r) \/ ClientStep(r) \/ \E c \in Cred : Fetch(r, c)
      PROVE  RevokeInv'
  <2>1. UNCHANGED <<env, payload, pc, store, ref, revoked>>
    BY <1>5 DEF HandlerStep, Accept, Get, Answer, Discard, ClientStep, Receive, GiveUp, Fetch
  <2>2. QED
    BY <2>1 DEF RevokeInv, store
<1>6. QED
  BY <1>1, <1>2, <1>3, <1>4, <1>5 DEF Next, MainStep

\* For any number of GitHub credentials: a broker that was not killed revoked
\* the newest token of each before it exited (revokeMinted after wg.Wait).
THEOREM RevokedCorrect == Spec => []RevokedOnExit
<1>1. Init => RevokeInv
  BY DEF Init, RevokeInv
<1>2. RevokeInv => RevokedOnExit
  BY DEF RevokeInv, RevokedOnExit
<1>3. QED
  BY <1>1, <1>2, Typed, RevokeStep, PTL DEF Spec

-----------------------------------------------------------------------------
(***************************************************************************)
(* Refresh tokens.  The minter keeps up with the provider, and the         *)
(* keychain with both but for the moment between mint and handleRotation.  *)
(***************************************************************************)

KeepInv ==
    (env \cap {"lost", "keychain", "crash"} = {} /\ ~cancelled) =>
        \A c \in Cred : /\ grant[c].minter = grant[c].provider
                        /\ ref[c].st # "rotate" => grant[c].keychain = grant[c].provider

LEMMA KeepStep == TypeInv /\ KeepInv /\ [Next]_vars => KeepInv'
<1> SUFFICES ASSUME TypeInv, KeepInv, [Next]_vars,
                    env' \cap {"lost", "keychain", "crash"} = {}, ~cancelled',
                    NEW d \in Cred
             PROVE  /\ grant'[d].minter = grant'[d].provider
                    /\ ref'[d].st # "rotate" => grant'[d].keychain = grant'[d].provider
  BY DEF KeepInv
<1>0. /\ grant \in [Cred -> GrantState] /\ ref \in [Cred -> RefState]
      /\ env' = env
  BY DEF TypeInv, GrantTyped, RefTyped, Next, MainStep, Start, SigTerm, CloseListener, ServeReturns,
         JoinRefreshers, RevokeMinted, WipeAndExit, Crash, Tick, RefresherStep, MintBegin,
         MintSucceeds, MintFails, PersistAndSleep, Wakes, HandlerStep, Accept, Get, Answer, Discard,
         ClientStep, Receive, GiveUp, Fetch, vars
<1>1. CASE Start
  <2>1. ref[d].st = "off" /\ UNCHANGED <<grant, cancelled>>
    BY <1>1 DEF Start, TypeInv, StartClean
  <2>2. QED
    BY <1>0, <2>1 DEF KeepInv
<1>2. CASE \/ CloseListener \/ ServeReturns \/ JoinRefreshers \/ RevokeMinted \/ WipeAndExit \/ Tick
           \/ UNCHANGED vars
  <2>1. UNCHANGED <<env, cancelled, ref, grant>>
    BY <1>2 DEF CloseListener, ServeReturns, JoinRefreshers, RevokeMinted, WipeAndExit, Tick, vars
  <2>2. QED
    BY <2>1 DEF KeepInv
<1>3. CASE SigTerm \/ Crash
  BY <1>0, <1>3 DEF SigTerm, Crash
<1>4. ASSUME NEW c \in Cred, RefresherStep(c)
      PROVE  /\ grant'[d].minter = grant'[d].provider
             /\ ref'[d].st # "rotate" => grant'[d].keychain = grant'[d].provider
  <2>1. cancelled' = cancelled
    BY <1>4 DEF RefresherStep, MintBegin, MintSucceeds, MintFails, PersistAndSleep, Wakes
  <2>2. \A e \in Cred : /\ grant[e].minter = grant[e].provider
                        /\ ref[e].st # "rotate" => grant[e].keychain = grant[e].provider
    BY <1>0, <2>1 DEF KeepInv
  <2>3. CASE d # c
    <3>1. grant'[d] = grant[d] /\ ref'[d] = ref[d]
      BY <1>0, <1>4, <2>3 DEF RefresherStep, MintBegin, MintSucceeds, MintFails, PersistAndSleep,
                              Wakes, RefStep
    <3>2. QED
      BY <2>2, <3>1
  <2>4. CASE d = c /\ (MintBegin(c) \/ Wakes(c))
    BY <2>2, <2>4 DEF MintBegin, Wakes
  <2>5. CASE d = c /\ MintSucceeds(c)
    <3>1. ref'[c].st = "rotate"
      BY <1>0, <2>5 DEF MintSucceeds, RefStep
    <3>2. grant'[c].minter = grant'[c].provider
      BY <1>0, <2>2, <2>5 DEF MintSucceeds, GrantState
    <3>3. QED
      BY <2>5, <3>1, <3>2
  <2>6. CASE d = c /\ MintFails(c)
    <3>1. grant' = grant /\ ref[c].st = "sent"
      BY <1>0, <2>1, <2>6 DEF MintFails
    <3>2. QED
      BY <2>2, <2>6, <3>1
  <2>7. CASE d = c /\ PersistAndSleep(c)
    <3>1. grant' = [grant EXCEPT ![c].keychain = grant[c].minter]
      BY <1>0, <2>7 DEF PersistAndSleep, Persisted
    <3>2. /\ grant'[c].keychain = grant[c].minter /\ grant'[c].minter = grant[c].minter
          /\ grant'[c].provider = grant[c].provider
      BY <1>0, <3>1 DEF GrantState
    <3>3. QED
      BY <2>2, <2>7, <3>2
  <2>8. QED
    BY <1>4, <2>3, <2>4, <2>5, <2>6, <2>7 DEF RefresherStep
<1>5. ASSUME NEW r \in Req, HandlerStep(r) \/ ClientStep(r) \/ \E c \in Cred : Fetch(r, c)
      PROVE  /\ grant'[d].minter = grant'[d].provider
             /\ ref'[d].st # "rotate" => grant'[d].keychain = grant'[d].provider
  <2>1. UNCHANGED <<cancelled, ref, grant>>
    BY <1>5 DEF HandlerStep, Accept, Get, Answer, Discard, ClientStep, Receive, GiveUp, Fetch
  <2>2. QED
    BY <1>0, <2>1 DEF KeepInv
<1>6. QED
  BY <1>1, <1>2, <1>3, <1>4, <1>5 DEF Next, MainStep

\* For any number of OAuth2 credentials and grants: unless an answer was lost,
\* the keychain refused or the broker was told to stop, the keychain holds the
\* refresh token the provider accepts (persistRotatedRefreshToken).
THEOREM RefreshTokenCorrect == Spec => []RefreshTokenKept
<1>1. Init => KeepInv
  <2> SUFFICES ASSUME Init, NEW c \in Cred
               PROVE  /\ grant[c].minter = grant[c].provider
                      /\ grant[c].keychain = grant[c].provider
    BY DEF KeepInv
  <2>1. grant[c] = [provider |-> 0, minter |-> 0, keychain |-> 0]
    BY DEF Init
  <2>2. QED
    BY <2>1
<1>2. KeepInv => RefreshTokenKept
  BY DEF KeepInv, RefreshTokenKept
<1>3. QED
  BY <1>1, <1>2, Typed, KeepStep, PTL DEF Spec

-----------------------------------------------------------------------------
(***************************************************************************)
(* The refinement of TokenService.  A question is resolved when the        *)
(* handler gets the slice and sealed when it has copied it; what happens   *)
(* to sockets, the clock, refreshers and refresh tokens does not show.     *)
(***************************************************************************)

\* Until Get a handler holds no token; and the connection of a fetch that goes
\* on asks for what the fetch waits for.
LinkInv ==
    \A r \in Req :
        /\ conn[r].st \in {"none", "queued", "open"} => conn[r].token = None
        /\ client[r] # NoCred /\ conn[r].st # "none" => conn[r].cred = client[r]

\* What there is of one question: the fetch and its connection.
AskOf(cl, cn) ==
    IF cl = NoCred
      THEN [st |-> "idle", name |-> NoCred, val |-> None]
      ELSE [st |-> IF cn.st = "got" THEN "resolved"
                   ELSE IF cn.st = "replied" THEN "sealed" ELSE "asked",
            name |-> cl, val |-> cn.token]

Current == [c \in Cred |-> Token(c)]

LEMMA AskIs ==
    ASSUME ConnTyped, ConnTyped'
    PROVE  /\ Ask = [r \in Req |-> AskOf(client[r], conn[r])]
           /\ Ask' = [r \in Req |-> AskOf(client'[r], conn'[r])]
<1>1. ASSUME NEW cn \in ConnState
      PROVE  (CASE cn.st \in {"none", "queued", "open"} -> "asked"
                [] cn.st = "got" -> "resolved"
                [] cn.st = "replied" -> "sealed")
             = IF cn.st = "got" THEN "resolved"
               ELSE IF cn.st = "replied" THEN "sealed" ELSE "asked"
  <2>1. cn.st \in {"none", "queued", "open", "got", "replied"}
    BY DEF ConnState
  <2>2. QED
    BY <2>1
<1>2. \A r \in Req : conn[r] \in ConnState /\ conn'[r] \in ConnState
  BY DEF ConnTyped
<1>3. QED
  BY <1>1, <1>2 DEF Ask, AskOf

\* As long as the store is the same and nobody starts or ends the service, so
\* are the tokens there are.
LEMMA CurrentKept ==
    ASSUME UNCHANGED issued,
           pc' = pc \/ {pc, pc'} \cap {"starting", "exited"} = {}
    PROVE  Current' = Current
BY DEF Current, Token

\* A question that goes a step further.
Moved(a, next, v) == [a EXCEPT !.st = next, !.val = v]

LEMMA Advance ==
    ASSUME NEW a, NEW n, NEW st, NEW val, a = [st |-> st, name |-> n, val |-> val],
           NEW next, NEW v
    PROVE  Moved(a, next, v) = [st |-> next, name |-> n, val |-> v]
<1>1. [a EXCEPT !.st = next] = [st |-> next, name |-> n, val |-> val]
  OBVIOUS
<1>2. [[st |-> next, name |-> n, val |-> val] EXCEPT !.val = v]
        = [st |-> next, name |-> n, val |-> v]
  OBVIOUS
<1>3. [a EXCEPT !.st = next, !.val = v]
        = [[st |-> next, name |-> n, val |-> val] EXCEPT !.val = v]
  BY <1>1
<1>4. QED
  BY <1>2, <1>3 DEF Moved

\* Steps of one fetch and its connection, and what they are to the service.
LEMMA FetchSimulates ==
    ASSUME TypeInv, TypeInv', LinkInv, NEW r \in Req,
           HandlerStep(r) \/ ClientStep(r) \/ \E c \in Cred : Fetch(r, c)
    PROVE  LinkInv' /\ (TS!Next \/ UNCHANGED TS!vars)
<1>0. /\ ConnTyped /\ conn[r] \in ConnState /\ client[r] \in Cred \cup {NoCred}
      /\ conn[r].st \in {"none", "queued", "open", "got", "replied"}
      /\ conn[r].st \notin {"none", "replied"} => conn[r].cred \in Cred
  BY DEF TypeInv, ConnTyped, ConnState
<1>1. /\ conn \in [Req -> ConnState] /\ client \in [Req -> Cred \cup {NoCred}]
      /\ given \in [Req -> Garbled..MaxMints]
  BY <1>0 DEF ConnTyped
<1>2. /\ Ask = [q \in Req |-> AskOf(client[q], conn[q])]
      /\ Ask' = [q \in Req |-> AskOf(client'[q], conn'[q])]
  BY AskIs DEF TypeInv
<1>3. Current' = Current
  BY CurrentKept DEF HandlerStep, Accept, Get, Answer, Discard, ClientStep, Receive, GiveUp,
                     Fetch, store
<1>4. /\ \A q \in Req \ {r} : conn'[q] = conn[q] /\ client'[q] = client[q]
      /\ Ask' = [Ask EXCEPT ![r] = AskOf(client'[r], conn'[r])]
  <2>1. \A q \in Req \ {r} : conn'[q] = conn[q] /\ client'[q] = client[q]
    BY <1>1 DEF HandlerStep, Accept, Get, Answer, Discard, ClientStep, Receive, GiveUp, Fetch
  <2>2. QED
    BY <1>2, <2>1
<1>5. /\ conn[r].st \in {"none", "queued", "open"} => conn[r].token = None
      /\ client[r] # NoCred /\ conn[r].st # "none" => conn[r].cred = client[r]
  BY DEF LinkInv
<1>6. ASSUME /\ conn'[r].st \in {"none", "queued", "open"} => conn'[r].token = None
             /\ client'[r] # NoCred /\ conn'[r].st # "none" => conn'[r].cred = client'[r]
      PROVE  LinkInv'
  BY <1>4, <1>6 DEF LinkInv
<1>7. ASSUME given' = given, AskOf(client'[r], conn'[r]) = AskOf(client[r], conn[r])
      PROVE  UNCHANGED TS!vars
  <2>1. Ask' = Ask
    BY <1>2, <1>4, <1>7
  <2>2. QED
    BY <1>3, <1>7, <2>1 DEF TS!vars, Current
<1>8. CASE Accept(r)
  <2>1. conn'[r] = [conn[r] EXCEPT !.st = "open"] /\ UNCHANGED <<client, given>>
        /\ conn[r].st = "queued"
    BY <1>1, <1>8 DEF Accept
  <2>2. QED
    BY <1>0, <1>5, <1>6, <1>7, <2>1 DEF AskOf, ConnState
<1>9. CASE Get(r)
  <2>1. /\ conn'[r] = [conn[r] EXCEPT !.st = "got", !.token = Token(conn[r].cred),
                                      !.exp = expires[conn[r].cred]]
        /\ UNCHANGED <<client, given>> /\ conn[r].st = "open"
    BY <1>1, <1>9 DEF Get
  <2>2. conn'[r].st = "got" /\ conn'[r].token = Token(conn[r].cred) /\ conn'[r].cred = conn[r].cred
    BY <1>0, <2>1 DEF ConnState
  <2>3. LinkInv'
    BY <1>5, <1>6, <2>1, <2>2
  <2>4. CASE client[r] = NoCred
    BY <1>7, <2>1, <2>3, <2>4 DEF AskOf
  <2>5. CASE client[r] # NoCred
    <3>1. AskOf(client[r], conn[r]) = [st |-> "asked", name |-> client[r], val |-> None]
      BY <1>5, <2>1, <2>5 DEF AskOf
    <3>2. AskOf(client'[r], conn'[r])
            = [st |-> "resolved", name |-> client[r], val |-> Current[client[r]]]
      BY <1>0, <1>5, <2>1, <2>2, <2>5 DEF AskOf, Current
    <3>3. Ask[r] = [st |-> "asked", name |-> client[r], val |-> None]
      BY <1>2, <3>1
    <3>4. Moved(Ask[r], "resolved", Current[Ask[r].name]) = AskOf(client'[r], conn'[r])
      BY <3>2, <3>3, Advance
    <3>5. Ask' = [Ask EXCEPT ![r].st = "resolved", ![r].val = Current[Ask[r].name]]
      BY <1>4, <3>4 DEF Moved
    <3>6. TS!Resolve(r)
      BY <1>3, <2>1, <3>3, <3>5 DEF TS!Resolve, Current
    <3>7. QED
      BY <2>3, <3>6 DEF TS!Next
  <2>6. QED
    BY <2>4, <2>5
<1>10. CASE Answer(r)
  <2>1. PICK v \in IF conn[r].token = None \/ (conn[r].exp # 0 /\ now >= conn[r].exp)
                     THEN {None} ELSE Copies(r) :
             conn' = [conn EXCEPT ![r].token = v, ![r].st = "replied"]
    BY <1>10 DEF Answer
  <2>2. /\ conn'[r].st = "replied" /\ conn'[r].token = v /\ conn'[r].cred = conn[r].cred
        /\ UNCHANGED <<client, given>> /\ conn[r].st = "got"
    BY <1>0, <1>1, <1>10, <2>1 DEF Answer, ConnState
  <2>3. LinkInv'
    BY <1>5, <1>6, <2>2
  <2>4. CASE client[r] = NoCred
    BY <1>7, <2>2, <2>3, <2>4 DEF AskOf
  <2>5. CASE client[r] # NoCred
    <3>1. AskOf(client[r], conn[r])
            = [st |-> "resolved", name |-> client[r], val |-> conn[r].token]
      BY <2>2, <2>5 DEF AskOf
    <3>2. AskOf(client'[r], conn'[r]) = [st |-> "sealed", name |-> client[r], val |-> v]
      BY <2>2, <2>5 DEF AskOf
    <3>3. Ask[r] = [st |-> "resolved", name |-> client[r], val |-> conn[r].token]
      BY <1>2, <3>1
    <3>4. Moved(Ask[r], "sealed", v) = AskOf(client'[r], conn'[r])
      BY <3>2, <3>3, Advance
    <3>5. Ask' = [Ask EXCEPT ![r].st = "sealed", ![r].val = v]
      BY <1>4, <3>4 DEF Moved
    <3>6. Current[client[r]] = Token(conn[r].cred)
      BY <1>0, <1>5, <2>2, <2>5 DEF Current
    <3>7. v \in {Ask[r].val, None}
                \cup (IF Current[Ask[r].name] # Ask[r].val THEN {Garbled} ELSE {})
      BY <2>1, <3>3, <3>6 DEF Copies
    <3>8. TS!Seal(r)
      <4>1. \E w \in {Ask[r].val, TS!None}
                    \cup (IF Current[Ask[r].name] # Ask[r].val THEN {TS!Garbled} ELSE {}) :
               Ask' = [Ask EXCEPT ![r].st = "sealed", ![r].val = w]
        BY <3>5, <3>7 DEF TS!None, None, TS!Garbled, Garbled
      <4>2. QED
        <5>1. [c \in Cred |-> Token(c)] = Current
          BY DEF Current
        <5>2. \E w \in {Ask[r].val, TS!None}
                      \cup (IF [c \in Cred |-> Token(c)][Ask[r].name] # Ask[r].val
                            THEN {TS!Garbled} ELSE {}) :
                 Ask' = [Ask EXCEPT ![r].st = "sealed", ![r].val = w]
          BY <4>1, <5>1, Zenon
        <5>3. UNCHANGED <<[c \in Cred |-> Token(c)], given>>
          BY <1>3, <2>2 DEF Current
        <5>4. Ask[r].st = "resolved"
          BY <3>3
        <5>5. QED
          BY <5>2, <5>3, <5>4, Zenon DEF TS!Seal
    <3>9. QED
      BY <2>3, <3>8 DEF TS!Next
  <2>6. QED
    BY <2>4, <2>5
<1>11. CASE Discard(r)
  <2>1. conn'[r] = NoConn /\ UNCHANGED <<client, given>> /\ client[r] = NoCred
    BY <1>1, <1>11 DEF Discard
  <2>2. QED
    BY <1>6, <1>7, <2>1 DEF AskOf, NoConn
<1>12. CASE Receive(r)
  <2>1. /\ client[r] # NoCred /\ conn[r].st = "replied"
        /\ given' = [given EXCEPT ![r] = conn[r].token]
        /\ client'[r] = NoCred /\ conn'[r] = NoConn
    BY <1>1, <1>12 DEF Receive
  <2>2. LinkInv'
    BY <1>6, <2>1 DEF NoConn
  <2>3. Ask[r] = [st |-> "sealed", name |-> client[r], val |-> conn[r].token]
    BY <1>2, <2>1 DEF AskOf
  <2>4. Ask' = [Ask EXCEPT ![r] = TS!Idle]
    BY <1>4, <2>1 DEF AskOf, TS!Idle, TS!None, None
  <2>5. TS!Give(r)
    BY <1>3, <2>1, <2>3, <2>4 DEF TS!Give, Current
  <2>6. QED
    BY <2>2, <2>5 DEF TS!Next
<1>13. CASE GiveUp(r)
  <2>1. /\ client[r] # NoCred /\ given' = [given EXCEPT ![r] = None]
        /\ client'[r] = NoCred
        /\ conn'[r] = NoConn \/ (conn'[r] = conn[r] /\ conn[r].st \in {"none", "open", "got"})
    BY <1>0, <1>1, <1>13 DEF GiveUp
  <2>2. LinkInv'
    BY <1>5, <1>6, <2>1 DEF NoConn
  <2>3. Ask[r].st # "idle"
    BY <1>2, <2>1 DEF AskOf
  <2>4. Ask' = [Ask EXCEPT ![r] = TS!Idle]
    BY <1>4, <2>1 DEF AskOf, TS!Idle, TS!None, None
  <2>5. TS!Refuse(r)
    BY <1>3, <2>1, <2>3, <2>4 DEF TS!Refuse, Current, TS!None, None
  <2>6. QED
    BY <2>2, <2>5 DEF TS!Next
<1>14. ASSUME NEW c \in Cred, Fetch(r, c)
       PROVE  LinkInv' /\ (TS!Next \/ UNCHANGED TS!vars)
  <2>1. /\ client[r] = NoCred /\ given' = given /\ client'[r] = c
        /\ conn'[r] = [NoConn EXCEPT !.st = "queued", !.cred = c]
    BY <1>1, <1>14 DEF Fetch
  <2>2. conn'[r].st = "queued" /\ conn'[r].cred = c /\ conn'[r].token = None
    BY <2>1 DEF NoConn
  <2>3. LinkInv'
    BY <1>6, <2>1, <2>2
  <2>4. CASE c = NoCred
    BY <1>7, <2>1, <2>3, <2>4 DEF AskOf
  <2>5. CASE c # NoCred
    <3>1. Ask[r].st = "idle"
      BY <1>2, <2>1 DEF AskOf
    <3>2. Ask' = [Ask EXCEPT ![r] = [st |-> "asked", name |-> c, val |-> TS!None]]
      BY <1>4, <2>1, <2>2, <2>5 DEF AskOf, TS!None, None
    <3>3. TS!Ask(r, c)
      BY <1>3, <2>1, <3>1, <3>2 DEF TS!Ask, Current
    <3>4. QED
      BY <2>3, <3>3 DEF TS!Next
  <2>6. QED
    BY <2>4, <2>5
<1>15. QED
  BY <1>8, <1>9, <1>10, <1>11, <1>12, <1>13, <1>14 DEF HandlerStep, ClientStep

\* A new token is a renewal, once the service has started; that the provider
\* issued it for a broker that has gone, nobody sees.
LEMMA RefresherSimulates ==
    ASSUME TypeInv, LinkInv, NEW c \in Cred, RefresherStep(c)
    PROVE  LinkInv' /\ (TS!Next \/ UNCHANGED TS!vars)
<1>1. UNCHANGED <<pc, conn, client, given>>
  BY DEF RefresherStep, MintBegin, MintSucceeds, MintFails, PersistAndSleep, Wakes
<1>2. LinkInv' /\ Ask' = Ask
  BY <1>1 DEF LinkInv, Ask
<1>3. CASE issued' = issued
  <2>1. Current' = Current
    BY <1>1, <1>3, CurrentKept
  <2>2. QED
    BY <1>1, <1>2, <2>1 DEF TS!vars, Current
<1>4. CASE MintSucceeds(c)
  <2>1. issued' = [issued EXCEPT ![c] = @ + 1] /\ issued \in [Cred -> 0..MaxMints]
    BY <1>4 DEF MintSucceeds, TypeInv, StoreTyped
  <2>2. CASE pc \in {"starting", "exited"}
    <3>1. Current' = Current
      BY <1>1, <2>2 DEF Current, Token
    <3>2. QED
      BY <1>1, <1>2, <3>1 DEF TS!vars, Current
  <2>3. CASE pc \notin {"starting", "exited"}
    <3>1. Current' = [d \in Cred |-> IF d \in {c} THEN Current[d] + 1 ELSE Current[d]]
      BY <1>1, <2>1, <2>3 DEF Current, Token
    <3>2. TS!Renew
      BY <1>1, <1>2, <3>1 DEF TS!Renew, Current
    <3>3. QED
      BY <1>2, <3>2 DEF TS!Next
  <2>4. QED
    BY <2>2, <2>3
<1>5. QED
  BY <1>3, <1>4 DEF RefresherStep, MintBegin, MintFails, PersistAndSleep, Wakes, store

\* The service starts with the static tokens, retires while nobody is being
\* served (ReaderInv), or vanishes.
LEMMA MainSimulates ==
    ASSUME TypeInv, TypeInv', LinkInv, ReaderInv,
           MainStep \/ SigTerm \/ Crash \/ Tick \/ UNCHANGED vars
    PROVE  LinkInv' /\ (TS!Next \/ UNCHANGED TS!vars)
<1>0. /\ conn \in [Req -> ConnState] /\ client \in [Req -> Cred \cup {NoCred}]
      /\ Ask = [q \in Req |-> AskOf(client[q], conn[q])]
      /\ Ask' = [q \in Req |-> AskOf(client'[q], conn'[q])]
      /\ \A q \in Req : conn[q].st \in {"none", "queued", "open", "got", "replied"}
  BY AskIs DEF TypeInv, ConnTyped, ConnState
<1>1. CASE \/ SigTerm \/ ServeReturns \/ JoinRefreshers \/ RevokeMinted \/ Tick
           \/ UNCHANGED vars
  <2>1. UNCHANGED <<issued, conn, client, given>>
    BY <1>1 DEF SigTerm, ServeReturns, JoinRefreshers, RevokeMinted, Tick, vars, store
  <2>2. pc' = pc \/ {pc, pc'} \cap {"starting", "exited"} = {}
    BY <1>1 DEF SigTerm, ServeReturns, ServeDrained, JoinRefreshers, RefreshersJoined,
                RevokeMinted, Tick, vars
  <2>3. LinkInv' /\ Ask' = Ask /\ Current' = Current
    BY <2>1, <2>2, CurrentKept DEF LinkInv, Ask
  <2>4. QED
    BY <2>1, <2>3 DEF TS!vars, Current
<1>2. CASE Start
  <2>1. /\ pc = "starting" /\ pc' = "serving" /\ UNCHANGED <<conn, client, given>>
        /\ issued' = [c \in Cred |-> IF payload[c] = "static" THEN 1 ELSE 0]
    BY <1>2 DEF Start
  <2>2. LinkInv' /\ Ask' = Ask
    BY <2>1 DEF LinkInv, Ask
  <2> DEFINE S == {c \in Cred : payload[c] = "static"}
  <2>3. Current' = [c \in Cred |-> IF c \in S THEN Current[c] + 1 ELSE Current[c]]
    BY <2>1 DEF Current, Token, None
  <2>4. S \in SUBSET Cred
    OBVIOUS
  <2>5. TS!Renew
    <3> HIDE DEF S
    <3> QED BY <2>1, <2>2, <2>3, <2>4 DEF TS!Renew, Current
  <2>6. QED
    BY <2>2, <2>5 DEF TS!Next
<1>3. CASE CloseListener
  <2>1. /\ UNCHANGED <<issued, client, given>> /\ pc = "serving" /\ pc' = "draining"
        /\ conn' = [r \in Req |-> IF conn[r].st = "queued" THEN NoConn ELSE conn[r]]
    BY <1>3 DEF CloseListener, store
  <2>2. LinkInv'
    BY <2>1 DEF LinkInv, NoConn
  <2>3. ASSUME NEW r \in Req
        PROVE  AskOf(client'[r], conn'[r]) = AskOf(client[r], conn[r])
    BY <2>1 DEF AskOf, NoConn, LinkInv
  <2>4. Ask' = Ask
    BY <1>0, <2>3
  <2>5. Current' = Current
    BY <2>1, CurrentKept
  <2>6. QED
    BY <2>1, <2>2, <2>4, <2>5 DEF TS!vars, Current
<1>4. CASE WipeAndExit
  <2>1. UNCHANGED <<conn, client, given>> /\ pc = "wiping" /\ pc' = "exited"
    BY <1>4 DEF WipeAndExit
  <2>2. LinkInv' /\ Ask' = Ask
    BY <2>1 DEF LinkInv, Ask
  <2>3. \A r \in Req : Ask[r].st # "resolved"
    BY <1>0, <2>1 DEF AskOf, ReaderInv
  <2>4. Current' = [c \in Cred |-> None]
    BY <2>1 DEF Current, Token
  <2>5. TS!Retire
    BY <2>1, <2>2, <2>3, <2>4 DEF TS!Retire, Current, TS!None, None
  <2>6. QED
    BY <2>2, <2>5 DEF TS!Next
<1>5. CASE Crash
  <2>1. UNCHANGED <<client, given>> /\ pc' = "exited" /\ conn' = [r \in Req |-> NoConn]
    BY <1>5 DEF Crash
  <2>2. LinkInv'
    BY <2>1 DEF LinkInv, NoConn
  <2>3. ASSUME NEW r \in Req
        PROVE  AskOf(client'[r], conn'[r])
                 = IF Ask[r].st = "idle" THEN TS!Idle
                   ELSE [Ask[r] EXCEPT !.st = "asked", !.val = TS!None]
    <3>1. CASE client[r] = NoCred
      BY <1>0, <2>1, <3>1 DEF AskOf, TS!Idle, TS!None, None
    <3>2. CASE client[r] # NoCred
      <4>1. AskOf(client'[r], conn'[r]) = [st |-> "asked", name |-> client[r], val |-> None]
        BY <2>1, <3>2 DEF AskOf, NoConn
      <4>2. PICK st \in {"asked", "resolved", "sealed"} :
                 Ask[r] = [st |-> st, name |-> client[r], val |-> conn[r].token]
        BY <1>0, <3>2 DEF AskOf
      <4>3. Moved(Ask[r], "asked", None) = [st |-> "asked", name |-> client[r], val |-> None]
        BY <4>2, Advance
      <4>4. Ask[r].st # "idle" /\ TS!None = None
        BY <4>2 DEF TS!None, None
      <4>5. QED
        BY <4>1, <4>3, <4>4 DEF Moved
    <3>3. QED
      BY <3>1, <3>2
  <2>4. Ask' = [r \in Req |-> IF Ask[r].st = "idle" THEN TS!Idle
                              ELSE [Ask[r] EXCEPT !.st = "asked", !.val = TS!None]]
    BY <1>0, <2>3
  <2>5. Current' = [c \in Cred |-> None]
    BY <2>1 DEF Current, Token
  <2>6. TS!Vanish
    BY <2>1, <2>4, <2>5 DEF TS!Vanish, Current, TS!None, None
  <2>7. QED
    BY <2>2, <2>6 DEF TS!Next
<1>6. QED
  BY <1>1, <1>2, <1>3, <1>4, <1>5 DEF MainStep

\* For any number of credentials and fetches, whatever fails, is killed or times
\* out: everything the broker, its refreshers and the enforcer do is a step of
\* TokenService, or does not show.  That an answered question is read, the
\* fairness of TokenService, is not stated here.
THEOREM BrokerImplementsTokenService == Spec => TS!Init /\ [][TS!Next]_(TS!vars)
<1>1. Init => ReaderInv /\ LinkInv
  BY DEF Init, ReaderInv, LinkInv, NoConn
<1>2. Init => TS!Init
  <2> SUFFICES ASSUME Init PROVE TS!Init
    OBVIOUS
  <2>1. Current = [c \in Cred |-> None] /\ given = [r \in Req |-> None]
    BY DEF Init, Current, Token
  <2>2. Ask = [r \in Req |-> TS!Idle]
    BY DEF Init, Ask, TS!Idle, TS!None, None
  <2>3. QED
    BY <2>1, <2>2 DEF TS!Init, Current, TS!None, None
<1>3. TypeInv /\ TypeInv' /\ LinkInv /\ ReaderInv /\ [Next]_vars
      => LinkInv' /\ [TS!Next]_(TS!vars)
  BY FetchSimulates, RefresherSimulates, MainSimulates DEF Next
<1>4. QED
  BY <1>1, <1>2, <1>3, Typed, ReaderStep, PTL DEF Spec
=============================================================================
