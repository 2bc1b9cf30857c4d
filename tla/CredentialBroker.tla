-------------------------- MODULE CredentialBroker --------------------------
(***************************************************************************)
(* The credential broker daemon (internal/broker, runBroker in             *)
(* internal/cli/broker.go) and the fetch the enforcer makes of it          *)
(* (internal/proxy/enforcer/broker.py).  One goroutine per connection      *)
(* answers a request from the Store, one goroutine per minted credential   *)
(* replaces tokens in it before they expire, and SIGTERM takes everything  *)
(* down in an order that must not pull the store from under a reader.      *)
(*                                                                         *)
(* Tokens of a credential are numbered in the order the Store received     *)
(* them.  A buffer is wiped in place exactly when its token is replaced,   *)
(* so "the buffer of token n is intact" is "n is the current token".       *)
(* Time is counted in ticks; 0 is, as in the code, "no expiry".            *)
(***************************************************************************)
EXTENDS Integers

CONSTANTS
    Cred,       \* credential names
    Req,        \* fetches the enforcer has in flight
    Payloads,   \* the payloads runBroker may be handed: what each name is
    Life,       \* lifetime of a minted token
    Early, Jitter, Backoff,   \* Margins
    Latency,    \* bound: how long a mint request takes
    MaxFails,   \* bound: mint attempts that fail in a row
    MaxMints,   \* bound: tokens per credential
    MaxTime,    \* bound: ticks in one behaviour
    Scenarios   \* which things go wrong, one set per scenario

CredKinds == {"absent", "static", "github", "oauth2"}

FaultKinds ==
    {"fails",     \* a mint attempt fails
     "lost",      \* the provider mints but its answer is lost
     "rotates",   \* the provider replaces the refresh token on every grant
     "keychain",  \* the keychain write of a rotated refresh token fails
     "timeout",   \* the enforcer gives up on a fetch
     "crash"}     \* the broker is SIGKILLed

ASSUME BrokerAssumption ==
    /\ Payloads \subseteq [Cred -> CredKinds]
    /\ Life \in Nat \ {0} /\ Early \in Nat /\ Jitter \in Nat /\ Backoff \in Nat
    /\ Latency \in Nat /\ MaxFails \in Nat /\ MaxMints \in Nat \ {0} /\ MaxTime \in Nat
    /\ Scenarios \subseteq SUBSET FaultKinds

VARIABLES
    now, env, payload,
    \* where runBroker is, and whether its context is cancelled
    pc, cancelled,
    \* the Store: the number of the current token, and its expiry
    issued, expires,
    \* the refresh goroutines: what each does, since or until when, and its
    \* failures in a row
    ref,
    \* the connections: the handler's progress and what it holds
    conn,
    \* the enforcer: the credential a fetch waits for, and what it last got
    client, given,
    \* refresh tokens of a credential: the one the provider accepts, the one
    \* the minter holds, the one in the keychain
    grant,
    \* history: the last token of each credential sent for revocation
    revoked

store == <<issued, expires>>
vars == <<now, env, payload, pc, cancelled, issued, expires, ref, conn, client,
          given, grant, revoked>>

None == 0       \* no token: a refusal
Garbled == -1   \* bytes of a token and zeros

NoCred == ""

NoConn == [st |-> "none", cred |-> NoCred, token |-> None, exp |-> 0]

Minted(c) == payload[c] \in {"github", "oauth2"}

\* The token Store.Get finds.
Token(c) == IF pc \in {"starting", "exited"} THEN None ELSE issued[c]

Times == 0..(MaxTime + Life + Jitter + Backoff)

TypeOK ==
    /\ now \in 0..MaxTime
    /\ env \in Scenarios
    /\ payload \in Payloads
    /\ pc \in {"starting", "serving", "draining", "joining", "revoking", "wiping",
               "exited"}
    /\ cancelled \in BOOLEAN
    /\ issued \in [Cred -> 0..MaxMints]
    /\ expires \in [Cred -> Times]
    /\ ref \in [Cred -> [st : {"off", "mint", "sent", "rotate", "sleep", "backoff", "stopped"},
                         at : Times, fails : 0..MaxFails]]
    /\ conn \in [Req -> [st : {"none", "queued", "open", "got", "replied"},
                         cred : Cred \cup {NoCred}, token : Garbled..MaxMints, exp : Times]]
    /\ client \in [Req -> Cred \cup {NoCred}]
    /\ given \in [Req -> Garbled..MaxMints]
    /\ grant \in [Cred -> [provider : 0..(2 * MaxMints), minter : 0..(2 * MaxMints),
                           keychain : 0..(2 * MaxMints)]]
    /\ revoked \in [Cred -> 0..MaxMints]

Init ==
    /\ now = 0
    /\ env \in Scenarios
    /\ payload \in Payloads
    /\ pc = "starting"
    /\ cancelled = FALSE
    /\ issued = [c \in Cred |-> 0]
    /\ expires = [c \in Cred |-> 0]
    /\ ref = [c \in Cred |-> [st |-> "off", at |-> 0, fails |-> 0]]
    /\ conn = [r \in Req |-> NoConn]
    /\ client = [r \in Req |-> NoCred]
    /\ given = [r \in Req |-> None]
    /\ grant = [c \in Cred |-> [provider |-> 0, minter |-> 0, keychain |-> 0]]
    /\ revoked = [c \in Cred |-> 0]

-----------------------------------------------------------------------------
(***************************************************************************)
(* runBroker.  As in ProxyLifecycle, definitions named Slip_... are        *)
(* mistakes a change to the code could make, not part of the model.        *)
(***************************************************************************)

\* Static tokens are Set, the socket is bound, one refresher per minted
\* credential starts.  A payload that cannot be read is one with every name
\* absent.
Start ==
    /\ pc = "starting"
    /\ pc' = "serving"
    /\ issued' = [c \in Cred |-> IF payload[c] = "static" THEN 1 ELSE 0]
    /\ ref' = [c \in Cred |-> [ref[c] EXCEPT !.st = IF Minted(c) THEN "mint" ELSE "off"]]
    /\ UNCHANGED <<now, env, payload, cancelled, expires, conn, client, given, grant,
                   revoked>>

SigTerm ==
    /\ pc = "serving" /\ ~cancelled
    /\ cancelled' = TRUE
    /\ UNCHANGED <<now, env, payload, pc, store, ref, conn, client, given, grant, revoked>>

\* Serve's watcher closes the listener: connections nobody accepted are reset
\* and the accept loop ends.
CloseListener ==
    /\ pc = "serving" /\ cancelled
    /\ pc' = "draining"
    /\ conn' = [r \in Req |-> IF conn[r].st = "queued" THEN NoConn ELSE conn[r]]
    /\ UNCHANGED <<now, env, payload, cancelled, store, ref, client, given, grant, revoked>>

Slip_NotWaiting == pc = "draining"

\* Serve returns when its handlers are done.
ServeDrained ==
    /\ pc = "draining"
    /\ \A r \in Req : conn[r].st \notin {"open", "got"}

Slip_NotJoined == pc = "joining"

\* wg.Wait: every refresher has returned.
RefreshersJoined ==
    /\ pc = "joining"
    /\ \A c \in Cred : ref[c].st \in {"off", "stopped"}

ServeReturns ==
    /\ ServeDrained
    /\ pc' = "joining"
    /\ UNCHANGED <<now, env, payload, cancelled, store, ref, conn, client, given, grant,
                   revoked>>

JoinRefreshers ==
    /\ RefreshersJoined
    /\ pc' = "revoking"
    /\ UNCHANGED <<now, env, payload, cancelled, store, ref, conn, client, given, grant,
                   revoked>>

\* revokeMinted: every GitHub token the store holds, best effort and bounded.
RevokeMinted ==
    /\ pc = "revoking"
    /\ pc' = "wiping"
    /\ revoked' = [c \in Cred |-> IF payload[c] = "github" THEN issued[c] ELSE revoked[c]]
    /\ UNCHANGED <<now, env, payload, cancelled, store, ref, conn, client, given, grant>>

\* The deferred Remove and Wipe.
WipeAndExit ==
    /\ pc = "wiping"
    /\ pc' = "exited"
    /\ UNCHANGED <<now, env, payload, cancelled, store, ref, conn, client, given, grant,
                   revoked>>

\* SIGKILL: goroutines and connections are gone; nothing is revoked.
Crash ==
    /\ "crash" \in env
    /\ pc \notin {"starting", "exited"}
    /\ pc' = "exited"
    /\ ref' = [c \in Cred |-> [ref[c] EXCEPT !.st = "off"]]
    /\ conn' = [r \in Req |-> NoConn]
    /\ UNCHANGED <<now, env, payload, cancelled, store, client, given, grant, revoked>>

-----------------------------------------------------------------------------
(***************************************************************************)
(* Refresher.Run                                                           *)
(***************************************************************************)
RefStep(c, st, at, fails) == ref' = [ref EXCEPT ![c] = [st |-> st, at |-> at, fails |-> fails]]

\* Mint is called; a cancelled context fails it at once.
MintBegin(c) ==
    /\ ref[c].st = "mint"
    /\ IF cancelled THEN RefStep(c, "stopped", 0, 0)
                    ELSE RefStep(c, "sent", now, ref[c].fails)
    /\ UNCHANGED <<now, env, payload, pc, cancelled, store, conn, client, given, grant,
                   revoked>>

\* The provider takes the refresh token the minter holds.
Accepted(c) == grant[c].minter = grant[c].provider

Slip_Milliseconds(c, t) == now + 1000 * Life

\* GitHub states the expiry of the token it issued at t; for OAuth2 the minter
\* adds expires_in to the time of receipt.
Expiry(c, t) == IF payload[c] = "github" THEN t + Life ELSE now + Life

\* Store.Set of a token the provider issued at t: the buffer it replaces is
\* wiped under the lock.
MintSucceeds(c) ==
    /\ ref[c].st = "sent"
    /\ Accepted(c)
    /\ issued[c] < MaxMints
    /\ issued' = [issued EXCEPT ![c] = @ + 1]
    /\ \E t \in ref[c].at..now : expires' = [expires EXCEPT ![c] = Expiry(c, t)]
    /\ LET rotated == payload[c] = "oauth2" /\ "rotates" \in env
           n == grant[c].provider + 1
       IN  grant' = IF rotated
                      THEN [grant EXCEPT ![c].provider = n, ![c].minter = n]
                      ELSE grant
    /\ RefStep(c, "rotate", 0, 0)
    /\ UNCHANGED <<now, env, payload, pc, cancelled, conn, client, given, revoked>>

\* The attempt fails: the store keeps what it has.  A cancelled context ends the
\* loop.  A lost answer may have rotated the refresh token.
MintFails(c) ==
    /\ ref[c].st = "sent"
    /\ IF cancelled
         THEN RefStep(c, "stopped", 0, 0)
         ELSE /\ "fails" \in env \/ "lost" \in env \/ ~Accepted(c)
              /\ ref[c].fails < MaxFails
              /\ RefStep(c, "backoff", now + Backoff, ref[c].fails + 1)
    /\ \/ UNCHANGED grant
       \/ /\ cancelled \/ "lost" \in env
          /\ payload[c] = "oauth2" /\ "rotates" \in env /\ Accepted(c)
          /\ grant[c].provider < 2 * MaxMints
          /\ grant' = [grant EXCEPT ![c].provider = @ + 1]
    /\ UNCHANGED <<now, env, payload, pc, cancelled, store, conn, client, given, revoked>>

Slip_NoMargin(c) == {expires[c] - now}

\* untilRefresh: expiry minus the early margin, plus jitter in [-J, J), at
\* least 0.
UntilRefresh(c) ==
    LET d == expires[c] - now - Early
        J == IF Jitter = 0 THEN {0} ELSE (-Jitter)..(Jitter - 1)
    IN  {IF d + j < 0 THEN 0 ELSE d + j : j \in J}

Slip_PersistsOld(c) == grant[c].keychain

\* persistRotatedRefreshToken writes the refresh token the minter holds.
Persisted(c) == grant[c].minter

\* handleRotation, then Sleep.  Once rotated, the write is repeated after every
\* mint.  A failed write only warns.
PersistAndSleep(c) ==
    /\ ref[c].st = "rotate"
    /\ grant' \in {[grant EXCEPT ![c].keychain = Persisted(c)]}
                  \cup (IF "keychain" \in env THEN {grant} ELSE {})
    /\ \E d \in UntilRefresh(c) : RefStep(c, "sleep", now + d, 0)
    /\ UNCHANGED <<now, env, payload, pc, cancelled, store, conn, client, given, revoked>>

Slip_SleepsOn(c) ==
    /\ ref[c].st \in {"sleep", "backoff"}
    /\ now >= ref[c].at /\ RefStep(c, "mint", 0, ref[c].fails)
    /\ UNCHANGED <<now, env, payload, pc, cancelled, store, conn, client, given, grant,
                   revoked>>

\* Sleep returns: the time is up or the context is cancelled.
Wakes(c) ==
    /\ ref[c].st \in {"sleep", "backoff"}
    /\ \/ cancelled /\ RefStep(c, "stopped", 0, 0)
       \/ now >= ref[c].at /\ RefStep(c, "mint", 0, ref[c].fails)
    /\ UNCHANGED <<now, env, payload, pc, cancelled, store, conn, client, given, grant,
                   revoked>>

-----------------------------------------------------------------------------
(***************************************************************************)
(* Server.handle, one goroutine per connection                             *)
(***************************************************************************)
Accept(r) ==
    /\ pc = "serving"
    /\ conn[r].st = "queued"
    /\ conn' = [conn EXCEPT ![r].st = "open"]
    /\ UNCHANGED <<now, env, payload, pc, cancelled, store, ref, client, given, grant,
                   revoked>>

\* Decode the request and Store.Get: the handler now holds a slice of the stored
\* buffer, and no lock.
Get(r) ==
    /\ conn[r].st = "open"
    /\ conn' = [conn EXCEPT ![r].st = "got", ![r].token = Token(conn[r].cred),
                            ![r].exp = expires[conn[r].cred]]
    /\ UNCHANGED <<now, env, payload, pc, cancelled, store, ref, client, given, grant,
                   revoked>>

\* What string(token) may yield: a buffer wiped since Get is zeros or, if the
\* wipe came during the copy, a mixture (or still whole).
Copies(r) ==
    IF conn[r].token = Token(conn[r].cred)
      THEN {conn[r].token}
      ELSE {conn[r].token, Garbled}

\* The rest of answer, and Encode: unknown, expired, or the token.
Answer(r) ==
    /\ conn[r].st = "got"
    /\ \E v \in IF conn[r].token = None \/ (conn[r].exp # 0 /\ now >= conn[r].exp)
                  THEN {None}
                  ELSE Copies(r) :
          conn' = [conn EXCEPT ![r].token = v,
                               ![r].st = "replied"]
    /\ UNCHANGED <<now, env, payload, pc, cancelled, store, ref, client, given, grant,
                   revoked>>

-----------------------------------------------------------------------------
(***************************************************************************)
(* broker.fetch in the enforcer                                            *)
(***************************************************************************)

\* Connect and send the request; nobody listens, no fetch.
Fetch(r, c) ==
    /\ client[r] = NoCred /\ conn[r].st = "none"
    /\ pc = "serving"
    /\ client' = [client EXCEPT ![r] = c]
    /\ conn' = [conn EXCEPT ![r] = [NoConn EXCEPT !.st = "queued", !.cred = c]]
    /\ UNCHANGED <<now, env, payload, pc, cancelled, store, ref, given, grant, revoked>>

\* The answer is read; the connection closes.
Receive(r) ==
    /\ client[r] # NoCred
    /\ conn[r].st = "replied"
    /\ given' = [given EXCEPT ![r] = conn[r].token]
    /\ client' = [client EXCEPT ![r] = NoCred]
    /\ conn' = [conn EXCEPT ![r] = NoConn]
    /\ UNCHANGED <<now, env, payload, pc, cancelled, store, ref, grant, revoked>>

\* The connection was reset, or the fetch timed out: answer 472.
GiveUp(r) ==
    /\ client[r] # NoCred
    /\ conn[r].st = "none" \/ "timeout" \in env
    /\ given' = [given EXCEPT ![r] = None]
    /\ client' = [client EXCEPT ![r] = NoCred]
    /\ conn' = IF conn[r].st \in {"queued", "replied"}
                 THEN [conn EXCEPT ![r] = NoConn] ELSE conn
    /\ UNCHANGED <<now, env, payload, pc, cancelled, store, ref, grant, revoked>>

\* The handler of a fetch that gave up writes to a closed connection.
Discard(r) ==
    /\ client[r] = NoCred
    /\ conn[r].st = "replied"
    /\ conn' = [conn EXCEPT ![r] = NoConn]
    /\ UNCHANGED <<now, env, payload, pc, cancelled, store, ref, client, given, grant,
                   revoked>>

-----------------------------------------------------------------------------
\* Time passes, but not past the end of a sleep or the bound on a mint request.
Tick ==
    /\ now < MaxTime
    /\ \A c \in Cred :
        CASE ref[c].st \in {"sleep", "backoff"} -> now < ref[c].at
          [] ref[c].st = "sent" -> now < ref[c].at + Latency
          [] OTHER -> ref[c].st \in {"off", "stopped"}
    /\ now' = now + 1
    /\ UNCHANGED <<env, payload, pc, cancelled, store, ref, conn, client, given, grant,
                   revoked>>

MainStep == Start \/ CloseListener \/ ServeReturns \/ JoinRefreshers \/ RevokeMinted \/ WipeAndExit

RefresherStep(c) ==
    MintBegin(c) \/ MintSucceeds(c) \/ MintFails(c) \/ PersistAndSleep(c) \/ Wakes(c)

HandlerStep(r) == Accept(r) \/ Get(r) \/ Answer(r) \/ Discard(r)

ClientStep(r) == Receive(r) \/ GiveUp(r)

Next ==
    \/ MainStep \/ SigTerm \/ Crash \/ Tick
    \/ \E c \in Cred : RefresherStep(c)
    \/ \E r \in Req : \/ HandlerStep(r) \/ ClientStep(r)
                      \/ \E c \in Cred : Fetch(r, c)

Spec == Init /\ [][Next]_vars

(***************************************************************************)
(* Fairness: goroutines run, the enforcer reads answers and its HTTP       *)
(* client gives up on a provider that never answers (MintFails).  Nothing  *)
(* is assumed of SIGTERM, of time, or of anybody fetching.                 *)
(***************************************************************************)
Fairness ==
    /\ WF_vars(MainStep)
    /\ \A c \in Cred : WF_vars(RefresherStep(c))
    /\ \A r \in Req : WF_vars(HandlerStep(r)) /\ WF_vars(ClientStep(r))

FairSpec == Spec /\ Fairness

-----------------------------------------------------------------------------
(***************************************************************************)
(* Correctness                                                             *)
(***************************************************************************)

\* The early margin leaves room for MaxFails failed attempts and a slow success.
MarginsSuffice ==
    LET retries == MaxFails * (Latency + Backoff) + Latency
    IN  Early > Jitter + retries /\ Life > Latency + retries

\* Keep-hot: once a credential was minted, its token does not expire in the
\* store while the broker serves, as long as no more attempts fail in a row than
\* the early margin leaves room for.
KeepsHot ==
    (MarginsSuffice /\ ~cancelled /\ pc = "serving") =>
        \A c \in Cred : (Minted(c) /\ issued[c] > 0) => now < expires[c]

\* The store is revoked and wiped only when no handler can still read it.
NoReaderAtTheEnd ==
    (pc \in {"joining", "revoking", "wiping", "exited"}) =>
        \A r \in Req : conn[r].st \notin {"queued", "open", "got"}

\* A broker that shut down in order has revoked the newest GitHub token it ever
\* stored.
RevokedOnExit ==
    (pc = "exited" /\ "crash" \notin env) =>
        \A c \in Cred : payload[c] = "github" => revoked[c] = issued[c]

\* Unless the answer to a grant was lost or the keychain refused, the refresh
\* token in the keychain is the one the provider accepts, whenever no grant is
\* being processed: a broker killed then can be replaced by a new one.
RefreshTokenKept ==
    (env \cap {"lost", "keychain", "crash"} = {} /\ ~cancelled) =>
        \A c \in Cred : ref[c].st \notin {"sent", "rotate"} =>
            grant[c].keychain = grant[c].provider

\* SIGTERM ends the broker, whatever its providers do and whenever it comes.
BrokerExits == cancelled ~> pc = "exited"

\* The broker implements TokenService.
Ask == [r \in Req |->
          LET st == CASE conn[r].st \in {"none", "queued", "open"} -> "asked"
                      [] conn[r].st = "got" -> "resolved"
                      [] conn[r].st = "replied" -> "sealed"
          IN  IF client[r] = NoCred
                THEN [st |-> "idle", name |-> NoCred, val |-> None]
                ELSE [st |-> st, name |-> client[r], val |-> conn[r].token]]

TS == INSTANCE TokenService WITH Caller <- Req, Name <- Cred, Nobody <- NoCred,
                                 current <- [c \in Cred |-> Token(c)], ask <- Ask

ImplementsTokenService == TS!Spec

-----------------------------------------------------------------------------
(***************************************************************************)
(* What a comment says and the code does not keep                          *)
(***************************************************************************)

\* protocol.go:10, a request got the old token or the new one, "never a torn
\* mixture".
NeverTorn == \A r \in Req : given[r] # Garbled
=============================================================================
