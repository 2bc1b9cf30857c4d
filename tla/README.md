# agent-creance, specified

`agent-creance run` cages a coding agent: a sandbox profile freezes what the
agent may touch, a mitmdump proxy with a Python enforcer decides which requests
leave, and a credential broker hands the enforcer tokens the agent never sees.
This directory specifies, in TLA+, the parts of that program whose correctness
depends on the order in which things happen. TLC checks the modules on small
instances; TLAPS proves the safety theorems for every value of the constants.

    tlc -config Lifecycle.cfg MCProxyLifecycle.tla       # model-check one run
    tlapm ProxyLifecycleProofs.tla                       # check the proofs

`PROJECT.json` lists components, runs, the source lines behind each definition,
hazards, findings and theorems.

## 1. Inventory

| Part (code) | State it keeps | Operations | Talks to |
|---|---|---|---|
| **Proxy lifecycle** (`internal/proxy/lifecycle.go`) | `proxy.lock` (proxy PID, broker PID, port, attached agents with start times), the session overlay, the broker's socket path | `Attach`, `Detach`, `CleanOrphan`, `Clean`, `Inspect` | every `run`, `doctor`, `clean` of a project through one flock; mitmdump and broker by spawn, signal, port and socket probes |
| **Credential broker** (`internal/broker`, `cli/broker.go`) | the Store (token bytes, expiry), one refresher per minted credential, open connections | `runBroker`, `Server.handle`, `Refresher.Run`, `revokeMinted`, `Wipe` | enforcer (unix socket), token providers (HTTP), keychain |
| **Minters** (`internal/mint`) | the OAuth2 refresh token in memory, the GitHub App key | `Mint`, `Revoke` | providers |
| **Enforcer** (`internal/proxy/enforcer/*.py`) | the loaded ruleset and its mtime, injection table, audit log handle | `request`, the poll, `fetch`, `write` | broker, `policy.json`, audit log |
| **Policy compiler** (`internal/policy/compile`) | `policy.json` and its hash | `Compile` | config files, generators; read by the enforcer |
| **Config commands and watcher** (`cli/mutate.go`, `allow.go`, ..., `configwatch`) | config layers, overlay; watch set and debounce timer | `allow`, `deny`, `include`, ...; watch, debounce, recompile | compiler, lifecycle (overlay) |
| **run** (`cli/run.go`) | what it has deferred, who takes its signals | checks, compile, attach, prepare, watch, launch, undo | all of the above |
| **Cage** (`internal/cage`, `internal/profile`) | the fragment files in the state directory; the cage's process and its kill timer | `Compile`, `Prepare`, `Build`, `Run` (start, forward, kill, wait) | run; safehouse, by argv, environment and fragments |
| **Audit log** (`audit.py`, `internal/audit`) | the log file and one rotated copy; a follower's offset | append, rotate, follow, dump | enforcer writes, CLI reads |
| **Policy matcher** (`internal/policy`, `policy.py`) | none (pure), written twice | decide, host disposition, glob loop | compiler, `explain`, enforcer |
| **Config** (`internal/config`) | none between calls | parse, resolve includes, merge layers, edit in place | compiler, commands, watcher, run |
| **Secrets** (`internal/sysdep/secretresolver.go`, `config/template.go`) | none | references, templates, what a launch resolves | credential commands, lifecycle, enforcer |
| **Generators, registry cache** (`internal/generator`) | cache entries with fetch times | generate, fetch | compiler, registries |
| doctor, status, setup, verify, prereq, helpers | none of their own | reports, one-shot I/O | |

What is hard in it, and what correct means:

* **Lifecycle.** Wrappers come, go and are SIGKILLed at any time; PIDs are
  reused; mitmdump and the broker die; the holder of the flock dies half way.
  Correct: the refcount equals the attached wrappers; nobody's proxy is taken
  away by somebody else's exit; daemons are never forgotten; the last one out
  stops them; agents stranded by a restart are warned and never killed; the
  flock is always given back.
* **Broker.** Handlers hold a slice of a buffer that refreshers wipe in place;
  refresh races expiry through jitter, retries and slow answers; SIGTERM may
  come at any point. Correct: a live token while the broker serves; no reader
  when the store is revoked and wiped; nothing minted goes unrevoked on an
  orderly exit; a rotated refresh token is not lost; SIGTERM ends it.
* **Policy pipeline.** Several writers under different locks compile to one
  file through one temporary name; the enforcer polls it by mtime. Correct: the
  last change is eventually enforced, and never a half-written or older policy.
* **run and cage.** A signal may come before there is a handler, between two
  steps of the start, while the agent exits; any step may fail; two launches
  write the same fragments while the config is edited. Correct: a wrapper is
  counted as a user of the proxy exactly while its cage may run; a signalled run
  ends even if the agent ignores it; the profile that is in force permits and forbids
  what the verification battery probes for, whatever the config mounts.
* **Requests.** The policy may be loaded again while a request waits for the
  broker; hooks raise; the log fails. Correct: what reaches a server was allowed,
  with the credential asked for, by the policy of one moment, and is logged so.
* **Audit log.** Rotation against a follower. Correct: no entry is shown twice
  or out of order, and none is lost but those of missed rotations.
* **Matcher.** Written in Go and in Python, and a third time for whole hosts at
  CONNECT. Correct: they agree; the order of rules does not matter; nothing a
  request would be refused for slips through a tunnel.
* **Config.** Line splices into files people write, fragments of fragments,
  links, layers. Correct: an edit leaves a file that parses, in which each list has
  its entry more, less or changed and no other list suffers (which does not hold of a mapping
  written on one line: section 9); the two
  views of the same files (the compiler's and `run`'s) agree; all that is read is watched;
  a deny never opens anything.

## 2. Plan

Modules in the order they are written, most important behaviour first:

1. `ProxyLifecycle`, refining `SharedProxy` (done; section 3).
2. `CredentialBroker`, refining `TokenService` (done; section 4).
3. `PolicyPipeline`, refining `ConfigStore` (done; section 5).
4. `CageRun` over `CageProfile`: the wrapper from its first check to its exit,
   and the sandbox it launches (done; section 7).
5. `AuditLog`: writer, rotation, follower, dump (done; section 7).
6. `EnforcerFlow`: a request on its way through the enforcer's hooks (done;
   section 7).
7. `PolicyMatch` and `EnforcerPolicy`, the two matchers, and `GlobMatch`, the loop
   both use for a path segment (done; section 6).
8. `ConfigFile`, `ConfigLoad`, `PolicyCompile`, `CommandLine` and `Commands`: what
   commands do to files, and files to the policy (done; section 6).
9. `Generators`: rules from manifests, through the two caches (done; section 7).

What is left open is status, setup and the reports (section 10).

The theorems are in modules of their own: `ProxyLifecycleProofs` (who is
counted, who is signalled, what a user of the proxy can count on, and the refinement of
`SharedProxy`); `CredentialBrokerProofs`; `PolicyPipelineProofs`; `SessionProofs`
(`CageRun` over `CageProfile`, `EnforcerFlow` and `Generators`); `AuditLogProofs`;
`PolicyMatchProofs` (the two matchers, with what `SessionProofs` needs of them) and, on top of
it, `CommandsProofs`
(the glob loop; every command keeps what the matchers rest on, what the files say and the
credentials its rules need; what is read is watched). `Iteration` has the
facts about numbers, recursive functions, joined sequences and lists without their doubles that
the last four share. Section 8 says what they show, and what is only model-checked.

## 3. `ProxyLifecycle`: one proxy for many agents

`lock`, `overlay` and `sock` are the three files. `kind`, `start`, `phase` and
`port` are the process table, as far as the code looks at it: existence, start
time, listening. `cs` is the critical section in progress, i.e. the holder of
the flock, its next call and its local variables; `cs.op = "none"` means that
the flock is free. `env` is the scenario: which things the environment does in
this behaviour. `warned` and `misfired` are history.

Every call inside Attach, Detach, CleanOrphan and Clean that another process can
interleave with is one action: `AttachReuse` or `AttachRestart` (lock read,
prune, probe, choosing the port and warning), `AttachSpawnBroker`,
`AttachBrokerReady/Failed`, `AttachSpawnProxy`, `AttachProxyReady/Failed`,
`AttachRecord`; `DetachBegin`, `DetachDrop`, `TeardownSignal`, `TeardownBroker`,
`TeardownClear` (shared by Detach, CleanOrphan and Clean, as in the code).
`...Failed` are the error paths. mitmdump and the broker are seen from outside:
they bind, exit after SIGTERM when they please, crash. `Inspect` is read-only.
The socket path's sharp edge is kept: Listen removes whatever is at the path,
and closing and exiting remove it by path too, whoever has bound it since.

Two abstractions deserve a word. A start time is the number of the birth, so a
reused PID always has another start time, which is what the code's second
identity factor assumes. Fresh PIDs are handed out in ascending order, a used one only when the
scenario recycles; this removes symmetric interleavings and nothing else.

`SharedProxy` is what all this is for: an endpoint that appears and disappears
only while nobody uses it, and users told its address once. The mapping takes
the running proxy for the endpoint and a wrapper's frozen port for what it was told.
The step simulation is a theorem (`LifecycleImplementsSharedProxy`); that the
endpoint stays, the fairness of `SharedProxy`, is the run's.

### Runs

| Run | Bounds | Shows |
|---|---|---|
| `lifecycle` | 5 births, 5 PIDs, 2 ports, 5 scenarios (orderly use with kills; crashing daemons with forced cleans; lost ports; PID reuse; the holder killed, torn writes, failing calls) | the type invariant and seven safety properties |
| `lifecycle_live` | 5 births, 1 port, daemons asked to stop by doctor, clean and the last run, crashing brokers | `FlockReleased`, `RunsGetIn`, `DaemonsGoWithLastRun`, refinement of `SharedProxy` |
| `broker_leak`, `broker_socket` | 6 births, 1 port | the first two disagreements of section 9 |

Five births are two wrappers and a full set of daemons with one spare process: a
restart of the proxy under a surviving agent, a foreign process under a
recorded PID, or a third wrapper that finds the first two. Six are needed for
a second complete set of daemons, which only the two violation runs need. Two
ports are the old and the new one. Each property says for which scenarios it
is meant: `ServedWhileAttached`, for instance, is about exits, kills,
doctor and unforced cleans, and a crash of mitmdump may of course take the
proxy away. SIGKILL of a wrapper is left out of `LastOutStopsProxy` alone
among the user actions, because Detach does not prune: see the hazard list.

Fairness. `SectionStep` is weakly fair: every wait in the section is a poll with
a maximum number of rounds, so the holder always has a next step. Daemons are scheduled and
exit on SIGTERM (`DaemonProgress`). `EntersAttach` is strongly fair: a run that
waits in flock gets it at some point if it is free again and again. No fairness
on users: cages may run for ever, and no run need ever start.

## 4. `CredentialBroker`: tokens that stay fresh

`pc` is where `runBroker` is; `cancelled` is its context. `issued` and `expires`
are the Store: tokens of a credential are numbered as the Store receives them,
and since a buffer is wiped exactly when its token is replaced, "token n is
intact" is "n is the current number". `ref` is the state of the refresh
goroutine of each credential, `conn` that of each connection's handler with the
slice it holds, `client` and `given` the enforcer's `fetch`. `grant` is the
refresh token as provider, minter and keychain know it. `now` is a clock that
does not run past the end of a sleep or the bound on an HTTP request.

Main flow: `Start`, `SigTerm`, `CloseListener`, `ServeReturns`,
`JoinRefreshers`, `RevokeMinted`, `WipeAndExit`, in the order the code's calls and
defers impose; `Crash` is SIGKILL. Refreshers: `MintBegin`, `MintSucceeds`, `MintFails`,
`PersistAndSleep`, `Wakes`. Handlers: `Accept`, `Get`, `Answer`. `Get` and
`Answer` are two steps because `Store.Get` returns the slice and releases the
lock before the bytes are copied.

`TokenService` is the promise to the enforcer: an answer is a refusal or the
token that was current at one instant between question and answer; a token
replaced at just that instant may arrive garbled. The step simulation is a theorem
(`BrokerImplementsTokenService`); that an answer is read, the fairness, stays with TLC.

### Runs

| Run | Bounds | Shows |
|---|---|---|
| `broker` | two credentials (one static or absent, one GitHub or OAuth2), one fetch in flight, Life 8, Early 5, Jitter, Backoff and Latency 1, one failure in a row, 2 tokens, 9 ticks; three fault scenarios | type invariant, `KeepsHot`, `NoReaderAtTheEnd`, `RevokedOnExit`, `RefreshTokenKept`, `BrokerExits`, refinement of `TokenService` |
| `broker_torn` | one GitHub credential, no faults | the third disagreement of section 9 |

The margins of `broker` satisfy `MarginsSuffice` with nothing to spare (5 > 1 + 3),
so the tightest case occurs: jittered late, one failure, a slow success.
Nine ticks cover the first mint, its refresh at the latest moment and the life of the first
token (Life 8); what a later refresh starts from, a token with its whole life before it, is what
the first one did. One fetch suffices because
handlers share nothing but the Store, which they only read; the proofs cover any number.

Fairness. Goroutines are scheduled, the enforcer reads its answers, and
`MintFails` is enabled after a cancelled context at once and otherwise bounded
by the HTTP client's timeout. None on SIGTERM, time, or anybody fetching.

## 5. `PolicyPipeline`: from a config file to the proxy

`config` and `broken` are the three files that hold rules (global, project,
session overlay), each as the set of its rules and whether it parses. `dest` and
`tmp` are `policy.json` and `policy.json.tmp`. `comp` is the compile each
process is in, `cmd` the editing commands, `policy show` and `policy refresh`,
`sess` and `event` the runs with their watchers, `enf` the enforcer's reload.
`hands` counts a developer's saves. Rules stand for whatever an edit changes:
`allow`, `deny`, `domain`, `credential`, `include` and `import` are one
`applyAndRecompile` with different edits.

An edit is `BeginEdit` (lock, read, apply) and `WriteConfig` (rename, start
compiling, all under the lock of that one file). A compile is `ReadLayer` once per
file, `GateHit` or `GateMiss`, `OpenTmp`, `WriteTmp`, `RenameTmp`, and on errors
`ReadFails`, `BuildFails`, `RenameFails` (somebody renamed or removed the temporary file, or the
scenario has failures), `RemoveTmp`. Only editing commands hold a
lock, and only on their own file, so that compiles overlap: all of them use
one temporary name. `fd` is what an open temporary file is called by
now. A process may find its file renamed to `policy.json` by another one and
write into that (`WriteTmp`'s second disjunct), which leaves `policy.json` empty
or garbled for a while; the enforcer then keeps its last good ruleset
(`PollReads`). The enforcer reads and then stats (`PollReads`, `PollStats`); `seen` says
whether its remembered mtime is that of the file, and every write of `policy.json` has
an mtime of its own.

`author`, `acked`, `past`, `expired`, `overlapped` and `raced` are history, for
the properties only: who wrote each file, which commands reported success,
contents each file has had, overlay rules purged, and whether two compiles were ever in
progress together or `policy.json` changed between the enforcer's read and its stat.

`ConfigStore` is what the lock is for: each command is one atomic edit of its
file. The mapping covers the project and global files. It leaves out scenarios
with a developer's editor, which does not take the advisory lock, and the overlay,
which Detach purges without its lock (both are on the hazard list).

### Runs

| Run | Bounds | Shows |
|---|---|---|
| `pipeline` | 2 commands that may each add one rule of their own (`RuleOf`) and remove any, 2 runs, 2 rules, 2 saves (`MaxHands`), 7 scenarios | type invariant, `EnforcedWasConfigured`, `SerialReportsHold`, `ReportsReachProxy`, `WatchedChangesCompile`, refinement of `ConfigStore` |
| `pipeline_stale` | 2 commands on two files, no session | the fourth disagreement of section 9 |
| `pipeline_once` | 2 runs, `allow --once` | the fifth |

Two processes are enough for one of them to rename, remove or write into the
other's temporary file, and for a stale read to be renamed last; two commands on
one file meet at its lock, on two files in `policy.json`. Two saves are an edit
and another one during the reload it caused. Two runs are a session that ends
while the next one, which has already compiled, waits to attach.

`SerialReportsHold` and the two liveness properties are for behaviours in which
compiles do not overlap, `ReportsReachProxy` also for those in which `policy.json` does
not change just between read and stat. Without these exclusions they are false:
`pipeline_stale` shows the former, and the latter is a hazard in the list.
`EnforcedWasConfigured` and the refinement have no such exclusion.

Fairness. Processes are scheduled and compiles end (`CompileStep`), a debounce timer
fires (`Reload`), the poll goes on. None on people, agents, or commands
before they compile.

## 6. Commands, config and the matchers

The config is a set of files, and `files` maps the path of each to its text.
A text (`ConfigFile`) is its lists, each with the style it is written in: absent, flow
(`[a, b]`), block (an item per line, deeper than the key) or flush (an item per line, at the
column of the key); and the mappings that are written on one line (`oneLine`), such as
`egress: {allow: [{host: a.com}], generators: [...]}`. That is as much of the layout as the editors
can tell apart: every editor splices or drops whole lines, parses the result, and compares
some of it with what was meant. A line that is dropped takes all that is on it (`LineOf`, `Dropped`),
an entry goes below a block list but before the first item of a flush one, which
`endOfRegion` takes for the next key (`WithItem`), and lines put into a flow list or a
mapping on one line are no YAML (`Unparsable`). The gates (`Gated` and the `validate...` operators) are in
the model with the splices they let pass and those they refuse; each compares the lists the code
compares and no more. Section 10 lists the layout that is left out. Rules,
services, mounts, credentials are records; a host is the sequence of its
labels, a path the sequence of its segments, so that prefixes and wildcards mean
what they mean in the code.

| Module | Code | What it is |
|---|---|---|
| `ConfigFile` | `config.go`, `validate.go`, `edit.go`, `remove.go` | parse, validate, append, bind, remove |
| `ConfigLoad` | `load.go`, `merge.go` | includes with cycles, depth and containment; merged layers; the walk that lists files |
| `SecretRefs` | `secretresolver.go`, `template.go`, `validate.go` | references, templates, forms of a credential |
| `PolicyCompile` | `policy/compile` | layers, generated rules, annotation, `policy.json` |
| `PolicyMatch` | `internal/policy` | the Go matcher, by what it finds: the best of the rules that match |
| `EnforcerPolicy` | `enforcer/policy.py` | the Python matcher, by the scans it runs |
| `GlobMatch` | `glob.go`, `policy.py` | the glob loop, one action per branch |
| `CommandLine` | `allow.go`, `deny.go`, `domain.go`, `credential*.go` | flags and answers to a rule, a credential or nothing |
| `Commands` | `cli/mutate.go` and the commands | one action per command; `Check` is the look that some take before the lock |
| `Lists` | (helpers) | options, and sequences the modules share |

A command is one step here, lock to recompile, since `PolicyPipeline` takes that
apart. `allow`, `domain add` and `domain remove` share `DomainAdd` and
`DomainRemove` with `deny`. What is two steps is what the code does before it has the
lock: `credential remove` asks whether a rule injects the credential, a binding
rule whether it is defined, `include` whether the entry resolves. `pending` is a command
that has looked; anything may run before it edits.

The two matchers are written apart on purpose. Go's is declarative (`Best`,
`LexMore`, recursion backwards), Python's follows its loops (running best,
reachable positions), so that their agreement says something; `EnforcerPolicy` takes from
`PolicyMatch` only what the two languages share word for word. Go's glob loop, which
Python copies, is a machine of its own (`GlobMatch`), shown to find the
recursive meaning of a pattern (`GlobCorrect`).

Recursion is written as recursive functions, on positions of a pattern, depths of an
include graph or prefixes of a list, so that proofs can speak of it. `TypeOK` is
what carries the rest: a text is typed the way the parser leaves it, and `policy.json`
the way the matchers need it (`PolicyOK`): every rule has a host, a mode and a source, no list
is empty, and a tunnel has no lists.

### Run

`commands` has four scenarios, each with files, eleven or twelve command lines
and three commands or looks in any order (`MaxSteps`); requests to two hosts, with
paths, methods and spellings; include depth 2.

* *Match*: rules of every rank, scope and mode on the same hosts in three layers.
* *Auth*: credentials in two layers, rules that inject them in three, a fragment to import.
* *Files*: lists in flow style, fragments that include one another, a link to the project's own
  file (a cycle), a fragment outside, a generator, a deny with `paths: []`.
* *Layout*: a project file with its egress and its mounts on one line each, a global file on one line
  as a whole, an overlay with flush lists, a fragment to import.

Three commands are the fewest for a look, a command in between, and the edit;
and for adding a rule, denying below it and removing one of its paths. A deeper include
graph than two adds no case: the check is on the depth, the walk is recursive.
`GlobMatch` runs beside it on all patterns and segments of up to three characters.

| Property | Says |
|---|---|
| `TypeOK` | types, and of `policy.json` that no rule has an empty list, which would be read as none |
| `ExplainIsEnforced` | Go's decision and host disposition are Python's, for every request; a host that is tunnelled at CONNECT is one whose every request is allowed |
| `OrderBlind` | reversing all rules changes no verdict |
| `TwoViewsAgree` | the compiler, which reads layers apart, and `run`, which reads them merged, accept the same files and see the same rules |
| `WatchCoversRead` | the watched files are those that are read, fragments of fragments and links included, unless a link gives a fragment a second name from which its includes lead elsewhere (section 9) |
| `GlobCorrect` | the loop answers what the pattern means |
| `EditsKeepFiles` | a command leaves a file that parsed parsable; its rules, and the other lists with them, have entries more at one end, one less or one changed; only another list that is in a mapping on one line may be lost, as a whole |
| `EditsGoOneWay` | a deny opens nothing, an intercepting allow lifts no deny, a removal allows nothing |
| `InjectKeptDefined` | binding and unbinding leaves no rule without its credential, but for the gaps of section 9 and for a file on one line that loses everything |

`EditsTouchNoOther` is what the comments of the editors claim, that a command leaves every list it is not
about as it was. `commands_one_line` finds it violated (section 9); `EditsKeepFiles` is what is
left of the claim.

## 7. Inside a session

Four modules that share nothing but the session run side by side in `MCSession`: a behaviour is
one of a part. Safety is `[]` over all of them; composing them would only
multiply the states.

**`CageRun`** is a wrapper: `pc` walks through `Steps`, in the order of `runRun`
and `cage.Run`. `CheckHost` to `Subscribe` are one action per step, with the
failure each step may have (`StepFails` where it is I/O, the guard where it is what the
config or the host says). `defers` is the stack of deferred calls, `Undo` takes the top
off; `subs` says who takes the wrapper's signals: nobody at first (a signal
kills), then the handler that swallows them, then the run loop as well. In the
loop, `Forward`, `Escalate` and `Reap` are the branches of its select. `leader` is the
cage's process. `Prepare` writes each fragment in two steps (truncated, then
whole), because `os.WriteFile` does and another launch uses the same files;
`SafehouseReads` happens some time after the start. The config is edited
meanwhile (`Edit`), and is read four times by a launch. Attach and Detach are one
step each: `ProxyLifecycle` has their inside.

**`CageProfile`** is what the fragments mean: lists of rules on ports, paths and
lookups, the last match decides. `Cage` is the profile in force: safehouse's base (external, from
what the code relies on), mounts, then the appended fragments in their order. `Blocked`
and `Allowed` are the probes of the verification battery.

**`AuditLog`** is the writer of the enforcer (`ensure_open`, `Rotate`,
`Reopen`, `WriteLine`, their failures, a restart of the proxy) and a reader of
another process: the follower (`checkRotation`, `drain` in reads of any size,
`openFromStart`) or a dump of both files. A line is two pieces, so a full disk may
leave half of one and a read may end inside one.

**`EnforcerFlow`** is a request with every hook it passes: `http_connect`,
`tls_clienthello`, `request`, the broker fetch in its middle, the upstream,
`responseheaders`, `response`. `Reload` may happen between any two, and while the
hook awaits the broker; `HookRaises` is an exception in any of them, in `request` before or after
the policy has decided. `by` is the
policy that decided, history for the property. `FlowAsDecided` compares with Go's matcher what
the Python one lets through. A host that is refused at CONNECT is refused for every method, though
the deny may be for some (`policy.py:459`): `HostDecided` asks that such a deny is there and that what
it is for is denied, and of a tunnel that all requests to the host are allowed.

**`Generators`** is what a compile does once its gate has missed, and what `policy
refresh` does before. `deps`, `RepositoryRules`, `homepageRule` and `PackageRules`
are the translation of a manifest and of what a registry says. `caches` maps the path
of each cache file to what is there and under its temporary name; `job` is a
process. `StatCached` and `RemoveCached` clear, `readCache`, `readFreshCache` and `fetch` find
the rules, `OpenCache` to `RemoveCacheTmp` store them. A process may write into a file
another has renamed (`fd`), as in `PolicyPipeline`; unlike there, the caches belong to
all projects. `answers` is what registries ever said, history for the property. `Breaks` is any
failure and any kill.

### Run

| `session` part | Bounds | Property |
|---|---|---|
| run | two wrappers, 14 hosts (each tool, certificate, skill and token state), four configs, two ports, one signal, failure or edit (`MaxTroubles`) | `CageAsPromised`, `RefcountSafe`, `SignalledRunEnds` |
| log | five entries, files of four pieces (two lines) | `LogReadInOrder` |
| flow | one request with one of two methods, four policies, one of them with a deny of a tunnelled host for one method, two reloads or failures, two hosts | `FlowAsDecided` |
| gen | two processes, two jobs, six manifests in five jobs each of which is a compile or a refresh, an old entry in the cache, one tick (`MaxTime`), three answers (`MaxAsked`) | `RulesAsAnswered` |

Two wrappers are one that writes the fragments while the other's safehouse is to
read them, and a proxy that is, or is not, given up by the first exit. One trouble is at
every place; two at once add nothing to a wrapper, whose undoing does not
depend on what stopped it, as the proof shows for any number. Five entries are
two rotations, one of which the follower misses. One flow suffices: flows share
the policy only, which they read, and the theorem is for any number. Two jobs are a
compile and a refresh that overlap or follow one another, on the manifest they share and on
the package two manifests share; the old entry is one that the tick makes stale and
a refresh has to remove. In this instance entries do get torn, handles
do end up in the published file, and an overlapped refresh is served old rules.

`RefcountSafe` is the wrapper's half of the lifecycle's `RefcountExact`: there,
wrappers attach and detach; here, it is shown that `run` does both, whatever happens.
`CageAsPromised` is about cages that found all fragments whole (section 9).
`RulesAsAnswered` asks of the rules of a finished job that one answer of the right
registry explains those of each package; for a refresh nobody overlapped, an
answer given since it began.

Fairness (`RunFairness`): the wrapper's loop and its undoing go on, the timer
expires, a killed process dies. Nothing makes an agent leave, safehouse read, or
a wrapper start. `SignalledRunEnds` therefore rests on the kill timer.

## 8. What is proved

For every set of PIDs, ports, credentials, connections, commands, runs and rules,
wrappers, hosts, flows and policies, all bounds and all scenarios, from
`LifecycleAssumption`, `BrokerAssumption` and `PipelineAssumption` (types of the
constants, and that commands are not runs); `EnforcerFlow` has `RuleSetsAssumption`, by which its
policies are made of rules that `TypeOK` of `Commands` says a compile writes, and
`GeneratorsAssumption` only says that package names and the manifests of a job are lists.
`CageRun` has four, three of which are types: `PathsAssumption` (paths are lists of names),
`PortsAssumption` (a proxy gets a valid port) and `WorldsAssumption` with `WorldOK` (the home
is the home or unknown; the marketplaces are finitely many). The rest say what makes the
battery's questions fair ones, since a mount opens what it mounts: `ConfigOK` and `WorldOK` let
no mount and no marketplace contain the two places that the battery plants outside of them,
`ConfigOK` has the project mounted, as the config that `init` writes does (`init.go:484`), and no
probed file be a config file. `MCSession` evaluates them for its hosts and configs.
`Commands` and the matchers rest on `CodeAssumption` (words have distinct codes, which is how they are
ordered), `RequestsAssumption` (a request is a host, a path and a method),
`LoadAssumption` and `CompileAssumption` (links lead to paths there are; what a
generator finds are rules without a mode or a credential) and `CommandsAssumption` (the files a scenario begins
with are typed, and what is typed on a command line has the type of its flags).
Nothing is assumed of `policy.json`, of what an editor leaves, or of how many rules,
layers, includes or segments there are.

| Theorem | Says |
|---|---|
| `TypeCorrect` | `Spec => []TypeOK` of the lifecycle |
| `RefcountCorrect` | recorded, live agents are exactly the attached wrappers |
| `OverlayCorrect` | the overlay is not purged under a session |
| `SignalsCorrect` | without PID reuse, SIGTERM only reaches this project's daemons |
| `WarningsCorrect` | a recorded agent whose frozen port is not the recorded one was warned |
| `DaemonsRecorded` | every daemon nobody asked to stop is in `proxy.lock` or in the hands of the Attach that starts it |
| `LastOutCorrect` | with the flock free and nobody attached no proxy runs |
| `ServiceCorrect` | an attached wrapper's proxy listens on the port it was told |
| `LifecycleImplementsSharedProxy` | in an orderly environment every step is a step of `SharedProxy` or does not show |
| `BrokerTypeCorrect` | `Spec => []TypeOK` of the broker |
| `HotCorrect` | a minted credential's token never expires while the broker serves |
| `NoReaderCorrect` | no handler reads the store when it is revoked and wiped |
| `RevokedCorrect` | an orderly exit has revoked the newest GitHub token of each credential |
| `RefreshTokenCorrect` | the keychain keeps up with the provider |
| `BrokerImplementsTokenService` | every step of broker, refreshers and enforcer is a step of `TokenService` or does not show |
| `PipelineTypeCorrect` | `Spec => []TypeOK` of the pipeline |
| `EnforcedCorrect` | the proxy enforces whole policies made of contents the files had |
| `EditsAreAtomic` | the pipeline implements `ConfigStore` |
| `SerialReportsCorrect` | without overlapping compiles, what was reported is in `policy.json` |
| `CageRefcountCorrect` | `RunSpec => []RefcountSafe`: a wrapper is a user of the proxy while its cage runs, and none once it ended |
| `CageCorrect` | `RunSpec => []CageAsPromised`: what a running cage can reach, read and write is what its configs and its proxy say |
| `FlowCorrect` | `FlowSpec => []FlowAsDecided`: what is sent was decided by one policy, and Go's matcher decides the same |
| `GlobLoopCorrect` | the loop of two pointers finds what the pattern means, for any pattern and segment |
| `CommandsTypeCorrect` | `Spec => []TypeOK`: whatever the commands, files stay typed and `policy.json` is one the matchers may count on |
| `ExplainCorrect` | on it Go and Python reach the same verdict by the same rule, for any request; what is tunnelled is allowed |
| `OrderCorrect` | and the order of the rules never changes a verdict |
| `ViewsCorrect` | `Spec => []TwoViewsAgree`: the compiler and `run` accept the same files and have the same rules |
| `WatchCorrect` | `Spec => []WatchCoversRead`: a session watches exactly the files its configuration is read from |
| `EditsCorrect` | `Spec => EditsKeepFiles`, an action property: no command makes a file unparsable, or does more to a list than `EditsKeepFiles` grants |
| `InjectCorrect` | `Spec => InjectKeptDefined`, an action property: no command that binds or unbinds leaves a rule without its credential, but for the exceptions that the property names |
| `LogCorrect` | `AuditSpec => []LogReadInOrder`: the tail and a dump tell the log as it was written |
| `RulesCorrect` | `GenSpec(earlier) => []RulesAsAnswered`, for any earlier answers: generated rules are what the registries said, and of late after a refresh |

*Lifecycle.* `RefcountExact` is not inductive: Attach carries a pruned copy of
the agents and a PID of its own through steps in which processes are born and
die. `LifecycleInv` adds that the holder of the flock is the wrapper its section
says (`HolderInv`), that start times are births and never in the future
(`AgesInv`), and what the lock and the copy hold at each step (`RefsInv`).
`SignalsCorrect` needs `SignalInv` besides: every PID that the lock or the
section names as a daemon is a daemon or free and never to be handed
out again, which is where "no recycling" enters.

*Service.* The theorems about the users of the proxy add to `LifecycleInv`, one part each:

* `ShapeInv`: `proxy.lock` is empty or has a proxy, its port and an agent, and so has
  what an Attach is about to write. Without it, a lock could have a proxy with no agent left to
  take it down.
* `WarnInv`: `StrandedAreWarned`, and the same of the copy of the agents an Attach carries,
  with the port it has chosen. The warning is given when the port is chosen, the
  entry is written steps later; in between, the PID may have changed hands
  (`PortsKept`).
* `KnownInv`: where each proxy is at each step of a section: recorded, just started, or
  asked to stop; and that nothing else answers on the port of the one being
  started. `BrokerInv` is the same for brokers, and needs that no proxy
  crashes, which is the first disagreement of section 9.
* `AgentsInv`: without SIGKILL an entry is an attached wrapper or the one that is
  detaching. With `ShapeInv` and `KnownInv`, a running proxy has an attached wrapper.
* `PortInv`: every attached wrapper was told the recorded port. It is kept by a
  restart because a restart needs a proxy that is gone, and an agent still recorded would keep it up.

`OrderlyInv` is all of these but the brokers', and what each step of wrappers, operators and
daemons does to the endpoint and its users is shown from it (`StepSimulates`).

*Broker.* `KeepsHot` needs `HotInv`. `Spare(f)` is what is left of the
early margin after `f` failures: `(MaxFails - f) * (Latency + Backoff) + Latency`. In each
state of a refresher the stored token outlives the present wait by more than
what is spare; a failed attempt uses up exactly one `Latency + Backoff` of both
sides (`SpareFacts`), and a success starts over with a full margin
(`MarginsSuffice`). `ReaderInv`, `RevokeInv` and `KeepInv` add the phase in which
queue, handlers and refreshers became empty.
The refinement of `TokenService` needs `LinkInv`: until `Get` a handler holds no token, and the
connection of a fetch that goes on asks for what the fetch waits for. A question is resolved
at `Get`, which reads the store, and sealed at `Answer`, which copies the slice: between the two
the token may be replaced, which is the one moment it may be torn. That the tokens are
wiped in an orderly exit when no question is open is `ReaderInv`.

*Pipeline.* A content reaches the enforcer through a compile's inputs, the temporary
file and `policy.json`, and may change hands on the way; `ConfiguredInv` says of
every one of these places that what it holds was once in the file.
`EditInv` is mutual exclusion per file, and that the text a lock holder is about to write is
still exactly one edit away from the file; the step simulation (`StepIsEdit`) follows.
`SerialInv` says that what the one active compile has read is
current for every file whose change is reported, or will be when it returns
(`Accurate`): a file that changes under a compile is not a reported one, since the
command that changed it would have to overlap.

*Run.* `RefcountSafe` needs `RunInv`: at each step of a wrapper, what is deferred is
one of six stacks (`StackAt`), the attachment is among it exactly when the wrapper is a
user, and the handler that swallows signals is subscribed as long as anything
is deferred. A signal that kills therefore finds nothing to undo (`SignalKeeps`),
which is why `run.go` registers that handler first and releases it last.

*Cage.* Of the rules that match, the last decides. `CageAsPromised` asks what some thirty
fragments and mounts, joined in the order of an invocation, say of a probe, with lists of any length
among them. The proof splits the profile as the invocation joins it: rules that are
joined say what the last part says that says anything, and each fragment is
shown once to be silent, to permit or to refuse on every target of each
operation. `CageDecides` puts them together, one formula per operation, over any hosts,
lists and ports; the probes of the battery are then instances. `CageInv` adds what the steps have to
keep for it: each fragment file is whole and of this host and of a config there has been, or Nil; the
inputs and the invocation of a wrapper are known at each step of its launch; and every
wrapper that wrote the proxy's fragment was attached when it did, so that
it wrote the port that all of the attached share. That is what makes a fragment
written by another launch as good as one's own.

*Flow.* `FlowInv` says what is known of a flow at each stage: the rule and the
credential of one waiting for the broker are those of the policy that decided (`BrokerOK`),
the header of one going on is the one that policy asks for (`ForwardOK`), an entry has the decision
and the status the client saw (`DoneOK`). That the Python matcher decides as `PolicyMatch` does is the lemma `MatchersAgree`, from
the same lemmas on which `ExplainCorrect` rests, and `HostKnown` says what CONNECT may conclude
from the rules of a host. Both hold for every policy `RuleSetsAssumption` admits; that a compile writes
no other is `CommandsTypeCorrect`.

*Log.* That the readers tell the log as it was written is `LogInv`, in four parts. `WriterInv`: the
newest file is the only one with a name to write to, and the file `.1` is the one before it.
`OrderInv`: lines end in the order of their entries, within a file and from file to file, so
that a torn line, whose entry nobody can read, never puts a later one out of order. To the readers
every step of the writer is then the same: the newest file grows at its end, or a
new one begins (`LogGrows`). `FollowInv`: the follower holds the file it opened last, has
opened no file twice, `leftover` is what it has read and is no whole line
yet, and it leaves a file only when nobody writes it any more and it is at its end; what it printed is
the entries of what it read, file by file. The core of it is `ReadOn`, a text read in
two parts: what the second read prints with the rest of the first is what one read would
have printed. `DumpInv`: what a dump printed comes from files
older than those it has still to read, and these are neighbours unless the log was rotated while it
opened them; nothing between two entries it printed is missing then.

*Generators.* `GenInv` says what every place holds that a rule may come from. `Genuine`: an
entry is an answer of the registry its path names, an output the rules of such answers, in either
name of a file (`CachesOK`); no bytes but whole ones or torn ones are ever written, wherever a file
that was opened under the temporary name has gone by then. `WalkOK` and
`KeepOK`: the rules a job has so far are of the packages it is done with. What a refresh may use
is of its own time, as long as no other job overlaps (`AloneOK`): each path of its manifests is
still to be cleared (`Left`), or what is there was answered since. The clearing of a manifest
starts from its output and goes on, only once the manifest is parsed, with its entries, so
that what is left includes entries that are in no queue yet (`ClearsNext`). A job that
overlaps a refresh, even one that ends before it, may store what it read before the clearing,
so `alone` is lost for good. Otherwise the steps of one job only move the files
another has open (`StepKeeps`).

*Matchers.* Three recursive definitions have to be met: the meaning of a glob, Go's
recursion backwards over a path, and the comparison of two rules. A recursive function is a
choice of one that satisfies its equation, so each proof first shows that there is
one (a table filled from its last row up, or a value that steps are applied to:
`Iterate`). What it computes then follows by induction on numbers, told
through the least counterexample (`Least`, `UpTo`), since the library's induction
theorems cannot be instantiated. For the glob loop, `IndexInv` keeps the pointers in range, `PlaceInv` says
what is left to do from where the loop is, and that going back to an earlier star, for which it
keeps no place, would find nothing more; `AnswerInv` is the result. The two matchers meet in
"the best of the rules that match": Go finds it by definition, and Python's scan,
rule by rule, has it for the rules seen so far. Two best rules may differ only
in what does not enter a verdict, which is why the order does not matter.

*Commands.* `TypeOK` is not inductive alone: the edit a command makes after its look rests on
what the look found. `CommandsInv` adds that the commands are typed
with the files, that at most one is between look and edit, and that it means a rule if it adds
one. The proof goes the way the code goes: a parsed text is typed, layers merge into
typed layers, the include graph is walked to its depth whatever it looks like, the compile turns every rule into
one `PolicyOK` accepts or fails (`CompileType`), each editor leaves a typed text or
its gate refuses, each command line means a typed rule or nothing; then one step
per command.

*Watching.* Loading and watching walk the same include graph, but they stop at different
places: loading walks a file as often as it is included, watching passes over a
file it has seen, whatever the stack and the depth it was seen at. `WatchCorrect` shows that
nothing is missed. Both walks are tables with a row per depth, built from the deepest row up
(`LevelsExist`). If a file loads, so does everything it includes, one level deeper
(`ResolvedRow`, `IncludesNamed`); so the files read are those reachable, none of them is on its own
stack, and the walk that collects meets no error (`AllFine`). What is seen is closed
under inclusion but for the files on the stack, which are still being walked
(`SeenAround`, `EnterAndLeave`); at the top the stack is empty. `NamesAgree` is needed
where a file is passed over because it was seen by another name.

*Two views.* The compiler marks every rule with its layer, joins the lists and drops doubles
but for that mark; `run` merges the layers, dropping doubles as it goes, and knows no marks.
`ViewsCorrect` compares the two through what a rule looks like without its mark and its
empty lists (`View`): a list either way shows the rules of both layers and no other
(`MergedLists`, `OneList`). Of doubles the first one stays (`DedupeKeeps`), and the
layers come before the generators: a rule that a generator also finds keeps its
layer's mark, so leaving out what is marked as generated leaves out no rule of a layer. It rests
on generators that bind no credential (`CompileAssumption`): else the compiler could refuse a
name that `run` never sees.

*Edits.* A command may write what others have left in a file, in any of the layouts of section 6.
`EditsCorrect` asks what its editor can make of that. A splice puts its entry at one end
(`SpliceGrown` and the like, `Grown`), a cut takes one away (`CutKept`), a replacement leaves the
others as they were (`ReplaceKept`). But a splice into a flow list, or into a mapping on one line, comes
out unparsable, and a cut there takes the whole line (`DroppedKept`). The gate then
refuses unless the lists it compares are as expected: for rules that means that nothing else was in
the list, and for the lists it does not compare that they are on that line and gone
(`DroppedLists`). `GatedGrows` and `GatedKeeps` are the gate, and
`KeptText` is what an edit amounts to. Two editors need more. `mount remove` takes a directory out
of `rw` and then out of `ro`, and each may lose one entry (`TwoCuts`). `credential remove` relies on
names being unique, which no check of the program says but the YAML library enforces (`NamedOnce`).
An import is an edit per entry of the fragment, on a text that grows (`EntryGrows`), by induction
over the entries.

*Credentials.* A policy stops compiling when a rule, of any layer or fragment, injects a name that no
layer defines; the commands prevent it by a look at the merged config. `InjectCorrect` follows an edit
to the compiler and back to that look. `Turned` says of an edit which names its rules inject anew and which
credentials it takes (`SetRuleAuthTurning`, `RemoveCredentialTurning`; the other editors do neither),
`FilesTurn` the same of the files, and the induction over the walk through the includes carries it to
every layer (`MadeWidened`, `LayersWidened`): the two walks, before and after, read the same fragments,
because these edits leave the includes alone. The exception is a file that is on one line as a whole, which an
edit either leaves as it was, for the gate, or empties (`Emptied`); the property excepts it too. `CompileOffers` is the compiler's side: it refuses for
a credential exactly when the names injected are not among those defined, doubles and layer marks
aside. So a name without a credential is one the command brought or took (`DanglingFrom`), and that
is what its look has asked for (`BoundIsKnown`, `TakenIsUnbound`), unless the name is in the overlay,
or the overlay is why the look had no objection (`LoadsAlike`, from the two views above).

Model-checked only:

* liveness and anything with fairness or `ENABLED`, the fairness halves of the refinements of
  `SharedProxy` and `TokenService` included, which are beyond these provers;
* `EditsGoOneWay`: what the policies compiled from the files before and after an edit say of a
  request.

Definitions named `Slip_...` are not part of the model. Each is a mistake that a
change to the code could make in the definition after it (a prune that trusts
the bare PID, a wait without a time-out, a shutdown that does not join), and
`PROJECT.json` pairs each with the property that notices it.

## 9. Where code and comments disagree

* **A broker outlives its proxy** (`broker_leak`, `BrokerSharesProxyLifetime`).
  mitmdump dies, the next `run` starts a new proxy and a new broker and
  overwrites the recorded broker PID; the old broker is never signalled, and
  keeps refreshing and holding tokens. `lifecycle.go:63` says it "shares the proxy's
  lifetime exactly".
* **A broker removes its successor's socket** (`broker_socket`,
  `RecordedBrokerReachable`). The exit of a terminated broker removes the socket
  by path, possibly seconds later, when a new broker has bound it. The
  new one runs, is recorded, and cannot be reached.
* **A torn token** (`broker_torn`, `NeverTorn`). The handler copies the token after
  the Store's lock is released; a refresh in between wipes the buffer.
  `protocol.go` promises "never a torn mixture".
* **A reported rule is overwritten** (`pipeline_stale`, `ReportsHold`). A compile that
  read its files before `allow` changed one, and renames after `allow` has
  reported, puts the older policy back (`compile.go:681`). It stays until something
  compiles again. `docs/design.md:395` rests on the report: "that is why a command-driven
  rule change reaches a live cage".
* **A `--once` rule survives its session** (`pipeline_once`, `OnceRulesExpire`). `run`
  compiles before it attaches (`run.go:162`). If the last session ends in
  between, it purges the overlay, and the new session starts on a policy that
  still has its rules. `docs/design.md:391` says such a rule "does not silently survive".
* **A removal takes other lists with it** (`commands_one_line`, `EditsTouchNoOther`). `RemoveRule`
  drops the lines of the rule (`remove.go:50`). Of `egress: {allow: [{host: a.com}], generators:
  [{type: package_json}]}` on one line that is everything; the gate compares `allow`,
  `deny_always` and `host_services` (`remove.go:104`), so the generators are gone and the
  command reports success. If the whole file is on one line, its includes, mounts, credentials and
  environment go too. `RemoveHostService` (`remove.go:150`) and `RemoveCredential`
  (`credentials_edit.go:211`) drop lines in the same way. `edit.go:15` says of these gates that "a
  splice bug can therefore never reach disk as a silently-wrong policy", and `remove.go:10` that
  "removal only ever deletes the element's own lines". No allowed or denied rule is lost or left over
  (`EditsKeepFiles`), since every gate compares them.

The following were met while modelling and have no run of their own. Where they are
in the model, the properties hold with them, by an exception they name or by a premise.

*Credentials.*
* `credential.go:227` blocks the removal of a credential "while a rule still
  injects it". The look does not see the session overlay or, for a global
  credential, other projects; and it is made before the lock, so that `domain add
  --inject` may come in between. The rule is then without its credential, and
  every later compile fails (closed). There is a third gap: where the overlay defines a
  credential that another layer's rule injects, what the look sees does not load, and a
  config that does not load is no objection. `InjectKeptDefined` excepts the overlay's
  two gaps and the race; other projects are not in the model.
  `include` and `import` do not check what a fragment's rules inject.
* The advice of `credential.go:252`, `allow` without `--inject`, does not unbind: a
  rule with the same host, paths and methods is there already and stays as it is.
* A credential that a rule injects for the first time after the proxy was started
  is unknown to the broker: 472 until the proxy is restarted.

*Rules and files.*
* `glob.go:190` calls the order of rules total. The canonical string leaves out
  `inject` and `reason`: of two rules that differ only there the first in the list
  wins, so the matched rule depends on the order. The verdict does not (`OrderBlind`).
* `paths: []` in a file matches no path; `omitempty` leaves it out of `policy.json`,
  where no list means every path.
* `domain add --mode passthrough` for a host that has an intercept rule changes
  nothing and says so nowhere. A host with both modes is intercepted, and the
  decision still treats it as tunnelled. A new passthrough allow, or the removal
  of a more specific intercept rule, can lift a path deny, which is why
  `EditsGoOneWay` speaks of intercepting allows and of requests no rule allowed.
* A list whose items stand at the column of its key is taken for the end of its own region
  (`edit.go:136`), because the list is a node of that column: rules, services and directories are put
  before the first item, where `edit.go:122` means "the end of its region". The gates of includes and
  directories compare in order and refuse such files; those of rules and services do not.
* CONNECT ignores the methods of a deny (`policy.py:459`): a deny of a host for POST alone refuses
  the tunnel to a passthrough host, while the decision, in both languages, allows a GET.
* `ValidateInclude` (`load.go:267`) promises that "the user is never left with a
  config that only fails to compile later". It checks the entry, not what it leads
  to: a cycle or a chain that is too deep is written, and the compile after it fails.
* `load.go:115` says that the watched files are "every file that contributes". A relative
  include is resolved from the name its file is read by (`load.go:191`), but
  `collectFiles` skips a file it has seen under another name. A fragment with a link to
  it in another directory may include other files by that name: they are read, not
  watched, and not denied to the cage. `WatchCoversRead` excepts such links (`NamesAgree`).
* `compile.go:292` says that a refresh "re-hits the registry". A compile of any project
  that runs meanwhile may store, after the refresh cleared them, an entry or an
  output it made before, and the refresh is served from it; the output cache has no
  expiry, so that the old rules stay until the manifest changes or the next refresh.
  `RulesAsAnswered` asks for new answers of refreshes no other job overlaps.
* `cacheEntry` (`registry.go:112`) has "the time it was fetched"; it is the time of the
  writing, so an answer that was held up in between counts as newer than it is.
* Two compiles that store the same entry use one temporary name: one of them
  fails, and with it `allow`, `run` or the reload it belongs to, or a torn file is
  published, which every reader takes for a miss.

*Sessions.*
* `cage/run.go:21` returns "only once the group has exited", `cli/run.go:325`
  "until the whole group is reaped". `Wait` waits for the leader: a member of the
  group may outlive it, and the attachment.
* `Prepare` truncates and then writes fragments every launch of the project shares: a
  second launch may leave the first cage without a fragment. That is the premise of
  `CageAsPromised`. Also, a launch reads the config four times and may mix versions, and
  `broker.sb` names the socket without resolving links.
* `logs.go:27` speaks of every decision. A request whose upstream fails, and a
  CONNECT that is refused because a hook raised, leave no entry; an exception
  after the verdict logs "allow" with status 471.
* A signal between the start of the cage and the run loop's subscription is
  swallowed; SIGHUP is not taken at all and kills the wrapper.
* A dump misses a file that is rotated while it opens both (`split`), a
  short write glues two lines into a malformed one, and a tunnel that was opened
  outlives a later deny.

## 10. Not modelled

* In `Generators`: the JSON of a registry, the spelling of URLs and names (`FormOf` says
  what is made of a name), a clock that is set back. `PolicyCompile` takes what a
  generator finds as a constant (`Generated`), `PolicyPipeline` has its failure (`BuildFails`).
* **Status, doctor's diagnosis, inspect, summaries**: read-only reports.
* **setup, authorize, init's questions, claude import, port scan**: one-shot,
  interactive, and each ends in an edit or an installation step that is modelled or
  external.
* **Enforcer extraction**: files written once per run, by rename, from the binary.
* In the pipeline, the include graph: it is fixed there, so that the watcher's
  re-deriving of its watch set changes nothing. `WatchCoversRead` has the watch set itself.
* In the minters: encoding, JWT signing and HTTP status mapping (data); the
  retries of revocation, which change nothing.
* A client that connects to the broker and stays silent, since the only client
  is the enforcer (hazard list).
* Zombie processes, which only delay what the port and socket probes detect anyway.
* The bytes of a config file beyond the layout of section 6: depths of indentation, comments and
  quoting, scalars, flow lists and mappings that go over several lines, anchors, a null key in a
  file on one line. Credentials are a mapping and have no flush style. The environment
  and the working directory are in the model, but `EditsKeepFiles` speaks of lists only.
* Hosts that are not ASCII: of other scripts' digits Python's `isdigit` (`policy.py:281`) takes some that Go's
  loop (`glob.go:22`) does not, which matters for a port only.
* Text: response bodies, rendering, argv spelling, the syntax of the profile.
* PIDs in `CageRun`: a process group is one process, its leader.
