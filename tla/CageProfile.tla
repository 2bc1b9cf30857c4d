---------------------------- MODULE CageProfile ----------------------------
(***************************************************************************)
(* The sandbox a session runs in (internal/cage, internal/profile): the    *)
(* Seatbelt fragments the launch writes, and the safehouse invocation that *)
(* mounts directories and appends them.  A rule is said to match targets   *)
(* of some operations; of the rules that match, the last one decides.      *)
(*                                                                         *)
(* A target is a port of a host or a path.  A name and the names it is the *)
(* beginning of (login.keychain-db, its -wal) are a path and the paths     *)
(* below it.                                                               *)
(***************************************************************************)
EXTENDS Lists

CONSTANTS
    Home,           \* the home directory as it is named
    RealHome,       \* the directory the kernel finds there
    Project,        \* the project, canonical
    Root            \* its state directory

Network == "network-outbound"
Read == "file-read"
Write == "file-write"
Stat == "file-read-metadata"
Lookup == "mach-lookup"

File(path) == [host |-> "", port |-> 0, path |-> path]
Port(host, port) == [host |-> host, port |-> port, path |-> <<>>]
Below(dir, path) == Len(dir) <= Len(path) /\ SubSeq(path, 1, Len(dir)) = dir

\* EvalSymlinks of a path that exists.
EvalSymlinks(path) ==
    IF Below(Home, path)
    THEN RealHome \o SubSeq(path, Len(Home) + 1, Len(path)) ELSE path

ClaudeDir == Append(Home, ".claude")
caCertPath == Home \o <<".mitmproxy", "mitmproxy-ca-cert.pem">>
BrokerSock == Append(Root, "broker.sock")

(***************************************************************************)
(* Rules                                                                   *)
(***************************************************************************)

Rule(allow, ops, form, on) == [allow |-> allow, ops |-> ops, form |-> form, on |-> on]
AllowAny(op) == Rule(TRUE, {op}, "any", File(<<>>))
DenyAny(op) == Rule(FALSE, {op}, "any", File(<<>>))
AllowLiteral(ops, path) == Rule(TRUE, ops, "literal", File(path))
DenyLiteral(ops, path) == Rule(FALSE, ops, "literal", File(path))
AllowBelow(ops, path) == Rule(TRUE, ops, "below", File(path))

Matches(rule, op, target) ==
    /\ op \in rule.ops
    /\ CASE rule.form = "any" -> TRUE
         [] rule.form = "literal" -> rule.on = target
         [] rule.form = "below" ->
                target.path # <<>> /\ Below(rule.on.path, target.path)

\* The base denies what no rule is about.
Permits(rules, op, target) ==
    LET at == {i \in DOMAIN rules : Matches(rules[i], op, target)}
    IN at # {} /\ rules[CHOOSE i \in at : \A j \in at : j <= i].allow

(***************************************************************************)
(* Fragments: a sequence of rules, or Nil for an input that is refused     *)
(***************************************************************************)

ValidPort(port) == port \in 1..65535
allowRule(port) == Rule(TRUE, {Network}, "literal", Port("localhost", port))

dedupeByPort(services) ==
    DedupeBy(services, [i \in DOMAIN services |-> services[i].port])

RenderNetworkSB(services) ==
    LET ports == dedupeByPort(services)
    IN <<DenyAny(Network)>> \o [i \in DOMAIN ports |-> allowRule(ports[i].port)]

RenderProxyFragment(port) ==
    IF ValidPort(port) THEN Some(<<allowRule(port)>>) ELSE Nil

RenderCAReadFragment(path) ==
    IF path = <<>> THEN Nil
    ELSE Some(<<AllowLiteral({Stat}, AllButLast(path)),
                AllowLiteral({Read, Stat}, path)>>)

\* No path without a home.
validateHome(home) == home # <<>>

RenderKeychainFragment(home) ==
    LET dir == home \o <<"Library", "Keychains">>
    IN IF ~validateHome(home) THEN Nil
       ELSE Some(<<AllowAny(Lookup),
                   AllowBelow({Read, Stat, Write}, Append(dir, "login.keychain-db")),
                   AllowBelow({Read, Stat, Write}, Append(dir, ".fl"))>>)

RenderClaudeStateFragment(home) ==
    IF ~validateHome(home) THEN Nil
    ELSE Some(<<AllowLiteral({Stat}, home),
                AllowBelow({Read, Stat, Write}, Append(home, ".claude.json"))>>)

RenderConfigReadOnlyFragment(paths) ==
    LET once == DedupeBy(paths, paths)
    IN Some([i \in DOMAIN once |-> DenyLiteral({Write}, once[i])])

RenderBrokerDenyFragment(sock) ==
    IF sock = <<>> THEN Nil
    ELSE Some(<<DenyLiteral({Network}, sock),
                DenyLiteral({Read, Stat, Write}, sock)>>)

(***************************************************************************)
(* The inputs of a launch                                                  *)
(***************************************************************************)

\* Only local marketplaces whose directory exists; one that is already
\* mounted needs no grant.  A registry that cannot be read has none.
Detect(registry) ==
    {IF e.path = <<>> THEN e.installed ELSE e.path :
        e \in {e \in registry : /\ e.source \in {"directory", "file"}
                                /\ e.isDir}} \ {<<>>}

withinAny(path, roots) == \E root \in roots : Below(root, path)

\* Sorted, for one order of the arguments.
pluginMarketplaceDirs(registry) ==
    LET grant == {d \in {EvalSymlinks(p) : p \in Detect(registry)} :
                    ~withinAny(d, {Project, EvalSymlinks(ClaudeDir)})}
    IN CHOOSE s \in [1..Cardinality(grant) -> grant] : Elements(s) = grant

\* The CA may not exist yet: then its unresolved path must do.
Resolve(cfg, port, home) ==
    IF home = <<>> THEN Nil
    ELSE Some([cfg |-> cfg, port |-> port, home |-> home,
               binary |-> "", extra |-> <<>>, configFiles |-> <<>>])

\* The fragments Prepare writes, in its order; network.sb is not its own.
Prepared == <<"proxy", "ca", "keychain", "claude", "config-ro", "broker">>

Fragment(name, in, caExists) ==
    LET home == EvalSymlinks(in.home)
    IN CASE name = "proxy" -> RenderProxyFragment(in.port)
         [] name = "ca" -> RenderCAReadFragment(
                IF caExists THEN EvalSymlinks(caCertPath) ELSE caCertPath)
         [] name = "keychain" -> RenderKeychainFragment(home)
         [] name = "claude" -> RenderClaudeStateFragment(home)
         [] name = "config-ro" -> RenderConfigReadOnlyFragment(in.configFiles)
         [] name = "broker" -> RenderBrokerDenyFragment(BrokerSock)

(***************************************************************************)
(* The invocation                                                          *)
(***************************************************************************)

expandPath(p) ==
    CASE p.form = "home" -> Home \o p.path
      [] p.form = "abs" -> p.path
      [] p.form = "rel" -> Project \o p.path

expandList(paths) == [i \in DOMAIN paths |-> expandPath(paths[i])]

ProxyVars == {"HTTP_PROXY", "http_proxy", "HTTPS_PROXY", "https_proxy"}
NoProxyVars == {"NO_PROXY", "no_proxy"}
CAVars == {"NODE_EXTRA_CA_CERTS", "SSL_CERT_FILE", "REQUESTS_CA_BUNDLE",
           "GIT_SSL_CAINFO"}

\* What the launch computes overwrites what the config says.
buildEnv(in) ==
    [v \in ProxyVars \cup NoProxyVars \cup CAVars \cup DOMAIN in.cfg.env |->
        CASE v \in ProxyVars -> Port("127.0.0.1", in.port)
          [] v \in NoProxyVars -> Port("localhost", 0)
          [] v \in CAVars -> File(caCertPath)
          [] OTHER -> in.cfg.env[v]]

\* A bug that would matter: the proxy's port is allowed before all is denied.
Slip_AppendProfiles ==
    <<"proxy", "network", "ca", "keychain", "claude", "config-ro", "broker">>

AppendProfiles ==
    <<"network", "proxy", "ca", "keychain", "claude", "config-ro", "broker">>

Build(in) ==
    IF in.cfg.command = <<>> \/ ~ValidPort(in.port) THEN Nil
    ELSE Some([path |-> IF in.binary = "" THEN "safehouse" ELSE in.binary,
               rw |-> expandList(in.cfg.rw) \o <<Append(in.home, ".claude")>>,
               ro |-> expandList(in.cfg.ro) \o in.extra,
               profiles |-> AppendProfiles,
               env |-> buildEnv(in),
               command |-> in.cfg.command,
               briefed |-> in.cfg.command[1] = "claude"])

\* Safehouse: the network is open, what is mounted is reachable where the
\* kernel finds it, and the fragments come after.
Cage(inv, fragments) ==
    LET Mount(ops, dirs) ==
            [i \in DOMAIN dirs |-> AllowBelow(ops, EvalSymlinks(dirs[i]))]
    IN <<AllowAny(Network)>>
        \o Mount({Read, Stat}, inv.ro)
        \o Mount({Read, Stat, Write}, inv.rw)
        \o Concat([i \in DOMAIN inv.profiles |-> fragments[inv.profiles[i]]])

(***************************************************************************)
(* What the verification battery probes inside a cage (internal/verify):   *)
(* the operations that must be refused and those that must work.           *)
(***************************************************************************)

Probe(id, op, target) == [id |-> id, op |-> op, target |-> target]

KeychainDB == RealHome \o <<"Library", "Keychains", "login.keychain-db">>

\* "elsewhere" is a file no directory of the config has below it.
Blocked(ports, elsewhere) ==
    {Probe("fs-outside", Read, File(elsewhere)),
     Probe("fs-home-write", Write, File(Append(RealHome, "x"))),
     Probe("net-raw-tcp", Network, Port("ex.com", 443)),
     Probe("net-dns", Network, Port("ex.com", 53)),
     Probe("broker-socket", Network, File(BrokerSock))}
    \cup {Probe("net-localhost", Network, Port("localhost", p)) : p \in ports}

Allowed(ports) ==
    {Probe("env-ca", Read, File(EvalSymlinks(caCertPath))),
     Probe("kc-read", Lookup, File(<<>>)),
     Probe("kc-read", Read, File(KeychainDB)),
     Probe("kc-write", Write, File(Append(KeychainDB, "-wal"))),
     Probe("claude-json-rw", Write, File(RealHome \o <<".claude.json", ".probe">>)),
     Probe("doc-rm", Write, File(Append(Project, "x"))),
     Probe("doc-claude-rw", Write, File(RealHome \o <<".claude", "x">>))}
    \cup {Probe("svc-allowed", Network, Port("localhost", p)) : p \in ports}
=============================================================================
