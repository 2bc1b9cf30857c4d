----------------------------- MODULE MCCommands -----------------------------
(***************************************************************************)
(* Instances of Commands and of the glob loop for TLC.  They share nothing *)
(* but the run: a behaviour is one of either.                              *)
(***************************************************************************)
EXTENDS Commands, GlobMatch

MCHome == <<"home">>
MCProjectDir == <<"home", "p">>
MCOverlay == <<"state", "overlay">>
Frag == <<"home", "p", "frag">>
Sub == <<"home", "p", "sub">>
Link == <<"home", "p", "link">>
Outside == <<"etc", "x">>
MCLinks == Link :> <<"home", "p", ".agent-creance.yaml">>
MCDirs == {<<"home", ".config">>, MCProjectDir, <<"state">>, <<"etc">>}
\* With what an include of one of them may lead to.
MCPaths == {MCHome \o <<".config", "agent-creance.yaml">>,
            Append(MCProjectDir, ".agent-creance.yaml"), MCOverlay, Outside}
           \cup {Append(d, n) : d \in MCDirs, n \in {"frag", "sub", "link"}}

MCLabels == {"ex", "com", "api"}
MCMethods == {"GET", "POST"}
Tokens == <<"*", ",", "/", "1", "api", "com", "ex", "v", "|", "GET", "POST",
            "intercept", "passthrough">>
MCCode == [t \in Elements(Tokens) |-> CHOOSE i \in DOMAIN Tokens : Tokens[i] = t]

MCManifestOf == "package_json" :> "package.json"

Ex == <<"ex", "com">>
Api == <<"api", "ex", "com">>
AnyEx == <<"*", "ex", "com">>
V == <<"v">>
V1 == <<"v", "1">>
VStar == <<"v", "*">>
Star == <<"*">>
Deep == <<"*", "*">>

Rule(host) == [host |-> host, paths |-> Nil, methods |-> Nil, mode |-> "",
               reason |-> "", inject |-> "", in_cage |-> FALSE]
Scoped(host, paths) == [Rule(host) EXCEPT !.paths = Some(paths)]
Tunnel(host) == [Rule(host) EXCEPT !.mode = "passthrough"]
Injects(rule, name) == [rule EXCEPT !.inject = name]
Block(items) == Listed("block", items)
Flow(items) == Listed("flow", items)
Flush(items) == Listed("flush", items)

MCGenerated == "package.json" :> <<Scoped(Api, <<<<V>>>>)>>

Token == [source |-> <<"env", "TOKEN">>, github_app |-> <<>>, oauth2 |-> <<>>,
          template |-> <<"Bearer ", "{token}">>, username |-> "", header |-> ""]
Cred(name) == [name |-> name, cred |-> Token]

\* Command lines.
Opts == domainAddOpts
Everywhere == [Opts EXCEPT !.allPaths = TRUE]
On(target) == [Opts EXCEPT !.once = target = "once", !.global = target = "global"]
Allow(host, path, opts) ==
    [op |-> "allow", url |-> [host |-> host, path |-> path], opts |-> opts]
Deny(host, path) ==
    [op |-> "deny", url |-> [host |-> host, path |-> path], reason |-> "no"]
Add(host, opts) == [op |-> "domain add", host |-> host, opts |-> opts]
Remove(global, host, path) ==
    [op |-> "domain remove", global |-> global, host |-> host, path |-> path]
CredAdd(kind, global, name, opts) ==
    [op |-> "credential add", kind |-> kind, global |-> global, name |-> name,
     opts |-> opts]
Static(shapes) ==
    [shapes |-> shapes, template |-> <<"{token}", "{x}">>, source |-> NoRef,
     answer |-> <<"op", "item">>, username |-> "bot", header |-> ""]
Minted(mint) == [shapes |-> {}, username |-> "", mint |-> mint]
Drive == Minted([refresh_token |-> <<"keychain", "creance">>, client_id |-> "id",
                 token_endpoint |-> "", scopes |-> {}])
App == Minted([key |-> <<"env", "KEY">>, client_id |-> "id",
               repo |-> <<"o", "r">>, permissions |-> {"read"}])
CredRemove(global, name) ==
    [op |-> "credential remove", global |-> global, name |-> name]
Inc(form, path) == [op |-> "include", inc |-> [form |-> form, path |-> path]]

\* Rules of every rank and scope on the same hosts.
MatchScenario ==
    [files |-> MCProjectDir \o <<".agent-creance.yaml">> :>
        [EmptyText EXCEPT
            !.allow = Block(<<Scoped(Ex, <<<<V1>>, <<VStar, V>>>>), Rule(AnyEx)>>),
            !.deny = Block(<<Scoped(Api, <<<<Deep, V1>>>>)>>)],
     menu |-> {Allow(Api, <<VStar>>, Opts),
               Add(AnyEx, [Opts EXCEPT !.mode = "passthrough"]),
               Add(Api, [On("global") EXCEPT !.mode = "passthrough"]),
               Add(Api, [On("global") EXCEPT !.methods = <<"GET">>,
                                             !.answer = Some(Nil)]),
               Add(Ex, [Opts EXCEPT !.mode = "passthrough", !.paths = <<<<V>>>>]),
               Allow(AnyEx, <<>>, On("once")),
               Allow(Ex, <<VStar, Star>>, On("once")),
               Deny(Api, <<V1>>),
               Add(AnyEx, [On("global") EXCEPT !.deny = TRUE]),
               Remove(FALSE, Ex, Some(<<V1>>)),
               Remove(FALSE, Ex, Some(<<VStar, V>>)),
               Remove(FALSE, AnyEx, Nil)}]

\* Credentials in two layers, and rules that inject them in three.
AuthScenario ==
    [files |->
        (MCProjectDir \o <<".agent-creance.yaml">> :>
            [EmptyText EXCEPT !.allow = Block(<<Injects(Rule(Ex), "c")>>),
                              !.credentials = Block(<<Cred("c")>>)])
        @@ (MCHome \o <<".config", "agent-creance.yaml">> :>
            [EmptyText EXCEPT !.credentials = Block(<<Cred("d")>>)])
        @@ (Frag :> [EmptyText EXCEPT !.allow = Block(<<Injects(Rule(Api), "d")>>),
                                      !.services = Block(<<[label |-> "db", port |-> 1]>>)]),
     menu |-> {Add(Ex, [Everywhere EXCEPT !.inject = "d"]),
               Add(Ex, [Everywhere EXCEPT !.inCage = TRUE]),
               Allow(Api, <<>>, [On("once") EXCEPT !.inject = "c"]),
               Add(Ex, [Opts EXCEPT !.mode = "passthrough"]),
               Remove(FALSE, Ex, Nil),
               CredAdd("oauth2", FALSE, "d", Drive),
               CredAdd("github-app", TRUE, "e", App),
               CredAdd("static", FALSE, "f", Static({"basic"})),
               CredAdd("static", FALSE, "f", Static({"template"})),
               CredRemove(FALSE, "c"), CredRemove(TRUE, "d"),
               [op |-> "import", fragment |-> Frag]}]

\* Lists in flow style, fragments that include one another and the project,
\* and a generator.
FilesScenario ==
    [files |->
        (MCProjectDir \o <<".agent-creance.yaml">> :>
            [EmptyText EXCEPT
                !.allow = Flow(<<Rule(Ex), Scoped(Api, <<<<V1>>>>)>>),
                !.services = Flow(<<[label |-> "db", port |-> 1]>>),
                !.rw = Flow(<<"a">>), !.ro = Block(<<"a">>),
                !.generators = Block(<<[type |-> "package_json", path |-> ""]>>)])
        @@ (Frag :> [EmptyText EXCEPT
                !.include = Block(<<[form |-> "rel", path |-> <<"sub">>]>>),
                !.deny = Block(<<Scoped(Ex, <<>>)>>)])
        @@ (Sub :> [EmptyText EXCEPT !.allow = Block(<<Tunnel(Api)>>)])
        @@ (Outside :> EmptyText),
     menu |-> {Inc("rel", <<"frag">>), Inc("rel", <<"link">>),
               Inc("home", <<"p", "sub">>), Inc("abs", Outside),
               Remove(FALSE, Ex, Nil), Remove(FALSE, Api, Some(<<V1>>)),
               Deny(Ex, <<>>),
               [op |-> "mount add", dir |-> "b", access |-> "rw"],
               [op |-> "mount remove", dir |-> "a"],
               [op |-> "service add", service |-> [label |-> "web", port |-> 2]],
               [op |-> "service remove", port |-> 1]}]

\* Mappings on one line, a whole file on one, and lists at their key's column.
LayoutScenario ==
    [files |->
        (MCProjectDir \o <<".agent-creance.yaml">> :>
            [EmptyText EXCEPT
                !.oneLine = {"egress", "safehouse"},
                !.allow = Flow(<<Injects(Rule(Ex), "c")>>),
                !.generators = Flow(<<[type |-> "package_json", path |-> ""]>>),
                !.services = Flush(<<[label |-> "db", port |-> 1]>>),
                !.rw = Flow(<<"a">>), !.ro = Flow(<<"b">>)])
        @@ (MCHome \o <<".config", "agent-creance.yaml">> :>
            [EmptyText EXCEPT
                !.oneLine = {"root", "network", "egress"},
                !.allow = Flow(<<Rule(Api)>>), !.credentials = Flow(<<Cred("c")>>)])
        @@ (MCOverlay :>
            [EmptyText EXCEPT !.allow = Flush(<<Scoped(Ex, <<<<V1>>, <<V>>>>)>>),
                              !.deny = Flush(<<Rule(Api)>>)])
        @@ (Frag :> [EmptyText EXCEPT
                !.oneLine = {"network"}, !.generators = Flow(<<>>),
                !.services = Flow(<<[label |-> "db", port |-> 1]>>)])
        @@ (Sub :> EmptyText),
     menu |-> {Remove(FALSE, Ex, Nil), Remove(TRUE, Api, Nil),
               Deny(Ex, <<>>), Allow(Api, <<>>, On("once")),
               Inc("rel", <<"sub">>), CredRemove(TRUE, "c"),
               CredAdd("static", FALSE, "f", Static({"basic"})),
               [op |-> "import", fragment |-> MCHome \o <<".config", "agent-creance.yaml">>],
               [op |-> "mount add", dir |-> "d", access |-> "ro"],
               [op |-> "mount remove", dir |-> "a"],
               [op |-> "service add", service |-> [label |-> "web", port |-> 2]],
               [op |-> "service remove", port |-> 1]}]

MCScenarios == {MatchScenario, AuthScenario, FilesScenario, LayoutScenario}

Host(labels, upper, tail) == [labels |-> labels, upper |-> upper, tail |-> tail]
MCRequests ==
    {[host |-> Host(Ex, FALSE, <<>>), path |-> p, method |-> "GET"] :
        p \in {<<>>, <<V1>>, <<V1, V>>}}
    \cup {[host |-> Host(Api, FALSE, <<>>), path |-> p, method |-> m] :
        p \in {<<>>, <<V1, V>>, <<V, V1>>}, m \in {"GET", "POST"}}
    \cup {[host |-> Host(Ex, TRUE, t), path |-> <<V1>>, method |-> "GET"] :
        t \in {<<".", ":443">>, <<":x">>}}

(***************************************************************************)
(* The glob loop: patterns and segments of a few characters.               *)
(***************************************************************************)

GlobSegments == UNION {[1..n -> {"v", "1"}] : n \in 0..3}
GlobPatterns == UNION {[1..n -> {"v", "1", "*"}] : n \in 0..3}

CONSTANT Loops  \* the glob loop runs, or commands are given

IdleScenario == [files |-> MCProjectDir \o <<".agent-creance.yaml">> :> EmptyText,
                 menu |-> {}]

MCInit ==
    \/ /\ Init
       /\ GlobInit(<<>>, <<>>)
    \/ /\ Loops
       /\ files = IdleScenario.files /\ menu = IdleScenario.menu
       /\ policy = NoPolicy /\ pending = {} /\ fragment = Nil
       /\ last = Nil /\ given = 0
       /\ \E p \in GlobPatterns, s \in GlobSegments : GlobInit(p, s)

MCNext ==
    \/ Next /\ UNCHANGED globVars
    \/ menu = {} /\ GlobNext /\ UNCHANGED vars

MCSpec == MCInit /\ [][MCNext]_<<vars, globVars>>
=============================================================================
