----------------------------- MODULE MCSession -----------------------------
(***************************************************************************)
(* Instances of CageRun, AuditLog, EnforcerFlow and Generators for TLC.    *)
(* They share nothing but the run: a behaviour is one of a part.           *)
(***************************************************************************)
EXTENDS CageRun, AuditLog, EnforcerFlow, Generators

VARIABLE part   \* whose behaviour this is

(***************************************************************************)
(* CageRun                                                                 *)
(***************************************************************************)

MCHome == <<"home">>
MCRealHome == <<"vol", "home">>
MCProject == <<"vol", "home", "p">>
MCRoot == <<"home", ".cache", "creance">>

ConfigPath == Append(MCProject, ".agent-creance.yaml")
Fragment2 == Append(MCProject, "team.yaml")

Service(label, p) == [label |-> label, port |-> p]

ConfigA ==
    [valid |-> TRUE, command |-> <<"claude">>,
     services |-> <<Service("db", 3), Service("again", 3)>>,
     rw |-> <<[form |-> "rel", path |-> <<>>]>>,
     ro |-> <<[form |-> "home", path |-> <<".gitconfig">>]>>,
     env |-> [v \in {"HTTPS_PROXY", "EDITOR"} |-> Port("ex.com", 1)],
     files |-> <<ConfigPath>>]
ConfigB ==
    [ConfigA EXCEPT !.services = @ \o <<Service("web", 4)>>,
                    !.files = <<ConfigPath, Fragment2, ConfigPath>>]
Broken == [ConfigA EXCEPT !.valid = FALSE]
Silent == [ConfigA EXCEPT !.command = <<>>]
MCFirst == {ConfigA}
MCConfigs == {ConfigA, ConfigB, Broken, Silent}

Market(source, path, isDir) ==
    [source |-> source, path |-> path, installed |-> <<>>, isDir |-> isDir]

Fine == [path |-> {"agent-safehouse", "mitmproxy"}, ca |-> "found",
         skill |-> "present", token |-> "found", tokenFile |-> "absent",
         initialized |-> TRUE, caFile |-> TRUE, home |-> MCHome,
         registry |-> {Market("directory", <<"work", "a">>, TRUE),
                       Market("directory", <<"work", "gone">>, FALSE),
                       Market("file", MCHome \o <<"p", "m">>, TRUE),
                       Market("github", <<"work", "b">>, TRUE)}]

MCWorlds ==
    {Fine,
     [Fine EXCEPT !.path = {"safehouse"}], [Fine EXCEPT !.path = {"mitmproxy"}],
     [Fine EXCEPT !.initialized = FALSE], [Fine EXCEPT !.home = <<>>]}
    \cup {[Fine EXCEPT !.ca = s] : s \in {"locked", "absent", "error"}}
    \cup {[Fine EXCEPT !.skill = s] : s \in {"absent", "error"}}
    \cup {[Fine EXCEPT !.token = "locked"]}
    \cup {[Fine EXCEPT !.token = "absent", !.tokenFile = s] :
            s \in {"found", "absent", "error"}}
MCPorts == {1, 2}

(***************************************************************************)
(* EnforcerFlow: rules that inject, at another index and with another      *)
(* header in each policy, and a host that is tunnelled, denied below a     *)
(* path, denied, or tunnelled unless one asks it to change something: what *)
(* CONNECT, which knows no method, refuses as a whole.                     *)
(***************************************************************************)

Tokens == <<"*", ",", "/", "api", "com", "ex", "v", "|", "GET", "POST",
            "intercept", "passthrough">>
MCCode == [t \in Elements(Tokens) |-> CHOOSE i \in DOMAIN Tokens : Tokens[i] = t]

Ex == <<"ex", "com">>
Api == <<"api", "ex", "com">>
AnyEx == <<"*", "ex", "com">>
V == <<"v">>

Intercept(host) ==
    [host |-> host, paths |-> Nil, methods |-> Nil, mode |-> "intercept",
     reason |-> "", inject |-> "", in_cage |-> FALSE, source |-> "explicit"]
Tunnel(host) == [Intercept(host) EXCEPT !.mode = "passthrough"]
Scoped(rule, path) == [rule EXCEPT !.paths = Some(<<path>>)]
Binds(host, name) == [Intercept(host) EXCEPT !.inject = name]

Cred(template, header) ==
    [source |-> NoRef, github_app |-> Nil, oauth2 |-> Nil,
     template |-> template, username |-> "", header |-> header]
Bearer == [Cred(<<"Bearer ", "{token}">>, "Authorization")
            EXCEPT !.source = <<"env", "C">>]
Key == [Bearer EXCEPT !.template = <<"{user}", ":", "{token}">>,
                      !.username = "bot", !.header = "X-Key"]
Drive == [Cred(<<"{token}">>, "X-Key")
            EXCEPT !.oauth2 = Some([refresh_token |-> <<"env", "D">>])]
App == [Cred(<<"{token}">>, "Authorization")
            EXCEPT !.github_app = Some([key |-> <<"env", "G">>])]
MCResolvable == {<<"env", "C">>, <<"env", "G">>}

Creds(c) == [n \in {"c", "d", "g"} |->
    CASE n = "c" -> c [] n = "d" -> Drive [] OTHER -> App]

MCRuleSets ==
    <<[allow |-> <<Binds(Ex, "c"), Tunnel(Api)>>, deny |-> <<>>,
       credentials |-> Creds(Bearer)],
      [allow |-> <<Binds(AnyEx, "d"), Scoped(Binds(Ex, "c"), <<V>>)>>,
       deny |-> <<Scoped(Intercept(Api), <<V>>)>>,
       credentials |-> Creds(Key)],
      [allow |-> <<Tunnel(Api), [Intercept(Ex) EXCEPT !.in_cage = TRUE]>>,
       deny |-> <<Binds(AnyEx, "g")>>,
       credentials |-> Creds(Bearer)],
      [allow |-> <<Tunnel(Api), Binds(Ex, "g")>>,
       deny |-> <<[Intercept(AnyEx) EXCEPT !.methods = Some(<<"POST">>)]>>,
       credentials |-> Creds(Key)]>>

MCAsked == {[host |-> [labels |-> host, upper |-> FALSE, tail |-> <<>>],
             path |-> path, method |-> method] :
                host \in {Ex, Api}, path \in {<<>>, <<V>>},
                method \in {"GET", "POST"}}

(***************************************************************************)
(* Generators: one process in a project with two manifests, another in one *)
(* that shares a dependency and a manifest, or whose manifest is no JSON   *)
(* or has names a registry or the cache refuses.                           *)
(***************************************************************************)

Named(name, form) == [name |-> name, form |-> form]
MCNames == <<Named("@s/b", "scoped"), Named("a", "plain"), Named("v/c", "vendor"),
             Named("x/../y", "escaping")>>

Url(host, path) == Some([host |-> host, path |-> path])
Now == [homepage |-> Url(<<"sourceforge", "net">>, <<>>),
        repository |-> Url(<<"github", "com">>, <<"o", "r">>)]
Before == [homepage |-> Url(Ex, V), repository |-> Url(Ex, V)]
MCPublished == {Now}

Npm(direct, dev) ==
    [eco |-> "package_json", doc |-> [valid |-> TRUE, direct |-> direct, dev |-> dev]]
Php(direct) ==
    [eco |-> "composer_json", doc |-> [valid |-> TRUE, direct |-> direct, dev |-> {}]]
NoJSON == [Npm({}, {}) EXCEPT !.doc.valid = FALSE]

Both(inputs) ==
    {[kind |-> k, inputs |-> inputs] : k \in {"compile", "refresh"}}
MCJobs ==
    [p1 |-> Both(<<Php({"a"}), Npm({"a"}, {"a"})>>),
     p2 |-> Both(<<Npm({"a"}, {"a"})>>) \cup Both(<<NoJSON>>)
            \cup Both(<<Npm({"v/c"}, {})>>) \cup Both(<<Php({"a", "v/c"})>>)
            \cup Both(<<Npm({"@s/b"}, {"x/../y"})>>)]

MCEarlier == <<[path |-> entryPath("package_json", "a"), said |-> Some(Before)]>>

(***************************************************************************)
(* The parts side by side                                                  *)
(***************************************************************************)

MCInit ==
    \/ /\ part = "run"
       /\ RunInit(MCWorlds) /\ AuditInit /\ FlowInit({}, {1}) /\ GenInit(<<>>)
    \/ /\ part = "log"
       /\ RunInit({Fine}) /\ AuditInit /\ FlowInit({}, {1}) /\ GenInit(<<>>)
    \/ /\ part = "flow"
       /\ RunInit({Fine}) /\ AuditInit /\ FlowInit(Flow, DOMAIN RuleSets)
       /\ GenInit(<<>>)
    \/ /\ part = "gen"
       /\ RunInit({Fine}) /\ AuditInit /\ FlowInit({}, {1})
       /\ GenInit(MCEarlier)

MCNext ==
    \/ part = "run" /\ RunNext /\ UNCHANGED <<auditVars, flowVars, genVars, part>>
    \/ part = "log" /\ AuditNext /\ UNCHANGED <<runVars, flowVars, genVars, part>>
    \/ part = "flow" /\ FlowNext /\ UNCHANGED <<runVars, auditVars, genVars, part>>
    \/ part = "gen" /\ GenNext /\ UNCHANGED <<runVars, auditVars, flowVars, part>>

MCSpec ==
    /\ MCInit
    /\ [][MCNext]_<<runVars, auditVars, flowVars, genVars, part>>
    /\ RunFairness
=============================================================================
