------------------------------ MODULE Commands ------------------------------
(***************************************************************************)
(* The commands that edit the config (internal/cli: allow, deny, domain,   *)
(* include, mount, service, credential, import) against the files and the  *)
(* compiled policy.                                                        *)
(*                                                                         *)
(* A command edits its file and recompiles under the file's lock, here one *)
(* step (PolicyPipeline takes it apart).  Some commands look at other      *)
(* files first, before they have the lock: Check is that look, and         *)
(* anything may happen before the command goes on.                         *)
(***************************************************************************)
EXTENDS PolicyCompile, CommandLine, EnforcerPolicy

CONSTANTS
    Scenarios,  \* the files at the start, and the commands that may be given
    Requests,   \* the requests whose verdicts are compared
    MaxSteps    \* bound: commands given

ASSUME RequestsAssumption == Requests \subseteq RequestTypes

(***************************************************************************)
(* The texts and the command lines there may be.                           *)
(***************************************************************************)

\* Includes of paths of the model.
Includes ==
    {inc \in [form : {"home", "abs", "rel"}, path : Seq(STRING)] :
        \A p \in Paths :
            LET to == resolveIncludePath(p, inc) IN to = Nil \/ to[1] \in Paths}

Services == [label : STRING, port : Int]

ListsOf(S) == [style : {"none", "flow", "block", "flush"}, items : Seq(S)]

TextOK(text) ==
    /\ DOMAIN text = DOMAIN EmptyText /\ text.oneLine \subseteq Sections
    /\ text.allow \in ListsOf(ConfigRules) /\ text.deny \in ListsOf(ConfigRules)
    /\ text.include \in ListsOf(Includes)
    /\ text.services \in ListsOf(Services)
    /\ text.generators \in ListsOf([type : STRING, path : STRING])
    /\ \A key \in {"rw", "ro", "credentials"} :
            text[key] \in ListsOf(Elements(text[key].items))

FilesOK(fs) ==
    /\ ProjectPath \in DOMAIN fs /\ DOMAIN fs \subseteq Paths
    /\ \A p \in DOMAIN fs : TextOK(fs[p])

Flags ==
    [once : BOOLEAN, global : BOOLEAN, deny : BOOLEAN, allPaths : BOOLEAN,
     paths : Seq(Seq(Seq(Words))), methods : Seq(Words), mode : {""} \cup Words,
     reason : {""} \cup STRING, inject : {""} \cup STRING, inCage : BOOLEAN,
     answer : Opt(Opt(Seq(Seq(Seq(Words)))))]

CommandOK(c, fs) ==
    /\ c.op \in {"allow", "deny"} =>
            c.url \in [host : Seq(Words), path : Seq(Seq(Words))]
    /\ c.op \in {"allow", "domain add"} => c.opts \in Flags
    /\ c.op = "domain add" => c.host \in Seq(Words)
    /\ c.op = "deny" => c.reason \in STRING
    /\ c.op = "include" => c.inc \in Includes
    /\ c.op = "mount add" => c.access \in {"rw", "ro"}
    /\ c.op = "service add" => c.service \in Services
    /\ c.op = "import" => c.fragment \in DOMAIN fs

ASSUME CommandsAssumption ==
    /\ MaxSteps \in Nat
    /\ \A sc \in Scenarios :
            FilesOK(sc.files) /\ \A c \in sc.menu : CommandOK(c, sc.files)

VARIABLES
    files,      \* the config files, by path
    policy,     \* policy.json
    menu,       \* the commands of the scenario
    pending,    \* the command that has looked and has not edited yet
    fragment,   \* the fragment that a pending import has read
    last,       \* the command that edited last, Nil after a look
    given       \* commands given so far

vars == <<files, policy, menu, pending, fragment, last, given>>

mutationTarget(target) ==
    CASE target = "once" -> OverlayPath
      [] target = "global" -> GlobalPath
      [] target = "project" -> ProjectPath

\* An absent file is edited as an empty one.
TextOf(path) == IF path \in DOMAIN files THEN files[path] ELSE EmptyText

(***************************************************************************)
(* What a command checks before it takes the lock                          *)
(***************************************************************************)

\* The rule that allow, deny and domain add mean, with its file and list; Nil
\* for a command line that means none.
Added(c) ==
    CASE c.op = "allow" -> runAllowWith(c.url, c.opts)
      [] c.op = "deny" -> runDeny(c.url, c.reason)
      [] c.op = "domain add" -> runDomainAdd(c.host, c.opts)

AddOps == {"allow", "deny", "domain add"}
Adds(c) == c.op \in AddOps
Binds(c) == Adds(c) /\ c.op # "deny" /\ c.opts.inject # ""

NewCredential(c) ==
    CASE c.kind = "static" -> runCredentialAdd(c.opts)
      [] c.kind = "github-app" -> runCredentialAddGitHubApp(c.opts)
      [] c.kind = "oauth2" -> runCredentialAddOAuth2(c.opts)

\* An injected credential must be known; a config that does not load is no
\* objection.
CredentialKnown(cfg, name) ==
    cfg.err = "" => name \in Names(cfg.cfg.credentials)

injectingHost(cfg, name) ==
    {r.host : r \in {r \in Elements(cfg.allow) \cup Elements(cfg.deny) :
                        r.inject = name}}

\* A bug that would matter: the rules are not asked.
Slip_CredentialUnbound(cfg, name) == TRUE

CredentialUnbound(cfg, name) == cfg.err = "" => injectingHost(cfg.cfg, name) = {}

\* The look at files the command does not lock.
Looks(c) == Binds(c) \/ c.op \in {"credential remove", "include", "import"}

Look(c, cfg) ==
    CASE Binds(c) -> CredentialKnown(cfg, c.opts.inject)
      [] c.op = "credential remove" -> CredentialUnbound(cfg, c.name)
      [] c.op = "include" -> ValidateInclude(files, ProjectPath, c.inc) = ""
      [] OTHER -> TRUE

\* The arguments.
PreCheck(c) ==
    CASE Adds(c) -> Added(c) # Nil
      [] c.op = "credential add" -> NewCredential(c) # Nil
      [] c.op = "service add" -> parseHostService(c.service)
      [] c.op = "import" -> Parse(files[c.fragment]) # Nil
      [] OTHER -> TRUE

Check ==
    /\ pending = {} /\ given < MaxSteps
    /\ \E c \in menu :
        /\ Looks(c) /\ PreCheck(c) /\ Look(c, Load(files))
        /\ pending' = {c}
        /\ fragment' = IF c.op = "import" THEN Parse(files[c.fragment]) ELSE Nil
    /\ given' = given + 1 /\ last' = Nil
    /\ UNCHANGED <<files, policy, menu>>

\* The commands of some operations that may edit now.
Ready(ops) ==
    {c \in menu : /\ c.op \in ops
                  /\ IF Looks(c) THEN c \in pending
                     ELSE given < MaxSteps /\ PreCheck(c)}

Went(c) ==
    /\ pending' = pending \ {c}
    /\ fragment' = IF Looks(c) THEN Nil ELSE fragment
    /\ given' = IF Looks(c) THEN given ELSE given + 1
    /\ last' = Some(c)
    /\ UNCHANGED menu

(***************************************************************************)
(* Under the lock                                                          *)
(***************************************************************************)

writeFile(path, text) ==
    files' = [p \in DOMAIN files \cup {path} |-> IF p = path THEN text ELSE files[p]]

\* A compile that fails leaves the old policy.
Renewed(old, r) == IF r.err = "" THEN r.policy ELSE old

recompile == policy' = Renewed(policy, Compile(files'))

\* An edit that fails, or changes nothing, writes nothing.
applyAndRecompile(path, edit) ==
    IF edit.changed
    THEN writeFile(path, edit.out) /\ recompile
    ELSE UNCHANGED <<files, policy>>

\* Mounts and services are not in the policy: a running cage keeps its own.
applyAndWarn(path, edit) ==
    /\ IF edit.changed THEN writeFile(path, edit.out) ELSE UNCHANGED files
    /\ UNCHANGED policy

DomainAdd ==
    \E c \in Ready(AddOps) :
        LET a == Added(c)[1]
            path == mutationTarget(a.target)
            binds == a.rule.inject # "" \/ a.rule.in_cage
        IN /\ applyAndRecompile(path,
                IF binds THEN SetRuleAuth(TextOf(path), a.list, a.rule)
                ELSE AppendRule(TextOf(path), a.list, a.rule))
           /\ Went(c)

\* The allow list is asked first, then the deny list.
DomainRemove ==
    \E c \in Ready({"domain remove"}) :
        LET path == mutationTarget(Target(FALSE, c.global))
            allowed == RemoveRule(TextOf(path), "allow", c.host, c.path)
        IN /\ applyAndRecompile(path,
                IF allowed.err # "not_found" THEN allowed
                ELSE RemoveRule(TextOf(path), "deny", c.host, c.path))
           /\ Went(c)

Include ==
    \E c \in Ready({"include"}) :
        /\ applyAndRecompile(ProjectPath, AppendInclude(TextOf(ProjectPath), c.inc))
        /\ Went(c)

MountAdd ==
    \E c \in Ready({"mount add"}) :
        /\ applyAndWarn(ProjectPath, AppendDir(TextOf(ProjectPath), c.access, c.dir))
        /\ Went(c)

MountRemove ==
    \E c \in Ready({"mount remove"}) :
        /\ applyAndWarn(ProjectPath, RemoveDir(TextOf(ProjectPath), c.dir))
        /\ Went(c)

ServiceAdd ==
    \E c \in Ready({"service add"}) :
        /\ applyAndWarn(ProjectPath, AppendHostService(TextOf(ProjectPath), c.service))
        /\ Went(c)

ServiceRemove ==
    \E c \in Ready({"service remove"}) :
        /\ applyAndWarn(ProjectPath, RemoveHostService(TextOf(ProjectPath), c.port))
        /\ Went(c)

CredentialAdd ==
    \E c \in Ready({"credential add"}) :
        LET path == mutationTarget(Target(FALSE, c.global))
        IN /\ applyAndRecompile(path,
                AppendCredential(TextOf(path), c.name, NewCredential(c)[1]))
           /\ Went(c)

CredentialRemove ==
    \E c \in Ready({"credential remove"}) :
        LET path == mutationTarget(Target(FALSE, c.global))
        IN /\ applyAndRecompile(path, RemoveCredential(TextOf(path), c.name))
           /\ Went(c)

\* A fragment's rules and services go in one by one; its other sections do
\* not.  One that cannot go in stops all.
mergeOne(text, e, sofar) ==
    IF e.err # "" THEN Failed(text, e.err)
    ELSE [out |-> e.out, changed |-> e.changed \/ sofar.changed, err |-> ""]

\* The i-th of a fragment's entries: the allowed, the denied, the services.
AppendEntry(text, frag, i) ==
    LET a == Len(frag.allow)
        d == Len(frag.deny)
    IN IF i <= a THEN AppendRule(text, "allow", frag.allow[i])
       ELSE IF i <= a + d THEN AppendRule(text, "deny", frag.deny[i - a])
       ELSE AppendHostService(text, frag.services[i - a - d])

applyEntry(text, frag, sofar, i) ==
    IF sofar.err # "" THEN sofar
    ELSE mergeOne(text, AppendEntry(sofar.out, frag, i), sofar)

applyFragment(text, frag) ==
    LET n == Len(frag.allow) + Len(frag.deny) + Len(frag.services)
        step[i \in 0..n] ==
            IF i = 0 THEN Unchanged(text) ELSE applyEntry(text, frag, step[i - 1], i)
    IN step[n]

\* The fragment is what was read before the lock.  The merge is shown before it
\* is written, and may be declined.
Import ==
    \E c \in Ready({"import"}), confirmed \in BOOLEAN :
        /\ IF confirmed
           THEN applyAndRecompile(ProjectPath,
                    applyFragment(TextOf(ProjectPath), fragment[1]))
           ELSE UNCHANGED <<files, policy>>
        /\ Went(c)

Init ==
    \E sc \in Scenarios :
        /\ files = sc.files /\ menu = sc.menu
        /\ policy = Compile(sc.files).policy
        /\ pending = {} /\ fragment = Nil /\ last = Nil /\ given = 0

Next ==
    \/ Check
    \/ DomainAdd \/ DomainRemove \/ Include \/ Import
    \/ MountAdd \/ MountRemove \/ ServiceAdd \/ ServiceRemove
    \/ CredentialAdd \/ CredentialRemove

Spec == Init /\ [][Next]_vars

(***************************************************************************)
(* Properties                                                              *)
(***************************************************************************)

\* policy.json is there, and both its lists are lists of such rules: what the
\* matchers may count on.
PolicyOK ==
    /\ DOMAIN policy = DOMAIN NoPolicy
    /\ policy.allow \in Seq(Elements(policy.allow))
    /\ policy.deny \in Seq(Elements(policy.deny))
    /\ \A r \in Elements(policy.allow) \cup Elements(policy.deny) : RuleOK(r)

\* The types of the variables, and of what the enforcer reads.
TypeOK ==
    /\ FilesOK(files)
    /\ PolicyOK
    /\ pending \subseteq menu /\ Cardinality(pending) <= 1
    /\ \A c \in pending : c.op = "import" => fragment # Nil
    /\ last = Nil \/ last[1] \in menu
    /\ given \in 0..MaxSteps

\* What `policy explain` says of a request (the Go matcher) is what the
\* enforcer (the Python matcher) does with it, and so it is for what is known
\* of a host at CONNECT; Go cannot tell an empty reason from no denial.  And to
\* a host that is tunnelled there, without a look inside, every request is
\* allowed, as passthrough: nothing the decision would refuse slips through.
ExplainIsEnforced ==
    \A q \in Requests :
        LET go == HostDisposition(policy, q.host)
            py == Py_host_disposition(policy, q.host)
        IN /\ Decide(policy, q) = Py_decide(policy, q)
           /\ go.passthrough = py.passthrough
           /\ go.deny_reason =
                IF py.deny_reason = Nil THEN "" ELSE py.deny_reason[1]
           /\ py.passthrough /\ py.deny_reason = Nil =>
                LET d == Decide(policy, q)
                IN d.decision = "allow" /\ d.mode = "passthrough"

Reversed(s) == [i \in DOMAIN s |-> s[Len(s) + 1 - i]]

\* The verdict does not depend on the order of the rules, so not on which
\* layer or which command put a rule where.
OrderBlind ==
    LET turned == [policy EXCEPT !.allow = Reversed(@), !.deny = Reversed(@)]
    IN \A q \in Requests :
        LET d == Decide(policy, q)
            t == Decide(turned, q)
        IN d.decision = t.decision /\ d.mode = t.mode

Sourceless(rules) == {ruleKey(r) : r \in Elements(rules)}
AsRules(rules) == Sourceless(MarshalAll(annotate(rules, "")))

SameView(loaded, compiled) ==
    /\ loaded.err = compiled.err
    /\ loaded.err = "" =>
        /\ AsRules(loaded.cfg.deny) = Sourceless(compiled.policy.deny)
        /\ AsRules(loaded.cfg.allow) =
             {ruleKey(r) : r \in {r \in Elements(compiled.policy.allow) :
                                    r.source # "generated"}}

AgreesUnlessGenerated(compiled) ==
    compiled.err \notin {"generator", "generated"} => SameView(Load(files), compiled)

\* The compiler reads the layers apart and `run` reads them merged: without an
\* overlay, one accepts the files when the other does (but for generators,
\* which only the compiler runs), and the rules are the same.
TwoViewsAgree ==
    OverlayPath \notin DOMAIN files => AgreesUnlessGenerated(Compile(files))

\* The fragments a file includes, when it is read by this name.
IncludedBy(path) ==
    {p \in Paths : \E inc \in Elements(Parse(files[Canon(path)])[1].include) :
                        resolveIncludePath(path, inc) = Some(p)}

\* The names files are read by: those of the global and the project file, and
\* what is reached from them in as many includes as a config may nest.
ReadPaths ==
    LET reach[n \in 0..maxIncludeDepth] ==
            IF n = 0 THEN {p \in {GlobalPath, ProjectPath} : Canon(p) \in DOMAIN files}
            ELSE reach[n - 1] \cup UNION {IncludedBy(p) : p \in reach[n - 1]}
    IN reach[maxIncludeDepth]

\* A file that is read by two names, one of them a link in another directory,
\* includes the same fragments by both.
NamesAgree ==
    \A p, q \in ReadPaths : Canon(p) = Canon(q) => IncludedBy(p) = IncludedBy(q)

\* A session watches every file its config is read from, those that fragments
\* include too, and no other.
WatchCoversRead ==
    Load(files).err = "" /\ NamesAgree =>
        ResolveFiles(files) = Walk("", {Canon(p) : p \in ReadPaths})

ListKeys == DOMAIN EmptyConfig \ {"env", "workdir"}

\* All of a list is in another, side by side.
Within(before, after) ==
    \E n \in 0..(Len(after) - Len(before)) :
        \A i \in DOMAIN before : after[n + i] = before[i]

KeepsList(before, after) ==
    \/ Within(before, after)
    \/ \E i \in DOMAIN before : after = Without(before, i)
    \/ \E i \in DOMAIN before : /\ Len(after) = Len(before)
                                /\ Without(after, i) = Without(before, i)

\* An editing command never leaves a file that parsed unparsable, however it is
\* written.  The rules gain entries at one end, lose one or change one, and so
\* does every other list, unless it is in a mapping on one line: then all of
\* it may be lost, and no less.
EditsKeepFiles ==
    [][\A p \in DOMAIN files :
        Parse(files[p]) # Nil =>
            /\ Parse(files'[p]) # Nil
            /\ \A key \in ListKeys :
                LET before == Parse(files[p])[1][key]
                    after == Parse(files'[p])[1][key]
                IN \/ KeepsList(before, after)
                   \/ /\ key \notin {"allow", "deny"} /\ Crowded(files[p], key)
                      /\ after = <<>>]_vars

\* The lists a command is about.
Touches(c) ==
    CASE Adds(c) \/ c.op = "domain remove" -> {"allow", "deny"}
      [] c.op = "include" -> {"include"}
      [] c.op = "import" -> {"allow", "deny", "services"}
      [] c.op \in {"mount add", "mount remove"} -> {"rw", "ro"}
      [] c.op \in {"service add", "service remove"} -> {"services"}
      [] c.op \in {"credential add", "credential remove"} -> {"credentials"}

\* A command leaves every list it is not about as it was: what edit.go, remove.go
\* and credentials_edit.go say that their gates make sure of.  They do not, for
\* a mapping on one line: see the README.
EditsTouchNoOther ==
    [][last' # Nil =>
        \A p \in DOMAIN files :
            Parse(files[p]) # Nil /\ Parse(files'[p]) # Nil =>
                \A key \in ListKeys \ Touches(last'[1]) :
                    Parse(files'[p])[1][key] = Parse(files[p])[1][key]]_vars

Decision(rs, q) == Decide(rs, q).decision
BothCompile == Compile(files).err = "" /\ Compile(files').err = ""
Went1(ops) == last' # Nil /\ last'[1].op \in ops

\* A deny never lets through what was refused; an allow that intercepts never
\* lifts a deny; and a removal, of a rule or of one of its paths, never allows
\* what no rule allowed.
EditsGoOneWay ==
    [][BothCompile =>
        \A q \in Requests :
            /\ Went1(AddOps) /\ Added(last'[1])[1].list = "deny"
                  /\ Decision(policy, q) # "allow" => Decision(policy', q) # "allow"
            /\ Went1(AddOps) /\ Added(last'[1])[1].list = "allow"
                  /\ Added(last'[1])[1].rule.mode # "passthrough"
                  /\ Decision(policy, q) = "hard-deny" => Decision(policy', q) = "hard-deny"
            /\ Went1({"domain remove"})
                  /\ Decision(policy, q) = "soft-deny" => Decision(policy', q) # "allow"]_vars

OverlayInjects(name) ==
    /\ OverlayPath \in DOMAIN files
    /\ Parse(files[OverlayPath]) # Nil
    /\ name \in Injected(Parse(files[OverlayPath])[1])

\* Binding and unbinding commands leave no rule that injects a credential
\* nobody defines, on which every later compile would fail: unless another
\* command came between the look and the lock, or the session overlay, which
\* the look does not see, has the rule, or has the credential of another rule:
\* what the look sees does not load then, and it has no objection.  What a
\* fragment brings is not checked; and a file on one line may lose all it has,
\* its credentials too.
BecomesDangling ==
    Compile(files).err = "" /\ Compile(files').err = "inject" /\ last' # Nil

InjectKeptDefined ==
    [][BecomesDangling =>
        LET c == last'[1]
        IN \/ c.op \in {"include", "import"}
           \/ ~Look(c, Load(files))
           \/ OverlayPath \in DOMAIN files /\ Load(files).err # ""
           \/ c.op = "credential remove" /\ OverlayInjects(c.name)
           \/ \E p \in DOMAIN files :
                /\ "root" \in files[p].oneLine
                /\ Parse(files'[p]) = Some(EmptyConfig)]_vars
=============================================================================
