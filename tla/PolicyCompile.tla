---------------------------- MODULE PolicyCompile ----------------------------
(***************************************************************************)
(* What a compile (internal/policy/compile) makes of the config files: the *)
(* layers' rules and those the generators derive from the project's        *)
(* manifests, joined into policy.json.  PolicyPipeline has the steps of a  *)
(* compile and the gate that skips it; here it is one function of the      *)
(* files.                                                                  *)
(***************************************************************************)
EXTENDS ConfigLoad, PolicyMatch

CONSTANTS
    OverlayPath,    \* the session overlay, in the state directory
    ManifestOf,     \* the generators there are, with their default manifest
    Generated       \* the rules of each manifest that exists

\* A rule as a file may have it: its mode, reason and credential may be missing.
ConfigRules ==
    [host : Seq(Words), paths : Opt(Seq(Seq(Seq(Words)))), methods : Opt(Seq(Words)),
     mode : {""} \cup Words, reason : {""} \cup STRING, inject : {""} \cup STRING,
     in_cage : BOOLEAN]

\* No generator says how its rules are enforced, or binds a credential.
ASSUME CompileAssumption ==
    /\ OverlayPath \in Paths
    /\ \A m \in DOMAIN Generated :
            Generated[m] \in Seq({r \in ConfigRules : r.mode = "" /\ r.inject = ""})

\* A bare entry stands for the generator's default manifest; two entries that
\* stand for the same one count once.
resolveGenerators(gens) ==
    LET Resolved(g) == [g EXCEPT !.path = IF @ = "" THEN ManifestOf[g.type] ELSE @]
    IN Dedupe([i \in DOMAIN gens |-> Resolved(gens[i])])

mergeGenerators(global, project) == Dedupe(global \o project)

\* What there is in each manifest; one that does not exist contributes nothing.
readManifests(gens) ==
    [i \in DOMAIN gens |->
        IF gens[i].path \in DOMAIN Generated THEN Generated[gens[i].path] ELSE <<>>]

annotate(rules, source) ==
    [i \in DOMAIN rules |-> RuleFromConfig(rules[i], source)]

runGenerators(manifests) ==
    Concat([i \in DOMAIN manifests |->
                annotate(defaultRuleModes(manifests[i]), "generated")])

ValidGenerated(rules) ==
    \A r \in Elements(rules) :
        ValidateHost(r.host) /\ (r.methods # Nil => ValidateMethods(r.methods[1]))

\* Where a rule comes from is not part of what it is.
ruleKey(r) == [r EXCEPT !.source = ""]

dedupe(rules) == DedupeBy(rules, [i \in DOMAIN rules |-> ruleKey(rules[i])])

buildRuleSet(global, project, generated, overlay) ==
    [allow |-> dedupe(annotate(global.allow, "global")
                      \o annotate(project.allow, "explicit")
                      \o generated
                      \o annotate(overlay.allow, "once")),
     deny |-> dedupe(annotate(global.deny, "global")
                     \o annotate(project.deny, "explicit")
                     \o annotate(overlay.deny, "once"))]

\* A bug that would matter: a rule may inject what no layer defines.
Slip_validateInjectRefs(rs, creds) == TRUE

validateInjectRefs(rs, creds) ==
    \A r \in Elements(rs.allow) \cup Elements(rs.deny) :
        r.inject # "" => r.inject \in Names(creds)

loadOverlay(files) ==
    IF OverlayPath \notin DOMAIN files THEN Ok(EmptyConfig)
    ELSE IF Parse(files[OverlayPath]) = Nil THEN Err("overlay")
    ELSE Ok(Parse(files[OverlayPath])[1])

\* A bug that would matter: policy.json keeps an empty list.
Slip_Marshal(r) == r

\* policy.json leaves empty lists out: who reads it finds no list.
Marshal(r) ==
    [r EXCEPT !.paths = IF @ = Some(<<>>) THEN Nil ELSE @,
              !.methods = IF @ = Some(<<>>) THEN Nil ELSE @]

MarshalAll(rules) == [i \in DOMAIN rules |-> Marshal(rules[i])]

CredentialsFromConfig(creds) == CredMap(creds)

NoPolicy == [allow |-> <<>>, deny |-> <<>>, credentials |-> <<>>]
Compiled(policy) == [err |-> "", policy |-> policy]
NotCompiled(err) == [err |-> err, policy |-> NoPolicy]

CompileRules(rs, creds) ==
    IF ~validateInjectRefs(rs, creds) THEN NotCompiled("inject")
    ELSE Compiled([allow |-> MarshalAll(rs.allow), deny |-> MarshalAll(rs.deny),
                   credentials |-> CredentialsFromConfig(creds)])

CompileWith(global, project, overlay, generated) ==
    IF ~ValidGenerated(generated) THEN NotCompiled("generated")
    ELSE CompileRules(
            buildRuleSet(global, project, generated, overlay),
            mergeCredentials(mergeCredentials(global.credentials, project.credentials),
                             overlay.credentials))

CompileConfigs(global, project, overlay, gens) ==
    IF \E g \in Elements(gens) : g.type \notin DOMAIN ManifestOf
    THEN NotCompiled("generator")
    ELSE CompileWith(global, project, overlay,
                     runGenerators(readManifests(resolveGenerators(gens))))

CompileLayers(global, project, overlay) ==
    IF global.err # "" THEN NotCompiled(global.err)
    ELSE IF project.err # "" THEN NotCompiled(project.err)
    ELSE IF overlay.err # "" THEN NotCompiled(overlay.err)
    ELSE CompileConfigs(global.cfg, project.cfg, overlay.cfg,
            mergeGenerators(global.cfg.generators, project.cfg.generators))

Compile(files) ==
    CompileLayers(ResolveLayer(files, GlobalPath, TRUE),
                  ResolveLayer(files, ProjectPath, FALSE), loadOverlay(files))
=============================================================================
