----------------------------- MODULE CommandLine -----------------------------
(***************************************************************************)
(* What a command line means (internal/cli/allow.go, deny.go, domain.go,   *)
(* credential.go, credential_minted.go): its flags, and the answers to the *)
(* questions they leave open, become a rule or a credential, or nothing,   *)
(* if they contradict each other.                                          *)
(***************************************************************************)
EXTENDS ConfigFile

Target(once, global) ==
    IF once THEN "once" ELSE IF global THEN "global" ELSE "project"

(***************************************************************************)
(* Rules                                                                   *)
(***************************************************************************)

\* The flags of a rule; answer is what the user says about the paths, if there
\* is one to ask: all of them (Nil), or a list.
domainAddOpts ==
    [once |-> FALSE, global |-> FALSE, deny |-> FALSE, allPaths |-> FALSE,
     paths |-> <<>>, methods |-> <<>>, mode |-> "", reason |-> "",
     inject |-> "", inCage |-> FALSE, answer |-> Nil]

promptPaths(answer) == IF answer = Some(Some(<<>>)) THEN Nil ELSE answer

\* A deny and a tunnel are for the whole host unless a path is given.
DecidedPaths(opts) ==
    IF opts.paths # <<>> THEN Some(Some(opts.paths))
    ELSE IF opts.allPaths \/ opts.deny \/ opts.mode = "passthrough"
    THEN Some(Nil)
    ELSE promptPaths(opts.answer)

CompatibleFlags(opts) ==
    /\ ~(opts.once /\ opts.global)
    /\ ~(opts.allPaths /\ opts.paths # <<>>)
    /\ ~(opts.inject # "" /\ opts.inCage)
    /\ ~(opts.inject # "" /\ opts.mode = "passthrough")
    /\ opts.mode \in {"", "intercept", "passthrough"}
    /\ opts.deny => /\ opts.mode = "" /\ opts.methods = <<>>
                    /\ opts.inject = "" /\ ~opts.inCage

runDomainAdd(host, opts) ==
    LET paths == DecidedPaths(opts)
        tunnel == opts.mode = "passthrough"
        methods == IF opts.methods = <<>> THEN Nil ELSE Some(opts.methods)
    IN IF \/ ~CompatibleFlags(opts) \/ ~ValidateHost(host)
          \/ paths = Nil
          \/ tunnel /\ (paths # Some(Nil) \/ methods # Nil)
          \/ ~ValidateMethods(opts.methods)
       THEN Nil
       ELSE Some([target |-> Target(opts.once, opts.global),
                  list |-> IF opts.deny THEN "deny" ELSE "allow",
                  rule |-> [host |-> host, paths |-> paths[1], methods |-> methods,
                            mode |-> IF tunnel THEN opts.mode ELSE "",
                            reason |-> opts.reason, inject |-> opts.inject,
                            in_cage |-> opts.inCage]])

\* A bare host stands for all of it.
setURLPath(opts, path) ==
    IF path = <<>> THEN [opts EXCEPT !.allPaths = TRUE]
    ELSE [opts EXCEPT !.paths = <<path>>]

runAllowWith(url, opts) == runDomainAdd(url.host, setURLPath(opts, url.path))

runDeny(url, reason) ==
    runDomainAdd(url.host,
        setURLPath([domainAddOpts EXCEPT !.deny = TRUE, !.reason = reason], url.path))

(***************************************************************************)
(* Credentials                                                             *)
(***************************************************************************)

\* The header shapes that were asked for: one, or none for the first.
resolveTemplate(shapes, template) ==
    IF Cardinality(shapes) > 1 THEN Nil
    ELSE Some(CASE shapes = {"token"} -> <<"token ", "{token}">>
                [] shapes = {"raw"} -> <<"{token}">>
                [] shapes = {"basic"} ->
                    <<"Basic ", "base64(", "{user}", ":", "{token}", ")">>
                [] shapes = {"template"} -> template
                [] OTHER -> <<"Bearer ", "{token}">>)

\* The source may be asked for.
runCredentialAdd(opts) ==
    LET template == resolveTemplate(opts.shapes, opts.template)
        source == IF opts.source = NoRef THEN opts.answer ELSE opts.source
    IN IF \/ template = Nil
          \/ ~ValidateSecretRefSyntax(source)
          \/ "basic" \in opts.shapes /\ opts.username = ""
       THEN Nil
       ELSE Some([source |-> source, github_app |-> Nil, oauth2 |-> Nil,
                  template |-> template[1], username |-> opts.username,
                  header |-> opts.header])

runCredentialAddGitHubApp(opts) ==
    IF \/ opts.shapes = {"basic", "bearer"}
       \/ "basic" \in opts.shapes /\ opts.username = ""
       \/ ~ValidateSecretRefSyntax(opts.mint.key)
       \/ opts.mint.client_id = "" \/ opts.mint.repo = <<>>
    THEN Nil
    ELSE Some([source |-> NoRef, github_app |-> Some(opts.mint), oauth2 |-> Nil,
               template |-> resolveTemplate(opts.shapes, <<>>)[1],
               username |-> opts.username, header |-> ""])

runCredentialAddOAuth2(opts) ==
    IF \/ ~ValidateSecretRefSyntax(opts.mint.refresh_token)
       \/ opts.mint.client_id = ""
    THEN Nil
    ELSE Some([source |-> NoRef, github_app |-> Nil, oauth2 |-> Some(opts.mint),
               template |-> resolveTemplate({}, <<>>)[1],
               username |-> "", header |-> ""])
=============================================================================
