---------------------------- MODULE SecretRefs -----------------------------
(***************************************************************************)
(* References to secrets (internal/sysdep/secretresolver.go) and what the  *)
(* shape of a credential must be (internal/config/validate.go,             *)
(* template.go).  A reference is <<scheme, what>>, <<scheme, service,      *)
(* account>> for a keychain item, or NoRef.  A template is the sequence of *)
(* its parts: "{token}", "{user}", "{x}" (a placeholder nobody knows),     *)
(* "base64(", ")" or text.                                                 *)
(***************************************************************************)
EXTENDS Integers, Sequences, FiniteSets

NoRef == <<>>

parseKeychainRef(ref) == ref[2] # ""
parseEnvRef(ref) == ref[2] # ""

ValidateSecretRefSyntax(ref) ==
    /\ Len(ref) >= 2
    /\ CASE ref[1] = "op" -> ref[2] # ""
         [] ref[1] = "keychain" -> parseKeychainRef(ref)
         [] ref[1] = "env" -> parseEnvRef(ref)
         [] OTHER -> FALSE

At(template, part) == {i \in DOMAIN template : template[i] = part}

\* One base64( at most, closed, and nothing the renderer does not know.
validateTemplate(template, username) ==
    /\ At(template, "{token}") # {}
    /\ At(template, "{user}") # {} => username # ""
    /\ Cardinality(At(template, "base64(")) <= 1
    /\ \A i \in At(template, "base64(") : \E j \in At(template, ")") : j > i
    /\ At(template, "{x}") = {}

knownGitHubPermissionLevels == {"read", "write", "admin"}

validateRepoSlug(repo) == Len(repo) = 2 /\ repo[1] # "" /\ repo[2] # ""

\* permissions: the levels asked for.
validateGitHubAppMint(m) ==
    /\ ValidateSecretRefSyntax(m.key)
    /\ m.client_id # ""
    /\ validateRepoSlug(m.repo)
    /\ m.permissions \subseteq knownGitHubPermissionLevels

\* The endpoint is https, http, or empty, which stands for Google's.
validateOAuth2Mint(m) ==
    /\ ValidateSecretRefSyntax(m.refresh_token)
    /\ m.client_id # ""
    /\ m.token_endpoint = "https"

validateHeaderName(h) == h \notin {"", "bad header"}

\* A credential has one of three forms: a stored token, or one of two mints.
IsMinted(cred) == cred.github_app # <<>> \/ cred.oauth2 # <<>>

defaultCredentialHeader(cred) ==
    IF cred.header = "" THEN [cred EXCEPT !.header = "Authorization"] ELSE cred

defaultCredentialMinting(cred) ==
    IF cred.oauth2 = <<>> THEN cred
    ELSE [cred EXCEPT
            !.oauth2[1].token_endpoint = IF @ = "" THEN "https" ELSE @,
            !.oauth2[1].scopes = IF @ = {} THEN {"drive.file"} ELSE @]

ValidForm(cred) ==
    \/ /\ cred.source # NoRef /\ ~IsMinted(cred)
       /\ ValidateSecretRefSyntax(cred.source)
    \/ /\ cred.source = NoRef /\ cred.github_app # <<>> /\ cred.oauth2 = <<>>
       /\ validateGitHubAppMint(cred.github_app[1])
    \/ /\ cred.source = NoRef /\ cred.github_app = <<>> /\ cred.oauth2 # <<>>
       /\ validateOAuth2Mint(cred.oauth2[1])

validateCredential(name, cred) ==
    /\ name # ""
    /\ ValidForm(cred)
    /\ validateTemplate(cred.template, cred.username)
    /\ validateHeaderName(cred.header)
=============================================================================
