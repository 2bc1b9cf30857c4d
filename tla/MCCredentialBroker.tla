------------------------- MODULE MCCredentialBroker -------------------------
(***************************************************************************)
(* Instances of CredentialBroker for TLC.                                  *)
(***************************************************************************)
EXTENDS CredentialBroker

Creds2 == {"deploy", "api"}
Creds1 == {"api"}

\* What "api" is, beside a static token or a name the payload does not have.
MintedPayloads == {[deploy |-> "static", api |-> "github"],
                   [deploy |-> "absent", api |-> "oauth2"]}
GithubOnly == {[api |-> "github"]}

FaultScenarios == {{"fails", "rotates", "timeout"}, {"fails", "rotates", "lost", "keychain"},
                   {"rotates", "crash"}}
NoFaults == {{}}
=============================================================================
