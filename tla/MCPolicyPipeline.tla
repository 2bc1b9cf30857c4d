-------------------------- MODULE MCPolicyPipeline --------------------------
(***************************************************************************)
(* Instances of PolicyPipeline for TLC.                                    *)
(***************************************************************************)
EXTENDS PolicyPipeline, TLC

\* Each command adds a rule of its own.
OwnRules == CHOOSE f \in [Cmds -> Rules] :
                \A c, d \in Cmds : c # d => f[c] # f[d]
SameRule == [c \in Cmds |-> CHOOSE r \in Rules : TRUE]

\* Two commands on the project file, or compiling on the side, no session.
EditScenario == {"project", "remove", "refresh", "kill"}
\* Two files, two locks, and failing builds.
TwoFilesScenario == {"project", "global", "show", "fails"}
\* A developer's editor and commands, no session.
EditorScenario == {"hand", "project", "remove"}
\* One session: with commands on the project file and failing builds, on the
\* overlay, and with an editor.
SessionScenario == {"session", "project", "fails"}
OnceScenario == {"session", "once"}
HandScenario == {"session", "hand"}
\* Several sessions, starting and ending.
AgentsScenario == {"agents"}

PipelineScenarios == {EditScenario, TwoFilesScenario, EditorScenario,
                      SessionScenario, OnceScenario, HandScenario,
                      AgentsScenario}
TwoLocks == {{"project", "global"}}
OnceOnly == {{"agents", "once"}}
=============================================================================
