------------------------- MODULE MCProxyLifecycle -------------------------
(***************************************************************************)
(* Instances of ProxyLifecycle for TLC: PIDs, ports, and the scenarios     *)
(* (sets of things the environment does) each run explores.                *)
(***************************************************************************)
EXTENDS ProxyLifecycle

Pids5 == 1..5
Pids6 == 1..6
Ports1 == 1..1
Ports2 == 1..2

\* Users, operators and SIGKILL outside the flock.
OrderlyScenario == Orderly
\* Daemons crash and somebody insists on a clean.
CrashScenario == {"proxyCrash", "brokerCrash", "doctor", "clean", "force"}
\* The proxy's port is lost to another process.
PortScenario == {"proxyCrash", "foreignPort"}
\* PIDs come back as other processes.
ReuseScenario == {"kill", "recycle", "proxyCrash"}
\* The holder of the flock dies anywhere, calls fail.
FaultScenario == {"killInLock", "torn", "io", "force", "recycle"}

SafetyScenarios == {OrderlyScenario, CrashScenario, PortScenario,
                    ReuseScenario, FaultScenario}
PlainScenarios == {{"doctor", "clean", "brokerCrash"}}
CrashOnly == {{"proxyCrash"}}
NoFaults == {{}}
=============================================================================
