------------------------------ MODULE MCServer ------------------------------
(***************************************************************************)
(* What the server does in several steps or goroutines, side by side: a       *)
(* behaviour follows one of the components.                                 *)
(***************************************************************************)
EXTENDS Cluster, TerminalSession, DeviceIdentity, NodeJobs

\* Two pods, one of them with two containers
MCPods == {"web", "db"}
MCContainers == [p \in MCPods |-> IF p = "web" THEN <<"main", "side">> ELSE <<"main">>]
MCManifests == <<"kube-apiserver", "kube-scheduler", "etcd">>

VARIABLE part   \* the component this behaviour is about

allVars == <<part, cvars, terminalVars, deviceVars, drainVars, shellVars, certVars>>

Parts == {"cluster", "terminal", "identity", "drain", "shell", "certificates"}

AnyInit ==
    /\ part \in Parts
    /\ ClusterInit /\ TerminalInit /\ DeviceInit /\ DrainInit /\ ShellInit /\ CertInit
    \* choices of ClusterInit, TerminalInit and DrainInit
    /\ part # "cluster" => up = connected
    /\ part # "terminal" => page.pod = "web" /\ page.shell = "sh"
    /\ part # "drain" => onNode = {}

AnyNext ==
    \/ part = "cluster" /\ ClusterNext /\ UNCHANGED <<part, terminalVars, deviceVars, drainVars, shellVars, certVars>>
    \/ part = "terminal" /\ TerminalNext /\ UNCHANGED <<part, cvars, deviceVars, drainVars, shellVars, certVars>>
    \/ part = "identity" /\ DeviceNext /\ UNCHANGED <<part, cvars, terminalVars, drainVars, shellVars, certVars>>
    \/ part = "drain" /\ DrainNext /\ UNCHANGED <<part, cvars, terminalVars, deviceVars, shellVars, certVars>>
    \/ part = "shell" /\ ShellNext /\ UNCHANGED <<part, cvars, terminalVars, deviceVars, drainVars, certVars>>
    \/ part = "certificates" /\ CertNext /\ UNCHANGED <<part, cvars, terminalVars, deviceVars, drainVars, shellVars>>

\* The fairness of each component, while it is the one that runs (the others
\* have nothing fair to do before their first action)
AnyFairness ==
    /\ WF_cvars(part = "cluster" /\ Tick)
    /\ \A g \in Goroutines : WF_cvars(part = "cluster" /\ Probe(g))
    /\ \A g \in Callers : /\ WF_cvars(part = "cluster" /\ PauseDisconnect(g))
                          /\ WF_cvars(part = "cluster" /\ PauseClear(g))
                          /\ WF_cvars(part = "cluster" /\ StopCancel(g))
                          /\ WF_cvars(part = "cluster" /\ StopClear(g))
    /\ TerminalFairness /\ JobsFairness

AnySpec == AnyInit /\ [][AnyNext]_allVars /\ AnyFairness
=============================================================================
