------------------------------- MODULE MCViews -------------------------------
(***************************************************************************)
(* What the pages show, side by side: a behaviour follows one of them.       *)
(***************************************************************************)
EXTENDS LogStreams, LogRing, LogView, MetricCharts, Ownership, PodStatus

MCSources == {"current", "previous"}
MCFinalSources == {"previous"}

\* A pod with all of the containers, and one with a single regular container
MCContainerSets == {AllContainers, {"app", "init"}}

\* Two objects that had the same name one after the other, what lies between
\* them and their pods, and a service
MCObjects == {"top1", "top2", "mid", "pod1", "pod2", "svc"}
MCNames == [o \in MCObjects |-> CASE o \in {"top1", "top2"} -> "top" [] o \in {"pod1", "pod2"} -> "pod" [] OTHER -> o]
Shape(top, mid) == [o \in MCObjects |-> CASE o \in {"top1", "top2"} -> top [] o = "mid" -> mid
                        [] o \in {"pod1", "pod2"} -> "Pod" [] OTHER -> "Service"]
MCShapes == {Shape("Deployment", "ReplicaSet"), Shape("CronJob", "Job")}
MCFixed == {"svc"}
MCBehind == [o \in MCFixed |-> {"pod1"}]

MCSpecs == {<<>>, <<"plain">>, <<"plain", "sidecar">>}
MCExits == {[why |-> "Completed", code |-> 0], [why |-> "Error", code |-> 1], [why |-> "OOMKilled", code |-> 137]}

VARIABLE part   \* the component this behaviour is about

allVars == <<part, logsVars, ringVars, viewVars, sourceVars, chartVars, objectVars, ownVars, podVars>>

Parts == {"streams", "ring", "logs", "chart", "panel", "objects", "pod"}

AnyInit ==
    /\ part \in Parts
    /\ LogsInit /\ RingInit /\ ViewInit /\ SourceInit /\ ChartInit /\ PanelInit /\ OwnInit /\ PodInit
    \* choices of ViewInit, RingInit, OwnInit and PodInit
    /\ part # "logs" => spec = AllContainers
    /\ part # "ring" => cap = HardCap /\ written = 0
    /\ part # "objects" => kind = Shape("Deployment", "ReplicaSet") /\ page.name = "top"
    /\ part # "pod" => initSpec = <<>> /\ policy = "Always"

AnyNext ==
    \/ /\ part = "streams" /\ LogsNext
       /\ UNCHANGED <<part, ringVars, viewVars, sourceVars, chartVars, objectVars, ownVars, podVars>>
    \/ /\ part = "ring" /\ RingNext
       /\ UNCHANGED <<part, logsVars, viewVars, sourceVars, chartVars, objectVars, ownVars, podVars>>
    \/ /\ part = "logs" /\ ViewNext
       /\ UNCHANGED <<part, logsVars, ringVars, sourceVars, chartVars, objectVars, ownVars, podVars>>
    \/ /\ part = "chart" /\ ChartNext
       /\ UNCHANGED <<part, logsVars, ringVars, viewVars, objectVars, ownVars, podVars>>
    \/ /\ part = "panel" /\ PanelNext
       /\ UNCHANGED <<part, logsVars, ringVars, viewVars, chartVars, ownVars, podVars>>
    \/ /\ part = "objects" /\ OwnNext
       /\ UNCHANGED <<part, logsVars, ringVars, viewVars, sourceVars, chartVars, objectVars, podVars>>
    \/ /\ part = "pod" /\ PodNext
       /\ UNCHANGED <<part, logsVars, ringVars, viewVars, sourceVars, chartVars, objectVars, ownVars>>

AnySpec == AnyInit /\ [][AnyNext]_allVars
=============================================================================
