------------------------------ MODULE PodStatus ------------------------------
(***************************************************************************)
(* What the browser says of a pod's state (frontend/src/lib/podStatus.ts,     *)
(* pages/columns.tsx): the chip, by which the list is filtered and counted;    *)
(* the squares of the containers; the badge of problems. Each reads the pod's  *)
(* status by rules of its own. The kubelet, which writes the status, is here   *)
(* as far as to give the statuses that pods really have.                     *)
(***************************************************************************)
EXTENDS Naturals, Sequences, FiniteSetsExt

CONSTANTS
    Specs,      \* sequences of init containers, each "plain" or "sidecar"
    NumMains,   \* the number of a pod's other containers
    Exits       \* the ways a container ends: records [why, code]

ASSUME PodAssumption ==
    /\ \A s \in Specs : \A k \in DOMAIN s : s[k] \in {"plain", "sidecar"}
    /\ NumMains \in Nat \ {0} /\ [why |-> "Completed", code |-> 0] \in Exits
    /\ \A e \in Exits : e.code = 0 <=> e.why = "Completed"

VARIABLES
    initSpec,       \* the pod's init containers
    policy,     \* restartPolicy: "Always" or "Never"
    inits,      \* initContainerStatuses
    mains,      \* containerStatuses: <<>> until the kubelet has reported any
    evicted,    \* the kubelet gave the pod up: phase Failed, reason Evicted
    deleting,   \* there is a deletionTimestamp
    lost        \* the node is not there any more: reason NodeLost

podVars == <<initSpec, policy, inits, mains, evicted, deleting, lost>>

Status(is, why, code, ready, began) == [is |-> is, why |-> why, code |-> code, ready |-> ready, began |-> began]
Waiting(why, began) == Status("waiting", why, 0, FALSE, began)
Running(ready) == Status("running", "none", 0, ready, TRUE)
Ended(exit) == Status("terminated", exit.why, exit.code, FALSE, TRUE)

(* The status that the kubelet derives from its containers *)
InitDone(k) ==
    IF initSpec[k] = "plain" THEN inits[k].is = "terminated" /\ inits[k].code = 0 ELSE inits[k].began
Initialized == \A k \in DOMAIN inits : InitDone(k)
Stopped(c) == c.is = "terminated" \/ (c.is = "waiting" /\ c.began)
GivenUp == evicted \/ (policy = "Never" /\ \E k \in DOMAIN inits : inits[k].code # 0)
Starting == ~Initialized \/ mains = <<>> \/ \E k \in DOMAIN mains : mains[k].is = "waiting" /\ ~mains[k].began
Over == policy = "Never" /\ \A k \in DOMAIN mains : Stopped(mains[k])
Phase ==
    CASE GivenUp -> "Failed"
      [] ~GivenUp /\ Starting -> "Pending"
      [] ~GivenUp /\ ~Starting /\ Over ->
           IF \A k \in DOMAIN mains : mains[k].code = 0 THEN "Succeeded" ELSE "Failed"
      [] OTHER -> "Running"
ReadyCondition == Phase = "Running" /\ \A k \in DOMAIN mains : mains[k].ready

-----------------------------------------------------------------------------
(* podStatus.ts: a label is a text, after "Init:" or not *)
Plain(text) == [init |-> FALSE, text |-> text]
OfInit(text) == [init |-> TRUE, text |-> text]
StatusReason == IF evicted THEN "Evicted" ELSE IF lost THEN "NodeLost" ELSE "none"
NumReady == Cardinality({k \in DOMAIN mains : mains[k].ready})

InitLabel ==
    LET c == inits[Min({k \in DOMAIN inits : ~(inits[k].is = "terminated" /\ inits[k].code = 0)})]
    IN OfInit(IF c.is = "running" THEN "progress" ELSE c.why)
(* The first of the containers that does not run gives the label; a pod that   *)
(* runs in part is not complete.                                             *)
MainLabel(before) ==
    LET down == {k \in DOMAIN mains : mains[k].is # "running"}
        label == IF down = {} THEN before ELSE Plain(mains[Min(down)].why)
        runs == \E k \in DOMAIN mains : mains[k].is = "running" /\ mains[k].ready
    IN IF label \in {Plain("Completed"), Plain("Succeeded")} /\ runs
       THEN Plain(IF ReadyCondition THEN "Running" ELSE "NotReady") ELSE label
Label ==
    LET initializing == \E k \in DOMAIN inits : ~(inits[k].is = "terminated" /\ inits[k].code = 0)
        first == IF initializing THEN InitLabel
                 ELSE Plain(IF StatusReason # "none" THEN StatusReason ELSE Phase)
    IN IF deleting THEN Plain(IF lost THEN "Unknown" ELSE "Terminating")
       ELSE IF ~initializing \/ Initialized THEN MainLabel(first) ELSE first

(* statusKind; the texts that its expressions match *)
Preparing == {"ContainerCreating", "PodInitializing"}
Failing == {"CrashLoopBackOff", "ImagePullBackOff", "InvalidImageName", "Error", "OOMKilled", "Evicted", "Failed"}
Kind(label, phase, ready, total) ==
    CASE label = Plain("Running") -> IF ready >= total THEN "ok" ELSE "warn"
      [] label # Plain("Running") /\ (label \in {Plain("Completed"), Plain("Succeeded")} \/ phase = "Succeeded") -> "info"
      [] label # Plain("Running") /\ phase # "Succeeded"
         /\ (label.init \/ label.text \in {"Pending", "Terminating", "NotReady"} \cup Preparing) -> "warn"
      [] OTHER -> IF phase = "Failed" \/ label.text \in Failing THEN "bad" ELSE "mute"

(* podDisplayStatus and containerDisplayStatus *)
Chip == Kind(Label, Phase, NumReady, NumMains)
Square(c) ==
    LET label == IF deleting THEN (IF lost THEN "Unknown" ELSE "Terminating")
                 ELSE IF c.is = "running" THEN (IF c.ready THEN "Running" ELSE "NotReady") ELSE c.why
    IN Kind(Plain(label), Phase, IF c.ready THEN 1 ELSE 0, 1)

(* issuesFor a pod, without its events: how severe, and of what *)
Alarming == Failing \ {"InvalidImageName", "OOMKilled", "Evicted"}
(* Mutant of Exited: the first exit code alone is looked at. *)
ExitedFirst(statuses) == {k \in DOMAIN statuses : k = 1 /\ statuses[k].is = "terminated" /\ statuses[k].code # 0}
Exited(statuses) == {k \in DOMAIN statuses : statuses[k].is = "terminated" /\ statuses[k].code # 0}
Stuck(statuses, allowed) == {k \in DOMAIN statuses : statuses[k].is = "waiting" /\ statuses[k].why \notin allowed}
Severity(statuses, k) == IF statuses[k].why \in Alarming THEN "bad" ELSE "warn"
Issues ==
    (IF deleting THEN {<<"warn", "deletion">>} ELSE {})
    \cup (IF Phase = "Failed" THEN {<<"bad", "phase">>} ELSE IF Phase = "Pending" THEN {<<"warn", "phase">>} ELSE {})
    \cup {<<Severity(inits, k), "init", k>> : k \in Stuck(inits, {"PodInitializing"})}
    \cup {<<"bad", "init", k>> : k \in Exited(inits)}
    \cup {<<Severity(mains, k), "main", k>> : k \in Stuck(mains, {})}
    \cup (IF Phase = "Succeeded" THEN {} ELSE {<<"bad", "main", k>> : k \in Exited(mains)})
Badge == IF Issues = {} THEN "none" ELSE IF \E i \in Issues : i[1] = "bad" THEN "bad" ELSE "warn"

-----------------------------------------------------------------------------
PodInit ==
    /\ initSpec \in Specs /\ policy \in {"Always", "Never"} /\ mains = <<>>
    /\ inits = [k \in DOMAIN initSpec |-> Waiting("PodInitializing", FALSE)]
    /\ evicted = FALSE /\ deleting = FALSE /\ lost = FALSE

Alive == ~evicted /\ ~lost /\ Phase \notin {"Succeeded", "Failed"}
(* The kubelet *)
InitBecomes(k, c) ==
    /\ Alive /\ \A j \in 1..(k - 1) : InitDone(j)
    /\ inits' = [inits EXCEPT ![k] = c] /\ UNCHANGED <<initSpec, policy, mains, evicted, deleting, lost>>
InitStep(k) ==
    \/ inits[k].is = "waiting" /\ ~deleting /\ InitBecomes(k, Running(FALSE))
    \/ \E exit \in Exits : inits[k].is = "running" /\ InitBecomes(k, Ended(exit))
    \/ /\ inits[k].is = "terminated" /\ policy = "Always" /\ (initSpec[k] = "sidecar" \/ inits[k].code # 0)
       /\ InitBecomes(k, Waiting("CrashLoopBackOff", TRUE))
Report ==
    /\ Alive /\ mains = <<>>
    /\ mains' = [k \in 1..NumMains |-> Waiting("PodInitializing", FALSE)]
    /\ UNCHANGED <<initSpec, policy, inits, evicted, deleting, lost>>
MainBecomes(k, c) ==
    /\ Alive /\ Initialized
    /\ mains' = [mains EXCEPT ![k] = c] /\ UNCHANGED <<initSpec, policy, inits, evicted, deleting, lost>>
MainStep(k) ==
    \/ /\ mains[k].is = "waiting" /\ ~mains[k].began
       /\ \E why \in {"ContainerCreating", "ImagePullBackOff", "InvalidImageName"} : MainBecomes(k, Waiting(why, FALSE))
    \/ mains[k].is = "waiting" /\ mains[k].why # "InvalidImageName" /\ ~deleting /\ MainBecomes(k, Running(FALSE))
    \/ mains[k].is = "running" /\ MainBecomes(k, Running(~mains[k].ready))
    \/ \E exit \in Exits : mains[k].is = "running" /\ MainBecomes(k, Ended(exit))
    \/ mains[k].is = "terminated" /\ policy = "Always" /\ MainBecomes(k, Waiting("CrashLoopBackOff", TRUE))
(* The kubelet evicts the pod, and reports what it had started as killed. *)
Evict ==
    /\ Alive /\ evicted' = TRUE
    /\ mains' = [k \in DOMAIN mains |-> IF mains[k].is = "running" THEN Ended([why |-> "Error", code |-> 137]) ELSE mains[k]]
    /\ UNCHANGED <<initSpec, policy, inits, deleting, lost>>
DeletePod == ~deleting /\ deleting' = TRUE /\ UNCHANGED <<initSpec, policy, inits, mains, evicted, lost>>
LoseNode == Alive /\ deleting /\ lost' = TRUE /\ UNCHANGED <<initSpec, policy, inits, mains, evicted, deleting>>

PodNext ==
    \/ \E k \in DOMAIN inits : InitStep(k)
    \/ \E k \in DOMAIN mains : MainStep(k)
    \/ Report \/ Evict \/ DeletePod \/ LoseNode

PodSpec == PodInit /\ [][PodNext]_podVars

-----------------------------------------------------------------------------
(* A pod that does its work *)
Healthy ==
    /\ Initialized /\ mains # <<>> /\ ~deleting /\ ~evicted
    /\ \A k \in DOMAIN mains : mains[k].is = "running" /\ mains[k].ready
HasSidecar == \E k \in DOMAIN initSpec : initSpec[k] = "sidecar"

(* A pod is counted and shown as Running exactly when it does its work: every   *)
(* container runs and is ready, and nobody deletes it; then all its squares     *)
(* are green and it has no badge. (A pod with a sidecar never is: the sidecar    *)
(* counts as an init container that is not done, and the chip stays Init:0/1.)  *)
GreenIsHealthy ==
    /\ Chip = "ok" => Healthy /\ Badge = "none" /\ \A k \in DOMAIN mains : Square(mains[k]) = "ok"
    /\ Healthy /\ ~HasSidecar => Chip = "ok"

(* Chip, squares and badge do not contradict one another: what is red as a chip *)
(* or has a red square has a badge too, and a red badge is never beside a green *)
(* chip.                                                                     *)
ReadingsAgree ==
    /\ Chip = "bad" \/ (\E k \in DOMAIN mains : Square(mains[k]) = "bad") => Badge # "none"
    /\ Badge = "bad" => Chip # "ok"

(* Both: what the rows and pages say of a pod is consistent and never too good. *)
PodIsReadRight == GreenIsHealthy /\ ReadingsAgree
=============================================================================
