------------------------------- MODULE NodeJobs -------------------------------
(***************************************************************************)
(* What the server does to a node, on the page's word.                       *)
(*                                                                         *)
(* A shell (internal/api/nodeshell.go, onNodeShell and the node list's menu   *)
(* of the page): the handler creates a privileged pod, polls it until its      *)
(* container runs, and answers with its name; the page opens a session of      *)
(* exec on it. An image may not be there to pull, or take longer than the      *)
(* handler waits; the browser may give up before the answer.                *)
(*                                                                         *)
(* The renewal of certificates (kubeadmScript in internal/api/nodekubeadm.go):*)
(* a privileged pod that runs a script on the host, one for each confirmed     *)
(* click. The script renews, moves the manifests of the static pods out,       *)
(* sleeps, moves back whatever is out. set -e ends it at a command that fails,  *)
(* unless "|| true" follows; several may run at once.                        *)
(*                                                                         *)
(* A drain (drain in internal/api/handlers.go, onDrainNode in frontend/src/     *)
(* pages/ResourceDetailPage.tsx): cordon, list the pods of the node, evict one *)
(* after the other, report two numbers. Meanwhile the scheduler places pods,   *)
(* which it decides on before it binds them; others cordon and uncordon; a     *)
(* disruption budget refuses evictions.                                     *)
(***************************************************************************)
EXTENDS Naturals, Sequences, SequencesExt, FiniteSets

CONSTANTS
    ShellAsks,   \* bound: clicks on "Open node shell"
    Manifests,   \* kube-apiserver, kube-controller-manager, ... in the script's order
    Scripts,     \* bound: pods that run the script
    NodePods,    \* pods that may be on the node
    Exempt       \* those of DaemonSets, and mirror pods

ASSUME JobsAssumption == Manifests \in Seq(ToSet(Manifests))

VARIABLES
    spawn,    \* ShellAsks -> the request
    podState, \* ShellAsks -> the pod's container, as the API server has it
    ran,      \* history: whether it has run
    session,  \* ShellAsks -> the session in the bottom pane
    inPlace,  \* manifests under /etc/kubernetes/manifests; the others are out
    script,   \* Scripts -> where the script is, and the names it still has to move
    cordoned,
    decided,    \* pods the scheduler is about to bind to the node
    onNode,     \* pods bound to the node, those that terminate there among them
    leaving,    \* pods whose eviction was accepted: they terminate, as long as that takes
    drain,      \* the request
    refused,    \* history: evictions that failed in this drain
    excused     \* history: pods that were on their way when the node was cordoned, or after somebody uncordoned it

shellVars == <<spawn, podState, ran, session>>
certVars == <<inPlace, script>>
drainVars == <<cordoned, decided, onNode, leaving, drain, refused, excused>>

Waiting == {"creating", "ErrImagePull"}   \* one reason the poll goes on with, and one that ends it

ShellInit ==
    /\ spawn = [a \in ShellAsks |-> "none"] /\ podState = [a \in ShellAsks |-> "absent"]
    /\ ran = [a \in ShellAsks |-> FALSE] /\ session = [a \in ShellAsks |-> "none"]

-----------------------------------------------------------------------------
(* The page *)
ClickShell(a) ==
    /\ spawn[a] = "none" /\ spawn' = [spawn EXCEPT ![a] = "asked"] /\ UNCHANGED <<podState, ran, session>>
Answer(a) ==
    /\ spawn[a] = "started" /\ spawn' = [spawn EXCEPT ![a] = "answered"]
    /\ session' = [session EXCEPT ![a] = "open"] /\ UNCHANGED <<podState, ran>>
(* closeTab removes the reference from the address; that is all there is. *)
CloseSession(a) ==
    /\ session[a] = "open" /\ session' = [session EXCEPT ![a] = "closed"] /\ UNCHANGED <<spawn, podState, ran>>
(* The browser reloads or leaves: the request's context ends. *)
GiveUp(a) ==
    /\ spawn[a] \in {"asked", "waiting", "started"} /\ spawn' = [spawn EXCEPT ![a] = "failed"]
    /\ UNCHANGED <<podState, ran, session>>

-----------------------------------------------------------------------------
(* The handler *)
CreatePod(a) ==
    /\ spawn[a] = "asked"
    /\ \/ spawn' = [spawn EXCEPT ![a] = "waiting"] /\ podState' = [podState EXCEPT ![a] = "creating"]
       \/ spawn' = [spawn EXCEPT ![a] = "failed"] /\ UNCHANGED podState
    /\ UNCHANGED <<ran, session>>
(* waitForContainerRunning: a container that is still waiting, or has ended,  *)
(* is polled again.                                                         *)
Started(state) == state = "running"
GivesUpOn(state) == state \in {"absent", "ErrImagePull"}
PollContainer(a) ==
    /\ spawn[a] = "waiting"
    /\ \/ Started(podState[a]) /\ spawn' = [spawn EXCEPT ![a] = "started"]
       \/ GivesUpOn(podState[a]) /\ ~Started(podState[a]) /\ spawn' = [spawn EXCEPT ![a] = "failed"]
    /\ UNCHANGED <<podState, ran, session>>
(* Mutant of Deadline: it is that of pulling the image. *)
DeadlineOfPull(a) ==
    /\ spawn[a] = "waiting" /\ podState[a] \in Waiting /\ spawn' = [spawn EXCEPT ![a] = "failed"]
    /\ UNCHANGED <<podState, ran, session>>
Deadline(a) ==
    /\ spawn[a] = "waiting" /\ spawn' = [spawn EXCEPT ![a] = "failed"]
    /\ UNCHANGED <<podState, ran, session>>

-----------------------------------------------------------------------------
(* The kubelet, and whoever deletes the pod by hand *)
Waits(a) ==
    /\ podState[a] \in Waiting
    /\ \E why \in Waiting : podState' = [podState EXCEPT ![a] = why]
    /\ UNCHANGED <<spawn, ran, session>>
Runs(a) ==
    /\ podState[a] \in Waiting
    /\ podState' = [podState EXCEPT ![a] = "running"] /\ ran' = [ran EXCEPT ![a] = TRUE]
    /\ UNCHANGED <<spawn, session>>
Ends(a) ==
    /\ podState[a] = "running" /\ podState' = [podState EXCEPT ![a] = "ended"]
    /\ UNCHANGED <<spawn, ran, session>>
Removed(a) ==
    /\ podState[a] # "absent" /\ podState' = [podState EXCEPT ![a] = "absent"]
    /\ UNCHANGED <<spawn, ran, session>>

ShellNext == \E a \in ShellAsks :
    \/ ClickShell(a) \/ Answer(a) \/ CloseSession(a) \/ GiveUp(a) \/ CreatePod(a) \/ PollContainer(a) \/ Deadline(a)
    \/ Waits(a) \/ Runs(a) \/ Ends(a) \/ Removed(a)

-----------------------------------------------------------------------------
AllFiles == ToSet(Manifests)
At(pc, files) == [at |-> pc, files |-> files]

CertInit == inPlace = AllFiles /\ script = [s \in Scripts |-> At("none", <<>>)]

(* The order of the commands. *)
Following(at) == CASE at = "none" -> "renewing" [] at = "renewing" -> "testing" [] OTHER -> "sleeping"
Go(at) == At(at, IF at = "testing" THEN Manifests ELSE <<>>)
(* nodeKubeadm creates the pod; the pod runs once. kubeadm may fail. *)
StartScript(s) ==
    /\ script[s].at = "none" /\ script' = [script EXCEPT ![s] = Go(Following("none"))] /\ UNCHANGED inPlace
Renewed(s) ==
    /\ script[s].at = "renewing"
    /\ \E then \in {Following("renewing"), "ended"} : script' = [script EXCEPT ![s] = Go(then)]
    /\ UNCHANGED inPlace
(* [ -f "$m.yaml" ] && mv || true: the file may go between the two. *)
Test(s) ==
    /\ script[s].at = "testing" /\ script[s].files # <<>>
    /\ script' = [script EXCEPT ![s] = IF Head(@.files) \in inPlace THEN At("moving", @.files)
                                       ELSE At("testing", Tail(@.files))]
    /\ UNCHANGED inPlace
MoveOut(s) ==
    /\ script[s].at = "moving"
    /\ LET file == Head(script[s].files)
       IN IF file \in inPlace
          THEN inPlace' = inPlace \ {file} /\ script' = [script EXCEPT ![s] = At("testing", Tail(@.files))]
          ELSE UNCHANGED inPlace /\ script' = [script EXCEPT ![s] = At("testing", Tail(@.files))]
Slept(s) ==
    /\ script[s].at = "testing" /\ script[s].files = <<>>
    /\ script' = [script EXCEPT ![s] = Go(Following("testing"))] /\ UNCHANGED inPlace
(* mv *.yaml: the shell lists the names, mv moves those that are still there. *)
List(s) ==
    LET out == AllFiles \ inPlace
    IN /\ script[s].at = "sleeping"
       /\ \E names \in [1..Cardinality(out) -> out] :   \* each once, in the order of the listing
             ToSet(names) = out /\ script' = [script EXCEPT ![s] = At("returning", names)]
       /\ UNCHANGED inPlace
MoveBack(s) ==
    /\ script[s].at = "returning"
    /\ IF script[s].files = <<>>
       THEN UNCHANGED inPlace /\ script' = [script EXCEPT ![s] = At("ended", <<>>)]
       ELSE inPlace' = inPlace \cup {Head(script[s].files)} /\ script' = [script EXCEPT ![s].files = Tail(@)]

(* The pod is deleted, or its node goes down, wherever the script is. *)
Killed(s) ==
    /\ script[s].at \notin {"none", "ended", "killed"} /\ script' = [script EXCEPT ![s] = At("killed", <<>>)]
    /\ UNCHANGED inPlace

CertNext == \E s \in Scripts :
    StartScript(s) \/ Renewed(s) \/ Test(s) \/ MoveOut(s) \/ Slept(s) \/ List(s) \/ MoveBack(s) \/ Killed(s)

-----------------------------------------------------------------------------
DrainInit ==
    /\ cordoned = FALSE /\ decided = {} /\ onNode \in SUBSET NodePods /\ leaving = {}
    /\ refused = {} /\ excused = {}
    /\ drain = [at |-> "idle", todo |-> {}, evicted |-> 0, skipped |-> 0]

-----------------------------------------------------------------------------
(* Draining a node: what the handler does next. Mutant of After: it lists the pods first. *)
AfterListFirst(at) ==
    CASE at = "to list" -> "to cordon" [] at = "to cordon" -> "evicting" [] OTHER -> "to list"
After(at) == CASE at = "to cordon" -> "to list" [] at = "to list" -> "evicting" [] OTHER -> "to cordon"
BeginDrain ==
    /\ drain.at \in {"idle", "failed", "drained"}
    /\ drain' = [at |-> After("idle"), todo |-> {}, evicted |-> 0, skipped |-> 0] /\ refused' = {}
    /\ UNCHANGED <<cordoned, decided, onNode, excused, leaving>>
DrainFails ==
    /\ drain.at \in {"to cordon", "to list"} /\ drain' = [drain EXCEPT !.at = "failed"]
    /\ UNCHANGED <<cordoned, decided, onNode, refused, excused, leaving>>
CordonNode ==
    /\ drain.at = "to cordon" /\ drain' = [drain EXCEPT !.at = After(@)]
    /\ cordoned' = TRUE /\ excused' = decided /\ UNCHANGED <<decided, onNode, refused, leaving>>
(* The second request lists, and the loop walks over the list. *)
ListPods ==
    /\ drain.at = "to list" /\ drain' = [drain EXCEPT !.at = After(@), !.todo = onNode]
    /\ UNCHANGED <<cordoned, decided, onNode, refused, excused, leaving>>
Skip(p) ==
    /\ drain.at = "evicting" /\ p \in drain.todo \cap Exempt
    /\ drain' = [drain EXCEPT !.todo = @ \ {p}, !.skipped = @ + 1]
    /\ UNCHANGED <<cordoned, decided, onNode, refused, excused, leaving>>
(* The API server accepts: the pod is deleted with its grace period. Nobody     *)
(* waits for it to go.                                                      *)
Evict(p) ==
    /\ drain.at = "evicting" /\ p \in drain.todo \ Exempt /\ p \in onNode
    /\ drain' = [drain EXCEPT !.todo = @ \ {p}, !.evicted = @ + 1] /\ leaving' = leaving \cup {p}
    /\ UNCHANGED <<cordoned, decided, onNode, refused, excused>>
(* The budget refuses, or the pod has gone. *)
EvictFails(p) ==
    /\ drain.at = "evicting" /\ p \in drain.todo \ Exempt
    /\ drain' = [drain EXCEPT !.todo = @ \ {p}, !.skipped = @ + 1] /\ refused' = refused \cup {p}
    /\ UNCHANGED <<cordoned, decided, onNode, excused, leaving>>
(* The answer, which the page reports as a success. *)
Drained ==
    /\ drain.at = "evicting" /\ drain.todo = {} /\ drain' = [drain EXCEPT !.at = "drained"]
    /\ UNCHANGED <<cordoned, decided, onNode, refused, excused, leaving>>

-----------------------------------------------------------------------------
(* The cluster. DaemonSet pods tolerate the cordon; whoever uncordons ends the promise. *)
Decide(p) ==
    /\ p \notin onNode \cup decided /\ (~cordoned \/ p \in Exempt)
    /\ decided' = decided \cup {p} /\ UNCHANGED <<cordoned, onNode, drain, refused, excused, leaving>>
Bind(p) ==
    /\ p \in decided /\ decided' = decided \ {p} /\ onNode' = onNode \cup {p}
    /\ UNCHANGED <<cordoned, drain, refused, excused, leaving>>
(* It has terminated: evicted, deleted by somebody else, or done. *)
PodEnds(p) ==
    /\ p \in onNode /\ onNode' = onNode \ {p} /\ leaving' = leaving \ {p}
    /\ UNCHANGED <<cordoned, decided, drain, refused, excused>>
Uncordon ==
    /\ cordoned /\ cordoned' = FALSE /\ excused' = NodePods
    /\ UNCHANGED <<decided, onNode, drain, refused, leaving>>
CordonAlone ==
    /\ ~cordoned /\ drain.at \in {"idle", "drained", "failed"} /\ cordoned' = TRUE
    /\ UNCHANGED <<decided, onNode, drain, refused, excused, leaving>>

DrainNext ==
    \/ BeginDrain \/ DrainFails \/ CordonNode \/ ListPods \/ Drained \/ Uncordon \/ CordonAlone
    \/ \E p \in NodePods : Skip(p) \/ Evict(p) \/ EvictFails(p) \/ Decide(p) \/ Bind(p) \/ PodEnds(p)
DrainSpec == DrainInit /\ [][DrainNext]_drainVars

JobsNext ==
    \/ ShellNext /\ UNCHANGED certVars
    \/ CertNext /\ UNCHANGED shellVars
(* A request for a shell is handled and answered: the context of its wait ends   *)
(* after two minutes, whatever the kubelet does.                            *)
JobsFairness == \A a \in ShellAsks : WF_shellVars((CreatePod(a) \/ Deadline(a) \/ Answer(a)) /\ UNCHANGED certVars)
JobsSpec == ShellInit /\ CertInit /\ [][JobsNext]_<<shellVars, certVars>> /\ JobsFairness

-----------------------------------------------------------------------------
(* A session is only opened on a container that has run: exec on one that has *)
(* not is closed at once (nodeshell.go:112-124).                            *)
ShellHasRun == \A a \in ShellAsks : session[a] # "none" => ran[a]
(* Every request for a shell is answered, also one whose container comes and   *)
(* goes without a state the poll waits for (nodeshell.go:119-121, 137-175).    *)
ShellIsAnswered == \A a \in ShellAsks : spawn[a] = "asked" ~> spawn[a] \in {"answered", "failed"}
(* Both: whoever asks for a shell gets one that runs, or is told that it failed. *)
ShellsAnswered == []ShellHasRun /\ ShellIsAnswered

(* Whatever scripts overlap and whichever of them fails to renew, when all    *)
(* have ended and none was killed every manifest is back: no part of the       *)
(* control plane stays down (nodekubeadm.go:172-192). Two confirmed clicks are *)
(* enough to overlap.                                                      *)
ManifestsReturn == (\A s \in Scripts : script[s].at \in {"none", "ended"}) => inPlace = AllFiles

(* Both: what the server starts on a node comes to its end.                    *)
JobsEndWell == []ManifestsReturn /\ ShellsAnswered

(* When a drain is answered, whoever is left on the node is exempt, was refused *)
(* its eviction, was on its way before the node was cordoned, or terminates:    *)
(* because the list comes after the cordon, no pod slips in between, and none    *)
(* of the list is forgotten (handlers.go:683-717). Pods that terminate may       *)
(* still run when the page says "Drained".                                  *)
DrainMissesNobody == drain.at = "drained" => onNode \subseteq Exempt \cup refused \cup excused \cup leaving
=============================================================================
