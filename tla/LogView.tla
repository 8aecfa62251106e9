------------------------------ MODULE LogView ------------------------------
(***************************************************************************)
(* What the log page shows of a pod (frontend/src/pages/PodLogsPage.tsx):   *)
(* the containers picked, of those the pod is known to have, and the earlier *)
(* instance of them. What is known of the pod comes and goes with the watch; *)
(* the page stays when the user turns to another pod of the workload.        *)
(***************************************************************************)
EXTENDS Naturals, FiniteSets

CONSTANTS
    AllContainers,  \* names of containers
    Regular,        \* those that are neither init nor ephemeral containers
    ContainerSets   \* bound: the sets of containers that pods have

ASSUME LogViewAssumption ==
    /\ Regular \subseteq AllContainers
    /\ ContainerSets \subseteq SUBSET AllContainers \ {{}}

VARIABLES
    spec,         \* at the server: the containers of the page's pod, {} if it is gone
    restarted,    \* those with an earlier instance
    listed,       \* the watch has the pod
    queried,      \* the answer of the page's own request, an earlier page's to begin with, or {}
    pooled,       \* the containers with a stream in the pool
    given,        \* initialContainer, or "none"
    picked,       \* selectedContainers: Unset, AllPicked or some names
    initialized,  \* initializedRef
    previous      \* the Previous toggle

knowledge == <<spec, restarted, listed, queried, pooled>>
selection == <<given, picked, initialized>>
viewVars == <<knowledge, selection, previous>>

(* picked as a record: "unset", "all", or "some" of the names *)
Pick(names) == [mode |-> "some", names |-> names]
Unset == [mode |-> "unset", names |-> {}]
AllPicked == [mode |-> "all", names |-> {}]

(* containerOptions *)
Options ==
    CASE listed -> spec
      [] ~listed /\ queried # {} -> queried
      [] OTHER -> IF pooled # {} THEN pooled ELSE IF given = "none" THEN {} ELSE {given}
FirstRegular(opts) ==
    IF opts = {} THEN {} ELSE {CHOOSE c \in opts : c \in Regular \/ opts \cap Regular = {}}
Active(opts) ==
    CASE picked.mode = "all" -> opts
      [] picked.mode # "all" /\ picked.names \cap opts # {} -> picked.names \cap opts
      [] OTHER -> FirstRegular(opts)
LogContainers == IF previous THEN Active(Options) \cap restarted ELSE Active(Options)

(* The two effects: the first pick, and the names that are gone *)
Defaulted(p, opts) == IF p.mode = "unset" THEN Pick(FirstRegular(opts)) ELSE p
(* Mutant of Kept: a container that is gone takes the whole pick with it. *)
KeptWhole(p, opts) == IF p.mode = "some" /\ ~ p.names \subseteq opts THEN Pick(FirstRegular(opts)) ELSE p
Kept(p, opts) ==
    CASE p.mode # "some" -> p
      [] p.mode = "some" /\ p.names \cap opts = {} -> Pick(FirstRegular(opts))
      [] OTHER -> Pick(p.names \cap opts)
EffectsOn(p, done) ==
    IF Options' = {} THEN picked' = p /\ initialized' = done
    ELSE /\ initialized' = TRUE
         /\ picked' = Kept(IF done THEN p ELSE Defaulted(p, Options'), Options')
Effects == EffectsOn(picked, initialized)

ViewInit ==
    /\ spec \in ContainerSets /\ restarted = {} /\ listed = FALSE /\ queried = {} /\ pooled = {}
    /\ given = "none" /\ picked = Unset /\ initialized = FALSE
    /\ previous = FALSE

-----------------------------------------------------------------------------
(* The pod, and what the page learns of it *)
SpecChanges(s) ==
    /\ spec # s /\ spec' = s /\ restarted' = restarted \cap s
    /\ listed' = (listed /\ s # {})
    /\ UNCHANGED <<queried, pooled, given, previous>> /\ Effects
ContainerRestarts(c) ==
    /\ c \in spec \ restarted /\ restarted' = restarted \cup {c}
    /\ UNCHANGED <<spec, listed, queried, pooled, selection, previous>>
PodListArrives ==
    /\ ~listed /\ spec # {} /\ listed' = TRUE
    /\ UNCHANGED <<spec, restarted, queried, pooled, given, previous>> /\ Effects
QueryAnswers ==
    /\ queried # spec /\ spec # {} /\ queried' = spec
    /\ UNCHANGED <<spec, restarted, listed, pooled, given, previous>> /\ Effects
(* useLogBundle opens a stream for each of the containers on display. *)
StreamsOpen ==
    /\ ~ LogContainers \subseteq pooled /\ pooled' = pooled \cup LogContainers
    /\ UNCHANGED <<spec, restarted, listed, queried, given, previous>> /\ Effects

-----------------------------------------------------------------------------
(* The user: another pod, of which more or less is known already, in a new   *)
(* page or in this one (another pod of the workload) *)
Turned ==
    /\ spec' \in {{}} \cup ContainerSets /\ restarted' = {} /\ listed' \in BOOLEAN /\ (listed' => spec' # {})
    /\ queried' \in {{}} \cup ContainerSets /\ pooled' \in {{}} \cup {{c} : c \in Regular}
MountLogs(c) ==
    /\ Turned /\ given' = c
    /\ previous' = FALSE
    /\ EffectsOn(IF c = "none" THEN Unset ELSE Pick({c}), c # "none")
OtherPod ==
    /\ Turned
    /\ UNCHANGED <<given, previous>> /\ Effects
(* toggleOne of the ContainerPicker *)
Toggled(c) ==
    LET shown == IF picked.mode = "all" THEN Options ELSE picked.names
        next == IF c \in shown THEN shown \ {c} ELSE shown \cup {c}
        alone == Cardinality(Options) <= 1 \/ next = {}
    IN CASE alone -> Pick({c})
         [] ~alone /\ Cardinality(next) = Cardinality(Options) -> AllPicked
         [] OTHER -> Pick(next)
PickContainer(c) ==
    /\ c \in Options /\ picked' = Toggled(c)
    /\ UNCHANGED <<knowledge, given, initialized, previous>>
PickAll ==
    /\ Options # {} /\ picked' = AllPicked
    /\ UNCHANGED <<knowledge, given, initialized, previous>>
TogglePrevious ==
    /\ Active(Options) \cap restarted # {} /\ previous' = ~previous
    /\ UNCHANGED <<knowledge, selection>>

UserPicks ==
    \/ PickAll
    \/ \E c \in AllContainers : PickContainer(c)
    \/ \E c \in Regular \cup {"none"} : MountLogs(c)
ViewNext ==
    \/ \E s \in {{}} \cup ContainerSets : SpecChanges(s)
    \/ \E c \in AllContainers : ContainerRestarts(c)
    \/ PodListArrives \/ QueryAnswers \/ StreamsOpen \/ OtherPod
    \/ UserPicks \/ TogglePrevious

ViewSpec == ViewInit /\ [][ViewNext]_viewVars

-----------------------------------------------------------------------------
(* What the user picked stays picked for as long as the pod has it, whichever  *)
(* of the watch, the page's own request and the pool says late or in part what *)
(* containers there are. Only a turn to another pod that the watch does not     *)
(* list loses more: a container of that pod too, when the earlier answer, the   *)
(* streams in the pool or initialContainer, whichever counts, lack it.          *)
TurnsBlind == OtherPod /\ ~listed'
StillThere == IF TurnsBlind THEN spec' \cap Options' ELSE spec'
PicksSurvive ==
    [][~UserPicks =>
         /\ picked.mode = "all" => picked' = picked
         /\ picked.mode = "some" => /\ picked'.mode = "some"
                                    /\ (picked.names \cap StillThere) \subseteq picked'.names]_viewVars
=============================================================================
