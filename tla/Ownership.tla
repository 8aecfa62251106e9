------------------------------ MODULE Ownership ------------------------------
(***************************************************************************)
(* What the page of an object shows as belonging to it                      *)
(* (frontend/src/pages/ResourceDetailPage.tsx, components/detail/            *)
(* TopologyGraph.tsx). Three sections walk the owner references, each by its *)
(* own code, over live lists that follow the server object by object: the    *)
(* related objects, the topology, and the events of the object and of what   *)
(* it owns. Meanwhile objects are deleted and created again under the same    *)
(* name, released and adopted, and the page learns of its own object last.   *)
(* A pod's page shows what owns the pod, which is left out.                   *)
(***************************************************************************)
EXTENDS Naturals, FiniteSets

CONSTANTS
    Objects,    \* uids that objects may get
    NameOf,     \* Objects -> their names
    Shapes,     \* each a function Objects -> kind: the workloads of a cluster
    Fixed,      \* services and nodes: always there
    Behind      \* Fixed -> the pods that a service selects, or that a node runs

ASSUME OwnershipAssumption ==
    /\ Fixed \subseteq Objects /\ Behind \in [Fixed -> SUBSET Objects]
    /\ \A shape \in Shapes : DOMAIN shape = Objects /\ \A o \in Fixed : shape[o] \in {"Service", "Node"}
    /\ {"none", "absent"} \cap Objects = {}

VARIABLES
    kind,    \* the shape: the kind of each object
    alive,   \* at the server: the objects there are
    born,    \* those there have ever been
    owner,   \* at the server: the uid in ownerReferences, or "none"
    learnt,  \* the page's lists: "absent", or the owner in the listed copy
    slices,  \* names of pods in the endpoint slices, as listed on a service's page
    page,    \* the object that the page is about: its kind and name
    obj      \* the uid of the page's copy of it, or "none"

clusterVars == <<kind, alive, born, owner>>
ownVars == <<clusterVars, learnt, slices, page, obj>>

MayOwn == {<<"Deployment", "ReplicaSet">>, <<"ReplicaSet", "Pod">>, <<"StatefulSet", "Pod">>,
           <<"Job", "Pod">>, <<"CronJob", "Job">>}
Pods == {o \in Objects : kind[o] = "Pod"}
Namesakes(o) == {x \in Objects : kind[x] = kind[o] /\ NameOf[x] = NameOf[o]}
About(o) == [kind |-> kind[o], name |-> NameOf[o]]

-----------------------------------------------------------------------------
(* The live lists of a page, each loaded for some kinds of object only *)
Listed(k, wanted) == {o \in Objects : wanted /\ kind[o] = k /\ learnt[o] # "absent"}
WorkloadKinds == {"Deployment", "StatefulSet", "ReplicaSet", "Job", "CronJob"}
(* Mutant of OwnedBy: owners are told apart by their names. *)
OwnedByName(items, parents) == {o \in items : \E p \in parents \ {"none"} : learnt[o] \in Namesakes(p)}
OwnedBy(items, parents) == {o \in items : learnt[o] \in parents \ {"none"}}

(* buildRelated: the groups of the section, with the lists it asks for *)
RelatedMiddle ==
    CASE page.kind = "Deployment" -> OwnedBy(Listed("ReplicaSet", TRUE), {obj})
      [] page.kind = "CronJob" -> OwnedBy(Listed("Job", TRUE), {obj})
      [] OTHER -> {}
RelatedPods ==
    LET list == Listed("Pod", page.kind \in WorkloadKinds \cup {"Service", "Node"})
    IN CASE page.kind \in {"Deployment", "CronJob"} -> OwnedBy(list, RelatedMiddle)
         [] page.kind \in {"StatefulSet", "ReplicaSet", "Job"} -> OwnedBy(list, {obj})
         [] page.kind \in {"Service", "Node"} /\ obj # "none" -> list \cap Behind[obj]
         [] OTHER -> {}

(* buildTopology: its lists are loaded in a namespace only, which a node has  *)
(* none of; a service has the pods of its endpoint slices too. The columns    *)
(* are cut at 30 and 60 objects, which is left out.                          *)
TopologyMiddle ==
    CASE page.kind = "Deployment" -> OwnedBy(Listed("ReplicaSet", TRUE), {obj})
      [] page.kind = "CronJob" -> OwnedBy(Listed("Job", TRUE), {obj})
      [] OTHER -> {}
TopologyPods ==
    LET list == Listed("Pod", page.kind \in WorkloadKinds \cup {"Service"})
    IN CASE page.kind \in {"Deployment", "CronJob"} -> OwnedBy(list, TopologyMiddle)
         [] page.kind \in {"StatefulSet", "ReplicaSet", "Job"} -> OwnedBy(list, {obj})
         [] page.kind = "Service" /\ obj # "none" -> {p \in list : NameOf[p] \in slices \/ p \in Behind[obj]}
         [] OTHER -> {}

(* useDescendantUIDs, and the events that the two tabs keep *)
DescendantUIDs ==
    LET pods == Listed("Pod", page.kind \in WorkloadKinds)
        replicaSets == OwnedBy(Listed("ReplicaSet", page.kind = "Deployment"), {obj})
        jobs == OwnedBy(Listed("Job", page.kind = "CronJob"), {obj})
    IN CASE page.kind = "Deployment" -> replicaSets \cup OwnedBy(pods, replicaSets)
         [] page.kind = "CronJob" -> jobs \cup OwnedBy(pods, jobs)
         [] page.kind \in {"StatefulSet", "ReplicaSet", "Job"} -> OwnedBy(pods, {obj})
         [] OTHER -> {}
(* An event of o, which carries its uid, kind and name *)
EventShown(o) == o \in {obj} \cup DescendantUIDs \/ About(o) = page

-----------------------------------------------------------------------------
OwnInit ==
    /\ kind \in Shapes /\ alive = Fixed /\ born = Fixed
    /\ owner = [o \in Objects |-> "none"]
    /\ learnt = [o \in Objects |-> IF o \in Fixed THEN "none" ELSE "absent"]
    /\ slices = {} /\ page \in {About(o) : o \in Objects \ Pods} /\ obj = "none"

(* The cluster *)
Create(o, parent) ==
    /\ o \notin born /\ Namesakes(o) \cap alive = {}
    /\ parent # "none" => parent \in alive /\ <<kind[parent], kind[o]>> \in MayOwn
    /\ alive' = alive \cup {o} /\ born' = born \cup {o} /\ owner' = [owner EXCEPT ![o] = parent]
    /\ UNCHANGED <<kind, learnt, slices, page, obj>>
Delete(o) ==
    /\ o \in alive \ Fixed /\ alive' = alive \ {o}
    /\ UNCHANGED <<kind, born, owner, learnt, slices, page, obj>>
(* A controller releases an object, or adopts one that has no owner. *)
Reown(o, parent) ==
    /\ o \in alive /\ owner[o] # parent
    /\ parent # "none" => /\ owner[o] = "none" /\ parent \in alive
                          /\ <<kind[parent], kind[o]>> \in MayOwn
    /\ owner' = [owner EXCEPT ![o] = parent]
    /\ UNCHANGED <<kind, alive, born, learnt, slices, page, obj>>

(* The page: the lists follow, in order for objects of one name; the request *)
(* for the object itself is repeated, and keeps the old answer on a failure. *)
Current(o) == IF o \in alive THEN owner[o] ELSE "absent"
ListFollows(o) ==
    /\ learnt[o] # Current(o)
    /\ learnt[o] = "absent" => \A x \in Namesakes(o) : learnt[x] = "absent"
    /\ learnt' = [learnt EXCEPT ![o] = Current(o)]
    /\ UNCHANGED <<clusterVars, slices, page, obj>>
SlicesFollow(names) ==
    /\ page.kind = "Service" /\ slices # names /\ slices' = names
    /\ UNCHANGED <<clusterVars, learnt, page, obj>>
ObjectFollows(o) ==
    /\ o \in alive /\ About(o) = page /\ obj # o /\ obj' = o
    /\ UNCHANGED <<clusterVars, learnt, slices, page>>
OpenPage(o) ==
    /\ o \notin Pods /\ page' = About(o) /\ page' # page /\ obj' = "none" /\ slices' = {}
    /\ UNCHANGED <<clusterVars, learnt>>

OwnNext ==
    \/ \E o \in Objects, parent \in Objects \cup {"none"} : Create(o, parent) \/ Reown(o, parent)
    \/ \E o \in Objects : Delete(o) \/ ListFollows(o) \/ ObjectFollows(o) \/ OpenPage(o)
    \/ \E names \in SUBSET {NameOf[p] : p \in Pods} : SlicesFollow(names)

OwnSpec == OwnInit /\ [][OwnNext]_ownVars

-----------------------------------------------------------------------------
(* The three sections tell one story of a workload, whatever the lists have   *)
(* learnt so far: the same pods, and between them and the object the same     *)
(* replica sets or jobs. Of a service the topology leaves out no pod that is   *)
(* among the related ones.                                                   *)
SectionsAgree ==
    /\ page.kind \in WorkloadKinds =>
        /\ RelatedPods = TopologyPods /\ RelatedMiddle = TopologyMiddle
        /\ DescendantUIDs = RelatedMiddle \cup RelatedPods
    /\ page.kind = "Service" => RelatedPods \subseteq TopologyPods

(* The page has learnt all; what descends from its object at the server *)
CaughtUp == obj \in alive /\ \A o \in Objects : learnt[o] = Current(o)
Descending ==   \* the least set with the object and, with an object, all that it owns
    {o \in alive : \A family \in SUBSET alive :
        obj \in family /\ {x \in alive : owner[x] \in family} \subseteq family => o \in family}

(* Once the lists and the page's object are those of the server, what is      *)
(* shown of a workload is what descends from it and nothing that another had. *)
(* Of the events that there are, deleted objects have some too: besides those  *)
(* of what descends, the page shows the events of every former object of its   *)
(* kind and name, with another uid, although the fallback is said to be for    *)
(* events that have none (ResourceDetailPage.tsx:2311-2314); but of the former  *)
(* one's replica sets, jobs and pods, and of its own that are gone, none.      *)
Events == Objects   \* of whom the cluster may still keep events
ShowsDescendants ==
    CaughtUp /\ page.kind \in WorkloadKinds =>
        /\ RelatedMiddle \cup RelatedPods = Descending \ {obj}
        /\ \A o \in Events : EventShown(o) <=> o \in Descending \/ o \in Namesakes(obj)

(* Both: the page tells one story, and the true one.                         *)
BelongingsAreRight == SectionsAgree /\ ShowsDescendants
=============================================================================
