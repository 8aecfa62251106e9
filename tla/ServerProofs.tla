---------------------------- MODULE ServerProofs ----------------------------
(***************************************************************************)
(* Proofs about the server's components besides the informer store: the   *)
(* pause switch does not interfere with the store (what InformerStoreProofs *)
(* shows of Spec holds of a cluster that is paused, resumed, probed and     *)
(* stopped in any order); a drain misses no pod, a shell is opened on a      *)
(* container that has run, and scripts put every manifest back; a browser    *)
(* keeps the identity that adopted its kubeconfigs; a terminal shows its     *)
(* shell.                                                                  *)
(***************************************************************************)
EXTENDS Cluster, TerminalSession, DeviceIdentity, NodeJobs, InformerStoreProofs,
        SequenceTheorems, FiniteSetTheorems

\* Calls that passed the paused check and have not reached the store yet.
WaitingCalls == {p \in admitted : pc[p] = "idle"}

\* While the cluster is settled in pause, nobody new is admitted, so both the
\* calls still to reach the store and the informers they start are known.
StragglersInv ==
  paused /\ PauseSettled =>
    /\ WaitingCalls \subseteq stragglers
    /\ \A e \in live : \E p \in stragglers : p \in created /\ ent[p] = e

CInv == SwitchTypeOK /\ StragglersInv

LEMMA ClusterStepIsStoreStep == ClusterNext => [Next]_vars
<1>1. ASSUME NEW p \in Subs, Subscribe(p) PROVE Next
  BY <1>1 DEF Subscribe, Next, Subscriber
<1>2. CASE StoreStep
  BY <1>2 DEF StoreStep, Next, Subscriber
<1>3. ASSUME NEW g \in Callers, Caller(g) PROVE [Next]_vars
  BY <1>3 DEF Caller, PauseSwap, PauseDisconnect, PauseClear, ResumeSwap,
              StopSwap, StopCancel, StopClear, Next
<1>4. QED
  BY <1>1, <1>2, <1>3
     DEF ClusterNext, ServerFlips, Admit, Tick, Probe, CheckBegin, CheckAnswer, CheckStore

\* A cluster connection, with its pause switch, its Stop and its probes,
\* behaves as an informer store: the store's own theorems hold for it.
THEOREM ClusterIsAStore == ClusterSpec => Spec
<1>1. ClusterInit => Init
  BY DEF ClusterInit
<1>2. [ClusterNext]_cvars => [Next]_vars
  BY ClusterStepIsStoreStep DEF cvars
<1>3. QED
  BY <1>1, <1>2, PTL DEF ClusterSpec, Spec

LEMMA InitCInv == ClusterInit => CInv
BY TickerAssumption
   DEF ClusterInit, Init, CInv, SwitchTypeOK, StragglersInv, Goroutines, OpStates

\* What the store's steps do to the state StragglersInv speaks of.
LEMMA StoreStepFrame ==
  ASSUME TypeOK, StoreStep
  PROVE  /\ live' \subseteq live
         /\ UNCHANGED <<created, ent, switchVars>>
         /\ \A p \in Subs : pc'[p] = "idle" <=> pc[p] = "idle"
BY DEF StoreStep, ApiChange, InitialSnapshot, ListFromCache, CallApi, ApiAnswer,
       ListReturns, ListFails, RemoveEntry, Register, PushSnapshot, Consume,
       CloseUnregister, CloseChannel, Informer, InformerSync, InformerWatch,
       BroadcastCopy, BroadcastSend, Janitor, JanitorCheck, JanitorStop, Retire,
       TypeOK, PcStates, apiVars, mapVars, infVars, janVars, callVars, chanVars

LEMMA NextCInv == MapInv /\ CInv /\ [ClusterNext]_cvars => CInv'
<1> SUFFICES ASSUME MapInv, CInv, [ClusterNext]_cvars PROVE CInv'
  OBVIOUS
<1> USE DEF CInv, switchVars
<1>1. CASE UNCHANGED cvars
  BY <1>1 DEF cvars, vars, callVars, mapVars, SwitchTypeOK, StragglersInv, PauseSettled, WaitingCalls
<1>2. CASE ServerFlips
  BY <1>2 DEF ServerFlips, vars, callVars, mapVars, SwitchTypeOK, StragglersInv,
              PauseSettled, WaitingCalls
<1>3. ASSUME NEW p \in Subs, Admit(p) PROVE CInv'
  BY <1>3 DEF Admit, Accepts, vars, callVars, mapVars, SwitchTypeOK, StragglersInv
<1>4. ASSUME NEW p \in Subs, Subscribe(p) PROVE CInv'
  <2> PICK k \in Keys : SubscribeBegin(p, k)
    BY <1>4 DEF Subscribe
  <2>1. p \in admitted /\ pc[p] = "idle" /\ UNCHANGED switchVars
    BY <1>4 DEF Subscribe, PassedCheck, SubscribeBegin
  <2>2. pc' = [pc EXCEPT ![p] = "listing"]
    BY DEF SubscribeBegin
  <2>3. SwitchTypeOK'
    BY <2>1, <2>2 DEF SwitchTypeOK, MapInv, TypeOK
  <2>4. p \notin created
    BY <2>1 DEF MapInv, CallersHaveEntries
  <2>5. ASSUME paused, PauseSettled PROVE WaitingCalls' \subseteq stragglers
    BY <2>1, <2>2, <2>5 DEF WaitingCalls, StragglersInv, SwitchTypeOK, MapInv, TypeOK
  <2>6. ASSUME paused, PauseSettled, NEW e \in live', Join(p, k)
        PROVE  \E q \in stragglers : q \in created' /\ ent'[q] = e
    BY <2>4, <2>6 DEF Join, mapVars, StragglersInv, SwitchTypeOK, MapInv, TypeOK
  <2>7. ASSUME paused, PauseSettled, NEW e \in live', Create(p, k)
        PROVE  \E q \in stragglers : q \in created' /\ ent'[q] = e
    <3>1. PICK n \in Unallocated :
            /\ ent' = [ent EXCEPT ![p] = n]
            /\ live' = IF rootDone THEN live ELSE live \cup {n}
      BY <2>7 DEF Create
    <3>2. created' = created \cup {p}
      BY <2>7 DEF Create
    <3>3. CASE e \in live
      BY <2>4, <2>7, <3>1, <3>2, <3>3 DEF StragglersInv, SwitchTypeOK, MapInv, TypeOK
    <3>4. CASE e = n
      <4>1. p \in stragglers
        BY <2>1, <2>7 DEF StragglersInv, WaitingCalls
      <4>2. QED
        BY <3>1, <3>2, <3>4, <4>1 DEF SwitchTypeOK, MapInv, TypeOK
    <3>5. QED
      BY <2>7, <3>1, <3>3, <3>4
  <2>8. Join(p, k) \/ Create(p, k)
    BY DEF SubscribeBegin
  <2>9. QED
    BY <2>1, <2>3, <2>5, <2>6, <2>7, <2>8 DEF StragglersInv, PauseSettled
<1>5. CASE StoreStep
  <2>1. TypeOK
    BY DEF MapInv
  <2>2. QED
    BY <1>5, <2>1, StoreStepFrame
       DEF SwitchTypeOK, StragglersInv, PauseSettled, WaitingCalls
<1>6. ASSUME NEW g \in Callers, PauseClear(g) PROVE CInv'
  <2>1. live' = {}
    BY <1>6 DEF PauseClear, StopAll, MapInv, InformerRunsIffRegistered, TypeOK
  <2>2. stragglers' = WaitingCalls /\ UNCHANGED <<pc, admitted, paused>>
    BY <1>6 DEF PauseClear, StopAll, WaitingCalls, callVars
  <2>3. SwitchTypeOK'
    BY <1>6, <2>2, TickerAssumption
       DEF PauseClear, Goto, SwitchTypeOK, WaitingCalls, Goroutines, OpStates
  <2>4. QED
    BY <2>1, <2>2, <2>3 DEF StragglersInv, WaitingCalls
<1>7. ASSUME NEW g \in Callers, PauseSwap(g) \/ PauseDisconnect(g) PROVE CInv'
  <2>1. g \in Goroutines /\ op'[g] \in {"pausing", "clearing"}
    BY <1>7 DEF PauseSwap, PauseDisconnect, Goto, SwitchTypeOK, Goroutines
  <2>2. SwitchTypeOK'
    BY <1>7 DEF PauseSwap, PauseDisconnect, Goto, SwitchTypeOK, Goroutines, OpStates,
                vars, callVars
  <2>3. QED
    BY <2>1, <2>2 DEF StragglersInv, PauseSettled
<1>8. ASSUME NEW g \in Callers, ResumeSwap(g) PROVE CInv'
  BY <1>8 DEF ResumeSwap, Goto, SwitchTypeOK, StragglersInv, Goroutines, OpStates, vars, callVars
<1>9. ASSUME NEW g \in Callers, StopSwap(g) \/ StopCancel(g) \/ StopClear(g) PROVE CInv'
  <2>1. live' \subseteq live /\ UNCHANGED <<pc, ent, created, paused, admitted, stragglers>>
    BY <1>9 DEF StopSwap, StopCancel, StopClear, RootCancel, StopAll, vars, mapVars, callVars
  <2>2. SwitchTypeOK'
    BY <1>9, <2>1 DEF StopSwap, StopCancel, StopClear, Goto, SwitchTypeOK, Goroutines, OpStates
  <2>3. PauseSettled' => PauseSettled
    BY <1>9 DEF StopSwap, StopCancel, StopClear, Goto, PauseSettled, SwitchTypeOK, Goroutines
  <2>4. QED
    BY <2>1, <2>2, <2>3 DEF StragglersInv, WaitingCalls
<1>10. ASSUME NEW g \in Goroutines, Probe(g) \/ (g = Ticker /\ Tick) PROVE CInv'
  <2>1. UNCHANGED <<live, pc, ent, created, paused, admitted, stragglers>>
    BY <1>10 DEF Probe, CheckBegin, CheckAnswer, CheckStore, Tick, vars, mapVars, callVars
  <2>2. SwitchTypeOK'
    BY <1>10, <2>1
       DEF Probe, CheckBegin, CheckAnswer, CheckStore, Reading, Tick, Goto,
           SwitchTypeOK, OpStates
  <2>3. PauseSettled' => PauseSettled
    BY <1>10 DEF Probe, CheckBegin, CheckAnswer, CheckStore, Tick, Goto, PauseSettled, SwitchTypeOK
  <2>4. QED
    BY <2>1, <2>2, <2>3 DEF StragglersInv, WaitingCalls
<1>11. Ticker \in Goroutines
  BY DEF Goroutines
<1>12. QED
  BY <1>1, <1>2, <1>3, <1>4, <1>5, <1>6, <1>7, <1>8, <1>9, <1>10, <1>11
     DEF ClusterNext, Caller

\* Types, and who may be where: nobody is in the store who was not admitted.
THEOREM SwitchTypeCorrect == ClusterSpec => []SwitchTypeOK
<1>1. IInv => MapInv
  BY DEF IInv
<1>2. CInv => SwitchTypeOK
  BY DEF CInv
<1>3. QED
  BY <1>1, <1>2, InitCInv, NextCInv, ClusterIsAStore, Invariance, PTL DEF ClusterSpec

\* After Pause has cleaned up, only calls that had read paused as false before
\* can still start an informer, however many callers pause and resume at once.
THEOREM PauseHolds == ClusterSpec => []PausedInformersAreStragglers
<1>1. IInv => MapInv
  BY DEF IInv
<1>2. CInv => PausedInformersAreStragglers
  BY DEF CInv, StragglersInv, PausedInformersAreStragglers
<1>3. QED
  BY <1>1, <1>2, InitCInv, NextCInv, ClusterIsAStore, Invariance, PTL DEF ClusterSpec

-----------------------------------------------------------------------------
(* Drain: from the cordon on, only exempt pods and those excused are on their *)
(* way to the node, and once the pods are listed each pod there is one of     *)
(* these, one whose eviction was refused, one that terminates since its        *)
(* eviction was accepted, or one that is still to be evicted.                *)

DrainSteps == {"idle", "to cordon", "to list", "evicting", "drained", "failed"}
DrainTypeOK ==
  /\ decided \subseteq NodePods /\ onNode \subseteq NodePods
  /\ drain.at \in DrainSteps /\ drain.todo \subseteq NodePods
  /\ DOMAIN drain = {"at", "todo", "evicted", "skipped"}
NobodySlipsIn ==
  drain.at \in {"to list", "evicting", "drained"} =>
    /\ cordoned \/ excused = NodePods
    /\ decided \subseteq Exempt \cup excused
LeftAreKnown ==
  drain.at \in {"evicting", "drained"} =>
    onNode \subseteq Exempt \cup refused \cup excused \cup leaving \cup drain.todo
DrainInv ==
  DrainTypeOK /\ NobodySlipsIn /\ LeftAreKnown /\ (drain.at = "drained" => drain.todo = {})

LEMMA InitDrainInv == DrainInit => DrainInv
BY DEF DrainInit, DrainInv, DrainTypeOK, NobodySlipsIn, LeftAreKnown, DrainSteps

LEMMA NextDrainInv == DrainInv /\ [DrainNext]_drainVars => DrainInv'
<1> SUFFICES ASSUME DrainInv, [DrainNext]_drainVars PROVE DrainInv'
  OBVIOUS
<1>0. /\ DrainTypeOK /\ NobodySlipsIn /\ LeftAreKnown
      /\ drain.at = "drained" => drain.todo = {}
  BY DEF DrainInv, DrainTypeOK
<1> USE <1>0 DEF DrainInv, DrainTypeOK, NobodySlipsIn, LeftAreKnown, DrainSteps
<1>1. CASE BeginDrain
  BY <1>1 DEF BeginDrain, After
<1>6. CASE DrainFails
  <2>1. drain' = [drain EXCEPT !.at = "failed"] /\ UNCHANGED <<decided, onNode>>
    BY <1>6 DEF DrainFails
  <2>2. drain'.at = "failed"
    BY <2>1
  <2>3. QED
    BY <2>1, <2>2
<1>7. CASE CordonNode
  <2>1. drain' = [drain EXCEPT !.at = "to list"]
    BY <1>7 DEF CordonNode, After
  <2>2. drain'.at = "to list"
    BY <2>1
  <2>3. DrainTypeOK'
    BY <1>7, <2>1 DEF CordonNode
  <2>4. QED
    BY <1>7, <2>2, <2>3 DEF CordonNode
<1>8. CASE ListPods
  <2>1. drain.at = "to list" /\ drain' = [drain EXCEPT !.at = "evicting", !.todo = onNode]
    BY <1>8 DEF ListPods, After
  <2>2. drain'.at = "evicting" /\ drain'.todo = onNode
    BY <2>1
  <2>3. DrainTypeOK'
    BY <1>8, <2>1 DEF ListPods
  <2>4. QED
    BY <1>8, <2>1, <2>2, <2>3 DEF ListPods
<1>9. CASE Drained
  <2>1. drain' = [drain EXCEPT !.at = "drained"] /\ drain.at = "evicting" /\ drain.todo = {}
    BY <1>9 DEF Drained
  <2>2. drain'.at = "drained" /\ drain'.todo = {}
    BY <2>1
  <2>3. DrainTypeOK'
    BY <1>9, <2>1 DEF Drained
  <2>4. QED
    BY <1>9, <2>1, <2>2, <2>3 DEF Drained
<1>2. CASE Uncordon \/ CordonAlone
  BY <1>2 DEF Uncordon, CordonAlone
<1>3. ASSUME NEW p \in NodePods, Skip(p) \/ Evict(p) \/ EvictFails(p) PROVE DrainInv'
  <2>1. /\ drain.at = "evicting" /\ p \in drain.todo
        /\ \/ drain' = [drain EXCEPT !.todo = @ \ {p}, !.skipped = @ + 1]
           \/ drain' = [drain EXCEPT !.todo = @ \ {p}, !.evicted = @ + 1]
        /\ UNCHANGED <<cordoned, decided, onNode, excused>>
        /\ refused \subseteq refused' /\ leaving \subseteq leaving'
        /\ p \in Exempt \/ p \in leaving' \/ p \in refused'
    BY <1>3 DEF Skip, Evict, EvictFails
  <2>2. drain'.at = "evicting" /\ drain'.todo = drain.todo \ {p}
    BY <2>1
  <2>3. DrainTypeOK'
    <3>1. DOMAIN drain' = DOMAIN drain
      BY <2>1
    <3>2. QED
      BY <2>1, <2>2, <3>1
  <2>4. LeftAreKnown'
    BY <2>1, <2>2
  <2>5. QED
    BY <2>1, <2>2, <2>3, <2>4
<1>4. ASSUME NEW p \in NodePods, Decide(p) \/ Bind(p) \/ PodEnds(p) PROVE DrainInv'
  BY <1>4 DEF Decide, Bind, PodEnds
<1>5. CASE UNCHANGED drainVars
  BY <1>5 DEF drainVars
<1>10. QED
  BY <1>1, <1>2, <1>3, <1>4, <1>5, <1>6, <1>7, <1>8, <1>9 DEF DrainNext

\* A drain that is answered has left behind only exempt pods, pods whose
\* eviction was refused, pods that were on their way before the cordon, and pods
\* that terminate because it evicted them.
THEOREM DrainsEverybody == DrainSpec => []DrainMissesNobody
<1>1. DrainInv => DrainMissesNobody
  BY DEF DrainInv, LeftAreKnown, DrainMissesNobody
<1>2. QED
  BY <1>1, InitDrainInv, NextDrainInv, PTL DEF DrainSpec

-----------------------------------------------------------------------------
(* The identity of a browser: an adoption that was not raced leaves nothing   *)
(* under way that would write another id into the jar.                        *)

RequestsAreWhole ==
  /\ DOMAIN req = Requests
  /\ \A q \in Requests : Under(q) =>
       /\ req[q].kind = "adopt" <=> req[q].adopt # NoId
       /\ req[q].at \in {"sent", "answered"}
       /\ req[q].at = "answered" => req[q].set = Cookies(req[q].id, req[q].adopt)
JarIsAdopted ==
  asked # NoId /\ ~raced => jar = asked /\ \A q \in Requests : Under(q) => req[q].id = asked
DeviceInv == RequestsAreWhole /\ JarIsAdopted

LEMMA InitDeviceInv == DeviceInit => DeviceInv
BY DEF DeviceInit, DeviceInv, RequestsAreWhole, JarIsAdopted, Under, Free

\* A request is sent with the id of the jar, or requests are dropped.
LEMMA SendKeepsIds ==
  ASSUME DeviceInv, NEW t, NEW kind, NEW adopt, kind = "adopt" <=> adopt # NoId,
         Send(t, kind, adopt), UNCHANGED <<jar, asked, raced>>
  PROVE  DeviceInv'
BY DEF DeviceInv, RequestsAreWhole, JarIsAdopted, Send, Under, NewRequest

LEMMA DropKeepsIds ==
  ASSUME DeviceInv, DOMAIN req' = Requests,
         \A q \in Requests : req'[q] = Free \/ req'[q] = req[q],
         \/ UNCHANGED <<jar, asked, raced>>
         \/ asked' = NoId
  PROVE  DeviceInv'
BY DEF DeviceInv, RequestsAreWhole, JarIsAdopted, Under, Free

LEMMA ServeKeepsIds ==
  ASSUME DeviceInv, NEW q \in Requests, Serve(q)
  PROVE  DeviceInv'
<1>1. PICK id \in Identify(req[q].id) :
        req' = [req EXCEPT ![q] =
                  [at |-> "answered", tab |-> @.tab, kind |-> @.kind, id |-> id, adopt |-> @.adopt,
                   set |-> Cookies(id, @.adopt)]]
  BY DEF Serve
<1>2. req[q].at = "sent" /\ UNCHANGED <<jar, asked, raced>>
  BY DEF Serve
<1>3. DOMAIN req = Requests
  BY DEF DeviceInv, RequestsAreWhole
<1>4. /\ req'[q].at = "answered" /\ req'[q].id = id /\ req'[q].set = Cookies(id, req[q].adopt)
      /\ req'[q].kind = req[q].kind /\ req'[q].adopt = req[q].adopt
  BY <1>1, <1>3
<1>5. DOMAIN req' = Requests /\ \A r \in Requests \ {q} : req'[r] = req[r]
  BY <1>1, <1>3
<1>6. RequestsAreWhole'
  BY <1>2, <1>4, <1>5 DEF DeviceInv, RequestsAreWhole, Under
<1>7. JarIsAdopted'
  <2>1. asked # NoId /\ ~raced => id = asked
    BY <1>1, <1>2 DEF DeviceInv, JarIsAdopted, Under, Identify
  <2>2. QED
    BY <1>2, <1>4, <1>5, <2>1 DEF DeviceInv, JarIsAdopted, Under
<1>8. QED
  BY <1>6, <1>7 DEF DeviceInv

\* An answer puts its last cookie into the jar: the id of its request, or the
\* one the request adopted.
LEMMA ReceiveKeepsIds ==
  ASSUME DeviceInv, NEW q \in Requests, Receive(q)
  PROVE  DeviceInv'
<1>1. /\ req[q].at = "answered" /\ req' = [req EXCEPT ![q] = Free] /\ jar' = Last(req[q].set)
      /\ IF req[q].kind = "adopt"
         THEN /\ asked' = req[q].adopt
              /\ raced' = \E r \in Requests \ {q} : Under(r) /\ req[r].id # req[q].adopt
         ELSE asked' = asked /\ raced' = raced
  BY DEF Receive
<1>2. /\ DOMAIN req = Requests /\ Under(q)
      /\ req[q].kind = "adopt" <=> req[q].adopt # NoId
      /\ req[q].set = Cookies(req[q].id, req[q].adopt)
  BY <1>1 DEF DeviceInv, RequestsAreWhole, Under
<1>3. jar' = IF req[q].adopt = NoId THEN req[q].id ELSE req[q].adopt
  BY <1>1, <1>2 DEF Cookies, Last
<1>4. /\ DOMAIN req' = Requests /\ req'[q] = Free
      /\ \A r \in Requests \ {q} : req'[r] = req[r]
  BY <1>1, <1>2
<1>5. RequestsAreWhole'
  BY <1>4 DEF DeviceInv, RequestsAreWhole, Under, Free
<1>6. JarIsAdopted'
  <2>1. CASE req[q].kind = "adopt"
    BY <1>1, <1>2, <1>3, <1>4, <2>1 DEF JarIsAdopted, Under, Free
  <2>2. CASE req[q].kind # "adopt"
    BY <1>1, <1>2, <1>3, <1>4, <2>2 DEF DeviceInv, JarIsAdopted, Under, Free
  <2>3. QED
    BY <2>1, <2>2
<1>7. QED
  BY <1>5, <1>6 DEF DeviceInv

LEMMA NextDeviceInv == DeviceInv /\ [DeviceNext]_deviceVars => DeviceInv'
<1> SUFFICES ASSUME DeviceInv, [DeviceNext]_deviceVars PROVE DeviceInv'
  OBVIOUS
<1>0. DOMAIN req = Requests
  BY DEF DeviceInv, RequestsAreWhole
<1>1. ASSUME NEW t \in Tabs, OpenTab(t) \/ Poll(t) PROVE DeviceInv'
  BY <1>1, SendKeepsIds DEF OpenTab, Poll
<1>2. ASSUME NEW t \in Tabs, NEW id \in OtherIds, Adopt(t, id) PROVE DeviceInv'
  BY <1>2, SendKeepsIds, DeviceAssumption DEF Adopt
<1>3. ASSUME NEW t \in Tabs, Reload(t) PROVE DeviceInv'
  <2>1. PICK q \in Requests : req' = [Aborted(t) EXCEPT ![q] = NewRequest(t, "document", jar, NoId)]
    BY <1>3 DEF Reload
  <2>2. /\ DOMAIN req' = Requests /\ req'[q] = NewRequest(t, "document", jar, NoId)
        /\ \A r \in Requests \ {q} : req'[r] = Free \/ req'[r] = req[r]
    BY <2>1 DEF Aborted
  <2>3. UNCHANGED <<jar, asked, raced>>
    BY <1>3 DEF Reload
  <2>4. RequestsAreWhole'
    BY <2>2 DEF DeviceInv, RequestsAreWhole, Under, Free, NewRequest
  <2>5. JarIsAdopted'
    BY <2>2, <2>3 DEF DeviceInv, JarIsAdopted, Under, Free, NewRequest
  <2>6. QED
    BY <2>4, <2>5 DEF DeviceInv
<1>4. ASSUME NEW t \in Tabs, CloseTab(t) PROVE DeviceInv'
  <2>1. DOMAIN req' = Requests /\ \A q \in Requests : req'[q] = Free \/ req'[q] = req[q]
    BY <1>4 DEF CloseTab, Aborted
  <2>2. QED
    BY <1>4, <2>1, DropKeepsIds DEF CloseTab
<1>5. ASSUME NEW q \in Requests, Lost(q) PROVE DeviceInv'
  <2>1. DOMAIN req' = Requests /\ \A r \in Requests : req'[r] = Free \/ req'[r] = req[r]
    BY <1>0, <1>5 DEF Lost
  <2>2. QED
    BY <1>5, <2>1, DropKeepsIds DEF Lost
<1>6. CASE EmptyJar \/ UNCHANGED deviceVars
  BY <1>0, <1>6, DropKeepsIds DEF EmptyJar, deviceVars
<1>7. QED
  BY <1>1, <1>2, <1>3, <1>4, <1>5, <1>6, ServeKeepsIds, ReceiveKeepsIds DEF DeviceNext

\* An adoption stays, whatever the tabs ask for and however their answers are
\* delayed, unless another id was under way when it was answered.
THEOREM AdoptionIsKept == DeviceSpec => []AdoptionSticks
<1>1. DeviceInv => AdoptionSticks
  BY DEF DeviceInv, JarIsAdopted, AdoptionSticks
<1>2. QED
  BY <1>1, InitDeviceInv, NextDeviceInv, PTL DEF DeviceSpec

-----------------------------------------------------------------------------
(* The terminal of a pod.  A session is right if the bytes the server has got *)
(* are 1, 2, ..., the bytes under way are the next ones, and before it opens  *)
(* nothing has been typed.  The steps are taken on the record of a session.  *)

SessionFields == {"dial", "ws", "typed", "up", "handler", "reader", "buf", "eof", "shell", "in"}
SessionOK(s) ==
  /\ DOMAIN s = SessionFields
  /\ s.typed \in Nat /\ s.up \in Seq(Nat) /\ s.buf \in Seq(Nat) /\ s.in \in Seq(Nat)
  /\ InTypedOrder(s)
  /\ s.ws = "open" => NothingLost(s)
  /\ s.ws \in {"unused", "connecting"} =>
       s.typed = 0 /\ s.up = <<>> /\ s.buf = <<>> /\ s.in = <<>>

LEMMA UnusedIsOK == SessionOK(Unused) /\ Unused.ws = "unused"
<1>1. <<>> \in Seq(Nat) /\ <<>> \o <<>> = <<>> /\ Len(<<>>) = 0
  OBVIOUS
<1>2. <<>> = Numbers(0)
  BY DEF Numbers
<1>3. QED
  BY <1>1, <1>2 DEF SessionOK, SessionFields, Unused, InTypedOrder, NothingLost, Received, IsByte

\* A step that changes neither what is typed nor what is under way
LEMMA QuietStep ==
  ASSUME NEW s, NEW t, SessionOK(s), DOMAIN t = SessionFields,
         t.typed = s.typed, t.up = s.up, t.buf = s.buf, t.in = s.in,
         t.ws \in {s.ws, "closed"} \/ (s.ws = "unused" /\ t.ws = "connecting")
  PROVE  SessionOK(t)
<1>1. Received(t) = Received(s)
  BY DEF Received
<1>2. InTypedOrder(t) <=> InTypedOrder(s)
  BY <1>1 DEF InTypedOrder, NextUnderWay, IsByte
<1>3. NothingLost(t) <=> NothingLost(s)
  BY <1>1 DEF NothingLost, IsByte
<1>4. QED
  BY <1>2, <1>3 DEF SessionOK

LEMMA OpeningStep ==
  ASSUME NEW s, NEW t, SessionOK(s), DOMAIN t = SessionFields, s.ws = "connecting", t.ws = "open",
         t.typed = s.typed, t.up = <<Size>>, t.buf = s.buf, t.in = s.in
  PROVE  SessionOK(t)
<1>1. t.typed = 0 /\ t.buf = <<>> /\ t.in = <<>> /\ t.up \in Seq(Nat)
  BY DEF SessionOK, Size
<1>2. t.in \o t.buf = <<>> /\ Len(<<>>) = 0 /\ <<>> = Numbers(0)
  BY <1>1 DEF Numbers
<1>3. \A k \in DOMAIN t.up : t.up[k] = Size
  OBVIOUS
<1>4. InTypedOrder(t) /\ NothingLost(t)
  BY <1>1, <1>2, <1>3 DEF InTypedOrder, NothingLost, Received, IsByte
<1>5. QED
  BY <1>1, <1>4 DEF SessionOK

\* A frame goes to the end of what is under way: the next byte, or a size.
LEMMA SendingStep ==
  ASSUME NEW s, NEW t, SessionOK(s), DOMAIN t = SessionFields, s.ws = "open", t.ws = "open",
         NEW f \in Nat, t.typed = (IF f = Size THEN s.typed ELSE s.typed + 1), f \in {Size, t.typed},
         t.up = Append(s.up, f), t.buf = s.buf, t.in = s.in
  PROVE  SessionOK(t)
<1>1. /\ s.typed \in Nat /\ s.up \in Seq(Nat) /\ InTypedOrder(s) /\ NothingLost(s)
      /\ Len(Received(s)) \in Nat /\ Received(t) = Received(s)
  <2>1. s.in \in Seq(Nat) /\ s.buf \in Seq(Nat)
    BY DEF SessionOK
  <2>2. s.in \o s.buf \in Seq(Nat)
    BY <2>1, ConcatProperties
  <2>3. Len(s.in \o s.buf) \in Nat
    BY <2>2, LenProperties
  <2>4. QED
    BY <2>3 DEF SessionOK, Received
<1>2. PICK n, r, c, d : n = Len(s.up) + 1 /\ r = Len(Received(s)) /\ c = s.up /\ d = t.up
  OBVIOUS
<1>3. /\ n \in DOMAIN d /\ d[n] = f /\ n \in Nat /\ d \in Seq(Nat)
      /\ \A k \in DOMAIN c : k \in DOMAIN d /\ d[k] = c[k] /\ k \in Nat /\ k < n /\ c[k] \in Nat
      /\ \A k \in DOMAIN d : k \in DOMAIN c \/ k = n
  BY <1>1, <1>2, AfterAppend
<1>4. /\ r \in Nat
      /\ r = s.typed \/ \E k \in DOMAIN c : c[k] # 0 /\ c[k] = s.typed
      /\ \A k \in DOMAIN c : c[k] # 0 =>
           /\ c[k] >= r + 1 /\ c[k] <= s.typed
           /\ \A j \in DOMAIN c : j < k /\ c[j] # 0 => c[j] < c[k]
           /\ c[k] = r + 1 \/ \E j \in DOMAIN c : j < k /\ c[j] # 0 /\ c[k] = c[j] + 1
  BY <1>1, <1>2 DEF InTypedOrder, NextUnderWay, NothingLost, IsByte, Size
<1>5. r <= s.typed
  BY <1>1, <1>3, <1>4
<1>6. ASSUME NEW k \in DOMAIN d, d[k] # 0
      PROVE  /\ d[k] >= r + 1 /\ d[k] <= t.typed
             /\ \A j \in DOMAIN d : j < k /\ d[j] # 0 => d[j] < d[k]
             /\ d[k] = r + 1 \/ \E j \in DOMAIN d : j < k /\ d[j] # 0 /\ d[k] = d[j] + 1
  <2>1. CASE k \in DOMAIN c
    <3>1. /\ c[k] >= r + 1 /\ c[k] <= s.typed /\ d[k] = c[k] /\ k < n /\ k \in Nat
          /\ \A j \in DOMAIN c : j < k /\ c[j] # 0 => c[j] < c[k]
          /\ c[k] = r + 1 \/ \E j \in DOMAIN c : j < k /\ c[j] # 0 /\ c[k] = c[j] + 1
      BY <1>3, <1>4, <1>6, <2>1
    <3>2. s.typed <= t.typed /\ t.typed \in Nat
      BY <1>1
    <3>3. \A j \in DOMAIN d : j < k => j \in DOMAIN c /\ d[j] = c[j]
      BY <1>3, <3>1
    <3>4. d[k] = r + 1 \/ \E j \in DOMAIN d : j < k /\ d[j] # 0 /\ d[k] = d[j] + 1
      BY <1>3, <3>1
    <3>5. d[k] >= r + 1 /\ d[k] <= t.typed
      BY <1>1, <1>3, <1>4, <2>1, <3>1, <3>2
    <3>6. QED
      BY <3>1, <3>3, <3>4, <3>5
  <2>2. CASE k = n
    <3>1. d[k] = f /\ f = t.typed /\ t.typed = s.typed + 1
      BY <1>3, <1>6, <2>2 DEF Size
    <3>2. ASSUME NEW j \in DOMAIN d, j < k, d[j] # 0 PROVE d[j] < d[k]
      <4>1. j \in DOMAIN c
        BY <1>3, <2>2, <3>2
      <4>2. d[j] = c[j] /\ c[j] # 0 /\ c[j] \in Nat
        BY <1>3, <3>2, <4>1
      <4>3. c[j] <= s.typed
        BY <1>4, <4>1, <4>2
      <4>4. QED
        BY <1>1, <3>1, <4>2, <4>3
    <3>3. d[k] = r + 1 \/ \E j \in DOMAIN d : j < k /\ d[j] # 0 /\ d[k] = d[j] + 1
      <4>1. CASE r = s.typed
        BY <3>1, <4>1
      <4>2. CASE r # s.typed
        <5>1. PICK j \in DOMAIN c : c[j] # 0 /\ c[j] = s.typed
          BY <1>4, <4>2
        <5>2. j \in DOMAIN d /\ d[j] = c[j] /\ j < k
          BY <1>3, <2>2, <5>1
        <5>3. QED
          BY <3>1, <5>1, <5>2
      <4>3. QED
        BY <4>1, <4>2
    <3>4. QED
      BY <1>1, <1>4, <1>5, <3>1, <3>2, <3>3
  <2>3. QED
    BY <1>3, <2>1, <2>2
<1>7. InTypedOrder(t)
  <2>1. \A k \in DOMAIN d : d[k] # 0 => d[k] \in (r + 1)..t.typed
    BY <1>1, <1>3, <1>4, <1>6
  <2>2. Received(t) = Numbers(r)
    BY <1>1, <1>2 DEF InTypedOrder
  <2>3. QED
    BY <1>1, <1>2, <1>6, <2>1, <2>2 DEF InTypedOrder, NextUnderWay, IsByte, Size
<1>8. r = t.typed \/ \E k \in DOMAIN d : d[k] # 0 /\ d[k] = t.typed
  <2>1. CASE f = Size
    BY <1>3, <1>4, <2>1
  <2>2. CASE f # Size
    BY <1>1, <1>3, <2>2 DEF Size
  <2>3. QED
    BY <2>1, <2>2
<1>9. NothingLost(t)
  BY <1>1, <1>2, <1>8 DEF NothingLost, IsByte, Size
<1>10. QED
  BY <1>1, <1>2, <1>3, <1>7, <1>9 DEF SessionOK

LEMMA BreakingStep ==
  ASSUME NEW s, NEW t, SessionOK(s), DOMAIN t = SessionFields, t.ws = "closed",
         t.typed = s.typed, t.up = <<>>, t.buf = s.buf, t.in = s.in
  PROVE  SessionOK(t)
<1>1. Received(t) = Received(s) /\ <<>> \in Seq(Nat)
  BY DEF Received
<1>2. InTypedOrder(t)
  BY <1>1 DEF SessionOK, InTypedOrder
<1>3. QED
  BY <1>1, <1>2 DEF SessionOK

LEMMA AppendedConcat ==
  ASSUME NEW a \in Seq(Nat), NEW b \in Seq(Nat), NEW x \in Nat
  PROVE  Append(b, x) \in Seq(Nat) /\ a \o Append(b, x) = Append(a \o b, x)
<1>1. <<x>> \in Seq(Nat) /\ a \o b \in Seq(Nat)
  BY ConcatProperties
<1>2. Append(b, x) \in Seq(Nat) /\ Append(b, x) = b \o <<x>>
  BY AppendIsConcat, AppendProperties
<1>3. Append(a \o b, x) = (a \o b) \o <<x>>
  BY <1>1, AppendIsConcat
<1>4. (a \o b) \o <<x>> = a \o (b \o <<x>>)
  BY <1>1, ConcatAssociative
<1>5. QED
  BY <1>2, <1>3, <1>4

LEMMA ConcatThree ==
  ASSUME NEW a \in Seq(Nat), NEW b \in Seq(Nat), NEW c \in Seq(Nat)
  PROVE  (a \o b) \o c = a \o (b \o c)
BY ConcatAssociative

LEMMA SplitConcat ==
  ASSUME NEW a \in Seq(Nat), NEW c \in Seq(Nat), NEW n \in 1..Len(c)
  PROVE  /\ a \o SubSeq(c, 1, n) \in Seq(Nat) /\ SubSeq(c, n + 1, Len(c)) \in Seq(Nat)
         /\ (a \o SubSeq(c, 1, n)) \o SubSeq(c, n + 1, Len(c)) = a \o c
<1>1. Len(c) \in Nat /\ \A i \in 1..Len(c) : c[i] \in Nat
  BY LenProperties
<1>2. \A i \in 1..n : c[i] \in Nat
  BY <1>1
<1>3. \A i \in (n + 1)..Len(c) : c[i] \in Nat
  BY <1>1
<1>4. SubSeq(c, 1, n) \in Seq(Nat)
  BY <1>1, <1>2, SubSeqProperties
<1>5. SubSeq(c, n + 1, Len(c)) \in Seq(Nat)
  BY <1>1, <1>3, SubSeqProperties
<1>6. SubSeq(c, 1, n) \o SubSeq(c, n + 1, Len(c)) = SubSeq(c, 1, Len(c))
  <2>1. 1 \in 1..(Len(c) + 1) /\ n \in (1 - 1)..Len(c) /\ Len(c) \in n..Len(c)
    BY <1>1
  <2>2. QED
    BY <2>1, ConcatAdjacentSubSeq
<1>7. SubSeq(c, 1, Len(c)) = c
  BY SubSeqFull
<1>8. (a \o SubSeq(c, 1, n)) \o SubSeq(c, n + 1, Len(c)) = a \o (SubSeq(c, 1, n) \o SubSeq(c, n + 1, Len(c)))
  BY <1>4, <1>5, ConcatThree
<1>9. a \o SubSeq(c, 1, n) \in Seq(Nat)
  BY <1>4, ConcatProperties
<1>10. QED
  BY <1>5, <1>6, <1>7, <1>8, <1>9

LEMMA ReadingStep ==
  ASSUME NEW s, NEW t, SessionOK(s), DOMAIN t = SessionFields, s.up # <<>>, t.ws = s.ws,
         s.ws \notin {"unused", "connecting"},
         t.typed = s.typed, t.up = Tail(s.up), t.in = s.in,
         t.buf = IF Head(s.up) = Size THEN s.buf ELSE Append(s.buf, Head(s.up))
  PROVE  SessionOK(t)
<1>1. /\ s.typed \in Nat /\ s.up \in Seq(Nat) /\ s.buf \in Seq(Nat) /\ s.in \in Seq(Nat)
      /\ InTypedOrder(s)
  BY DEF SessionOK
<1>2. PICK c, d, b, r, r2 : /\ c = s.up /\ d = t.up /\ b = Head(s.up)
                            /\ r = Len(Received(s)) /\ r2 = Len(Received(t))
  OBVIOUS
<1>3. /\ 1 \in DOMAIN c /\ b = c[1] /\ b \in Nat /\ d \in Seq(Nat)
      /\ \A k \in DOMAIN d : k \in Nat /\ k + 1 \in DOMAIN c /\ d[k] = c[k + 1]
      /\ \A k \in DOMAIN c : k \in Nat /\ c[k] \in Nat /\ (k # 1 => k - 1 \in DOMAIN d /\ d[k - 1] = c[k])
      /\ \A k \in DOMAIN c : k = 1 \/ k > 1
  <2>1. c \in Seq(Nat) /\ c # <<>> /\ d = Tail(c) /\ b = Head(c)
    BY <1>1, <1>2
  <2>2. d \in Seq(Nat) /\ \A k \in DOMAIN c : c[k] \in Nat /\ (k = 1 \/ k > 1)
    BY <2>1
  <2>3. QED
    BY <2>1, <2>2, AfterTail, SMTT(30)
<1>4. /\ r \in Nat
      /\ \A k \in DOMAIN c : c[k] # 0 =>
           /\ c[k] >= r + 1 /\ c[k] <= s.typed
           /\ \A j \in DOMAIN c : j < k /\ c[j] # 0 => c[j] < c[k]
           /\ c[k] = r + 1 \/ \E j \in DOMAIN c : j < k /\ c[j] # 0 /\ c[k] = c[j] + 1
  <2>1. s.in \o s.buf \in Seq(Nat)
    BY <1>1, ConcatProperties
  <2>2. r \in Nat
    BY <1>2, <2>1, LenProperties DEF Received
  <2>3. QED
    BY <1>1, <1>2, <1>3, <2>2 DEF InTypedOrder, NextUnderWay, IsByte, Size
<1>5. b # 0 => b = r + 1
  BY <1>3, <1>4
<1>6. /\ Received(t) = Numbers(r2) /\ r2 = (IF b = 0 THEN r ELSE r + 1)
      /\ t.buf \in Seq(Nat)
  <2>1. CASE b = 0
    BY <1>1, <1>2, <2>1 DEF InTypedOrder, Received, Size
  <2>2. CASE b # 0
    <3>1. t.buf = Append(s.buf, b) /\ b = r + 1
      BY <1>2, <1>5, <2>2 DEF Size
    <3>2. Received(t) = Append(Received(s), b) /\ Received(s) \in Seq(Nat)
      <4>1. s.in \o Append(s.buf, b) = Append(s.in \o s.buf, b)
        BY <1>1, <1>3, AppendedConcat
      <4>2. s.in \o s.buf \in Seq(Nat)
        BY <1>1, ConcatProperties
      <4>3. QED
        BY <3>1, <4>1, <4>2 DEF Received
    <3>3. Received(s) = Numbers(r)
      BY <1>1, <1>2 DEF InTypedOrder
    <3>4. Append(Numbers(r), r + 1) = Numbers(r + 1)
      <4>1. Numbers(r) \in Seq(Nat) /\ Len(Numbers(r)) = r
        BY <1>2, <3>2, <3>3
      <4>2. QED
        BY <1>4, <4>1 DEF Numbers
    <3>5. Received(t) = Numbers(r + 1) /\ Len(Received(t)) = r + 1
      BY <1>2, <3>1, <3>2, <3>3, <3>4
    <3>6. t.buf \in Seq(Nat)
      BY <1>1, <1>3, <3>1
    <3>7. QED
      BY <1>2, <2>2, <3>5, <3>6
  <2>3. QED
    BY <2>1, <2>2
<1>7. ASSUME NEW k \in DOMAIN d, d[k] # 0
      PROVE  /\ d[k] \in (r2 + 1)..t.typed
             /\ \A j \in DOMAIN d : j < k /\ d[j] # 0 => d[j] < d[k]
             /\ d[k] = r2 + 1 \/ \E j \in DOMAIN d : j < k /\ d[j] # 0 /\ d[k] = d[j] + 1
  <2>1. /\ k \in Nat /\ k + 1 \in DOMAIN c /\ d[k] = c[k + 1] /\ d[k] \in Nat
        /\ c[k + 1] >= r + 1 /\ c[k + 1] <= s.typed
        /\ \A j \in DOMAIN c : j < k + 1 /\ c[j] # 0 => c[j] < c[k + 1]
        /\ c[k + 1] = r + 1 \/ \E j \in DOMAIN c : j < k + 1 /\ c[j] # 0 /\ c[k + 1] = c[j] + 1
    BY <1>3, <1>4, <1>7
  <2>2. \A j \in DOMAIN d : j < k /\ d[j] # 0 => d[j] < d[k]
    BY <1>3, <2>1
  <2>3. b # 0 => b < d[k]
    BY <1>3, <2>1
  <2>4. d[k] \in (r2 + 1)..t.typed
    BY <1>1, <1>3, <1>4, <1>5, <1>6, <2>1, <2>3
  <2>5. d[k] = r2 + 1 \/ \E j \in DOMAIN d : j < k /\ d[j] # 0 /\ d[k] = d[j] + 1
    <3>1. CASE c[k + 1] = r + 1
      BY <1>4, <1>5, <1>6, <2>1, <2>3, <3>1
    <3>2. ASSUME NEW j \in DOMAIN c, j < k + 1, c[j] # 0, c[k + 1] = c[j] + 1
          PROVE  d[k] = r2 + 1 \/ \E i \in DOMAIN d : i < k /\ d[i] # 0 /\ d[k] = d[i] + 1
      <4>1. CASE j = 1
        BY <1>3, <1>4, <1>5, <1>6, <2>1, <3>2, <4>1
      <4>2. CASE j # 1
        <5>1. j - 1 \in DOMAIN d /\ d[j - 1] = c[j] /\ j - 1 < k
          BY <1>3, <2>1, <3>2, <4>2
        <5>2. QED
          BY <2>1, <3>2, <5>1
      <4>3. QED
        BY <4>1, <4>2
    <3>3. QED
      BY <2>1, <3>1, <3>2
  <2>6. QED
    BY <2>2, <2>4, <2>5
<1>8. InTypedOrder(t)
  BY <1>2, <1>6, <1>7 DEF InTypedOrder, NextUnderWay, IsByte, Size
<1>9. ASSUME s.ws = "open" PROVE NothingLost(t)
  <2>1. r = s.typed \/ \E k \in DOMAIN c : c[k] # 0 /\ c[k] = s.typed
    BY <1>2, <1>9 DEF SessionOK, NothingLost, IsByte, Size
  <2>2. r2 = t.typed \/ \E k \in DOMAIN d : d[k] # 0 /\ d[k] = t.typed
    <3>1. CASE r = s.typed
      BY <1>1, <1>3, <1>4, <1>5, <1>6, <3>1
    <3>2. ASSUME NEW k \in DOMAIN c, c[k] # 0, c[k] = s.typed
          PROVE  r2 = t.typed \/ \E j \in DOMAIN d : d[j] # 0 /\ d[j] = t.typed
      <4>1. CASE k = 1
        BY <1>3, <1>5, <1>6, <3>2, <4>1
      <4>2. CASE k # 1
        BY <1>3, <3>2, <4>2
      <4>3. QED
        BY <4>1, <4>2
    <3>3. QED
      BY <2>1, <3>1, <3>2
  <2>3. QED
    BY <1>2, <2>2 DEF NothingLost, IsByte, Size
<1>10. QED
  BY <1>1, <1>2, <1>3, <1>6, <1>8, <1>9 DEF SessionOK

LEMMA CopyingStep ==
  ASSUME NEW s, NEW t, SessionOK(s), DOMAIN t = SessionFields, t.ws = s.ws, s.buf # <<>>,
         s.ws \notin {"unused", "connecting"},
         NEW n, n = Lesser(PipeRead, Len(s.buf)),
         t.typed = s.typed, t.up = s.up, t.in = s.in \o SubSeq(s.buf, 1, n), t.buf = Rest(s.buf, n)
  PROVE  SessionOK(t)
<1>1. s.buf \in Seq(Nat) /\ s.in \in Seq(Nat) /\ PipeRead \in Nat \ {0}
  BY TerminalAssumption DEF SessionOK
<1>2. Len(s.buf) \in Nat /\ Len(s.buf) >= 1 /\ n \in 1..Len(s.buf)
  <2>1. Len(s.buf) \in Nat /\ Len(s.buf) >= 1
    BY <1>1
  <2>2. QED
    BY <1>1, <2>1 DEF Lesser
<1>3. /\ t.in \in Seq(Nat) /\ t.buf \in Seq(Nat)
      /\ t.in \o t.buf = s.in \o s.buf
  <2>1. t.in = s.in \o SubSeq(s.buf, 1, n) /\ t.buf = SubSeq(s.buf, n + 1, Len(s.buf))
    BY DEF Rest
  <2>2. /\ s.in \o SubSeq(s.buf, 1, n) \in Seq(Nat) /\ SubSeq(s.buf, n + 1, Len(s.buf)) \in Seq(Nat)
        /\ (s.in \o SubSeq(s.buf, 1, n)) \o SubSeq(s.buf, n + 1, Len(s.buf)) = s.in \o s.buf
    <3>1. \A a \in Seq(Nat), c \in Seq(Nat) : \A m \in 1..Len(c) :
             /\ a \o SubSeq(c, 1, m) \in Seq(Nat) /\ SubSeq(c, m + 1, Len(c)) \in Seq(Nat)
             /\ (a \o SubSeq(c, 1, m)) \o SubSeq(c, m + 1, Len(c)) = a \o c
      BY SplitConcat
    <3>2. QED
      BY <1>1, <1>2, <3>1, Zenon
  <2>3. QED
    BY <2>1, <2>2, Zenon
<1>4. t.in \in Seq(Nat) /\ t.buf \in Seq(Nat) /\ Received(t) = Received(s)
  BY <1>3 DEF Received
<1>5. InTypedOrder(t) <=> InTypedOrder(s)
  BY <1>4 DEF InTypedOrder, NextUnderWay, IsByte
<1>6. NothingLost(t) <=> NothingLost(s)
  BY <1>4 DEF NothingLost, IsByte
<1>7. QED
  BY <1>4, <1>5, <1>6 DEF SessionOK

\* The steps on the records, and which session the page is about
SessionsOK == DOMAIN ses = Sessions /\ \A i \in Sessions : SessionOK(ses[i])
TerminalInv ==
  /\ SessionsOK
  /\ current \in Sessions \cup {0}
  /\ TerminalFollowsPage

\* One session takes a step that leaves its target alone, and its socket is no
\* longer open than it was.
SessionStep(i, t) ==
  /\ ses' = [ses EXCEPT ![i] = t] /\ UNCHANGED <<page, current>>
  /\ t.dial = ses[i].dial
  /\ t.ws \in {ses[i].ws, "closed"} \/ (ses[i].ws = "connecting" /\ t.ws = "open")

LEMMA SessionStepInvariance ==
  ASSUME TerminalInv, NEW i \in Sessions, NEW t, SessionStep(i, t), SessionOK(t)
  PROVE  TerminalInv'
<1>1. /\ DOMAIN ses' = Sessions /\ ses'[i] = t
      /\ \A j \in Sessions \ {i} : ses'[j] = ses[j]
  BY DEF TerminalInv, SessionsOK, SessionStep
<1>2. SessionsOK'
  BY <1>1 DEF TerminalInv, SessionsOK
<1>3. page' = page /\ current' = current
  BY DEF SessionStep
<1>4. \A j \in Sessions : ses'[j].dial = ses[j].dial
  BY <1>1 DEF SessionStep
<1>5. ASSUME NEW j \in Sessions \ {current} PROVE ses'[j].ws \in {"unused", "closed"}
  <2>1. ses[j].ws \in {"unused", "closed"}
    BY DEF TerminalInv, TerminalFollowsPage
  <2>2. QED
    BY <1>1, <2>1 DEF SessionStep
<1>6. TerminalFollowsPage'
  <2>1. page.mounted /\ current # 0 => ses'[current].dial = Target(page)
    BY <1>4 DEF TerminalInv, TerminalFollowsPage
  <2>2. Target(page)' = Target(page)
    BY <1>3 DEF Target
  <2>3. QED
    BY <1>3, <1>5, <2>1, <2>2 DEF TerminalInv, TerminalFollowsPage
<1>7. QED
  BY <1>2, <1>3, <1>6 DEF TerminalInv

LEMMA PageStepInvariance ==
  ASSUME TerminalInv, NEW p, page.mounted, PageBecomes(p)
  PROVE  TerminalInv'
<1>1. page' = p /\ DOMAIN ses = Sessions /\ 0 \notin Sessions
  BY TerminalAssumption DEF PageBecomes, TerminalInv, SessionsOK
<1>2. \A i \in Sessions : SessionOK(ses[i]) /\ DOMAIN ses[i] = SessionFields
  BY DEF TerminalInv, SessionsOK, SessionOK
<1>3. CASE p.mounted /\ Target(p) = Target(page)
  <2>1. UNCHANGED <<current, ses>>
    BY <1>3 DEF PageBecomes
  <2>2. p.container = page.container
    BY <1>3 DEF Target
  <2>3. Target(page)' = Target(page)
    BY <1>1, <1>3 DEF Target
  <2>4. QED
    BY <1>1, <1>3, <2>1, <2>2, <2>3 DEF TerminalInv, SessionsOK, TerminalFollowsPage
<1>4. ASSUME NEW i \in Sessions, ses[i].ws = "unused", p.mounted, p.container # "none",
             current' = i, ses' = Dial(HangUp(ses, current), i, p)
      PROVE  TerminalInv'
  <2>1. /\ DOMAIN ses' = Sessions
        /\ ses'[i].ws = "connecting" /\ ses'[i].dial = Target(p)
        /\ \A j \in Sessions \ {i, current} : ses'[j] = ses[j]
        /\ current \in Sessions \ {i} => ses'[current] = [ses[current] EXCEPT !.ws = "closed"]
        /\ DOMAIN ses'[i] = SessionFields
        /\ \A f \in SessionFields \ {"ws", "dial"} : ses'[i][f] = ses[i][f]
    BY <1>1, <1>2, <1>4 DEF Dial, HangUp, SessionFields, TerminalInv
  <2>2. SessionOK(ses'[i])
    <3>1. /\ ses'[i].typed = ses[i].typed /\ ses'[i].up = ses[i].up
          /\ ses'[i].buf = ses[i].buf /\ ses'[i].in = ses[i].in
      BY <2>1 DEF SessionFields
    <3>2. QED
      BY <1>2, <1>4, <2>1, <3>1, QuietStep
  <2>3. ASSUME NEW j \in Sessions \ {i}
        PROVE  SessionOK(ses'[j]) /\ ses'[j].ws \in {"unused", "closed"}
    <3>1. CASE j = current
      <4>1. /\ DOMAIN ses'[j] = SessionFields /\ ses'[j].ws = "closed"
            /\ ses'[j].typed = ses[j].typed /\ ses'[j].up = ses[j].up
            /\ ses'[j].buf = ses[j].buf /\ ses'[j].in = ses[j].in
        BY <1>2, <2>1, <3>1 DEF SessionFields
      <4>2. QED
        BY <1>2, <4>1, QuietStep
    <3>2. CASE j # current
      <4>1. ses'[j] = ses[j]
        BY <2>1, <3>2
      <4>2. QED
        BY <1>2, <3>2, <4>1 DEF TerminalInv, TerminalFollowsPage
    <3>3. QED
      BY <3>1, <3>2
  <2>4. SessionsOK'
    BY <2>1, <2>2, <2>3 DEF SessionsOK
  <2>5. TerminalFollowsPage'
    <3>1. Target(page)' = Target(p)
      BY <1>1 DEF Target
    <3>2. QED
      BY <1>1, <1>4, <2>1, <2>3, <3>1 DEF TerminalFollowsPage
  <2>6. QED
    BY <1>4, <2>4, <2>5 DEF TerminalInv
<1>5. ASSUME ~p.mounted \/ p.container = "none", current' = 0, ses' = HangUp(ses, current)
      PROVE  TerminalInv'
  <2>1. /\ DOMAIN ses' = Sessions
        /\ \A j \in Sessions \ {current} : ses'[j] = ses[j]
        /\ current \in Sessions => ses'[current] = [ses[current] EXCEPT !.ws = "closed"]
    BY <1>1, <1>5 DEF HangUp, TerminalInv
  <2>2. ASSUME NEW j \in Sessions
        PROVE  SessionOK(ses'[j]) /\ ses'[j].ws \in {"unused", "closed"}
    <3>1. CASE j = current
      <4>1. /\ DOMAIN ses'[j] = SessionFields /\ ses'[j].ws = "closed"
            /\ ses'[j].typed = ses[j].typed /\ ses'[j].up = ses[j].up
            /\ ses'[j].buf = ses[j].buf /\ ses'[j].in = ses[j].in
        BY <1>2, <2>1, <3>1 DEF SessionFields
      <4>2. QED
        BY <1>2, <4>1, QuietStep
    <3>2. CASE j # current
      <4>1. ses'[j] = ses[j]
        BY <2>1, <3>2
      <4>2. QED
        BY <1>2, <3>2, <4>1 DEF TerminalInv, TerminalFollowsPage
    <3>3. QED
      BY <3>1, <3>2
  <2>3. QED
    BY <1>1, <1>5, <2>1, <2>2 DEF TerminalInv, SessionsOK, TerminalFollowsPage
<1>6. QED
  BY <1>3, <1>4, <1>5 DEF PageBecomes

LEMMA TerminalStepInvariance == TerminalInv /\ [TerminalNext]_terminalVars => TerminalInv'
<1> SUFFICES ASSUME TerminalInv, [TerminalNext]_terminalVars PROVE TerminalInv'
  OBVIOUS
<1>1. CASE PodKnown \/ LeavePage \/ (\E k \in 1..2 : PickContainer(k))
           \/ (\E sh \in Shells : PickShell(sh)) \/ (\E p \in Pods : TurnToPod(p))
  BY <1>1, PageStepInvariance DEF PodKnown, LeavePage, PickContainer, PickShell, TurnToPod
<1>2. ASSUME UNCHANGED <<page, current>>, NEW i \in Sessions,
             BrowserEnd(i) \/ Reader(i) \/ Handler(i) \/ Executor(i) \/ ShellExits(i)
      PROVE  TerminalInv'
  <2>1. /\ SessionOK(ses[i]) /\ DOMAIN ses[i] = SessionFields /\ DOMAIN ses = Sessions
        /\ ses[i].typed \in Nat /\ ses[i].up \in Seq(Nat) /\ ses[i].buf \in Seq(Nat)
    BY DEF TerminalInv, SessionsOK, SessionOK
  <2>2. CASE Opened(i)
    <3>1. PICK t : t = [ses[i] EXCEPT !.ws = "open", !.up = <<Size>>]
      OBVIOUS
    <3>2. ses' = [ses EXCEPT ![i] = t] /\ ses[i].ws = "connecting"
      BY <2>2, <3>1 DEF Opened
    <3>3. /\ DOMAIN t = SessionFields /\ t.ws = "open" /\ t.dial = ses[i].dial /\ t.typed = ses[i].typed
          /\ t.up = <<Size>> /\ t.buf = ses[i].buf /\ t.in = ses[i].in
      BY <2>1, <3>1 DEF SessionFields
    <3>4. SessionOK(t)
      BY <2>1, <3>2, <3>3, OpeningStep
    <3>5. QED
      BY <1>2, <3>2, <3>3, <3>4, SessionStepInvariance DEF SessionStep
  <2>3. CASE Press(i)
    <3>1. PICK f, t : /\ f = ses[i].typed + 1
                      /\ t = [ses[i] EXCEPT !.typed = ses[i].typed + 1, !.up = Append(ses[i].up, f)]
      OBVIOUS
    <3>2. ses' = [ses EXCEPT ![i] = t] /\ ses[i].ws = "open"
      BY <2>3, <3>1 DEF Press
    <3>3. /\ DOMAIN t = SessionFields /\ t.ws = ses[i].ws /\ t.dial = ses[i].dial /\ f \in Nat
          /\ t.typed = f /\ t.up = Append(ses[i].up, f) /\ t.buf = ses[i].buf /\ t.in = ses[i].in
      BY <2>1, <3>1 DEF SessionFields
    <3>4. f # Size
      BY <2>1, <3>1 DEF Size
    <3>5. SessionOK(t)
      BY <2>1, <3>1, <3>2, <3>3, <3>4, SendingStep
    <3>6. QED
      BY <1>2, <3>2, <3>3, <3>5, SessionStepInvariance DEF SessionStep
  <2>4. CASE ResizeWindow(i)
    <3>1. PICK f, t : f = Size /\ t = [ses[i] EXCEPT !.up = Append(ses[i].up, f)]
      OBVIOUS
    <3>2. ses' = [ses EXCEPT ![i] = t] /\ ses[i].ws = "open"
      BY <2>4, <3>1 DEF ResizeWindow
    <3>3. /\ DOMAIN t = SessionFields /\ t.ws = ses[i].ws /\ t.dial = ses[i].dial
          /\ t.typed = ses[i].typed /\ t.up = Append(ses[i].up, f)
          /\ t.buf = ses[i].buf /\ t.in = ses[i].in
      BY <2>1, <3>1 DEF SessionFields
    <3>4. f \in Nat /\ t.ws = "open" /\ f = Size
      BY <3>1, <3>2, <3>3 DEF Size
    <3>5. SessionOK(t)
      BY <2>1, <3>2, <3>3, <3>4, SendingStep
    <3>6. QED
      BY <1>2, <3>2, <3>3, <3>5, SessionStepInvariance DEF SessionStep
  <2>5. CASE NetworkFails(i)
    <3>1. PICK t : t = [ses[i] EXCEPT !.ws = "closed", !.up = <<>>]
      OBVIOUS
    <3>2. ses' = [ses EXCEPT ![i] = t]
      BY <2>5, <3>1 DEF NetworkFails
    <3>3. /\ DOMAIN t = SessionFields /\ t.ws = "closed" /\ t.dial = ses[i].dial /\ t.typed = ses[i].typed
          /\ t.up = <<>> /\ t.buf = ses[i].buf /\ t.in = ses[i].in
      BY <2>1, <3>1 DEF SessionFields
    <3>4. SessionOK(t)
      BY <2>1, <3>3, BreakingStep
    <3>5. QED
      BY <1>2, <3>2, <3>3, <3>4, SessionStepInvariance DEF SessionStep
  <2>6. CASE ReaderReads(i)
    <3>1. PICK f, t : /\ f = Head(ses[i].up)
                      /\ t = [ses[i] EXCEPT !.up = Tail(ses[i].up),
                                            !.buf = IF f = Size THEN ses[i].buf ELSE Append(ses[i].buf, f)]
      OBVIOUS
    <3>2. ses' = [ses EXCEPT ![i] = t] /\ ses[i].up # <<>>
      BY <2>6, <3>1 DEF ReaderReads
    <3>3. /\ DOMAIN t = SessionFields /\ t.ws = ses[i].ws /\ t.dial = ses[i].dial /\ t.typed = ses[i].typed
          /\ t.up = Tail(ses[i].up) /\ t.in = ses[i].in
          /\ t.buf = IF Head(ses[i].up) = Size THEN ses[i].buf ELSE Append(ses[i].buf, Head(ses[i].up))
      BY <2>1, <3>1 DEF SessionFields
    <3>4. ses[i].ws \notin {"unused", "connecting"}
      BY <2>1, <3>2 DEF SessionOK
    <3>5. SessionOK(t)
      BY <2>1, <3>2, <3>3, <3>4, ReadingStep
    <3>6. QED
      BY <1>2, <3>2, <3>3, <3>5, SessionStepInvariance DEF SessionStep
  <2>7. CASE CopyIn(i)
    <3>1. PICK n, t : /\ n = Lesser(PipeRead, Len(ses[i].buf))
                      /\ t = [ses[i] EXCEPT !.in = ses[i].in \o SubSeq(ses[i].buf, 1, n),
                                            !.buf = Rest(ses[i].buf, n)]
      OBVIOUS
    <3>2. ses' = [ses EXCEPT ![i] = t] /\ ses[i].buf # <<>>
      BY <2>7, <3>1 DEF CopyIn
    <3>3. /\ DOMAIN t = SessionFields /\ t.ws = ses[i].ws /\ t.dial = ses[i].dial /\ t.typed = ses[i].typed
          /\ t.up = ses[i].up /\ t.in = ses[i].in \o SubSeq(ses[i].buf, 1, n)
          /\ t.buf = Rest(ses[i].buf, n)
      BY <2>1, <3>1 DEF SessionFields
    <3>4. ses[i].ws \notin {"unused", "connecting"}
      BY <2>1, <3>2 DEF SessionOK
    <3>5. SessionOK(t)
      BY <2>1, <3>1, <3>2, <3>3, <3>4, CopyingStep
    <3>6. QED
      BY <1>2, <3>2, <3>3, <3>5, SessionStepInvariance DEF SessionStep
  <2>8. CASE \/ SeesClose(i) \/ ReaderEnds(i) \/ Handler(i) \/ Starts(i) \/ StartFails(i)
             \/ EndOfInput(i) \/ ShellExits(i)
    <3>1. PICK t : /\ ses' = [ses EXCEPT ![i] = t] /\ DOMAIN t = SessionFields
                   /\ t.ws \in {ses[i].ws, "closed"} /\ t.dial = ses[i].dial /\ t.typed = ses[i].typed
                   /\ t.up = ses[i].up /\ t.buf = ses[i].buf /\ t.in = ses[i].in
      <4>1. CASE SeesClose(i)
        <5>1. PICK t : t = [ses[i] EXCEPT !.ws = "closed"]
          OBVIOUS
        <5>2. ses' = [ses EXCEPT ![i] = t]
          BY <4>1, <5>1 DEF SeesClose
        <5>3. /\ DOMAIN t = SessionFields /\ t.ws \in {ses[i].ws, "closed"} /\ t.dial = ses[i].dial
              /\ t.typed = ses[i].typed /\ t.up = ses[i].up /\ t.buf = ses[i].buf /\ t.in = ses[i].in
          BY <2>1, <5>1 DEF SessionFields
        <5>4. QED
          BY <5>2, <5>3
      <4>2. CASE ReaderEnds(i)
        <5>1. PICK t : t = [ses[i] EXCEPT !.reader = "done", !.eof = TRUE]
          OBVIOUS
        <5>2. ses' = [ses EXCEPT ![i] = t]
          BY <4>2, <5>1 DEF ReaderEnds, Closed
        <5>3. /\ DOMAIN t = SessionFields /\ t.ws \in {ses[i].ws, "closed"} /\ t.dial = ses[i].dial
              /\ t.typed = ses[i].typed /\ t.up = ses[i].up /\ t.buf = ses[i].buf /\ t.in = ses[i].in
          BY <2>1, <5>1 DEF SessionFields
        <5>4. QED
          BY <5>2, <5>3
      <4>3. CASE Upgrade(i)
        <5>1. PICK t : t = [ses[i] EXCEPT !.handler = "streaming", !.reader = "reading"]
          OBVIOUS
        <5>2. ses' = [ses EXCEPT ![i] = t]
          BY <4>3, <5>1 DEF Upgrade
        <5>3. /\ DOMAIN t = SessionFields /\ t.ws \in {ses[i].ws, "closed"} /\ t.dial = ses[i].dial
              /\ t.typed = ses[i].typed /\ t.up = ses[i].up /\ t.buf = ses[i].buf /\ t.in = ses[i].in
          BY <2>1, <5>1 DEF SessionFields
        <5>4. QED
          BY <5>2, <5>3
      <4>4. CASE Refuse(i) \/ HandlerReturns(i)
        <5>1. PICK t : t = [ses[i] EXCEPT !.handler = "returned"]
          OBVIOUS
        <5>2. ses' = [ses EXCEPT ![i] = t]
          BY <4>4, <5>1 DEF Refuse, HandlerReturns
        <5>3. /\ DOMAIN t = SessionFields /\ t.ws \in {ses[i].ws, "closed"} /\ t.dial = ses[i].dial
              /\ t.typed = ses[i].typed /\ t.up = ses[i].up /\ t.buf = ses[i].buf /\ t.in = ses[i].in
          BY <2>1, <5>1 DEF SessionFields
        <5>4. QED
          BY <5>2, <5>3
      <4>5. CASE Starts(i) \/ StartFails(i) \/ EndOfInput(i) \/ ShellExits(i)
        <5>1. PICK x : ses' = [ses EXCEPT ![i].shell = x]
          BY <4>5 DEF Starts, StartFails, EndOfInput, ShellExits
        <5>2. PICK t : t = [ses[i] EXCEPT !.shell = x]
          OBVIOUS
        <5>3. /\ DOMAIN t = SessionFields /\ t.ws \in {ses[i].ws, "closed"} /\ t.dial = ses[i].dial
              /\ t.typed = ses[i].typed /\ t.up = ses[i].up /\ t.buf = ses[i].buf /\ t.in = ses[i].in
          BY <2>1, <5>2 DEF SessionFields
        <5>4. ses' = [ses EXCEPT ![i] = t]
          BY <5>1, <5>2
        <5>5. QED
          BY <5>3, <5>4
      <4>6. QED
        BY <2>8, <4>1, <4>2, <4>3, <4>4, <4>5 DEF Handler
    <3>2. SessionOK(t)
      BY <2>1, <3>1, QuietStep
    <3>3. QED
      BY <1>2, <3>1, <3>2, SessionStepInvariance DEF SessionStep
  <2>9. QED
    BY <1>2, <2>2, <2>3, <2>5, <2>6, <2>7, <2>8, <2>4 DEF BrowserEnd, Reader, Executor
<1>3. CASE UNCHANGED terminalVars
  BY <1>3 DEF TerminalInv, SessionsOK, TerminalFollowsPage, terminalVars, Target
<1>4. QED
  BY <1>1, <1>2, <1>3 DEF TerminalNext

(* What is typed in a terminal reaches the shell in order, with nothing lost   *)
(* while the socket is open, and the terminal on the screen is that of the     *)
(* pod, container and shell which the page names, for every number of          *)
(* sessions, of frames under way and of bytes in a read of the pipe.           *)
THEOREM TerminalShowsItsShell == TerminalSpec => []TerminalIsFaithful
<1>1. TerminalInit => TerminalInv
  <2> SUFFICES ASSUME TerminalInit PROVE TerminalInv
    OBVIOUS
  <2>1. DOMAIN ses = Sessions /\ \A i \in Sessions : ses[i] = Unused
    BY DEF TerminalInit
  <2>2. SessionsOK
    BY <2>1, UnusedIsOK DEF SessionsOK
  <2>3. TerminalFollowsPage
    BY <2>1, UnusedIsOK DEF TerminalInit, TerminalFollowsPage
  <2>4. QED
    BY <2>2, <2>3 DEF TerminalInit, TerminalInv
<1>2. TerminalInv => TerminalIsFaithful
  BY DEF TerminalInv, SessionsOK, SessionOK, TerminalIsFaithful, BytesInOrder
<1>3. QED
  BY <1>1, <1>2, TerminalStepInvariance, PTL DEF TerminalSpec
-----------------------------------------------------------------------------
(* Shells on a node.  The answer needs a container that the poll found running, *)
(* and one that runs, or has ended, has run.                                   *)
ShellInv ==
  /\ spawn \in [ShellAsks -> {"none", "asked", "waiting", "started", "answered", "failed"}]
  /\ podState \in [ShellAsks -> {"absent", "running", "ended"} \cup Waiting]
  /\ ran \in [ShellAsks -> BOOLEAN]
  /\ session \in [ShellAsks -> {"none", "open", "closed"}]
  /\ \A a \in ShellAsks :
       /\ podState[a] = "running" => ran[a]
       /\ spawn[a] \in {"started", "answered"} => ran[a]
       /\ session[a] # "none" => ran[a]

LEMMA ShellStep == ShellInv /\ [ShellNext]_shellVars => ShellInv'
<1> SUFFICES ASSUME ShellInv, [ShellNext]_shellVars PROVE ShellInv'
  OBVIOUS
<1>1. ASSUME NEW a \in ShellAsks, ClickShell(a) PROVE ShellInv'
  BY <1>1 DEF ClickShell, ShellInv
<1>2. ASSUME NEW a \in ShellAsks, Answer(a) PROVE ShellInv'
  BY <1>2 DEF Answer, ShellInv
<1>3. ASSUME NEW a \in ShellAsks, CloseSession(a) PROVE ShellInv'
  BY <1>3 DEF CloseSession, ShellInv
<1>4. ASSUME NEW a \in ShellAsks, GiveUp(a) PROVE ShellInv'
  BY <1>4 DEF GiveUp, ShellInv
<1>5. ASSUME NEW a \in ShellAsks, CreatePod(a) PROVE ShellInv'
  BY <1>5 DEF CreatePod, ShellInv, Waiting
<1>6. ASSUME NEW a \in ShellAsks, PollContainer(a) PROVE ShellInv'
  BY <1>6 DEF PollContainer, Started, ShellInv
<1>7. ASSUME NEW a \in ShellAsks, Deadline(a) PROVE ShellInv'
  BY <1>7 DEF Deadline, ShellInv
<1>8. ASSUME NEW a \in ShellAsks, Waits(a) PROVE ShellInv'
  BY <1>8 DEF Waits, ShellInv, Waiting
<1>9. ASSUME NEW a \in ShellAsks, Runs(a) PROVE ShellInv'
  BY <1>9 DEF Runs, ShellInv
<1>10. ASSUME NEW a \in ShellAsks, Ends(a) PROVE ShellInv'
  BY <1>10 DEF Ends, ShellInv
<1>11. ASSUME NEW a \in ShellAsks, Removed(a) PROVE ShellInv'
  BY <1>11 DEF Removed, ShellInv
<1>12. CASE UNCHANGED shellVars
  BY <1>12 DEF shellVars, ShellInv
<1>13. QED
  BY <1>1, <1>2, <1>3, <1>4, <1>5, <1>6, <1>7, <1>8, <1>9, <1>10, <1>11, <1>12 DEF ShellNext

-----------------------------------------------------------------------------
(* Renewing certificates.  A manifest that is out has somebody to bring it      *)
(* back: a script that has not listed the directory yet, or that has it on its  *)
(* list; unless a script was killed.                                          *)
Returns(s, f) ==
  \/ script[s].at \in {"testing", "moving", "sleeping", "killed"}
  \/ script[s].at = "returning" /\ f \in ToSet(script[s].files)

Scripted == [at : {"none", "renewing", "testing", "moving", "sleeping", "returning", "ended", "killed"},
             files : Seq(AllFiles)]

CertInv ==
  /\ script \in [Scripts -> Scripted]
  /\ \A s \in Scripts : script[s].at = "moving" => script[s].files # <<>>
  /\ inPlace \subseteq AllFiles
  /\ \A f \in AllFiles \ inPlace : \E s \in Scripts : Returns(s, f)

LEMMA GoIsScripted ==
  ASSUME NEW a \in {"none", "renewing", "testing", "moving", "sleeping", "returning", "ended", "killed"}
  PROVE  Go(a) \in Scripted /\ Go(a).at = a
BY JobsAssumption DEF Go, At, Scripted, AllFiles

\* A step of one script that moves no file, and leaves its duty as it was.
LEMMA ScriptMoves ==
  ASSUME CertInv, NEW s \in Scripts, NEW r \in Scripted, script' = [script EXCEPT ![s] = r],
         r.at = "moving" => r.files # <<>>, inPlace' \subseteq AllFiles,
         \A f \in AllFiles \ inPlace' :
            \/ r.at \in {"testing", "moving", "sleeping", "killed"}
            \/ r.at = "returning" /\ f \in ToSet(r.files)
            \/ f \notin inPlace /\ ~Returns(s, f)
  PROVE  CertInv'
<1>1. script' \in [Scripts -> Scripted] /\ script'[s] = r
  BY DEF CertInv
<1>2. \A t \in Scripts : script'[t].at = "moving" => script'[t].files # <<>>
  BY <1>1 DEF CertInv
<1>3. ASSUME NEW f \in AllFiles \ inPlace' PROVE \E t \in Scripts : Returns(t, f)'
  <2>1. CASE r.at \in {"testing", "moving", "sleeping", "killed"} \/ (r.at = "returning" /\ f \in ToSet(r.files))
    BY <1>1, <2>1 DEF Returns
  <2>2. CASE f \notin inPlace /\ ~Returns(s, f)
    <3>1. PICK t \in Scripts : Returns(t, f)
      BY <1>3, <2>2 DEF CertInv
    <3>2. t # s /\ script'[t] = script[t]
      BY <2>2, <3>1 DEF CertInv
    <3>3. Returns(t, f)'
      BY <3>1, <3>2 DEF Returns
    <3>4. QED
      BY <3>3
  <2>3. QED
    BY <2>1, <2>2, <1>3
<1>4. AllFiles' = AllFiles
  BY DEF AllFiles
<1>5. QED
  BY <1>1, <1>2, <1>3, <1>4 DEF CertInv, Scripted

LEMMA CertStep == CertInv /\ [CertNext]_certVars => CertInv'
<1> SUFFICES ASSUME CertInv, [CertNext]_certVars PROVE CertInv'
  OBVIOUS
<1>0. \A t \in Scripts : script[t] \in Scripted /\ script[t].files \in Seq(AllFiles)
  BY DEF CertInv, Scripted
<1>1. ASSUME NEW s \in Scripts, StartScript(s) PROVE CertInv'
  <2>1. script' = [script EXCEPT ![s] = Go("renewing")] /\ inPlace' = inPlace /\ script[s].at = "none"
    BY <1>1 DEF StartScript, Following
  <2>2. \A f \in AllFiles : ~Returns(s, f)
    BY <2>1 DEF Returns
  <2>3. QED
    BY <2>1, <2>2, GoIsScripted, ScriptMoves DEF CertInv
<1>2. ASSUME NEW s \in Scripts, Renewed(s) PROVE CertInv'
  <2>1. PICK then \in {"testing", "ended"} : script' = [script EXCEPT ![s] = Go(then)]
    BY <1>2 DEF Renewed, Following
  <2>2. inPlace' = inPlace /\ script[s].at = "renewing"
    BY <1>2 DEF Renewed
  <2>3. \A f \in AllFiles : ~Returns(s, f)
    BY <2>2 DEF Returns
  <2>4. QED
    BY <2>1, <2>2, <2>3, GoIsScripted, ScriptMoves DEF CertInv
<1>3. ASSUME NEW s \in Scripts, Test(s) PROVE CertInv'
  <2>1. Tail(script[s].files) \in Seq(AllFiles) /\ script[s].files # <<>>
    BY <1>0, <1>3 DEF Test
  <2>2. At("moving", script[s].files) \in Scripted /\ At("testing", Tail(script[s].files)) \in Scripted
    BY <2>1, <1>0 DEF At, Scripted
  <2>3. /\ At("moving", script[s].files).at = "moving" /\ At("moving", script[s].files).files # <<>>
        /\ At("testing", Tail(script[s].files)).at = "testing"
    BY <2>1 DEF At
  <2>4. inPlace' = inPlace
    BY <1>3 DEF Test
  <2>5. CASE script' = [script EXCEPT ![s] = At("moving", script[s].files)]
    BY <2>2, <2>3, <2>4, <2>5, ScriptMoves DEF CertInv
  <2>6. CASE script' = [script EXCEPT ![s] = At("testing", Tail(script[s].files))]
    BY <2>2, <2>3, <2>4, <2>6, ScriptMoves DEF CertInv
  <2>7. QED
    BY <1>3, <2>5, <2>6 DEF Test, CertInv
<1>4. ASSUME NEW s \in Scripts, MoveOut(s) PROVE CertInv'
  <2>1. Tail(script[s].files) \in Seq(AllFiles)
    BY <1>0, <1>4 DEF MoveOut, CertInv
  <2>2. At("testing", Tail(script[s].files)) \in Scripted /\ At("testing", Tail(script[s].files)).at = "testing"
    BY <2>1 DEF At, Scripted
  <2>3. /\ script' = [script EXCEPT ![s] = At("testing", Tail(script[s].files))]
        /\ inPlace' \subseteq AllFiles
    BY <1>4 DEF MoveOut, CertInv
  <2>4. QED
    BY <2>2, <2>3, ScriptMoves
<1>5. ASSUME NEW s \in Scripts, Slept(s) PROVE CertInv'
  <2>1. script' = [script EXCEPT ![s] = Go("sleeping")] /\ inPlace' = inPlace
    BY <1>5 DEF Slept, Following
  <2>2. QED
    BY <2>1, GoIsScripted, ScriptMoves DEF CertInv
<1>6. ASSUME NEW s \in Scripts, List(s) PROVE CertInv'
  <2>1. PICK names \in [1..Cardinality(AllFiles \ inPlace) -> AllFiles \ inPlace] :
          ToSet(names) = AllFiles \ inPlace /\ script' = [script EXCEPT ![s] = At("returning", names)]
    BY <1>6 DEF List
  <2>2. IsFiniteSet(AllFiles)
    <3>1. AllFiles = {Manifests[i] : i \in 1..Len(Manifests)} /\ Len(Manifests) \in Nat
      BY JobsAssumption DEF AllFiles, ToSet
    <3>2. IsFiniteSet(1..Len(Manifests))
      BY <3>1, FS_Interval
    <3>3. Manifests \in Surjection(1..Len(Manifests), AllFiles)
      BY <3>1, JobsAssumption DEF AllFiles, Surjection
    <3>4. QED
      BY <3>2, <3>3, FS_Surjection
  <2>3. Cardinality(AllFiles \ inPlace) \in Nat
    BY <2>2, FS_Subset, FS_CardinalityType
  <2>4. names \in Seq(AllFiles)
    <3>1. PICK n \in Nat : n = Cardinality(AllFiles \ inPlace)
      BY <2>3
    <3>2. names \in [1..n -> AllFiles]
      BY <2>1, <3>1
    <3>3. QED
      BY <3>2
  <2>5. At("returning", names) \in Scripted
    BY <2>4 DEF At, Scripted
  <2>6. At("returning", names).at = "returning" /\ At("returning", names).files = names /\ inPlace' = inPlace
    BY <1>6 DEF At, List
  <2>7. QED
    BY <2>1, <2>5, <2>6, ScriptMoves DEF CertInv
<1>7. ASSUME NEW s \in Scripts, MoveBack(s) PROVE CertInv'
  <2>1. script[s].at = "returning"
    BY <1>7 DEF MoveBack
  <2>2. CASE script[s].files = <<>>
    <3>1. At("ended", <<>>) \in Scripted /\ At("ended", <<>>).at = "ended"
      BY DEF At, Scripted
    <3>2. script' = [script EXCEPT ![s] = At("ended", <<>>)] /\ inPlace' = inPlace
      BY <1>7, <2>2 DEF MoveBack
    <3>3. \A f \in AllFiles : ~Returns(s, f)
      BY <2>1, <2>2 DEF Returns, ToSet
    <3>4. QED
      BY <3>1, <3>2, <3>3, ScriptMoves DEF CertInv
  <2>3. CASE script[s].files # <<>>
    <3>1. PICK q \in Seq(AllFiles) : q = script[s].files /\ q # <<>>
      BY <1>0, <2>3
    <3>2. Tail(q) \in Seq(AllFiles) /\ Head(q) \in AllFiles
      BY <3>1
    <3>3. ToSet(q) = {Head(q)} \cup ToSet(Tail(q))
      <4>0. /\ Len(q) \in Nat /\ DOMAIN q = 1..Len(q) /\ Len(Tail(q)) = Len(q) - 1
            /\ DOMAIN Tail(q) = 1..(Len(q) - 1)
        BY <3>1
      <4>1. ASSUME NEW i \in DOMAIN q
            PROVE  q[i] = Head(q) \/ (i - 1 \in DOMAIN Tail(q) /\ q[i] = Tail(q)[i - 1])
        <5>1. CASE i = 1
          BY <3>1, <5>1
        <5>2. CASE i # 1
          <6>1. i - 1 \in DOMAIN Tail(q)
            BY <4>0, <5>2
          <6>2. Tail(q)[i - 1] = q[(i - 1) + 1]
            BY <3>1, <4>0, <6>1
          <6>3. QED
            BY <4>0, <6>1, <6>2
        <5>3. QED
          BY <5>1, <5>2
      <4>2. \A i \in DOMAIN Tail(q) : i + 1 \in DOMAIN q /\ Tail(q)[i] = q[i + 1]
        BY <3>1
      <4>3. Head(q) = q[1] /\ 1 \in DOMAIN q
        BY <3>1
      <4>4. QED
        BY <4>1, <4>2, <4>3 DEF ToSet
    <3>4. PICK r : r = [script[s] EXCEPT !.files = Tail(q)]
      OBVIOUS
    <3>5. r \in Scripted /\ r.at = "returning" /\ r.files = Tail(q)
      BY <3>2, <3>4, <2>1, <1>0 DEF Scripted
    <3>6. script' = [script EXCEPT ![s] = r] /\ inPlace' = inPlace \cup {Head(q)}
      BY <1>7, <2>3, <3>1, <3>4 DEF MoveBack, CertInv
    <3>7. \A f \in AllFiles \ inPlace' : f \in ToSet(r.files) \/ (f \notin inPlace /\ ~Returns(s, f))
      BY <2>1, <3>1, <3>3, <3>5, <3>6 DEF Returns
    <3>8. QED
      BY <3>2, <3>5, <3>6, <3>7, ScriptMoves DEF CertInv
  <2>4. QED
    BY <2>2, <2>3
<1>8. ASSUME NEW s \in Scripts, Killed(s) PROVE CertInv'
  <2>1. At("killed", <<>>) \in Scripted /\ At("killed", <<>>).at = "killed"
    BY DEF At, Scripted
  <2>2. script' = [script EXCEPT ![s] = At("killed", <<>>)] /\ inPlace' = inPlace
    BY <1>8 DEF Killed
  <2>3. QED
    BY <2>1, <2>2, ScriptMoves DEF CertInv
<1>9. CASE UNCHANGED certVars
  BY <1>9 DEF certVars, CertInv, Scripted, AllFiles, Returns
<1>10. QED
  BY <1>1, <1>2, <1>3, <1>4, <1>5, <1>6, <1>7, <1>8, <1>9 DEF CertNext

LEMMA JobsInitInv == ShellInit /\ CertInit => ShellInv /\ CertInv
<1> SUFFICES ASSUME ShellInit, CertInit PROVE ShellInv /\ CertInv
  OBVIOUS
<1>1. ShellInv
  BY DEF ShellInit, ShellInv
<1>2. At("none", <<>>) \in Scripted /\ At("none", <<>>).at = "none"
  BY DEF At, Scripted
<1>3. CertInv
  BY <1>2 DEF CertInit, CertInv
<1>4. QED
  BY <1>1, <1>3

LEMMA JobsStep == ShellInv /\ CertInv /\ [JobsNext]_<<shellVars, certVars>> => ShellInv' /\ CertInv'
BY ShellStep, CertStep DEF JobsNext

\* A session of exec is only opened on a container that has run, whatever the
\* kubelet does with the pod, whoever deletes it and whenever the browser leaves.
THEOREM ShellsHaveRun == JobsSpec => []ShellHasRun
<1>1. ShellInv => ShellHasRun
  BY DEF ShellInv, ShellHasRun
<1>2. QED
  BY <1>1, JobsInitInv, JobsStep, PTL DEF JobsSpec

\* For any number of scripts and any list of manifests: once all scripts that
\* ran have ended and none was killed, every manifest is back in its place.
THEOREM ManifestsAreBack == JobsSpec => []ManifestsReturn
<1>1. CertInv => ManifestsReturn
  BY DEF CertInv, ManifestsReturn, Returns
<1>2. QED
  BY <1>1, JobsInitInv, JobsStep, PTL DEF JobsSpec
=============================================================================
