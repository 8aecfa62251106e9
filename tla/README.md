# k8s-view in TLA+

k8s-view is a Kubernetes dashboard: a Go server that holds kubeconfigs and
shared informers, and a React page that shows live lists of resources over one
websocket per cluster. These modules model the parts of it that keep state and
share it: how a change in a cluster reaches a list in a browser, how clusters
come, go and survive a restart, what shells, forwards and jobs leave behind when
one side goes away, and how the page keeps several copies of one fact in step.
TLC checks them on small instances; TLAPS proves their safety for every size:
each invariant and each action property of a passing run is a theorem.

    tlc -workers 2 -config InformerLifecycle.cfg MCInformerStore     # one run
    tlapm InformerStoreProofs.tla                                    # one proof module

Contents: [inventory](#1-inventory), [modules](#2-modules-and-how-they-follow-the-code),
[runs](#3-runs), [bounds](#4-bounds), [fairness](#5-fairness), [proofs](#6-proofs),
[disagreements found](#7-where-code-and-comments-disagree),
[not modelled](#8-not-modelled), [plan](#9-plan).

## 1. Inventory

Paths are below `src/`. "Hard" is what makes the part difficult to test.

### Server

| Part | State | Operations | Hard | Correct when | Module |
|---|---|---|---|---|---|
| Informer store (`internal/clusters/informers.go`) | `entries` by (GVR, namespace); per entry a context, `subs`, an informer with its own store; a channel of 256 events per stream | `subscribe`, `initialSnapshot`, `removeEntry`, `broadcast`, `Stream.Close`, `maybeStop`, `stopAll` | two mutexes, lists and sends outside both, janitors that sleep 60 s, a creator that fails after others joined | one informer per key, none running that nobody can find, deltas in order after the snapshot, idle informers stop | `InformerStore` |
| Cluster connection (`cluster.go`) | atomics `paused`, `stopped`, `connected`; the root context | `Subscribe`, `Pause`, `Resume`, `Stop`, `probe`, `checkConnectivity` | atomics that nothing orders, probes in flight across a pause | a paused cluster starts nothing new, the status dot converges | `Cluster` |
| Cluster manager, import (`manager.go`, `import.go`) | `clusters`, `order`, `current`, `loadedFiles`; a directory of kubeconfigs under no lock | `ImportKubeconfig`, `LoadImported`, `Remove`, `SetCurrent`, start-up | memory and disk change in separate steps, names get suffixes, writes truncate first | names stay unique and stable, `current` exists, each cluster of the picker has its file | `ClusterManager` |
| Registry (`registry.go`) | `managers` by identity, `legacyAdopted`, a sentinel file | `For`, adoption of old kubeconfigs, `Wait` | adoption must happen once, over crashes | one identity gets the old files, and none is put out of reach but by a copy that fails or is cut short | `Registry` |
| Stream multiplexer (`internal/api/stream.go`) | `subs` by sid, `out` (1024 frames), `stop`, `once` | reader, pumps, writer, pinger, context watcher, `shutdown` | five kinds of goroutines, shutdown from any of them at any point | frames of a stream arrive in order, every goroutine ends, no stream is forgotten | `StreamMux` |
| Identity (`internal/auth`) | the device cookie | `Identify`, `AdoptDeviceID` | responses that arrive after an adoption | an adoption stays | `DeviceIdentity` |
| Shells (`exec.go`, `io.go`) | pipe, resize queue, a goroutine per socket, an executor | read, write, close | teardown from both ends | bytes in order, both ends end | `TerminalSession` |
| Forwards (`portforward.go`) | a handler and two goroutines per socket | ready, error, stop | stop, reconnect and late closes | a stopped forward ends | `PortForwards` |
| Requests in sequence (`handlers.go` drain, `nodeshell.go`, `nodekubeadm.go`, `rollback.go`) | objects in the cluster | several API requests each, or a script on a node | others act, or one fails, between two of them | nobody slips in, nothing stays out, what is applied was reviewed | `NodeJobs`, `Rollback` |
| Prometheus cache (`prometheus.go`) | target or miss per cluster name, 60 s | `discoverPrometheus` | concurrent misses, cancelled requests | a hit is no older than its time to live | - |
| Router, other handlers, logs, configuration, `main.go` | none of their own | one call each | - | - | - |

### Browser

| Part | State | Operations | Hard | Correct when | Module |
|---|---|---|---|---|---|
| Stream pool (`frontend/src/lib/stream.ts`) | per cluster name one `ClusterStream`: socket, timer, `dead`, `everConnected`; the pool; the badge's hook | `connect`, `onopen`, `onclose`, `checkAlive`, `declareDead`, `close`, `getClusterStream`, `destroyClusterStream`, `useClusterConnected` | late events of old objects, recreation from inside a destroy | one connection and one retry loop per name, the badge is right | `ClusterStream` |
| Live lists (`useResourceList.ts`) | cache of collections with counts and teardown timers; items by uid and by source | `acquireCollection`, `release`, `applyFrom`, `fail` | views that come and go, several namespaces, reconnects | the subscription lives as long as a view, no ghosts | `ResourceList` |
| REST client, page reactions (`api.ts`, `App.tsx`, `Topbar.tsx`, `stores/`) | breaker per cluster; active cluster, tabs | requests, sweepers, gone reaction, connect, disconnect, remove | late answers, the same state torn down by four paths | an active cluster can be left | `ClusterLife` |
| Tabs and history (`stores/tabs.ts`, `TopTabs.tsx`, `navStack.ts`) | the strip, the address, a list of pages beside the browser's | open, close, keep, follow; the arrows | two copies of one fact | the strip shows the address, the arrows its neighbours | `PageTabs`, `NavStack` |
| Panes (`BottomPane.tsx`, `DetailPanel.tsx`) | the query of the address | add, close, turn, errands at the server | each handler rewrites a copy it captured | no session closes unasked | `Panes` |
| Editors (`YAMLEditPane.tsx`, `YAMLTab`) | a text, a version it is based on | fetch, type, save, preview | other clients write in between | no update is lost | `YamlEdit` |
| Tables (`ResourceTable.tsx`, `ResourceListPage.tsx`, `Modals.tsx`) | rows, checks, filters, dialogs, bulk runs, columns, widths | check, delete, bulk, answer, hide, resize | rows and dialogs that go while a handler waits | what is confirmed is what is deleted | `TableView`, `ColumnLayout` |
| Command palette | a query, a highlight, three sources of entries | type, arrows, enter | the list changes under the highlight | Enter has a row | `CommandPalette` |
| Pins, settings, import form | local storage of several windows; a form | pin, drag, change, upload, check, send | whole copies written over each other | what was arranged, uploaded, checked is what is kept | `LocalStores`, `ImportDialog` |
| Log streams and page (`logStreams.ts`, `PodLogsPage.tsx`) | a pool of sockets with rings of lines, persisted; picked containers | open, retry, reconnect, evict, reload; pick | stale `onclose`, limits, late lists | nothing that claims to live stalls, the ring is the tail | `LogStreams`, `LogRing`, `LogView` |
| Port-forward sessions (`portForwards.ts`) | sessions with a socket each | start, reconnect, stop, remove | stale `onclose` | a forward has an owner | `PortForwards` |
| Metrics (`podMetrics.ts`, `clusterMetrics.ts`, `OverviewPage.tsx`) | the source, ranges, live histories | scope, tab, object, answers, ticks | answers of the former scope | no sample is drawn for another | `MetricCharts` |
| Belongings (`ResourceDetailPage.tsx`, `TopologyGraph.tsx`) | live lists | walks over owner references | namesakes, adoption, lists that lag | three sections tell one story | `Ownership` |
| Pod status (`podStatus.ts`, `columns.tsx`) | none | three readings | states of pods nobody wrote a test for | the readings agree | `PodStatus` |
| Warnings, notifications, helpers, rendering | small | - | - | - | - |

### How they interact

    API server --watch--> informer --broadcast--> channel --pump--> m.out --writer--> websocket
      (InformerStore)                                 (StreamMux)
                                                                        |
    view <--render-- ResourceCollection <--frames-- ClusterStream <-----+
                      (ResourceList)                 (ClusterStream)

    request --cookie--> Registry.For --> Manager --> Cluster --> informerStore
     (DeviceIdentity)   (Registry)     (ClusterManager)  (Cluster)  (InformerStore)

    xterm --websocket--> reader --pipe--> executor --> shell     (TerminalSession)
    row   --websocket--> handler --> listener on the backend     (PortForwards)

A subscription is a message on the websocket (`streamMux.handleSubscribe`), a
call of `Cluster.Subscribe`, and one of `informerStore.subscribe`. A pause or a
removal arrives as a REST request of the same or another device; it stops the
informers, while the websocket and the streams on it stay open. The browser
learns of it from its next list of clusters, from a refused upgrade, or from a
404.

## 2. Modules and how they follow the code

The core, each with proofs of its own:

| Module | Models | Extends |
|---|---|---|
| `InformerStore` | `informers.go` | - |
| `KeyedLease` | what the store promises, abstractly | - |
| `Cluster` | `cluster.go`: switch, probe and stop around the store | `InformerStore` |
| `StreamMux` | `api/stream.go`: one connection | - |
| `ClusterManager` | `manager.go`, `import.go`: one identity's clusters | - |
| `Registry` | `registry.go`: identities and the adoption | - |
| `ClusterStream` | `stream.ts`: one cluster name in one page | - |
| `ResourceList` | `useResourceList.ts`: one list over that stream | `ClusterStream` |

The other modules of the tables above stand alone. They meet in the `MC`
modules: `MCServer`, `MCConnections`, `MCKubeconfigFiles`, `MCResourceList`,
`MCWorkspace` and `MCViews` each put several components *side by side*. A variable `part` is
chosen at the start; a behaviour then follows that component and the others
stand still. Nothing is lost by it, since these components share no variable,
and no product of their states is built; it lets one run ask one question of a
whole layer. Where components do interact they are composed by EXTENDS
(`Cluster` over `InformerStore`, `ResourceList` over `ClusterStream`) or live in
one module because the code has them share state (`TableView` with its dialogs,
`LogStreams` with its page, `PortForwards` with both ends, `MetricCharts` with
its source).

Some properties that the runs check are conjunctions of named parts
(`TabsAreFaithful` is `TabShowsAddress` and `KeptTabsStay`); the parts carry
their own comments. A definition called "mutant" in a comment is not part of a
specification: it is a plausible bug that a property must detect.

**InformerStore.** An action is a critical section of `s.mu` or `entry.mu`, or
the code between two of them. `subscribe` is five steps: `SubscribeBegin` (join
or create under `s.mu`), `InitialSnapshot` (look at `HasSynced` once),
`ApiAnswer` (the list request returns or fails), `Register` (under `entry.mu`),
`PushSnapshot` (outside). `broadcast` copies the set (`BroadcastCopy`) and sends
channel by channel (`BroadcastSend`), which delivers, drops or panics. `Close`
is `CloseUnregister` and `CloseChannel`; `maybeStop` is `JanitorCheck` and
`JanitorStop`. A collection is abstracted to a version: delta `v` is the `v`-th
change, a snapshot at `v` contains changes `1..v`. The informer of client-go is
external: it lists, then follows, and calls its handler later.

**KeyedLease** has three actions: grant a fresh informer to a key that has none,
use one up without running it, release. `InformerStore` implements it under
`holder[k] = entries[k] if that is running`.

**Cluster** adds the goroutines of the connect, disconnect and remove handlers
and the ticker. `Admit` is the test of `paused`; the call of the store comes
later. `Pause` is three steps, `Stop` three, `checkConnectivity` three, `Resume`
one and a probe. Everything else the store does is `StoreStep`.

**StreamMux** has one program counter per service goroutine (`at`) and one per
pump. `shutdown` is entered by whoever fails first (`Enter`, `Clear`, `Finish`)
and waited for by the others (`Leave`), which is what `sync.Once` does. The
reader subscribes without the lock and then registers: on a nil map it panics
(`RegisterPanics`), and the server's recovery leaves the mutex locked. Frames
carry the stream and the number of its event.

**ClusterManager** separates memory (one step under `m.mu`) from disk (a step
per system call: find a free path, truncate, write, mark; scan, unlink or
rewrite, forget). `Restart` can happen anywhere; `LoadFile` then reads the
directory in its order before requests are served. A context is a number, an
assigned name `<<context, n>>` stands for `context` or `context-n`, a path
likewise.

**Registry** holds `r.mu` from `ForBegin` to `ForEnd` while the legacy files are
copied one by one. `os.WriteFile` truncates and then fills: `CopyBegins` leaves a
part of the file in the directory, `CopyEnds` the whole; `CopyFails` leaves what
was there. The sentinel is written at the end, or not; `RestartRegistry` can come
in between, and `ForBegin` takes any file that exists for adopted, as `os.Stat`
does.

**ClusterStream** treats an event handler of the page as one action, since
JavaScript runs it to completion, and lets the events of old objects arrive at
any time. A socket is connecting, open, closing (its `onclose` is due) or none.
`Destroy` includes what happens inside it: `bumpPool` calls the mounted hook,
which calls `getClusterStream`, which puts a new object into the pool. The
server is absent, paused or live, and changes at any time.

**ResourceList** adds a cached collection, the views that use it (`Render` takes
a reference, the first effect subscribes and takes another, `Unmount` gives
back), the delayed teardown, the 30 s timeout, the frames on the wire and the
server's side of each subscription. Its stream steps are those of
`ClusterStream` together with what they do to subscriptions.

**Server side, step by step.** `TerminalSession` has per session the page's
socket, the goroutine that reads it into the pipe (`ReaderReads`, `ReaderEnds`),
the copy from the pipe to the shell (`CopyIn`) and the handler; the page's effect
closes one session and dials the next in one action (`PageBecomes`). The
request's context does not end with the connection, so that the end of the
browser reaches the shell as the end of its input only. `DeviceIdentity` keeps
nothing at the server: requests carry the cookie of the jar they were sent with
and answers write it again, in any order. `NodeJobs` has the shell's pod from the
click to the session, the certificate script command by command, several at a
time, and the drain's requests one by one beside a scheduler that decides on a
node before it binds. An accepted eviction makes a pod terminate (`leaving`); it
goes later, and nobody waits for it. `Rollback` has the tab's two requests,
the dialog, the server's three (`GetDeployment`, `FindRevision` among the sets of
the deployment that was got, and the patch), beside the deployment controller. A
template is a function from what it can set to values, so that the strategic merge
of the patch (`Merged`) keeps what the old template sets and the new one does not.
`PortForwards` has, for each socket, the handler of `portforward.go`, the
goroutine that reads the socket and stops the forward, and the one that waits for
it to be ready and tells the port (`herald`), which may do so when all is over.

**The page.** React commits a navigation and runs its effects before the next
event, so a handler with the navigation it asks for and the effects that follow
is one action; what was captured by an earlier render (`Panes`' errands,
`PageTabs`' context menu, the drag in `LocalStores`) is kept as a copy. Requests
and dialogs are where a handler stops and goes on later. Windows of one browser
share their storage and nothing else, and the storage may refuse a write
(`Refused`), which `favourites.ts` swallows. `Filters` says what a filter of the stores
returns; `PageTabs` and `LocalStores` extend it.

**Readings.** `Ownership` and `PodStatus` translate the functions that read
shared data, operator by operator, beside an environment that makes data as the
controllers and the kubelet do.

## 3. Runs

Passing runs; the modules state each property in full above its definition.

| Run | Module | Shows |
|---|---|---|
| InformerLifecycle | MCInformerStore | `RunsForClaims`: an informer runs if and only if the map points at it, and then a creator, a subscriber, a closer or a janitor is left to stop it. `ImplementsLease`: one informer per key, never restarted |
| InformerDelivery | MCInformerStore | `DeliveryIsComplete`: without overflow a stream gets every delta handed out after its snapshot was sent, once and in order; what else it misses was handed out between the list and that send. `IdleInformerStops` (liveness) |
| Server | MCServer | `PausedInformersAreStragglers`: on a paused cluster only calls that had passed the check before the clean-up have informers. `ConnectedConverges` (liveness): the dot ends up right. `TerminalIsFaithful`: bytes typed reach the shell of the terminal they were typed in, in order, and the page has the one socket its header names. `SessionsEnd` (liveness): goroutines and shell of a session end once the browser is gone. `AdoptionSticks`: an adoption that no other id was under way with stays. `DrainMissesNobody`: who is left on a drained node is exempt, was refused, was on its way before the cordon, or is terminating. `JobsEndWell`: no manifest stays out after overlapping renewals, each request for a node shell is answered (liveness), with a pod that has run |
| KubeconfigFiles | MCKubeconfigFiles | `RestartRestores`: of each context name there are as many copies on disk as clusters in the picker, and of each payload as long as no removal took another's. `NamesAreStable` (action property). `LegacyHasOneOwner`: the legacy files go to one identity, whole but for copies that failed or were cut short |
| Connections | MCConnections | `OpenStreamsAreReachable`, `StreamFramesAreGapless`, `GoroutinesEnd` (liveness) of the mux. `OneStreamPerCluster`: one pooled object, one reconnect chain in it, the hook bound to it; `Reconnects` (liveness). `ForwardsStop`: a forward belongs to a session that can stop it, and stops (liveness) after Stop and after Remove, unless it was orphaned |
| LiveLists | MCResourceList | `SubscriptionsMatchUse`: a list in use is subscribed on the pooled stream, unless that was destroyed under it, and one not in use is on its way out. `ListsAreFaithful`: no ghosts, and a fed list shows what the server holds. Beside the lists, `ActiveHasTab` of `ClusterLife`: an active cluster can be left |
| Workspace | MCWorkspace | Ten modules whose parts act on the user's word: `TabsAreFaithful`, `ListMirrorsHistory`, `SessionsCloseOnPurpose`, `NoLostUpdate`, `DeletesAsConfirmed`, `HiddenOnPurpose`, `HighlightOnARow`, `PinsAreAsArranged`, `PhotoStays`, `SendsTheChecked`, `AppliesTheReviewed` |
| Views | MCViews | Seven components that show what the cluster holds: `NeverStalls`, `RingIsFaithful` (the ring implements `LogWindow`, holds no line twice, and is the tail of the log), `PicksSurvive`, `SamplesOfTheShown`, `BelongingsAreRight`, `PodIsReadRight` |

Runs that must end with a violation, one property each (section 7):
ClosedChannelSend, StrandedStream, RemovedReturns, DeadStreamReused.

Deadlock is checked in KubeconfigFiles, LiveLists, RemovedReturns and
DeadStreamReused. Elsewhere the system may stop: a store whose finite supply of
calls and entries is used up, a crashed process, a connection whose goroutines
have all ended, a page whose user does nothing more.

Several properties are claims with a condition that the code makes necessary,
and the condition is part of what was learnt: `ListMirrorsHistory` holds while
the page pushes and is moved by its own arrows one at a time; `AdoptionSticks`
as long as no request with another id was under way; `ForwardIsOwned` until the
user reconnects before the old socket has reported its close;
`SessionsCloseOnPurpose` except for errands that come back from the server;
`AppliesTheReviewed` unless the deployment was replaced by another of its name;
`SubscriptionIsLive` until the stream is destroyed under the list; `PicksSurvive` but
for a turn to a pod that the watched list does not have; `LegacyHasOneOwner` for
identities and copies that no crash has interrupted;
`NoDialogLost` unless an answer races with a dialog that is not rendered yet.
Section 7 has the cases they exclude.

## 4. Bounds

| Bound | Value | Why it is enough |
|---|---|---|
| `Entries`, `Subs` | 3 and 3 (lifecycle), 1 and 2 (delivery), 1 and 1 (pause) | an old entry, its successor and a third; a creator, a joiner and a late-comer. Delivery needs one informer with a keeper and a leaver; entries share nothing |
| `Keys` | 1 | keys do not interact; a second key only multiplies states |
| `ChanCap` | 1 and 2 instead of 256 | full, empty and in between all occur |
| `MaxVersion` (store) | 2 in delivery, 0 elsewhere | one delta to lose and one to overtake it; the life cycle does not depend on deltas |
| `Callers` | 1 and the ticker | a pause or resume against the probe; overlapping handlers are covered by the theorem for any number |
| `Sessions`, `MaxTyped`, `PipeRead`, `MaxFlying` | 2, 2, 1, 1 | a session that ends while the next one starts; two bytes can be swapped, and one read leaves a rest |
| `Tabs`, `Requests`, ids | 2, 2, one adopted and two minted | a tab that adopts while another polls, with or without a cookie |
| `NodePods`, `Exempt` | 3, 1 | one that is evicted, one that is refused or arrives, one DaemonSet pod |
| `ShellAsks`, `Scripts`, `Manifests` | 2, 3, 3 | two clicks; a third script that starts between the moves of the other two; a manifest out, one moving, one back |
| `OutCap`, `EventsOf` | 1; two events and none | the pump blocks on a full queue; a stream that is subscribed and silent |
| `Handlers`, `Payloads`, `MaxClusters`, `MaxFiles` | 2, 2, 3, 2 | two requests at once, contexts that clash; a suffixed name beside the original and another; two files to choose from |
| `Identities`, `Legacy` | 3, 2 | two that race and one after a restart; a crash between two copies, or within one |
| `Streams`, `MaxDials` | 3 in the pool, 2 under lists; 3 | the object that was destroyed, the recreated one, and a fresh one; two forward sockets that were replaced |
| `Views`, `Sources`, `Objects`, `MaxWire` (lists) | 2 each | an owner that leaves first; two namespaces with an object each; a frame behind another |
| `LifeClusters`, `MaxCalls`, `MaxBusy`, `MaxPolled` | 2, 2, 1, 0 | two requests of one cluster under way at once, of which one is served before the removal and answered after it; the list asked for by a handler while one of them is under way, and by the timer while none is; the other cluster changes at the server. The theorem has no such bound |
| `TabClusters`, `MaxTabs` (a cluster), `Pages` | 2, 2, 2 | a kept tab and the preview, in the cluster shown and in another |
| `MaxHist`, `NavMax`, `MaxMoves` | 4, 3, 2 | the list is cut before the history is, and a second move is asked for before the first commits |
| `MaxPanes`, `Editors`, `MaxVersion` (editors) | 2, 2, 3 | a session beside the one rewritten; the pane and the tab on one object, and another client |
| `Names`, `MaxUid`, `Runs` | 2, 2, 2 | a row recreated under its name; two bulk runs whose dialogs stack |
| `NumFixed`, `NumStreamed`, `MatchCap` | 2, 1, 2 | a list longer than the cap, that shrinks below the highlight |
| `MaxPins`, `Pinnable`, `Windows`, `MaxUnsaved` | 3; three objects of one cluster; 2, 1 | a drag past a row, up or down, with a third that must not move; one window whose list was refused. That the pins of other clusters stay is the theorem's |
| `MaxRevision`, `TemplateKeys`, `Rolled`, `MaxOwners` | 3, 2, 2, 2 | renumbering and collecting around the reviewed revision, with a container more or less; a recreated deployment. `history` keeps one row of an answer, the one that will be clicked, which stands for each. Keys whose values conflict are the theorem's |
| `HardCap`, `MaxSaved`, `MaxLine` | 3, 2, 4 | the ring wraps, is cut for persistence and overtaken |
| `ContainerSets` | three containers; two of them | a pick of two of three, and a pod that lacks one of them; the pool knows one regular container at a time of a pod just turned to |
| `MaxClock`, `HistoryLen` | 2, 2 | a range that expires, a history that fills; that one which trims stays in order is the theorem's |
| `MCObjects` | 2 namesakes, one in between, 2 pods of one name, a service | every object of a chain recreated or adopted |
| `NumMains`, `MCSpecs`, `MCExits` | 2; none, an init container, one with a sidecar; three exits | each pair of container states beside one another |

`InformerDelivery` uses `UndisturbedFairSpec`: the cluster is neither paused nor
stopped, which `InformerLifecycle` and `Server` cover. `LiveLists` uses a VIEW
that leaves out the two history variables of `ClusterStream`, which no guard and
none of its properties read. Symmetry is used in runs without liveness only.

## 5. Fairness

* Store: weak fairness of every step a goroutine has begun (a call of
  `subscribe`, the second half of a `Close`, the janitors): the Go scheduler
  runs them and list requests have a timeout. None for a consumer closing its
  stream or for changes in the cluster.
* Cluster: the 15 s ticker fires and `/version` requests end within their 5 s
  timeout. Nobody has to press a button.
* Mux: every goroutine that can run does; `Cluster.Subscribe` returns; a read on
  a closed socket fails; the context of a handler that has returned is
  cancelled. The client need not read, write or leave.
* Terminal: `ServerEnd`, the goroutines of one session at the server, and a
  shell that ends at the end of its input (`SessionsEnd` is about such shells;
  a process that ignores it keeps its session, section 7).
* Node shells: the handler's deadline of two minutes and its answer. Containers need
  not start, pull or end.
* Stream pool: the browser delivers close events, answers and timers (weak).
  `OnOpen` has strong fairness: the network may fail any attempt but not every
  one. Without it a reconnect loop may fail for ever, and rightly so.
* Port-forwards: what a socket was told arrives, in the end, at both sides.

Side by side, each of these is required in the behaviours of its own part only
(`WF_v(part = "mux" /\ A)`): elsewhere the action is disabled and nothing is
required.

## 6. Proofs

A theorem holds for every value of the constants that its module's named
assumptions admit: any sets of keys, entries, subscribers, streams, handlers,
identities, tabs, sessions, pods, contexts and containers, any capacity, any
number of versions, frames and restarts. What is assumed is what the code makes
true: capacities and caps are positive (`ChanCapAssumption`, `MaxWireAssumption`,
`RingAssumption`); a payload has finitely many contexts, at least one
(`ContextsInAssumption`), and the dialog's file finitely many
(`ImportAssumption`); a key has finitely many views (`ViewsAssumption`); there
is a place to be at (`NavAssumption`); the overview is a page with a list, as in
`sections.ts`, and the cap on tabs is a number (`PageAssumption`); there is a window and a cluster
to pin in, and room for one pin (`PinAssumption`); the palette has finitely many
entries and shows at least one (`PaletteAssumption`); the names under
`/etc/kubernetes/manifests` make a list (`JobsAssumption`); services and nodes are
the objects that stay (`OwnershipAssumption`); a container that ends has the reason
"Completed" exactly if its exit code is 0 (`PodAssumption`, which is the kubelet);
and the values that mean "none" are no real ones.

| Module | Theorems | Inductive invariant |
|---|---|---|
| `InformerStoreProofs` | `TypeCorrect`, `RunsIffRegistered`, `RunningIsClaimed`, `RunsForItsClaims`, `BroadcastStays`, `DeliveryCompletes`, `StoreImplementsLease` | `IInv`: the map part (an entry is of the key that maps to it, calls and janitors have allocated entries), `SubsAreRegistered` (`entry.subs` is who is between `Register` and `CloseUnregister`), and the properties. `RunningInformerIsClaimed` needs it because a close must know whether it was the last one. `DeliveryInv` says of each subscriber that has not overflowed: the deltas in its channel are consecutive up to the last one offered (`Gapless`), a snapshot in the channel is followed by every delta that came after it (`SnapshotIsFollowed`), and each such delta is in the view or in the channel (`Arrives`). `SnapshotsInv`: the only snapshot in a channel is the subscriber's own, which waits there or is in the view; with the other two it follows that an open stream misses nothing but what was handed out between the list and the push (`OnlyTheGapIsLost`). The refinement takes one lemma for grants and one for releases |
| `ServerProofs` | `ClusterIsAStore`, `SwitchTypeCorrect`, `PauseHolds` | `ClusterIsAStore` maps every step to a step or stutter of the store, so that all of the theorems above hold of a cluster. `StragglersInv` adds that calls still between the check and the store are known stragglers while the pause is settled |
| | `DrainsEverybody` | `NobodySlipsIn` (once the node is cordoned, only exempt pods and those that were on their way before are still bound to it) and `LeftAreKnown` (who is on the node is still to be evicted, or is exempt, was refused, was on its way or is terminating), by the step the handler is at |
| | `AdoptionIsKept` | `JarIsAdopted`: after an adoption that no other id was under way with, the jar and every request under way carry the adopted id; `RequestsAreWhole`: an answer writes what its request's id and adoption say |
| | `TerminalShowsItsShell` | `SessionOK` of each session: what the shell has, what is in the pipe and what is in the frames are, end to end, in the order typed, and all of it while the socket is open; a socket that is not open yet has carried nothing. `TerminalFollowsPage` is inductive beside it |
| | `ShellsHaveRun`, `ManifestsAreBack` | the safety halves of `JobsEndWell`. `ShellInv`: the poll lets a request through only when the container has run. `CertInv`: each manifest that is out has a script that will still list the directory, has it on its list, or was killed (`Returns`); overlapping scripts may take over each other's files, so that the duty belongs to no script in particular |
| `StreamMuxProofs` | `TypeCorrect`, `StreamsReachable`, `LeaksAtMostOne`, `FramesStayInOrder` | `LeakInv`: what shutdown leaves open is in the reader's hands, or was dropped by its panic, after which there is no reader to open another. `InOrder`: the frame in the writer's hands is the next one of its stream (`HeldIsNext`), each frame in `m.out` follows on that or on an earlier frame of the queue (`QueueInOrder`), and the last is the one its pump sent last (`QueueComplete`); `PumpsAreFresh` says that a stream that is not registered is not pumped |
| | `ForwardsHaveAnOwner` | the safety half of `ForwardsStop`. `SocketsAreTheSessions`: until a reconnect comes too early, a socket that is connecting or open is the session's, and at most one that closed has yet to report it. `OthersAreHungUp`: at all times the same holds of every socket that is not an orphan. `ForwardsHaveSockets`: a handler runs on a connection only |
| `KubeconfigProofs` | `TypeCorrect`, `DefaultNeverDangles`, `ClustersAreNotReplaced` | `TypeOK` and `CurrentIsUsable`. The lemmas say that a non-empty set of names has a first one, and, by counting, that a free suffix exists |
| | `PickerIsBacked` | `DiskInv`: as long as nothing has failed or overlapped (`clean`), the clusters of a context and the copies that a removal under way has yet to take are no more than the copies in files and those a request has yet to write (`Balanced`, by cardinalities). This is counted over all payloads together, and over each by itself while every removal found a file of its own payload (`own`, `Counted`). At most one request is at work on the files (`OneOnDisk`), what it saw is what is there (`SeesDisk`), and every file with contents is in `loadedFiles` or about to be (`ReadIsLoaded`). At rest nothing is owed on either side |
| | `AdoptTypeCorrect`, `LegacyAdoptedOnce`, `LegacyNeverLost`, `LegacyIsOwned` | adds `Exclusive` (until the adoption is recorded, only the one being made has legacy files, but for those a crash interrupted), `CopiesAreKnown` (a part of a file is being written, or was cut), `OneAtATime` and `Complete` (what the manager being made has whole and what it still has to copy) |
| `ResourceListProofs` | `StreamTypeCorrect`, `ReconnectChain`, `PoolConnectsAlone`, `BadgeFollowsPool`, `PauseKillsNoStream`, `OneStreamAtATime` | `Healthy` of each object (lemmas about records, one per handler), `PoolOwns`, and `AbsenceRecorded` for the question that is under way |
| | `ListsUseThePool`, `ListTypeCorrect`, `UsedAreKept`, `SubscriptionsStayLive`, `UnusedAreDropped`, `SubscriptionsFollowUse`, `NoGhostsEver`, `ListIsExact`, `ListsStayFaithful` | every step of a list is one of the pool or leaves it alone, so the theorems above hold with lists on top. `Kept` counts: `refs` is one for each view and one more for each view that subscribed. `FeedInv` relates the subscription to the pool: it is on the pooled object unless that was destroyed under it, of which nothing is fed (`AtThePool`, `SeveredIsNotPooled`, `FedByOpen`), and an object that gave up has told the views (`DeadIsTold`). `FrameInv` reads the frames under way backwards (`Exact`): of the frames that tell of an object the last tells the truth, and if none does the list is right already. It needs `OwnObjects` (a namespace contributes and tells of its own objects only) and `FedIsSubscribed` (without a subscription nothing is fed, which is why a new collection may start empty) |
| `PageProofs` | `SavesLoseNothing` | `YamlInv`: every copy of the object, in a query, in an answer, in a buffer or in a request, shows all writes up to its own version, so that the one version an update is accepted for misses none |
| | `ActiveClusterHasTab` | `WellPlaced`: tabs, active cluster and address agree, and the address is that of a cluster that the cached list has; the sweepers and the effects are lemmas about records |
| | `PhotosStay` | needs the shape of the settings only (`SettingsInv`); the weight is in the action property, one case per writer of the store |
| | `ReviewedIsApplied` | `NewestStays`: a deployment's newest replica set is never collected, so that a fresh number is above every one that any copy, however old, still holds; `NumbersAreKept`: what a number stood for in such a copy is what it stands for now; `FoundIsReviewed`: hence the server's look-up finds the template that was shown, if the deployment it got first is the one that was reviewed (`GotIsBetween`: it is that one or one made after it) |
| | `CheckedIsSent` | `ChecksShown`: what is checked is in the text that is shown |
| | `ColumnsHideOnPurpose` | `ChoicesHaveReasons`: a stored choice leaves out only what the user unchecked, what is off by default and what was not offered when it was stored, also of columns that are not on offer now |
| | `ArrowsFollowHistory` | while the page is calm, `Aligned`: the list is a piece of the history, the cursor in it is the browser's position, and neighbours in the history differ; `UnderWay`: at most one move is under way, it is the one that the list expects, and there is an entry to move to |
| | `PanesCloseOnPurpose` | `PanesInv` (the address, and the one an errand carries, are well formed); what each handler's rewriting of the list keeps (`Keeps`) is a lemma about sequences |
| | `DeletionsAreConfirmed` | `AwaitedOnce`: the stack has one dialog of each run that waits, of the step it waits at, and none of any other run; without the second half a run that comes back from the server could not push its alert blindly. What a run still has to call for was on display when it started |
| `ViewProofs` | `LogsAreFaithful` | `RingInv`: read from its head the ring is the memory of lines seen, cell by cell (`CellsHold`), no line is in it twice (`OneEach`), and as long as one connection feeds it, it is the end of the log (`FedByOne`). The refinement of `LogWindow` follows from the first |
| | `StreamsNeverStall` | `LogsInv`: a socket belongs to the stream that opened it, and the one a stream points at is its own (`SocketsAreOwned`); a stream in a live state has a socket or an armed timer, unless nobody watches it (`AliveIsBusy`). The invariant takes streams and sockets as parameters, so that it holds in the middle of the loops over streams too |
| | `ChartsShowOneThing` | `History`: each sample was taken of what the history is of, later than the sample before it and not after the clock; `ChartInv`: the result on display is that of the scope on display, and each kept history is of its own scope |
| | `PicksStay` | `PicksInv`: the names picked are on offer, as long as anything is. `OffersStay`: what a step that is not the user's leaves in the pod's spec stays on offer, whether the offer comes from the list, the page's own request or the pool |
| | `PodsAreReadRight` | `PodInv`: the statuses are ones a kubelet reports (`GoodStatus`: only a container that runs is ready, one that ended has a code that agrees with its reason), and an evicted pod runs nothing. The theorem is then about the functions that read them |
| | `PagesShowWhatBelongs` | `OwnInv`: an owner, at the server or as learnt, is of a kind that owns such objects; of workloads, one of a name lives at a time; the page's object has the name and kind in the address. That the three walks agree needs no invariant (`OneStory`: each follows the references by its own code); that they show exactly what descends from the object does, since the fixed depth of the walks suffices only because of the kinds (`TrueStory`). Events are matched by uid or by kind and name, so that those of every object that had the name are among them, and stated to be |
| `WorkspaceProofs` | `HighlightStaysOnARow` | `PaletteInv`: the highlight is 0 or below the number of rows in the middle of any typing, and negative only after the ArrowDown that the property excludes. `EntriesAreFew` and `PlacedAnew`: whatever the ranks, the list is finite and each row is well defined |
| | `PinsStayAsArranged` | `PinsInv` (types, and `QuietWindowsAgree`, which excepts a window whose list the storage refused). The weight is in `Moved`: taking an element out of a list and putting it in before another, with the index corrected as `reorder` does, leaves every other element in order, and the other clusters' sublists as they were (`OneOut`, `OneIn`, `KeptOfConcat`, `KeptOfKept`) |
| | `TabsStayFaithful` | `TabInv`: the strip is `Sound` (ids are unique, one preview at most, the active tab exists or there is none, a kept tab is where it was), in a shell the active tab is the page (`PageIsShown`), and an open menu was opened on a tab that is still the same or gone (`MenuIsHeld`). One lemma for each operation of `stores/tabs.ts`, one for each way to arrive at a page (`Arrives`) |

The theorems that restate a property of a run name it; the others are the parts
and the types they rest on.

Proving changed the models in three ways. Arms of a CASE that overlap are chosen
in order by TLC and in any order by the logic: `Icon`, `Options`, `Active`, `Kept`, `Toggled`,
`Source`, `Kind` and `Phase` now say which arm goes first, as the code's
chain of tests does. An empty string as "nothing" could have been equal to a
value that the constants allow; it is a name of its own now. And three
assumptions that the small instances met tacitly are stated: a finite set of
contexts, a place to be at, and the exit code that goes with "Completed".

Induction over lists comes up in `Filters`, `LocalStores` and `PageTabs`. The
library's induction theorems take an operator, which the backends cannot
instantiate, so `WorkspaceProofs` argues over a set instead: of the lengths at
which a claim fails there would be a least one, which well-foundedness of the
naturals refutes. What a filter returns is then stated once, by the places it
keeps (`KeptByPlaces`, `KeptIsTheRest`).

Proving changed four models in this respect: `PageTabs` and `LocalStores` filter by
`Kept` instead of `SelectSeq`, which is recursive and takes an operator;
`CommandPalette` picks each row by its rank instead of sorting; the reference
`Descending` of `Ownership` is the least closed set instead of a recursion.

Model-checked only, and why:

* Liveness: `IdleInformerStops`, `ConnectedConverges`, `SessionsEnd`,
  `GoroutinesEnd`, `Reconnects`, and the liveness halves of `JobsEndWell`
  (`ShellIsAnswered`) and `ForwardsStop` (`StopEndsForward`). They rest on
  fairness and ENABLED, which tlapm does not reason about.

## 7. Where code and comments disagree

Shown by a run of its own:

* **ClosedChannelSend** (`ChannelClosedBySender`). A comment of `Stream` says
  that the subscription's goroutine closes the channel. The consumer does, in
  `Stream.Close`, while `broadcast` may hold a copy of the subscribers: the send
  panics, and an informer's handler is not covered by the server's recovery.
* **StrandedStream** (`OpenStreamIsFed`). `Cluster.Subscribe` promises a stream
  that delivers events. A subscriber that joins an entry whose creator's list
  then fails gets a snapshot, and nothing after it: the entry was removed.
* **RemovedReturns** (`DiskMatchesMemory`). `Remove` says it deletes the
  kubeconfig that defined the context. It looks the file up by the assigned
  name: a cluster that was suffixed is never found and is back after a restart.
* **DeadStreamReused** (`ReimportIsFresh`). `destroyClusterStream` is said to
  make a re-import of the name start afresh. While the badge's hook is mounted
  it recreates the object at once, which dies of the 404, stays in the pool, and
  is what the re-import gets.

Met while modelling. Those marked * are what the conditions of a property
exclude (section 3); the others are reported from reading the code.

Server

* \* An adoption is undone by a poll of any tab that was sent before it and
  answered after it (`internal/auth/device.go:49`; `internal/api/handlers.go:109`
  says "the saved kubeconfigs are back"). Tabs opened at once without a cookie
  mint several identities.
* \* A drain counts refused evictions as skipped, does not try them again, and
  the page shows success (`handlers.go:712`), although its dialog says that every
  other pod will be evicted (`ResourceDetailPage.tsx:324`). It does not wait for
  those it evicted either: "Drained" (331) is shown while they terminate.
* \* What changes between a subscriber's list (`informers.go:231`) and its
  registration, or the push of its snapshot (239-245), reaches it neither in the
  snapshot nor as a delta, or before the snapshot that undoes it, although a
  stream "delivers add/update/delete events".
* \* A cluster that is paused while a subscribe is between its check and the store
  keeps the informer, although `cluster.go:48` and `manager.go:203` say that no
  informers run. A probe under way at that moment stores its answer after the
  pause (`cluster.go:134`), so that the dot may show a paused cluster as connected.
* \* A removal looks for the context's name and strips the first file of the
  directory that has it (`import.go:299`). Of two clusters whose contexts have one
  name that may be the other's: after a restart the one that was kept is gone.
* \* A crash inside `os.WriteFile` leaves a truncated copy of a legacy file, which
  the next start takes for adopted (`manager.go:508`, 516). One before the
  sentinel is written lets a second identity adopt them too, although
  `registry.go:28` says that this happens exactly once.
* A rollback sends a strategic merge patch (`rollback.go:222`), so that what was
  added to the template since stays, although 7 and 135 say that the template is
  copied back and replaced.
* `nodeShellCleanup` (`frontend/src/lib/api.ts:344`) has no caller: the
  privileged pod outlives its session, although `nodeshell.go:178` says the
  frontend removes it. It also survives a start that timed out.
* A certificate script that is killed between its moves leaves manifests out;
  three that overlap may leave a component with its old certificates.
* The Prometheus cache is one map by cluster name for all identities
  (`prometheus.go:72`), a cancelled request caches its miss for 60 s, and of
  overlapping probes the slowest writes last.
* A terminal ends at the shell as the end of its input only: a process attached
  to that ignores it is never ended. A full queue of sizes drops the newest.
* Two goroutines of `portforward.go` write to one connection, and one waits for
  ever for a forward that never gets ready.

Streams and sockets of the browser

* A late `onclose` of a log socket that `reconnect()` replaced schedules another
  connect: several sockets per stream (`logStreams.ts:645`, though its header
  says one). `previous` logs of a running container reconnect without end. With
  32 streams on display, the one just opened is the only one that can be evicted:
  it is closed before its page watches it (184, 695).
* Streams found in storage are said to be ended until the user reconnects
  (`logStreams.ts:721`, 750); those that follow reconnect by themselves (781).
* The server refuses the upgrade of a paused cluster's stream, and says that the
  browser sees `paused: true` and gives the stream up (`internal/api/stream.go:67`).
  The browser only looks for the name in the list, so that it dials again for as
  long as the pause lasts: `OnlyRemovalKills` is what the page does.
* \* A stream that is destroyed under mounted lists clears their handlers and tells
  them nothing (`lib/stream.ts:211`): they show what they have, and nothing new,
  until the last of them is left for good.
* \* Reconnecting a forward before its old socket has reported the close orphans
  the new socket (`portForwards.ts:191`), although each session is said to be one
  socket (3); nothing in the page can stop the orphan's forward.
* A late 2xx closes the breaker of a removed cluster (`api.ts:169`), and any 404
  below a cluster's path opens it (`api.ts:152`). Topbar's Disconnect destroys
  the stream before the server is told.

The page

* \* Replaced locations are recorded as pushes, and pushes of the same location
  or quick double clicks shift the arrows' list against the browser's history,
  although `navStack.ts:5` says it works like a browser.
* \* `onNodeShell`, `onDelete` and the kubeadm jobs write the query and path of
  the render they were clicked in: a session opened meanwhile closes. Sessions
  are lost on a change of cluster.
* `openPreview` can duplicate the route of a kept tab; a preview opened for good
  stays one (`stores/tabs.ts`).
* \* `Modals.pop` removes the last dialog by position: one that was pushed and
  not rendered yet is lost and its promise never settles (`Modals.tsx:150`).
  Deletions go by name, without the uid that was confirmed.
* A typed text of the YAML pane is replaced when the object's stamp changes,
  what is typed while saving is lost, and the YAML tab's second save always
  conflicts.
* One failed poll of the clusters shows the import screen; the home page's shell
  can keep an active cluster.
* Each window writes its whole copy of the pins and of the settings: a pin
  overwrites another window's that it has not heard of yet (`favourites.ts:132`),
  a list that the storage has no room for lives in that window only (134),
  and the settings never hear (`app.ts:186`), so that a window, or a photo that
  is still being scaled, brings back the settings of a forgotten cluster.
* \* A deployment that is recreated while the rollback dialog is open gets
  another template than the one acknowledged in the diff (`RolloutsTab.tsx:8`).
* Turning on a metric column shows nothing if a choice of columns was stored
  while it was off; a drag that outlives its list writes widths under the former
  one.
* A favourite dragged downwards lands one above the row it was dropped on, although
  `favourites.ts:73` says that it moves to index `to`.
* \* ArrowDown in a palette without rows puts the highlight at -1, and the rows that
  come back have none (`CommandPalette.tsx:243`).
* \* Turning to a pod that the watched list does not have yet offers what the pool
  of log streams knows of it, and prunes the pick by that: a picked container
  that the pod does have is dropped (`PodLogsPage.tsx:129`, 184).
* Lines of another pod stay in a paused log page.

What is shown

* A pod with a native sidecar never shows green (`podStatus.ts:29`); a pod that
  cannot start its init container is red or yellow by where one looks; a first
  container that completed hides another that crashes in the chip's colour.
* \* Events of a former object of the same name are shown as an object's own
  (`ResourceDetailPage.tsx:2319`), although 2311 says that the fallback by kind
  and name is for events whose object has no uid.
* The Prometheus series of the former scope or metric stays drawn until those of
  the new one arrive (`clusterMetrics.ts:176`, which speaks of the next window).
* The index of warnings is rebuilt at every change, although
  `eventsIndex.ts:63` says that rebuilds are capped.
* Pod pages have no topology, which `README.md:151` promises.

## 8. Not modelled

Within modelled parts: frames that fail to encode and the real-time length of
deadlines and delays (`StreamMux`; any wait may end at any time); contexts
literally called `x-2`, contexts client-go refuses, clusters from the
environment or the local scan, and references left inside a rewritten file
(`ClusterManager`); the in-cluster mode (`Registry`); batching per animation
frame and discarded or doubled renders (`ResourceList`). The upgrade's check of
the cluster and the browser's `onopen` are one step in `ClusterStream`. The
server side of `ResourceList` is a faithful but lossless channel: what overflow
does is `InformerStore`'s subject. What a shell prints, and the queue of sizes
(`TerminalSession`); the search and the pause of the log page (`LogView`); a
page that displays more than `MAX_STREAMS` sources (`LogStreams`); the points
of Prometheus, which a query keeps (`MetricCharts` has the samples of
metrics-server, and that its trimming keeps them in order is shown by the
theorem only); the columns of the topology, cut at 30 and 60 objects, and the
pages of pods (`Ownership`); cookies' attributes (`DeviceIdentity`); what a
script prints, its upgrade variant (`NodeJobs`).

Parts without a module, with their reasons, are in `PROJECT.json`: the resolution
of resource names (stateless over client-go's answers), the Prometheus cache, the
index of warnings, notifications, start-up and configuration, the demo backend
(a fake server in the page), packaging, and everything that renders. Hazards that
no property covers are listed there as well, with the reason.

## 9. Plan

Done, in this order: the core (`InformerStore` with `KeyedLease`, `Cluster`,
`StreamMux`, `ClusterManager`, `Registry`, `ClusterStream`, `ResourceList`) with
proofs about each; then identity, cluster life, sockets, the server's sequences
of requests, the page's stores, tables and views.

Left, each small:

1. `ResourceList` over a lossy channel: compose it with `InformerStore`'s
   overflow to bound what a slow tab can miss until it reconnects.
2. `PromCache`: the expiry, misses of cancelled requests, and names shared by
   identities.
3. `ClusterLife` over `ClusterStream`, so that Disconnect's order of destroying
   the stream and telling the server is part of one behaviour.
