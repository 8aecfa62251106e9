---------------------------- MODULE ResourceList ----------------------------
(***************************************************************************)
(* A list of resources kept in step with the server through a              *)
(* ClusterStream: frontend/src/lib/useResourceList.ts on top of            *)
(* frontend/src/lib/stream.ts.                                             *)
(*                                                                         *)
(* One key (cluster, gvr, namespaces) is modelled: the cached collection,  *)
(* its reference count and delayed teardown, the views that use it, and    *)
(* the frames between the server and the collection.  Source is one        *)
(* namespace of the key, with a subscription (sid) of its own.             *)
(*                                                                         *)
(* The server (external) answers a subscribe with a snapshot and then      *)
(* sends every change, in order, until the cluster is paused or removed,   *)
(* which silently ends the subscription while the socket stays open.       *)
(***************************************************************************)
EXTENDS ClusterStream, Naturals, Sequences, FiniteSets

CONSTANTS
  Views,     \* mounted users of the hook with this key
  Sources,   \* namespaces of the key
  Objects,   \* objects the API server may hold
  SourceOf,  \* the namespace each object lives in
  MaxWire    \* bound: frames under way to one subscription

ASSUME ViewsAssumption == IsFiniteSet(Views)
ASSUME SourceOfAssumption == SourceOf \in [Objects -> Sources]
ASSUME MaxWireAssumption == MaxWire \in Nat \ {0}

VARIABLES
  objects,   \* what the API server holds
  view,      \* each view: "out", "rendered", "watching", or the "owner" that subscribed
  entry,     \* the cache holds a collection for the key
  refs,      \* its reference count
  teardown,  \* its teardown timer is armed
  feed,      \* stream object the collection subscribed on; NoStream: no subscription
  waiting,   \* the 30 s timeout for a first result is pending
  phase,     \* "loading", "ready" or "failed"
  items,     \* the collection's items
  scoped,    \* ... and the uids it got from each source
  served,    \* server's side of each subscription: "no", "asked" or "fed"
  wire,      \* frames on their way to each subscription
  severed    \* history: the object subscribed on was destroyed, its handlers with it

listVars == <<objects, view, entry, refs, teardown, feed, waiting, phase, items,
              scoped, served, wire, severed>>
vars == <<streamVars, listVars>>

CollectionVars == <<entry, refs, teardown, feed, waiting, phase, items, scoped>>

Snapshot(uids) == [kind |-> "snapshot", list |-> uids]
Delta(kind, uid) == [kind |-> kind, list |-> {uid}]
ErrorFrame == [kind |-> "error", list |-> {}]
Frame == [kind : {"snapshot", "add", "delete", "error"}, list : SUBSET Objects]

NoFrames == [src \in Sources |-> <<>>]
NotServed == [src \in Sources |-> "no"]
Asked == [src \in Sources |-> "asked"]
Nothing == [src \in Sources |-> {}]

Init ==
  /\ StreamInit
  /\ objects = {}
  /\ view = [v \in Views |-> "out"]
  /\ entry = FALSE /\ refs = 0 /\ teardown = FALSE
  /\ feed = NoStream /\ waiting = FALSE /\ phase = "loading"
  /\ items = {} /\ scoped = Nothing
  /\ served = NotServed /\ wire = NoFrames /\ severed = FALSE

-----------------------------------------------------------------------------
(* ResourceCollection.applyFrom.                                           *)

\* Mutant: the snapshot is added to what is shown.
SnapshotAdds(src, uids) ==
  /\ items' = items \cup uids
  /\ scoped' = [scoped EXCEPT ![src] = uids]
  /\ phase' = "ready"

\* A snapshot replaces what its source had contributed, not the whole list.
WithSnapshot(src, uids) ==
  /\ items' = (items \ scoped[src]) \cup uids
  /\ scoped' = [scoped EXCEPT ![src] = uids]
  /\ phase' = "ready"

WithObject(src, uids) ==
  /\ items' = items \cup uids
  /\ scoped' = [scoped EXCEPT ![src] = @ \cup uids]
  /\ UNCHANGED phase

WithoutObject(uids) ==
  /\ items' = items \ uids
  /\ scoped' = [src \in Sources |-> scoped[src] \ uids]
  /\ UNCHANGED phase

\* fail() keeps the items and shows the error.
Failed == phase' = "failed" /\ UNCHANGED <<items, scoped>>

ApplyFrom(src, f) ==
  \/ f.kind = "snapshot" /\ WithSnapshot(src, f.list)
  \/ f.kind = "add" /\ WithObject(src, f.list)
  \/ f.kind = "delete" /\ WithoutObject(f.list)
  \/ f.kind = "error" /\ Failed

OnFrame(src) ==
  /\ wire[src] # <<>>
  /\ ApplyFrom(src, Head(wire[src]))
  /\ wire' = [wire EXCEPT ![src] = Tail(@)]
  /\ UNCHANGED <<streamVars, objects, view, entry, refs, teardown, feed, waiting, served, severed>>

-----------------------------------------------------------------------------
(* acquireCollection and the two effects of the hook.                      *)

\* Rendering takes a reference and cancels a pending teardown; the first render
\* for the key creates the collection.
Render(v) ==
  /\ view[v] = "out"
  /\ view' = [view EXCEPT ![v] = "rendered"]
  /\ entry' = TRUE
  /\ refs' = refs + 1
  /\ teardown' = FALSE
  /\ IF entry THEN UNCHANGED <<phase, items, scoped>>
              ELSE phase' = "loading" /\ items' = {} /\ scoped' = Nothing
  /\ UNCHANGED <<streamVars, objects, feed, waiting, served, wire, severed>>

\* Somebody subscribed already: the effect only watches.
Watch(v) ==
  /\ view[v] = "rendered" /\ feed # NoStream
  /\ view' = [view EXCEPT ![v] = "watching"]
  /\ UNCHANGED <<streamVars, objects, CollectionVars, served, wire, severed>>

\* ClusterStream.subscribe: a dead object answers with an error at once, an
\* open one sends the request, any other sends it when it opens.
SubscribeOn(r) ==
  /\ phase' = IF r.dead THEN "failed" ELSE phase
  /\ served' = IF ~r.dead /\ r.socket = "open" THEN Asked ELSE served

\* The first effect subscribes on the pooled object and holds a second
\* reference until its view goes.
Subscribe(v) ==
  /\ view[v] = "rendered" /\ feed = NoStream
  /\ view' = [view EXCEPT ![v] = "owner"]
  /\ refs' = refs + 1
  /\ waiting' = TRUE
  /\ \/ /\ pool # NoStream
        /\ SubscribeOn(stream[pool])
        /\ UNCHANGED streamVars
     \/ /\ GetStream
        /\ UNCHANGED <<phase, served>>
  /\ feed' = pool'
  /\ UNCHANGED <<objects, entry, teardown, items, scoped, wire, severed>>

References(v) == IF view[v] = "owner" THEN 2 ELSE 1

\* Mutant: the view that subscribed unsubscribes when it goes.
OwnerUnsubscribes(v) ==
  /\ view[v] \in {"watching", "owner"}
  /\ view' = [view EXCEPT ![v] = "out"]
  /\ refs' = refs - References(v)
  /\ teardown' = (teardown \/ refs' = 0)
  /\ feed' = IF view[v] = "owner" THEN NoStream ELSE feed
  /\ UNCHANGED <<streamVars, objects, entry, waiting, phase, items, scoped, served, wire, severed>>

\* The cleanups release what the view holds; the last release arms the timer.
Unmount(v) ==
  /\ view[v] \in {"watching", "owner"}
  /\ view' = [view EXCEPT ![v] = "out"]
  /\ refs' = refs - References(v)
  /\ teardown' = (teardown \/ refs' = 0)
  /\ UNCHANGED <<streamVars, objects, entry, feed, waiting, phase, items, scoped, served, wire, severed>>

\* Unsubscribing forgets the sids: frames under way find no handler.
Unsubscribed == served' = NotServed /\ wire' = NoFrames

TeardownTimer ==
  /\ teardown
  /\ teardown' = FALSE
  /\ \/ /\ refs > 0
        /\ UNCHANGED <<entry, feed, waiting, served, wire, severed>>
     \/ /\ refs = 0
        /\ entry' = FALSE /\ feed' = NoStream /\ waiting' = FALSE /\ severed' = FALSE
        /\ Unsubscribed
  /\ UNCHANGED <<streamVars, objects, view, refs, phase, items, scoped>>

SnapshotTimeout ==
  /\ waiting
  /\ waiting' = FALSE
  /\ phase' = IF phase = "loading" THEN "failed" ELSE phase
  /\ UNCHANGED <<streamVars, objects, view, entry, refs, teardown, feed, items, scoped, served, wire, severed>>

-----------------------------------------------------------------------------
(* The stream object's events, with what they do to the subscriptions.     *)

\* Nothing of the connection survives: frames and the server's side are gone.
Disconnected(s) ==
  IF s = feed THEN Unsubscribed ELSE UNCHANGED <<served, wire>>

StreamOpens(s) ==
  /\ OnOpen(s)
  /\ served' = IF s = feed THEN Asked ELSE served
  /\ UNCHANGED <<objects, view, CollectionVars, wire, severed>>

StreamFails(s) ==
  /\ SocketFails(s)
  /\ Disconnected(s)
  /\ UNCHANGED <<objects, view, CollectionVars, severed>>

\* declareDead hands an error frame to every handler.
StreamDies(s) ==
  /\ DeclareDead(s)
  /\ phase' = IF s = feed THEN "failed" ELSE phase
  /\ UNCHANGED <<objects, view, entry, refs, teardown, feed, waiting, items, scoped, served, wire, severed>>

\* close() drops the handlers without telling them; the collection goes on
\* believing that it is subscribed.
StreamDestroyed ==
  /\ Destroy
  /\ Disconnected(pool)
  /\ severed' = (severed \/ pool = feed)
  /\ UNCHANGED <<objects, view, CollectionVars>>

StreamElse ==
  /\ \/ \E s \in Streams : OnClose(s) \/ CheckAnswered(s) \/ CheckRetries(s) \/ ReconnectTimer(s)
     \/ GetStream \/ MountHook \/ UnmountHook
  /\ UNCHANGED listVars

-----------------------------------------------------------------------------
(* The server (external).                                                  *)

Held(src) == {o \in objects : SourceOf[o] = src}

Send(src, f) == Len(wire[src]) < MaxWire /\ wire' = [wire EXCEPT ![src] = Append(@, f)]

Answer(src) ==
  /\ served[src] = "asked"
  /\ \/ /\ server = "live"
        /\ Send(src, Snapshot(Held(src)))
        /\ served' = [served EXCEPT ![src] = "fed"]
     \/ /\ Send(src, ErrorFrame)
        /\ served' = [served EXCEPT ![src] = "no"]
  /\ UNCHANGED <<streamVars, objects, view, CollectionVars, severed>>

ObjectChanges(o) ==
  LET src == SourceOf[o]
      kind == IF o \in objects THEN "delete" ELSE "add"
  IN  /\ objects' = IF o \in objects THEN objects \ {o} ELSE objects \cup {o}
      /\ \/ served[src] = "fed" /\ Send(src, Delta(kind, o))
         \/ served[src] # "fed" /\ UNCHANGED wire
      /\ UNCHANGED <<streamVars, view, CollectionVars, served, severed>>

\* Pause and removal stop the informers behind an open socket.
ServerChanges(state) ==
  /\ ServerBecomes(state)
  /\ served' = [src \in Sources |->
                  IF state # "live" /\ served[src] = "fed" THEN "no" ELSE served[src]]
  /\ UNCHANGED <<objects, view, CollectionVars, wire, severed>>

Next ==
  \/ \E v \in Views : Render(v) \/ Watch(v) \/ Subscribe(v) \/ Unmount(v)
  \/ TeardownTimer \/ SnapshotTimeout
  \/ \E s \in Streams : StreamOpens(s) \/ StreamFails(s) \/ StreamDies(s)
  \/ StreamDestroyed \/ StreamElse
  \/ \E src \in Sources : OnFrame(src) \/ Answer(src)
  \/ \E o \in Objects : ObjectChanges(o)
  \/ \E state \in ServerState : ServerChanges(state)

Spec == Init /\ [][Next]_vars

-----------------------------------------------------------------------------
(* Properties.                                                             *)

\* Every variable keeps its type.
TypeOK ==
  /\ StreamTypeOK
  /\ objects \subseteq Objects
  /\ view \in [Views -> {"out", "rendered", "watching", "owner"}]
  /\ entry \in BOOLEAN /\ refs \in Nat /\ teardown \in BOOLEAN
  /\ feed \in born \cup {NoStream} /\ waiting \in BOOLEAN
  /\ phase \in {"loading", "ready", "failed"}
  /\ items \subseteq Objects
  /\ scoped \in [Sources -> SUBSET Objects]
  /\ served \in [Sources -> {"no", "asked", "fed"}]
  /\ wire \in [Sources -> Seq(Frame)]
  /\ severed \in BOOLEAN

Mounted == {v \in Views : view[v] # "out"}
Subscribed == {v \in Views : view[v] \in {"watching", "owner"}}

\* Views come and go in any order over one shared collection: while one uses
\* it, it exists and its teardown is not pending, whichever of them leaves first.
UsedIsKept == Mounted # {} => entry /\ ~teardown

\* Once an effect ran, the collection's handlers are at the pooled object, and
\* if that one has given up the views have been told.  Not so when the object
\* was destroyed under them (a disconnect, a 404 of any REST call): close()
\* clears the handlers (stream.ts:211-213) and says nothing, hasSubscription()
\* stays true, and no frame comes again for this key, to no view of it, until
\* the last one has gone and the teardown has dropped the collection.
SubscriptionIsLive ==
  /\ Subscribed # {} /\ ~severed =>
       feed # NoStream /\ feed = pool /\ (stream[pool].dead => phase = "failed")
  /\ severed => served = NotServed /\ wire = NoFrames

\* A collection nobody uses is on its way out: no subscription leaks.
UnusedIsDropped == (entry /\ Mounted = {}) => teardown

\* The collection lives exactly as long as somebody uses it, whichever of
\* several views mounts first and leaves last, and so does its subscription but
\* for a stream destroyed under it.
SubscriptionsMatchUse == UsedIsKept /\ SubscriptionIsLive /\ UnusedIsDropped

\* Reconnects, partial snapshots and deltas of several namespaces leave no
\* ghost: what is shown is what some source still contributes.
NoGhosts == items = UNION {scoped[src] : src \in Sources}

\* While the server feeds the collection, what is shown once the frames under
\* way are handled is what the server holds - also after any reconnect.
FedListIsExact ==
  (\A src \in Sources : served[src] = "fed" /\ wire[src] = <<>>) => items = objects

\* A list shows what its sources contribute and, with no frame under way,
\* what the server holds.
ListsAreFaithful == NoGhosts /\ FedListIsExact
=============================================================================
