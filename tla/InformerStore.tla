--------------------------- MODULE InformerStore ---------------------------
(***************************************************************************)
(* internal/clusters/informers.go: the shared informers of one cluster.    *)
(*                                                                         *)
(* Every websocket stream of every browser tab ends in one call of         *)
(* informerStore.subscribe.  Streams on the same (GVR, namespace) key      *)
(* share one client-go informer, the informerEntry, found in the map       *)
(* s.entries; the entry fans each delta out to the channels of its         *)
(* subscribers; the last subscriber to leave starts a 60 s janitor which   *)
(* stops the informer if nobody came back.                                 *)
(*                                                                         *)
(* Two mutexes order all this: s.mu guards the map, entry.mu guards the    *)
(* set of subscribers.  An action below is one critical section, or the    *)
(* code between two of them.  The objects of a collection are abstracted   *)
(* to versions: api[k] counts the changes the API server has made to the   *)
(* collection k, delta v is the v-th change, and a list taken at version v *)
(* contains the changes 1..v.                                              *)
(***************************************************************************)
EXTENDS Naturals, Sequences

CONSTANTS
  Keys,        \* the (GVR, namespace) keys of s.entries
  Entries,     \* the informerEntry objects that can be allocated
  Subs,        \* calls of subscribe; each owns one channel, never reused
  ChanCap,     \* capacity of a subscriber channel (256 in the code)
  MaxVersion,  \* bound: changes the API server makes to one collection
  None         \* no entry / no key

ASSUME ChanCapAssumption == ChanCap \in Nat \ {0}
ASSUME MaxVersionAssumption == MaxVersion \in Nat
ASSUME NoneAssumption == None \notin Keys \cup Entries

VARIABLES
  api,         \* API server: changes made so far to each collection
  rootDone,    \* the cluster's root context is cancelled
  entries,     \* s.entries
  keyOf,       \* the key an entry was allocated for, None before
  live,        \* entries whose context is not cancelled
  synced,      \* entries whose informer.HasSynced() is true
  store,       \* version of an informer's local store
  seen,        \* last delta an informer has handed to the event handler
  casting,     \* channels the broadcast in progress has still to try
  subs,        \* entry.subs
  sleeping,    \* janitors of an entry still in time.Sleep
  armed,       \* janitors that found the entry empty, before s.mu.Lock
  pc,          \* where a call of subscribe, or its stream, has got to
  ent,         \* the entry a subscriber uses
  created,     \* subscribers that allocated their entry
  last,        \* closing subscribers that saw entry.subs become empty
  snap,        \* version of the snapshot a subscriber listed
  chan,        \* buffered events of a subscriber's channel
  dropped,     \* subscribers that lost a delta to a full channel
  view,        \* deltas reflected in what the consumer shows
  mark,        \* history: last delta handed out when the snapshot was sent
  crashed      \* the process has panicked

apiVars   == <<api, rootDone>>
mapVars   == <<entries, keyOf, live>>
infVars   == <<synced, store, seen, casting>>
janVars   == <<sleeping, armed>>
callVars  == <<pc, ent, created, last, snap, mark>>
chanVars  == <<chan, dropped, view>>
vars == <<apiVars, mapVars, infVars, subs, janVars, callVars, chanVars, crashed>>

Versions  == 0..MaxVersion
PcStates  == {"idle", "listing", "calling", "failing", "failed", "listed",
              "registered", "open", "closing", "closed"}
Snapshot(v) == [kind |-> "snapshot", v |-> v]
Delta(v)    == [kind |-> "delta", v |-> v]
Events == [kind : {"snapshot", "delta"}, v : Versions]

Unallocated == {e \in Entries : keyOf[e] = None}

Init ==
  /\ api = [k \in Keys |-> 0]
  /\ rootDone = FALSE
  /\ entries = [k \in Keys |-> None]
  /\ keyOf = [e \in Entries |-> None]
  /\ live = {}
  /\ synced = {}
  /\ store = [e \in Entries |-> 0]
  /\ seen = [e \in Entries |-> 0]
  /\ casting = [e \in Entries |-> {}]
  /\ subs = [e \in Entries |-> {}]
  /\ sleeping = [e \in Entries |-> 0]
  /\ armed = [e \in Entries |-> 0]
  /\ pc = [p \in Subs |-> "idle"]
  /\ ent = [p \in Subs |-> None]
  /\ created = {}
  /\ last = {}
  /\ snap = [p \in Subs |-> 0]
  /\ chan = [p \in Subs |-> <<>>]
  /\ dropped = {}
  /\ view = [p \in Subs |-> {}]
  /\ mark = [p \in Subs |-> 0]
  /\ crashed = FALSE

-----------------------------------------------------------------------------
(* The API server and client-go (external to the repository).              *)

ApiChange(k) ==
  /\ ~crashed
  /\ api[k] < MaxVersion
  /\ api' = [api EXCEPT ![k] = @ + 1]
  /\ UNCHANGED <<rootDone, mapVars, infVars, subs, janVars, callVars, chanVars, crashed>>

\* The reflector's initial list fills the store and HasSynced turns true.
InformerSync(e) ==
  /\ ~crashed
  /\ e \in live \ synced
  /\ synced' = synced \cup {e}
  /\ store' = [store EXCEPT ![e] = api[keyOf[e]]]
  /\ UNCHANGED <<apiVars, mapVars, seen, casting, subs, janVars, callVars, chanVars, crashed>>

\* A watch event updates the store; the handler is called later.
InformerWatch(e) ==
  /\ ~crashed
  /\ e \in live \cap synced
  /\ store[e] < api[keyOf[e]]
  /\ store' = [store EXCEPT ![e] = @ + 1]
  /\ UNCHANGED <<apiVars, mapVars, synced, seen, casting, subs, janVars, callVars, chanVars, crashed>>

-----------------------------------------------------------------------------
(* subscribe                                                               *)

\* First critical section: join the entry of the key, or allocate one and
\* start its informer on a context derived from the cluster's.
Join(p, k) ==
  /\ entries[k] # None
  /\ ent' = [ent EXCEPT ![p] = entries[k]]
  /\ UNCHANGED <<mapVars, created>>

\* Mutant of NeedsEntry: the lookup in s.entries is skipped.
NoLookup(k) == TRUE
NeedsEntry(k) == entries[k] = None

Create(p, k) ==
  /\ NeedsEntry(k)
  /\ \E e \in Unallocated :
       /\ ent' = [ent EXCEPT ![p] = e]
       /\ entries' = [entries EXCEPT ![k] = e]
       /\ keyOf' = [keyOf EXCEPT ![e] = k]
       /\ live' = IF rootDone THEN live ELSE live \cup {e}
  /\ created' = created \cup {p}

SubscribeBegin(p, k) ==
  /\ ~crashed
  /\ pc[p] = "idle"
  /\ Join(p, k) \/ Create(p, k)
  /\ pc' = [pc EXCEPT ![p] = "listing"]
  /\ UNCHANGED <<apiVars, infVars, subs, janVars, last, snap, mark, chanVars, crashed>>

\* initialSnapshot looks at HasSynced once: either the informer's cache is
\* listed, or a request goes to the API server ...
ListFromCache(p) ==
  /\ ent[p] \in synced
  /\ snap' = [snap EXCEPT ![p] = store[ent[p]]]
  /\ pc' = [pc EXCEPT ![p] = "listed"]

CallApi(p) ==
  /\ ent[p] \notin synced
  /\ pc' = [pc EXCEPT ![p] = "calling"]
  /\ UNCHANGED snap

InitialSnapshot(p) ==
  /\ ~crashed
  /\ pc[p] = "listing"
  /\ ListFromCache(p) \/ CallApi(p)
  /\ UNCHANGED <<apiVars, mapVars, infVars, subs, janVars, ent, created, last, mark, chanVars, crashed>>

\* ... which may time out or fail, and always fails once the root context
\* is cancelled.  By now the informer may have synced, or been cancelled.
ListReturns(p) ==
  /\ ~rootDone
  /\ snap' = [snap EXCEPT ![p] = api[keyOf[ent[p]]]]
  /\ pc' = [pc EXCEPT ![p] = "listed"]

ListFails(p) ==
  /\ pc' = [pc EXCEPT ![p] = IF p \in created THEN "failing" ELSE "failed"]
  /\ UNCHANGED snap

ApiAnswer(p) ==
  /\ ~crashed
  /\ pc[p] = "calling"
  /\ ListReturns(p) \/ ListFails(p)
  /\ UNCHANGED <<apiVars, mapVars, infVars, subs, janVars, ent, created, last, mark, chanVars, crashed>>

\* Mutant of IsCurrent: the identity check "cur == e" is dropped.
AnyEntryOfKey(e) == entries[keyOf[e]] # None
\* "cur, ok := s.entries[key]; ok && cur == e"
IsCurrent(e) == entries[keyOf[e]] = e

Retire(e) ==
  IF IsCurrent(e)
  THEN /\ entries' = [entries EXCEPT ![keyOf[e]] = None]
       /\ live' = live \ {e}
       /\ UNCHANGED keyOf
  ELSE UNCHANGED mapVars

\* The creator whose list failed removes the entry again.
RemoveEntry(p) ==
  /\ ~crashed
  /\ pc[p] = "failing"
  /\ Retire(ent[p])
  /\ pc' = [pc EXCEPT ![p] = "failed"]
  /\ UNCHANGED <<apiVars, infVars, subs, janVars, ent, created, last, snap, mark, chanVars, crashed>>

\* Second critical section: the channel becomes visible to broadcast.
Register(p) ==
  /\ ~crashed
  /\ pc[p] = "listed"
  /\ subs' = [subs EXCEPT ![ent[p]] = @ \cup {p}]
  /\ pc' = [pc EXCEPT ![p] = "registered"]
  /\ UNCHANGED <<apiVars, mapVars, infVars, janVars, ent, created, last, snap, mark, chanVars, crashed>>

\* ch <- snapshot, outside every lock; blocks while the channel is full.
PushSnapshot(p) ==
  /\ ~crashed
  /\ pc[p] = "registered"
  /\ Len(chan[p]) < ChanCap
  /\ chan' = [chan EXCEPT ![p] = Append(@, Snapshot(snap[p]))]
  /\ mark' = [mark EXCEPT ![p] = seen[ent[p]]]
  /\ pc' = [pc EXCEPT ![p] = "open"]
  /\ UNCHANGED <<apiVars, mapVars, infVars, subs, janVars, ent, created, last, snap, dropped, view, crashed>>

-----------------------------------------------------------------------------
(* broadcast: one handler goroutine per entry, one delta at a time.        *)

HandlerReady(e) == casting[e] = {} /\ seen[e] < store[e]

\* Mutant of Audience: room is looked for when the channels are copied.
IdleAudience(e) == {p \in subs[e] : chan[p] = <<>>}
Audience(e) == subs[e]

\* Copy the channels under entry.mu, then unlock.
BroadcastCopy(e) ==
  /\ ~crashed
  /\ HandlerReady(e)
  /\ seen' = [seen EXCEPT ![e] = @ + 1]
  /\ casting' = [casting EXCEPT ![e] = Audience(e)]
  /\ UNCHANGED <<apiVars, mapVars, synced, store, subs, janVars, callVars, chanVars, crashed>>

\* One non-blocking send of the loop: delivered, dropped on a full channel,
\* or a panic on a channel that Close has closed meanwhile.
Deliver(e, p) ==
  /\ pc[p] # "closed"
  /\ Len(chan[p]) < ChanCap
  /\ chan' = [chan EXCEPT ![p] = Append(@, Delta(seen[e]))]
  /\ UNCHANGED <<dropped, crashed>>

Drop(p) ==
  /\ pc[p] # "closed"
  /\ Len(chan[p]) >= ChanCap
  /\ dropped' = dropped \cup {p}
  /\ UNCHANGED <<chan, crashed>>

SendOnClosed(p) ==
  /\ pc[p] = "closed"
  /\ crashed' = TRUE
  /\ UNCHANGED <<chan, dropped>>

BroadcastSend(e, p) ==
  /\ ~crashed
  /\ p \in casting[e]
  /\ casting' = [casting EXCEPT ![e] = @ \ {p}]
  /\ Deliver(e, p) \/ Drop(p) \/ SendOnClosed(p)
  /\ UNCHANGED <<apiVars, mapVars, synced, store, seen, subs, janVars, callVars, view>>

-----------------------------------------------------------------------------
(* The consumer of a stream and Stream.Close                               *)

\* What the reader of the channel does with an event: a snapshot replaces
\* the collection, a delta changes one object of it.
Applied(shown, event) ==
  IF event.kind = "snapshot" THEN 1..event.v ELSE shown \cup {event.v}

Consume(p) ==
  /\ ~crashed
  /\ pc[p] = "open"
  /\ chan[p] # <<>>
  /\ view' = [view EXCEPT ![p] = Applied(@, Head(chan[p]))]
  /\ chan' = [chan EXCEPT ![p] = Tail(@)]
  /\ UNCHANGED <<apiVars, mapVars, infVars, subs, janVars, callVars, dropped, crashed>>

\* Mutant of BecameEmpty: the emptiness is read before the delete.
WasEmpty(p) == subs[ent[p]] = {}
BecameEmpty(p) == subs[ent[p]] \ {p} = {}

\* closeFn under entry.mu; the guard on pc is Stream.closed.
CloseUnregister(p) ==
  /\ ~crashed
  /\ pc[p] = "open"
  /\ subs' = [subs EXCEPT ![ent[p]] = @ \ {p}]
  /\ last' = IF BecameEmpty(p) THEN last \cup {p} ELSE last
  /\ pc' = [pc EXCEPT ![p] = "closing"]
  /\ UNCHANGED <<apiVars, mapVars, infVars, janVars, ent, created, snap, mark, chanVars, crashed>>

\* close(ch), then maybeStop if the entry became empty.
CloseChannel(p) ==
  /\ ~crashed
  /\ pc[p] = "closing"
  /\ pc' = [pc EXCEPT ![p] = "closed"]
  /\ sleeping' = IF p \in last THEN [sleeping EXCEPT ![ent[p]] = @ + 1] ELSE sleeping
  /\ UNCHANGED <<apiVars, mapVars, infVars, subs, armed, ent, created, last, snap, mark, chanVars, crashed>>

-----------------------------------------------------------------------------
(* maybeStop: the janitor goroutine, and stopAll                           *)

\* After the sleep: look at entry.subs under entry.mu, then let go of it.
JanitorCheck(e) ==
  /\ ~crashed
  /\ sleeping[e] > 0
  /\ sleeping' = [sleeping EXCEPT ![e] = @ - 1]
  /\ armed' = IF subs[e] = {} THEN [armed EXCEPT ![e] = @ + 1] ELSE armed
  /\ UNCHANGED <<apiVars, mapVars, infVars, subs, callVars, chanVars, crashed>>

\* Later, under s.mu: the entry is removed and cancelled.
JanitorStop(e) ==
  /\ ~crashed
  /\ armed[e] > 0
  /\ armed' = [armed EXCEPT ![e] = @ - 1]
  /\ Retire(e)
  /\ UNCHANGED <<apiVars, infVars, subs, sleeping, callVars, chanVars, crashed>>

\* Subscribers' channels stay registered and stay open.
StopAll ==
  /\ ~crashed
  /\ entries' = [k \in Keys |-> None]
  /\ live' = live \ {entries[k] : k \in Keys}
  /\ UNCHANGED <<apiVars, keyOf, infVars, subs, janVars, callVars, chanVars, crashed>>

\* Cluster.Stop cancels the context every entry's context derives from.
RootCancel ==
  /\ ~crashed
  /\ ~rootDone
  /\ rootDone' = TRUE
  /\ live' = {}
  /\ UNCHANGED <<api, entries, keyOf, infVars, subs, janVars, callVars, chanVars, crashed>>

-----------------------------------------------------------------------------
Subscriber(p) ==
  \/ \E k \in Keys : SubscribeBegin(p, k)
  \/ InitialSnapshot(p)
  \/ ApiAnswer(p)
  \/ RemoveEntry(p)
  \/ Register(p)
  \/ PushSnapshot(p)
  \/ Consume(p)
  \/ CloseUnregister(p)
  \/ CloseChannel(p)

Informer(e) ==
  \/ InformerSync(e)
  \/ InformerWatch(e)
  \/ BroadcastCopy(e)
  \/ \E p \in Subs : BroadcastSend(e, p)

Janitor(e) == JanitorCheck(e) \/ JanitorStop(e)

Next ==
  \/ \E k \in Keys : ApiChange(k)
  \/ \E p \in Subs : Subscriber(p)
  \/ \E e \in Entries : Informer(e) \/ Janitor(e)
  \/ StopAll
  \/ RootCancel

Spec == Init /\ [][Next]_vars

\* The Go scheduler runs every goroutine that can run: a call of subscribe
\* that has begun, a Close that has begun, the janitors.  Nothing makes a
\* consumer close its stream, or the API server change.
Fairness ==
  /\ \A p \in Subs : WF_vars(InitialSnapshot(p)) /\ WF_vars(ApiAnswer(p))
                     /\ WF_vars(RemoveEntry(p))
                     /\ WF_vars(Register(p)) /\ WF_vars(PushSnapshot(p))
                     /\ WF_vars(CloseChannel(p))
  /\ \A e \in Entries : WF_vars(JanitorCheck(e)) /\ WF_vars(JanitorStop(e))

FairSpec == Spec /\ Fairness

-----------------------------------------------------------------------------
(* Properties                                                              *)

\* Types of the variables.
TypeOK ==
  /\ api \in [Keys -> Versions]
  /\ rootDone \in BOOLEAN
  /\ entries \in [Keys -> Entries \cup {None}]
  /\ keyOf \in [Entries -> Keys \cup {None}]
  /\ live \subseteq Entries
  /\ synced \subseteq Entries
  /\ store \in [Entries -> Versions]
  /\ seen \in [Entries -> Versions]
  /\ casting \in [Entries -> SUBSET Subs]
  /\ subs \in [Entries -> SUBSET Subs]
  /\ sleeping \in [Entries -> Nat]
  /\ armed \in [Entries -> Nat]
  /\ pc \in [Subs -> PcStates]
  /\ ent \in [Subs -> Entries \cup {None}]
  /\ created \subseteq Subs
  /\ last \subseteq Subs
  /\ snap \in [Subs -> Versions]
  /\ chan \in [Subs -> Seq(Events)]
  /\ dropped \subseteq Subs
  /\ view \in [Subs -> SUBSET Versions]
  /\ mark \in [Subs -> Versions]
  /\ crashed \in BOOLEAN

\* An informer runs if and only if s.entries points at it, until the cluster
\* is stopped: whatever the order of janitors, failed creators, stopAll and
\* new subscribers, no watch against the API server is left running that
\* nobody can find, and no subscriber joins a cancelled informer.
InformerRunsIffRegistered ==
  /\ \A e \in live : keyOf[e] # None /\ entries[keyOf[e]] = e
  /\ \A k \in Keys : entries[k] # None /\ ~rootDone => entries[k] \in live

\* A running informer is always somebody's: its creator is still in
\* subscribe, a subscriber is registered, the last one is closing, or a
\* janitor is on its way.  (What keeps an unused informer from running
\* for ever.)
Creating(p) == p \in created /\ pc[p] \in {"listing", "calling", "failing", "listed"}
Leaving(p)  == p \in last /\ pc[p] = "closing"
Claimed(e) ==
  \/ subs[e] # {}
  \/ \E p \in Subs : ent[p] = e /\ (Creating(p) \/ Leaving(p))
  \/ sleeping[e] > 0
  \/ armed[e] > 0
RunningInformerIsClaimed == \A e \in live : Claimed(e)

\* Both together: no informer runs that nobody can find or that nobody will
\* stop, whatever janitors, failing creators and late subscribers do.
RunsForClaims == InformerRunsIffRegistered /\ RunningInformerIsClaimed

\* A broadcast of one informer only ever holds channels of that informer's
\* own subscribers, also when it works on a copy taken before a Close.
BroadcastStaysInEntry ==
  \A e \in Entries : \A p \in casting[e] :
    ent[p] = e /\ pc[p] \in {"registered", "open", "closing", "closed"}

\* The last delta the broadcast loop has offered to p.
Offered(p) == IF p \in casting[ent[p]] THEN seen[ent[p]] - 1 ELSE seen[ent[p]]

\* As long as nothing was dropped, the deltas waiting in a channel are
\* consecutive and end with the last one offered: none is lost, repeated or
\* overtaken between the copy of the subscribers and the sends.
IsDelta(p, i) == chan[p][i].kind = "delta"
NothingMissing(p, i) ==
  \/ chan[p][i].v = Offered(p)
  \/ \E j \in DOMAIN chan[p] : i < j /\ chan[p][j] = Delta(chan[p][i].v + 1)
NothingOvertakes(p, i) ==
  \A j \in DOMAIN chan[p] : i < j /\ IsDelta(p, j) => chan[p][i].v < chan[p][j].v
Gapless(p) ==
  \A i \in DOMAIN chan[p] : IsDelta(p, i) =>
    chan[p][i].v <= Offered(p) /\ NothingMissing(p, i) /\ NothingOvertakes(p, i)
ChannelIsGapless ==
  \A p \in Subs \ dropped : pc[p] \in {"registered", "open"} => Gapless(p)

\* What a stream does guarantee, unless its channel overflowed: every delta
\* handed out after the snapshot was sent is in the consumer's view or still
\* in its channel.
Buffered(p, v) == \E i \in DOMAIN chan[p] : chan[p][i] = Delta(v)
DeltasAfterSnapshotArrive ==
  \A p \in Subs \ dropped :
    pc[p] = "open" =>
      \A v \in (mark[p] + 1)..Offered(p) : v \in view[p] \/ Buffered(p, v)

\* A stream does not get every change of the collection: one that is handed out
\* between the list and the send of the snapshot is either offered to nobody,
\* because the channel is not registered yet (informers.go:231, 239-243), or
\* waits in the channel before the snapshot, which replaces it
\* (informers.go:245).  That gap is all a stream can miss: any other change is
\* shown, waits, or is part of the snapshot that waits.
WaitsInSnapshot(p, v) ==
  v <= snap[p] /\ \E i \in DOMAIN chan[p] : chan[p][i] = Snapshot(snap[p])
InTheGap(p, v) == snap[p] < v /\ v <= mark[p]
OnlyTheGapIsLost ==
  \A p \in Subs \ dropped :
    pc[p] = "open" =>
      \A v \in 1..Offered(p) :
        v \in view[p] \/ Buffered(p, v) \/ WaitsInSnapshot(p, v) \/ InTheGap(p, v)

\* All three: an open stream whose channel did not overflow misses the changes
\* between the list of its snapshot and the send of it, and no others.
DeliveryIsComplete == ChannelIsGapless /\ DeltasAfterSnapshotArrive /\ OnlyTheGapIsLost

\* Nobody uses or is about to use e.
Quiet(e) == \A p \in Subs : ent[p] = e => pc[p] \in {"failed", "closed"}

\* Liveness: an informer whose subscribers have all gone is stopped, unless
\* somebody comes back (or the process dies).
IdleInformerStops ==
  \A e \in Entries : (e \in live /\ Quiet(e)) ~> (e \notin live \/ ~Quiet(e) \/ crashed)

-----------------------------------------------------------------------------
(* Refinement: the store is a lease service for running informers.         *)

RunningInformer(k) == IF entries[k] \in live THEN entries[k] ELSE None

Lease == INSTANCE KeyedLease WITH
  Ids <- Entries,
  holder <- [k \in Keys |-> RunningInformer(k)],
  spent <- {e \in Entries : keyOf[e] # None}

\* Every step of the store is a grant of a fresh informer to a key without
\* one, a release, or invisible: one informer per key, never restarted.
ImplementsLease == Lease!LeaseSpec

-----------------------------------------------------------------------------
(* What comments of the code say, and the code does not do                 *)

\* "Channel is closed by the informer subscription goroutine" (informers.go,
\* Stream.Close): the goroutine that sends is the one that closes, so no
\* send ever finds the channel closed.
ChannelClosedBySender == ~crashed

\* "Subscribe returns a Stream that delivers add/update/delete events"
\* (cluster.go): the informer behind an open stream is running.
OpenStreamIsFed == \A p \in Subs : pc[p] = "open" => ent[p] \in live
=============================================================================
