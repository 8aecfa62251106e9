--------------------------- MODULE ClusterStream ---------------------------
(***************************************************************************)
(* The browser's side of the delta stream of ONE cluster name:             *)
(* frontend/src/lib/stream.ts.                                             *)
(*                                                                         *)
(* A ClusterStream object owns one WebSocket and brings it back with a     *)
(* timer when it closes; a socket that closes quickly and never opened     *)
(* makes it ask the server whether the name still exists.  The pool keeps  *)
(* the current object of the name, destroyClusterStream drops it, and the  *)
(* hook useClusterConnected rebinds to whatever the pool holds.            *)
(*                                                                         *)
(* Every event handler of the page runs to completion, so one handler is   *)
(* one action; between the request of checkAlive and its continuation the  *)
(* server may change.  The server is external: the name is absent, paused  *)
(* or live, and any device of the same identity may change that.           *)
(***************************************************************************)

CONSTANTS
  Streams,   \* ClusterStream objects the page may create for the name (bounds creation)
  NoStream   \* no object

ASSUME NoStreamAssumption == NoStream \notin Streams

VARIABLES
  server,    \* what the registry says of the name
  born,      \* ClusterStream objects created so far
  stream,    \* their fields
  pool,      \* streams.get(cluster)
  hook,      \* the object the mounted useClusterConnected listens to, or NoStream
  badge,     \* the value the hook returns
  absentFor, \* history: objects in whose life the server did not know the name
  swept      \* history: destroyClusterStream ran since the name was last removed

streamVars == <<server, born, stream, pool, hook, badge, absentFor, swept>>

ServerState == {"absent", "paused", "live"}

\* "closing": the socket is closed but its onclose has not run.  check is the
\* state of checkAlive: request sent, or its answer ("gone", "retry") on the way.
StreamState ==
  [socket : {"none", "connecting", "open", "closing"}, timer : BOOLEAN,
   check : {"no", "sent", "gone", "retry"}, dead : BOOLEAN,
   everConnected : BOOLEAN, connected : BOOLEAN]

\* The constructor connects at once.
NewStream ==
  [socket |-> "connecting", timer |-> FALSE, check |-> "no", dead |-> FALSE,
   everConnected |-> FALSE, connected |-> FALSE]

StreamInit ==
  /\ server = "live"
  /\ born = {}
  /\ stream = [s \in Streams |-> NewStream]
  /\ pool = NoStream
  /\ hook = NoStream
  /\ badge = FALSE
  /\ absentFor = {}
  /\ swept = FALSE

-----------------------------------------------------------------------------
(* The fields of one object.                                               *)

\* setConnected tells the listeners: the hook when it is bound to s.
BadgeAfter(s, v) == IF hook = s THEN v ELSE badge

\* scheduleReconnect: not when dead, not twice.
Rescheduled(r) == IF r.dead THEN r ELSE [r EXCEPT !.timer = TRUE]

\* A dead object does not open another socket.
Reconnected(r) ==
  IF r.dead THEN [r EXCEPT !.timer = FALSE]
  ELSE [r EXCEPT !.timer = FALSE, !.socket = "connecting"]

\* A socket that never opened and closed within FAST_CLOSE_THRESHOLD_MS asks
\* the server first; any other close goes straight to the reconnect timer.
Closed(r, fast) ==
  LET c == [r EXCEPT !.socket = "none", !.connected = FALSE]
  IN  IF ~r.everConnected /\ fast THEN [c EXCEPT !.check = "sent"] ELSE Rescheduled(c)

Dead(r) == [r EXCEPT !.dead = TRUE, !.timer = FALSE, !.connected = FALSE]

\* checkAlive looks for the name only: a paused cluster is still listed.
Listed(state) == state # "absent"

\* close(): socket closed, timer cleared, dead; onclose still runs later.
Shut(r) ==
  [r EXCEPT !.socket = IF @ \in {"connecting", "open"} THEN "closing" ELSE @,
            !.timer = FALSE, !.dead = TRUE]

-----------------------------------------------------------------------------
(* Socket, timer and checkAlive.                                           *)

UnchangedPool == UNCHANGED <<born, pool, hook, absentFor, swept>>

\* The upgrade succeeds only on a registered cluster that is not paused.
OnOpen(s) ==
  /\ s \in born /\ stream[s].socket = "connecting" /\ server = "live"
  /\ stream' = [stream EXCEPT ![s].socket = "open", ![s].everConnected = TRUE,
                              ![s].connected = TRUE]
  /\ badge' = BadgeAfter(s, TRUE)
  /\ UNCHANGED server /\ UnchangedPool

\* A refused upgrade (404, 409), a network failure, or the server's end of an
\* open socket going away.
SocketFails(s) ==
  /\ s \in born /\ stream[s].socket \in {"connecting", "open"}
  /\ stream' = [stream EXCEPT ![s].socket = "closing"]
  /\ UNCHANGED <<server, badge>> /\ UnchangedPool

OnClose(s) ==
  /\ s \in born /\ stream[s].socket = "closing"
  /\ \E fast \in BOOLEAN : stream' = [stream EXCEPT ![s] = Closed(@, fast)]
  /\ badge' = BadgeAfter(s, FALSE)
  /\ UNCHANGED server /\ UnchangedPool

\* GET /api/v1/clusters is answered; an error counts as "retry".
CheckAnswered(s) ==
  /\ s \in born /\ stream[s].check = "sent"
  /\ \E answer \in {"gone", "retry"} :
       /\ answer = "gone" => ~Listed(server)
       /\ stream' = [stream EXCEPT ![s].check = answer]
  /\ UNCHANGED <<server, badge>> /\ UnchangedPool

\* Mutant: an inconclusive answer makes it ask again, without a socket.
CheckAgain(s) ==
  /\ s \in born /\ stream[s].check = "retry"
  /\ stream' = [stream EXCEPT ![s].check = "sent"]
  /\ UNCHANGED <<server, badge>> /\ UnchangedPool

CheckRetries(s) ==
  /\ s \in born /\ stream[s].check = "retry"
  /\ stream' = [stream EXCEPT ![s] = Rescheduled([@ EXCEPT !.check = "no"])]
  /\ UNCHANGED <<server, badge>> /\ UnchangedPool

\* The continuation of checkAlive that did not find the name: declareDead.
DeclareDead(s) ==
  /\ s \in born /\ stream[s].check = "gone"
  /\ stream' = [stream EXCEPT ![s] = Dead([@ EXCEPT !.check = "no"])]
  /\ badge' = BadgeAfter(s, FALSE)
  /\ UNCHANGED server /\ UnchangedPool

ReconnectTimer(s) ==
  /\ s \in born /\ stream[s].timer
  /\ stream' = [stream EXCEPT ![s] = Reconnected(@)]
  /\ UNCHANGED <<server, badge>> /\ UnchangedPool

-----------------------------------------------------------------------------
(* The pool and the hook.                                                  *)

\* getClusterStream with no entry: a new object enters the pool, and bumpPool
\* makes a mounted hook rebind to it.
Create(s) ==
  /\ s \in Streams \ born
  /\ born' = born \cup {s}
  /\ pool' = s
  /\ absentFor' = IF server = "absent" THEN absentFor \cup {s} ELSE absentFor

\* getClusterStream of a Connect button or of a first subscription.
GetStream ==
  /\ pool = NoStream
  /\ \E s \in Streams : Create(s)
  /\ UNCHANGED <<server, stream, hook, badge, swept>>

MountHook ==
  /\ hook = NoStream
  /\ \/ /\ pool # NoStream
        /\ hook' = pool
        /\ badge' = stream[pool].connected
        /\ UNCHANGED <<born, pool, absentFor>>
     \/ /\ pool = NoStream
        /\ \E s \in Streams : Create(s) /\ hook' = s
        /\ badge' = FALSE
  /\ UNCHANGED <<server, stream, swept>>

UnmountHook ==
  /\ hook # NoStream
  /\ hook' = NoStream /\ badge' = FALSE
  /\ UNCHANGED <<server, born, stream, pool, absentFor, swept>>

\* Mutant: a hook that does not follow the pool.
NoRebind == pool' = NoStream /\ UNCHANGED <<born, hook, badge, absentFor>>

\* destroyClusterStream; a mounted hook rebinds, and so recreates the entry,
\* before the call returns.
Rebind ==
  \/ /\ hook = NoStream
     /\ pool' = NoStream
     /\ UNCHANGED <<born, hook, badge, absentFor>>
  \/ /\ hook # NoStream
     /\ \E s \in Streams : Create(s) /\ hook' = s
     /\ badge' = FALSE

Destroy ==
  /\ pool # NoStream
  /\ stream' = [stream EXCEPT ![pool] = Shut(@)]
  /\ Rebind
  /\ swept' = (swept \/ server = "absent")
  /\ UNCHANGED server

-----------------------------------------------------------------------------
(* The server (external): this or another device of the identity changes   *)
(* what is registered.                                                     *)

ServerBecomes(state) ==
  /\ server # state
  /\ \/ state = "absent"
     \/ server = "absent" /\ state = "live"
     \/ {server, state} = {"paused", "live"}
  /\ server' = state
  /\ absentFor' = IF state = "absent" THEN absentFor \cup born ELSE absentFor
  /\ swept' = (swept /\ state # "absent")
  /\ UNCHANGED <<born, stream, pool, hook, badge>>

StreamNext ==
  \/ \E s \in Streams :
       \/ OnOpen(s) \/ SocketFails(s) \/ OnClose(s)
       \/ CheckAnswered(s) \/ CheckRetries(s) \/ DeclareDead(s)
       \/ ReconnectTimer(s)
  \/ GetStream \/ Destroy \/ MountHook \/ UnmountHook
  \/ \E state \in ServerState : ServerBecomes(state)

StreamSpec == StreamInit /\ [][StreamNext]_streamVars

\* The browser delivers close events, answers and timers.  Opening needs
\* strong fairness: the network may fail an attempt, not every attempt.
StreamFairness ==
  \A s \in Streams :
    /\ WF_streamVars(OnClose(s))
    /\ WF_streamVars(CheckAnswered(s))
    /\ WF_streamVars(CheckRetries(s))
    /\ WF_streamVars(DeclareDead(s))
    /\ WF_streamVars(ReconnectTimer(s))
    /\ SF_streamVars(OnOpen(s))

FairStreamSpec == StreamSpec /\ StreamFairness

-----------------------------------------------------------------------------
(* Properties.                                                             *)

\* Every variable keeps its type.
StreamTypeOK ==
  /\ server \in ServerState
  /\ born \subseteq Streams
  /\ stream \in [Streams -> StreamState]
  /\ pool \in born \cup {NoStream}
  /\ hook \in born \cup {NoStream}
  /\ badge \in BOOLEAN
  /\ absentFor \subseteq born
  /\ swept \in BOOLEAN

\* What an object is doing to get or keep a connection.
Pursuits(r) ==
  {p \in {"socket", "timer", "check"} :
     \/ p = "socket" /\ r.socket # "none"
     \/ p = "timer" /\ r.timer
     \/ p = "check" /\ r.check # "no"}

\* An object that has not given up has exactly one socket, timer or question
\* outstanding: the retry loop of stream.ts is never lost and never doubled.
OneReconnectChain ==
  \A s \in born :
    ~stream[s].dead => \E p \in {"socket", "timer", "check"} : Pursuits(stream[s]) = {p}

\* "One socket per cluster": only the pooled object may have a live socket or
\* a timer.  A destroyed or dead object never opens a socket again.
OnlyPoolConnects ==
  \A s \in born :
    (stream[s].timer \/ stream[s].socket \in {"connecting", "open"}) =>
      s = pool /\ ~stream[s].dead

\* However destroy, create, mount and the handlers of old objects interleave,
\* the mounted hook is bound to the pooled object and shows its state.
BadgeShowsPool ==
  hook # NoStream => hook = pool /\ badge = stream[pool].connected

\* The pool holds an object that has given up only if the server did not know
\* the name at some time in its life: neither a disconnect (pause) nor any
\* sequence of network failures makes a stream give up. (The server's comment,
\* stream.go:66-70, has the page give up when it sees `paused: true`; checkAlive
\* only looks for the name, and the page goes on trying while it is paused.)
OnlyRemovalKills ==
  (pool # NoStream /\ stream[pool].dead) => pool \in absentFor

\* One cluster name, one live stream: its retry loop is neither lost nor
\* doubled, no other object connects, the mounted hook shows that one, and it
\* gives up only after a removal.
OneStreamPerCluster == OneReconnectChain /\ OnlyPoolConnects /\ BadgeShowsPool /\ OnlyRemovalKills

\* While the cluster is live, an object that has not given up connects again,
\* whatever it lost before.
Reconnects ==
  \A s \in Streams :
    (s \in born /\ ~stream[s].dead /\ server = "live") ~>
      (stream[s].connected \/ stream[s].dead \/ server # "live")

\* CLAIM of the comment of destroyClusterStream: it is called after a removal
\* "so any future re-import of the same name gets a fresh stream rather than
\* reusing a dead one".
ReimportIsFresh ==
  (swept /\ server = "live" /\ pool # NoStream) => ~stream[pool].dead
=============================================================================
