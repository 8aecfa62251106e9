----------------------------- MODULE StreamMux -----------------------------
(***************************************************************************)
(* internal/api/stream.go: one websocket of one browser tab, and the       *)
(* goroutines that serve it.                                               *)
(*                                                                         *)
(*   reader    the HTTP handler itself: one client message after another   *)
(*   pumps     one per subscription: from the Stream's channel to m.out    *)
(*   writer    from m.out to the socket                                    *)
(*   pinger    a control frame every 30 s                                  *)
(*   watcher   waits for the request's context                             *)
(*                                                                         *)
(* Whoever meets an error first runs shutdown, under a sync.Once that the  *)
(* others wait for: close(m.stop), then under m.mu close every Stream and  *)
(* set m.subs to nil, then close the socket.  Nothing tells the reader.    *)
(***************************************************************************)
EXTENDS Naturals, Sequences, FiniteSets, Functions

CONSTANTS
  Sids,        \* subscription ids the client uses
  ServerStreams,     \* Stream objects Cluster.Subscribe can return
  OutCap,      \* capacity of m.out (1024 in the code)
  EventsOf,    \* bound: events each stream delivers, its snapshot included
  None

ASSUME OutCapAssumption == OutCap \in Nat \ {0}
ASSUME EventsOfAssumption == EventsOf \in [ServerStreams -> Nat]
ASSUME NoneAssumption == None \notin ServerStreams \cup Sids

Services == {"reader", "writer", "pinger", "watcher"}

VARIABLES
  conn,      \* the socket is open at this end
  stop,      \* m.stop is closed
  once,      \* m.once: "fresh", "stopped", "cleared", "done"
  runner,    \* the goroutine inside m.once, None if there is none
  subs,      \* m.subs, a function from its sids to streams
  nilled,    \* m.subs = nil
  at,        \* where each service goroutine is
  job,       \* the message the reader is working on
  pump,      \* where the pump of each stream is
  open,      \* streams that have not been closed
  returned,  \* streams that Subscribe has returned
  fed,       \* events the informer has put in the channel of a stream
  pulled,    \* events the pump has taken out of it
  out,       \* m.out
  held,      \* the frame the writer is writing
  got        \* the last event of each stream the client has received

muxVars == <<subs, nilled>>
onceVars == <<stop, once, runner>>
feedVars == <<open, returned, fed, pulled>>
outVars == <<out, held, got>>
vars == <<conn, onceVars, muxVars, at, job, pump, feedVars, outVars>>

Frame(sid, s, n) == [sid |-> sid, stream |-> s, n |-> n]
Notice(sid) == Frame(sid, None, 0)          \* "error" and "pong" frames
NoFrame == Frame(None, None, 0)
Frames == [sid : Sids \cup {None}, stream : ServerStreams \cup {None}, n : Nat]
NoJob == [sid |-> None, stream |-> None]

At == {"reading", "subscribing", "registering", "replying", "waiting", "writing",
       "shutting", "gone"}
PumpStates == {"none", "receiving", "sending", "gone"}

Init ==
  /\ conn = TRUE
  /\ stop = FALSE /\ once = "fresh" /\ runner = None
  /\ subs = <<>> /\ nilled = FALSE
  /\ at = [g \in Services |-> IF g = "reader" THEN "reading" ELSE "waiting"]
  /\ job = NoJob
  /\ pump = [s \in ServerStreams |-> [at |-> "none", sid |-> None]]
  /\ open = {} /\ returned = {}
  /\ fed = [s \in ServerStreams |-> 0] /\ pulled = [s \in ServerStreams |-> 0]
  /\ out = <<>> /\ held = NoFrame
  /\ got = [s \in ServerStreams |-> 0]

Goto(g, from, to) == at[g] = from /\ at' = [at EXCEPT ![g] = to]

-----------------------------------------------------------------------------
(* shutdown, called by any service goroutine                               *)

Enter(g) ==
  /\ at[g] = "shutting" /\ once = "fresh"
  /\ once' = "stopped" /\ runner' = g /\ stop' = TRUE
  /\ UNCHANGED <<conn, muxVars, at, job, pump, feedVars, outVars>>

ClosedStreams == Range(subs)

Clear(g) ==
  /\ runner = g /\ once = "stopped"
  /\ once' = "cleared"
  /\ open' = open \ ClosedStreams
  /\ subs' = <<>> /\ nilled' = TRUE
  /\ UNCHANGED <<conn, stop, runner, at, job, pump, returned, fed, pulled, outVars>>

Finish(g) ==
  /\ runner = g /\ once = "cleared"
  /\ once' = "done" /\ runner' = None /\ conn' = FALSE
  /\ UNCHANGED <<stop, muxVars, at, job, pump, feedVars, outVars>>

\* Do returns once the function has run, whoever ran it; the goroutine ends.
\* When the handler ends, net/http cancels the request's context.
Leave(g) ==
  /\ once = "done"
  /\ Goto(g, "shutting", "gone")
  /\ UNCHANGED <<conn, onceVars, muxVars, job, pump, feedVars, outVars>>

Shutdown(g) == Enter(g) \/ Clear(g) \/ Finish(g) \/ Leave(g)

-----------------------------------------------------------------------------
(* The reader                                                              *)

\* The client's next message, as long as the socket is open at this end.
ReadSubscribe(sid) ==
  /\ conn
  /\ Goto("reader", "reading", "subscribing")
  /\ job' = [sid |-> sid, stream |-> None]
  /\ UNCHANGED <<conn, onceVars, muxVars, pump, feedVars, outVars>>

ReadUnsubscribe(sid) ==
  /\ conn /\ at["reader"] = "reading"
  /\ subs' = [x \in DOMAIN subs \ {sid} |-> subs[x]]
  /\ open' = IF sid \in DOMAIN subs THEN open \ {subs[sid]} ELSE open
  /\ UNCHANGED <<conn, onceVars, nilled, at, job, pump, returned, fed, pulled, outVars>>

\* A ping, an unknown op, bad JSON: each is answered.
ReadOther(sid) ==
  /\ conn
  /\ Goto("reader", "reading", "replying")
  /\ job' = [sid |-> sid, stream |-> None]
  /\ UNCHANGED <<conn, onceVars, muxVars, pump, feedVars, outVars>>

\* The client left, the read deadline passed, or the socket was closed here.
ReadFails ==
  /\ Goto("reader", "reading", "shutting")
  /\ UNCHANGED <<conn, onceVars, muxVars, job, pump, feedVars, outVars>>

\* ResolveGVR and Cluster.Subscribe: they block on the API server, and fail.
SubscribeFails ==
  /\ Goto("reader", "subscribing", "replying")
  /\ UNCHANGED <<conn, onceVars, muxVars, job, pump, feedVars, outVars>>

SubscribeReturns(s) ==
  /\ Goto("reader", "subscribing", "registering")
  /\ s \notin returned
  /\ returned' = returned \cup {s} /\ open' = open \cup {s}
  /\ job' = [job EXCEPT !.stream = s]
  /\ UNCHANGED <<conn, onceVars, muxVars, pump, fed, pulled, outVars>>

\* Mutant: the stream that a new one replaces is forgotten instead of closed.
NotReplaced(sid) == {}
Replaced(sid) == IF sid \in DOMAIN subs THEN {subs[sid]} ELSE {}

RegisterStream ==
  /\ ~nilled
  /\ Goto("reader", "registering", "reading")
  /\ open' = open \ Replaced(job.sid)
  /\ subs' = [x \in DOMAIN subs \cup {job.sid} |->
                IF x = job.sid THEN job.stream ELSE subs[x]]
  /\ pump' = [pump EXCEPT ![job.stream] = [at |-> "receiving", sid |-> job.sid]]
  /\ job' = NoJob
  /\ UNCHANGED <<conn, onceVars, nilled, returned, fed, pulled, outVars>>

\* The assignment to a nil map panics.  The server recovers the panic of a
\* handler; the deferred conn.Close runs, m.mu stays locked, nothing else is
\* undone.
RegisterPanics ==
  /\ nilled
  /\ Goto("reader", "registering", "gone")
  /\ conn' = FALSE
  /\ job' = NoJob
  /\ UNCHANGED <<onceVars, muxVars, pump, feedVars, outVars>>

\* send: gives up after 5 s, which takes a full m.out.
Reply ==
  /\ Goto("reader", "replying", "reading")
  /\ IF Len(out) < OutCap THEN out' = Append(out, Notice(job.sid)) ELSE UNCHANGED out
  /\ job' = NoJob
  /\ UNCHANGED <<conn, onceVars, muxVars, pump, feedVars, held, got>>

Reader ==
  \/ \E sid \in Sids : ReadSubscribe(sid) \/ ReadUnsubscribe(sid) \/ ReadOther(sid)
  \/ ReadFails
  \/ SubscribeFails
  \/ \E s \in ServerStreams : SubscribeReturns(s)
  \/ RegisterStream \/ RegisterPanics
  \/ Reply

-----------------------------------------------------------------------------
(* The informer (external to this file) and the pumps                      *)

Feed(s) ==
  /\ s \in open /\ fed[s] < EventsOf[s]
  /\ fed' = [fed EXCEPT ![s] = @ + 1]
  /\ UNCHANGED <<conn, onceVars, muxVars, at, job, pump, open, returned, pulled, outVars>>

PumpTo(s, to) == pump' = [pump EXCEPT ![s].at = to]

PumpReceive(s) ==
  /\ pump[s].at = "receiving" /\ pulled[s] < fed[s]
  /\ pulled' = [pulled EXCEPT ![s] = @ + 1]
  /\ PumpTo(s, "sending")
  /\ UNCHANGED <<conn, onceVars, muxVars, at, job, open, returned, fed, outVars>>

\* Mutant of Enqueue: a full channel drops, as send does.
EnqueueOrDrop(f) == out' = IF Len(out) < OutCap THEN Append(out, f) ELSE out
Enqueue(f) == Len(out) < OutCap /\ out' = Append(out, f)

PumpSend(s) ==
  /\ pump[s].at = "sending"
  /\ Enqueue(Frame(pump[s].sid, s, pulled[s]))
  /\ PumpTo(s, "receiving")
  /\ UNCHANGED <<conn, onceVars, muxVars, at, job, feedVars, held, got>>

\* The range loop ends with a closed channel that is drained.
PumpEnds(s) ==
  /\ pump[s].at = "receiving" /\ s \notin open /\ pulled[s] = fed[s]
  /\ PumpTo(s, "gone")
  /\ UNCHANGED <<conn, onceVars, muxVars, at, job, feedVars, outVars>>

\* Mutant: the send does not wait for m.stop.
StopIgnored == FALSE
StopSeen == stop

PumpStops(s) ==
  /\ pump[s].at = "sending" /\ StopSeen
  /\ PumpTo(s, "gone")
  /\ UNCHANGED <<conn, onceVars, muxVars, at, job, feedVars, outVars>>

Pump(s) == PumpReceive(s) \/ PumpSend(s) \/ PumpEnds(s) \/ PumpStops(s)

-----------------------------------------------------------------------------
(* The writer, the pinger, the watcher of the request's context            *)

WriterTakes ==
  /\ out # <<>>
  /\ Goto("writer", "waiting", "writing")
  /\ held' = Head(out) /\ out' = Tail(out)
  /\ UNCHANGED <<conn, onceVars, muxVars, job, pump, feedVars, got>>

WriterWrites ==
  /\ conn
  /\ Goto("writer", "writing", "waiting")
  /\ got' = IF held.stream = None THEN got ELSE [got EXCEPT ![held.stream] = held.n]
  /\ held' = NoFrame
  /\ UNCHANGED <<conn, onceVars, muxVars, job, pump, feedVars, out>>

\* The client is gone, or takes longer than 15 s.
WriterFails ==
  /\ Goto("writer", "writing", "shutting")
  /\ held' = NoFrame
  /\ UNCHANGED <<conn, onceVars, muxVars, job, pump, feedVars, out, got>>

WriterStops ==
  /\ stop
  /\ Goto("writer", "waiting", "gone")
  /\ UNCHANGED <<conn, onceVars, muxVars, job, pump, feedVars, outVars>>

PingFails ==
  /\ Goto("pinger", "waiting", "shutting")
  /\ UNCHANGED <<conn, onceVars, muxVars, job, pump, feedVars, outVars>>

PingerStops ==
  /\ stop
  /\ Goto("pinger", "waiting", "gone")
  /\ UNCHANGED <<conn, onceVars, muxVars, job, pump, feedVars, outVars>>

\* The context ends with the server, or with the handler.
ContextDone ==
  /\ Goto("watcher", "waiting", "shutting")
  /\ UNCHANGED <<conn, onceVars, muxVars, job, pump, feedVars, outVars>>

Writer == WriterTakes \/ WriterWrites \/ WriterFails \/ WriterStops
Pinger == PingFails \/ PingerStops

-----------------------------------------------------------------------------
Next ==
  \/ \E g \in Services : Shutdown(g)
  \/ Reader
  \/ \E s \in ServerStreams : Feed(s) \/ Pump(s)
  \/ Writer \/ Pinger \/ ContextDone

Spec == Init /\ [][Next]_vars

\* Goroutines that can run do run; a call of Subscribe returns (its request
\* has a timeout); a read on a closed socket fails; the context of a handler
\* that has returned is cancelled.  The client need not do anything.
Fairness ==
  /\ \A g \in Services : WF_vars(Shutdown(g))
  /\ WF_vars(~conn /\ ReadFails)
  /\ WF_vars(SubscribeFails \/ \E s \in ServerStreams : SubscribeReturns(s))
  /\ WF_vars(RegisterStream) /\ WF_vars(RegisterPanics) /\ WF_vars(Reply)
  /\ WF_vars(Writer) /\ WF_vars(PingerStops)
  /\ WF_vars(at["reader"] = "gone" /\ ContextDone)
  /\ \A s \in ServerStreams : WF_vars(Pump(s))

FairSpec == Spec /\ Fairness

-----------------------------------------------------------------------------
(* Properties                                                              *)

\* Types, the capacity of m.out, and the phases of shutdown.
TypeOK ==
  /\ conn \in BOOLEAN /\ stop \in BOOLEAN /\ nilled \in BOOLEAN
  /\ once \in {"fresh", "stopped", "cleared", "done"}
  /\ runner \in Services \cup {None}
  /\ DOMAIN subs \subseteq Sids /\ \A sid \in DOMAIN subs : subs[sid] \in ServerStreams
  /\ at \in [Services -> At]
  /\ job \in [sid : Sids \cup {None}, stream : ServerStreams \cup {None}]
  /\ pump \in [ServerStreams -> [at : PumpStates, sid : Sids \cup {None}]]
  /\ open \subseteq returned /\ returned \subseteq ServerStreams
  /\ fed \in [ServerStreams -> Nat] /\ pulled \in [ServerStreams -> Nat]
  /\ out \in Seq(Frames) /\ Len(out) <= OutCap
  /\ held \in Frames
  /\ got \in [ServerStreams -> Nat]
  /\ stop <=> once # "fresh"
  /\ nilled <=> once \in {"cleared", "done"}

\* Until shutdown clears m.subs, every stream that is open can be reached and
\* closed: it is in m.subs, or the reader is about to put it there.  A client
\* that reuses a sid does not leave the stream it replaced running.
OpenStreamsAreReachable ==
  ~nilled => \A s \in open : s \in Range(subs) \/ s = job.stream

\* After shutdown at most one stream of a connection is still open: the one
\* the reader was subscribing while another goroutine shut down.
AtMostOneLeak == nilled => Cardinality(open) <= 1

\* Between the informer's channel and the client nothing is lost, repeated or
\* reordered within one stream, whoever else writes to m.out: the k-th frame
\* the client receives is the k-th event.
StreamFramesAreGapless ==
  [][\A s \in ServerStreams : got'[s] \in {got[s], got[s] + 1}]_vars

\* Once anything has begun the shutdown every goroutine of the connection
\* ends, whatever it was blocked on.
ServicesGone == \A g \in Services : at[g] = "gone"
PumpsGone == \A s \in ServerStreams : pump[s].at \in {"none", "gone"}
GoroutinesEnd == stop ~> ServicesGone /\ PumpsGone

=============================================================================
