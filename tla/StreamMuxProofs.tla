-------------------------- MODULE StreamMuxProofs --------------------------
(***************************************************************************)
(* Proofs about StreamMux, for any number of sids and streams and any      *)
(* capacity of m.out, and about PortForwards, for any number of sockets.   *)
(***************************************************************************)
EXTENDS StreamMux, PortForwards, FiniteSetTheorems, WellFoundedInduction, TLAPS

\* The reader has a stream in its hands exactly while it registers it.
JobMatchesReader ==
  /\ job.stream # None <=> at["reader"] = "registering"
  /\ at["reader"] \in {"subscribing", "registering", "replying"} => job.sid \in Sids

\* A pump that runs knows its sid.
PumpsHaveSids == \A s \in ServerStreams : pump[s].at # "none" => pump[s].sid \in Sids

\* What shutdown leaves open is in the reader's hands, or was dropped by its
\* panic, after which there is no reader to open another.
LeakInv ==
  nilled =>
    \/ open \subseteq {job.stream}
    \/ at["reader"] = "gone" /\ \E s \in ServerStreams : open \subseteq {s}

IInv ==
  /\ TypeOK
  /\ JobMatchesReader
  /\ PumpsHaveSids
  /\ nilled => subs = <<>>
  /\ OpenStreamsAreReachable
  /\ LeakInv

USE OutCapAssumption, EventsOfAssumption, NoneAssumption

LEMMA InitIInv == Init => IInv
<1> SUFFICES ASSUME Init PROVE IInv
  OBVIOUS
<1>1. TypeOK
  <2>1. NoJob \in [sid : Sids \cup {None}, stream : ServerStreams \cup {None}]
    BY DEF NoJob
  <2>2. NoFrame \in Frames
    BY DEF NoFrame, Frame, Frames
  <2>3. <<>> \in Seq(Frames) /\ Len(<<>>) <= OutCap /\ DOMAIN <<>> = {}
    OBVIOUS
  <2>4. 0 \in Nat
    OBVIOUS
  <2>5. at \in [Services -> At] /\ pump \in [ServerStreams -> [at : PumpStates, sid : Sids \cup {None}]]
    BY DEF Init, At, PumpStates
  <2>6. DOMAIN subs = {} /\ held \in Frames /\ out \in Seq(Frames) /\ Len(out) <= OutCap
    BY <2>2, <2>3 DEF Init
  <2>7. fed \in [ServerStreams -> Nat] /\ pulled \in [ServerStreams -> Nat]
        /\ got \in [ServerStreams -> Nat]
    BY <2>4 DEF Init
  <2>8. QED
    BY <2>1, <2>5, <2>6, <2>7 DEF Init, TypeOK
<1>2. QED
  BY <1>1 DEF Init, IInv, JobMatchesReader, PumpsHaveSids, OpenStreamsAreReachable,
              LeakInv, NoJob, Services

LEMMA ShutdownStep ==
  ASSUME IInv, NEW g \in Services, Shutdown(g)
  PROVE  IInv'
<1> USE DEF IInv
<1>1. UNCHANGED <<job, pump, held, got, out, fed, pulled, returned>> /\ at' \in [Services -> At]
  BY DEF Shutdown, Enter, Clear, Finish, Leave, Goto, TypeOK, At, feedVars, outVars, muxVars
<1>2. at'["reader"] = at["reader"] \/ (at["reader"] = "shutting" /\ at'["reader"] = "gone")
  BY DEF Shutdown, Enter, Clear, Finish, Leave, Goto, TypeOK, Services
<1>3. CASE Clear(g)
  <2>1. subs' = <<>> /\ DOMAIN <<>> = {}
    BY <1>3 DEF Clear
  <2>2. open' \subseteq {job.stream}
    BY <1>3 DEF Clear, ClosedStreams, OpenStreamsAreReachable, TypeOK
  <2>3. TypeOK'
    BY <1>1, <1>3, <2>1 DEF Clear, TypeOK
  <2>4. QED
    BY <1>1, <1>3, <2>1, <2>2, <2>3
       DEF Clear, JobMatchesReader, PumpsHaveSids, OpenStreamsAreReachable, LeakInv
<1>4. CASE Enter(g) \/ Finish(g) \/ Leave(g)
  <2>1. UNCHANGED <<open, subs, nilled>>
    BY <1>4 DEF Enter, Finish, Leave, muxVars, feedVars
  <2>2. /\ conn' \in BOOLEAN /\ stop' \in BOOLEAN
        /\ runner' \in Services \cup {None}
    BY <1>4 DEF Enter, Finish, Leave, onceVars, TypeOK
  <2>3. /\ once' \in {"fresh", "stopped", "cleared", "done"}
        /\ stop' <=> once' # "fresh"
        /\ nilled' <=> once' \in {"cleared", "done"}
    <3>1. CASE Enter(g)
      BY <2>1, <3>1 DEF Enter, TypeOK
    <3>2. CASE Finish(g)
      BY <2>1, <3>2 DEF Finish, TypeOK
    <3>3. CASE Leave(g)
      BY <2>1, <3>3 DEF Leave, onceVars, TypeOK
    <3>4. QED
      BY <1>4, <3>1, <3>2, <3>3
  <2>4. TypeOK'
    BY <1>1, <2>1, <2>2, <2>3 DEF TypeOK
  <2>5. QED
    BY <1>1, <1>2, <2>1, <2>4
       DEF JobMatchesReader, PumpsHaveSids, OpenStreamsAreReachable, LeakInv
<1>5. QED
  BY <1>3, <1>4 DEF Shutdown

LEMMA ReaderStep ==
  ASSUME IInv, Reader
  PROVE  IInv'
<1> USE DEF IInv
<1>1. "reader" \in Services
  BY DEF Services
<1>2. UNCHANGED <<onceVars, nilled, fed, pulled, held, got>>
  BY DEF Reader, ReadSubscribe, ReadUnsubscribe, ReadOther, ReadFails, SubscribeFails,
         SubscribeReturns, RegisterStream, RegisterPanics, Reply, muxVars, feedVars, outVars
<1>3. ASSUME NEW sid \in Sids, ReadUnsubscribe(sid) PROVE IInv'
  <2>1. UNCHANGED <<conn, at, job, pump, returned, out>>
    BY <1>3 DEF ReadUnsubscribe, outVars
  <2>2. TypeOK'
    BY <1>2, <1>3, <2>1 DEF ReadUnsubscribe, TypeOK, onceVars
  <2>3. OpenStreamsAreReachable'
    BY <1>2, <1>3, <2>1 DEF ReadUnsubscribe, OpenStreamsAreReachable, Range
  <2>4. nilled => open' = open /\ subs' = subs
    <3>1. DOMAIN <<>> = {}
      OBVIOUS
    <3>2. SUFFICES ASSUME nilled PROVE open' = open /\ subs' = subs
      OBVIOUS
    <3>3. subs = <<>>
      BY <3>2
    <3>4. QED
      BY <1>3, <3>1, <3>3 DEF ReadUnsubscribe
  <2>5. QED
    BY <1>2, <2>1, <2>2, <2>3, <2>4 DEF JobMatchesReader, PumpsHaveSids, LeakInv
<1>4. ASSUME NEW sid \in Sids, ReadSubscribe(sid) \/ ReadOther(sid) PROVE IInv'
  <2>1. UNCHANGED <<conn, subs, pump, open, returned, out>>
    BY <1>4 DEF ReadSubscribe, ReadOther, muxVars, feedVars, outVars
  <2>2. job' = [sid |-> sid, stream |-> None] /\ job.stream = None
    BY <1>4 DEF ReadSubscribe, ReadOther, Goto, JobMatchesReader
  <2>3. at'["reader"] \in {"subscribing", "replying"} /\ at["reader"] = "reading"
    BY <1>1, <1>4 DEF ReadSubscribe, ReadOther, Goto, TypeOK
  <2>4. TypeOK'
    BY <1>2, <1>4, <2>1, <2>2 DEF ReadSubscribe, ReadOther, Goto, TypeOK, At, onceVars
  <2>5. QED
    BY <1>2, <2>1, <2>2, <2>3, <2>4
       DEF JobMatchesReader, PumpsHaveSids, OpenStreamsAreReachable, LeakInv
<1>5. CASE ReadFails \/ SubscribeFails
  <2>1. UNCHANGED <<conn, subs, job, pump, open, returned, out>>
    BY <1>5 DEF ReadFails, SubscribeFails, muxVars, feedVars, outVars
  <2>2. \/ at["reader"] = "reading" /\ at'["reader"] = "shutting"
        \/ at["reader"] = "subscribing" /\ at'["reader"] = "replying"
    BY <1>1, <1>5 DEF ReadFails, SubscribeFails, Goto, TypeOK
  <2>3. TypeOK'
    BY <1>2, <1>5, <2>1 DEF ReadFails, SubscribeFails, Goto, TypeOK, At, onceVars
  <2>4. QED
    BY <1>2, <2>1, <2>2, <2>3
       DEF JobMatchesReader, PumpsHaveSids, OpenStreamsAreReachable, LeakInv
<1>6. ASSUME NEW s \in ServerStreams, SubscribeReturns(s) PROVE IInv'
  <2>1. UNCHANGED <<conn, subs, pump, out>> /\ job' = [job EXCEPT !.stream = s]
    BY <1>6 DEF SubscribeReturns, muxVars, outVars
  <2>2. at["reader"] = "subscribing" /\ at'["reader"] = "registering" /\ job.stream = None
    BY <1>1, <1>6 DEF SubscribeReturns, Goto, TypeOK, JobMatchesReader
  <2>3. job'.stream = s /\ job'.sid = job.sid /\ open' = open \cup {s}
    BY <1>6, <2>1 DEF SubscribeReturns, TypeOK
  <2>4. nilled => open' \subseteq {s}
    BY <2>2, <2>3 DEF LeakInv, TypeOK
  <2>5. TypeOK'
    <3>1. at' \in [Services -> At] /\ returned' = returned \cup {s}
      BY <1>6 DEF SubscribeReturns, Goto, TypeOK, At
    <3>2. job' \in [sid : Sids \cup {None}, stream : ServerStreams \cup {None}]
      BY <2>1 DEF TypeOK
    <3>3. QED
      BY <1>2, <2>1, <2>3, <3>1, <3>2 DEF TypeOK, onceVars
  <2>6. OpenStreamsAreReachable'
    BY <1>2, <2>1, <2>2, <2>3 DEF OpenStreamsAreReachable, TypeOK
  <2>7. QED
    BY <1>2, <2>1, <2>2, <2>3, <2>4, <2>5, <2>6
       DEF JobMatchesReader, PumpsHaveSids, LeakInv
<1>7. CASE RegisterStream
  <2>1. at["reader"] = "registering" /\ at'["reader"] = "reading" /\ at' \in [Services -> At]
    BY <1>1, <1>7 DEF RegisterStream, Goto, TypeOK, At
  <2>2. job.stream \in ServerStreams /\ job.sid \in Sids /\ job' = NoJob
    BY <1>7, <2>1 DEF RegisterStream, JobMatchesReader, TypeOK
  <2>3. UNCHANGED <<conn, returned, out>> /\ ~nilled
    BY <1>7 DEF RegisterStream, outVars
  <2>4. DOMAIN subs' = DOMAIN subs \cup {job.sid} /\ \A x \in DOMAIN subs' :
          subs'[x] = IF x = job.sid THEN job.stream ELSE subs[x]
    BY <1>7 DEF RegisterStream
  <2>5. pump' \in [ServerStreams -> [at : PumpStates, sid : Sids \cup {None}]] /\ PumpsHaveSids'
    BY <1>7, <2>2 DEF RegisterStream, TypeOK, PumpStates, PumpsHaveSids
  <2>6. TypeOK'
    <3>1. job' \in [sid : Sids \cup {None}, stream : ServerStreams \cup {None}]
      BY <2>2 DEF NoJob
    <3>2. open' \subseteq open
      BY <1>7 DEF RegisterStream
    <3>3. QED
      BY <1>2, <2>1, <2>2, <2>3, <2>4, <2>5, <3>1, <3>2 DEF TypeOK, onceVars
  <2>7. OpenStreamsAreReachable'
    <3>1. SUFFICES ASSUME NEW s \in open' PROVE \E x \in DOMAIN subs' : subs'[x] = s
      BY DEF OpenStreamsAreReachable, Range
    <3>2. s \in open /\ s \notin Replaced(job.sid)
      BY <1>7, <3>1 DEF RegisterStream
    <3>3. CASE s = job.stream
      BY <2>4, <3>3
    <3>4. CASE s # job.stream
      <4>1. PICK x \in DOMAIN subs : subs[x] = s
        BY <2>3, <3>2, <3>4 DEF OpenStreamsAreReachable, Range
      <4>2. x # job.sid
        BY <3>2, <4>1 DEF Replaced
      <4>3. QED
        BY <2>4, <4>1, <4>2
    <3>5. QED
      BY <3>3, <3>4
  <2>8. QED
    BY <1>2, <2>1, <2>2, <2>3, <2>5, <2>6, <2>7 DEF JobMatchesReader, LeakInv, NoJob
<1>8. CASE RegisterPanics
  <2>1. at["reader"] = "registering" /\ at'["reader"] = "gone" /\ at' \in [Services -> At]
    BY <1>1, <1>8 DEF RegisterPanics, Goto, TypeOK, At
  <2>2. job.stream \in ServerStreams /\ job' = NoJob
    BY <1>8, <2>1 DEF RegisterPanics, JobMatchesReader, TypeOK
  <2>3. UNCHANGED <<subs, pump, open, returned, out>> /\ nilled /\ conn' = FALSE
    BY <1>8 DEF RegisterPanics, muxVars, feedVars, outVars
  <2>4. job' \in [sid : Sids \cup {None}, stream : ServerStreams \cup {None}]
    BY <2>2 DEF NoJob
  <2>5. TypeOK'
    BY <1>2, <2>1, <2>3, <2>4 DEF TypeOK, onceVars
  <2>6. LeakInv'
    BY <2>1, <2>2, <2>3 DEF LeakInv
  <2>7. QED
    BY <1>2, <2>1, <2>2, <2>3, <2>5, <2>6
       DEF JobMatchesReader, PumpsHaveSids, OpenStreamsAreReachable, NoJob
<1>9. CASE Reply
  <2>1. at["reader"] = "replying" /\ at'["reader"] = "reading" /\ at' \in [Services -> At]
    BY <1>1, <1>9 DEF Reply, Goto, TypeOK, At
  <2>2. job.stream = None /\ job.sid \in Sids /\ job' = NoJob
    BY <1>9, <2>1 DEF Reply, JobMatchesReader
  <2>3. UNCHANGED <<conn, subs, pump, open, returned>>
    BY <1>9 DEF Reply, muxVars, feedVars
  <2>4. Notice(job.sid) \in Frames
    BY <2>2 DEF Notice, Frame, Frames
  <2>5. out' \in Seq(Frames) /\ Len(out') <= OutCap
    <3>1. CASE Len(out) < OutCap
      <4>1. out' = Append(out, Notice(job.sid))
        BY <1>9, <3>1 DEF Reply
      <4>2. out \in Seq(Frames) /\ Len(out) \in Nat
        BY DEF TypeOK
      <4>3. QED
        BY <2>4, <3>1, <4>1, <4>2
    <3>2. CASE ~(Len(out) < OutCap)
      BY <1>9, <3>2 DEF Reply, TypeOK
    <3>3. QED
      BY <3>1, <3>2
  <2>6. job' \in [sid : Sids \cup {None}, stream : ServerStreams \cup {None}]
    BY <2>2 DEF NoJob
  <2>7. TypeOK'
    BY <1>2, <2>1, <2>3, <2>5, <2>6 DEF TypeOK, onceVars
  <2>8. QED
    BY <1>2, <2>1, <2>2, <2>3, <2>7
       DEF JobMatchesReader, PumpsHaveSids, OpenStreamsAreReachable, LeakInv, NoJob
<1>10. QED
  BY <1>3, <1>4, <1>5, <1>6, <1>7, <1>8, <1>9 DEF Reader

LEMMA PumpStep ==
  ASSUME IInv, NEW s \in ServerStreams, Feed(s) \/ Pump(s)
  PROVE  IInv'
<1> USE DEF IInv
<1>1. UNCHANGED <<conn, onceVars, muxVars, at, job, open, returned, held, got>>
  BY DEF Feed, Pump, PumpReceive, PumpSend, PumpEnds, PumpStops, feedVars, outVars
<1>2. /\ pump' \in [ServerStreams -> [at : PumpStates, sid : Sids \cup {None}]]
      /\ PumpsHaveSids'
  <2>1. CASE UNCHANGED pump
    BY <2>1 DEF PumpsHaveSids, TypeOK
  <2>2. CASE pump[s].at # "none" /\ \E to \in PumpStates : PumpTo(s, to)
    <3>1. PICK to : to \in PumpStates /\ pump' = [pump EXCEPT ![s].at = to]
      BY <2>2 DEF PumpTo
    <3>2. pump' \in [ServerStreams -> [at : PumpStates, sid : Sids \cup {None}]]
      <4>1. pump \in [ServerStreams -> [at : PumpStates, sid : Sids \cup {None}]]
        BY DEF TypeOK
      <4>2. QED
        BY ONLY <3>1, <4>1
    <3>3. \A x \in ServerStreams : pump'[x].sid = pump[x].sid /\ (x # s => pump'[x] = pump[x])
      BY <3>1 DEF TypeOK
    <3>4. QED
      BY <2>2, <3>2, <3>3 DEF PumpsHaveSids
  <2>3. QED
    BY <2>1, <2>2 DEF Feed, Pump, PumpReceive, PumpSend, PumpEnds, PumpStops, PumpStates
<1>3. fed' \in [ServerStreams -> Nat] /\ pulled' \in [ServerStreams -> Nat]
  <2>1. CASE Feed(s)
    BY <2>1 DEF Feed, TypeOK
  <2>2. CASE PumpReceive(s)
    BY <2>2 DEF PumpReceive, TypeOK
  <2>3. CASE UNCHANGED feedVars
    BY <2>3 DEF feedVars, TypeOK
  <2>4. QED
    BY <2>1, <2>2, <2>3 DEF Feed, Pump, PumpSend, PumpEnds, PumpStops
<1>4. out' \in Seq(Frames) /\ Len(out') <= OutCap
  <2>1. CASE PumpSend(s)
    <3>1. Frame(pump[s].sid, s, pulled[s]) \in Frames
      BY DEF Frame, Frames, TypeOK
    <3>2. QED
      BY <2>1, <3>1 DEF PumpSend, Enqueue, TypeOK
  <2>2. CASE ~PumpSend(s)
    BY <2>2 DEF Feed, Pump, PumpReceive, PumpEnds, PumpStops, outVars, TypeOK
  <2>3. QED
    BY <2>1, <2>2
<1>5. TypeOK'
  BY <1>1, <1>2, <1>3, <1>4 DEF TypeOK, onceVars, muxVars
<1>6. QED
  BY <1>1, <1>2, <1>5
     DEF JobMatchesReader, OpenStreamsAreReachable, LeakInv, muxVars, onceVars

LEMMA ServiceStep ==
  ASSUME IInv, Writer \/ Pinger \/ ContextDone
  PROVE  IInv'
<1> USE DEF IInv
<1>1. UNCHANGED <<conn, onceVars, muxVars, job, pump, feedVars>>
  BY DEF Writer, WriterTakes, WriterWrites, WriterFails, WriterStops, Pinger, PingFails,
         PingerStops, ContextDone
<1>2. at' \in [Services -> At] /\ at'["reader"] = at["reader"]
  BY DEF Writer, WriterTakes, WriterWrites, WriterFails, WriterStops, Pinger, PingFails,
         PingerStops, ContextDone, Goto, TypeOK, At, Services
<1>3. out' \in Seq(Frames) /\ Len(out') <= OutCap /\ held' \in Frames
  <2>1. NoFrame \in Frames
    BY DEF NoFrame, Frame, Frames
  <2>2. CASE WriterTakes
    BY <2>2 DEF WriterTakes, TypeOK
  <2>3. CASE ~WriterTakes
    BY <2>1, <2>3 DEF Writer, WriterWrites, WriterFails, WriterStops, Pinger, PingFails,
                      PingerStops, ContextDone, TypeOK, outVars
  <2>4. QED
    BY <2>2, <2>3
<1>4. got' \in [ServerStreams -> Nat]
  BY DEF Writer, WriterTakes, WriterWrites, WriterFails, WriterStops, Pinger, PingFails,
         PingerStops, ContextDone, TypeOK, Frames, outVars
<1>5. TypeOK'
  BY <1>1, <1>2, <1>3, <1>4 DEF TypeOK, onceVars, muxVars, feedVars
<1>6. QED
  BY <1>1, <1>2, <1>5
     DEF JobMatchesReader, PumpsHaveSids, OpenStreamsAreReachable, LeakInv,
         muxVars, onceVars, feedVars

LEMMA Invariance == Spec => []IInv
<1>1. IInv /\ UNCHANGED vars => IInv'
  BY DEF IInv, vars, TypeOK, JobMatchesReader, PumpsHaveSids, OpenStreamsAreReachable,
         LeakInv, muxVars, onceVars, feedVars, outVars
<1>2. IInv /\ [Next]_vars => IInv'
  BY <1>1, ShutdownStep, ReaderStep, PumpStep, ServiceStep DEF Next
<1>3. QED
  BY <1>2, InitIInv, PTL DEF Spec

\* Types, the capacity of m.out, and the phases of shutdown.
THEOREM TypeCorrect == Spec => []TypeOK
<1>1. IInv => TypeOK
  BY DEF IInv
<1>2. QED
  BY <1>1, Invariance, PTL

\* Before shutdown, every open stream of the connection is known to it.
THEOREM StreamsReachable == Spec => []OpenStreamsAreReachable
<1>1. IInv => OpenStreamsAreReachable
  BY DEF IInv
<1>2. QED
  BY <1>1, Invariance, PTL

\* Shutdown leaves at most one stream of the connection open.
THEOREM LeaksAtMostOne == Spec => []AtMostOneLeak
<1>1. ASSUME NEW T, NEW x, T \subseteq {x} PROVE Cardinality(T) <= 1
  <2>1. T = {} \/ T = {x}
    BY <1>1
  <2>2. Cardinality({}) = 0 /\ Cardinality({x}) = 1
    BY ONLY FS_EmptySet, FS_Singleton, Zenon
  <2>3. QED
    BY <2>1, <2>2
<1>2. IInv => AtMostOneLeak
  BY <1>1 DEF IInv, LeakInv, AtMostOneLeak
<1>3. QED
  BY <1>2, Invariance, PTL
-----------------------------------------------------------------------------
(* The order of the frames. Of each stream, the client has got the events up *)
(* to Base (the frame the writer holds included), m.out has the next ones in *)
(* order, and they go up to the one its pump sent last. Once the writer has  *)
(* left its loop nothing is received any more.                              *)

Sent(s) == IF pump[s].at = "sending" THEN pulled[s] - 1 ELSE pulled[s]
Base(s) == IF held.stream = s THEN held.n ELSE got[s]

HeldIsNext ==
  held.stream # None => at["writer"] = "writing" /\ held.n = got[held.stream] + 1
FollowsOn(i, s) ==
  \/ out[i].n = Base(s) + 1
  \/ \E j \in DOMAIN out : j < i /\ out[j].stream = s /\ out[j].n + 1 = out[i].n
QueueInOrder(s) ==
  \A i \in DOMAIN out : out[i].stream = s =>
    /\ out[i].n > Base(s)
    /\ pump[s].at # "gone" => out[i].n <= Sent(s)
    /\ \A j \in DOMAIN out : j < i /\ out[j].stream = s => out[j].n < out[i].n
    /\ FollowsOn(i, s)
QueueComplete(s) ==
  pump[s].at # "gone" =>
    Sent(s) = Base(s) \/ \E i \in DOMAIN out : out[i].stream = s /\ out[i].n = Sent(s)
InOrder ==
  at["writer"] \in {"waiting", "writing"} =>
    HeldIsNext /\ \A s \in ServerStreams : QueueInOrder(s) /\ QueueComplete(s)

\* A stream is not pumped before it is registered, and a pump that sends has
\* something to send.
PumpsAreFresh ==
  /\ job.stream # None => job.stream \in returned
  /\ \A s \in ServerStreams :
       /\ s \notin returned \/ s = job.stream => pump[s].at = "none"
       /\ pump[s].at = "sending" => pulled[s] > 0

OrderInv == InOrder /\ PumpsAreFresh

LEMMA InitOrderInv == Init => OrderInv
BY DEF Init, OrderInv, InOrder, PumpsAreFresh, HeldIsNext, QueueInOrder, QueueComplete, Sent, Base,
       NoFrame, NoJob, Frame, Services

\* A step that touches neither frames nor pumps, and at most stops the writer
LEMMA OrderFrame ==
  ASSUME OrderInv, UNCHANGED <<pump, pulled, out, held, got>>,
         at'["writer"] \in {"waiting", "writing"} => at'["writer"] = at["writer"]
  PROVE  InOrder'
BY DEF OrderInv, InOrder, HeldIsNext, QueueInOrder, QueueComplete, FollowsOn, Sent, Base

\* A frame that is not of a stream goes to the end of m.out, or no frame.
LEMMA NoticeFrame ==
  ASSUME IInv, OrderInv, NEW f \in Frames, f.stream = None, out' = Append(out, f),
         UNCHANGED <<pump, pulled, held, got>>, at'["writer"] = at["writer"]
  PROVE  InOrder'
<1> SUFFICES ASSUME at["writer"] \in {"waiting", "writing"}
             PROVE  HeldIsNext' /\ \A s \in ServerStreams : QueueInOrder(s)' /\ QueueComplete(s)'
  BY DEF InOrder
<1>1. HeldIsNext'
  BY DEF OrderInv, InOrder, HeldIsNext
<1>2. /\ DOMAIN out' = DOMAIN out \cup {Len(out) + 1}
      /\ out'[Len(out) + 1].stream = None
      /\ \A i \in DOMAIN out : out'[i] = out[i] /\ i \in Nat /\ i < Len(out) + 1
  <2>1. out \in Seq(Frames)
    BY DEF IInv, TypeOK
  <2>2. QED
    BY <2>1
<1>3. ASSUME NEW s \in ServerStreams PROVE QueueInOrder(s)' /\ QueueComplete(s)'
  <2>1. QueueInOrder(s) /\ QueueComplete(s) /\ s # None
    BY DEF OrderInv, InOrder
  <2>2. Sent(s)' = Sent(s) /\ Base(s)' = Base(s)
    BY DEF Sent, Base
  <2>3. \A i \in DOMAIN out' : out'[i].stream = s => i \in DOMAIN out
    BY <1>2, <2>1
  <2>4. QueueInOrder(s)'
    BY <1>2, <2>1, <2>2, <2>3 DEF QueueInOrder, FollowsOn
  <2>5. QueueComplete(s)'
    BY <1>2, <2>1, <2>2 DEF QueueComplete
  <2>6. QED
    BY <2>4, <2>5
<1>4. QED
  BY <1>1, <1>3

LEMMA ReaderOrder ==
  ASSUME IInv, OrderInv, Reader
  PROVE  OrderInv'
<1>1. "reader" \in Services /\ "writer" \in Services /\ at \in [Services -> At]
  BY DEF Services, IInv, TypeOK
<1>2. UNCHANGED <<pulled, held, got>> /\ at'["writer"] = at["writer"]
  BY <1>1 DEF Reader, ReadSubscribe, ReadUnsubscribe, ReadOther, ReadFails, SubscribeFails,
         SubscribeReturns, RegisterStream, RegisterPanics, Reply, feedVars, outVars, Goto
<1>3. CASE Reply
  <2>1. job.sid \in Sids /\ job.stream = None /\ UNCHANGED <<pump, returned>>
    BY <1>3 DEF Reply, Goto, IInv, JobMatchesReader, feedVars
  <2>2. InOrder'
    <3>1. CASE UNCHANGED out
      BY <1>2, <2>1, <3>1, OrderFrame
    <3>2. CASE out' = Append(out, Notice(job.sid))
      <4>1. Notice(job.sid) \in Frames /\ Notice(job.sid).stream = None
        BY <2>1 DEF Notice, Frame, Frames
      <4>2. QED
        BY <1>2, <2>1, <3>2, <4>1, NoticeFrame
    <3>3. QED
      BY <1>3, <3>1, <3>2 DEF Reply
  <2>3. PumpsAreFresh'
    BY <1>2, <1>3, <2>1 DEF Reply, OrderInv, PumpsAreFresh, NoJob
  <2>4. QED
    BY <2>2, <2>3 DEF OrderInv
<1>4. CASE RegisterStream
  <2>1. job.stream \in ServerStreams /\ pump[job.stream].at = "none"
    BY <1>4 DEF RegisterStream, Goto, IInv, TypeOK, JobMatchesReader, OrderInv, PumpsAreFresh
  <2>2. /\ pump' = [pump EXCEPT ![job.stream] = [at |-> "receiving", sid |-> job.sid]]
        /\ UNCHANGED <<out, returned>> /\ job' = NoJob
    BY <1>4 DEF RegisterStream, outVars
  <2>3. pump \in [ServerStreams -> [at : PumpStates, sid : Sids \cup {None}]]
    BY DEF IInv, TypeOK
  <2>4. \A s \in ServerStreams : /\ Sent(s)' = Sent(s) /\ Base(s)' = Base(s)
                                 /\ pump'[s].at = "gone" <=> pump[s].at = "gone"
    BY <1>2, <2>1, <2>2, <2>3 DEF Sent, Base
  <2>5. InOrder'
    BY <1>2, <2>2, <2>4 DEF OrderInv, InOrder, HeldIsNext, QueueInOrder, QueueComplete, FollowsOn
  <2>6. job.stream \in returned
    BY <2>1 DEF OrderInv, PumpsAreFresh
  <2>7. PumpsAreFresh'
    BY <1>2, <2>1, <2>2, <2>3, <2>6 DEF OrderInv, PumpsAreFresh, NoJob
  <2>8. QED
    BY <2>5, <2>7 DEF OrderInv
<1>5. CASE ~Reply /\ ~RegisterStream
  <2>1. UNCHANGED <<pump, out>>
    BY <1>5 DEF Reader, ReadSubscribe, ReadUnsubscribe, ReadOther, ReadFails, SubscribeFails,
           SubscribeReturns, RegisterPanics, outVars
  <2>2. PumpsAreFresh'
    <3>1. ASSUME NEW s \in ServerStreams, SubscribeReturns(s) PROVE PumpsAreFresh'
      <4>1. s \notin returned /\ returned' = returned \cup {s} /\ job' = [job EXCEPT !.stream = s]
        BY <3>1 DEF SubscribeReturns
      <4>2. job'.stream = s
        BY <4>1 DEF IInv, TypeOK
      <4>3. QED
        BY <1>2, <2>1, <4>1, <4>2 DEF OrderInv, PumpsAreFresh
    <3>2. CASE ~\E s \in ServerStreams : SubscribeReturns(s)
      <4>1. returned' = returned /\ (job' = job \/ job'.stream = None)
        <5>1. CASE \E sid \in Sids : ReadSubscribe(sid) \/ ReadOther(sid)
          BY <5>1 DEF ReadSubscribe, ReadOther, feedVars
        <5>2. CASE RegisterPanics
          BY <5>2 DEF RegisterPanics, feedVars, NoJob
        <5>3. CASE (\E sid \in Sids : ReadUnsubscribe(sid)) \/ ReadFails \/ SubscribeFails
          BY <5>3 DEF ReadUnsubscribe, ReadFails, SubscribeFails, feedVars
        <5>4. QED
          BY <1>5, <3>2, <5>1, <5>2, <5>3 DEF Reader
      <4>2. QED
        BY <1>2, <2>1, <4>1 DEF OrderInv, PumpsAreFresh
    <3>3. QED
      BY <3>1, <3>2
  <2>3. QED
    BY <1>2, <2>1, <2>2, OrderFrame DEF OrderInv
<1>6. QED
  BY <1>3, <1>4, <1>5

LEMMA PumpOrder ==
  ASSUME IInv, OrderInv, NEW s \in ServerStreams, Feed(s) \/ Pump(s)
  PROVE  OrderInv'
<1>1. UNCHANGED <<at, job, returned, held, got>>
  BY DEF Feed, Pump, PumpReceive, PumpSend, PumpEnds, PumpStops, feedVars, outVars
<1>2. /\ pump \in [ServerStreams -> [at : PumpStates, sid : Sids \cup {None}]]
      /\ pulled \in [ServerStreams -> Nat] /\ got \in [ServerStreams -> Nat]
      /\ out \in Seq(Frames) /\ held \in Frames /\ s # None
  BY DEF IInv, TypeOK
<1>3. CASE Feed(s)
  <2>1. UNCHANGED <<pump, pulled, out>>
    BY <1>3 DEF Feed, outVars
  <2>2. PumpsAreFresh'
    BY <1>1, <2>1 DEF OrderInv, PumpsAreFresh
  <2>3. QED
    BY <1>1, <2>1, <2>2, OrderFrame DEF OrderInv
<1>4. CASE PumpReceive(s)
  <2>1. /\ pump[s].at = "receiving" /\ pump'[s].at = "sending" /\ pulled'[s] = pulled[s] + 1
        /\ \A t \in ServerStreams \ {s} : pump'[t] = pump[t] /\ pulled'[t] = pulled[t]
        /\ out' = out /\ \A t \in ServerStreams : pulled[t] \in Nat
    BY <1>2, <1>4 DEF PumpReceive, PumpTo, outVars
  <2>2. \A t \in ServerStreams : /\ Sent(t)' = Sent(t) /\ Base(t)' = Base(t)
                                 /\ pump'[t].at = "gone" <=> pump[t].at = "gone"
    <3>1. ASSUME NEW t \in ServerStreams
          PROVE  Sent(t)' = Sent(t) /\ (pump'[t].at = "gone" <=> pump[t].at = "gone")
      <4>1. CASE t = s
        BY <2>1, <4>1 DEF Sent
      <4>2. CASE t # s
        BY <2>1, <4>2 DEF Sent
      <4>3. QED
        BY <4>1, <4>2
    <3>2. \A t \in ServerStreams : Base(t)' = Base(t)
      BY <1>1 DEF Base
    <3>3. QED
      BY <3>1, <3>2
  <2>3. InOrder'
    BY <1>1, <2>1, <2>2 DEF OrderInv, InOrder, HeldIsNext, QueueInOrder, QueueComplete, FollowsOn
  <2>4. PumpsAreFresh'
    <3>1. PumpsAreFresh
      BY DEF OrderInv
    <3>2. s \in returned /\ s # job.stream
      BY <2>1, <3>1 DEF PumpsAreFresh
    <3>3. pulled'[s] > 0
      BY <2>1
    <3>4. ASSUME NEW t \in ServerStreams
          PROVE  /\ t \notin returned' \/ t = job'.stream => pump'[t].at = "none"
                 /\ pump'[t].at = "sending" => pulled'[t] > 0
      <4>1. CASE t = s
        BY <1>1, <3>2, <3>3, <4>1
      <4>2. CASE t # s
        BY <1>1, <2>1, <3>1, <4>2 DEF PumpsAreFresh
      <4>3. QED
        BY <4>1, <4>2
    <3>5. QED
      BY <1>1, <3>1, <3>4 DEF PumpsAreFresh
  <2>5. QED
    BY <2>3, <2>4 DEF OrderInv
<1>5. CASE PumpEnds(s) \/ PumpStops(s)
  <2>1. /\ pump[s].at \in {"receiving", "sending"} /\ pump'[s].at = "gone"
        /\ \A t \in ServerStreams \ {s} : pump'[t] = pump[t]
        /\ out' = out /\ pulled' = pulled
    BY <1>2, <1>5 DEF PumpEnds, PumpStops, PumpTo, outVars, feedVars
  <2>2. \A t \in ServerStreams : /\ Base(t)' = Base(t)
                                 /\ pump'[t].at = "gone" \/ (Sent(t)' = Sent(t) /\ pump[t].at # "gone")
    BY <1>1, <1>2, <2>1 DEF Sent, Base
  <2>3. InOrder'
    BY <1>1, <2>1, <2>2 DEF OrderInv, InOrder, HeldIsNext, QueueInOrder, QueueComplete, FollowsOn
  <2>4. PumpsAreFresh'
    BY <1>1, <1>2, <2>1 DEF OrderInv, PumpsAreFresh
  <2>5. QED
    BY <2>3, <2>4 DEF OrderInv
<1>6. CASE PumpSend(s)
  <2>0. PICK f, n : f = Frame(pump[s].sid, s, pulled[s]) /\ n = Len(out) + 1
    OBVIOUS
  <2>1. /\ pump[s].at = "sending" /\ pump'[s].at = "receiving"
        /\ \A t \in ServerStreams \ {s} : pump'[t] = pump[t]
        /\ out' = Append(out, f) /\ pulled' = pulled
    BY <1>2, <1>6, <2>0 DEF PumpSend, PumpTo, Enqueue, feedVars
  <2>2. f \in Frames /\ f.stream = s /\ f.n = pulled[s]
    BY <1>2, <2>0 DEF Frame, Frames
  <2>3. /\ DOMAIN out' = DOMAIN out \cup {n} /\ out'[n] = f /\ n \in Nat
        /\ \A i \in DOMAIN out : out'[i] = out[i] /\ i \in Nat /\ i < n
    <3>1. n = Len(out) + 1
      BY <2>0
    <3>2. QED
      BY <1>2, <2>1, <2>2, <3>1
  <2>31. \A i \in DOMAIN out : out[i].n \in Nat
    <3>1. \A i \in DOMAIN out : out[i] \in Frames
      BY <1>2
    <3>2. QED
      BY <3>1 DEF Frames
  <2>4. \A t \in ServerStreams : Base(t)' = Base(t) /\ Base(t) \in Nat
    BY <1>1, <1>2 DEF Base, Frames
  <2>5. Sent(s) = pulled[s] - 1 /\ Sent(s)' = pulled[s] /\ pulled[s] \in Nat
    BY <1>2, <2>1 DEF Sent
  <2>6. ASSUME at["writer"] \in {"waiting", "writing"}, NEW t \in ServerStreams
        PROVE  QueueInOrder(t)' /\ QueueComplete(t)'
    <3>1. QueueInOrder(t) /\ QueueComplete(t)
      BY <2>6 DEF OrderInv, InOrder
    <3>2. CASE t # s
      <4>1. \A i \in DOMAIN out' : out'[i].stream = t => i \in DOMAIN out
        BY <2>2, <2>3, <3>2
      <4>2. Sent(t)' = Sent(t) /\ pump'[t] = pump[t]
        BY <2>1, <3>2 DEF Sent
      <4>3. QueueInOrder(t)'
        BY <2>3, <2>31, <2>4, <3>1, <4>1, <4>2 DEF QueueInOrder, FollowsOn
      <4>4. QueueComplete(t)'
        BY <2>3, <2>4, <3>1, <4>1, <4>2 DEF QueueComplete
      <4>5. QED
        BY <4>3, <4>4
    <3>3. CASE t = s
      <4>1. \A j \in DOMAIN out : out[j].stream = s => out[j].n <= pulled[s] - 1
        BY <2>1, <2>5, <3>1, <3>3 DEF QueueInOrder
      <4>2. \/ Base(s) = pulled[s] - 1
            \/ \E j \in DOMAIN out : out[j].stream = s /\ out[j].n = pulled[s] - 1
        BY <2>1, <2>5, <3>1, <3>3 DEF QueueComplete
      <4>3. f.n > Base(s)
        BY <2>2, <2>3, <2>31, <2>4, <2>5, <3>1, <3>3, <4>2 DEF QueueInOrder
      <4>4. FollowsOn(n, s)'
        BY <2>2, <2>3, <2>31, <2>4, <2>5, <4>2 DEF FollowsOn
      <4>5. ASSUME NEW i \in DOMAIN out, out[i].stream = s
            PROVE  /\ out'[i].n > Base(s)' /\ out'[i].n <= Sent(s)' /\ FollowsOn(i, s)'
                   /\ \A j \in DOMAIN out' : j < i /\ out'[j].stream = s => out'[j].n < out'[i].n
        <5>1. /\ out[i].n > Base(s) /\ FollowsOn(i, s)
              /\ \A j \in DOMAIN out : j < i /\ out[j].stream = s => out[j].n < out[i].n
          BY <3>1, <3>3, <4>5 DEF QueueInOrder
        <5>2. FollowsOn(i, s)'
          BY <2>3, <2>4, <5>1 DEF FollowsOn
        <5>3. out'[i].n > Base(s)' /\ out'[i].n <= Sent(s)'
          BY <2>3, <2>31, <2>4, <2>5, <4>1, <4>5, <5>1
        <5>4. \A j \in DOMAIN out' : j < i => j \in DOMAIN out
          BY <1>2, <2>3
        <5>5. QED
          BY <2>3, <2>31, <5>1, <5>2, <5>3, <5>4
      <4>6. QueueInOrder(s)'
        <5>1. \A j \in DOMAIN out' : j < n /\ out'[j].stream = s => out'[j].n < out'[n].n
          <6>1. ASSUME NEW j \in DOMAIN out', j < n, out'[j].stream = s PROVE out'[j].n < out'[n].n
            <7>1. j \in DOMAIN out /\ out'[j] = out[j]
              BY <2>3, <6>1
            <7>2. out[j].n <= pulled[s] - 1 /\ out[j].n \in Nat
              BY <2>31, <4>1, <6>1, <7>1
            <7>3. out'[n].n = pulled[s]
              BY <2>2, <2>3
            <7>4. QED
              BY <2>5, <7>1, <7>2, <7>3
          <6>2. QED
            BY <6>1
        <5>2. out'[n].n > Base(s)' /\ out'[n].n <= Sent(s)'
          BY <2>2, <2>3, <2>4, <2>5, <4>3
        <5>3. QED
          BY <2>3, <4>4, <4>5, <5>1, <5>2 DEF QueueInOrder
      <4>7. QueueComplete(s)'
        BY <2>1, <2>2, <2>3, <2>5 DEF QueueComplete
      <4>8. QED
        BY <3>3, <4>6, <4>7
    <3>4. QED
      BY <3>2, <3>3
  <2>7. HeldIsNext' <=> HeldIsNext
    BY <1>1 DEF HeldIsNext
  <2>8. InOrder'
    BY <1>1, <2>6, <2>7 DEF OrderInv, InOrder
  <2>9. PumpsAreFresh'
    BY <1>1, <1>2, <2>1 DEF OrderInv, PumpsAreFresh
  <2>10. QED
    BY <2>8, <2>9 DEF OrderInv
<1>7. QED
  BY <1>3, <1>4, <1>5, <1>6 DEF Pump

LEMMA ServiceOrder ==
  ASSUME IInv, OrderInv, Writer \/ Pinger \/ ContextDone
  PROVE  OrderInv'
<1>1. UNCHANGED <<job, pump, returned, pulled>>
  BY DEF Writer, WriterTakes, WriterWrites, WriterFails, WriterStops, Pinger, PingFails,
         PingerStops, ContextDone, feedVars
<1>2. /\ out \in Seq(Frames) /\ held \in Frames /\ got \in [ServerStreams -> Nat]
      /\ "writer" \in Services /\ at \in [Services -> At]
  BY DEF IInv, TypeOK, Services
<1>3. PumpsAreFresh'
  BY <1>1 DEF OrderInv, PumpsAreFresh
<1>4. CASE WriterTakes
  <2>1. /\ at["writer"] = "waiting" /\ at'["writer"] = "writing"
        /\ out # <<>> /\ held' = Head(out) /\ out' = Tail(out) /\ got' = got
    BY <1>2, <1>4 DEF WriterTakes, Goto
  <2>2. /\ 1 \in DOMAIN out /\ held' = out[1]
        /\ \A i \in DOMAIN out' : i \in Nat /\ i + 1 \in DOMAIN out /\ out'[i] = out[i + 1] /\ i >= 1
        /\ \A i \in DOMAIN out : i \in Nat /\ i >= 1 /\ (i # 1 => i - 1 \in DOMAIN out')
        /\ \A i \in DOMAIN out : out[i].n \in Nat
    <3>1. DOMAIN out = 1..Len(out) /\ Len(out) \in Nat /\ Len(out) >= 1 /\ \A i \in DOMAIN out : out[i] \in Frames
      BY <1>2, <2>1
    <3>2. /\ Len(out') = Len(out) - 1 /\ DOMAIN out' = 1..Len(out')
          /\ \A i \in 1..Len(out') : out'[i] = out[i + 1]
      BY <1>2, <2>1, <3>1
    <3>3. held' = out[1]
      BY <1>2, <2>1
    <3>4. \A i \in DOMAIN out : out[i].n \in Nat
      BY <3>1 DEF Frames
    <3>5. QED
      BY <3>1, <3>2, <3>3, <3>4
  <2>3. held.stream = None /\ \A s \in ServerStreams : QueueInOrder(s) /\ QueueComplete(s)
    BY <2>1 DEF OrderInv, InOrder, HeldIsNext
  <2>4. \A s \in ServerStreams : s # None /\ Base(s) = got[s] /\ got[s] \in Nat /\ Sent(s)' = Sent(s)
    BY <1>1, <1>2, <2>3 DEF Base, Sent
  <2>5. held'.stream # None => held'.n = got[held'.stream] + 1 /\ held'.stream \in ServerStreams
    <3>1. SUFFICES ASSUME out[1].stream # None
                   PROVE  out[1].stream \in ServerStreams /\ out[1].n = got[out[1].stream] + 1
      BY <2>2
    <3>2. out[1].stream \in ServerStreams
      <4>1. out[1] \in Frames
        BY <1>2, <2>2
      <4>2. QED
        BY <3>1, <4>1 DEF Frames
    <3>3. FollowsOn(1, out[1].stream)
      BY <2>2, <2>3, <3>2 DEF QueueInOrder
    <3>4. QED
      BY <2>2, <2>4, <3>2, <3>3 DEF FollowsOn
  <2>6. ASSUME NEW s \in ServerStreams PROVE QueueInOrder(s)' /\ QueueComplete(s)'
    <3>1. QueueInOrder(s) /\ QueueComplete(s) /\ Base(s) = got[s] /\ got[s] \in Nat /\ Sent(s)' = Sent(s)
      BY <2>3, <2>4
    <3>2. CASE out[1].stream # s
      <4>1. Base(s)' = Base(s)
        BY <2>1, <2>2, <3>1, <3>2 DEF Base
      <4>2. ASSUME NEW i \in DOMAIN out', out'[i].stream = s PROVE FollowsOn(i, s)'
        <5>1. FollowsOn(i + 1, s)
          BY <2>2, <3>1, <4>2 DEF QueueInOrder
        <5>2. CASE out[i + 1].n = Base(s) + 1
          BY <2>2, <4>1, <5>2 DEF FollowsOn
        <5>3. CASE out[i + 1].n # Base(s) + 1
          <6>1. PICK j \in DOMAIN out : j < i + 1 /\ out[j].stream = s /\ out[j].n + 1 = out[i + 1].n
            BY <5>1, <5>3 DEF FollowsOn
          <6>2. j # 1 /\ j - 1 \in DOMAIN out' /\ j - 1 < i
            BY <2>2, <3>2, <6>1
          <6>3. out'[j - 1] = out[j] /\ out'[i] = out[i + 1]
            BY <2>2, <6>1, <6>2
          <6>4. QED
            BY <6>1, <6>2, <6>3 DEF FollowsOn
        <5>4. QED
          BY <5>2, <5>3
      <4>3. QueueInOrder(s)'
        BY <1>1, <2>2, <3>1, <4>1, <4>2 DEF QueueInOrder
      <4>4. QueueComplete(s)'
        <5>1. ASSUME NEW i \in DOMAIN out, out[i].stream = s, out[i].n = Sent(s)
              PROVE  \E k \in DOMAIN out' : out'[k].stream = s /\ out'[k].n = Sent(s)
          <6>1. i - 1 \in DOMAIN out' /\ out'[i - 1] = out[i]
            BY <2>2, <3>2, <5>1
          <6>2. QED
            BY <5>1, <6>1
        <5>2. QED
          BY <1>1, <3>1, <4>1, <5>1 DEF QueueComplete
      <4>5. QED
        BY <4>3, <4>4
    <3>3. CASE out[1].stream = s
      <4>1. Base(s)' = out[1].n /\ out[1].n = got[s] + 1
        BY <2>2, <2>4, <2>5, <3>3 DEF Base
      <4>2. \A i \in DOMAIN out : i # 1 /\ out[i].stream = s => out[i].n > out[1].n
        BY <2>2, <3>1, <3>3 DEF QueueInOrder
      <4>3. ASSUME NEW i \in DOMAIN out', out'[i].stream = s PROVE FollowsOn(i, s)'
        <5>1. FollowsOn(i + 1, s) /\ out[i + 1].n > out[1].n /\ out[i + 1].n \in Nat
          BY <2>2, <3>1, <4>2, <4>3 DEF QueueInOrder
        <5>2. PICK j \in DOMAIN out : j < i + 1 /\ out[j].stream = s /\ out[j].n + 1 = out[i + 1].n
          BY <3>1, <4>1, <5>1 DEF FollowsOn
        <5>3. CASE j = 1
          BY <2>2, <4>1, <5>2, <5>3 DEF FollowsOn
        <5>4. CASE j # 1
          <6>1. j - 1 \in DOMAIN out' /\ j - 1 < i
            BY <2>2, <5>2, <5>4
          <6>2. out'[j - 1] = out[j] /\ out'[i] = out[i + 1]
            BY <2>2, <5>2, <6>1
          <6>3. QED
            BY <5>2, <6>1, <6>2 DEF FollowsOn
        <5>5. QED
          BY <5>3, <5>4
      <4>4. QueueInOrder(s)'
        BY <1>1, <2>2, <3>1, <4>1, <4>2, <4>3 DEF QueueInOrder
      <4>5. QueueComplete(s)'
        <5>1. ASSUME NEW i \in DOMAIN out, out[i].stream = s, out[i].n = Sent(s), i # 1
              PROVE  \E k \in DOMAIN out' : out'[k].stream = s /\ out'[k].n = Sent(s)
          <6>1. i - 1 \in DOMAIN out' /\ out'[i - 1] = out[i]
            BY <2>2, <5>1
          <6>2. QED
            BY <5>1, <6>1
        <5>2. pump[s].at # "gone" => Sent(s) # Base(s)
          BY <2>2, <3>1, <3>3, <4>1 DEF QueueInOrder
        <5>3. QED
          BY <1>1, <3>1, <4>1, <5>1, <5>2 DEF QueueComplete
      <4>6. QED
        BY <4>4, <4>5
    <3>4. QED
      BY <3>2, <3>3
  <2>7. HeldIsNext'
    BY <2>1, <2>5 DEF HeldIsNext
  <2>8. QED
    BY <1>3, <2>6, <2>7 DEF OrderInv, InOrder
<1>5. CASE WriterWrites
  <2>1. /\ at["writer"] = "writing" /\ at'["writer"] = "waiting"
        /\ held' = NoFrame /\ held'.stream = None /\ out' = out
        /\ got' = IF held.stream = None THEN got ELSE [got EXCEPT ![held.stream] = held.n]
    BY <1>2, <1>5 DEF WriterWrites, Goto, NoFrame, Frame
  <2>2. HeldIsNext /\ \A s \in ServerStreams : QueueInOrder(s) /\ QueueComplete(s)
    BY <2>1 DEF OrderInv, InOrder
  <2>3. ASSUME NEW s \in ServerStreams PROVE Base(s)' = Base(s) /\ Sent(s)' = Sent(s)
    <3>1. s # None /\ got' \in [ServerStreams -> Nat]
      BY <1>2, <2>1 DEF Frames
    <3>2. Base(s)' = got'[s]
      BY <2>1, <3>1 DEF Base
    <3>3. got'[s] = IF held.stream = s THEN held.n ELSE got[s]
      BY <1>2, <2>1, <3>1
    <3>4. QED
      BY <1>1, <3>2, <3>3 DEF Base, Sent
  <2>4. InOrder'
    BY <1>1, <2>1, <2>2, <2>3 DEF InOrder, HeldIsNext, QueueInOrder, QueueComplete, FollowsOn
  <2>5. QED
    BY <1>3, <2>4 DEF OrderInv
<1>6. CASE ~WriterTakes /\ ~WriterWrites
  <2>1. out' = out /\ got' = got
    BY <1>6 DEF Writer, WriterFails, WriterStops, Pinger, PingFails, PingerStops, ContextDone, outVars
  <2>2. \/ at'["writer"] \notin {"waiting", "writing"}
        \/ at'["writer"] = at["writer"] /\ held' = held
    BY <1>2, <1>6 DEF Writer, WriterFails, WriterStops, Pinger, PingFails, PingerStops, ContextDone,
                      outVars, Goto
  <2>3. InOrder'
    <3>1. CASE at'["writer"] \notin {"waiting", "writing"}
      BY <3>1 DEF InOrder
    <3>2. CASE at'["writer"] = at["writer"] /\ held' = held
      BY <1>1, <2>1, <3>2, OrderFrame
    <3>3. QED
      BY <2>2, <3>1, <3>2
  <2>4. QED
    BY <1>3, <2>3 DEF OrderInv
<1>7. QED
  BY <1>4, <1>5, <1>6

LEMMA ShutdownOrder ==
  ASSUME IInv, OrderInv, NEW g \in Services, Shutdown(g)
  PROVE  OrderInv'
<1>1. UNCHANGED <<job, pump, returned, pulled, out, held, got>>
  BY DEF Shutdown, Enter, Clear, Finish, Leave, feedVars, outVars
<1>2. at'["writer"] \in {"waiting", "writing"} => at'["writer"] = at["writer"]
  BY DEF Shutdown, Enter, Clear, Finish, Leave, Goto, IInv, TypeOK, Services
<1>3. QED
  BY <1>1, <1>2, OrderFrame DEF OrderInv, PumpsAreFresh

LEMMA OrderInvariance == Spec => []OrderInv
<1>1. OrderInv /\ UNCHANGED vars => OrderInv'
  <2>1. ASSUME OrderInv, UNCHANGED vars PROVE PumpsAreFresh'
    BY <2>1 DEF OrderInv, PumpsAreFresh, vars, feedVars
  <2>2. ASSUME OrderInv, UNCHANGED vars PROVE InOrder'
    BY <2>2, OrderFrame DEF vars, feedVars, outVars
  <2>3. QED
    BY <2>1, <2>2 DEF OrderInv
<1>2. IInv /\ OrderInv /\ [Next]_vars => OrderInv'
  BY <1>1, ShutdownOrder, ReaderOrder, PumpOrder, ServiceOrder DEF Next
<1>3. QED
  BY <1>2, InitOrderInv, Invariance, PTL DEF Spec

\* The client gets the events of a stream one by one, in their order: the
\* pump, the shared queue and the writer neither lose nor overtake.
THEOREM FramesStayInOrder == Spec => StreamFramesAreGapless
<1>1. ASSUME IInv, OrderInv, Next, NEW s \in ServerStreams
      PROVE  got'[s] \in {got[s], got[s] + 1}
  <2>1. CASE WriterWrites
    <3>1. at["writer"] = "writing"
      BY <2>1 DEF WriterWrites, Goto
    <3>2. held.stream # None => held.n = got[held.stream] + 1
      BY <1>1, <3>1 DEF OrderInv, InOrder, HeldIsNext
    <3>3. QED
      BY <1>1, <2>1, <3>2 DEF WriterWrites, IInv, TypeOK
  <2>2. CASE ~WriterWrites
    BY <1>1, <2>2 DEF Next, Shutdown, Enter, Clear, Finish, Leave, Reader, ReadSubscribe, ReadUnsubscribe,
           ReadOther, ReadFails, SubscribeFails, SubscribeReturns, RegisterStream, RegisterPanics, Reply,
           Feed, Pump, PumpReceive, PumpSend, PumpEnds, PumpStops, Writer, WriterTakes, WriterFails,
           WriterStops, Pinger, PingFails, PingerStops, ContextDone, outVars
  <2>3. QED
    BY <2>1, <2>2
<1>2. IInv /\ OrderInv /\ [Next]_vars => [\A s \in ServerStreams : got'[s] \in {got[s], got[s] + 1}]_vars
  BY <1>1
<1>3. QED
  BY <1>2, Invariance, OrderInvariance, PTL DEF Spec, StreamFramesAreGapless

-----------------------------------------------------------------------------
(* Port forwards.  A socket that is neither the session's nor an orphan has     *)
(* been told to close; as long as nobody reconnected too early, each but the    *)
(* one the session holds has reported it, and there is no orphan.             *)
OthersAreHungUp ==
  /\ session.ws # 0 => session.listed /\ dial[session.ws].ready # "unused"
  /\ \A k \in Dials \ orphaned : dial[k].ready \in {"connecting", "open"} => session.ws = k
SocketsAreTheSessions ==
  ~raced =>
    /\ session.ws # 0 => /\ session.listed /\ dial[session.ws].mine
                         /\ dial[session.ws].ready # "unused"
    /\ ~session.listed => \A k \in Dials : ~dial[k].mine
    /\ \A k \in Dials : dial[k].ready \in {"connecting", "open"} => session.ws = k
    /\ \A k \in Unreported : session.ws \in {0, k}
    /\ orphaned = {}

\* A handler runs on a connection only.
ForwardsHaveSockets ==
  \A k \in Dials : forward[k] # "none" => dial[k].ready \in {"open", "closing", "closed"}

\* What the records hold.
DialRecords == [ready : {"unused", "connecting", "open", "closing", "closed"},
                sent : Seq({"ready", "error", "ended"}), mine : BOOLEAN]
SessionRecords == [listed : BOOLEAN, state : {"none", "connecting", "running", "error", "ended"},
                   closed : BOOLEAN, err : BOOLEAN, ended : BOOLEAN, ws : {0} \cup Dials]

ForwardInv ==
  /\ raced \in BOOLEAN
  /\ session \in SessionRecords
  /\ dial \in [Dials -> DialRecords]
  /\ forward \in [Dials -> {"none", "dialling", "listening", "over"}]
  /\ ForwardsHaveSockets
  /\ SocketsAreTheSessions
  /\ OthersAreHungUp

LEMMA ForwardInitInv == ForwardInit => ForwardInv
<1> SUFFICES ASSUME ForwardInit PROVE ForwardInv
  OBVIOUS
<1>1. <<>> \in Seq({"ready", "error", "ended"})
  OBVIOUS
<1>2. dial \in [Dials -> DialRecords]
  BY <1>1 DEF ForwardInit, DialRecords
<1>3. session \in SessionRecords /\ session.ws = 0 /\ ~session.listed
  BY DEF ForwardInit, Unlisted, SessionRecords
<1>4. \A k \in Dials : dial[k].ready = "unused" /\ ~dial[k].mine /\ forward[k] = "none"
  BY DEF ForwardInit
<1>5. QED
  BY <1>2, <1>3, <1>4 DEF ForwardInit, ForwardInv, ForwardsHaveSockets, SocketsAreTheSessions, OthersAreHungUp, Unreported

LEMMA UnusedDialIsOne ==
  ASSUME UnusedDials # {} PROVE NextDial \in UnusedDials
<1> DEFINE R == OpToRel(<, Nat)
<1>0. IsWellFoundedOn(R, Nat)
  BY NatLessThanWellFounded
<1>1. UnusedDials \subseteq Nat
  BY DialsAssumption DEF UnusedDials, Dials
<1>2. PICK k \in UnusedDials : \A j \in UnusedDials : <<j, k>> \notin R
  <2> HIDE DEF R
  <2>1. QED
    BY <1>0, <1>1, WFMin
<1>3. \A j \in UnusedDials : ~(j < k)
  BY <1>1, <1>2 DEF OpToRel
<1>4. \A j \in UnusedDials : k <= j
  BY <1>1, <1>3
<1>5. QED
  BY <1>4 DEF NextDial

LEMMA HangUp ==
  ASSUME ForwardInv
  PROVE  /\ HungUp(dial) \in [Dials -> DialRecords]
         /\ \A k \in Dials :
              /\ HungUp(dial)[k].mine = dial[k].mine
              /\ k # session.ws => HungUp(dial)[k].ready = dial[k].ready
              /\ k = session.ws => HungUp(dial)[k].ready \in {"closing", "closed"}
              /\ dial[k].ready = "closed" => HungUp(dial)[k].ready = "closed"
<1>1. CASE session.ws = 0
  BY <1>1, DialsAssumption DEF ForwardInv, HungUp, Dials
<1>2. CASE session.ws # 0
  <2>1. session.ws \in Dials
    BY <1>2 DEF ForwardInv, SessionRecords
  <2>2. PICK w \in Dials : w = session.ws
    BY <2>1
  <2>3. PICK r : r = IF dial[w].ready = "closed" THEN "closed" ELSE "closing"
    OBVIOUS
  <2>4. HungUp(dial) = [dial EXCEPT ![w] = [@ EXCEPT !.ready = r]]
    BY <1>2, <2>2, <2>3 DEF HungUp, ForwardInv
  <2>5. dial[w] \in DialRecords
    BY DEF ForwardInv
  <2>6. [dial[w] EXCEPT !.ready = r] \in DialRecords
    BY <2>3, <2>5 DEF DialRecords
  <2>7. [dial[w] EXCEPT !.ready = r].mine = dial[w].mine /\ [dial[w] EXCEPT !.ready = r].ready = r
    BY <2>5 DEF DialRecords
  <2>8. QED
    BY <2>2, <2>3, <2>4, <2>6, <2>7 DEF ForwardInv
<1>3. QED
  BY <1>1, <1>2

LEMMA ConnectStep ==
  ASSUME ForwardInv, NEW d, ConnectFrom(d), UNCHANGED <<forward, orphaned>>,
         \A k \in Dials \ orphaned : d[k].ready \notin {"connecting", "open"},
         d \in [Dials -> DialRecords],
         \A k \in Dials : /\ d[k].mine = dial[k].mine
                          /\ dial[k].ready \in {"open", "closing", "closed"} =>
                               d[k].ready \in {"open", "closing", "closed"},
         raced' \in BOOLEAN, raced => raced',
         ~raced' => \A k \in Dials : ~d[k].mine \/ d[k].ready \in {"unused", "closed"},
         ~raced' => \A k \in Dials : d[k].ready \notin {"connecting", "open"}
  PROVE  ForwardInv'
<1>1. CASE /\ UnusedDials # {}
           /\ session' = [Unlisted EXCEPT !.listed = TRUE, !.state = "connecting", !.ws = NextDial]
           /\ dial' = [d EXCEPT ![NextDial] = [ready |-> "connecting", sent |-> <<>>, mine |-> TRUE]]
  <2>1. PICK n \in Dials : n = NextDial /\ dial[n].ready = "unused" /\ n # 0
    BY <1>1, UnusedDialIsOne, DialsAssumption DEF UnusedDials, Dials
  <2>2. session' = [listed |-> TRUE, state |-> "connecting", closed |-> FALSE, err |-> FALSE,
                    ended |-> FALSE, ws |-> n]
    BY <1>1, <2>1 DEF Unlisted
  <2>3. <<>> \in Seq({"ready", "error", "ended"})
    OBVIOUS
  <2>4. /\ dial' \in [Dials -> DialRecords]
        /\ dial'[n].ready = "connecting" /\ dial'[n].mine
        /\ \A k \in Dials \ {n} : dial'[k] = d[k]
    BY <1>1, <2>1, <2>3 DEF DialRecords
  <2>5. ForwardsHaveSockets'
    BY <2>1, <2>4 DEF ForwardInv, ForwardsHaveSockets
  <2>6. SocketsAreTheSessions'
    BY <2>1, <2>2, <2>4 DEF ForwardInv, SocketsAreTheSessions, Unreported
  <2>7. session' \in SessionRecords
    BY <2>2 DEF SessionRecords
  <2>8. OthersAreHungUp'
    BY <2>1, <2>2, <2>4 DEF OthersAreHungUp
  <2>9. QED
    BY <2>4, <2>5, <2>6, <2>7, <2>8 DEF ForwardInv
<1>2. CASE /\ session' = [Unlisted EXCEPT !.listed = TRUE, !.state = "error", !.err = TRUE, !.ended = TRUE]
           /\ dial' = d
  <2>1. session' = [listed |-> TRUE, state |-> "error", closed |-> FALSE, err |-> TRUE,
                    ended |-> TRUE, ws |-> 0]
    BY <1>2 DEF Unlisted
  <2>2. session' \in SessionRecords /\ session'.listed /\ session'.ws = 0
    BY <2>1 DEF SessionRecords
  <2>3. ForwardsHaveSockets'
    BY <1>2 DEF ForwardInv, ForwardsHaveSockets
  <2>4. SocketsAreTheSessions'
    BY <1>2, <2>2 DEF SocketsAreTheSessions, Unreported, ForwardInv
  <2>5. OthersAreHungUp'
    BY <1>2, <2>2 DEF OthersAreHungUp
  <2>6. QED
    BY <1>2, <2>2, <2>3, <2>4, <2>5 DEF ForwardInv
<1>3. QED
  BY <1>1, <1>2 DEF ConnectFrom

LEMMA ForwardStep == ForwardInv /\ [ForwardNext]_forwardVars => ForwardInv'
<1> SUFFICES ASSUME ForwardInv, [ForwardNext]_forwardVars PROVE ForwardInv'
  OBVIOUS
<1> USE DialsAssumption
<1>1. CASE OpenForward
  <2>1. /\ \A k \in Dials : ~raced => ~dial[k].mine /\ dial[k].ready \notin {"connecting", "open"}
        /\ \A k \in Dials \ orphaned : dial[k].ready \notin {"connecting", "open"}
    BY <1>1 DEF OpenForward, ForwardInv, SocketsAreTheSessions, OthersAreHungUp, Dials
  <2>2. ConnectFrom(dial) /\ UNCHANGED <<forward, orphaned, raced>>
    BY <1>1 DEF OpenForward, serverVars, histories
  <2>3. QED
    BY <2>1, <2>2, ConnectStep DEF ForwardInv
<1>2. CASE ReconnectForward
  <2>1. /\ raced' = (raced \/ Unreported # {}) /\ ConnectFrom(HungUp(dial))
        /\ UNCHANGED <<forward, orphaned>>
    BY <1>2 DEF ReconnectForward, serverVars
  <2>7. \A k \in Dials \ orphaned : HungUp(dial)[k].ready \notin {"connecting", "open"}
    BY HangUp DEF ForwardInv, OthersAreHungUp
  <2>2. ~raced' => \A k \in Dials : ~dial[k].mine \/ dial[k].ready \in {"unused", "closed"}
    BY <2>1 DEF Unreported, ForwardInv, DialRecords
  <2>3. ~raced' => \A k \in Dials : /\ ~HungUp(dial)[k].mine \/ HungUp(dial)[k].ready \in {"unused", "closed"}
                                    /\ HungUp(dial)[k].ready \notin {"connecting", "open"}
    <3> SUFFICES ASSUME ~raced', NEW k \in Dials
                 PROVE  /\ ~HungUp(dial)[k].mine \/ HungUp(dial)[k].ready \in {"unused", "closed"}
                        /\ HungUp(dial)[k].ready \notin {"connecting", "open"}
      OBVIOUS
    <3>1. CASE k = session.ws
      <4>1. dial[k].mine
        BY <3>1, <2>1 DEF ForwardInv, SocketsAreTheSessions, Dials
      <4>2. dial[k].ready \in {"unused", "closed"}
        BY <4>1, <2>2
      <4>3. dial[k].ready = "closed"
        BY <3>1, <4>2, <2>1 DEF ForwardInv, SocketsAreTheSessions, Dials
      <4>4. QED
        BY <4>3, HangUp
    <3>2. CASE k # session.ws
      BY <3>2, <2>1, <2>2, HangUp DEF ForwardInv, SocketsAreTheSessions
    <3>3. QED
      BY <3>1, <3>2
  <2>4. \A k \in Dials : dial[k].ready \in {"open", "closing", "closed"} =>
                           HungUp(dial)[k].ready \in {"open", "closing", "closed"}
    BY HangUp
  <2>5. raced' \in BOOLEAN
    BY <2>1
  <2>8. QED
    BY <2>1, <2>3, <2>4, <2>5, <2>7, HangUp, ConnectStep
<1>3. CASE StopForward
  <2>1. /\ dial' = HungUp(dial) /\ UNCHANGED <<forward, orphaned, raced>>
        /\ session' \in SessionRecords
        /\ session'.ws = 0 /\ session'.listed
    BY <1>3 DEF StopForward, CloseSession, ForwardInv, SessionRecords, serverVars, histories
  <2>2. ForwardsHaveSockets'
    BY <2>1, HangUp DEF ForwardsHaveSockets, ForwardInv
  <2>3. SocketsAreTheSessions' /\ OthersAreHungUp'
    BY <2>1, HangUp DEF SocketsAreTheSessions, OthersAreHungUp, ForwardInv, Unreported
  <2>4. QED
    BY <2>1, <2>2, <2>3, HangUp DEF ForwardInv
<1>4. CASE RemoveForward
  <2>1. /\ dial' = [k \in Dials |-> [HungUp(dial)[k] EXCEPT !.mine = FALSE]]
        /\ UNCHANGED <<forward, orphaned, raced>>
        /\ session' \in SessionRecords
        /\ session'.ws = 0
    BY <1>4 DEF RemoveForward, Unlisted, SessionRecords, serverVars, histories
  <2>2. /\ dial' \in [Dials -> DialRecords]
        /\ \A k \in Dials : ~dial'[k].mine /\ dial'[k].ready = HungUp(dial)[k].ready
    <3>1. \A d \in DialRecords : /\ [d EXCEPT !.mine = FALSE] \in DialRecords
                                 /\ ~[d EXCEPT !.mine = FALSE].mine
                                 /\ [d EXCEPT !.mine = FALSE].ready = d.ready
      BY DEF DialRecords
    <3>2. QED
      BY <2>1, <3>1, HangUp
  <2>3. ForwardsHaveSockets'
    BY <2>1, <2>2, HangUp DEF ForwardsHaveSockets, ForwardInv
  <2>4. SocketsAreTheSessions' /\ OthersAreHungUp'
    BY <2>1, <2>2, HangUp DEF SocketsAreTheSessions, OthersAreHungUp, ForwardInv, Unreported
  <2>5. QED
    BY <2>1, <2>2, <2>3, <2>4 DEF ForwardInv
<1>5. ASSUME NEW k \in Dials, ForwardMessage(k)
      PROVE  ForwardInv'
  <2>1. /\ dial' = [dial EXCEPT ![k].sent = Tail(@)] /\ UNCHANGED <<forward, orphaned, raced>>
        /\ dial[k].sent \in Seq({"ready", "error", "ended"}) /\ dial[k].sent # <<>>
    BY <1>5 DEF ForwardMessage, ForwardInv, DialRecords, serverVars, histories
  <2>2. Tail(dial[k].sent) \in Seq({"ready", "error", "ended"})
    BY <2>1
  <2>3. /\ dial' \in [Dials -> DialRecords]
        /\ \A j \in Dials : dial'[j].ready = dial[j].ready /\ dial'[j].mine = dial[j].mine
    BY <2>1, <2>2 DEF ForwardInv, DialRecords
  <2>4. /\ session' \in SessionRecords
        /\ session'.ws = session.ws /\ session'.listed = session.listed
    BY <1>5 DEF ForwardMessage, Heard, ForwardInv, SessionRecords
  <2>5. ForwardsHaveSockets'
    BY <2>1, <2>3 DEF ForwardsHaveSockets, ForwardInv
  <2>6. SocketsAreTheSessions' /\ OthersAreHungUp'
    BY <2>1, <2>3, <2>4 DEF SocketsAreTheSessions, OthersAreHungUp, ForwardInv, SessionRecords, Unreported, Dials
  <2>7. QED
    BY <2>1, <2>3, <2>4, <2>5, <2>6 DEF ForwardInv
<1>6. ASSUME NEW k \in Dials, SocketClosed(k)
      PROVE  ForwardInv'
  <2>1. /\ dial' = [dial EXCEPT ![k].ready = "closed"] /\ UNCHANGED <<forward, raced>>
        /\ dial[k].ready \in {"connecting", "open", "closing"}
        /\ orphaned' = IF dial[k].mine THEN orphaned \cup ({session.ws} \ {0, k}) ELSE orphaned
    BY <1>6 DEF SocketClosed, serverVars
  <2>2. /\ dial' \in [Dials -> DialRecords]
        /\ \A j \in Dials : dial'[j].mine = dial[j].mine
        /\ \A j \in Dials \ {k} : dial'[j].ready = dial[j].ready
        /\ dial'[k].ready = "closed"
    BY <2>1 DEF ForwardInv, DialRecords
  <2>3. /\ session' \in SessionRecords
        /\ session'.listed = session.listed
        /\ session'.ws = IF dial[k].mine THEN 0 ELSE session.ws
    <3>1. PICK failed \in {dial[k].ready = "connecting", FALSE} :
            LET s == IF failed THEN [session EXCEPT !.state = "error", !.err = TRUE] ELSE session
            IN session' = IF ~dial[k].mine THEN session
                          ELSE [s EXCEPT !.ws = 0, !.ended = TRUE,
                                !.state = IF @ = "error" \/ (@ # "running" /\ s.err) THEN "error" ELSE "ended"]
      BY <1>6 DEF SocketClosed
    <3>2. PICK s : s = IF failed THEN [session EXCEPT !.state = "error", !.err = TRUE] ELSE session
      OBVIOUS
    <3>3. session' = IF ~dial[k].mine THEN session
                     ELSE [s EXCEPT !.ws = 0, !.ended = TRUE,
                                !.state = IF @ = "error" \/ (@ # "running" /\ s.err) THEN "error" ELSE "ended"]
      BY <3>1, <3>2
    <3>4. s \in SessionRecords /\ s.listed = session.listed
      BY <3>2 DEF ForwardInv, SessionRecords
    <3>5. CASE dial[k].mine
      BY <3>3, <3>4, <3>5 DEF SessionRecords
    <3>6. CASE ~dial[k].mine
      BY <3>3, <3>4, <3>6 DEF ForwardInv
    <3>7. QED
      BY <3>5, <3>6
  <2>4. ForwardsHaveSockets'
    BY <2>1, <2>2 DEF ForwardsHaveSockets, ForwardInv
  <2>5. SocketsAreTheSessions'
    <3>1. CASE dial[k].mine
      BY <3>1, <2>1, <2>2, <2>3 DEF SocketsAreTheSessions, ForwardInv, Unreported, Dials
    <3>2. CASE ~dial[k].mine
      BY <3>2, <2>1, <2>2, <2>3 DEF SocketsAreTheSessions, ForwardInv, Unreported, Dials
    <3>3. QED
      BY <3>1, <3>2
  <2>6. OthersAreHungUp'
    BY <2>1, <2>2, <2>3 DEF OthersAreHungUp, ForwardInv, SessionRecords, Dials
  <2>7. QED
    BY <2>1, <2>2, <2>3, <2>4, <2>5, <2>6 DEF ForwardInv
<1>7. ASSUME NEW k \in Dials, Upgraded(k) \/ NoDialer(k)
      PROVE  ForwardInv'
  <2>0. PICK f \in {"dialling", "over"}, h \in {"waits", "none"}, m \in {<<>>, <<"error">>} : UpgradeTo(k, f, h, m)
    BY <1>7 DEF Upgraded, NoDialer
  <2>1. PICK r : r = IF dial[k].ready = "connecting" THEN "open" ELSE dial[k].ready
    OBVIOUS
  <2>2. /\ dial' = [dial EXCEPT ![k] = [dial[k] EXCEPT !.ready = r, !.sent = m]]
        /\ dial[k].ready \in {"connecting", "closing"} /\ dial[k] \in DialRecords
        /\ m \in Seq({"ready", "error", "ended"})
    <3>1. dial[k].ready \in {"connecting", "closing"} /\ dial[k] \in DialRecords
      BY <2>0 DEF UpgradeTo, ForwardInv
    <3>2. dial' = [dial EXCEPT ![k] = [dial[k] EXCEPT !.ready = r, !.sent = m]]
      BY <2>0, <2>1 DEF UpgradeTo
    <3>3. m \in Seq({"ready", "error", "ended"})
      <4>1. <<>> \in Seq({"ready", "error", "ended"}) /\ <<"error">> \in Seq({"ready", "error", "ended"})
        OBVIOUS
      <4>2. QED
        BY <4>1
    <3>4. QED
      BY <3>1, <3>2, <3>3
  <2>3. /\ [dial[k] EXCEPT !.ready = r, !.sent = m] \in DialRecords
        /\ [dial[k] EXCEPT !.ready = r, !.sent = m].mine = dial[k].mine
        /\ [dial[k] EXCEPT !.ready = r, !.sent = m].ready = r
    BY <2>1, <2>2 DEF DialRecords
  <2>4. /\ dial' \in [Dials -> DialRecords]
        /\ \A j \in Dials : dial'[j].mine = dial[j].mine
        /\ \A j \in Dials \ {k} : dial'[j].ready = dial[j].ready
        /\ \/ dial[k].ready = "connecting" /\ dial'[k].ready = "open"
           \/ dial[k].ready = "closing" /\ dial'[k].ready = "closing"
    BY <2>1, <2>2, <2>3 DEF ForwardInv
  <2>5. forward' = [forward EXCEPT ![k] = f] /\ UNCHANGED <<session, orphaned, raced>>
    BY <2>0 DEF UpgradeTo, histories
  <2>6. ForwardsHaveSockets'
    BY <2>4, <2>5 DEF ForwardsHaveSockets, ForwardInv
  <2>7. SocketsAreTheSessions' /\ OthersAreHungUp'
    BY <2>4, <2>5 DEF SocketsAreTheSessions, OthersAreHungUp, ForwardInv, SessionRecords, Unreported, Dials
  <2>8. QED
    BY <2>4, <2>5, <2>6, <2>7 DEF ForwardInv
<1>8. ASSUME NEW k \in Dials, NEW m \in {"ready", "ended"}, Tell(k, m),
             UNCHANGED <<session, orphaned, raced>>, forward' \in [Dials -> {"none", "dialling", "listening", "over"}],
             \A j \in Dials : forward'[j] # "none" => forward[j] # "none"
      PROVE  ForwardInv'
  <2>1. dial[k].sent \in Seq({"ready", "error", "ended"})
    BY DEF ForwardInv, DialRecords
  <2>2. Append(dial[k].sent, m) \in Seq({"ready", "error", "ended"})
    BY <2>1, <1>8
  <2>3. /\ dial' \in [Dials -> DialRecords]
        /\ \A j \in Dials : dial'[j].ready = dial[j].ready /\ dial'[j].mine = dial[j].mine
    <3>1. PICK q \in Seq({"ready", "error", "ended"}) :
            dial' = [dial EXCEPT ![k] = [@ EXCEPT !.sent = q]]
      BY <1>8, <2>1, <2>2 DEF Tell, ForwardInv
    <3>2. dial[k] \in DialRecords
      BY DEF ForwardInv
    <3>3. /\ [dial[k] EXCEPT !.sent = q] \in DialRecords
          /\ [dial[k] EXCEPT !.sent = q].ready = dial[k].ready
          /\ [dial[k] EXCEPT !.sent = q].mine = dial[k].mine
      BY <3>2 DEF DialRecords
    <3>4. QED
      BY <3>1, <3>3 DEF ForwardInv
  <2>4. ForwardsHaveSockets'
    BY <1>8, <2>3 DEF ForwardsHaveSockets, ForwardInv
  <2>5. SocketsAreTheSessions' /\ OthersAreHungUp'
    BY <1>8, <2>3 DEF SocketsAreTheSessions, OthersAreHungUp, ForwardInv, SessionRecords, Unreported, Dials
  <2>6. QED
    BY <1>8, <2>3, <2>4, <2>5 DEF ForwardInv
<1>9. ASSUME UNCHANGED <<session, dial, orphaned, raced>>,
             forward' \in [Dials -> {"none", "dialling", "listening", "over"}],
             \A j \in Dials : forward'[j] # "none" => forward[j] # "none"
      PROVE  ForwardInv'
  BY <1>9 DEF ForwardInv, ForwardsHaveSockets, SocketsAreTheSessions, OthersAreHungUp, Unreported, Dials
<1>10. ASSUME NEW k \in Dials, Bound(k) \/ ReaderStops(k)
       PROVE  ForwardInv'
  <2>1. /\ forward[k] # "none" /\ UNCHANGED <<session, dial, orphaned, raced>>
        /\ \E f \in {"listening", "over"} : forward' = [forward EXCEPT ![k] = f]
    BY <1>10 DEF Bound, ReaderStops, histories
  <2>2. QED
    BY <1>9, <2>1 DEF ForwardInv
<1>11. ASSUME NEW k \in Dials, TellPort(k)
       PROVE  ForwardInv'
  <2>1. Tell(k, "ready") \/ UNCHANGED dial
    BY <1>11 DEF TellPort
  <2>2. UNCHANGED <<session, forward, orphaned, raced>>
    BY <1>11 DEF TellPort, histories
  <2>3. forward' \in [Dials -> {"none", "dialling", "listening", "over"}]
    BY <2>2 DEF ForwardInv
  <2>4. QED
    BY <1>8, <1>9, <2>1, <2>2, <2>3
<1>12. ASSUME NEW k \in Dials, ForwardFails(k)
       PROVE  ForwardInv'
  <2>1. /\ forward[k] # "none" /\ UNCHANGED <<session, orphaned, raced>> /\ Tell(k, "ended")
        /\ forward' = [forward EXCEPT ![k] = "over"]
    BY <1>12 DEF ForwardFails, histories
  <2>2. QED
    BY <1>8, <2>1 DEF ForwardInv
<1>13. CASE UNCHANGED forwardVars
  <2>1. UNCHANGED <<session, dial, forward, orphaned, raced>>
    BY <1>13 DEF forwardVars, serverVars, histories
  <2>2. QED
    BY <1>9, <2>1 DEF ForwardInv
<1>14. QED
  BY <1>1, <1>2, <1>3, <1>4, <1>5, <1>6, <1>7, <1>10, <1>11, <1>12, <1>13 DEF ForwardNext, SocketStep

\* A forward that runs on the backend host is the session's or has been told to
\* stop, or it is an orphan, which the late close of the socket before it took
\* away from the session; and as long as nobody reconnects before the last socket
\* has reported its close, no number of dials makes an orphan.
THEOREM ForwardsHaveAnOwner == ForwardSpec => []ForwardIsOwned
<1>1. ForwardInv => ForwardIsOwned
  BY DEF ForwardInv, ForwardsHaveSockets, SocketsAreTheSessions, OthersAreHungUp, ForwardIsOwned
<1>2. QED
  BY <1>1, ForwardInitInv, ForwardStep, PTL DEF ForwardSpec
=============================================================================
