------------------------- MODULE ResourceListProofs -------------------------
(***************************************************************************)
(* Proofs about ClusterStream, for any number of stream objects, and about *)
(* ResourceList over it, for any finite set of views and any namespaces    *)
(* and objects.                                                            *)
(*                                                                         *)
(* Of the streams: Healthy(r) says of one object what its handlers         *)
(* preserve whatever the rest of the page does; the handlers are lemmas    *)
(* about records.  IInv adds what relates an object to the pool, the hook  *)
(* and the server.  Of the lists: the references of the views are counted  *)
(* (Counted, Kept); the frames under way are read backwards (Exact): the   *)
(* last frame that tells of an object tells the truth.                     *)
(***************************************************************************)
EXTENDS ResourceList, FiniteSetTheorems, TLAPS

USE DEF StreamState

\* Socket, timer and question, as Boolean conditions.
OnePursuit(r) ==
  \/ r.socket # "none" /\ ~r.timer /\ r.check = "no"
  \/ r.socket = "none" /\ r.timer /\ r.check = "no"
  \/ r.socket = "none" /\ ~r.timer /\ r.check # "no"

Healthy(r) ==
  /\ r \in StreamState
  /\ ~r.dead => OnePursuit(r)
  /\ r.dead => ~r.timer /\ r.socket \notin {"connecting", "open"}

\* The set form used by the property says the same.
LEMMA PursuitsAreOne ==
  ASSUME NEW r \in StreamState, OnePursuit(r)
  PROVE  \E p \in {"socket", "timer", "check"} : Pursuits(r) = {p}
<1>1. CASE r.socket # "none" /\ ~r.timer /\ r.check = "no"
  <2>1. Pursuits(r) = {"socket"}
    BY <1>1 DEF Pursuits
  <2> QED
    BY <2>1
<1>2. CASE r.socket = "none" /\ r.timer /\ r.check = "no"
  <2>1. Pursuits(r) = {"timer"}
    BY <1>2 DEF Pursuits
  <2> QED
    BY <2>1
<1>3. CASE r.socket = "none" /\ ~r.timer /\ r.check # "no"
  <2>1. Pursuits(r) = {"check"}
    BY <1>3 DEF Pursuits
  <2> QED
    BY <2>1
<1> QED
  BY <1>1, <1>2, <1>3 DEF OnePursuit

-----------------------------------------------------------------------------
(* One object.                                                             *)

\* The constructor's object is connecting and nothing else.
LEMMA NewIsHealthy == Healthy(NewStream) /\ ~NewStream.connected /\ ~NewStream.dead
BY DEF Healthy, NewStream, OnePursuit

\* A socket that opens or fails stays the one pursuit.
LEMMA SocketStaysHealthy ==
  ASSUME NEW r, Healthy(r), NEW q,
         \/ r.socket = "connecting" /\ q = [r EXCEPT !.socket = "open", !.everConnected = TRUE, !.connected = TRUE]
         \/ r.socket \in {"connecting", "open"} /\ q = [r EXCEPT !.socket = "closing"]
  PROVE  Healthy(q) /\ q.dead = r.dead /\ q.check = r.check
BY DEF Healthy, OnePursuit

\* onclose hands over to the timer or to checkAlive, never to both.
LEMMA ClosedIsHealthy ==
  ASSUME NEW r, Healthy(r), r.socket = "closing", NEW fast \in BOOLEAN
  PROVE  /\ Healthy(Closed(r, fast)) /\ Closed(r, fast).dead = r.dead
         /\ ~Closed(r, fast).connected /\ (Closed(r, fast).check \in {r.check, "sent"})
BY DEF Healthy, OnePursuit, Closed, Rescheduled

\* An answer keeps the question the one pursuit, its continuation ends it.
LEMMA CheckStaysHealthy ==
  ASSUME NEW r, Healthy(r), r.check # "no", NEW answer \in {"gone", "retry"}
  PROVE  /\ Healthy([r EXCEPT !.check = answer])
         /\ Healthy(Rescheduled([r EXCEPT !.check = "no"]))
         /\ Healthy(Dead([r EXCEPT !.check = "no"]))
BY DEF Healthy, OnePursuit, Rescheduled, Dead

\* The timer of a live object becomes its socket.
LEMMA ReconnectedIsHealthy ==
  ASSUME NEW r, Healthy(r), r.timer
  PROVE  /\ Healthy(Reconnected(r)) /\ Reconnected(r).dead = r.dead
         /\ Reconnected(r).check = r.check /\ Reconnected(r).connected = r.connected
BY DEF Healthy, OnePursuit, Reconnected

\* close() leaves a dead object that will not connect.
LEMMA ShutIsHealthy ==
  ASSUME NEW r, Healthy(r)
  PROVE  Healthy(Shut(r)) /\ Shut(r).dead /\ Shut(r).check = r.check
BY DEF Healthy, OnePursuit, Shut

-----------------------------------------------------------------------------
(* The invariant.                                                          *)

\* Only the pooled object has not given up; objects not yet created are as
\* their constructor makes them.
PoolOwns ==
  /\ \A s \in born : ~stream[s].dead => s = pool
  /\ \A s \in Streams \ born : stream[s] = NewStream

\* A question is answered "gone" only in the life of a removal.
AbsenceRecorded ==
  /\ server = "absent" => absentFor = born
  /\ \A s \in born : stream[s].check = "gone" => s \in absentFor

IInv ==
  /\ StreamTypeOK
  /\ \A s \in born : Healthy(stream[s])
  /\ PoolOwns
  /\ AbsenceRecorded
  /\ BadgeShowsPool
  /\ OnlyRemovalKills

LEMMA InitIInv == StreamInit => IInv
<1> SUFFICES ASSUME StreamInit PROVE IInv
  OBVIOUS
<1>1. NewStream \in StreamState
  BY NewIsHealthy DEF Healthy
<1>2. StreamTypeOK
  BY <1>1 DEF StreamInit, StreamTypeOK, ServerState
<1>3. PoolOwns /\ AbsenceRecorded /\ BadgeShowsPool /\ OnlyRemovalKills
  BY DEF StreamInit, PoolOwns, AbsenceRecorded, BadgeShowsPool, OnlyRemovalKills
<1>4. \A s \in born : Healthy(stream[s])
  BY DEF StreamInit
<1> QED
  BY <1>2, <1>3, <1>4 DEF IInv

\* A handler of one object keeps the invariant if it keeps the object healthy,
\* tells the hook, and gives up only on a name that was absent.
LEMMA ObjectStep ==
  ASSUME IInv, NEW s \in born, NEW q, Healthy(q),
         stream' = [stream EXCEPT ![s] = q],
         badge' = BadgeAfter(s, q.connected),
         UNCHANGED server, UnchangedPool,
         q.check = "gone" => s \in absentFor,
         q.dead => stream[s].dead \/ s \in absentFor,
         stream[s].dead => q.dead
  PROVE  IInv'
<1>0. born \subseteq Streams /\ stream \in [Streams -> StreamState] /\ q \in StreamState
  BY DEF IInv, StreamTypeOK, Healthy
<1>1. stream'[s] = q /\ \A t \in Streams \ {s} : stream'[t] = stream[t]
  BY <1>0
<1>2. StreamTypeOK'
  <2>1. stream' \in [Streams -> StreamState]
    BY <1>0
  <2>2. badge' \in BOOLEAN
    BY <1>0 DEF BadgeAfter, IInv, StreamTypeOK
  <2> QED
    BY <2>1, <2>2 DEF IInv, StreamTypeOK, UnchangedPool
<1>3. \A t \in born' : Healthy(stream'[t])
  BY <1>0, <1>1 DEF IInv, UnchangedPool
<1>4. PoolOwns'
  BY <1>0, <1>1 DEF IInv, PoolOwns, UnchangedPool
<1>5. AbsenceRecorded'
  BY <1>0, <1>1 DEF IInv, AbsenceRecorded, UnchangedPool
<1>6. BadgeShowsPool'
  BY <1>0, <1>1, NoStreamAssumption DEF IInv, BadgeShowsPool, UnchangedPool, BadgeAfter, StreamTypeOK
<1>7. OnlyRemovalKills'
  BY <1>0, <1>1, NoStreamAssumption DEF IInv, OnlyRemovalKills, UnchangedPool, StreamTypeOK
<1> QED
  BY <1>2, <1>3, <1>4, <1>5, <1>6, <1>7 DEF IInv

\* The hook hears nothing new from a handler that leaves connected alone.
LEMMA BadgeStays ==
  ASSUME IInv, NEW s \in born
  PROVE  badge = BadgeAfter(s, stream[s].connected)
BY NoStreamAssumption DEF IInv, BadgeShowsPool, BadgeAfter, StreamTypeOK

\* The events of an object's socket, timer and question.
LEMMA EventsKeepIInv ==
  ASSUME IInv, NEW s \in Streams,
         \/ OnOpen(s) \/ SocketFails(s) \/ OnClose(s) \/ CheckAnswered(s)
         \/ CheckRetries(s) \/ DeclareDead(s) \/ ReconnectTimer(s)
  PROVE  IInv'
<1> DEFINE r == stream[s]
<1>0. s \in born
  BY DEF OnOpen, SocketFails, OnClose, CheckAnswered, CheckRetries, DeclareDead, ReconnectTimer
<1>1. Healthy(r) /\ r \in StreamState /\ stream \in [Streams -> StreamState]
  BY <1>0 DEF IInv, StreamTypeOK
<1>2. r.check = "gone" => s \in absentFor
  BY <1>0 DEF IInv, AbsenceRecorded
<1>3. CASE OnOpen(s)
  <2> DEFINE q == [r EXCEPT !.socket = "open", !.everConnected = TRUE, !.connected = TRUE]
  <2>1. stream' = [stream EXCEPT ![s] = q]
    BY <1>3, <1>1 DEF OnOpen
  <2>2. Healthy(q) /\ q.dead = r.dead /\ q.check = r.check /\ q.connected
    BY <1>3, <1>1, SocketStaysHealthy DEF OnOpen
  <2>3. badge' = BadgeAfter(s, q.connected)
    BY <1>3, <1>1 DEF OnOpen
  <2> HIDE DEF q
  <2> QED
    BY <1>0, <1>2, <1>3, <2>1, <2>2, <2>3, ObjectStep DEF OnOpen
<1>4. CASE SocketFails(s)
  <2> DEFINE q == [r EXCEPT !.socket = "closing"]
  <2>1. stream' = [stream EXCEPT ![s] = q]
    BY <1>4, <1>1 DEF SocketFails
  <2>2. Healthy(q) /\ q.dead = r.dead /\ q.check = r.check /\ q.connected = r.connected
    BY <1>4, <1>1, SocketStaysHealthy DEF SocketFails
  <2>3. badge' = BadgeAfter(s, q.connected)
    BY <1>0, <1>4, <2>2, BadgeStays DEF SocketFails, BadgeAfter
  <2> HIDE DEF q
  <2> QED
    BY <1>0, <1>2, <1>4, <2>1, <2>2, <2>3, ObjectStep DEF SocketFails
<1>5. CASE OnClose(s)
  <2>1. PICK fast \in BOOLEAN : stream' = [stream EXCEPT ![s] = Closed(r, fast)]
    BY <1>5 DEF OnClose
  <2>2. /\ Healthy(Closed(r, fast)) /\ Closed(r, fast).dead = r.dead
        /\ ~Closed(r, fast).connected /\ Closed(r, fast).check \in {r.check, "sent"}
    BY <1>5, <1>1, ClosedIsHealthy DEF OnClose
  <2>3. Closed(r, fast).connected = FALSE
    BY <2>2 DEF Healthy
  <2>4. badge' = BadgeAfter(s, Closed(r, fast).connected)
    BY <1>5, <2>3 DEF OnClose
  <2> QED
    BY <1>0, <1>2, <1>5, <2>1, <2>2, <2>4, ObjectStep DEF OnClose
<1>6. CASE CheckAnswered(s)
  <2>1. PICK answer \in {"gone", "retry"} :
          /\ answer = "gone" => ~Listed(server)
          /\ stream' = [stream EXCEPT ![s].check = answer]
    BY <1>6 DEF CheckAnswered
  <2> DEFINE q == [r EXCEPT !.check = answer]
  <2>2. stream' = [stream EXCEPT ![s] = q]
    BY <2>1
  <2>3. r.check # "no"
    BY <1>6 DEF CheckAnswered
  <2>4. Healthy(q)
    BY <2>3, <1>1, CheckStaysHealthy
  <2>5. q.dead = r.dead /\ q.check = answer /\ q.connected = r.connected
    BY <1>1
  <2>6. answer = "gone" => s \in absentFor
    BY <1>0, <2>1 DEF Listed, IInv, AbsenceRecorded
  <2>7. badge' = BadgeAfter(s, q.connected)
    BY <1>0, <1>6, <2>5, BadgeStays DEF CheckAnswered, BadgeAfter
  <2> HIDE DEF q
  <2> QED
    BY <1>0, <1>6, <2>2, <2>4, <2>5, <2>6, <2>7, ObjectStep DEF CheckAnswered
<1>7. CASE CheckRetries(s)
  <2> DEFINE q == Rescheduled([r EXCEPT !.check = "no"])
  <2>1. stream' = [stream EXCEPT ![s] = q] /\ r.check # "no"
    BY <1>7 DEF CheckRetries
  <2>2. Healthy(q)
    BY <2>1, <1>1, CheckStaysHealthy
  <2>3. q.dead = r.dead /\ q.check = "no" /\ q.connected = r.connected
    BY <1>1 DEF Rescheduled
  <2>4. badge' = BadgeAfter(s, q.connected)
    BY <1>0, <1>7, <2>3, BadgeStays DEF CheckRetries, BadgeAfter
  <2> HIDE DEF q
  <2> QED
    BY <1>0, <1>7, <2>1, <2>2, <2>3, <2>4, ObjectStep DEF CheckRetries
<1>8. CASE DeclareDead(s)
  <2> DEFINE q == Dead([r EXCEPT !.check = "no"])
  <2>1. stream' = [stream EXCEPT ![s] = q] /\ r.check = "gone"
    BY <1>8 DEF DeclareDead
  <2>2. Healthy(q)
    BY <2>1, <1>1, CheckStaysHealthy
  <2>3. q.dead /\ q.check = "no" /\ q.connected = FALSE
    BY <1>1 DEF Dead
  <2>4. badge' = BadgeAfter(s, q.connected)
    BY <1>8, <2>3 DEF DeclareDead
  <2> HIDE DEF q
  <2> QED
    BY <1>0, <1>2, <1>8, <2>1, <2>2, <2>3, <2>4, ObjectStep DEF DeclareDead
<1>9. CASE ReconnectTimer(s)
  <2> DEFINE q == Reconnected(r)
  <2>1. stream' = [stream EXCEPT ![s] = q] /\ r.timer
    BY <1>9 DEF ReconnectTimer
  <2>2. Healthy(q) /\ q.dead = r.dead /\ q.check = r.check /\ q.connected = r.connected
    BY <2>1, <1>1, ReconnectedIsHealthy
  <2>3. badge' = BadgeAfter(s, q.connected)
    BY <1>0, <1>9, <2>2, BadgeStays DEF ReconnectTimer, BadgeAfter
  <2> HIDE DEF q
  <2> QED
    BY <1>0, <1>2, <1>9, <2>1, <2>2, <2>3, ObjectStep DEF ReconnectTimer
<1> QED
  BY <1>3, <1>4, <1>5, <1>6, <1>7, <1>8, <1>9

\* A new object enters an empty pool, that is when every object has given up.
LEMMA CreateKeepsIInv ==
  ASSUME IInv, NEW s \in Streams, Create(s), UNCHANGED <<server, stream>>,
         \A t \in born : stream[t].dead,
         hook' \in {NoStream, s}, hook' = s => badge' = FALSE, badge' \in BOOLEAN,
         swept' \in BOOLEAN
  PROVE  IInv'
<1>1. stream[s] = NewStream /\ s \notin born /\ born' = born \cup {s} /\ pool' = s
  BY DEF Create, IInv, PoolOwns
<1>2. StreamTypeOK'
  BY <1>1 DEF Create, IInv, StreamTypeOK
<1>3. \A t \in born' : Healthy(stream'[t])
  BY <1>1, NewIsHealthy DEF IInv
<1>4. PoolOwns'
  BY <1>1 DEF IInv, PoolOwns
<1>5. AbsenceRecorded'
  <2>1. stream[s].check = "no"
    BY <1>1 DEF NewStream
  <2>2. absentFor' = IF server = "absent" THEN absentFor \cup {s} ELSE absentFor
    BY DEF Create
  <2> QED
    BY <1>1, <2>1, <2>2 DEF IInv, AbsenceRecorded
<1>6. BadgeShowsPool'
  <2>1. stream[s].connected = FALSE
    BY <1>1 DEF NewStream
  <2> QED
    BY <1>1, <2>1 DEF BadgeShowsPool
<1>7. OnlyRemovalKills'
  BY <1>1, NewIsHealthy DEF OnlyRemovalKills
<1> QED
  BY <1>2, <1>3, <1>4, <1>5, <1>6, <1>7 DEF IInv

LEMMA GetStreamKeepsIInv ==
  ASSUME IInv, GetStream
  PROVE  IInv'
<1>1. PICK s \in Streams : Create(s)
  BY DEF GetStream
<1>2. pool = NoStream /\ UNCHANGED <<server, stream, hook, badge, swept>>
  BY DEF GetStream
<1>3. hook = NoStream
  BY <1>2 DEF IInv, BadgeShowsPool
<1>4. \A t \in born : stream[t].dead
  BY <1>2, NoStreamAssumption DEF IInv, PoolOwns, StreamTypeOK
<1>5. badge' \in BOOLEAN /\ swept' \in BOOLEAN
  BY <1>2 DEF IInv, StreamTypeOK
<1> QED
  BY <1>1, <1>2, <1>3, <1>4, <1>5, NoStreamAssumption, CreateKeepsIInv

LEMMA HookKeepsIInv ==
  ASSUME IInv, MountHook \/ UnmountHook
  PROVE  IInv'
<1>1. CASE MountHook /\ pool # NoStream
  <2>1. /\ hook' = pool /\ badge' = stream[pool].connected
        /\ UNCHANGED <<server, born, stream, pool, absentFor, swept>>
    BY <1>1 DEF MountHook
  <2>2. pool \in born /\ stream[pool] \in StreamState
    BY <1>1 DEF IInv, StreamTypeOK
  <2>3. StreamTypeOK' /\ BadgeShowsPool'
    BY <2>1, <2>2 DEF IInv, StreamTypeOK, BadgeShowsPool
  <2> QED
    BY <2>1, <2>3 DEF IInv, PoolOwns, AbsenceRecorded, OnlyRemovalKills
<1>2. CASE MountHook /\ pool = NoStream
  <2>1. PICK s \in Streams : Create(s) /\ hook' = s
    BY <1>2 DEF MountHook
  <2>2. badge' = FALSE /\ UNCHANGED <<server, stream, swept>>
    BY <1>2 DEF MountHook
  <2>3. \A t \in born : stream[t].dead
    BY <1>2, NoStreamAssumption DEF IInv, PoolOwns, StreamTypeOK
  <2>4. swept' \in BOOLEAN
    BY <2>2 DEF IInv, StreamTypeOK
  <2> QED
    BY <2>1, <2>2, <2>3, <2>4, CreateKeepsIInv
<1>3. CASE UnmountHook
  BY <1>3 DEF UnmountHook, IInv, StreamTypeOK, PoolOwns, AbsenceRecorded, BadgeShowsPool, OnlyRemovalKills
<1> QED
  BY <1>1, <1>2, <1>3

\* Destroying the pooled object leaves only objects that have given up, so the
\* one a mounted hook creates at once is again the only live one.
LEMMA DestroyKeepsIInv ==
  ASSUME IInv, Destroy
  PROVE  IInv'
<1> DEFINE q == Shut(stream[pool])
<1>1. pool \in born /\ pool \in Streams /\ stream \in [Streams -> StreamState]
  BY DEF Destroy, IInv, StreamTypeOK
<1>2. stream' = [stream EXCEPT ![pool] = q] /\ server' = server /\ swept' \in BOOLEAN
  BY DEF Destroy, IInv, StreamTypeOK
<1>3. Healthy(q) /\ q.dead /\ q.check = stream[pool].check
  BY <1>1, ShutIsHealthy DEF IInv
<1> HIDE DEF q
<1>4. stream'[pool] = q /\ \A t \in Streams \ {pool} : stream'[t] = stream[t]
  BY <1>1, <1>2
<1>5. stream' \in [Streams -> StreamState]
  BY <1>1, <1>2, <1>3 DEF Healthy
<1>6. \A t \in born : Healthy(stream'[t]) /\ stream'[t].dead
  BY <1>3, <1>4 DEF IInv, PoolOwns, StreamTypeOK
<1>7. \A t \in Streams \ born : stream'[t] = NewStream
  BY <1>1, <1>4 DEF IInv, PoolOwns
<1>8. \A t \in born : stream'[t].check = "gone" => t \in absentFor
  BY <1>3, <1>4 DEF IInv, AbsenceRecorded, StreamTypeOK
<1>9. CASE hook = NoStream /\ pool' = NoStream /\ UNCHANGED <<born, hook, badge, absentFor>>
  <2>1. StreamTypeOK'
    BY <1>2, <1>5, <1>9 DEF IInv, StreamTypeOK
  <2>2. PoolOwns' /\ AbsenceRecorded'
    BY <1>2, <1>6, <1>7, <1>8, <1>9 DEF IInv, PoolOwns, AbsenceRecorded
  <2>3. BadgeShowsPool' /\ OnlyRemovalKills'
    BY <1>9 DEF BadgeShowsPool, OnlyRemovalKills
  <2> QED
    BY <1>6, <1>9, <2>1, <2>2, <2>3 DEF IInv
<1>10. CASE hook # NoStream /\ badge' = FALSE /\ \E s \in Streams : Create(s) /\ hook' = s
  <2>1. PICK s \in Streams : Create(s) /\ hook' = s
    BY <1>10
  <2>2. /\ s \notin born /\ born' = born \cup {s} /\ pool' = s
        /\ absentFor' = IF server = "absent" THEN absentFor \cup {s} ELSE absentFor
    BY <2>1 DEF Create
  <2>3. stream'[s] = NewStream
    BY <2>2, <1>7
  <2>4. NewStream.check = "no" /\ NewStream.connected = FALSE
    BY DEF NewStream
  <2>5. StreamTypeOK'
    BY <1>2, <1>5, <1>10, <2>1, <2>2 DEF IInv, StreamTypeOK
  <2>6. \A t \in born' : Healthy(stream'[t])
    BY <1>6, <2>2, <2>3, NewIsHealthy
  <2>7. PoolOwns'
    BY <1>6, <1>7, <2>2 DEF PoolOwns
  <2>8. AbsenceRecorded'
    BY <1>2, <1>8, <2>2, <2>3, <2>4 DEF IInv, AbsenceRecorded
  <2>9. BadgeShowsPool' /\ OnlyRemovalKills'
    BY <1>10, <2>1, <2>2, <2>3, <2>4, NewIsHealthy DEF BadgeShowsPool, OnlyRemovalKills
  <2> QED
    BY <2>5, <2>6, <2>7, <2>8, <2>9 DEF IInv
<1> QED
  BY <1>9, <1>10 DEF Destroy, Rebind

LEMMA ServerKeepsIInv ==
  ASSUME IInv, NEW state \in ServerState, ServerBecomes(state)
  PROVE  IInv'
<1>1. /\ server' = state /\ UNCHANGED <<born, stream, pool, hook, badge>>
      /\ absentFor' = IF state = "absent" THEN absentFor \cup born ELSE absentFor
      /\ swept' \in BOOLEAN
  BY DEF ServerBecomes, IInv, StreamTypeOK
<1>2. StreamTypeOK'
  BY <1>1 DEF IInv, StreamTypeOK
<1>3. AbsenceRecorded'
  BY <1>1 DEF IInv, AbsenceRecorded, StreamTypeOK
<1>4. PoolOwns' /\ BadgeShowsPool' /\ OnlyRemovalKills'
  BY <1>1 DEF IInv, PoolOwns, BadgeShowsPool, OnlyRemovalKills
<1> QED
  BY <1>1, <1>2, <1>3, <1>4 DEF IInv

LEMMA StepIInv == IInv /\ [StreamNext]_streamVars => IInv'
<1> SUFFICES ASSUME IInv, [StreamNext]_streamVars PROVE IInv'
  OBVIOUS
<1>1. CASE UNCHANGED streamVars
  BY <1>1 DEF streamVars, IInv, StreamTypeOK, PoolOwns, AbsenceRecorded, BadgeShowsPool, OnlyRemovalKills
<1>2. CASE StreamNext
  BY <1>2, EventsKeepIInv, GetStreamKeepsIInv, HookKeepsIInv, DestroyKeepsIInv, ServerKeepsIInv
     DEF StreamNext
<1> QED
  BY <1>1, <1>2

LEMMA StreamInvariant == StreamSpec => []IInv
<1> QED
  BY InitIInv, StepIInv, PTL DEF StreamSpec

-----------------------------------------------------------------------------
(* The theorems.                                                           *)

\* The state of the stream objects, the pool and the hook is well typed.
THEOREM StreamTypeCorrect == StreamSpec => []StreamTypeOK
<1>1. IInv => StreamTypeOK
  BY DEF IInv
<1> QED
  BY <1>1, StreamInvariant, PTL

\* The reconnect loop of an object that has not given up is neither lost nor
\* doubled, however closes, timers and checkAlive answers interleave.
THEOREM ReconnectChain == StreamSpec => []OneReconnectChain
<1>1. IInv => OneReconnectChain
  <2> SUFFICES ASSUME IInv, NEW s \in born, ~stream[s].dead
               PROVE  \E p \in {"socket", "timer", "check"} : Pursuits(stream[s]) = {p}
    BY DEF OneReconnectChain
  <2>1. OnePursuit(stream[s]) /\ stream[s] \in StreamState
    BY DEF IInv, Healthy
  <2> QED
    BY <2>1, PursuitsAreOne
<1> QED
  BY <1>1, StreamInvariant, PTL

\* A destroyed or dead object never connects again: one name has at most one
\* object that opens sockets.
THEOREM PoolConnectsAlone == StreamSpec => []OnlyPoolConnects
<1>1. IInv => OnlyPoolConnects
  BY DEF IInv, Healthy, PoolOwns, OnlyPoolConnects
<1> QED
  BY <1>1, StreamInvariant, PTL

\* The mounted hook always shows the pooled object.
THEOREM BadgeFollowsPool == StreamSpec => []BadgeShowsPool
<1>1. IInv => BadgeShowsPool
  BY DEF IInv
<1> QED
  BY <1>1, StreamInvariant, PTL

\* Pauses and network failures never make a stream give up for good.
THEOREM PauseKillsNoStream == StreamSpec => []OnlyRemovalKills
<1>1. IInv => OnlyRemovalKills
  BY DEF IInv
<1> QED
  BY <1>1, StreamInvariant, PTL

\* Destroys, mounts, pauses, removals and late socket handlers in any order
\* leave one live stream for the name, and the mounted hook bound to it.
THEOREM OneStreamAtATime == StreamSpec => []OneStreamPerCluster
BY ReconnectChain, PoolConnectsAlone, BadgeFollowsPool, PauseKillsNoStream, PTL DEF OneStreamPerCluster

HIDE DEF StreamState
USE ViewsAssumption, SourceOfAssumption, MaxWireAssumption, NoStreamAssumption

-----------------------------------------------------------------------------
(* A list is a user of the stream pool.                                    *)

LEMMA ListStepIsStreamStep == [Next]_vars => [StreamNext]_streamVars
<1>1. ASSUME NEW v \in Views, Subscribe(v) PROVE [StreamNext]_streamVars
  BY <1>1 DEF Subscribe, StreamNext
<1>2. ASSUME NEW v \in Views, Render(v) \/ Watch(v) \/ Unmount(v) PROVE UNCHANGED streamVars
  BY <1>2 DEF Render, Watch, Unmount
<1>3. ASSUME NEW s \in Streams, StreamOpens(s) \/ StreamFails(s) \/ StreamDies(s) PROVE StreamNext
  BY <1>3 DEF StreamOpens, StreamFails, StreamDies, StreamNext
<1>4. StreamDestroyed \/ StreamElse => StreamNext
  BY DEF StreamDestroyed, StreamElse, StreamNext
<1>5. ASSUME NEW src \in Sources, OnFrame(src) \/ Answer(src) PROVE UNCHANGED streamVars
  BY <1>5 DEF OnFrame, Answer
<1>6. ASSUME NEW o \in Objects, ObjectChanges(o) PROVE UNCHANGED streamVars
  BY <1>6 DEF ObjectChanges
<1>7. ASSUME NEW state \in ServerState, ServerChanges(state) PROVE StreamNext
  BY <1>7 DEF ServerChanges, StreamNext
<1>8. TeardownTimer \/ SnapshotTimeout => UNCHANGED streamVars
  BY DEF TeardownTimer, SnapshotTimeout
<1> QED
  BY <1>1, <1>2, <1>3, <1>4, <1>5, <1>6, <1>7, <1>8 DEF Next, vars

\* What a list does to the pool and its objects is what any user may do, so the
\* theorems about ClusterStream hold with lists on top.
THEOREM ListsUseThePool == Spec => StreamSpec
<1>1. Init => StreamInit
  BY DEF Init
<1> QED
  BY <1>1, ListStepIsStreamStep, PTL DEF Spec, StreamSpec

\* Objects are never taken out of born.
LEMMA BornGrows == [StreamNext]_streamVars => born \subseteq born'
<1> USE DEF UnchangedPool
<1>1. ASSUME NEW s \in Streams,
             \/ OnOpen(s) \/ SocketFails(s) \/ OnClose(s) \/ CheckAnswered(s)
             \/ CheckRetries(s) \/ DeclareDead(s) \/ ReconnectTimer(s)
      PROVE  born \subseteq born'
  BY <1>1 DEF OnOpen, SocketFails, OnClose, CheckAnswered, CheckRetries, DeclareDead, ReconnectTimer
<1>2. GetStream \/ MountHook \/ UnmountHook \/ Destroy => born \subseteq born'
  BY DEF GetStream, MountHook, UnmountHook, Destroy, Rebind, Create
<1>3. ASSUME NEW state \in ServerState, ServerBecomes(state) PROVE born \subseteq born'
  BY <1>3 DEF ServerBecomes
<1> QED
  BY <1>1, <1>2, <1>3 DEF StreamNext, streamVars

-----------------------------------------------------------------------------
(* Counting references.                                                    *)

Owners == {v \in Views : view[v] = "owner"}

ViewTypes ==
  /\ view \in [Views -> {"out", "rendered", "watching", "owner"}]
  /\ entry \in BOOLEAN /\ teardown \in BOOLEAN /\ waiting \in BOOLEAN
  /\ refs \in Nat
  /\ feed \in born \cup {NoStream}
  /\ phase \in {"loading", "ready", "failed"}

\* One reference for each view, a second for the one that subscribed.
Counted == refs = Cardinality(Mounted) + Cardinality(Owners)

\* Without a collection nobody uses one and nothing is subscribed.
NoneIsEmpty == ~entry => Mounted = {} /\ feed = NoStream

\* A collection that an effect has seen believes that it is subscribed.
HasSubscription == Subscribed # {} => feed # NoStream

Kept == ViewTypes /\ Counted /\ NoneIsEmpty /\ UsedIsKept /\ HasSubscription /\ UnusedIsDropped

\* The list's variables that these facts are about.
useVars == <<view, entry, refs, teardown, feed>>

LEMMA Cardinalities ==
  ASSUME ViewTypes
  PROVE  /\ IsFiniteSet(Mounted) /\ IsFiniteSet(Owners)
         /\ Cardinality(Mounted) \in Nat /\ Cardinality(Owners) \in Nat
         /\ Mounted = {} <=> Cardinality(Mounted) = 0
         /\ Owners \subseteq Mounted
         /\ Owners = {} <=> Cardinality(Owners) = 0
<1>1. IsFiniteSet(Mounted) /\ IsFiniteSet(Owners)
  BY FS_Subset DEF Mounted, Owners
<1>2. Owners \subseteq Mounted
  BY DEF Mounted, Owners
<1> QED
  BY <1>1, <1>2, FS_CardinalityType, FS_EmptySet

LEMMA UseFrame ==
  ASSUME Kept, UNCHANGED useVars, born \subseteq born',
         waiting' \in BOOLEAN, phase' \in {"loading", "ready", "failed"}
  PROVE  Kept'
BY DEF Kept, useVars, ViewTypes, Counted, NoneIsEmpty, UsedIsKept, HasSubscription, UnusedIsDropped,
       Mounted, Subscribed, Owners

LEMMA InitKept == Init => Kept
<1> SUFFICES ASSUME Init PROVE Kept
  OBVIOUS
<1>1. Mounted = {} /\ Owners = {} /\ Subscribed = {}
  BY DEF Init, Mounted, Owners, Subscribed
<1>2. ViewTypes
  BY DEF Init, ViewTypes
<1> QED
  BY <1>1, <1>2, FS_EmptySet DEF Kept, Init, Counted, NoneIsEmpty, UsedIsKept, HasSubscription, UnusedIsDropped

LEMMA RenderKeeps ==
  ASSUME Kept, born \subseteq born', NEW v \in Views, Render(v)
  PROVE  Kept'
<1> USE DEF Kept
<1>1. ViewTypes' /\ Owners' = Owners
  <2>1. /\ view[v] = "out" /\ view' = [view EXCEPT ![v] = "rendered"]
        /\ entry' = TRUE /\ refs' = refs + 1 /\ teardown' = FALSE
        /\ UNCHANGED <<feed, waiting>> /\ phase' \in {phase, "loading"}
    BY DEF Render
  <2>2. Owners' = Owners
    BY <2>1 DEF ViewTypes, Owners
  <2>3. waiting' \in BOOLEAN /\ entry' \in BOOLEAN /\ teardown' \in BOOLEAN
    BY <2>1, Zenon DEF ViewTypes
  <2>4. view' \in [Views -> {"out", "rendered", "watching", "owner"}] /\ refs' \in Nat
        /\ phase' \in {"loading", "ready", "failed"} /\ feed' \in born' \cup {NoStream}
    BY <2>1 DEF ViewTypes
  <2> QED
    BY <2>2, <2>3, <2>4 DEF ViewTypes
<1>2. Mounted' = Mounted \cup {v} /\ v \notin Mounted /\ Subscribed' = Subscribed
  BY DEF Render, ViewTypes, Mounted, Subscribed
<1>3. Cardinality(Mounted') = Cardinality(Mounted) + 1
  BY <1>2, Cardinalities, FS_AddElement
<1>4. Counted'
  BY <1>1, <1>3, Cardinalities DEF Counted, Render, ViewTypes
<1> QED
  BY <1>1, <1>2, <1>4 DEF Render, NoneIsEmpty, UsedIsKept, HasSubscription, UnusedIsDropped, Mounted

LEMMA WatchKeeps ==
  ASSUME Kept, born \subseteq born', NEW v \in Views, Watch(v)
  PROVE  Kept'
<1> USE DEF Kept
<1>1. ViewTypes' /\ Owners' = Owners /\ Mounted' = Mounted
  BY DEF Watch, ViewTypes, Owners, Mounted, CollectionVars
<1> QED
  BY <1>1 DEF Watch, CollectionVars, ViewTypes, Counted, NoneIsEmpty, UsedIsKept, HasSubscription, UnusedIsDropped

LEMMA SubscribeKeeps ==
  ASSUME Kept, StreamTypeOK', born \subseteq born', NEW v \in Views, Subscribe(v)
  PROVE  Kept'
<1> USE DEF Kept
<1>1. /\ view' = [view EXCEPT ![v] = "owner"] /\ view[v] = "rendered" /\ refs' = refs + 1
      /\ feed = NoStream /\ feed' = pool' /\ waiting' = TRUE
      /\ UNCHANGED <<entry, teardown>>
  BY DEF Subscribe
<1>2. pool' \in born' /\ pool' # NoStream
  BY DEF Subscribe, GetStream, Create, StreamTypeOK, streamVars
<1>3. phase' \in {"loading", "ready", "failed"}
  BY DEF Subscribe, SubscribeOn, ViewTypes
<1>4. ViewTypes'
  BY <1>1, <1>2, <1>3 DEF ViewTypes
<1>5. Mounted' = Mounted /\ Mounted # {} /\ Owners' = Owners \cup {v} /\ v \notin Owners
  BY <1>1 DEF ViewTypes, Mounted, Owners
<1>6. Cardinality(Owners') = Cardinality(Owners) + 1
  BY <1>5, Cardinalities, FS_AddElement
<1>7. Counted'
  BY <1>1, <1>5, <1>6, Cardinalities DEF Counted, ViewTypes
<1> QED
  BY <1>1, <1>2, <1>4, <1>5, <1>7 DEF NoneIsEmpty, UsedIsKept, HasSubscription, UnusedIsDropped

LEMMA UnmountKeeps ==
  ASSUME Kept, born \subseteq born', NEW v \in Views, Unmount(v)
  PROVE  Kept'
<1> USE DEF Kept
<1>1. /\ view' = [view EXCEPT ![v] = "out"] /\ view[v] \in {"watching", "owner"}
      /\ refs' = refs - References(v) /\ teardown' = (teardown \/ refs' = 0)
      /\ UNCHANGED <<entry, feed, waiting, phase>>
  BY DEF Unmount
<1>2. Mounted' = Mounted \ {v} /\ v \in Mounted /\ Owners' = Owners \ {v}
      /\ (v \in Owners <=> view[v] = "owner")
  BY <1>1 DEF ViewTypes, Mounted, Owners
<1>3. Cardinality(Mounted') = Cardinality(Mounted) - 1
  BY <1>2, Cardinalities, FS_RemoveElement
<1>4. Cardinality(Owners') = IF v \in Owners THEN Cardinality(Owners) - 1 ELSE Cardinality(Owners)
  <2>1. CASE v \in Owners
    BY <2>1, <1>2, Cardinalities, FS_RemoveElement
  <2>2. CASE v \notin Owners
    BY <2>2, <1>2
  <2> QED
    BY <2>1, <2>2
<1>5. Cardinality(Mounted') \in Nat /\ Cardinality(Owners') \in Nat
      /\ (Mounted' = {} <=> Cardinality(Mounted') = 0)
      /\ Owners' \subseteq Mounted'
  <2>1. IsFiniteSet(Mounted') /\ IsFiniteSet(Owners')
    BY <1>2, Cardinalities, FS_RemoveElement
  <2> QED
    BY <2>1, <1>2, Cardinalities, FS_CardinalityType, FS_EmptySet
<1>6. References(v) = IF v \in Owners THEN 2 ELSE 1
  BY <1>2 DEF References
<1>7. refs' = Cardinality(Mounted') + Cardinality(Owners')
  BY <1>1, <1>3, <1>4, <1>5, <1>6, Cardinalities DEF Counted, ViewTypes
<1>8. Mounted' = {} <=> refs' = 0
  <2>1. CASE Mounted' = {}
    <3>1. Cardinality(Owners') = 0 /\ Cardinality(Mounted') = 0
      BY <2>1, <1>5, FS_EmptySet
    <3> QED
      BY <3>1, <2>1, <1>7
  <2>2. CASE Mounted' # {}
    BY <2>2, <1>5, <1>7
  <2> QED
    BY <2>1, <2>2
<1>9. ~teardown /\ entry /\ Subscribed' \subseteq Subscribed
  BY <1>1, <1>2 DEF UsedIsKept, HasSubscription, Subscribed, ViewTypes
<1>10. ViewTypes' /\ Counted'
  BY <1>1, <1>5, <1>7 DEF ViewTypes, Counted
<1> QED
  BY <1>1, <1>2, <1>8, <1>9, <1>10 DEF NoneIsEmpty, UsedIsKept, HasSubscription, UnusedIsDropped

LEMMA TeardownKeeps ==
  ASSUME Kept, born \subseteq born', TeardownTimer
  PROVE  Kept'
<1> USE DEF Kept
<1>1. Mounted = {} /\ Subscribed = {} /\ teardown
  BY DEF TeardownTimer, UsedIsKept, HasSubscription, Mounted, Subscribed
<1>2. refs = 0 /\ UNCHANGED <<view, refs, phase>> /\ ~teardown' /\ ~entry' /\ feed' = NoStream
      /\ waiting' \in BOOLEAN
  <2>1. refs = 0
    BY <1>1, Cardinalities, FS_EmptySet DEF Counted
  <2>2. UNCHANGED <<view, refs, phase>> /\ ~teardown'
    BY DEF TeardownTimer
  <2>3. entry' = FALSE /\ feed' = NoStream /\ waiting' = FALSE
    BY <2>1 DEF TeardownTimer
  <2> QED
    BY <2>1, <2>2, <2>3
<1>3. Mounted' = {} /\ Subscribed' = {} /\ Owners' = Owners
  BY <1>1, <1>2 DEF Mounted, Subscribed, Owners
<1>4. ViewTypes'
  BY <1>2, <1>3 DEF ViewTypes, TeardownTimer
<1>5. Counted'
  BY <1>1, <1>2, <1>3 DEF Counted
<1> QED
  BY <1>2, <1>3, <1>4, <1>5 DEF NoneIsEmpty, UsedIsKept, HasSubscription, UnusedIsDropped

LEMMA StepKept ==
  ASSUME Kept, StreamTypeOK', [Next]_vars
  PROVE  Kept'
<1> USE DEF CollectionVars, useVars
<1>0. born \subseteq born'
  BY ListStepIsStreamStep, BornGrows
<1> DEFINE Framed == UNCHANGED useVars /\ waiting' \in BOOLEAN /\ phase' \in {"loading", "ready", "failed"}
<1>1. ASSUME NEW v \in Views, Render(v) \/ Watch(v) \/ Subscribe(v) \/ Unmount(v) PROVE Kept'
  BY <1>0, <1>1, RenderKeeps, WatchKeeps, SubscribeKeeps, UnmountKeeps
<1>2. CASE TeardownTimer
  BY <1>0, <1>2, TeardownKeeps
<1>3. CASE SnapshotTimeout
  <2>1. Framed
    BY <1>3 DEF SnapshotTimeout, Kept, ViewTypes
  <2> QED
    BY <1>0, <2>1, UseFrame
<1>4. ASSUME NEW s \in Streams, StreamOpens(s) \/ StreamFails(s) \/ StreamDies(s) PROVE Kept'
  <2>1. Framed
    BY <1>4 DEF StreamOpens, StreamFails, StreamDies, Kept, ViewTypes
  <2> QED
    BY <1>0, <2>1, UseFrame
<1>5. CASE StreamDestroyed \/ StreamElse
  <2>1. Framed
    BY <1>5 DEF StreamDestroyed, StreamElse, listVars, Kept, ViewTypes
  <2> QED
    BY <1>0, <2>1, UseFrame
<1>6. ASSUME NEW src \in Sources, OnFrame(src) \/ Answer(src) PROVE Kept'
  <2>1. Framed
    BY <1>6 DEF OnFrame, ApplyFrom, WithSnapshot, WithObject, WithoutObject, Failed, Answer, Kept, ViewTypes
  <2> QED
    BY <1>0, <2>1, UseFrame
<1>7. ASSUME NEW o \in Objects, ObjectChanges(o) PROVE Kept'
  <2>1. Framed
    BY <1>7 DEF ObjectChanges, Kept, ViewTypes
  <2> QED
    BY <1>0, <2>1, UseFrame
<1>8. ASSUME NEW state \in ServerState, ServerChanges(state) PROVE Kept'
  <2>1. Framed
    BY <1>8 DEF ServerChanges, Kept, ViewTypes
  <2> QED
    BY <1>0, <2>1, UseFrame
<1>9. CASE UNCHANGED vars
  <2>1. Framed
    BY <1>9 DEF vars, listVars, Kept, ViewTypes
  <2> QED
    BY <1>0, <2>1, UseFrame
<1> QED
  BY <1>1, <1>2, <1>3, <1>4, <1>5, <1>6, <1>7, <1>8, <1>9 DEF Next

LEMMA KeptInvariant == Spec => []Kept
<1>1. Spec => []StreamTypeOK
  BY ListsUseThePool, StreamTypeCorrect
<1>2. StreamTypeOK' /\ Kept /\ [Next]_vars => Kept'
  BY StepKept
<1> QED
  BY InitKept, <1>1, <1>2, PTL DEF Spec

\* A collection that a view uses stays, whichever view comes or goes first.
THEOREM UsedAreKept == Spec => []UsedIsKept
<1>1. Kept => UsedIsKept
  BY DEF Kept
<1> QED
  BY <1>1, KeptInvariant, PTL

\* One that no view uses is about to be torn down: nothing leaks.
THEOREM UnusedAreDropped == Spec => []UnusedIsDropped
<1>1. Kept => UnusedIsDropped
  BY DEF Kept
<1> QED
  BY <1>1, KeptInvariant, PTL

-----------------------------------------------------------------------------
(* Frames.                                                                 *)

Of(src) == {o \in Objects : SourceOf[o] = src}

\* A frame tells of an object, and whether it is there.
Tells(f, o) == f.kind = "snapshot" \/ (f.kind # "error" /\ o \in f.list)
Says(f, o) == f.kind # "delete" /\ o \in f.list

FrameTypes ==
  /\ objects \subseteq Objects
  /\ items \subseteq Objects
  /\ scoped \in [Sources -> SUBSET Objects]
  /\ served \in [Sources -> {"no", "asked", "fed"}]
  /\ wire \in [Sources -> Seq(Frame)]

\* A source contributes and tells of its own objects only.
OwnObjects ==
  \A src \in Sources :
    /\ scoped[src] \subseteq Of(src)
    /\ \A i \in 1..Len(wire[src]) : wire[src][i].list \subseteq Of(src)

\* No frame from i on tells of o: what is shown must be right already.
ShownIsTrue(src, o) ==
  (\A i \in 1..Len(wire[src]) : ~Tells(wire[src][i], o)) => (o \in items <=> o \in objects)

\* Otherwise the last frame that tells of o must be.
LastFrameIsTrue(src, o) ==
  \A i \in 1..Len(wire[src]) :
    Tells(wire[src][i], o) /\ (\A j \in (i + 1)..Len(wire[src]) : ~Tells(wire[src][j], o))
      => (Says(wire[src][i], o) <=> o \in objects)

Exact ==
  \A src \in Sources :
    served[src] = "fed" =>
      \A o \in Of(src) : ShownIsTrue(src, o) /\ LastFrameIsTrue(src, o)

\* A server that feeds a source feeds a subscription.
FedIsSubscribed == feed = NoStream => served = NotServed

FrameInv == FrameTypes /\ OwnObjects /\ NoGhosts /\ FedIsSubscribed /\ Exact

\* What the frame invariant is about.
frameVars == <<objects, items, scoped, served, wire>>

LEMMA FrameFrame ==
  ASSUME FrameInv, UNCHANGED frameVars, feed' = NoStream => feed = NoStream
  PROVE  FrameInv'
BY DEF FrameInv, frameVars, FrameTypes, OwnObjects, NoGhosts, FedIsSubscribed, Exact,
       ShownIsTrue, LastFrameIsTrue

\* A subscription that ends or starts over promises nothing yet.
LEMMA NotFedKeeps ==
  ASSUME FrameInv, UNCHANGED <<objects, items, scoped>>,
         served' \in {NotServed, Asked}, wire' \in {wire, NoFrames},
         feed' = NoStream => served' = NotServed
  PROVE  FrameInv'
<1> USE DEF FrameInv
<1>1. \A src \in Sources : served'[src] # "fed" /\ served'[src] \in {"no", "asked"}
  BY DEF NotServed, Asked
<1>2. FrameTypes'
  <2>1. served' \in [Sources -> {"no", "asked", "fed"}]
    BY DEF NotServed, Asked
  <2>2. wire' \in [Sources -> Seq(Frame)]
    <3>1. NoFrames \in [Sources -> Seq(Frame)]
      BY DEF NoFrames
    <3> QED
      BY <3>1 DEF FrameTypes
  <2> QED
    BY <2>1, <2>2 DEF FrameTypes
<1>3. OwnObjects'
  <2>1. CASE wire' = wire
    BY <2>1 DEF OwnObjects
  <2>2. CASE wire' = NoFrames
    <3>1. \A src \in Sources : Len(wire'[src]) = 0
      BY <2>2 DEF NoFrames
    <3> QED
      BY <3>1 DEF OwnObjects
  <2> QED
    BY <2>1, <2>2
<1>4. Exact'
  BY <1>1 DEF Exact
<1>5. NotServed' = NotServed
  BY DEF NotServed
<1> QED
  BY <1>2, <1>3, <1>4, <1>5 DEF NoGhosts, FedIsSubscribed

LEMMA InitFrameInv == Init => FrameInv
<1> SUFFICES ASSUME Init PROVE FrameInv
  OBVIOUS
<1>1. FrameTypes
  BY DEF Init, FrameTypes, NotServed, NoFrames, Nothing
<1>2. \A src \in Sources : Len(wire[src]) = 0 /\ scoped[src] = {} /\ served[src] = "no"
  BY DEF Init, NoFrames, Nothing, NotServed
<1>3. OwnObjects /\ Exact
  BY <1>2 DEF OwnObjects, Exact
<1>4. NoGhosts
  BY DEF Init, NoGhosts, Nothing
<1> QED
  BY <1>1, <1>3, <1>4 DEF FrameInv, FedIsSubscribed, Init

-----------------------------------------------------------------------------
(* What one frame does, and what a frame more under way does.              *)

LEMMA FrameIsApplied ==
  ASSUME FrameInv, NEW src \in Sources, OnFrame(src),
         NEW f, f = Head(wire[src])
  PROVE  /\ items' \subseteq Objects
         /\ scoped' \in [Sources -> SUBSET Objects]
         /\ \A s \in Sources : scoped'[s] \subseteq Of(s)
         /\ NoGhosts'
         /\ \A o \in Objects : Tells(f, o) /\ SourceOf[o] = src => (o \in items' <=> Says(f, o))
         /\ \A o \in Objects : ~Tells(f, o) \/ SourceOf[o] # src => (o \in items' <=> o \in items)
<1> USE DEF FrameInv
<1>1. /\ f \in Frame /\ f.list \subseteq Of(src) /\ f.list \subseteq Objects
      /\ f.kind \in {"snapshot", "add", "delete", "error"}
  <2>1. wire[src] \in Seq(Frame) /\ wire[src] # <<>>
    BY DEF FrameTypes, OnFrame
  <2>2. f = wire[src][1] /\ 1 \in 1..Len(wire[src]) /\ f \in Frame
    BY <2>1
  <2>3. f.list \subseteq Of(src)
    BY <2>2 DEF OwnObjects
  <2> QED
    BY <2>2, <2>3 DEF Frame
<1>2. ApplyFrom(src, f)
  BY DEF OnFrame
<1>3. /\ scoped \in [Sources -> SUBSET Objects] /\ items \subseteq Objects
      /\ items = UNION {scoped[s] : s \in Sources}
      /\ \A s \in Sources : scoped[s] \subseteq Of(s)
  BY DEF FrameTypes, NoGhosts, OwnObjects
<1>4. \A o \in Objects : o \in items <=> o \in scoped[SourceOf[o]]
  BY <1>3 DEF Of
<1>5. CASE f.kind = "snapshot"
  <2>1. items' = (items \ scoped[src]) \cup f.list /\ scoped' = [scoped EXCEPT ![src] = f.list]
    BY <1>2, <1>5 DEF ApplyFrom, WithSnapshot
  <2>2. scoped' \in [Sources -> SUBSET Objects] /\ items' \subseteq Objects
        /\ \A s \in Sources : scoped'[s] \subseteq Of(s)
    BY <2>1, <1>1, <1>3
  <2>3. \A o \in Objects : o \in items' <=> o \in scoped'[SourceOf[o]]
    BY <2>1, <1>1, <1>3, <1>4 DEF Of
  <2>4. NoGhosts'
    BY <2>2, <2>3 DEF NoGhosts, Of
  <2> QED
    BY <2>1, <2>2, <2>3, <2>4, <1>1, <1>3, <1>4, <1>5 DEF Tells, Says, Of
<1>6. CASE f.kind = "add"
  <2>1. items' = items \cup f.list /\ scoped' = [scoped EXCEPT ![src] = @ \cup f.list]
    BY <1>2, <1>6 DEF ApplyFrom, WithObject
  <2>2. scoped' \in [Sources -> SUBSET Objects] /\ items' \subseteq Objects
        /\ \A s \in Sources : scoped'[s] \subseteq Of(s)
    BY <2>1, <1>1, <1>3
  <2>3. \A o \in Objects : o \in items' <=> o \in scoped'[SourceOf[o]]
    BY <2>1, <1>1, <1>3, <1>4 DEF Of
  <2>4. NoGhosts'
    BY <2>2, <2>3 DEF NoGhosts, Of
  <2> QED
    BY <2>1, <2>2, <2>4, <1>1, <1>3, <1>6 DEF Tells, Says, Of
<1>7. CASE f.kind = "delete"
  <2>1. items' = items \ f.list /\ scoped' = [s \in Sources |-> scoped[s] \ f.list]
    BY <1>2, <1>7 DEF ApplyFrom, WithoutObject
  <2>2. scoped' \in [Sources -> SUBSET Objects] /\ items' \subseteq Objects
        /\ \A s \in Sources : scoped'[s] \subseteq Of(s)
    BY <2>1, <1>3
  <2>3. \A o \in Objects : o \in items' <=> o \in scoped'[SourceOf[o]]
    BY <2>1, <1>3, <1>4
  <2>4. NoGhosts'
    BY <2>2, <2>3 DEF NoGhosts, Of
  <2> QED
    BY <2>1, <2>2, <2>4, <1>1, <1>3, <1>7 DEF Tells, Says, Of
<1>8. CASE f.kind = "error"
  <2>1. UNCHANGED <<items, scoped>>
    BY <1>2, <1>8 DEF ApplyFrom, Failed
  <2> QED
    BY <2>1, <1>3, <1>8 DEF Tells, NoGhosts
<1> QED
  BY <1>1, <1>5, <1>6, <1>7, <1>8
LEMMA OnFrameInv ==
  ASSUME FrameInv, NEW src \in Sources, OnFrame(src)
  PROVE  FrameInv'
<1> DEFINE f == Head(wire[src])
<1> USE DEF FrameInv
<1>1. /\ wire[src] \in Seq(Frame) /\ wire[src] # <<>>
      /\ wire' = [wire EXCEPT ![src] = Tail(@)]
      /\ UNCHANGED <<feed, objects, served>>
  BY DEF OnFrame, FrameTypes
<1>2. /\ Tail(wire[src]) \in Seq(Frame)
      /\ Len(Tail(wire[src])) = Len(wire[src]) - 1 /\ Len(wire[src]) \in Nat \ {0}
      /\ f = wire[src][1]
      /\ \A i \in 1..Len(Tail(wire[src])) : Tail(wire[src])[i] = wire[src][i + 1]
  BY <1>1
<1>3. wire'[src] = Tail(wire[src]) /\ \A s \in Sources \ {src} : wire'[s] = wire[s]
  BY <1>1 DEF FrameTypes
<1>4. /\ items' \subseteq Objects
      /\ scoped' \in [Sources -> SUBSET Objects]
      /\ \A s \in Sources : scoped'[s] \subseteq Of(s)
      /\ NoGhosts'
      /\ \A o \in Objects : Tells(f, o) /\ SourceOf[o] = src => (o \in items' <=> Says(f, o))
      /\ \A o \in Objects : ~Tells(f, o) \/ SourceOf[o] # src => (o \in items' <=> o \in items)
  BY FrameIsApplied
<1> HIDE DEF f
<1>5. FrameTypes'
  BY <1>1, <1>2, <1>4 DEF FrameTypes
<1>6. OwnObjects'
  <2>1. ASSUME NEW s \in Sources, NEW i \in 1..Len(wire'[s])
        PROVE  wire'[s][i].list \subseteq Of(s)
    <3>1. CASE s = src
      <4>1. i + 1 \in 1..Len(wire[src]) /\ wire'[s][i] = wire[src][i + 1]
        BY <2>1, <3>1, <1>2, <1>3
      <4> QED
        BY <4>1, <3>1 DEF OwnObjects
    <3>2. CASE s # src
      BY <3>2, <1>3, <2>1 DEF OwnObjects
    <3> QED
      BY <3>1, <3>2
  <2> QED
    BY <2>1, <1>4 DEF OwnObjects, Of
<1>7. Exact'
  <2> SUFFICES ASSUME NEW s \in Sources, served[s] = "fed", NEW o \in Of(s)
               PROVE  ShownIsTrue(s, o)' /\ LastFrameIsTrue(s, o)'
    BY <1>1 DEF Exact, Of
  <2>0. ShownIsTrue(s, o) /\ LastFrameIsTrue(s, o) /\ o \in Objects /\ SourceOf[o] = s
    BY DEF Exact, Of
  <2>1. CASE s # src
    BY <2>0, <2>1, <1>1, <1>3, <1>4 DEF ShownIsTrue, LastFrameIsTrue
  <2>2. CASE s = src
    <3> DEFINE n == Len(wire[src])
               TellsLater(i) == \E j \in i..n : Tells(wire[src][j], o)
    <3>1. ASSUME NEW i \in 1..(n - 1), ~TellsLater(i + 2), Tells(wire'[src][i], o)
          PROVE  Says(wire'[src][i], o) <=> o \in objects
      <4>1. i + 1 \in 1..n /\ wire'[src][i] = wire[src][i + 1]
        BY <1>2, <1>3
      <4>2. \A j \in ((i + 1) + 1)..n : ~Tells(wire[src][j], o)
        BY <3>1
      <4> QED
        BY <4>1, <4>2, <3>1, <2>0, <2>2 DEF LastFrameIsTrue
    <3>2. ASSUME ~TellsLater(2)
          PROVE  o \in items' <=> o \in objects
      <4>1. CASE Tells(f, o)
        <5>1. Says(f, o) <=> o \in objects
          BY <3>2, <4>1, <1>2, <2>0, <2>2 DEF LastFrameIsTrue
        <5> QED
          BY <5>1, <4>1, <1>4, <2>0, <2>2
      <4>2. CASE ~Tells(f, o)
        <5>1. \A i \in 1..n : ~Tells(wire[src][i], o)
          BY <3>2, <4>2, <1>2
        <5> QED
          BY <5>1, <4>2, <1>4, <2>0, <2>2 DEF ShownIsTrue
      <4> QED
        BY <4>1, <4>2
    <3>3. ASSUME NEW i \in Nat, i >= 1, \A j \in i..Len(wire'[src]) : ~Tells(wire'[src][j], o)
          PROVE  ~TellsLater(i + 1)
      <4> SUFFICES ASSUME NEW j \in (i + 1)..n, Tells(wire[src][j], o) PROVE FALSE
        OBVIOUS
      <4>1. j - 1 \in i..Len(wire'[src]) /\ wire'[src][j - 1] = wire[src][j]
        BY <1>2, <1>3, <3>3
      <4> QED
        BY <4>1, <3>3
    <3>4. Len(wire'[src]) = n - 1
      BY <1>2, <1>3
    <3> HIDE DEF TellsLater, n
    <3>5. ShownIsTrue(s, o)'
      <4> SUFFICES ASSUME \A j \in 1..Len(wire'[src]) : ~Tells(wire'[src][j], o)
                   PROVE  o \in items' <=> o \in objects
        BY <1>1, <2>2 DEF ShownIsTrue
      <4>1. ~TellsLater(1 + 1) /\ 1 + 1 = 2
        BY <3>3, SMTT(30)
      <4> QED
        BY <3>2, <4>1
    <3>6. LastFrameIsTrue(s, o)'
      <4> SUFFICES ASSUME NEW i \in 1..Len(wire'[src]), Tells(wire'[src][i], o),
                          \A j \in (i + 1)..Len(wire'[src]) : ~Tells(wire'[src][j], o)
                   PROVE  Says(wire'[src][i], o) <=> o \in objects
        BY <1>1, <2>2 DEF LastFrameIsTrue
      <4>1. ~TellsLater((i + 1) + 1)
        BY <3>3
      <4>2. (i + 1) + 1 = i + 2 /\ i \in 1..(n - 1)
        BY <3>4
      <4> QED
        BY <3>1, <4>1, <4>2
    <3> QED
      BY <3>5, <3>6
  <2> QED
    BY <2>1, <2>2
<1>8. FedIsSubscribed'
  BY <1>1 DEF FedIsSubscribed, NotServed
<1> QED
  BY <1>4, <1>5, <1>6, <1>7, <1>8

\* A frame is appended that tells the truth of every object of its source that
\* it tells of, and of every object that changes.
LEMMA SendKeeps ==
  ASSUME FrameInv, NEW src \in Sources, NEW f \in Frame,
         wire' = [wire EXCEPT ![src] = Append(@, f)],
         f.list \subseteq Of(src),
         objects' \subseteq Objects, served' \in [Sources -> {"no", "asked", "fed"}],
         UNCHANGED <<items, scoped, feed>>,
         served' = NotServed \/ feed # NoStream,
         \A s \in Sources \ {src} : served'[s] = "fed" =>
            served[s] = "fed" /\ \A o \in Of(s) : o \in objects' <=> o \in objects,
         served'[src] = "fed" => \A o \in Of(src) :
            IF Tells(f, o) THEN Says(f, o) <=> o \in objects'
            ELSE served[src] = "fed" /\ (o \in objects' <=> o \in objects)
  PROVE  FrameInv'
<1> USE DEF FrameInv
<1>1. wire[src] \in Seq(Frame) /\ wire'[src] = Append(wire[src], f)
      /\ \A s \in Sources \ {src} : wire'[s] = wire[s]
  BY DEF FrameTypes
<1>2. /\ Append(wire[src], f) \in Seq(Frame)
      /\ Len(wire'[src]) = Len(wire[src]) + 1 /\ Len(wire[src]) \in Nat
      /\ wire'[src][Len(wire[src]) + 1] = f
      /\ \A i \in 1..Len(wire[src]) : wire'[src][i] = wire[src][i]
  BY <1>1
<1>3. FrameTypes'
  BY <1>2 DEF FrameTypes
<1>4. OwnObjects'
  BY <1>1, <1>2 DEF OwnObjects, Of
<1>5. Exact'
  <2> SUFFICES ASSUME NEW s \in Sources, served'[s] = "fed", NEW o \in Of(s)
               PROVE  ShownIsTrue(s, o)' /\ LastFrameIsTrue(s, o)'
    BY DEF Exact, Of
  <2>1. CASE s # src
    <3>1. ShownIsTrue(s, o) /\ LastFrameIsTrue(s, o) /\ (o \in objects' <=> o \in objects)
      BY <2>1 DEF Exact
    <3> QED
      BY <3>1, <2>1, <1>1 DEF ShownIsTrue, LastFrameIsTrue
  <2>2. CASE s = src /\ Tells(f, o)
    <3>1. Len(wire[src]) + 1 \in 1..Len(wire'[src]) /\ Tells(wire'[src][Len(wire[src]) + 1], o)
      BY <1>2, <2>2
    <3>2. ShownIsTrue(s, o)'
      BY <2>2, <3>1 DEF ShownIsTrue
    <3>3. ASSUME NEW i \in 1..Len(wire'[src]),
                 \A j \in (i + 1)..Len(wire'[src]) : ~Tells(wire'[src][j], o)
          PROVE  i = Len(wire[src]) + 1
      BY <3>1, <3>3, <1>2
    <3> QED
      BY <2>2, <3>2, <3>3, <1>2 DEF LastFrameIsTrue
  <2>3. CASE s = src /\ ~Tells(f, o)
    <3>1. ShownIsTrue(s, o) /\ LastFrameIsTrue(s, o) /\ (o \in objects' <=> o \in objects)
      BY <2>3 DEF Exact
    <3>2. ShownIsTrue(s, o)'
      <4>1. (\A i \in 1..Len(wire'[src]) : ~Tells(wire'[src][i], o))
              => \A i \in 1..Len(wire[src]) : ~Tells(wire[src][i], o)
        BY <1>2
      <4> QED
        BY <3>1, <4>1, <2>3 DEF ShownIsTrue
    <3>3. LastFrameIsTrue(s, o)'
      <4> SUFFICES ASSUME NEW i \in 1..Len(wire'[src]), Tells(wire'[src][i], o),
                          \A j \in (i + 1)..Len(wire'[src]) : ~Tells(wire'[src][j], o)
                   PROVE  Says(wire'[src][i], o) <=> o \in objects'
        BY <2>3 DEF LastFrameIsTrue
      <4>1. i \in 1..Len(wire[src]) /\ wire'[src][i] = wire[src][i]
        BY <1>2, <2>3
      <4>2. \A j \in (i + 1)..Len(wire[src]) : ~Tells(wire[src][j], o)
        BY <1>2, <4>1
      <4> QED
        BY <3>1, <4>1, <4>2, <2>3 DEF LastFrameIsTrue
    <3> QED
      BY <3>2, <3>3
  <2> QED
    BY <2>1, <2>2, <2>3
<1>6. NoGhosts' /\ FedIsSubscribed'
  BY DEF NoGhosts, FedIsSubscribed, NotServed
<1> QED
  BY <1>3, <1>4, <1>5, <1>6 DEF FrameTypes

LEMMA AnswerFrameInv ==
  ASSUME FrameInv, NEW src \in Sources, Answer(src)
  PROVE  FrameInv'
<1>1. /\ UNCHANGED <<objects, items, scoped, feed>>
      /\ feed # NoStream
      /\ objects \subseteq Objects /\ served \in [Sources -> {"no", "asked", "fed"}]
  BY DEF Answer, CollectionVars, FrameInv, FrameTypes, FedIsSubscribed, NotServed
<1>2. CASE Send(src, Snapshot(Held(src))) /\ served' = [served EXCEPT ![src] = "fed"]
  <2> DEFINE f == Snapshot(Held(src))
  <2>1. f \in Frame /\ f.list \subseteq Of(src)
        /\ \A o \in Of(src) : Tells(f, o) /\ (Says(f, o) <=> o \in objects)
    BY <1>1 DEF Snapshot, Held, Frame, Of, Tells, Says
  <2>2. wire' = [wire EXCEPT ![src] = Append(@, f)]
    BY <1>2 DEF Send
  <2>3. served' \in [Sources -> {"no", "asked", "fed"}]
        /\ \A s \in Sources \ {src} : served'[s] = served[s]
    BY <1>1, <1>2
  <2> HIDE DEF f
  <2> QED
    BY <1>1, <2>1, <2>2, <2>3, SendKeeps
<1>3. CASE Send(src, ErrorFrame) /\ served' = [served EXCEPT ![src] = "no"]
  <2>1. ErrorFrame \in Frame /\ ErrorFrame.list \subseteq Of(src)
    BY DEF ErrorFrame, Frame
  <2>2. wire' = [wire EXCEPT ![src] = Append(@, ErrorFrame)]
    BY <1>3 DEF Send
  <2>3. served' \in [Sources -> {"no", "asked", "fed"}] /\ served'[src] = "no"
        /\ \A s \in Sources \ {src} : served'[s] = served[s]
    BY <1>1, <1>3
  <2> QED
    BY <1>1, <2>1, <2>2, <2>3, SendKeeps
<1> QED
  BY <1>2, <1>3 DEF Answer

LEMMA ObjectChangesFrameInv ==
  ASSUME FrameInv, NEW o \in Objects, ObjectChanges(o)
  PROVE  FrameInv'
<1> DEFINE src == SourceOf[o]
           f == Delta(IF o \in objects THEN "delete" ELSE "add", o)
<1>1. /\ src \in Sources
      /\ UNCHANGED <<items, scoped, feed, served>>
      /\ objects' = IF o \in objects THEN objects \ {o} ELSE objects \cup {o}
      /\ objects \subseteq Objects /\ objects' \subseteq Objects
      /\ served \in [Sources -> {"no", "asked", "fed"}]
      /\ served = NotServed \/ feed # NoStream
  BY DEF ObjectChanges, CollectionVars, FrameInv, FrameTypes, FedIsSubscribed
<1>2. \A p \in Objects \ {o} : p \in objects' <=> p \in objects
  BY <1>1
<1>3. CASE served[src] = "fed" /\ Send(src, f)
  <2>1. f \in Frame /\ f.list \subseteq Of(src)
    BY <1>1 DEF Delta, Frame, Of
  <2>2. Tells(f, o) /\ (Says(f, o) <=> o \in objects')
    BY <1>1 DEF Delta, Tells, Says
  <2>3. \A p \in Objects \ {o} : ~Tells(f, p)
    BY DEF Delta, Tells
  <2>4. wire' = [wire EXCEPT ![src] = Append(@, f)]
    BY <1>3 DEF Send
  <2> HIDE DEF f
  <2>5. \A p \in Of(src) : IF Tells(f, p) THEN Says(f, p) <=> p \in objects'
                          ELSE served[src] = "fed" /\ (p \in objects' <=> p \in objects)
    BY <1>2, <1>3, <2>2, <2>3 DEF Of
  <2>6. \A s \in Sources \ {src} : \A p \in Of(s) : p \in objects' <=> p \in objects
    BY <1>2 DEF Of
  <2> HIDE DEF src
  <2> QED
    BY <1>1, <2>1, <2>4, <2>5, <2>6, SendKeeps
<1>4. CASE served[src] # "fed" /\ UNCHANGED wire
  <2>1. \A s \in Sources : served[s] = "fed" =>
           \A p \in Of(s) : p \in objects' <=> p \in objects
    BY <1>2, <1>4 DEF Of
  <2>2. Exact'
    BY <1>1, <1>4, <2>1 DEF Exact, ShownIsTrue, LastFrameIsTrue, FrameInv, Of
  <2> QED
    BY <1>1, <1>4, <2>2 DEF FrameInv, FrameTypes, OwnObjects, NoGhosts, FedIsSubscribed
<1> QED
  BY <1>3, <1>4 DEF ObjectChanges

\* Pause and removal end feeds; what is under way stays.
LEMMA ServerChangesFrameInv ==
  ASSUME FrameInv, NEW state \in ServerState, ServerChanges(state)
  PROVE  FrameInv'
<1> USE DEF FrameInv
<1>1. UNCHANGED <<objects, items, scoped, feed, wire>>
  BY DEF ServerChanges, CollectionVars
<1>2. \A s \in Sources : served'[s] \in {served[s], "no"}
  BY DEF ServerChanges
<1>3. served' \in [Sources -> {"no", "asked", "fed"}] /\ (served = NotServed => served' = NotServed)
  BY DEF ServerChanges, FrameTypes, NotServed
<1>4. Exact'
  BY <1>1, <1>2 DEF Exact, ShownIsTrue, LastFrameIsTrue
<1> QED
  BY <1>1, <1>3, <1>4 DEF FrameTypes, OwnObjects, NoGhosts, FedIsSubscribed, NotServed

\* A new collection starts empty, with nothing fed.
LEMMA RenderFrameInv ==
  ASSUME FrameInv, NoneIsEmpty, NEW v \in Views, Render(v)
  PROVE  FrameInv'
<1>1. UNCHANGED <<objects, feed, served, wire>>
  BY DEF Render
<1>2. CASE entry
  BY <1>1, <1>2, FrameFrame DEF Render, frameVars
<1>3. CASE ~entry
  <2>1. items' = {} /\ scoped' = Nothing /\ served = NotServed
    BY <1>3 DEF Render, NoneIsEmpty, FrameInv, FedIsSubscribed
  <2>2. Nothing \in [Sources -> SUBSET Objects] /\ \A src \in Sources : Nothing[src] = {}
    BY DEF Nothing
  <2>3. FrameTypes'
    BY <1>1, <2>1, <2>2 DEF FrameInv, FrameTypes
  <2>4. OwnObjects' /\ NoGhosts' /\ FedIsSubscribed'
    BY <1>1, <2>1, <2>2 DEF FrameInv, OwnObjects, NoGhosts, FedIsSubscribed
  <2>5. Exact'
    BY <1>1, <2>1 DEF Exact, NotServed
  <2> QED
    BY <2>3, <2>4, <2>5 DEF FrameInv
<1> QED
  BY <1>2, <1>3

LEMMA StepFrameInv ==
  ASSUME FrameInv, Kept, StreamTypeOK, StreamTypeOK', [Next]_vars
  PROVE  FrameInv'
<1> USE DEF CollectionVars, frameVars
<1>1. ASSUME NEW v \in Views, Render(v) PROVE FrameInv'
  BY <1>1, RenderFrameInv DEF Kept
<1>2. ASSUME NEW v \in Views, Watch(v) \/ Unmount(v) PROVE FrameInv'
  <2>1. UNCHANGED <<frameVars, feed>>
    BY <1>2 DEF Watch, Unmount
  <2> QED
    BY <2>1, FrameFrame
<1>3. ASSUME NEW v \in Views, Subscribe(v) PROVE FrameInv'
  <2>1. feed' # NoStream
    BY <1>3 DEF Subscribe, GetStream, Create, StreamTypeOK, streamVars
  <2>2. served' \in {NotServed, Asked}
    BY <1>3 DEF Subscribe, SubscribeOn, FrameInv, FedIsSubscribed
  <2>3. UNCHANGED <<objects, items, scoped, wire>>
    BY <1>3 DEF Subscribe
  <2> QED
    BY <2>1, <2>2, <2>3, NotFedKeeps
<1>4. CASE TeardownTimer
  <2>1. UNCHANGED <<objects, items, scoped>>
    BY <1>4 DEF TeardownTimer
  <2>2. CASE UNCHANGED <<feed, served, wire>>
    BY <2>1, <2>2, FrameFrame
  <2>3. CASE served' = NotServed /\ wire' = NoFrames
    BY <2>1, <2>3, NotFedKeeps
  <2> QED
    BY <1>4, <2>2, <2>3 DEF TeardownTimer, Unsubscribed
<1>5. CASE SnapshotTimeout \/ StreamElse \/ UNCHANGED vars
  <2>1. UNCHANGED <<frameVars, feed>>
    BY <1>5 DEF SnapshotTimeout, StreamElse, listVars, vars
  <2> QED
    BY <2>1, FrameFrame
<1>6. ASSUME NEW s \in Streams, StreamOpens(s) \/ StreamDies(s) \/ StreamFails(s)
      PROVE  FrameInv'
  <2>1. UNCHANGED <<objects, items, scoped, feed>>
    BY <1>6 DEF StreamOpens, StreamDies, StreamFails
  <2>2. CASE UNCHANGED <<served, wire>>
    BY <2>1, <2>2, FrameFrame
  <2>3. CASE s = feed /\ served' = Asked /\ UNCHANGED wire
    BY <2>1, <2>3, NotFedKeeps
  <2>4. CASE served' = NotServed /\ wire' = NoFrames
    BY <2>1, <2>4, NotFedKeeps
  <2> QED
    BY <1>6, <2>2, <2>3, <2>4 DEF StreamOpens, StreamDies, StreamFails, Disconnected, Unsubscribed
<1>7. CASE StreamDestroyed
  <2>1. UNCHANGED <<objects, items, scoped, feed>>
    BY <1>7 DEF StreamDestroyed
  <2>2. CASE UNCHANGED <<served, wire>>
    BY <2>1, <2>2, FrameFrame
  <2>3. CASE served' = NotServed /\ wire' = NoFrames
    BY <2>1, <2>3, NotFedKeeps
  <2> QED
    BY <1>7, <2>2, <2>3 DEF StreamDestroyed, Disconnected, Unsubscribed
<1>8. ASSUME NEW src \in Sources, OnFrame(src) \/ Answer(src) PROVE FrameInv'
  BY <1>8, OnFrameInv, AnswerFrameInv
<1>9. ASSUME NEW o \in Objects, ObjectChanges(o) PROVE FrameInv'
  BY <1>9, ObjectChangesFrameInv
<1>10. ASSUME NEW state \in ServerState, ServerChanges(state) PROVE FrameInv'
  BY <1>10, ServerChangesFrameInv
<1> QED
  BY <1>1, <1>2, <1>3, <1>4, <1>5, <1>6, <1>7, <1>8, <1>9, <1>10 DEF Next

LEMMA FrameInvariant == Spec => []FrameInv
<1>1. Spec => []StreamTypeOK
  BY ListsUseThePool, StreamTypeCorrect
<1> QED
  BY InitFrameInv, StepFrameInv, KeptInvariant, <1>1, PTL DEF Spec

-----------------------------------------------------------------------------
(* The subscription.                                                       *)

\* A subscription is at the pooled object, or that was destroyed under it; the
\* server's side of it, and frames, are there only while its socket is open; and
\* an object that gave up said so.
Nothingness == served = NotServed /\ wire = NoFrames
AtThePool == feed # NoStream /\ ~severed => feed = pool
SeveredIsNotPooled == severed => feed # NoStream /\ feed # pool
FedByOpen == ~Nothingness => feed # NoStream /\ feed = pool /\ stream[feed].socket = "open"
DeadIsTold == feed # NoStream /\ feed = pool /\ stream[feed].dead => phase = "failed"
FeedInv == AtThePool /\ SeveredIsNotPooled /\ FedByOpen /\ DeadIsTold /\ severed \in BOOLEAN

LEMMA InitFeedInv == Init => FeedInv
BY DEF Init, FeedInv, AtThePool, SeveredIsNotPooled, FedByOpen, DeadIsTold, Nothingness

\* A step that is not the subscription's: its object is not taken from the pool,
\* does not lose an open socket and does not give up.
LEMMA FeedFrame ==
  ASSUME FeedInv, UNCHANGED <<feed, severed>>,
         feed # NoStream => /\ (pool = feed <=> pool' = feed)
                            /\ stream'[feed].dead => stream[feed].dead
                            /\ stream[feed].socket = "open" => stream'[feed].socket = "open",
         Nothingness => Nothingness',
         feed # NoStream /\ stream[feed].dead /\ feed = pool => (phase = "failed" => phase' = "failed")
  PROVE  FeedInv'
BY DEF FeedInv, AtThePool, SeveredIsNotPooled, FedByOpen, DeadIsTold

\* A handler that leaves the server's side alone only moves other objects, or
\* the timer and the question of this one.
LEMMA StepFeedInv ==
  ASSUME FeedInv, Kept, IInv, IInv', FrameTypes, [Next]_vars
  PROVE  FeedInv'
<1> USE DEF CollectionVars
<1>0. /\ stream \in [Streams -> StreamState] /\ feed \in born \cup {NoStream} /\ born \subseteq Streams
      /\ pool \in born \cup {NoStream}
  BY DEF Kept, ViewTypes, IInv, StreamTypeOK
<1>1. ASSUME NEW v \in Views, Render(v) PROVE FeedInv'
  <2>1. feed # NoStream => entry
    BY DEF Kept, NoneIsEmpty
  <2>2. /\ UNCHANGED <<streamVars, feed, severed, served, wire>> /\ (entry => phase' = phase)
    BY <1>1 DEF Render
  <2>3. QED
    BY <2>1, <2>2 DEF streamVars, FeedInv, AtThePool, SeveredIsNotPooled, FedByOpen, DeadIsTold, Nothingness
<1>2. ASSUME NEW v \in Views, Watch(v) \/ Unmount(v) PROVE FeedInv'
  <2>1. UNCHANGED <<streamVars, feed, severed, served, wire, phase>>
    BY <1>2 DEF Watch, Unmount
  <2>2. QED
    BY <2>1 DEF streamVars, FeedInv, AtThePool, SeveredIsNotPooled, FedByOpen, DeadIsTold, Nothingness
<1>3. ASSUME NEW v \in Views, Subscribe(v) PROVE FeedInv'
  <2>1. feed = NoStream /\ severed = FALSE /\ Nothingness
    BY <1>3 DEF Subscribe, FeedInv, SeveredIsNotPooled, FedByOpen
  <2>2. severed' = FALSE /\ feed' = pool' /\ wire' = NoFrames /\ stream' = stream
    BY <1>3, <2>1 DEF Subscribe, GetStream, streamVars, Nothingness
  <2>3. CASE pool # NoStream /\ SubscribeOn(stream[pool]) /\ UNCHANGED streamVars
    <3>1. feed' = pool /\ pool' = pool /\ pool # NoStream /\ stream' = stream
      BY <2>2, <2>3 DEF streamVars
    <3>2. stream[pool].dead => phase' = "failed"
      BY <2>3 DEF SubscribeOn
    <3>3. ~Nothingness' => stream[pool].socket = "open"
      BY <2>1, <2>2, <2>3 DEF SubscribeOn, Nothingness, NotServed, NoFrames
    <3> QED
      BY <2>2, <3>1, <3>2, <3>3 DEF FeedInv, AtThePool, SeveredIsNotPooled, FedByOpen, DeadIsTold
  <2>4. CASE GetStream /\ UNCHANGED <<phase, served>>
    <3>1. pool' \in Streams \ born
      BY <2>4 DEF GetStream, Create
    <3>2. stream[pool'] = NewStream
      BY <3>1 DEF IInv, PoolOwns
    <3>3. ~stream[pool'].dead
      BY <3>2, NewIsHealthy
    <3>4. Nothingness'
      BY <2>1, <2>2, <2>4 DEF Nothingness, NotServed, NoFrames
    <3>5. QED
      BY <2>2, <3>3, <3>4 DEF FeedInv, AtThePool, SeveredIsNotPooled, FedByOpen, DeadIsTold
  <2>5. QED
    BY <1>3, <2>3, <2>4 DEF Subscribe
<1>4. CASE TeardownTimer
  <2>1. UNCHANGED <<streamVars, phase>>
    BY <1>4 DEF TeardownTimer
  <2>2. CASE UNCHANGED <<feed, served, wire, severed>>
    BY <2>1, <2>2 DEF streamVars, FeedInv, AtThePool, SeveredIsNotPooled, FedByOpen, DeadIsTold, Nothingness
  <2>3. CASE feed' = NoStream /\ severed' = FALSE /\ Unsubscribed
    BY <2>3 DEF Unsubscribed, FeedInv, AtThePool, SeveredIsNotPooled, FedByOpen, DeadIsTold, Nothingness,
                NotServed, NoFrames
  <2>4. QED
    BY <1>4, <2>2, <2>3 DEF TeardownTimer
<1>5. CASE SnapshotTimeout \/ UNCHANGED vars
  <2>1. UNCHANGED <<streamVars, feed, severed, served, wire>> /\ (phase = "failed" => phase' = "failed")
    BY <1>5 DEF SnapshotTimeout, vars, listVars
  <2>2. QED
    BY <2>1 DEF streamVars, FeedInv, AtThePool, SeveredIsNotPooled, FedByOpen, DeadIsTold, Nothingness
<1>6. ASSUME NEW s \in Streams, StreamOpens(s) PROVE FeedInv'
  <2>1. /\ s \in born /\ stream[s].socket = "connecting"
        /\ stream' = [stream EXCEPT ![s].socket = "open", ![s].everConnected = TRUE, ![s].connected = TRUE]
        /\ UNCHANGED <<pool, feed, severed, phase, wire>>
        /\ served' = IF s = feed THEN Asked ELSE served
    BY <1>6 DEF StreamOpens, OnOpen, UnchangedPool
  <2>2. ~stream[s].dead /\ s = pool
    BY <2>1 DEF IInv, Healthy, PoolOwns
  <2>3. stream'[s].socket = "open" /\ ~stream'[s].dead /\ \A t \in Streams : t # s => stream'[t] = stream[t]
    BY <1>0, <2>1, <2>2
  <2>4. CASE s = feed
    BY <2>1, <2>2, <2>3, <2>4 DEF FeedInv, AtThePool, SeveredIsNotPooled, FedByOpen, DeadIsTold, Nothingness
  <2>5. CASE s # feed
    <3>1. feed # NoStream => stream'[feed] = stream[feed]
      BY <1>0, <2>3, <2>5
    <3> QED
      BY <2>1, <2>5, <3>1 DEF FeedInv, AtThePool, SeveredIsNotPooled, FedByOpen, DeadIsTold, Nothingness
  <2> QED
    BY <2>4, <2>5
<1>7. ASSUME NEW s \in Streams, StreamFails(s) PROVE FeedInv'
  <2>1. /\ s \in born /\ stream' = [stream EXCEPT ![s].socket = "closing"]
        /\ UNCHANGED <<pool, feed, severed, phase>>
        /\ IF s = feed THEN Unsubscribed ELSE UNCHANGED <<served, wire>>
    BY <1>7 DEF StreamFails, SocketFails, UnchangedPool, Disconnected
  <2>2. /\ stream'[s].dead = stream[s].dead
        /\ \A t \in Streams : t # s => stream'[t] = stream[t]
    BY <1>0, <2>1
  <2>3. CASE s = feed
    <3>1. Nothingness'
      BY <2>1, <2>3 DEF Unsubscribed, Nothingness, NotServed, NoFrames
    <3> QED
      BY <2>1, <2>2, <2>3, <3>1 DEF FeedInv, AtThePool, SeveredIsNotPooled, FedByOpen, DeadIsTold
  <2>4. CASE s # feed
    <3>1. feed # NoStream => stream'[feed] = stream[feed]
      BY <1>0, <2>2, <2>4
    <3> QED
      BY <2>1, <2>4, <3>1 DEF FeedInv, AtThePool, SeveredIsNotPooled, FedByOpen, DeadIsTold, Nothingness
  <2> QED
    BY <2>3, <2>4
<1>8. ASSUME NEW s \in Streams, StreamDies(s) PROVE FeedInv'
  <2>1. /\ s \in born /\ stream[s].check = "gone"
        /\ stream' = [stream EXCEPT ![s] = Dead([@ EXCEPT !.check = "no"])]
        /\ UNCHANGED <<pool, feed, severed, served, wire>>
        /\ phase' = IF s = feed THEN "failed" ELSE phase
    BY <1>8 DEF StreamDies, DeclareDead, UnchangedPool
  <2>2. stream[s].socket # "open"
    BY <2>1 DEF IInv, Healthy, OnePursuit
  <2>3. \A t \in Streams : t # s => stream'[t] = stream[t]
    BY <1>0, <2>1
  <2>4. CASE s = feed
    <3>1. Nothingness
      BY <2>2, <2>4 DEF FeedInv, FedByOpen
    <3>2. Nothingness' /\ phase' = "failed"
      BY <2>1, <2>4, <3>1 DEF Nothingness
    <3> QED
      BY <2>1, <3>2 DEF FeedInv, AtThePool, SeveredIsNotPooled, FedByOpen, DeadIsTold
  <2>5. CASE s # feed
    <3>1. feed # NoStream => stream'[feed] = stream[feed]
      BY <1>0, <2>3, <2>5
    <3> QED
      BY <2>1, <2>5, <3>1 DEF FeedInv, AtThePool, SeveredIsNotPooled, FedByOpen, DeadIsTold, Nothingness
  <2> QED
    BY <2>4, <2>5
<1>9. CASE StreamDestroyed
  <2>1. /\ pool # NoStream /\ UNCHANGED <<feed, phase>>
        /\ severed' = (severed \/ pool = feed)
        /\ IF pool = feed THEN Unsubscribed ELSE UNCHANGED <<served, wire>>
    BY <1>9 DEF StreamDestroyed, Destroy, Disconnected
  <2>2. pool' = NoStream \/ pool' \in Streams \ born
    BY <1>9 DEF StreamDestroyed, Destroy, Rebind, Create
  <2>3. feed # NoStream => feed # pool'
    BY <1>0, <2>2
  <2>4. feed # NoStream => severed'
    BY <2>1 DEF FeedInv, AtThePool
  <2>5. Nothingness'
    <3>1. CASE pool = feed
      BY <2>1, <3>1 DEF Unsubscribed, Nothingness, NotServed, NoFrames
    <3>2. CASE pool # feed
      BY <2>1, <3>2 DEF FeedInv, FedByOpen, Nothingness
    <3> QED
      BY <3>1, <3>2
  <2>6. severed' => feed # NoStream
    BY <2>1 DEF FeedInv, SeveredIsNotPooled
  <2> QED
    BY <2>1, <2>3, <2>4, <2>5, <2>6 DEF FeedInv, AtThePool, SeveredIsNotPooled, FedByOpen, DeadIsTold
<1>10. CASE StreamElse
  <2>1. UNCHANGED <<feed, severed, served, wire, phase, entry>>
    BY <1>10 DEF StreamElse, listVars
  <2>2. Nothingness => Nothingness'
    BY <2>1 DEF Nothingness
  <2>3. ASSUME NEW s \in Streams, OnClose(s) \/ CheckAnswered(s) \/ CheckRetries(s) \/ ReconnectTimer(s)
        PROVE  FeedInv'
    <3>1. UNCHANGED pool /\ s \in born /\ stream[s].socket # "open"
      BY <2>3 DEF OnClose, CheckAnswered, CheckRetries, ReconnectTimer, UnchangedPool, IInv, Healthy, OnePursuit,
                  PoolOwns, AbsenceRecorded
    <3>2. \A t \in Streams : t # s => stream'[t] = stream[t]
      BY <1>0, <2>3 DEF OnClose, CheckAnswered, CheckRetries, ReconnectTimer
    <3>3. stream'[s].dead => stream[s].dead
      <4>1. CASE OnClose(s)
        <5>1. PICK fast \in BOOLEAN : stream'[s] = Closed(stream[s], fast)
          BY <1>0, <3>1, <4>1 DEF OnClose
        <5>2. Closed(stream[s], fast).dead = stream[s].dead
          BY <3>1, <4>1, ClosedIsHealthy DEF OnClose, IInv
        <5> QED
          BY <5>1, <5>2
      <4>2. CASE CheckAnswered(s)
        BY <1>0, <3>1, <4>2 DEF CheckAnswered
      <4>3. CASE CheckRetries(s)
        BY <1>0, <3>1, <4>3 DEF CheckRetries, Rescheduled
      <4>4. CASE ReconnectTimer(s)
        BY <1>0, <3>1, <4>4 DEF ReconnectTimer, Reconnected
      <4> QED
        BY <2>3, <4>1, <4>2, <4>3, <4>4
    <3>4. feed # NoStream => (stream'[feed].dead => stream[feed].dead)
      BY <1>0, <3>2, <3>3
    <3>5. feed # NoStream /\ stream[feed].socket = "open" => stream'[feed].socket = "open"
      BY <1>0, <3>1, <3>2
    <3> QED
      BY <2>1, <2>2, <3>1, <3>4, <3>5, FeedFrame
  <2>4. CASE GetStream \/ MountHook \/ UnmountHook
    <3>1. /\ UNCHANGED stream
          /\ pool' = pool \/ (pool = NoStream /\ pool' \in Streams \ born)
      BY <2>4 DEF GetStream, MountHook, UnmountHook, Create
    <3>2. feed # NoStream => (pool = feed <=> pool' = feed)
      BY <1>0, <3>1
    <3> QED
      BY <2>1, <2>2, <3>1, <3>2, FeedFrame
  <2> QED
    BY <1>10, <2>3, <2>4 DEF StreamElse
<1>11. ASSUME NEW src \in Sources, OnFrame(src) PROVE FeedInv'
  <2>1. UNCHANGED <<streamVars, feed, severed, served>> /\ wire[src] # <<>>
    BY <1>11 DEF OnFrame
  <2>2. ~Nothingness
    BY <2>1 DEF Nothingness, NoFrames
  <2>3. feed # NoStream /\ feed = pool /\ ~stream[feed].dead /\ stream[feed].socket = "open"
    BY <1>0, <2>2 DEF FeedInv, FedByOpen, IInv, Healthy
  <2> QED
    BY <2>1, <2>3 DEF streamVars, FeedInv, AtThePool, SeveredIsNotPooled, FedByOpen, DeadIsTold
<1>12. ASSUME NEW src \in Sources, Answer(src) PROVE FeedInv'
  <2>1. UNCHANGED <<streamVars, feed, severed, phase>> /\ served[src] = "asked"
    BY <1>12 DEF Answer
  <2>2. ~Nothingness
    BY <2>1 DEF Nothingness, NotServed
  <2> QED
    BY <2>1, <2>2 DEF streamVars, FeedInv, AtThePool, SeveredIsNotPooled, FedByOpen, DeadIsTold
<1>13. ASSUME NEW o \in Objects, ObjectChanges(o) PROVE FeedInv'
  <2>1. UNCHANGED <<streamVars, feed, severed, phase, served>>
    BY <1>13 DEF ObjectChanges
  <2>2. Nothingness => Nothingness'
    BY <1>13, SourceOfAssumption DEF ObjectChanges, Nothingness, NotServed
  <2> QED
    BY <2>1, <2>2 DEF streamVars, FeedInv, AtThePool, SeveredIsNotPooled, FedByOpen, DeadIsTold
<1>14. ASSUME NEW state \in ServerState, ServerChanges(state) PROVE FeedInv'
  <2>1. UNCHANGED <<stream, pool, feed, severed, phase, wire>>
    BY <1>14 DEF ServerChanges, ServerBecomes
  <2>2. Nothingness => Nothingness'
    BY <1>14 DEF ServerChanges, Nothingness, NotServed
  <2> QED
    BY <2>1, <2>2 DEF FeedInv, AtThePool, SeveredIsNotPooled, FedByOpen, DeadIsTold
<1> QED
  BY <1>1, <1>2, <1>3, <1>4, <1>5, <1>6, <1>7, <1>8, <1>9, <1>10, <1>11, <1>12, <1>13, <1>14 DEF Next

LEMMA FeedInvariant == Spec => []FeedInv
<1>1. Spec => []IInv
  BY ListsUseThePool, StreamInvariant
<1>2. FrameInv => FrameTypes
  BY DEF FrameInv
<1> QED
  BY InitFeedInv, StepFeedInv, KeptInvariant, FrameInvariant, <1>1, <1>2, PTL DEF Spec

\* Once an effect of the hook ran, the collection's handlers are at the pooled
\* stream object, or the views were told that it gave up; only a stream that
\* was destroyed under the list leaves it without either.
THEOREM SubscriptionsStayLive == Spec => []SubscriptionIsLive
<1>1. Kept /\ FeedInv => SubscriptionIsLive
  BY DEF Kept, HasSubscription, FeedInv, AtThePool, SeveredIsNotPooled, FedByOpen, DeadIsTold,
         Nothingness, SubscriptionIsLive
<1> QED
  BY <1>1, KeptInvariant, FeedInvariant, PTL

\* The collection, its subscription and its teardown follow the views.
THEOREM SubscriptionsFollowUse == Spec => []SubscriptionsMatchUse
BY UsedAreKept, SubscriptionsStayLive, UnusedAreDropped, PTL DEF SubscriptionsMatchUse

-----------------------------------------------------------------------------
(* Theorems.                                                               *)

\* Every variable keeps its type.
THEOREM ListTypeCorrect == Spec => []TypeOK
<1>1. Spec => []StreamTypeOK
  BY ListsUseThePool, StreamTypeCorrect
<1>2. StreamTypeOK /\ Kept /\ FrameInv /\ FeedInv => TypeOK
  BY Zenon DEF TypeOK, Kept, ViewTypes, FrameInv, FrameTypes, FeedInv
<1> QED
  BY <1>1, <1>2, KeptInvariant, FrameInvariant, FeedInvariant, PTL

\* Whatever snapshots, changes and reconnects of several namespaces do to the
\* list, it shows what some namespace still contributes and nothing else.
THEOREM NoGhostsEver == Spec => []NoGhosts
<1>1. FrameInv => NoGhosts
  BY DEF FrameInv
<1> QED
  BY <1>1, FrameInvariant, PTL

\* A list that the server feeds shows, once the frames under way are handled,
\* what the server holds: nothing missed, nothing stale, after any reconnect.
THEOREM ListIsExact == Spec => []FedListIsExact
<1>1. FrameInv => FedListIsExact
  <2> SUFFICES ASSUME FrameInv, \A src \in Sources : served[src] = "fed" /\ wire[src] = <<>>
               PROVE  items = objects
    BY DEF FedListIsExact
  <2>1. ASSUME NEW o \in Objects PROVE o \in items <=> o \in objects
    <3>1. SourceOf[o] \in Sources /\ o \in Of(SourceOf[o]) /\ Len(wire[SourceOf[o]]) = 0
      BY DEF Of
    <3>2. ShownIsTrue(SourceOf[o], o)
      BY <3>1 DEF FrameInv, Exact
    <3> QED
      BY <3>1, <3>2 DEF ShownIsTrue
  <2> QED
    BY <2>1 DEF FrameInv, FrameTypes
<1> QED
  BY <1>1, FrameInvariant, PTL

\* Both: no ghosts, and nothing missed once the wire is quiet.
THEOREM ListsStayFaithful == Spec => []ListsAreFaithful
BY NoGhostsEver, ListIsExact, PTL DEF ListsAreFaithful
=============================================================================
