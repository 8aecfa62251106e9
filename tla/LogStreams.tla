----------------------------- MODULE LogStreams -----------------------------
(***************************************************************************)
(* frontend/src/lib/logStreams.ts and pages/PodLogsPage.tsx: the pool of    *)
(* pod-log streams, and the page over it, which shows one source at a time, *)
(* asks for a longer tail, clears, and reconnects by hand; it reconnects by *)
(* itself a stream that ended under a container that is not final; the      *)
(* whole page may be reloaded. A stream is named by its source (pod,        *)
(* container, previous) and owns one socket at a time, a retry timer and a  *)
(* ring of lines. The handlers of a socket close over the stream object,    *)
(* not over the socket they belong to, and a socket that was closed still   *)
(* reports its close later.                                                 *)
(*                                                                         *)
(* Of the lines only their kinds matter here: a new line, a repeated line   *)
(* that pushLine drops, the text of a failed request (LogRing models what    *)
(* the ring holds). Every caller follows the log, so the branches for        *)
(* follow = false are never taken; the back-off only sets a timer's length.  *)
(***************************************************************************)
EXTENDS Integers, Sequences, FiniteSets

CONSTANTS
    Sources,      \* the streams' keys
    FinalSources, \* the sources whose container has ended (previous instances)
    MaxStreams,   \* MAX_STREAMS, and PERSIST_MAX_STREAMS
    GiveUp,       \* FAST_EMPTY_GIVEUP
    MaxSockets,   \* bound: sockets the browser holds at once
    MaxLoose      \* bound: armed timers a stream has lost the handle of

ASSUME LogAssumption ==
    /\ FinalSources \subseteq Sources
    /\ {MaxStreams, GiveUp, MaxSockets} \subseteq Nat \ {0} /\ MaxLoose \in Nat

VARIABLES
    stream,   \* pool: key -> stream object, or None
    touched,  \* the pooled keys by lastTouchedAt, oldest first
    watched,  \* the keys with a subscriber
    loose,    \* armed reconnect timers that retryTimer no longer names
    socket,   \* the browser's WebSocket objects
    phase,    \* the container: "starting", "running", "done"; the pod: "gone"
    sel,      \* the source of optsList, or NoSource while no page is mounted
    tried     \* autoReconnectKeysRef

logVars == <<stream, touched, watched, loose, socket, phase>>
pageVars == <<sel, tried>>
logsVars == <<logVars, pageVars>>
NoSource == "no source"

None == [st |-> "none"]
NoSocket == [ph |-> "none"]
Sockets == 1..MaxSockets
Pooled == {k \in Sources : stream[k] # None}
LiveStates == {"connecting", "streaming", "waiting", "reconnecting"}

Touch(k) == Append(SelectSeq(touched, LAMBDA x : x # k), k)

(* holds: the ring is not empty *)
NewStream ==
    [st |-> "connecting", ws |-> 0, timer |-> FALSE, holds |-> FALSE,
     opened |-> FALSE, data |-> FALSE, transient |-> FALSE, fresh |-> FALSE, empty |-> 0]

(* What reconnect resets before it connects; a refetch also drops the lines *)
Restarted(s) ==
    [s EXCEPT !.st = "connecting", !.data = FALSE, !.transient = FALSE, !.empty = 0,
              !.opened = FALSE, !.fresh = FALSE, !.ws = 0, !.timer = FALSE]
Cleared(s) == [s EXCEPT !.holds = FALSE]

-----------------------------------------------------------------------------
(* The sockets, as functions of the ones there are *)
Free(socks) == {i \in Sockets : socks[i] = NoSocket}
Lowest(S) == CHOOSE i \in S : \A j \in S : i <= j
Closing(socks, i) == IF i = 0 THEN socks ELSE [socks EXCEPT ![i].ph = "closing"]
Without(socks, keys) == [i \in Sockets |-> IF socks[i] # NoSocket /\ socks[i].of \in keys THEN NoSocket ELSE socks[i]]

(* connect(s): s as its caller leaves it *)
Connected(s, i) ==
    [s EXCEPT !.st = IF @ = "reconnecting" THEN @ ELSE "connecting", !.ws = i,
              !.data = FALSE, !.transient = FALSE, !.opened = FALSE, !.fresh = FALSE]
Dialled(socks, k) == [socks EXCEPT ![Lowest(Free(socks))] = [ph |-> "dial", of |-> k, says |-> "lines"]]
LogConnect(k, s, socks) ==
    /\ Free(socks) # {}
    /\ stream' = [stream EXCEPT ![k] = Connected(s, Lowest(Free(socks)))]
    /\ socket' = Dialled(socks, k)

(* reconnect(key): the socket is closed, and its onclose is still to come   *)
Reconnect(k) == LogConnect(k, Restarted(stream[k]), Closing(socket, stream[k].ws))
(* setBufferCap in mode "refetch" *)
Refetch(k) == LogConnect(k, Restarted(Cleared(stream[k])), Closing(socket, stream[k].ws))

(* evictLRU after another has joined the pool: the oldest streams that nobody *)
(* watches, which are all of them, since the page has let go of the source    *)
(* before. It never comes to the new one, which has no subscriber yet, as it   *)
(* would under a page that shows more than MAX_STREAMS sources at once.        *)
Evicted ==
    LET over == Cardinality(Pooled) + 1 - MaxStreams
    IN {k \in Pooled : \E i \in DOMAIN touched : touched[i] = k /\ i <= over}

(* open(o) of a key that is not pooled; of a pooled one, which connects     *)
(* only when a reload left it "reconnecting" with nothing under way.        *)
OpenNew(k) ==
    LET gone == Evicted
        socks == Without(socket, gone)
    IN /\ k \notin Pooled /\ Free(socks) # {}
       /\ stream' = [x \in Sources |-> IF x = k THEN Connected(NewStream, Lowest(Free(socks)))
                                       ELSE IF x \in gone THEN None ELSE stream[x]]
       /\ socket' = Dialled(socks, k)
       /\ touched' = SelectSeq(Touch(k), LAMBDA x : x \notin gone)
       /\ loose' = [x \in Sources |-> IF x \in gone THEN 0 ELSE loose[x]]
OpenHeld(k) ==
    /\ k \in Pooled /\ touched' = Touch(k)
    /\ IF stream[k].ws = 0 /\ ~stream[k].timer /\ stream[k].st = "reconnecting"
       THEN Reconnect(k) ELSE UNCHANGED <<stream, socket>>
    /\ UNCHANGED loose

-----------------------------------------------------------------------------
LogInit ==
    /\ stream = [k \in Sources |-> None] /\ touched = <<>> /\ watched = {}
    /\ loose = [k \in Sources |-> 0] /\ socket = [i \in Sockets |-> NoSocket]
    /\ phase = "running"

(* The server accepts the upgrade: onopen. The answer's first frame tells   *)
(* what became of the request.                                              *)
OnOpen(i) ==
    LET k == socket[i].of
    IN /\ socket[i].ph = "dial"
       /\ \E says \in CASE phase = "gone" -> {"gone"} [] phase = "starting" /\ k \notin FinalSources -> {"starting"}
                        [] OTHER -> {"lines", "failed"} :
            socket' = [socket EXCEPT ![i].ph = "open", ![i].says = says]
       /\ stream' = [stream EXCEPT ![k].st = "streaming", ![k].opened = TRUE]
       /\ UNCHANGED <<touched, watched, loose, phase>>

(* onmessage with a new line, or with one that pushLine drops: the server   *)
(* repeats the newest line it is asked to continue after, and an ended      *)
(* container has no other.                                                  *)
LogPayload(s, new) ==
    IF new THEN [s EXCEPT !.data = TRUE, !.fresh = TRUE, !.empty = 0, !.st = "streaming", !.holds = TRUE]
    ELSE [s EXCEPT !.data = TRUE]
Line(i) ==
    LET k == socket[i].of
    IN /\ socket[i].ph = "open" /\ socket[i].says = "lines"
       /\ \E new \in BOOLEAN :
            /\ ~new => stream[k].holds
            /\ new /\ k \in FinalSources => ~stream[k].holds
            /\ stream' = [stream EXCEPT ![k] = LogPayload(@, new)]
            /\ touched' = IF new THEN Touch(k) ELSE touched
       /\ UNCHANGED <<watched, loose, socket, phase>>

(* onmessage with the text of a request that failed: for a deleted pod or a *)
(* container that is starting it is a state when it comes before any data;  *)
(* any other, and those after data, are lines that are always new.          *)
ErrorText(i) ==
    LET k == socket[i].of
        says == socket[i].says
        state == says # "failed" /\ ~stream[k].data
    IN /\ socket[i].ph = "open" /\ says \in {"gone", "starting", "failed"}
       /\ stream' = [stream EXCEPT ![k] =
            CASE state /\ says = "gone" -> [@ EXCEPT !.st = "pod-gone"]
              [] state /\ says = "starting" -> [@ EXCEPT !.transient = TRUE, !.st = "waiting"]
              [] OTHER -> LogPayload(@, TRUE)]
       /\ socket' = [socket EXCEPT ![i].says = "bye"]
       /\ touched' = IF state THEN touched ELSE Touch(k)
       /\ UNCHANGED <<watched, loose, phase>>

(* The retry timer of a stream is armed: its handle may be lost. *)
Armed(k, s) ==
    /\ s.timer => loose[k] < MaxLoose
    /\ loose' = IF s.timer THEN [loose EXCEPT ![k] = @ + 1] ELSE loose

(* onclose of any socket of the stream: of the one it has, which the server *)
(* dropped or refused, or of one that was closed before.                    *)
OnClose(i) ==
    LET k == socket[i].of
        s == [stream[k] EXCEPT !.ws = 0]
        retry == ~s.data /\ s.transient
    IN /\ socket[i].ph # "none"
       /\ socket' = [socket EXCEPT ![i] = NoSocket]
       /\ \E quick \in {q \in BOOLEAN : q => ~s.fresh /\ s.opened} :
            LET empty == IF quick THEN s.empty + 1 ELSE IF s.fresh THEN 0 ELSE s.empty
            IN \/ /\ s.st = "pod-gone" /\ ~quick
                  /\ stream' = [stream EXCEPT ![k] = s] /\ UNCHANGED loose
               \/ /\ s.st # "pod-gone" /\ retry /\ ~quick /\ Armed(k, s)
                  /\ stream' = [stream EXCEPT ![k] = [s EXCEPT !.timer = TRUE]]
               \/ /\ s.st # "pod-gone" /\ ~retry /\ empty >= GiveUp
                  /\ stream' = [stream EXCEPT ![k] = [s EXCEPT !.empty = GiveUp, !.st = "ended"]] /\ UNCHANGED loose
               \/ /\ s.st # "pod-gone" /\ ~retry /\ empty < GiveUp /\ Armed(k, s)
                  /\ stream' = [stream EXCEPT ![k] = [s EXCEPT !.empty = empty, !.st = "reconnecting", !.timer = TRUE]]
       /\ UNCHANGED <<touched, watched, phase>>

(* The callback of a retry timer clears the handle, whichever timer it was. *)
RetryTimer(k) ==
    /\ stream[k] # None /\ stream[k].timer
    /\ LogConnect(k, [stream[k] EXCEPT !.timer = FALSE], socket)
    /\ UNCHANGED <<touched, watched, loose, phase>>
LooseTimer(k) ==
    /\ stream[k] # None /\ loose[k] > 0
    /\ LogConnect(k, [stream[k] EXCEPT !.timer = FALSE], socket)
    /\ loose' = [loose EXCEPT ![k] = IF stream[k].timer THEN @ ELSE @ - 1]
    /\ UNCHANGED <<touched, watched, phase>>

(* The kubelet starts or ends the container, or the pod is deleted. *)
PodBecomes(p) ==
    /\ <<phase, p>> \in {<<"running", "starting">>, <<"starting", "running">>, <<"running", "done">>,
                         <<"running", "gone">>, <<"starting", "gone">>, <<"done", "gone">>}
    /\ phase' = p
    /\ UNCHANGED <<stream, touched, watched, loose, socket>>

StreamStep ==
    \/ \E i \in Sockets : OnOpen(i) \/ Line(i) \/ ErrorText(i) \/ OnClose(i)
    \/ \E k \in Sources : RetryTimer(k) \/ LooseTimer(k)
    \/ \E p \in {"starting", "running", "done", "gone"} : PodBecomes(p)

-----------------------------------------------------------------------------
(* The page *)
(* canReconnectLogStream: the container's state, from the pod, is not final *)
CanReconnect(k) == stream[k].st = "ended" /\ phase \in {"starting", "running"}

LogsInit == LogInit /\ sel = NoSource /\ tried = {}

(* The bundle subscribes to a source, after it let go of the one before. *)
Show(k) ==
    /\ k # sel
    /\ watched' = {k} /\ sel' = k
    /\ OpenNew(k) \/ OpenHeld(k)
    /\ UNCHANGED <<phase, tried>>
Leave ==
    /\ sel # NoSource
    /\ watched' = {} /\ sel' = NoSource /\ tried' = {}
    /\ UNCHANGED <<stream, touched, loose, socket, phase>>

(* A larger tail fetches the lines again; a smaller one, and the Buffer     *)
(* toggle, only resize the ring. Clear drops the lines and keeps the socket.*)
PickLargerTail ==
    /\ sel # NoSource /\ Refetch(sel) /\ touched' = Touch(sel)
    /\ UNCHANGED <<watched, loose, phase, pageVars>>
ClearLines ==
    /\ sel # NoSource /\ stream' = [stream EXCEPT ![sel] = Cleared(@)]
    /\ UNCHANGED <<touched, watched, loose, socket, phase, pageVars>>
ReconnectButton ==
    /\ sel # NoSource /\ CanReconnect(sel) /\ Reconnect(sel)
    /\ UNCHANGED <<touched, watched, loose, phase, pageVars>>

(* A render of the page, after a flush of the stream or a change of the pod:*)
(* the effect reconnects a stream that ended, once until it is seen alive.  *)
Render ==
    /\ sel # NoSource
    /\ \/ /\ CanReconnect(sel) /\ sel \notin tried
          /\ Reconnect(sel) /\ tried' = tried \cup {sel}
       \/ /\ stream[sel].st \in LiveStates /\ sel \in tried
          /\ tried' = tried \ {sel} /\ UNCHANGED <<stream, socket>>
    /\ UNCHANGED <<touched, watched, loose, phase, sel>>

(* persistAll on the way out, hydrateAll on the way in: the most recent     *)
(* streams come back with their lines and without a socket, the most recent *)
(* one first in the pool's order.                                           *)
Saved == LET n == Len(touched) IN {touched[i] : i \in {i \in 1..n : i > n - MaxStreams}}
(* Mutant of Hydrated: the status comes back as it was. *)
HydratedAsItWas(s) == [NewStream EXCEPT !.st = s.st, !.holds = s.holds]
Hydrated(s) ==
    [NewStream EXCEPT !.st = IF s.st = "pod-gone" THEN s.st ELSE "reconnecting", !.holds = s.holds]
ReloadLogs ==
    /\ touched # <<>>
    /\ stream' = [k \in Sources |-> IF k \in Saved THEN Hydrated(stream[k]) ELSE None]
    /\ touched' = LET q == SelectSeq(touched, LAMBDA k : k \in Saved) IN [i \in 1..Len(q) |-> q[Len(q) + 1 - i]]
    /\ socket' = [i \in Sockets |-> NoSocket] /\ loose' = [k \in Sources |-> 0]
    /\ watched' = {} /\ sel' = NoSource /\ tried' = {}
    /\ UNCHANGED phase

LogsNext ==
    \/ StreamStep /\ UNCHANGED pageVars
    \/ \E k \in Sources : Show(k)
    \/ Render \/ Leave \/ PickLargerTail \/ ClearLines \/ ReconnectButton \/ ReloadLogs

LogsSpec == LogsInit /\ [][LogsNext]_logsVars

-----------------------------------------------------------------------------
(* A stream that the page watches and that claims to be alive has something *)
(* under way that will change its state: a socket, a timer, a close to come.*)
NeverStalls ==
    \A k \in watched : stream[k].st \in LiveStates =>
        stream[k].timer \/ loose[k] > 0 \/ \E i \in Sockets : socket[i] # NoSocket /\ socket[i].of = k
=============================================================================
