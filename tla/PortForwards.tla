---------------------------- MODULE PortForwards ----------------------------
(***************************************************************************)
(* One port-forward session of the browser (frontend/src/lib/               *)
(* portForwards.ts, the row of PortForwardsPage.tsx) and the handler that    *)
(* runs it on the backend host (internal/api/portforward.go). The session    *)
(* owns a websocket; the forward lives as long as its websocket. A socket    *)
(* that was told to close reports it later, with the same callback that      *)
(* serves the socket which replaced it.                                      *)
(***************************************************************************)
EXTENDS Integers, Sequences

CONSTANT MaxDials   \* bound: sockets the session opens
ASSUME DialsAssumption == MaxDials \in Nat \ {0}

VARIABLES
    session,   \* listed, state, closed, err, ended (endedAt is set) and ws (0: null)
    dial,      \* per socket: the browser's readyState, the messages under way and
               \* whether the session on the list made it
    forward,   \* per socket: the handler on the server
    herald,    \* per socket: its goroutine that waits for the forward to be ready, and tells the browser
    orphaned,  \* history: sockets that the late close of another one took away from the session
    raced      \* history: Reconnect ran while an earlier socket had not reported its close

serverVars == <<forward, herald>>
histories == <<orphaned, raced>>
forwardVars == <<session, dial, serverVars, histories>>

Dials == 1..MaxDials
Unlisted == [listed |-> FALSE, state |-> "none", closed |-> FALSE, err |-> FALSE, ended |-> FALSE, ws |-> 0]
UnusedDials == {k \in Dials : dial[k].ready = "unused"}
NextDial == CHOOSE k \in UnusedDials : \A j \in UnusedDials : k <= j
Unreported == {k \in Dials : dial[k].mine /\ dial[k].ready \in {"connecting", "open", "closing"}}

ForwardInit ==
    /\ session = Unlisted /\ raced = FALSE /\ orphaned = {}
    /\ dial = [k \in Dials |-> [ready |-> "unused", sent |-> <<>>, mine |-> FALSE]]
    /\ forward = [k \in Dials |-> "none"] /\ herald = [k \in Dials |-> "none"]

-----------------------------------------------------------------------------
(* open and reconnect, each with the connect it ends in: the constructor of *)
(* the socket may throw.                                                     *)
HungUp(d) == IF session.ws = 0 THEN d ELSE [d EXCEPT ![session.ws].ready = IF @ = "closed" THEN @ ELSE "closing"]
ConnectFrom(d) ==
    \/ /\ UnusedDials # {}
       /\ session' = [Unlisted EXCEPT !.listed = TRUE, !.state = "connecting", !.ws = NextDial]
       /\ dial' = [d EXCEPT ![NextDial] = [ready |-> "connecting", sent |-> <<>>, mine |-> TRUE]]
    \/ /\ session' = [Unlisted EXCEPT !.listed = TRUE, !.state = "error", !.err = TRUE, !.ended = TRUE]
       /\ dial' = d
OpenForward == ~session.listed /\ ConnectFrom(dial) /\ UNCHANGED <<serverVars, histories>>
ReconnectForward ==
    /\ session.listed /\ session.state \in {"ended", "error"}
    /\ ConnectFrom(HungUp(dial))
    /\ raced' = (raced \/ Unreported # {})
    /\ UNCHANGED <<serverVars, orphaned>>

(* close: the Stop button; remove: also off the list *)
CloseSession ==
    [session EXCEPT !.closed = TRUE, !.ws = 0, !.ended = TRUE, !.state = IF @ = "running" THEN "ended" ELSE @]
StopForward ==
    /\ session.listed /\ session.state \in {"connecting", "running"}
    /\ session' = CloseSession /\ dial' = HungUp(dial) /\ UNCHANGED <<serverVars, histories>>
RemoveForward ==
    /\ session.listed
    /\ session' = Unlisted
    /\ dial' = [k \in Dials |-> [HungUp(dial)[k] EXCEPT !.mine = FALSE]]
    /\ UNCHANGED <<serverVars, histories>>

(* Callbacks of socket k. They write to the session object that made it;    *)
(* once it is removed nobody sees it.                                        *)
Heard(k, m) ==
    CASE m = "ready" -> [session EXCEPT !.state = "running"]
      [] m = "error" -> [session EXCEPT !.state = "error", !.err = TRUE]
      [] OTHER -> session
ForwardMessage(k) ==
    /\ dial[k].sent # <<>> /\ dial[k].ready \in {"open", "closing"}
    /\ dial' = [dial EXCEPT ![k].sent = Tail(@)]
    /\ session' = IF dial[k].ready = "open" /\ dial[k].mine THEN Heard(k, Head(dial[k].sent)) ELSE session
    /\ UNCHANGED <<serverVars, histories>>
(* onclose clears session.ws, whichever socket that is by now.                *)
SocketClosed(k) ==
    /\ dial[k].ready \in {"connecting", "open", "closing"}
    /\ dial[k].sent = <<>> /\ forward[k] \in {"none", "over"}
    /\ dial[k].ready = "open" => forward[k] = "over"
    /\ dial' = [dial EXCEPT ![k].ready = "closed"]
    /\ \E failed \in {dial[k].ready = "connecting", FALSE} :
         LET s == IF failed THEN [session EXCEPT !.state = "error", !.err = TRUE] ELSE session
         IN session' = IF ~dial[k].mine THEN session
                       ELSE [s EXCEPT !.ws = 0, !.ended = TRUE,
                                      !.state = IF @ = "error" \/ (@ # "running" /\ s.err) THEN "error" ELSE "ended"]
    /\ orphaned' = IF dial[k].mine THEN orphaned \cup ({session.ws} \ {0, k}) ELSE orphaned
    /\ UNCHANGED <<serverVars, raced>>

-----------------------------------------------------------------------------
(* podPortForward: the upgrade, then a dialer that may not be had, then the    *)
(* forward, which binds or fails. One goroutine stops it when the browser is    *)
(* gone, another waits for it to be ready and tells its port; it may tell it    *)
(* when all is over, and waits for ever if nothing was bound. The handler's      *)
(* return closes the connection.                                             *)
Tell(k, m) == dial' = [dial EXCEPT ![k].sent = IF dial[k].ready = "closed" THEN @ ELSE Append(@, m)]
UpgradeTo(k, f, h, m) ==
    /\ dial[k].ready \in {"connecting", "closing"} /\ forward[k] = "none"
    /\ forward' = [forward EXCEPT ![k] = f] /\ herald' = [herald EXCEPT ![k] = h]
    /\ dial' = [dial EXCEPT ![k].ready = IF @ = "connecting" THEN "open" ELSE @, ![k].sent = m]
    /\ UNCHANGED <<session, histories>>
Upgraded(k) == UpgradeTo(k, "dialling", "waits", <<>>)
NoDialer(k) == UpgradeTo(k, "over", "none", <<"error">>)
Bound(k) ==
    /\ forward[k] = "dialling" /\ forward' = [forward EXCEPT ![k] = "listening"]
    /\ herald' = [herald EXCEPT ![k] = "due"] /\ UNCHANGED <<session, dial, histories>>
TellPort(k) ==
    /\ herald[k] = "due" /\ herald' = [herald EXCEPT ![k] = "told"]
    /\ Tell(k, "ready") \/ (forward[k] = "over" /\ UNCHANGED dial)
    /\ UNCHANGED <<session, forward, histories>>
ForwardFails(k) ==
    /\ forward[k] \in {"dialling", "listening"} /\ forward' = [forward EXCEPT ![k] = "over"]
    /\ Tell(k, "ended") /\ UNCHANGED <<session, herald, histories>>
(* Mutant of ReaderStops: it waits for the connection to be gone. *)
ReaderStopsOnDrop(k) ==
    /\ forward[k] \in {"dialling", "listening"} /\ dial[k].ready = "closed"
    /\ forward' = [forward EXCEPT ![k] = "over"]
    /\ UNCHANGED <<session, dial, herald, histories>>
ReaderStops(k) ==
    /\ forward[k] \in {"dialling", "listening"} /\ dial[k].ready \in {"closing", "closed"}
    /\ forward' = [forward EXCEPT ![k] = "over"]
    /\ UNCHANGED <<session, dial, herald, histories>>

SocketStep(k) ==
    ForwardMessage(k) \/ SocketClosed(k) \/ Upgraded(k) \/ Bound(k) \/ TellPort(k) \/ ReaderStops(k)
ForwardNext ==
    \/ OpenForward \/ ReconnectForward \/ StopForward \/ RemoveForward
    \/ \E k \in Dials : SocketStep(k) \/ NoDialer(k) \/ ForwardFails(k)

(* The network delivers, and the server's goroutines run. *)
ForwardSpec == ForwardInit /\ [][ForwardNext]_forwardVars /\ \A k \in Dials : WF_forwardVars(SocketStep(k))

-----------------------------------------------------------------------------
(* A forward on the backend host belongs to a session that can stop it: its  *)
(* socket is the session's, or has been told to close. Not so a socket that     *)
(* the late close of the one before it took away from the session               *)
(* (portForwards.ts:191-198): nobody can stop that one. This takes a Reconnect   *)
(* before the old socket has reported its close, and nothing less.            *)
ForwardIsOwned ==
    /\ \A k \in Dials \ orphaned :
          forward[k] \in {"dialling", "listening"} => session.ws = k \/ dial[k].ready \in {"closing", "closed"}
    /\ orphaned # {} => raced

(* After Stop or Remove, until somebody opens or reconnects, nothing listens    *)
(* any more but the orphans, and the row does not say that it runs, unless an    *)
(* orphan tells it to.                                                       *)
InUse == session.listed /\ ~session.closed
StopEndsForward ==
    [](~InUse => <>(InUse \/ (/\ orphaned = {} => session.state # "running"
                              /\ \A k \in Dials \ orphaned : forward[k] \notin {"dialling", "listening"})))

(* Both: whatever listens on the backend has an owner who can stop it, and does. *)
ForwardsStop == []ForwardIsOwned /\ StopEndsForward
=============================================================================
