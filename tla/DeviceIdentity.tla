--------------------------- MODULE DeviceIdentity ---------------------------
(***************************************************************************)
(* The identity of a browser (internal/auth/device.go, middleware.go, the   *)
(* handler of /me/adopt, frontend/src/pages/SettingsPage.tsx). The server    *)
(* keeps nothing: it reads the cookie of each request, makes an id if there   *)
(* is none, and writes the cookie again with the response. The tabs of the   *)
(* browser share one jar, and their answers arrive in any order.            *)
(***************************************************************************)
EXTENDS Naturals, Sequences, SequencesExt

CONSTANTS
    Tabs,      \* tabs of one browser
    OtherIds,  \* ids of other browsers, which may be adopted here
    NewIds,    \* bound: the ids the server can make
    NoId,      \* no cookie
    Requests   \* bound: the requests under way at once

ASSUME DeviceAssumption == NoId \notin OtherIds \cup NewIds /\ OtherIds \cap NewIds = {}

VARIABLES
    jar,     \* the cookie
    made,    \* the ids made so far
    tab,     \* Tabs -> what the tab is doing
    req,     \* Requests -> the request
    asked,   \* history: the id last adopted; NoId before that, or once the jar was emptied
    raced    \* history: another id was under way when its answer arrived

deviceVars == <<jar, made, tab, req, asked, raced>>

Free == [at |-> "free"]
NewRequest(t, kind, id, adopt) == [at |-> "sent", tab |-> t, kind |-> kind, id |-> id, adopt |-> adopt]
Under(q) == req[q].at # "free"

DeviceInit ==
    /\ jar = NoId /\ made = {} /\ asked = NoId /\ raced = FALSE
    /\ tab = [t \in Tabs |-> "closed"] /\ req = [q \in Requests |-> Free]

-----------------------------------------------------------------------------
(* The browser *)
Send(t, kind, adopt) ==
    \E q \in Requests : ~Under(q) /\ req' = [req EXCEPT ![q] = NewRequest(t, kind, jar, adopt)]
(* A tab asks for the page itself first, and then for what the page shows. *)
OpenTab(t) ==
    /\ tab[t] = "closed" /\ Send(t, "document", NoId)
    /\ tab' = [tab EXCEPT ![t] = "loading"] /\ UNCHANGED <<jar, made, asked, raced>>
Poll(t) ==
    /\ tab[t] \in {"open", "adopting", "adopted"} /\ Send(t, "poll", NoId)
    /\ UNCHANGED <<jar, made, tab, asked, raced>>
Adopt(t, id) ==
    /\ tab[t] = "open" /\ Send(t, "adopt", id)
    /\ tab' = [tab EXCEPT ![t] = "adopting"] /\ UNCHANGED <<jar, made, asked, raced>>
(* A reload aborts what the tab has asked for; the answers are dropped. *)
Aborted(t) == [q \in Requests |-> IF Under(q) /\ req[q].tab = t THEN Free ELSE req[q]]
Reload(t) ==
    /\ tab[t] \in {"open", "adopted"}
    /\ \E q \in Requests : /\ Aborted(t)[q] = Free
                           /\ req' = [Aborted(t) EXCEPT ![q] = NewRequest(t, "document", jar, NoId)]
    /\ tab' = [tab EXCEPT ![t] = "loading"] /\ UNCHANGED <<jar, made, asked, raced>>
CloseTab(t) ==
    /\ tab[t] # "closed" /\ tab' = [tab EXCEPT ![t] = "closed"] /\ req' = Aborted(t)
    /\ UNCHANGED <<jar, made, asked, raced>>
(* The user clears the cookies, or a year has passed. *)
EmptyJar ==
    /\ jar # NoId /\ jar' = NoId /\ asked' = NoId /\ raced' = FALSE
    /\ UNCHANGED <<made, tab, req>>

-----------------------------------------------------------------------------
(* The server: Identify, then the handler. Mutant of Cookies: the other order. *)
CookiesReversed(id, adopt) == IF adopt = NoId THEN <<id>> ELSE <<adopt, id>>
Cookies(id, adopt) == IF adopt = NoId THEN <<id>> ELSE <<id, adopt>>
Identify(id) == IF id = NoId THEN NewIds \ made ELSE {id}
Serve(q) ==
    /\ req[q].at = "sent"
    /\ \E id \in Identify(req[q].id) :
          /\ req' = [req EXCEPT ![q] =
                [at |-> "answered", tab |-> @.tab, kind |-> @.kind, id |-> id, adopt |-> @.adopt,
                 set |-> Cookies(id, @.adopt)]]
          /\ made' = made \cup ({id} \ OtherIds)
    /\ UNCHANGED <<jar, tab, asked, raced>>

(* An answer arrives: of two cookies of one name the browser keeps the last. *)
AfterAnswer(q) ==
    CASE req[q].kind = "document" -> "open" [] req[q].kind = "adopt" -> "adopted" [] OTHER -> tab[req[q].tab]
Receive(q) ==
    /\ req[q].at = "answered"
    /\ jar' = Last(req[q].set)
    /\ tab' = [tab EXCEPT ![req[q].tab] = AfterAnswer(q)]
    /\ req' = [req EXCEPT ![q] = Free]
    /\ IF req[q].kind = "adopt"
       THEN /\ asked' = req[q].adopt
            /\ raced' = \E r \in Requests \ {q} : Under(r) /\ req[r].id # req[q].adopt
       ELSE UNCHANGED <<asked, raced>>
    /\ UNCHANGED made
Lost(q) ==
    /\ Under(q) /\ req' = [req EXCEPT ![q] = Free]
    /\ tab' = [tab EXCEPT ![req[q].tab] =
                  CASE req[q].kind = "document" -> "closed" [] req[q].kind = "adopt" -> "open" [] OTHER -> @]
    /\ UNCHANGED <<jar, made, asked, raced>>

DeviceNext ==
    \/ \E t \in Tabs : \/ OpenTab(t) \/ Poll(t) \/ Reload(t) \/ CloseTab(t)
                       \/ \E id \in OtherIds : Adopt(t, id)
    \/ \E q \in Requests : Serve(q) \/ Receive(q) \/ Lost(q)
    \/ EmptyJar
DeviceSpec == DeviceInit /\ [][DeviceNext]_deviceVars

-----------------------------------------------------------------------------
(* An adoption that no other id was under way with stays, whatever the tabs  *)
(* ask for and however their answers are delayed: each answer writes the id   *)
(* of its request again (device.go:44-51, 117-129).                          *)
AdoptionSticks == asked # NoId /\ ~raced => jar = asked
=============================================================================
