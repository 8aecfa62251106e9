-------------------------------- MODULE Panes --------------------------------
(***************************************************************************)
(* The panes of a page live in its address: ?b= and ?bt= are the sessions   *)
(* at the bottom (components/BottomPane.tsx), ?d= and ?tab= the detail      *)
(* panel (components/DetailPanel.tsx). Every handler copies the query that   *)
(* its render saw, changes its own part and writes all of it. A handler that *)
(* first asks the server (a node shell, a deletion) writes, with the answer, *)
(* the query and the path of the render it was clicked in.                   *)
(***************************************************************************)
EXTENDS Integers, Sequences, SequencesExt

CONSTANTS
    PaneRefs,    \* sessions a button can open: logs, exec, attach, yaml, create of some object
    Launcher,    \* the terminal launcher, a session that turns into an exec session
    ShellRef,    \* the exec session of the pod that a node shell or a job created
    Details,     \* objects of the detail panel
    PanePages,   \* pages of the cluster
    MaxPanes     \* bound: sessions open at once

ASSUME PanesAssumption == Launcher \notin PaneRefs /\ ShellRef \in PaneRefs /\ MaxPanes \in Nat \ {0}

VARIABLES
    query,     \* refs (b), bt (0 is the first), d and tab
    page,      \* the path
    mounted,   \* per open session, which mount of its component is alive (0 or 1, in turn)
    errand     \* the handler that waits for the server, with its query and path, or NoErrand

paneVars == <<query, page, mounted, errand>>

NoDetail == "no detail"
NoTabName == "no tab"
NoErrand == [kind |-> "none"]
NoPanes == [refs |-> <<>>, bt |-> 0, d |-> NoDetail, tab |-> NoTabName]
AllRefs == PaneRefs \cup {Launcher}

Lower(a, b) == IF a < b THEN a ELSE b
IndexIn(q, r) == CHOOSE i \in DOMAIN q.refs : q.refs[i] = r /\ \A j \in 1..(i - 1) : q.refs[j] # r
OpenIn(q, r) == r \in ToSet(q.refs)
ActiveIdx(q) == IF q.bt < Len(q.refs) THEN q.bt ELSE 0
ActiveRef(q) == IF q.refs = <<>> THEN "none" ELSE q.refs[ActiveIdx(q) + 1]

(* setRefs: the index is brought into range, and dropped with the last pane *)
SetRefs(q, refs, idx) ==
    [q EXCEPT !.refs = refs, !.bt = IF refs = <<>> THEN 0 ELSE Lower(idx, Len(refs) - 1)]
Dropped(q, i) == SetRefs(q, RemoveAt(q.refs, i), q.bt)
Appended(q, r) == SetRefs(q, Append(q.refs, r), Len(q.refs))
FocusedOn(q, r) == [q EXCEPT !.bt = IndexIn(q, r) - 1]
(* push of useBottomPane, and addTab of the host *)
Pushed(q, r) ==
    CASE ~OpenIn(q, r) -> Appended(q, r)
      [] OpenIn(q, r) /\ IndexIn(q, r) - 1 = q.bt -> Dropped(q, IndexIn(q, r))
      [] OTHER -> FocusedOn(q, r)
AddedTab(q, r) == IF OpenIn(q, r) THEN FocusedOn(q, r) ELSE Appended(q, r)
Closed(q) == [q EXCEPT !.d = NoDetail, !.tab = NoTabName]
(* Mutant of Detailed: a query of its own instead of a copy. *)
DetailedAlone(q, o, tab) == [NoPanes EXCEPT !.d = o, !.tab = tab]
Detailed(q, o, tab) == [q EXCEPT !.d = o, !.tab = tab]

(* What the page mounts for a query: the host is keyed by the active session *)
Mounts(q) ==
    [r \in ToSet(q.refs) |->
        CASE r \notin DOMAIN mounted -> 0
          [] r \in DOMAIN mounted /\ ActiveRef(q) = ActiveRef(query) -> mounted[r]
          [] OTHER -> 1 - mounted[r]]
Write(q, p) ==
    /\ Len(q.refs) <= MaxPanes
    /\ query' = q /\ page' = p /\ mounted' = Mounts(q)
WriteHere(q) == Write(q, page) /\ UNCHANGED errand

PaneInit ==
    /\ query = NoPanes /\ page = (CHOOSE p \in PanePages : TRUE)
    /\ mounted = <<>> /\ errand = NoErrand

-----------------------------------------------------------------------------
PressSession(r) == WriteHere(Pushed(query, r))
AddTab(r) == query.refs # <<>> /\ WriteHere(AddedTab(query, r))
SelectPane(i) == i \in DOMAIN query.refs /\ WriteHere(SetRefs(query, query.refs, i - 1))
ClosePane(i) == i \in DOMAIN query.refs /\ WriteHere(Dropped(query, i))
CloseAllPanes == query.refs # <<>> /\ WriteHere(SetRefs(query, <<>>, 0))
(* The launcher puts an exec session where the active tab is *)
LaunchTerminal(r) ==
    /\ OpenIn(query, Launcher) /\ ActiveRef(query) = Launcher
    /\ WriteHere([query EXCEPT !.refs[query.bt + 1] = r])

(* A row, a link cell (which closes on a second click), the panel's tabs *)
OpenDetail(o, tab) == WriteHere(Detailed(query, o, tab))
LinkTo(o) == WriteHere(IF query.d = o THEN Closed(query) ELSE Detailed(query, o, NoTabName))
GoTab(tab) ==
    /\ query.d # NoDetail
    /\ WriteHere([query EXCEPT !.tab = IF tab = query.tab THEN NoTabName ELSE tab])
CloseDetail == query.d # NoDetail /\ WriteHere(Closed(query))

(* Another page, with its own query *)
GoPage(p) == p # page /\ Write(NoPanes, p) /\ UNCHANGED errand

(* onNodeShell, runKubeadm, onDelete: the click, and the server's answer *)
StartErrand(kind) ==
    /\ errand = NoErrand
    /\ kind = "delete" => query.d # NoDetail
    /\ errand' = [kind |-> kind, query |-> query, page |-> page]
    /\ UNCHANGED <<query, page, mounted>>
ErrandDone ==
    /\ errand # NoErrand /\ errand' = NoErrand
    /\ LET q == errand.query
       IN Write(IF errand.kind = "shell" THEN Pushed(q, ShellRef) ELSE Closed(q), errand.page)
ErrandFailed == errand # NoErrand /\ errand' = NoErrand /\ UNCHANGED <<query, page, mounted>>

PaneNext ==
    \/ \E r \in PaneRefs : PressSession(r) \/ LaunchTerminal(r)
    \/ \E r \in AllRefs : AddTab(r)
    \/ \E i \in 1..MaxPanes : SelectPane(i) \/ ClosePane(i)
    \/ \E o \in Details : LinkTo(o) \/ \E tab \in {NoTabName, "events"} : OpenDetail(o, tab)
    \/ \E p \in PanePages : GoPage(p)
    \/ \E kind \in {"shell", "delete"} : StartErrand(kind)
    \/ GoTab("events") \/ CloseAllPanes \/ CloseDetail \/ ErrandDone \/ ErrandFailed

PaneSpec == PaneInit /\ [][PaneNext]_paneVars

-----------------------------------------------------------------------------
(* A session closes only because the user closed it, left its page or turned *)
(* the launcher into it; no other handler that rewrites the query drops it.  *)
(* The answers of the server are the exception: they bring the old query.    *)
SessionsCloseOnPurpose ==
    [][\A i \in DOMAIN query.refs : query.refs[i] \notin ToSet(query'.refs) =>
         \/ ClosePane(i) \/ CloseAllPanes \/ ErrandDone
         \/ query.bt = i - 1 /\ (query.refs[i] = Launcher \/ PressSession(query.refs[i]))
         \/ page' # page]_paneVars
=============================================================================
