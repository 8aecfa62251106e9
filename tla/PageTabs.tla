------------------------------ MODULE PageTabs ------------------------------
(***************************************************************************)
(* The tab strip of the page: the store of frontend/src/stores/tabs.ts, the *)
(* handlers of components/TopTabs.tsx and Sidebar.tsx that change it, and    *)
(* useTabsRouterSync, the effect that mirrors every committed location back *)
(* into it. The address and the strip are two copies of the same fact, and   *)
(* each handler changes one of them or both.                                 *)
(*                                                                           *)
(* React commits a navigation and runs its effects before the next event, so *)
(* a handler, the navigation it asks for and the effects are one step. A     *)
(* context menu keeps the tab it was opened on while the strip changes.      *)
(***************************************************************************)
EXTENDS Filters, FiniteSets

CONSTANTS
    TabClusters,  \* cluster names
    Pages,        \* paths under /:cluster/
    ListPages,    \* those lastPage remembers
    MaxTabs       \* bound: tabs in the strip

NoCluster == ""

ASSUME PageAssumption ==
    /\ ListPages \subseteq Pages /\ "overview" \in ListPages
    /\ NoCluster \notin TabClusters /\ MaxTabs \in Nat

VARIABLES
    strip,      \* tabs and activeId (0: null); a tab is a route, an id and the preview flag
    address,    \* the router's location
    current,    \* useApp's cluster, or NoCluster
    online,     \* the clusters that /clusters lists and that are not paused
    shell,      \* a ClusterShell is mounted: initialized.current
    menu        \* the tab the open context menu captured, or NoTab

tabVars == <<strip, address, current, online, shell, menu>>

Home == [c |-> NoCluster, p |-> "/", q |-> 0]
NoTab == [c |-> NoCluster, p |-> "no tab", q |-> 0, id |-> 0, preview |-> FALSE]
Routes == [c : TabClusters, p : Pages, q : {0, 1}]
RouteOf(t) == [c |-> t.c, p |-> t.p, q |-> t.q]

Least(S) == CHOOSE i \in S : \A j \in S : i <= j
TabsOf(s) == {s.tabs[i] : i \in DOMAIN s.tabs}
IdsOf(s) == {t.id : t \in TabsOf(s)}
Ids == 1..(2 * MaxTabs + 2)
MakeId(s) == Least(Ids \ (IdsOf(s) \cup IdsOf(strip) \cup {menu.id}))

(* Positions in the strip *)
At(s, id) == {i \in DOMAIN s.tabs : s.tabs[i].id = id}
Same(s, r) == {i \in DOMAIN s.tabs : s.tabs[i].c = r.c /\ s.tabs[i].p = r.p}
Previews(s) == {i \in DOMAIN s.tabs : s.tabs[i].preview}
HasId(s, id) == id \in IdsOf(s)

-----------------------------------------------------------------------------
(* The store's operations, from a store to a store *)
Tab(s, r, preview) == [c |-> r.c, p |-> r.p, q |-> r.q, id |-> MakeId(s), preview |-> preview]
Added(s, t) == [tabs |-> Append(s.tabs, t), active |-> t.id]
Replaced(s, i, r) == [s EXCEPT !.tabs[i].c = r.c, !.tabs[i].p = r.p, !.tabs[i].q = r.q]
Focused(s, i) == [s EXCEPT !.active = s.tabs[i].id]

CreateTab(s, r) == Added(s, Tab(s, r, FALSE))
OpenTab(s, r) ==
    IF Same(s, r) = {} THEN CreateTab(s, r)
    ELSE LET i == Least(Same(s, r)) IN Focused(Replaced(s, i, r), i)
OpenPreview(s, r) ==
    CASE Previews(s) # {} -> LET i == Least(Previews(s)) IN Focused(Replaced(s, i, r), i)
      [] Previews(s) = {} /\ Same(s, r) # {} -> Focused(s, Least(Same(s, r)))
      [] OTHER -> Added(s, Tab(s, r, TRUE))
CommitTab(s, id) == [s EXCEPT !.tabs = [i \in DOMAIN @ |-> IF @[i].id = id THEN [@[i] EXCEPT !.preview = FALSE] ELSE @[i]]]
PatchActive(s, q) == [s EXCEPT !.tabs = [i \in DOMAIN @ |-> IF @[i].id = s.active THEN [@[i] EXCEPT !.q = q] ELSE @[i]]]
SelectTab(s, id) == IF HasId(s, id) THEN [s EXCEPT !.active = id] ELSE s

Ending(ts) == IF ts = <<>> THEN 0 ELSE ts[Len(ts)].id
CloseTab(s, id) ==
    IF ~HasId(s, id) THEN s
    ELSE LET next == Kept(s.tabs, {t \in TabsOf(s) : t.id # id})
             i == Least(At(s, id))
             near == IF i <= Len(next) THEN next[i].id ELSE Ending(next)
         IN [tabs |-> next, active |-> IF s.active = id THEN near ELSE s.active]
CloseOthers(s, id) == IF HasId(s, id) THEN [tabs |-> Kept(s.tabs, {t \in TabsOf(s) : t.id = id}), active |-> id] ELSE s
CloseToTheRight(s, id) ==
    IF ~HasId(s, id) THEN s
    ELSE LET next == SubSeq(s.tabs, 1, Least(At(s, id)))
         IN [tabs |-> next, active |-> IF \E i \in DOMAIN next : next[i].id = s.active THEN s.active ELSE id]
CloseAll == [tabs |-> <<>>, active |-> 0]
CloseForCluster(s, c) ==
    LET next == Kept(s.tabs, {t \in TabsOf(s) : t.c # c})
    IN [tabs |-> next, active |-> IF \E i \in DOMAIN next : next[i].id = s.active THEN s.active ELSE Ending(next)]

ActiveOf(s) == IF HasId(s, s.active) THEN s.tabs[Least(At(s, s.active))] ELSE NoTab

(* Mutant of Sync: any active tab is given the page, a kept one too. *)
SyncRetargets(s, r) == IF ActiveOf(s) # NoTab THEN Replaced(s, Least(At(s, s.active)), r) ELSE OpenTab(s, r)
(* useTabsRouterSync at route r: the first time, and later *)
FirstSync(s, r) == OpenTab(s, r)
Sync(s, r) ==
    LET a == ActiveOf(s)
    IN CASE a # NoTab /\ a.c = r.c /\ a.p = r.p -> PatchActive(s, r.q)
         [] a # NoTab /\ ~(a.c = r.c /\ a.p = r.p) /\ a.preview -> OpenPreview(s, r)
         [] OTHER -> OpenTab(s, r)
Synced(s, r) == IF shell THEN Sync(s, r) ELSE FirstSync(s, r)

-----------------------------------------------------------------------------
(* A committed location, with the store and the active cluster as the       *)
(* handler leaves them. At "/" the page goes on into the active cluster when *)
(* that one is connected; a route of any other cluster is sent to "/", after *)
(* the effect has seen it.                                                   *)
Fits(s) == Len(s.tabs) <= MaxTabs
(* The sweepers, which run again when the list of clusters or the active     *)
(* cluster changes.                                                          *)
Swept(s, live) ==
    LET next == Kept(s.tabs, {t \in TabsOf(s) : t.c \in live})
    IN [tabs |-> next, active |-> IF \E i \in DOMAIN next : next[i].id = s.active THEN s.active ELSE Ending(next)]
Settled(s, cur, live) == IF cur = current THEN s ELSE Swept(s, live)
ToShell(s, r, live) ==
    /\ strip' = Settled(s, r.c, live) /\ address' = r /\ current' = r.c /\ shell' = TRUE /\ Fits(s)
ToHome(s, cur, live) ==
    \/ /\ cur \in live
       /\ \E p \in ListPages : LET r == [c |-> cur, p |-> p, q |-> 0] IN ToShell(FirstSync(s, r), r, live)
    \/ /\ cur \notin live
       /\ strip' = Settled(s, cur, live) /\ address' = Home /\ current' = cur /\ shell' = FALSE
ToRoute(s, r) ==
    \/ r = address /\ strip' = s /\ UNCHANGED <<address, current, shell>>
    \/ r # address /\ r.c \in online /\ ToShell(Synced(s, r), r, online)
    \/ r # address /\ r.c \notin online /\ Fits(Synced(s, r)) /\ ToHome(Synced(s, r), current, online)

InShell == address # Home
Shown(id) == ActiveOf([strip EXCEPT !.active = id])

TabInit ==
    /\ strip = CloseAll /\ address = Home /\ current = NoCluster
    /\ online = TabClusters /\ shell = FALSE /\ menu = NoTab

(* Sidebar openRoute: a preview tab, then the navigation. *)
OpenRoute(c, p) ==
    LET r == [c |-> c, p |-> p, q |-> 0]
    IN /\ c \in online
       /\ Fits(OpenPreview(strip, r)) /\ ToRoute(OpenPreview(strip, r), r)
       /\ menu' = NoTab /\ UNCHANGED online
(* A link or the cluster picker, whose click dismisses a menu, and the        *)
(* browser's buttons, which leave it open unless the shell is left.           *)
Navigate(r) ==
    /\ ToRoute(strip, r) /\ UNCHANGED online
    /\ menu' \in {NoTab, IF r.c \in online THEN menu ELSE NoTab}
NavigateHome == address # Home /\ ToHome(strip, current, online) /\ menu' = NoTab /\ UNCHANGED online
(* useBottomPane push keeps the tab, then opens the pane in the query. *)
PushPane ==
    /\ InShell
    /\ ToRoute(CommitTab(strip, strip.active), [address EXCEPT !.q = 1])
    /\ menu' = NoTab /\ UNCHANGED online
DoubleClick(id) ==
    /\ InShell /\ HasId(strip, id)
    /\ strip' = CommitTab(strip, id) /\ menu' = NoTab /\ UNCHANGED <<address, current, online, shell>>
(* TopTabs onSelect and createNewTab *)
Select(id) ==
    /\ InShell /\ HasId(strip, id) /\ id # strip.active
    /\ ToRoute(SelectTab(strip, id), RouteOf(Shown(id))) /\ menu' = NoTab /\ UNCHANGED online
NewTab ==
    LET r == [c |-> current, p |-> "overview", q |-> 0]
    IN /\ InShell /\ Len(strip.tabs) < MaxTabs
       /\ ToRoute(CreateTab(strip, r), r) /\ menu' = NoTab /\ UNCHANGED online

(* navigateAfterClose: to the tab that is active now, or to the home shell  *)
(* with no active cluster.                                                  *)
AfterClose(s) ==
    IF s.active = 0 THEN ToHome(s, NoCluster, online) ELSE ToRoute(s, RouteOf(ActiveOf(s)))
Close(id) ==
    /\ InShell /\ HasId(strip, id)
    /\ AfterClose(CloseTab(strip, id)) /\ menu' = NoTab /\ UNCHANGED online

(* The context menu acts on the tab as it was when it opened. *)
OpenMenu(id) ==
    /\ InShell /\ menu = NoTab /\ HasId(strip, id)
    /\ menu' = Shown(id) /\ UNCHANGED <<strip, address, current, online, shell>>
DismissMenu ==
    /\ menu # NoTab /\ menu' = NoTab /\ UNCHANGED <<strip, address, current, online, shell>>
MenuAction ==
    /\ InShell /\ menu # NoTab /\ menu' = NoTab /\ UNCHANGED online
    /\ \/ AfterClose(CloseTab(strip, menu.id))
       \/ ToRoute(CloseOthers(strip, menu.id), RouteOf(menu))
       \/ AfterClose(CloseToTheRight(strip, menu.id))
       \/ ToHome(CloseAll, NoCluster, online)

(* The list of clusters changes; the sweepers leave the active cluster when *)
(* it is one of the stale tabs' and is gone or paused.                       *)
ClustersBecome(live) ==
    LET s == Swept(strip, live)
        cur == IF s # strip /\ current \notin live THEN NoCluster ELSE current
    IN /\ live # online /\ online' = live
       /\ IF InShell /\ address.c \in live
          THEN strip' = s /\ current' = cur /\ UNCHANGED <<address, shell, menu>>
          ELSE ToHome(s, cur, live) /\ menu' = NoTab
(* Disconnect, Remove, and the reaction to a cluster that is gone *)
LeaveCluster(c) ==
    LET cur == IF current = c THEN NoCluster ELSE current
    IN /\ IF current = c THEN ToHome(CloseForCluster(strip, c), cur, online) /\ menu' = NoTab
          ELSE strip' = CloseForCluster(strip, c) /\ UNCHANGED <<address, current, shell, menu>>
       /\ UNCHANGED online

(* The page is loaded again: the strip and the active cluster come back.    *)
PageReload ==
    /\ menu' = NoTab /\ UNCHANGED online
    /\ IF InShell THEN ToShell(FirstSync(strip, address), address, online) ELSE ToHome(strip, current, online)

TabNext ==
    \/ \E c \in TabClusters, p \in Pages : OpenRoute(c, p)
    \/ \E r \in Routes : Navigate(r)
    \/ \E id \in Ids : DoubleClick(id) \/ Select(id) \/ Close(id) \/ OpenMenu(id)
    \/ \E live \in SUBSET TabClusters : ClustersBecome(live)
    \/ \E c \in TabClusters : LeaveCluster(c)
    \/ NavigateHome \/ PushPane \/ NewTab \/ DismissMenu \/ MenuAction \/ PageReload

TabSpec == TabInit /\ [][TabNext]_tabVars

-----------------------------------------------------------------------------
(* In a cluster's shell the active tab is the page on display, whichever of *)
(* the address and the strip a handler changed first.                       *)
TabShowsAddress ==
    InShell => ActiveOf(strip).c = address.c /\ ActiveOf(strip).p = address.p

(* A tab that was kept stays on its page until it is closed: neither a       *)
(* sidebar click, nor a menu opened earlier, nor a sweep moves it elsewhere. *)
KeptTabsStay ==
    [][\A i \in DOMAIN strip.tabs : ~strip.tabs[i].preview =>
         \A j \in DOMAIN strip'.tabs : strip'.tabs[j].id = strip.tabs[i].id =>
            /\ strip'.tabs[j].c = strip.tabs[i].c /\ strip'.tabs[j].p = strip.tabs[i].p
            /\ ~strip'.tabs[j].preview]_tabVars

(* Both: the strip of tabs shows what is open, and opens nothing unasked.      *)
TabsAreFaithful == []TabShowsAddress /\ KeptTabsStay
=============================================================================
