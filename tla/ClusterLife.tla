----------------------------- MODULE ClusterLife -----------------------------
(***************************************************************************)
(* What the page does when clusters come and go: the requests and the       *)
(* per-cluster breaker of frontend/src/lib/api.ts, the reactions of App.tsx  *)
(* (sweeper, onClusterGone, RootRedirect, the blocked route) and the         *)
(* Connect, Disconnect and Remove handlers of Topbar.tsx and Sidebar.tsx     *)
(* (the streams they open and destroy are ClusterStream's).                  *)
(* The list of clusters is a cached copy of the server's, refetched by a     *)
(* timer and by every handler; other browsers change the server's.           *)
(*                                                                           *)
(* React settles after each event: the effects that follow a change of the   *)
(* list, of the route or of the active cluster are part of its step.         *)
(***************************************************************************)
EXTENDS Integers, FiniteSets

CONSTANTS
    LifeClusters,   \* names
    MaxCalls,       \* bound: requests and handlers under way
    MaxBusy,        \* bound: clusters that have one under way
    MaxPolled       \* bound: requests under way when the timer asks for the list
ASSUME CallsAssumption == MaxCalls \in Nat \ {0} /\ MaxBusy \in Nat \ {0} /\ MaxPolled \in Nat

VARIABLES
    reg,      \* at the server: live, paused or gone
    cached,   \* the page's copy
    ui,       \* path ("" is the home shell), active, tabs (clusters that have one)
    calls,     \* requests under way, each sent or answered
    then,     \* handlers that await the refetched list
    open      \* clusters whose breaker is open

lifeVars == <<reg, cached, ui, calls, then, open>>

Nowhere == ""
LiveIn(list) == {c \in LifeClusters : list[c] = "live"}
Request(kind, c, enter) == [kind |-> kind, c |-> c, enter |-> enter, state |-> "sent", list |-> <<>>]
(* extractClusterFromPath: a removal and the list are not a cluster's *)
Scoped(r) == r.kind \in {"get", "connect", "disconnect"}

-----------------------------------------------------------------------------
(* The effects. A shell opens a tab for its cluster and, unless blocked,    *)
(* makes it active; a blocked one goes home, and home goes on into an active *)
(* cluster that is connected. The sweepers run when the list or the active   *)
(* cluster changed, and do nothing while no tab is stale.                    *)
Shell(u, c) == [u EXCEPT !.path = c, !.active = c, !.tabs = @ \cup {c}]
RootRedirect(u, live) == IF u.path = Nowhere /\ u.active \in live THEN Shell(u, u.active) ELSE u
Blocked(u, live) == IF u.path \in live THEN u ELSE [u EXCEPT !.path = Nowhere]
SweptUi(u, live) ==
    IF u.tabs \subseteq live THEN u
    ELSE [u EXCEPT !.tabs = @ \cap live, !.active = IF @ \in live THEN @ ELSE Nowhere]
Settle(u, live) == RootRedirect(Blocked(SweptUi(u, live), live), live)
Visit(u, c, live) ==
    IF c \in live THEN IF c = ui.active THEN Shell(u, c) ELSE SweptUi(Shell(u, c), live)
    ELSE LET t == [u EXCEPT !.tabs = @ \cup {c}]
         IN RootRedirect([(IF u.active = ui.active THEN t ELSE SweptUi(t, live)) EXCEPT !.path = Nowhere], live)
(* Mutant of Forgotten: the cluster stays the active one. *)
ForgottenTabsOnly(u, c) == [u EXCEPT !.tabs = @ \ {c}]
Forgotten(u, c) == [u EXCEPT !.tabs = @ \ {c}, !.active = IF @ = c THEN Nowhere ELSE @]

(* invalidateQueries: a list under way is given up for a new one *)
Refetched(w) == {r \in w : r.kind # "list"} \cup {Request("list", Nowhere, FALSE)}
Addressed == {q.c : q \in {p \in calls \cup then : p.kind # "list"}}
Sends(r) ==
    /\ Cardinality(calls \cup then) < MaxCalls /\ Cardinality(Addressed \cup {r.c}) <= MaxBusy
    /\ ~(Scoped(r) /\ r.c \in open) /\ calls' = calls \cup {r}

LifeInit ==
    /\ reg = [c \in LifeClusters |-> "live"] /\ cached = reg
    /\ ui = [path |-> Nowhere, active |-> Nowhere, tabs |-> {}]
    /\ calls = {} /\ then = {} /\ open = {}

-----------------------------------------------------------------------------
(* The user *)
EnterCluster(c) ==
    /\ ui' = Visit(ui, c, LiveIn(cached)) /\ UNCHANGED <<reg, cached, calls, then, open>>
CloseTabsOf(c) ==
    LET next == [ui EXCEPT !.tabs = @ \ {c}]
    IN /\ c \in ui.tabs /\ ui.path # Nowhere
       /\ \/ c # ui.path /\ ui' = next
          \/ c = ui.path /\ next.tabs = {} /\ ui' = [next EXCEPT !.path = Nowhere, !.active = Nowhere]
          \/ c = ui.path /\ \E d \in next.tabs : ui' = Visit(next, d, LiveIn(cached))
       /\ UNCHANGED <<reg, cached, calls, then, open>>
Disconnect(c) ==
    LET u == [ui EXCEPT !.tabs = @ \ {c}]
    IN /\ cached[c] = "live" /\ ui.path # Nowhere
       /\ Sends(Request("disconnect", c, FALSE))
       /\ ui' = IF ui.active = c THEN SweptUi([u EXCEPT !.active = Nowhere, !.path = Nowhere], LiveIn(cached)) ELSE u
       /\ UNCHANGED <<reg, cached, then, open>>
Connect(c, enter) ==
    /\ cached[c] = "paused" /\ Sends(Request("connect", c, enter))
    /\ UNCHANGED <<reg, cached, ui, then, open>>
Unregister(c) ==
    /\ cached[c] # "gone" /\ ui.path # Nowhere
    /\ Sends(Request("remove", c, ui.active = c))
    /\ UNCHANGED <<reg, cached, ui, then, open>>
Get(c) ==
    /\ ui.path = c /\ Sends(Request("get", c, FALSE)) /\ UNCHANGED <<reg, cached, ui, then, open>>
PollList ==
    /\ Cardinality(calls) <= MaxPolled /\ ~\E r \in calls : r.kind = "list"
    /\ calls' = Refetched(calls) /\ UNCHANGED <<reg, cached, ui, then, open>>

(* The server, and the other browsers *)
Answered(r, state) == calls' = (calls \ {r}) \cup {[r EXCEPT !.state = state, !.list = IF r.kind = "list" THEN reg ELSE <<>>]}
Serve(r) ==
    /\ r.state = "sent" /\ UNCHANGED <<cached, ui, then, open>>
    /\ \/ UNCHANGED reg /\ r.kind # "list" /\ Answered(r, "notfound")
          /\ (reg[r.c] = "gone" \/ r.kind = "get")
       \/ UNCHANGED reg /\ Answered(r, "ok") /\ (r.kind = "list" \/ (r.kind = "get" /\ reg[r.c] # "gone"))
       \/ /\ r.kind \in {"connect", "disconnect", "remove"} /\ reg[r.c] # "gone" /\ Answered(r, "ok")
          /\ reg' = [reg EXCEPT ![r.c] = CASE r.kind = "connect" -> "live"
                                           [] r.kind = "disconnect" -> "paused"
                                           [] OTHER -> "gone"]
OthersChange(c, state) ==
    /\ reg[c] # state /\ reg' = [reg EXCEPT ![c] = state] /\ UNCHANGED <<cached, ui, calls, then, open>>

(* The answer, and the rest of the handler that awaited it *)
Gone(u, c, live) ==
    LET f == Forgotten(u, c)
    IN IF ui.active = c THEN Settle([f EXCEPT !.path = Nowhere], live) ELSE f
Rest(r) ==
    LET live == LiveIn(cached)
    IN CASE r.state = "notfound" /\ Scoped(r) -> Gone(ui, r.c, live)
         [] r.state = "ok" /\ r.kind = "remove" -> SweptUi(Forgotten(ui, r.c), live)
         [] OTHER -> ui
Deliver(r) ==
    LET refetch == (r.state = "notfound" /\ Scoped(r)) \/ r.kind = "disconnect" \/ (r.state = "ok" /\ r.kind \in {"connect", "remove"})
    IN /\ r.state # "sent" /\ r.kind # "list"
       /\ ui' = Rest(r)
       /\ calls' = IF refetch THEN Refetched(calls \ {r}) ELSE calls \ {r}
       /\ then' = IF r.state = "ok" /\ r.enter THEN then \cup {[kind |-> r.kind, c |-> r.c]} ELSE then
       /\ open' = CASE ~Scoped(r) -> open
                    [] Scoped(r) /\ r.state = "ok" -> open \ {r.c}
                    [] OTHER -> open \cup {r.c}
       /\ UNCHANGED <<reg, cached>>
ListArrives(r) ==
    /\ r.kind = "list" /\ r.state # "sent"
    /\ calls' = calls \ {r} /\ cached' = r.list
    /\ ui' = Settle(ui, LiveIn(cached'))
    /\ UNCHANGED <<reg, then, open>>
(* The request or its answer is lost, or the answer is an error other than a  *)
(* 404: only Disconnect asks for the list anew.                              *)
Fails(r) ==
    /\ calls' = IF r.kind = "disconnect" THEN Refetched(calls \ {r}) ELSE calls \ {r}
    /\ UNCHANGED <<reg, cached, ui, then, open>>
(* after the refetch: Sidebar's Connect enters the cluster, Remove goes home *)
Continue(t) ==
    /\ t \in then /\ ~\E r \in calls : r.kind = "list"
    /\ then' = then \ {t}
    /\ ui' = IF t.kind = "connect" THEN Visit([ui EXCEPT !.active = t.c], t.c, LiveIn(cached))
             ELSE Settle([ui EXCEPT !.path = Nowhere], LiveIn(cached))
    /\ UNCHANGED <<reg, cached, calls, open>>
BreakerResets(c) == c \in open /\ open' = open \ {c} /\ UNCHANGED <<reg, cached, ui, calls, then>>

LifeNext ==
    \/ \E c \in LifeClusters :
         \/ EnterCluster(c) \/ CloseTabsOf(c) \/ Disconnect(c) \/ Unregister(c) \/ Get(c) \/ BreakerResets(c)
         \/ \E enter \in BOOLEAN : Connect(c, enter)
         \/ \E state \in {"live", "paused", "gone"} : OthersChange(c, state)
    \/ \E r \in calls : Serve(r) \/ Fails(r) \/ Deliver(r) \/ ListArrives(r)
    \/ \E t \in then : Continue(t)
    \/ PollList

LifeSpec == LifeInit /\ [][LifeNext]_lifeVars

-----------------------------------------------------------------------------

(* The sweepers leave the active cluster only when they close a stale tab,   *)
(* so an active cluster must have one.                                       *)
ActiveHasTab == ui.active # Nowhere => ui.active \in ui.tabs
=============================================================================
