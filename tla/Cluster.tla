------------------------------ MODULE Cluster ------------------------------
(***************************************************************************)
(* internal/clusters/cluster.go: one cluster connection.  It wraps the     *)
(* informer store with a pause switch (the "Disconnect" button), a final   *)
(* Stop, and a connectivity probe that feeds the status dot.  paused,      *)
(* stopped and connected are independent atomics: nothing orders a Pause   *)
(* against the subscribes and probes that already read paused as false.    *)
(***************************************************************************)
EXTENDS InformerStore

CONSTANTS
  Callers,   \* goroutines of the connect / disconnect / remove handlers
  Ticker     \* the goroutine of Cluster.probe

ASSUME TickerAssumption == Ticker \notin Callers

VARIABLES
  up,          \* the API server answers /version (external)
  paused,
  stopped,
  connected,
  admitted,    \* calls of Subscribe that read paused as false
  op,          \* where each goroutine is
  answer,      \* what its /version request said
  stragglers   \* history: admitted, but not in the store, when Pause cleaned up

switchVars == <<up, paused, stopped, connected, admitted, op, answer, stragglers>>
cvars == <<vars, switchVars>>

Goroutines == Callers \cup {Ticker}
OpStates == {"idle", "pausing", "clearing", "checking", "probing", "storing",
             "cancelling", "halting", "gone"}

ClusterInit ==
  /\ Init
  /\ up \in BOOLEAN
  /\ paused = FALSE
  /\ stopped = FALSE
  /\ connected = FALSE
  /\ admitted = {}
  /\ op = [g \in Goroutines |-> IF g = Ticker THEN "checking" ELSE "idle"]
  /\ answer = [g \in Goroutines |-> FALSE]
  /\ stragglers = {}

Goto(g, from, to) ==
  /\ ~crashed
  /\ op[g] = from
  /\ op' = [op EXCEPT ![g] = to]

ServerFlips ==
  /\ ~crashed
  /\ up' = ~up
  /\ UNCHANGED <<vars, paused, stopped, connected, admitted, op, answer, stragglers>>

-----------------------------------------------------------------------------
(* Subscribe: "if c.paused.Load() return ErrClusterPaused"                 *)

\* Mutant: the check is dropped.
AlwaysAccepts == TRUE
Accepts == ~paused

Admit(p) ==
  /\ ~crashed
  /\ pc[p] = "idle"
  /\ p \notin admitted
  /\ Accepts
  /\ admitted' = admitted \cup {p}
  /\ UNCHANGED <<vars, up, paused, stopped, connected, op, answer, stragglers>>

PassedCheck(p) == p \in admitted

Subscribe(p) ==
  /\ PassedCheck(p)
  /\ \E k \in Keys : SubscribeBegin(p, k)
  /\ UNCHANGED switchVars

\* Everything else the store does.
StoreStep ==
  /\ \/ \E k \in Keys : ApiChange(k)
     \/ \E p \in Subs : \/ InitialSnapshot(p) \/ ApiAnswer(p) \/ RemoveEntry(p)
                        \/ Register(p) \/ PushSnapshot(p) \/ Consume(p)
                        \/ CloseUnregister(p) \/ CloseChannel(p)
     \/ \E e \in Entries : Informer(e) \/ Janitor(e)
  /\ UNCHANGED switchVars

-----------------------------------------------------------------------------
(* Pause, Resume, Stop                                                     *)

\* paused.Swap(true); a second Pause returns at once.
PauseSwap(g) ==
  /\ Goto(g, "idle", "pausing")
  /\ ~paused
  /\ paused' = TRUE
  /\ UNCHANGED <<vars, up, stopped, connected, admitted, answer, stragglers>>

PauseDisconnect(g) ==
  /\ Goto(g, "pausing", "clearing")
  /\ connected' = FALSE
  /\ UNCHANGED <<vars, up, paused, stopped, admitted, answer, stragglers>>

PauseClear(g) ==
  /\ Goto(g, "clearing", "idle")
  /\ StopAll
  /\ stragglers' = {p \in admitted : pc[p] = "idle"}
  /\ UNCHANGED <<up, paused, stopped, connected, admitted, answer>>

\* paused.Swap(false), then a connectivity check before returning.
ResumeSwap(g) ==
  /\ Goto(g, "idle", "checking")
  /\ paused
  /\ paused' = FALSE
  /\ UNCHANGED <<vars, up, stopped, connected, admitted, answer, stragglers>>

StopSwap(g) ==
  /\ Goto(g, "idle", "cancelling")
  /\ ~stopped
  /\ stopped' = TRUE
  /\ UNCHANGED <<vars, up, paused, connected, admitted, answer, stragglers>>

StopCancel(g) ==
  /\ Goto(g, "cancelling", "halting")
  /\ RootCancel
  /\ UNCHANGED <<up, paused, stopped, connected, admitted, answer, stragglers>>

StopClear(g) ==
  /\ Goto(g, "halting", "idle")
  /\ StopAll
  /\ UNCHANGED <<up, paused, stopped, connected, admitted, answer, stragglers>>

-----------------------------------------------------------------------------
(* probe and checkConnectivity                                             *)

\* The select of probe; with the context cancelled and a tick pending, Go
\* picks either.
Tick ==
  /\ \/ Goto(Ticker, "idle", "checking")
     \/ rootDone /\ Goto(Ticker, "idle", "gone")
  /\ UNCHANGED <<vars, up, paused, stopped, connected, admitted, answer, stragglers>>

CheckBegin(g) ==
  /\ Goto(g, "checking", IF paused THEN "idle" ELSE "probing")
  /\ UNCHANGED <<vars, up, paused, stopped, connected, admitted, answer, stragglers>>

\* The request to /version.  The loop's context is the cluster's, a caller's
\* is that of its HTTP request, which the browser may abandon.
CheckAnswer(g) ==
  /\ Goto(g, "probing", "storing")
  /\ \E abandoned \in BOOLEAN :
       /\ abandoned => g # Ticker
       /\ answer' = [answer EXCEPT ![g] = up /\ ~abandoned /\ ~(g = Ticker /\ rootDone)]
  /\ UNCHANGED <<vars, up, paused, stopped, connected, admitted, stragglers>>

\* Mutant: a failed probe keeps the last state of the dot.
OptimisticReading(g) == connected \/ answer[g]
Reading(g) == answer[g]

CheckStore(g) ==
  /\ Goto(g, "storing", "idle")
  /\ connected' = Reading(g)
  /\ UNCHANGED <<vars, up, paused, stopped, admitted, answer, stragglers>>

-----------------------------------------------------------------------------
Probe(g) == CheckBegin(g) \/ CheckAnswer(g) \/ CheckStore(g)

Caller(g) ==
  \/ PauseSwap(g) \/ PauseDisconnect(g) \/ PauseClear(g)
  \/ ResumeSwap(g)
  \/ StopSwap(g) \/ StopCancel(g) \/ StopClear(g)

ClusterNext ==
  \/ ServerFlips
  \/ \E p \in Subs : Admit(p) \/ Subscribe(p)
  \/ StoreStep
  \/ \E g \in Callers : Caller(g)
  \/ Tick
  \/ \E g \in Goroutines : Probe(g)

ClusterSpec == ClusterInit /\ [][ClusterNext]_cvars

\* The 15 s ticker fires, requests end within their 5 s timeout, a handler
\* that has begun runs on.  Users need not press anything.
ClusterFairness ==
  /\ WF_cvars(Tick)
  /\ \A g \in Goroutines : WF_cvars(Probe(g))
  /\ \A g \in Callers : WF_cvars(PauseDisconnect(g)) /\ WF_cvars(PauseClear(g))
                        /\ WF_cvars(StopCancel(g)) /\ WF_cvars(StopClear(g))

ClusterFairSpec == ClusterSpec /\ ClusterFairness

-----------------------------------------------------------------------------
(* Properties                                                              *)

\* Types of the variables this module adds, and who may be where.
SwitchTypeOK ==
  /\ up \in BOOLEAN /\ paused \in BOOLEAN /\ stopped \in BOOLEAN /\ connected \in BOOLEAN
  /\ admitted \subseteq Subs
  /\ stragglers \subseteq admitted
  /\ \A p \in Subs : pc[p] # "idle" => p \in admitted
  /\ op \in [Goroutines -> OpStates]
  /\ answer \in [Goroutines -> BOOLEAN]

\* No Pause is between its Swap and the end of its stopAll.
PauseSettled == \A g \in Goroutines : op[g] \notin {"pausing", "clearing"}

\* "No informers run" on a paused cluster (cluster.go:48-50, manager.go:203-206)
\* is not quite what the code does: a call that had passed the paused check
\* before Pause cleaned up starts its informer afterwards, and it runs on while
\* the cluster is paused. This is the only way: the window of the race between
\* Subscribe and Pause is one check wide, and closes.
PausedInformersAreStragglers ==
  paused /\ PauseSettled =>
    \A e \in live : \E p \in stragglers : p \in created /\ ent[p] = e

\* The status dot converges: if from some time on the cluster is neither
\* paused nor stopped and its API server stays up (or down), the dot ends up
\* showing that, whatever stale probes are still in flight.
ConnectedConverges ==
  \A b \in BOOLEAN :
    <>[](up = b /\ ~paused /\ ~stopped /\ ~crashed) => <>[](connected = b)

=============================================================================
