------------------------------- MODULE MetricCharts -------------------------------
(***************************************************************************)
(* The charts of a cluster's page. Where the numbers come from              *)
(* (frontend/src/lib/podMetrics.ts, lib/nodeMetrics.ts): the provider chosen *)
(* in the settings, and what the probe for a Prometheus in the cluster said.  *)
(*                                                                         *)
(* The chart of the overview (lib/clusterMetrics.ts, pages/OverviewPage.tsx): *)
(* a range of Prometheus for the nodes in scope, whose end moves with the     *)
(* clock; and, where there is no Prometheus or it has nothing for these       *)
(* nodes, samples of the metrics-server that the page collects itself, one    *)
(* history for each scope and metric.                                      *)
(*                                                                         *)
(* The panel of one object (components/charts/WorkloadMetrics.tsx and         *)
(* NodeMetrics.tsx): a tab for each metric, drawn from a range of Prometheus   *)
(* or, for CPU and memory, from samples of the metrics-server that the panel   *)
(* collects while it is open; and a menu that copies the latest value.        *)
(***************************************************************************)
EXTENDS Integers, Sequences

CONSTANTS
    MaxClock,     \* bound: seconds that pass
    HistoryLen,   \* samples a live history keeps
    Scopes,       \* worker or master nodes
    Metrics,      \* cpu or memory
    Workloads,    \* workloads that may be shown: a query for each
    PanelNodes    \* nodes that may be shown: one query for all

ASSUME MetricAssumption == MaxClock \in Nat /\ HistoryLen \in Nat \ {0}

VARIABLES
    provider,     \* getClusterSettings(cluster).metricsProvider
    info,         \* the probe's cached answer: "unknown", "detected", "undetected"
    clock,         \* in seconds
    scope, metric,   \* the selection
    range,           \* the range query of the selection: has it an answer, has its data points
    fetched,         \* the scopes whose metrics-server query has data
    result,          \* what that query hands to the page: the scope it is of, or "none"
    live,             \* fallbackHistory
    shown,        \* the object on display
    tab,          \* the metric on display
    samples,      \* samplesRef
    drawn,        \* the range query of the tab has points
    answered,     \* the queries of the metrics-server that have data: the objects in it
    latest        \* latestRef: the object and tab whose value it is, or Nothing

sourceVars == <<provider, info, clock>>
chartVars == <<scope, metric, range, fetched, result, live>>
objectVars == <<shown, tab, samples, drawn, answered, latest>>

SourceInit == provider = "auto" /\ info = "unknown" /\ clock = 1

Probing == provider \notin {"none", "metrics-server"}
Source ==
    CASE ~Probing -> provider
      [] Probing /\ info = "detected" -> "prometheus"
      [] OTHER -> IF provider = "prometheus" THEN "none" ELSE "metrics-server"

(* A failed probe leaves the answer of the last one. *)
Probed == Probing /\ info' \in {"detected", "undetected"} /\ UNCHANGED <<provider, clock>>
Chosen == provider' \in {"auto", "prometheus", "metrics-server", "none"} /\ UNCHANGED <<info, clock>>
SecondPasses == clock < MaxClock /\ clock' = clock + 1 /\ UNCHANGED <<provider, info>>

(* A sample of what was fetched joins a live history: one a second. *)
Sampled(history, of) ==
    IF history # <<>> /\ history[Len(history)].t = clock THEN history
    ELSE LET all == Append(history, [t |-> clock, of |-> of])
         IN SubSeq(all, Len(all) - (IF Len(all) > HistoryLen THEN HistoryLen ELSE Len(all)) + 1, Len(all))

-----------------------------------------------------------------------------
(* The chart of the overview *)
ChartInit ==
    /\ scope = "master" /\ metric = "cpu"
    /\ range = [answered |-> FALSE, points |-> FALSE]
    /\ fetched = {} /\ result = "none"
    /\ live = [k \in Scopes \X Metrics |-> <<>>]

UsingRange == Source = "prometheus" /\ range.points
RangeEmpty == Source = "prometheus" /\ range.answered /\ ~range.points
LiveEnabled == Source = "metrics-server" \/ RangeEmpty

(* Another key for the range query: the points of the last one stay on       *)
(* display until the answer comes, unless that key was asked for before.     *)
Rekeyed ==
    \/ range' = [range EXCEPT !.answered = FALSE]
    \/ \E points \in BOOLEAN : range' = [answered |-> TRUE, points |-> points]
(* Mutant of ResultOf: the last result stays until the new one is there. *)
ResultKept(s) == IF s \in fetched THEN s ELSE result
ResultOf(s) == IF s \in fetched THEN s ELSE "none"
(* The effect of useFallbackUsageSeries *)
Collect(s, m, r) ==
    live' = IF r = "none" THEN live ELSE [live EXCEPT ![<<s, m>>] = Sampled(@, r)]

SelectView(s, m) ==
    /\ <<s, m>> # <<scope, metric>>
    /\ scope' = s /\ metric' = m
    /\ Rekeyed
    /\ result' = ResultOf(s) /\ Collect(s, m, result')
    /\ UNCHANGED <<sourceVars, fetched>>
SelectRange == Rekeyed /\ UNCHANGED <<sourceVars, scope, metric, fetched, result, live>>
(* The end of the range is computed anew by each render. *)
RangeMoves == SecondPasses /\ Rekeyed /\ UNCHANGED <<scope, metric, fetched, result, live>>

RangeAnswered ==
    /\ Source = "prometheus"
    /\ \E points \in BOOLEAN : range' = [answered |-> TRUE, points |-> points]
    /\ UNCHANGED <<sourceVars, scope, metric, fetched, result, live>>
(* The answer for a scope that may no longer be the one on display *)
LiveAnswered(s) ==
    /\ s = scope => LiveEnabled
    /\ fetched' = fetched \cup {s}
    /\ result' = IF s = scope THEN s ELSE result
    /\ IF s = scope THEN Collect(s, metric, s) ELSE UNCHANGED live
    /\ UNCHANGED <<sourceVars, scope, metric, range>>
(* A query nobody looks at is dropped after some minutes; other nodes in the  *)
(* scope make it another query, asked for before or not.                     *)
Forgets(s) ==
    /\ s \in fetched /\ fetched' = fetched \ {s}
    /\ result' = IF s = scope THEN "none" ELSE result
    /\ IF s = scope THEN Rekeyed ELSE UNCHANGED range
    /\ UNCHANGED <<sourceVars, scope, metric, live>>
(* The page is left and shown again, with its default selection. *)
OverviewAgain ==
    /\ scope' = "master" /\ metric' = "cpu" /\ range' = [answered |-> FALSE, points |-> FALSE]
    /\ result' = ResultOf("master") /\ Collect("master", "cpu", result')
    /\ UNCHANGED <<sourceVars, fetched>>
ProviderChanges == (Probed \/ Chosen) /\ UNCHANGED chartVars

ChartNext ==
    \/ \E s \in Scopes, m \in Metrics : SelectView(s, m)
    \/ \E s \in Scopes : LiveAnswered(s) \/ Forgets(s)
    \/ SelectRange \/ RangeMoves \/ RangeAnswered \/ OverviewAgain \/ ProviderChanges

-----------------------------------------------------------------------------
(* The panel of an object *)
NoLatest == [of |-> "none", tab |-> "none"]
PanelObjects == Workloads \cup PanelNodes
KeyOf(o) == IF o \in PanelNodes THEN "nodes" ELSE o
RowsFor(k) == IF k = "nodes" THEN PanelNodes ELSE {k}
PanelInit ==
    /\ shown = (CHOOSE o \in Workloads : TRUE) /\ tab = "cpu"
    /\ samples = <<>> /\ drawn = FALSE /\ latest = NoLatest
    /\ answered = [k \in Workloads \cup {"nodes"} |-> {}]

LiveTab(t) == t \in {"cpu", "memory"}
TabAvailable(t) == IF LiveTab(t) THEN Source # "none" ELSE Source = "prometheus"

(* What the effects leave behind when the panel is drawn for an object and a *)
(* tab: the samples, after the reset of another object, with one of the data *)
(* that is there; and, in a workload's panel, the value of the last point.   *)
Reset(o, t) ==
    o # shown \/ Source # "metrics-server" \/ ~LiveTab(t) \/ (t # tab /\ o \in Workloads)
Collected(o, kept) == IF o \in answered'[KeyOf(o)] THEN Sampled(kept, o) ELSE kept
Drawn(o, t) ==
    /\ shown' = o /\ tab' = t
    /\ samples' = IF Source = "metrics-server" /\ LiveTab(t)
                  THEN Collected(o, IF Reset(o, t) THEN <<>> ELSE samples) ELSE <<>>
    /\ latest' = IF o \in Workloads /\ TabAvailable(t) /\ (IF Source = "prometheus" THEN drawn' ELSE samples' # <<>>)
                 THEN [of |-> o, tab |-> t] ELSE latest

ShowObject(o) ==
    /\ o # shown /\ drawn' \in BOOLEAN
    /\ IF (o \in PanelNodes) = (shown \in PanelNodes)
       THEN UNCHANGED answered /\ Drawn(o, tab)
       ELSE \* another panel: it opens on its first tab, with nothing to copy
            /\ shown' = o /\ tab' = "cpu" /\ latest' = NoLatest /\ UNCHANGED answered
            /\ samples' = IF Source = "metrics-server" THEN Collected(o, <<>>) ELSE <<>>
    /\ UNCHANGED sourceVars
SelectTabOf(t) ==
    /\ t # tab /\ TabAvailable(t) /\ drawn' \in BOOLEAN
    /\ UNCHANGED <<sourceVars, answered>> /\ Drawn(shown, t)
(* The window of the range moves every STEP_SEC: another query. *)
WindowMoves == SecondPasses /\ drawn' = FALSE /\ UNCHANGED <<shown, tab, samples, answered, latest>>

PanelAnswered(k) ==
    /\ \/ KeyOf(shown) # k \/ (Source = "metrics-server" /\ LiveTab(tab))
    /\ \E rows \in SUBSET RowsFor(k) : answered' = [answered EXCEPT ![k] = rows]
    /\ UNCHANGED <<sourceVars, drawn>>
    /\ IF KeyOf(shown) = k THEN Drawn(shown, tab) ELSE UNCHANGED <<shown, tab, samples, latest>>
PointsArrive ==
    /\ Source = "prometheus" /\ drawn' = TRUE /\ UNCHANGED <<sourceVars, answered>> /\ Drawn(shown, tab)
(* Another source: another component, with samples of its own *)
SourceChanges ==
    /\ Probed \/ Chosen
    /\ drawn' = FALSE /\ UNCHANGED <<shown, tab, answered, latest>>
    /\ samples' = IF Source' = "metrics-server" /\ LiveTab(tab)
                  THEN Collected(shown, IF Source = Source' THEN samples ELSE <<>>) ELSE <<>>

PanelNext ==
    \/ \E o \in PanelObjects : ShowObject(o)
    \/ \E t \in {"cpu", "memory", "network"} : SelectTabOf(t)
    \/ \E k \in Workloads \cup {"nodes"} : PanelAnswered(k)
    \/ WindowMoves \/ PointsArrive \/ SourceChanges

(* A page shows the overview or an object. *)
MetricsNext ==
    \/ ChartNext /\ UNCHANGED objectVars
    \/ PanelNext /\ UNCHANGED chartVars
MetricsSpec == SourceInit /\ ChartInit /\ PanelInit /\ [][MetricsNext]_<<sourceVars, chartVars, objectVars>>

-----------------------------------------------------------------------------
(* A history shows one scope: no sample of the worker nodes is drawn for the *)
(* masters, whichever way the selection, the answers and the cache cross.     *)
HistoryOfScope ==
    \A s \in Scopes, m \in Metrics : \A i \in DOMAIN live[<<s, m>>] :
        /\ live[<<s, m>>][i].of = s
        /\ i > 1 => live[<<s, m>>][i - 1].t < live[<<s, m>>][i].t

(* What is drawn live is of the object on display, although the answers are   *)
(* shared between objects and the panel is kept when another one is shown.    *)
SamplesOfObject == \A i \in DOMAIN samples : samples[i].of = shown

(* Both: no sample is drawn for something else than what it was taken of.     *)
SamplesOfTheShown == HistoryOfScope /\ SamplesOfObject
=============================================================================
