---------------------------- MODULE ColumnLayout ----------------------------
(***************************************************************************)
(* The columns of the tables: which are shown and how wide they are           *)
(* (frontend/src/components/ResourceTable.tsx). One table serves one list     *)
(* after another; each list has its choice of columns and its widths in       *)
(* localStorage, and the list of pods offers the metric columns only while    *)
(* the user's settings say so (pages/ResourceListPage.tsx).                   *)
(***************************************************************************)
EXTENDS FiniteSets

CONSTANTS
    Lists,         \* lists the user visits; each offers a column named after it
    PodList,       \* the one with metric columns
    MetricKeys,    \* those columns
    OffByDefault,  \* columns that are hidden until the user asks for them
    Edges          \* bound: the columns whose edges the user drags

ASSUME ColumnAssumption == PodList \in Lists /\ "name" \notin Lists \cup MetricKeys \cup OffByDefault

VARIABLES
    table,          \* the list on display, the columns shown (visibleKeys), their widths, the column menu
    columnsOf,      \* localStorage: the choice stored for each list
    widthsOf,       \* localStorage: the widths stored for each list
    prefs,          \* the settings persistColumnWidths and showPodMetricsColumns
    resizing,       \* the drag of a column's edge: its column, and the list and setting it started under
    dropped,        \* the columns that a choice stored while they were not offered left out
    unchecked       \* the columns that the user unchecked last in each list

columnVars == <<table, columnsOf, widthsOf, prefs, resizing, dropped, unchecked>>

Required == "name"
ColumnKeys == {Required} \cup Lists \cup MetricKeys
Offered(list, metrics) == {Required, list} \cup IF list = PodList /\ metrics THEN MetricKeys ELSE {}

NoChoice == {}
NoWidths == [k \in {} |-> 0]
NoResize == [key |-> Required, list |-> "none", keeps |-> FALSE]

(* normalizeVisibleColumns: the first column always, no unknown ones *)
Normalized(offered, keys) == (keys \cap offered) \cup {Required}
DefaultColumns(offered) == Normalized(offered, offered \ OffByDefault)
(* readVisibleColumns, readColumnWidths *)
ReadColumns(list, offered) ==
    IF columnsOf[list] = NoChoice THEN DefaultColumns(offered) ELSE Normalized(offered, columnsOf[list])
ReadWidths(list, keeps) == IF keeps THEN widthsOf[list] ELSE NoWidths
(* The table as the reset effect leaves it *)
Fresh(list, settings) ==
    [list |-> list, shown |-> ReadColumns(list, Offered(list, settings.metrics)),
     widths |-> ReadWidths(list, settings.keeps), menu |-> FALSE]

ColumnInit ==
    /\ columnsOf = [l \in Lists |-> NoChoice] /\ widthsOf = [l \in Lists |-> NoWidths]
    /\ prefs = [keeps |-> FALSE, metrics |-> FALSE]
    /\ table = Fresh(PodList, prefs)
    /\ resizing = NoResize
    /\ dropped = [l \in Lists |-> {}] /\ unchecked = [l \in Lists |-> {}]

(* Mutant of OpenList: the columns of the list before stay. *)
OpenListAsItWas(list) ==
    /\ list # table.list /\ table' = [Fresh(list, prefs) EXCEPT !.shown = table.shown]
    /\ UNCHANGED <<columnsOf, widthsOf, prefs, resizing, dropped, unchecked>>
OpenList(list) ==
    /\ list # table.list /\ table' = Fresh(list, prefs)
    /\ UNCHANGED <<columnsOf, widthsOf, prefs, resizing, dropped, unchecked>>
(* On the settings page, or on that of another window *)
ChangePrefs(keeps, metrics) ==
    /\ prefs' = [keeps |-> keeps, metrics |-> metrics] /\ prefs' # prefs
    /\ table' = IF keeps # prefs.keeps \/ table.list = PodList THEN Fresh(table.list, prefs') ELSE table
    /\ UNCHANGED <<columnsOf, widthsOf, resizing, dropped, unchecked>>

ToggleColumnMenu ==
    /\ table' = [table EXCEPT !.menu = ~@]
    /\ UNCHANGED <<columnsOf, widthsOf, prefs, resizing, dropped, unchecked>>
(* setAndStoreVisibleKeys *)
StoreColumns(keys) ==
    LET offered == Offered(table.list, prefs.metrics)
        shown == Normalized(offered, keys)
    IN /\ table.menu
       /\ table' = [table EXCEPT !.shown = shown]
       /\ columnsOf' = [columnsOf EXCEPT ![table.list] = shown]
       /\ dropped' = [dropped EXCEPT ![table.list] = (@ \cup (Offered(table.list, TRUE) \ offered)) \ shown]
       /\ UNCHANGED <<widthsOf, prefs, resizing>>
ToggleColumn(key) ==
    /\ key \in Offered(table.list, prefs.metrics) \ {Required}
    /\ StoreColumns(IF key \in table.shown THEN table.shown \ {key} ELSE table.shown \cup {key})
    /\ unchecked' = [unchecked EXCEPT ![table.list] = IF key \in table.shown THEN @ \cup {key} ELSE @ \ {key}]
ShowAllColumns ==
    /\ StoreColumns(Offered(table.list, prefs.metrics))
    /\ unchecked' = [unchecked EXCEPT ![table.list] = @ \ Offered(table.list, prefs.metrics)]
ResetColumns ==
    /\ StoreColumns(DefaultColumns(Offered(table.list, prefs.metrics)))
    /\ unchecked' = [unchecked EXCEPT ![table.list] = @ \ Offered(table.list, prefs.metrics)]

-----------------------------------------------------------------------------
(* Widths. The handlers of a drag belong to the list it was started in, the   *)
(* state they change to the list that is there when the pointer moves.        *)
Widen(widths, key) == [k \in DOMAIN widths \cup {key} |-> 1]
Narrow(widths, key) == [k \in DOMAIN widths \ {key} |-> 1]
StoreWidths(list, widths, keeps) ==
    widthsOf' = IF keeps THEN [widthsOf EXCEPT ![list] = widths] ELSE widthsOf

ResizeStart(key) ==
    /\ resizing = NoResize /\ key \in table.shown \cap Edges
    /\ resizing' = [key |-> key, list |-> table.list, keeps |-> prefs.keeps]
    /\ UNCHANGED <<table, columnsOf, widthsOf, prefs, dropped, unchecked>>
ResizeMove ==
    /\ resizing # NoResize
    /\ table' = [table EXCEPT !.widths = Widen(@, resizing.key)]
    /\ UNCHANGED <<columnsOf, widthsOf, prefs, resizing, dropped, unchecked>>
ResizeEnd ==
    /\ resizing # NoResize /\ resizing' = NoResize
    /\ table' = [table EXCEPT !.widths = Widen(@, resizing.key)]
    /\ StoreWidths(resizing.list, table'.widths, resizing.keeps)
    /\ UNCHANGED <<columnsOf, prefs, dropped, unchecked>>
(* A double click on the edge, which is no drag *)
ResetWidth(key) ==
    /\ resizing = NoResize /\ key \in table.shown
    /\ table' = [table EXCEPT !.widths = Narrow(@, key)]
    /\ StoreWidths(table.list, table'.widths, prefs.keeps)
    /\ UNCHANGED <<columnsOf, prefs, resizing, dropped, unchecked>>
ResetWidths ==
    /\ table.menu /\ table' = [table EXCEPT !.widths = NoWidths]
    /\ StoreWidths(table.list, NoWidths, TRUE)
    /\ UNCHANGED <<columnsOf, prefs, resizing, dropped, unchecked>>

ColumnNext ==
    \/ \E list \in Lists : OpenList(list)
    \/ \E keeps, metrics \in BOOLEAN : ChangePrefs(keeps, metrics)
    \/ \E key \in ColumnKeys : ToggleColumn(key) \/ ResizeStart(key) \/ ResetWidth(key)
    \/ ToggleColumnMenu \/ ShowAllColumns \/ ResetColumns \/ ResizeMove \/ ResizeEnd \/ ResetWidths

ColumnSpec == ColumnInit /\ [][ColumnNext]_columnVars

-----------------------------------------------------------------------------
(* A column that the list offers and does not show is one that the user       *)
(* unchecked in this list, one that is off by default, or one that was not    *)
(* offered when the choice was stored: the metric columns stay hidden when     *)
(* they are turned on after any other column was chosen.                      *)
HiddenOnPurpose ==
    /\ Required \in table.shown
    /\ \A key \in Offered(table.list, prefs.metrics) \ table.shown :
           \/ key \in unchecked[table.list] \cup OffByDefault
           \/ key \in dropped[table.list]
=============================================================================
