--------------------------- MODULE CommandPalette ---------------------------
(***************************************************************************)
(* The Cmd-K palette (frontend/src/components/CommandPalette.tsx): one list  *)
(* of pages, actions and, once something is typed, objects that seven live   *)
(* lists stream in. The highlighted row is an INDEX into a list that is       *)
(* ranked anew whenever an object comes or goes.                             *)
(***************************************************************************)
EXTENDS Integers, Sequences, FiniteSets

CONSTANTS
    NumFixed,      \* entries for pages and actions
    NumStreamed,   \* entries for objects of the cluster
    MatchCap       \* rows the list shows at most (200)

ASSUME PaletteAssumption == NumFixed \in Nat /\ NumStreamed \in Nat /\ MatchCap \in Nat \ {0}

(* Entries in the order of group and title, which breaks ties of the ranking *)
FixedEntries == 1 .. NumFixed
StreamedEntries == NumFixed + 1 .. NumFixed + NumStreamed
PaletteEntries == FixedEntries \cup StreamedEntries
PageEntries == FixedEntries \ {NumFixed}

VARIABLES
    palette,    \* is it open, the rank that the typed text gives each entry (0: no match), the highlighted row
    streamed,   \* the objects that the live lists hold
    inCluster,  \* is there a cluster?
    chosen,     \* the entry whose action ran last, or 0
    sunk        \* ArrowDown was pressed on an empty list since the highlight was last placed

paletteVars == <<palette, streamed, inCluster, chosen, sunk>>

(* matchTier: prefix of the title, start of a word, inside it, in the haystack *)
Ranks == 0 .. 4
(* Nothing typed: "Show pages + actions". *)
BlankRanks == [e \in PaletteEntries |-> IF e \in FixedEntries THEN 4 ELSE 0]
TypedRanks == [PaletteEntries -> Ranks]

Before(rank, a, b) == rank[a] < rank[b] \/ (rank[a] = rank[b] /\ a < b)
Listed(rank, objects) ==
    LET hits == {e \in FixedEntries \cup objects : rank[e] # 0}
        Ahead(e) == {d \in hits : Before(rank, d, e)}
        rows == IF Cardinality(hits) < MatchCap THEN Cardinality(hits) ELSE MatchCap
    IN [i \in 1 .. rows |-> CHOOSE e \in hits : Cardinality(Ahead(e)) = i - 1]
Matches == Listed(palette.rank, streamed)
(* Mutant of Clamped: no such effect. *)
Unclamped(highlight, rows) == highlight
(* The effect that puts the highlight back when the list shrinks past it *)
Clamped(highlight, rows) == IF highlight >= Len(rows) THEN 0 ELSE highlight

PaletteInit ==
    /\ palette = [open |-> FALSE, rank |-> BlankRanks, highlight |-> 0]
    /\ streamed = {} /\ inCluster = TRUE /\ chosen = 0 /\ sunk = FALSE

(* The lists are subscribed to while something is typed in a cluster. *)
Wants == palette.open /\ palette.rank # BlankRanks /\ inCluster

OpenPalette ==
    /\ ~palette.open
    /\ palette' = [open |-> TRUE, rank |-> BlankRanks, highlight |-> 0]
    /\ streamed' = {} /\ sunk' = FALSE /\ UNCHANGED <<inCluster, chosen>>
Shut == palette' = [palette EXCEPT !.open = FALSE] /\ streamed' = {}
(* The hotkey again, Escape, or a press beside the box *)
Dismiss == palette.open /\ Shut /\ UNCHANGED <<inCluster, chosen, sunk>>

TypeQuery(rank) ==
    /\ palette.open
    /\ palette' = [palette EXCEPT !.rank = rank, !.highlight = 0]
    /\ streamed' = IF rank = BlankRanks THEN {} ELSE streamed
    /\ sunk' = FALSE /\ UNCHANGED <<inCluster, chosen>>
(* Objects come and go under the typed text. *)
ListChanges(objects) ==
    /\ Wants /\ objects # streamed
    /\ streamed' = objects
    /\ palette' = [palette EXCEPT !.highlight = Clamped(@, Listed(palette.rank, objects))]
    /\ UNCHANGED <<inCluster, chosen, sunk>>
ClusterChanges ==
    /\ inCluster' = ~inCluster /\ streamed' = {}
    /\ palette' = [palette EXCEPT !.highlight = Clamped(@, Listed(palette.rank, {}))]
    /\ UNCHANGED <<chosen, sunk>>

Place(row, sinks) ==
    /\ palette' = [palette EXCEPT !.highlight = Clamped(row, Matches)] /\ sunk' = sinks
    /\ UNCHANGED <<streamed, inCluster, chosen>>
ArrowDown ==
    LET last == Len(Matches) - 1
    IN palette.open /\ Place(IF palette.highlight + 1 < last THEN palette.highlight + 1 ELSE last, Matches = <<>>)
ArrowUp == palette.open /\ Place(IF palette.highlight > 0 THEN palette.highlight - 1 ELSE 0, FALSE)
Hover(row) == palette.open /\ row < Len(Matches) /\ Place(row, FALSE)

(* Enter does nothing when no row is highlighted, a page without a cluster. *)
PickRow(row) ==
    /\ palette.open /\ row >= 0 /\ row < Len(Matches)
    /\ chosen' = IF Matches[row + 1] \in PageEntries /\ ~inCluster THEN chosen ELSE Matches[row + 1]
    /\ Shut /\ UNCHANGED <<inCluster, sunk>>
Enter == PickRow(palette.highlight)
ClickRow(row) == PickRow(row)

PaletteNext ==
    \/ OpenPalette \/ Dismiss \/ ArrowDown \/ ArrowUp \/ Enter \/ ClusterChanges
    \/ \E rank \in TypedRanks : TypeQuery(rank)
    \/ \E objects \in SUBSET StreamedEntries : ListChanges(objects)
    \/ \E row \in 0 .. NumFixed + NumStreamed : Hover(row) \/ ClickRow(row)

PaletteSpec == PaletteInit /\ [][PaletteNext]_paletteVars

-----------------------------------------------------------------------------
(* While there is anything to pick, a row is highlighted and Enter picks it,  *)
(* whatever objects came and went under the typed text: unless ArrowDown was  *)
(* pressed while nothing matched, which puts the highlight on row -1, where    *)
(* the effect that repairs it does not look.                                  *)
HighlightOnARow ==
    palette.open /\ Matches # <<>> /\ ~sunk => palette.highlight \in 0 .. Len(Matches) - 1
=============================================================================
