------------------------------ MODULE NavStack ------------------------------
(***************************************************************************)
(* The arrows of the top bar (frontend/src/lib/navStack.ts and NavArrows):  *)
(* a list of the locations the page committed, kept beside the browser's    *)
(* own history, which nobody can read. A traversal is asked for at once and *)
(* committed later; the flag `pending' is all that connects the two.        *)
(***************************************************************************)
EXTENDS Integers, Sequences

CONSTANTS
    Places,    \* locations of the page
    NavMax,    \* MAX: how many locations the list keeps
    MaxHist,   \* bound: length of the browser's history
    MaxMoves   \* bound: traversals in flight

ASSUME NavAssumption ==
    Places # {} /\ NavMax \in Nat \ {0} /\ MaxHist \in Nat /\ MaxMoves \in Nat

VARIABLES
    hist, pos,   \* the browser's history and where it stands; 0 is the site before the page
    moves,       \* traversals asked for and not committed
    nav,         \* entries, index (1 is the first) and pending of navStack.ts
    calm         \* so far: only pushes of another location, and one arrow at a time

navVars == <<hist, pos, moves, nav, calm>>

CanBack == nav.index > 1
CanForward == nav.index < Len(nav.entries)

(* record, called for a committed location that differs from the last one *)
LastEntries(s) == SubSeq(s, (IF Len(s) > NavMax THEN Len(s) - NavMax ELSE 0) + 1, Len(s))
(* Mutant of Record: what lay ahead of a push stays in the list. *)
RecordKeepingForward(n, loc) ==
    CASE n.pending = "back" -> [n EXCEPT !.pending = "none", !.index = IF @ > 1 THEN @ - 1 ELSE @]
      [] n.pending = "forward" -> [n EXCEPT !.pending = "none", !.index = IF @ < Len(n.entries) THEN @ + 1 ELSE @]
      [] n.pending = "none" /\ n.entries[n.index] = loc -> n
      [] OTHER -> LET es == LastEntries(Append(n.entries, loc)) IN [n EXCEPT !.entries = es, !.index = Len(es)]
Record(n, loc) ==
    CASE n.pending = "back" -> [n EXCEPT !.pending = "none", !.index = IF @ > 1 THEN @ - 1 ELSE @]
      [] n.pending = "forward" -> [n EXCEPT !.pending = "none", !.index = IF @ < Len(n.entries) THEN @ + 1 ELSE @]
      [] n.pending = "none" /\ n.entries[n.index] = loc -> n
      [] OTHER -> LET es == LastEntries(Append(SubSeq(n.entries, 1, n.index), loc))
                  IN [n EXCEPT !.entries = es, !.index = Len(es)]
Recorded(loc) == nav' = IF loc = hist[pos] THEN nav ELSE Record(nav, loc)

NavInit ==
    LET p == CHOOSE p \in Places : TRUE
    IN /\ hist = <<p>> /\ pos = 1 /\ moves = <<>> /\ calm = TRUE
       /\ nav = [entries |-> <<p>>, index |-> 1, pending |-> "none"]

(* A link, a handler that navigates *)
Push(loc) ==
    /\ pos > 0 /\ pos < MaxHist
    /\ hist' = Append(SubSeq(hist, 1, pos), loc) /\ pos' = pos + 1
    /\ Recorded(loc) /\ calm' = (calm /\ moves = <<>> /\ loc # hist[pos])
    /\ UNCHANGED moves
(* The root redirect, the last tab closed *)
Replace(loc) ==
    /\ pos > 0
    /\ hist' = [hist EXCEPT ![pos] = loc]
    /\ Recorded(loc) /\ calm' = (calm /\ loc = hist[pos])
    /\ UNCHANGED <<pos, moves>>
AskHistory(by) == Len(moves) < MaxMoves /\ moves' = Append(moves, by) /\ UNCHANGED <<hist, pos>>
BackArrow ==
    /\ pos > 0 /\ CanBack /\ AskHistory(-1)
    /\ nav' = [nav EXCEPT !.pending = "back"] /\ calm' = (calm /\ moves = <<>>)
ForwardArrow ==
    /\ pos > 0 /\ CanForward /\ AskHistory(1)
    /\ nav' = [nav EXCEPT !.pending = "forward"] /\ calm' = (calm /\ moves = <<>>)
BrowserButton(by) == pos > 0 /\ AskHistory(by) /\ calm' = FALSE /\ UNCHANGED nav
(* popstate: the location changes, unless the history has no such entry *)
Commit ==
    LET to == pos + Head(moves)
    IN /\ pos > 0 /\ moves # <<>> /\ moves' = Tail(moves)
       /\ IF to \in 0..Len(hist)
          THEN pos' = to /\ IF to = 0 THEN UNCHANGED nav ELSE Recorded(hist[to])
          ELSE UNCHANGED <<pos, nav>>
       /\ UNCHANGED <<hist, calm>>

NavNext ==
    \/ \E loc \in Places : Push(loc) \/ Replace(loc)
    \/ BackArrow \/ ForwardArrow \/ Commit
    \/ \E by \in {-1, 1} : BrowserButton(by)

NavSpec == NavInit /\ [][NavNext]_navVars

-----------------------------------------------------------------------------
(* As long as the page only pushes new locations and is moved by its own    *)
(* arrows one at a time, the list is a window of the browser's history       *)
(* around the current location, and it is cut where the browser cuts.        *)
ListMirrorsHistory ==
    calm /\ moves = <<>> =>
        /\ nav.pending = "none"
        /\ \A i \in DOMAIN nav.entries :
             LET h == pos - nav.index + i IN h \in DOMAIN hist /\ nav.entries[i] = hist[h]
        /\ ~CanForward => pos = Len(hist)
=============================================================================
