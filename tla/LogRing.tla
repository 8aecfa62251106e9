------------------------------- MODULE LogRing -------------------------------
(***************************************************************************)
(* The lines of one log stream (frontend/src/lib/logStreams.ts): the ring  *)
(* buffer with its head and its size, the memory that drops the lines a     *)
(* reconnect repeats, the resizing of both while lines arrive, and the tail *)
(* a page reload keeps. A container writes the lines 1, 2, ...; a request   *)
(* continues after the newest line the ring saw, with the precision of a    *)
(* second, or asks for a tail. Lines are timestamped; several connections   *)
(* may feed the ring (LogStreams shows how that comes about).               *)
(***************************************************************************)
EXTENDS Integers, Sequences

CONSTANTS
    HardCap,    \* ABSOLUTE_MAX_LINES
    MaxSaved,   \* PERSIST_MAX_LINES
    MaxLine,    \* bound: lines the container writes
    Conns       \* connections that may feed the ring

ASSUME RingAssumption == HardCap \in Nat \ {0} /\ MaxSaved \in Nat \ {0} /\ MaxLine \in Nat

VARIABLES
    buf,      \* buf: the cells 0 .. cap-1 are the array
    head,     \* head: where the next line goes
    size,     \* size
    cap,      \* bufferCap
    seen,     \* seenLineQueue, and as a set seenLineKeys
    last,     \* lastLineAt, 0 before the first line
    tail,     \* opts.tail
    written,  \* lines written by the container
    conn,     \* what each connection sends next, 0 if it is down
    plain     \* history: fed by one connection, not cleared, and never given a repeated
              \* line older than those it remembers while it had room

cellVars == <<buf, head, size, cap, seen, last>>
ringVars == <<cellVars, tail, written, conn, plain>>

Lines == 1..MaxLine
Caps == 1..HardCap
Cells == 0..(HardCap - 1)
Blank == 0

KeepLast(q, n) == SubSeq(q, IF Len(q) > n THEN Len(q) - n + 1 ELSE 1, Len(q))
Held(q) == {q[i] : i \in DOMAIN q}
Smaller(m, n) == IF m < n THEN m ELSE n

(* readBuf: the cells in arrival order; a full ring starts at head.         *)
ReadBuf ==
    IF size < cap THEN [i \in 1..size |-> buf[i - 1]]
    ELSE [i \in 1..cap |-> buf[IF head + i <= cap THEN head + i - 1 ELSE head + i - 1 - cap]]

(* A ring of n cells that holds the lines q *)
Laid(q, n) ==
    /\ buf' = [c \in Cells |-> IF c < Len(q) THEN q[c + 1] ELSE Blank]
    /\ size' = Len(q) /\ head' = Len(q) % n /\ cap' = n

(* Mutant of PushLine: the head wraps where the array ends, not the ring. *)
PushLineUnwrapped(l) ==
    IF l \in Held(seen) THEN UNCHANGED cellVars
    ELSE /\ buf' = [buf EXCEPT ![head] = l]
         /\ head' = (head + 1) % HardCap
         /\ size' = IF size < cap THEN size + 1 ELSE size
         /\ seen' = KeepLast(Append(seen, l), cap)
         /\ last' = l
         /\ UNCHANGED cap

(* pushLine(s, l) *)
PushLine(l) ==
    IF l \in Held(seen) THEN UNCHANGED cellVars
    ELSE /\ buf' = [buf EXCEPT ![head] = l]
         /\ head' = (head + 1) % cap
         /\ size' = IF size < cap THEN size + 1 ELSE size
         /\ seen' = KeepLast(Append(seen, l), cap)
         /\ last' = l
         /\ UNCHANGED cap

RingInit ==
    /\ buf = [c \in Cells |-> Blank] /\ head = 0 /\ size = 0 /\ seen = <<>> /\ last = 0
    /\ cap \in Caps /\ tail = cap
    /\ written \in 0..MaxLine /\ conn = [c \in Conns |-> 0] /\ plain = TRUE

WriteLine ==
    /\ written < MaxLine /\ written' = written + 1
    /\ UNCHANGED <<cellVars, tail, conn, plain>>

(* connect: the request continues after the newest line, or asks for t lines *)
FirstSent(newest, t) ==
    IF newest > 0 THEN {newest, IF newest > 1 THEN newest - 1 ELSE 1}
    ELSE {IF written > t THEN written - t + 1 ELSE 1}
Alone(c) == \A d \in Conns \ {c} : conn[d] = 0
RingConnect(c) ==
    /\ conn[c] = 0
    /\ \E at \in FirstSent(last, tail) : conn' = [conn EXCEPT ![c] = at]
    /\ plain' = (plain /\ Alone(c))
    /\ UNCHANGED <<cellVars, tail, written>>
LineArrives(c) ==
    /\ conn[c] \in 1..written
    /\ PushLine(conn[c]) /\ conn' = [conn EXCEPT ![c] = @ + 1]
    /\ plain' = (plain /\ (conn[c] >= last \/ conn[c] \in Held(seen) \/ size = cap))
    /\ UNCHANGED <<tail, written>>
Drop(c) ==
    /\ conn[c] > 0 /\ conn' = [conn EXCEPT ![c] = 0]
    /\ UNCHANGED <<cellVars, tail, written, plain>>

(* setBufferCap in mode "trim": a smaller or larger ring, the newest lines  *)
(* kept, the memory shortened with it.                                      *)
Trim(n) ==
    /\ n # cap
    /\ Laid(KeepLast(ReadBuf, n), n) /\ seen' = KeepLast(seen, n)
    /\ UNCHANGED <<last, tail, written, conn, plain>>
(* In mode "refetch" the ring starts anew and c's socket is replaced. *)
RingRefetch(c, n, t) ==
    /\ t <= n /\ tail' = t
    /\ Laid(<<>>, n) /\ seen' = <<>> /\ last' = 0
    /\ \E at \in FirstSent(0, t) : conn' = [conn EXCEPT ![c] = at]
    /\ plain' = Alone(c)
    /\ UNCHANGED written
(* clearLines *)
ClearRing ==
    /\ Laid(<<>>, cap) /\ seen' = <<>> /\ last' = 0 /\ plain' = FALSE
    /\ UNCHANGED <<tail, written, conn>>
(* persistAll, and hydrateAll in the reloaded page: the last lines pushed   *)
(* one by one into a ring of the tail's size.                               *)
ReloadRing ==
    LET kept == KeepLast(ReadBuf, Smaller(MaxSaved, tail))
    IN /\ Laid(kept, tail) /\ seen' = kept
       /\ last' = IF kept = <<>> THEN 0 ELSE kept[Len(kept)]
       /\ conn' = [c \in Conns |-> 0]
       /\ UNCHANGED <<tail, written, plain>>

RingNext ==
    \/ WriteLine \/ ClearRing \/ ReloadRing
    \/ \E c \in Conns : RingConnect(c) \/ LineArrives(c) \/ Drop(c)
    \/ \E n \in Caps : Trim(n)
    \/ \E c \in Conns, n, t \in Caps : RingRefetch(c, n, t)

RingSpec == RingInit /\ [][RingNext]_ringVars

-----------------------------------------------------------------------------
(* The ring with its wrapping head is the window of the last lines it was   *)
(* given, through every resize, refetch, clear and reload.                  *)
Window == INSTANCE LogWindow WITH window <- ReadBuf, size <- cap
RingIsWindow == Window!WindowSpec

(* A line is never in the ring twice, although every reconnect repeats the  *)
(* newest ones and several connections may feed the ring.                   *)
NoLineTwice == \A i, j \in DOMAIN ReadBuf : ReadBuf[i] = ReadBuf[j] => i = j

(* Once the only connection has delivered what was written, the ring is the *)
(* end of the log, in order and without a gap, whatever was repeated,       *)
(* dropped, trimmed, refetched or reloaded on the way.                      *)
RingIsTail ==
    plain /\ (\E c \in Conns : conn[c] > written) =>
        /\ ReadBuf = <<>> <=> written = 0
        /\ \A i \in DOMAIN ReadBuf : ReadBuf[i] = written - Len(ReadBuf) + i

(* All of it: a window of what it was given, and of the log no line twice,  *)
(* none missing and none out of order.                                      *)
RingIsFaithful == RingIsWindow /\ [](NoLineTwice /\ RingIsTail)
=============================================================================
