------------------------------ MODULE LogWindow ------------------------------
(***************************************************************************)
(* What a log buffer promises: it holds the last lines it was given, never *)
(* more than its size, in the order they came.                             *)
(***************************************************************************)
EXTENDS Integers, Sequences

CONSTANTS Lines, HardCap

VARIABLES window, size
windowVars == <<window, size>>

KeepLast(q, n) == SubSeq(q, IF Len(q) > n THEN Len(q) - n + 1 ELSE 1, Len(q))

WindowInit == window = <<>> /\ size \in 1..HardCap

Accept(l)   == window' = KeepLast(Append(window, l), size) /\ UNCHANGED size
Resize(n, m) == m <= n /\ window' = KeepLast(window, m) /\ size' = n
Restart(n)  == window' = <<>> /\ size' = n

WindowNext ==
    \/ \E l \in Lines : Accept(l)
    \/ \E n, m \in 1..HardCap : Resize(n, m)
    \/ \E n \in 1..HardCap : Restart(n)

WindowSpec == WindowInit /\ [][WindowNext]_windowVars
=============================================================================
