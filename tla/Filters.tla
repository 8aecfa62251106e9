------------------------------- MODULE Filters -------------------------------
(***************************************************************************)
(* Filtering a list, as the stores of the browser do it. The elements to      *)
(* keep are given as a set, and the filter by a recursive function, so that    *)
(* facts about it can be proved, which SelectSeq has no definition for.       *)
(***************************************************************************)
EXTENDS Integers, Sequences

(* The places of s that hold an element of V, in ascending order *)
PlacesOf(s, V) ==
    LET upto[n \in 0..Len(s)] ==
            IF n = 0 THEN <<>> ELSE IF s[n] \in V THEN Append(upto[n - 1], n) ELSE upto[n - 1]
    IN upto[Len(s)]

(* The elements of s that are in V, in their order *)
Kept(s, V) == [k \in DOMAIN PlacesOf(s, V) |-> s[PlacesOf(s, V)[k]]]
=============================================================================
