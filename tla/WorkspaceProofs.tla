--------------------------- MODULE WorkspaceProofs ---------------------------
(***************************************************************************)
(* Proofs about the lists that the user arranges: the strip of tabs shows   *)
(* what is open and opens nothing unasked (PageTabs); the pins of a window   *)
(* are the list as it was arranged last (LocalStores); and the highlight of  *)
(* the palette is on a row (CommandPalette). For any pages, clusters, names  *)
(* and windows, and lists of any length.                                   *)
(***************************************************************************)
EXTENDS PageTabs, LocalStores, CommandPalette, SequenceTheorems, FiniteSetTheorems,
        WellFoundedInduction, TLAPS

-----------------------------------------------------------------------------
(* Induction, over a set instead of a predicate.                               *)
LEMMA LeastOfNaturals ==
  ASSUME NEW T \in SUBSET Nat, T # {}
  PROVE  \E m \in T : \A j \in T : m <= j
<1> DEFINE R == OpToRel(<, Nat)
<1>1. IsWellFoundedOn(R, Nat)
  BY NatLessThanWellFounded
<1>2. PICK m \in T : \A j \in T : <<j, m>> \notin R
  <2> HIDE DEF R
  <2>1. QED
    BY <1>1, WFMin
<1>3. \A j \in T : ~(j < m)
  BY <1>2 DEF OpToRel
<1>4. QED
  BY <1>3

LEMMA SetOfNaturals ==
  ASSUME NEW T, 0 \in T, \A n \in Nat : n \in T => n + 1 \in T
  PROVE  Nat \subseteq T
<1> SUFFICES ASSUME Nat \ T # {} PROVE FALSE
  OBVIOUS
<1>1. PICK m \in Nat \ T : \A j \in Nat \ T : m <= j
  BY LeastOfNaturals
<1>2. m # 0 /\ m - 1 \in Nat /\ ~(m <= m - 1)
  BY <1>1
<1>3. m - 1 \in T
  BY <1>1, <1>2
<1>4. (m - 1) + 1 \in T
  BY <1>2, <1>3
<1>5. QED
  BY <1>1, <1>4

LEMMA SetOfSequences ==
  ASSUME NEW S, NEW T, <<>> \in T, \A s \in Seq(S), e \in S : s \in T => Append(s, e) \in T
  PROVE  Seq(S) \subseteq T
<1> DEFINE L == {n \in Nat : \A s \in Seq(S) : Len(s) = n => s \in T}
<1>1. 0 \in L
  <2>1. \A s \in Seq(S) : Len(s) = 0 => s = <<>>
    BY EmptySeq
  <2>2. QED
    BY <2>1
<1>2. ASSUME NEW n \in Nat, n \in L PROVE n + 1 \in L
  <2> SUFFICES ASSUME NEW s \in Seq(S), Len(s) = n + 1 PROVE s \in T
    OBVIOUS
  <2>1. s # <<>>
    BY EmptySeq
  <2>2. PICK r \in Seq(S), e \in S : s = Append(r, e)
    BY <2>1, SequenceEmptyOrAppend
  <2>3. Len(r) = n
    BY <2>2, AppendProperties, LenProperties
  <2>4. QED
    BY <1>2, <2>2, <2>3
<1>3. Nat \subseteq L
  <2> HIDE DEF L
  <2>1. QED
    BY <1>1, <1>2, SetOfNaturals
<1>4. QED
  BY <1>3, LenProperties

-----------------------------------------------------------------------------
(* Filters.  The recursive function that PlacesOf is made of exists, so that    *)
(* its equation may be used; everything else follows from what a filter does    *)
(* to one more element.                                                       *)
Step(s, V, F, n) ==
  IF n = 0 THEN <<>> ELSE IF s[n] \in V THEN Append(F[n - 1], n) ELSE F[n - 1]

LEMMA PlacesExist ==
  ASSUME NEW s, NEW V, NEW m \in Nat
  PROVE  \E F : F = [n \in 0..m |-> Step(s, V, F, n)]
<1> DEFINE T == {k \in Nat : \E F : F = [n \in 0..k |-> Step(s, V, F, n)]}
<1>1. 0 \in T
  <2>1. [n \in 0..0 |-> <<>>] = [n \in 0..0 |-> Step(s, V, [i \in 0..0 |-> <<>>], n)]
    BY DEF Step
  <2>2. QED
    BY <2>1
<1>2. ASSUME NEW k \in Nat, k \in T PROVE k + 1 \in T
  <2>1. PICK F : F = [n \in 0..k |-> Step(s, V, F, n)]
    BY <1>2
  <2>2. PICK G : G = [n \in 0..(k + 1) |-> IF n = k + 1 THEN Step(s, V, F, k + 1) ELSE F[n]]
    OBVIOUS
  <2>3. \A n \in 0..(k + 1) : G[n] = Step(s, V, G, n)
    <3> SUFFICES ASSUME NEW n \in 0..(k + 1) PROVE G[n] = Step(s, V, G, n)
      OBVIOUS
    <3>1. n # 0 => n - 1 \in 0..(k + 1) /\ n - 1 # k + 1
      OBVIOUS
    <3>2. n # 0 => G[n - 1] = F[n - 1]
      BY <2>2, <3>1
    <3>3. Step(s, V, G, n) = Step(s, V, F, n)
      BY <3>2 DEF Step
    <3>4. CASE n = k + 1
      BY <2>2, <3>3, <3>4
    <3>5. CASE n # k + 1
      <4>1. n \in 0..k
        BY <3>5
      <4>2. F[n] = Step(s, V, F, n)
        BY <2>1, <4>1
      <4>3. QED
        BY <2>2, <3>3, <3>5, <4>2
    <3>6. QED
      BY <3>4, <3>5
  <2>4. G = [n \in 0..(k + 1) |-> Step(s, V, G, n)]
    BY <2>2, <2>3
  <2>5. QED
    BY <2>4
<1>3. Nat \subseteq T
  <2> HIDE DEF T
  <2>1. QED
    BY <1>1, <1>2, SetOfNaturals
<1>4. QED
  BY <1>3

LEMMA PlacesByStep ==
  ASSUME NEW S, NEW s \in Seq(S), NEW V
  PROVE  \E F : /\ PlacesOf(s, V) = F[Len(s)]
                /\ \A n \in 0..Len(s) : F[n] = Step(s, V, F, n)
<1>1. Len(s) \in Nat
  BY LenProperties
<1> DEFINE G == CHOOSE F : F = [n \in 0..Len(s) |-> Step(s, V, F, n)]
<1>2. G = [n \in 0..Len(s) |-> Step(s, V, G, n)]
  BY <1>1, PlacesExist
<1>3. PlacesOf(s, V) = G[Len(s)]
  BY DEF PlacesOf, Step
<1>4. QED
  <2> HIDE DEF G
  <2>1. QED
    BY <1>2, <1>3

\* One more element.
LEMMA PlacesOfAppend ==
  ASSUME NEW S, NEW s \in Seq(S), NEW e \in S, NEW V
  PROVE  PlacesOf(Append(s, e), V) =
           IF e \in V THEN Append(PlacesOf(s, V), Len(s) + 1) ELSE PlacesOf(s, V)
<1>1. PICK t : t = Append(s, e)
  OBVIOUS
<1>2. t \in Seq(S) /\ Len(s) \in Nat /\ Len(t) = Len(s) + 1 /\ t[Len(s) + 1] = e
      /\ \A i \in 1..Len(s) : t[i] = s[i]
  BY <1>1, AppendProperties, LenProperties
<1>3. PICK F : PlacesOf(s, V) = F[Len(s)] /\ \A n \in 0..Len(s) : F[n] = Step(s, V, F, n)
  BY PlacesByStep
<1>4. PICK G : PlacesOf(t, V) = G[Len(t)] /\ \A n \in 0..Len(t) : G[n] = Step(t, V, G, n)
  BY <1>2, PlacesByStep
<1> DEFINE T == {n \in Nat : n <= Len(s) => G[n] = F[n]}
<1>5. 0 \in T
  BY <1>2, <1>3, <1>4 DEF Step
<1>6. ASSUME NEW n \in Nat, n \in T PROVE n + 1 \in T
  <2> SUFFICES ASSUME n + 1 <= Len(s) PROVE G[n + 1] = F[n + 1]
    OBVIOUS
  <2>1. /\ G[n] = F[n] /\ t[n + 1] = s[n + 1] /\ n + 1 \in 0..Len(s) /\ n + 1 \in 0..Len(t)
        /\ n + 1 # 0 /\ (n + 1) - 1 = n
    BY <1>2, <1>6
  <2>2. QED
    BY <1>3, <1>4, <2>1 DEF Step
<1>7. Nat \subseteq T
  <2> HIDE DEF T
  <2>1. QED
    BY <1>5, <1>6, SetOfNaturals
<1>8. G[Len(s)] = F[Len(s)]
  BY <1>2, <1>7
<1>9. G[Len(s) + 1] = Step(t, V, G, Len(s) + 1) /\ Len(s) + 1 # 0 /\ (Len(s) + 1) - 1 = Len(s)
  BY <1>2, <1>4
<1>10. QED
  BY <1>1, <1>2, <1>3, <1>4, <1>8, <1>9 DEF Step

LEMMA PlacesOfEmpty ==
  ASSUME NEW V
  PROVE  PlacesOf(<<>>, V) = <<>> /\ Kept(<<>>, V) = <<>>
<1>1. <<>> \in Seq({}) /\ Len(<<>>) = 0
  BY EmptySeq
<1>2. PICK F : PlacesOf(<<>>, V) = F[0] /\ F[0] = Step(<<>>, V, F, 0)
  <2>1. PICK F : PlacesOf(<<>>, V) = F[Len(<<>>)] /\ \A n \in 0..Len(<<>>) : F[n] = Step(<<>>, V, F, n)
    BY <1>1, PlacesByStep
  <2>2. 0 \in 0..Len(<<>>)
    BY <1>1
  <2>3. QED
    BY <1>1, <2>1, <2>2
<1>3. PlacesOf(<<>>, V) = <<>>
  BY <1>2 DEF Step
<1>4. QED
  BY <1>3 DEF Kept

\* The places ascend, and are those of the elements to keep.
LEMMA PlacesAscend ==
  ASSUME NEW S, NEW V, NEW q \in Seq(S)
  PROVE  /\ PlacesOf(q, V) \in Seq(1..Len(q))
         /\ \A j, k \in 1..Len(PlacesOf(q, V)) : j < k => PlacesOf(q, V)[j] < PlacesOf(q, V)[k]
         /\ \A i \in 1..Len(q) : q[i] \in V <=> \E k \in 1..Len(PlacesOf(q, V)) : PlacesOf(q, V)[k] = i
<1> DEFINE Fine(s, p) ==
             /\ p \in Seq(1..Len(s))
             /\ \A j, k \in 1..Len(p) : j < k => p[j] < p[k]
             /\ \A i \in 1..Len(s) : s[i] \in V <=> \E k \in 1..Len(p) : p[k] = i
           T == {s \in Seq(S) : Fine(s, PlacesOf(s, V))}
<1>1. <<>> \in T
  <2>1. PICK p : p = PlacesOf(<<>>, V)
    OBVIOUS
  <2>2. p = <<>>
    BY <2>1, PlacesOfEmpty
  <2>3. Fine(<<>>, p)
    <3>1. Len(p) = 0 /\ Len(<<>>) = 0 /\ p \in Seq(1..0)
      BY <2>2, EmptySeq
    <3>2. 1..Len(p) = {} /\ 1..Len(<<>>) = {}
      BY <3>1
    <3>3. QED
      BY <3>1, <3>2
  <2>4. QED
    BY <2>1, <2>3, EmptySeq
<1>2. ASSUME NEW s \in Seq(S), NEW e \in S, s \in T PROVE Append(s, e) \in T
  <2>1. PICK t : t = Append(s, e)
    OBVIOUS
  <2>2. t \in Seq(S) /\ Len(s) \in Nat /\ Len(t) = Len(s) + 1 /\ t[Len(s) + 1] = e
        /\ \A i \in 1..Len(s) : t[i] = s[i]
    BY <2>1, AppendProperties, LenProperties
  <2>3. PICK p : p = PlacesOf(s, V)
    OBVIOUS
  <2>4. Fine(s, p)
    BY <1>2, <2>3
  <2>5. PICK n \in Nat : n = Len(s)
    BY <2>2
  <2>6. p \in Seq(1..(n + 1)) /\ Len(p) \in Nat /\ \A k \in 1..Len(p) : p[k] \in 1..n
    BY <2>4, <2>5, SeqMonotonic, LenProperties, ElementOfSeq
  <2>7. CASE e \notin V
    <3>1. PlacesOf(t, V) = p
      BY <2>1, <2>3, <2>7, PlacesOfAppend
    <3>2. \A i \in 1..Len(t) : t[i] \in V <=> \E k \in 1..Len(p) : p[k] = i
      <4> SUFFICES ASSUME NEW i \in 1..(n + 1) PROVE t[i] \in V <=> \E k \in 1..Len(p) : p[k] = i
        BY <2>2, <2>5
      <4>1. CASE i = n + 1
        BY <2>2, <2>5, <2>6, <2>7, <4>1
      <4>2. CASE i # n + 1
        <5>1. i \in 1..Len(s) /\ t[i] = s[i]
          BY <2>2, <2>5, <4>2
        <5>2. QED
          BY <2>4, <5>1
      <4>3. QED
        BY <4>1, <4>2
    <3>3. Fine(t, p)
      BY <2>2, <2>4, <2>5, <2>6, <3>2
    <3>4. QED
      BY <2>1, <2>2, <3>1, <3>3
  <2>8. CASE e \in V
    <3>1. PICK r : r = Append(p, n + 1)
      OBVIOUS
    <3>2. PlacesOf(t, V) = r
      BY <2>1, <2>3, <2>5, <2>8, <3>1, PlacesOfAppend
    <3>3. r \in Seq(1..(n + 1)) /\ Len(r) = Len(p) + 1 /\ r[Len(p) + 1] = n + 1
          /\ \A k \in 1..Len(p) : r[k] = p[k]
      BY <2>6, <3>1, AppendProperties
    <3>4. \A j, k \in 1..Len(r) : j < k => r[j] < r[k]
      <4> SUFFICES ASSUME NEW j \in 1..Len(r), NEW k \in 1..Len(r), j < k PROVE r[j] < r[k]
        OBVIOUS
      <4>1. PICK m \in Nat : m = Len(p)
        BY <2>6
      <4>2. j \in 1..m /\ k \in 1..(m + 1)
        BY <3>3, <4>1
      <4>3. j \in 1..Len(p) /\ r[j] = p[j] /\ p[j] \in 1..n
        BY <2>6, <3>3, <4>1, <4>2
      <4>4. CASE k = Len(p) + 1
        <5>1. r[k] = n + 1
          BY <3>3, <4>4
        <5>2. QED
          BY <4>3, <5>1
      <4>5. CASE k # Len(p) + 1
        <5>1. k \in 1..m
          BY <4>1, <4>2, <4>5
        <5>2. k \in 1..Len(p) /\ r[k] = p[k]
          BY <3>3, <4>1, <5>1
        <5>3. p[j] < p[k]
          BY <2>4, <4>3, <5>2
        <5>4. QED
          BY <4>3, <5>2, <5>3
      <4>6. QED
        BY <4>4, <4>5
    <3>5. \A i \in 1..Len(t) : t[i] \in V <=> \E k \in 1..Len(r) : r[k] = i
      <4> SUFFICES ASSUME NEW i \in 1..(n + 1) PROVE t[i] \in V <=> \E k \in 1..Len(r) : r[k] = i
        BY <2>2, <2>5
      <4>1. CASE i = n + 1
        <5>1. Len(p) + 1 \in 1..Len(r) /\ r[Len(p) + 1] = i
          BY <2>6, <3>3, <4>1
        <5>2. QED
          BY <2>2, <2>5, <2>8, <4>1, <5>1
      <4>2. CASE i # n + 1
        <5>1. i \in 1..Len(s) /\ t[i] = s[i]
          BY <2>2, <2>5, <4>2
        <5>2. s[i] \in V <=> \E k \in 1..Len(p) : p[k] = i
          BY <2>4, <5>1
        <5>3. (\E k \in 1..Len(p) : p[k] = i) <=> \E k \in 1..Len(r) : r[k] = i
          <6>1. \A k \in 1..Len(p) : k \in 1..Len(r) /\ r[k] = p[k]
            BY <2>6, <3>3
          <6>2. \A k \in 1..Len(r) : k \in 1..Len(p) \/ r[k] = n + 1
            BY <2>6, <3>3
          <6>3. QED
            BY <6>1, <6>2, <4>2
        <5>4. QED
          BY <5>1, <5>2, <5>3
      <4>3. QED
        BY <4>1, <4>2
    <3>6. Fine(t, r)
      BY <2>2, <2>5, <3>3, <3>4, <3>5
    <3>7. QED
      BY <2>1, <2>2, <3>2, <3>6
  <2>9. QED
    BY <2>7, <2>8
<1>3. Seq(S) \subseteq T
  <2> HIDE DEF T
  <2>1. QED
    BY <1>1, <1>2, SetOfSequences
<1>4. QED
  BY <1>3

LEMMA AscendingIsShort ==
  ASSUME NEW n \in Nat, NEW m \in Nat, NEW p,
         \A k \in 1..m : p[k] \in 1..n, \A j, k \in 1..m : j < k => p[j] < p[k]
  PROVE  m <= n
<1> DEFINE T == {k \in Nat : k \in 1..m => k <= p[k]}
<1>1. 0 \in T
  OBVIOUS
<1>2. ASSUME NEW k \in Nat, k \in T PROVE k + 1 \in T
  <2> SUFFICES ASSUME k + 1 \in 1..m PROVE k + 1 <= p[k + 1]
    OBVIOUS
  <2>1. CASE k = 0
    BY <2>1
  <2>2. CASE k # 0
    <3>1. k \in 1..m /\ k < k + 1
      BY <2>2
    <3>2. p[k] < p[k + 1] /\ k <= p[k] /\ p[k] \in Int /\ p[k + 1] \in Int
      BY <1>2, <3>1
    <3>3. QED
      BY <3>2
  <2>3. QED
    BY <2>1, <2>2
<1>3. Nat \subseteq T
  <2> HIDE DEF T
  <2>1. QED
    BY <1>1, <1>2, SetOfNaturals
<1>4. CASE m = 0
  BY <1>4
<1>5. CASE m # 0
  <2>1. m \in 1..m
    BY <1>5
  <2>2. m <= p[m] /\ p[m] \in 1..n
    BY <1>3, <2>1
  <2>3. QED
    BY <2>2
<1>6. QED
  BY <1>4, <1>5

\* What a filter keeps, by its places.
AtPlaces(s, V, p) ==
    /\ \A k \in 1..Len(p) : p[k] \in 1..Len(s) /\ Kept(s, V)[k] = s[p[k]] /\ s[p[k]] \in V
    /\ \A j, k \in 1..Len(p) : j < k => p[j] < p[k]
    /\ \A i \in 1..Len(s) : s[i] \in V => \E k \in 1..Len(p) : p[k] = i

LEMMA KeptByPlaces ==
  ASSUME NEW S, NEW V, NEW s \in Seq(S)
  PROVE  /\ Kept(s, V) \in Seq(S) /\ Len(Kept(s, V)) = Len(PlacesOf(s, V))
         /\ Len(PlacesOf(s, V)) \in Nat /\ Len(PlacesOf(s, V)) <= Len(s)
         /\ PlacesOf(s, V) \in Seq(1..Len(s)) /\ AtPlaces(s, V, PlacesOf(s, V))
<1>1. PICK p : p = PlacesOf(s, V)
  OBVIOUS
<1>2. p \in Seq(1..Len(s))
  BY <1>1, PlacesAscend
<1>3. \A j, k \in 1..Len(p) : j < k => p[j] < p[k]
  BY <1>1, PlacesAscend
<1>4. \A i \in 1..Len(s) : s[i] \in V <=> \E k \in 1..Len(p) : p[k] = i
  BY <1>1, PlacesAscend
<1>5. DOMAIN p = 1..Len(p) /\ Len(p) \in Nat /\ Len(s) \in Nat /\ \A k \in 1..Len(p) : p[k] \in 1..Len(s)
  BY <1>2, LenProperties, ElementOfSeq
<1>6. Kept(s, V) = [k \in 1..Len(p) |-> s[p[k]]]
  BY <1>1, <1>5 DEF Kept
<1>7. \A k \in 1..Len(p) : s[p[k]] \in V /\ s[p[k]] \in S
  BY <1>4, <1>5, ElementOfSeq
<1>8. Kept(s, V) \in Seq(S) /\ Len(Kept(s, V)) = Len(p)
  BY <1>5, <1>6, <1>7
<1>9. Len(p) <= Len(s)
  BY <1>3, <1>5, AscendingIsShort
<1>10. AtPlaces(s, V, p)
  <2>1. \A k \in 1..Len(p) : p[k] \in 1..Len(s) /\ Kept(s, V)[k] = s[p[k]] /\ s[p[k]] \in V
    BY <1>5, <1>6, <1>7
  <2>2. QED
    BY <1>3, <1>4, <2>1 DEF AtPlaces
<1>11. QED
  BY <1>1, <1>2, <1>5, <1>8, <1>9, <1>10

\* A filter keeps the elements of a set, and no others.
IsTheRest(s, V, r) ==
    /\ Len(r) <= Len(s)
    /\ \A k \in 1..Len(r) : r[k] \in V /\ \E i \in 1..Len(s) : s[i] = r[k]
    /\ \A i \in 1..Len(s) : s[i] \in V => \E k \in 1..Len(r) : r[k] = s[i]

\* What Kept returns is the rest.
LEMMA KeptIsTheRest ==
  ASSUME NEW S, NEW V, NEW s \in Seq(S)
  PROVE  Kept(s, V) \in Seq(S) /\ IsTheRest(s, V, Kept(s, V))
<1>1. PICK p : p = PlacesOf(s, V)
  OBVIOUS
<1>2. AtPlaces(s, V, p)
  BY <1>1, KeptByPlaces
<1>3. PICK r : r = Kept(s, V)
  OBVIOUS
<1>4. r \in Seq(S) /\ Len(r) = Len(p) /\ Len(r) <= Len(s)
  BY <1>1, <1>3, KeptByPlaces
<1>5. \A k \in 1..Len(r) : p[k] \in 1..Len(s) /\ r[k] = s[p[k]] /\ s[p[k]] \in V
  BY <1>2, <1>3, <1>4 DEF AtPlaces
<1>6. \A i \in 1..Len(s) : s[i] \in V => \E k \in 1..Len(r) : r[k] = s[i]
  BY <1>2, <1>4, <1>5 DEF AtPlaces
<1>7. \A k \in 1..Len(r) : r[k] \in V /\ \E i \in 1..Len(s) : s[i] = r[k]
  BY <1>5
<1>8. IsTheRest(s, V, r)
  BY <1>4, <1>6, <1>7 DEF IsTheRest
<1>9. QED
  BY <1>3, <1>4, <1>8

LEMMA KeptOfAppend ==
  ASSUME NEW S, NEW s \in Seq(S), NEW e \in S, NEW V
  PROVE  Kept(Append(s, e), V) = IF e \in V THEN Append(Kept(s, V), e) ELSE Kept(s, V)
<1>1. PICK t : t = Append(s, e)
  OBVIOUS
<1>2. PICK n \in Nat : n = Len(s)
  BY LenProperties
<1>3. t \in Seq(S) /\ Len(t) = n + 1 /\ t[n + 1] = e /\ \A i \in 1..n : t[i] = s[i]
  BY <1>1, <1>2, AppendProperties
<1>4. PICK p, q : p = PlacesOf(s, V) /\ q = PlacesOf(t, V)
  OBVIOUS
<1>5. PICK u, v : u = Kept(s, V) /\ v = Kept(t, V)
  OBVIOUS
<1>6. PICK m \in Nat : m = Len(p)
  BY <1>4, KeptByPlaces
<1>7. u \in Seq(S) /\ Len(u) = m /\ p \in Seq(1..n)
  BY <1>2, <1>4, <1>5, <1>6, KeptByPlaces
<1>8. v \in Seq(S) /\ Len(v) = Len(q)
  BY <1>3, <1>4, <1>5, KeptByPlaces
<1>9. \A k \in 1..m : p[k] \in 1..n /\ u[k] = s[p[k]]
  BY <1>2, <1>4, <1>5, <1>6, KeptByPlaces DEF AtPlaces
<1>10. \A k \in 1..Len(q) : v[k] = t[q[k]]
  BY <1>3, <1>4, <1>5, KeptByPlaces DEF AtPlaces
<1>11. CASE e \notin V
  <2>1. q = p
    BY <1>1, <1>4, <1>11, PlacesOfAppend
  <2>2. \A k \in 1..m : v[k] = u[k]
    BY <1>3, <1>6, <1>9, <1>10, <2>1
  <2>3. v = u
    BY <1>6, <1>7, <1>8, <2>1, <2>2, SeqEqual
  <2>4. QED
    BY <1>1, <1>5, <1>11, <2>3
<1>12. CASE e \in V
  <2>1. q = Append(p, n + 1)
    BY <1>1, <1>2, <1>4, <1>12, PlacesOfAppend
  <2>2. p \in Seq(Nat)
    BY <1>7, SeqMonotonic
  <2>3. Len(q) = m + 1 /\ q[m + 1] = n + 1 /\ \A k \in 1..m : q[k] = p[k]
    BY <1>6, <2>1, <2>2, AppendProperties
  <2>4. PICK w : w = Append(u, e)
    OBVIOUS
  <2>5. w \in Seq(S) /\ Len(w) = m + 1 /\ w[m + 1] = e /\ \A k \in 1..m : w[k] = u[k]
    BY <1>7, <2>4, AppendProperties
  <2>6. \A k \in 1..m : v[k] = w[k]
    <3>1. \A k \in 1..m : k \in 1..Len(q)
      BY <2>3
    <3>2. QED
      BY <1>3, <1>9, <1>10, <2>3, <2>5, <3>1
  <2>7. v[m + 1] = w[m + 1]
    <3>1. m + 1 \in 1..Len(q)
      BY <2>3
    <3>2. QED
      BY <1>3, <1>10, <2>3, <2>5, <3>1
  <2>8. \A k \in 1..(m + 1) : v[k] = w[k]
    <3>1. \A k \in 1..(m + 1) : k = m + 1 \/ k \in 1..m
      OBVIOUS
    <3>2. QED
      BY <2>6, <2>7, <3>1
  <2>9. v = w
    BY <1>8, <2>3, <2>5, <2>8, SeqEqual
  <2>10. QED
    BY <1>1, <1>5, <1>12, <2>4, <2>9
<1>13. QED
  BY <1>11, <1>12

LEMMA KeptOfOne ==
  ASSUME NEW S, NEW e \in S, NEW V
  PROVE  Kept(<<e>>, V) = IF e \in V THEN <<e>> ELSE <<>>
<1>1. <<>> \in Seq(S) /\ Append(<<>>, e) = <<e>>
  BY EmptySeq
<1>2. Kept(Append(<<>>, e), V) = IF e \in V THEN Append(Kept(<<>>, V), e) ELSE Kept(<<>>, V)
  BY <1>1, KeptOfAppend
<1>3. Kept(<<>>, V) = <<>>
  BY PlacesOfEmpty
<1>4. QED
  BY <1>1, <1>2, <1>3

\* A filter of the two parts of a list, and a filter of a filter.
LEMMA KeptOfConcat ==
  ASSUME NEW S, NEW a \in Seq(S), NEW b \in Seq(S), NEW V
  PROVE  Kept(a \o b, V) = Kept(a, V) \o Kept(b, V)
<1> DEFINE T == {s \in Seq(S) : Kept(a \o s, V) = Kept(a, V) \o Kept(s, V)}
<1>1. <<>> \in T
  <2>1. Kept(a, V) \o <<>> = Kept(a, V) /\ a \o <<>> = a
    BY KeptByPlaces, ConcatEmptySeq
  <2>2. QED
    BY <2>1, EmptySeq, PlacesOfEmpty
<1>2. ASSUME NEW s \in Seq(S), NEW e \in S, s \in T PROVE Append(s, e) \in T
  <2>1. PICK k, m, u : k = Kept(a, V) /\ m = Kept(s, V) /\ u = a \o s
    OBVIOUS
  <2>2. k \in Seq(S) /\ m \in Seq(S) /\ u \in Seq(S) /\ <<e>> \in Seq(S)
    BY <2>1, KeptByPlaces, ConcatProperties
  <2>3. Kept(u, V) = k \o m
    BY <1>2, <2>1
  <2>4. a \o Append(s, e) = Append(u, e)
    <3>1. PICK o \in Seq(S) : o = <<e>>
      BY <2>2
    <3>2. Append(s, e) = s \o o /\ Append(u, e) = u \o o
      BY <2>2, <3>1, AppendIsConcat
    <3>3. (a \o s) \o o = a \o (s \o o)
      BY <3>1, ConcatAssociative, SMTT(30)
    <3>4. QED
      BY <2>1, <3>2, <3>3
  <2>5. k \o Append(m, e) = Append(k \o m, e)
    <3>1. k \o m \in Seq(S)
      BY <2>2, ConcatProperties
    <3>2. PICK o \in Seq(S) : o = <<e>>
      BY <2>2
    <3>3. Append(m, e) = m \o o /\ Append(k \o m, e) = (k \o m) \o o
      BY <2>2, <3>1, <3>2, AppendIsConcat
    <3>4. k \in Seq(S) /\ m \in Seq(S) /\ o \in Seq(S)
      BY <2>2, <3>2
    <3>5. (k \o m) \o o = k \o (m \o o)
      BY <3>4, ConcatAssociative, SMTT(30)
    <3>6. QED
      BY <3>3, <3>5
  <2>6. Kept(Append(u, e), V) = IF e \in V THEN Append(Kept(u, V), e) ELSE Kept(u, V)
    BY <2>2, KeptOfAppend
  <2>7. Kept(Append(s, e), V) = IF e \in V THEN Append(m, e) ELSE m
    BY <2>1, KeptOfAppend
  <2>8. Kept(a \o Append(s, e), V) = k \o Kept(Append(s, e), V)
    BY <2>3, <2>4, <2>5, <2>6, <2>7
  <2>9. QED
    BY <2>1, <2>8, AppendProperties
<1>3. Seq(S) \subseteq T
  <2> HIDE DEF T
  <2>1. QED
    BY <1>1, <1>2, SetOfSequences
<1>4. QED
  BY <1>3

LEMMA KeptOfKept ==
  ASSUME NEW S, NEW s \in Seq(S), NEW V, NEW W
  PROVE  Kept(Kept(s, V), W) = Kept(s, V \cap W)
<1> DEFINE T == {r \in Seq(S) : Kept(Kept(r, V), W) = Kept(r, V \cap W)}
<1>1. <<>> \in T
  BY EmptySeq, PlacesOfEmpty
<1>2. ASSUME NEW r \in Seq(S), NEW e \in S, r \in T PROVE Append(r, e) \in T
  <2>1. PICK k : k = Kept(r, V)
    OBVIOUS
  <2>2. k \in Seq(S) /\ Kept(k, W) = Kept(r, V \cap W)
    BY <1>2, <2>1, KeptByPlaces
  <2>3. Kept(Append(r, e), V) = IF e \in V THEN Append(k, e) ELSE k
    BY <2>1, KeptOfAppend
  <2>4. Kept(Append(k, e), W) = IF e \in W THEN Append(Kept(k, W), e) ELSE Kept(k, W)
    BY <2>2, KeptOfAppend
  <2>5. Kept(Append(r, e), V \cap W) = IF e \in V /\ e \in W THEN Append(Kept(k, W), e) ELSE Kept(k, W)
    <3>1. PICK X : X = V \cap W
      OBVIOUS
    <3>2. Kept(Append(r, e), X) = IF e \in X THEN Append(Kept(r, X), e) ELSE Kept(r, X)
      BY KeptOfAppend
    <3>3. QED
      BY <2>2, <3>1, <3>2
  <2>6. Kept(Kept(Append(r, e), V), W) = Kept(Append(r, e), V \cap W)
    BY <2>3, <2>4, <2>5
  <2>7. QED
    BY <2>6, AppendProperties
<1>3. Seq(S) \subseteq T
  <2> HIDE DEF T
  <2>1. QED
    BY <1>1, <1>2, SetOfSequences
<1>4. QED
  BY <1>3

-----------------------------------------------------------------------------
(* The pins.  A list falls apart into what is before a place, what is there and *)
(* what is after it.                                                           *)
LEMMA SplitAt ==
  ASSUME NEW S, NEW s \in Seq(S), NEW i \in 1..Len(s)
  PROVE  /\ SubSeq(s, 1, i - 1) \in Seq(S) /\ Len(SubSeq(s, 1, i - 1)) = i - 1
         /\ SubSeq(s, i, Len(s)) \in Seq(S) /\ SubSeq(s, i + 1, Len(s)) \in Seq(S)
         /\ Len(SubSeq(s, i + 1, Len(s))) = Len(s) - i
         /\ SubSeq(s, i, Len(s)) = <<s[i]>> \o SubSeq(s, i + 1, Len(s))
         /\ s = SubSeq(s, 1, i - 1) \o SubSeq(s, i, Len(s))
<1>1. PICK n \in Nat : n = Len(s)
  BY LenProperties
<1>2. \A j \in 1..n : s[j] \in S
  BY <1>1, ElementOfSeq
<1>3. i \in Int /\ i - 1 \in Int /\ i + 1 \in Int /\ 1 <= i /\ i <= n
  BY <1>1
<1>4. SubSeq(s, 1, i - 1) \in Seq(S) /\ Len(SubSeq(s, 1, i - 1)) = i - 1
  <2>1. \A j \in 1..(i - 1) : s[j] \in S
    BY <1>2, <1>3
  <2>2. SubSeq(s, 1, i - 1) \in Seq(S) /\ Len(SubSeq(s, 1, i - 1)) = IF 1 <= i - 1 THEN i - 1 - 1 + 1 ELSE 0
    BY <1>3, <2>1, SubSeqProperties
  <2>3. QED
    BY <1>3, <2>2
<1>5. SubSeq(s, i, n) \in Seq(S)
  <2>1. \A j \in i..n : s[j] \in S
    BY <1>2, <1>3
  <2>2. QED
    BY <1>3, <2>1, SubSeqProperties
<1>6. SubSeq(s, i + 1, n) \in Seq(S) /\ Len(SubSeq(s, i + 1, n)) = n - i
  <2>1. \A j \in (i + 1)..n : s[j] \in S
    BY <1>2, <1>3
  <2>2. SubSeq(s, i + 1, n) \in Seq(S) /\ Len(SubSeq(s, i + 1, n)) = IF i + 1 <= n THEN n - (i + 1) + 1 ELSE 0
    BY <1>3, <2>1, SubSeqProperties
  <2>3. QED
    BY <1>3, <2>2
<1>7. SubSeq(s, i, n) = <<s[i]>> \o SubSeq(s, i + 1, n)
  <2>1. n \in i..Len(s)
    BY <1>1, <1>3
  <2>2. QED
    BY <2>1, SubSeqRecursiveFirst
<1>8. s = SubSeq(s, 1, i - 1) \o SubSeq(s, i, n)
  <2>1. 1 \in 1..(Len(s) + 1) /\ i - 1 \in (1 - 1)..Len(s) /\ n \in (i - 1)..Len(s) /\ (i - 1) + 1 = i
    BY <1>1, <1>3
  <2>2. SubSeq(s, 1, i - 1) \o SubSeq(s, (i - 1) + 1, n) = SubSeq(s, 1, n)
    BY <2>1, ConcatAdjacentSubSeq
  <2>3. SubSeq(s, 1, n) = s
    BY <1>1, SubSeqFull
  <2>4. QED
    BY <2>1, <2>2, <2>3
<1>9. QED
  BY <1>1, <1>4, <1>5, <1>6, <1>7, <1>8

\* One out: a filter that does not keep it does not see it.
LEMMA OneOut ==
  ASSUME NEW S, NEW s \in Seq(S), NEW m \in 1..Len(s), NEW V
  PROVE  /\ RemoveAt(s, m) \in Seq(S) /\ Len(RemoveAt(s, m)) = Len(s) - 1
         /\ \A j \in 1..(Len(s) - 1) : RemoveAt(s, m)[j] = IF j < m THEN s[j] ELSE s[j + 1]
         /\ s[m] \notin V => Kept(RemoveAt(s, m), V) = Kept(s, V)
<1>1. PICK n \in Nat : n = Len(s)
  BY LenProperties
<1>2. PICK a, b : a = SubSeq(s, 1, m - 1) /\ b = SubSeq(s, m + 1, Len(s))
  OBVIOUS
<1>3. /\ a \in Seq(S) /\ b \in Seq(S) /\ Len(a) = m - 1 /\ Len(b) = n - m
      /\ s = a \o (<<s[m]>> \o b) /\ s[m] \in S
  <2>1. a \in Seq(S) /\ Len(a) = m - 1
    BY <1>2, SplitAt
  <2>2. b \in Seq(S) /\ Len(b) = n - m
    BY <1>1, <1>2, SplitAt
  <2>3. SubSeq(s, m, Len(s)) = <<s[m]>> \o b /\ s = a \o SubSeq(s, m, Len(s))
    BY <1>2, SplitAt
  <2>4. s[m] \in S
    BY ElementOfSeq
  <2>5. QED
    BY <2>1, <2>2, <2>3, <2>4
<1>4. RemoveAt(s, m) = a \o b
  BY <1>2 DEF RemoveAt
<1>5. a \o b \in Seq(S) /\ Len(a \o b) = n - 1
  <2>1. a \o b \in Seq(S) /\ Len(a \o b) = Len(a) + Len(b)
    BY <1>3, ConcatProperties
  <2>2. QED
    BY <1>1, <1>3, <2>1
<1>6. \A j \in 1..(n - 1) : (a \o b)[j] = IF j < m THEN s[j] ELSE s[j + 1]
  <2> SUFFICES ASSUME NEW j \in 1..(n - 1) PROVE (a \o b)[j] = IF j < m THEN s[j] ELSE s[j + 1]
    OBVIOUS
  <2>1. (a \o b)[j] = IF j <= m - 1 THEN a[j] ELSE b[j - (m - 1)]
    BY <1>1, <1>3, ConcatProperties
  <2>2. CASE j < m
    <3>1. \A k \in 1..(m - 1) : s[k] \in S
      BY <1>1, ElementOfSeq
    <3>2. j \in 1..(m - 1 - 1 + 1) /\ m - 1 \in Int
      BY <1>1, <2>2
    <3>3. a[j] = s[1 + j - 1]
      BY <1>2, <3>1, <3>2, SubSeqProperties
    <3>4. QED
      BY <1>1, <2>1, <2>2, <3>3
  <2>3. CASE ~(j < m)
    <3>1. \A k \in (m + 1)..n : s[k] \in S
      BY <1>1, ElementOfSeq
    <3>2. j - (m - 1) \in 1..(n - (m + 1) + 1) /\ m + 1 \in Int
      BY <1>1, <2>3
    <3>3. b[j - (m - 1)] = s[m + 1 + (j - (m - 1)) - 1]
      BY <1>1, <1>2, <3>1, <3>2, SubSeqProperties
    <3>4. QED
      BY <1>1, <2>1, <2>3, <3>3
  <2>4. QED
    BY <2>2, <2>3
<1>7. ASSUME s[m] \notin V PROVE Kept(a \o b, V) = Kept(s, V)
  <2>1. <<s[m]>> \in Seq(S) /\ <<s[m]>> \o b \in Seq(S) /\ Kept(b, V) \in Seq(S)
    BY <1>3, ConcatProperties, KeptByPlaces
  <2>2. Kept(s, V) = Kept(a, V) \o Kept(<<s[m]>> \o b, V)
    <3>1. PICK u : u = <<s[m]>> \o b
      OBVIOUS
    <3>2. a \in Seq(S) /\ u \in Seq(S)
      BY <1>3, <2>1, <3>1
    <3>3. Kept(a \o u, V) = Kept(a, V) \o Kept(u, V)
      BY <3>2, KeptOfConcat
    <3>4. QED
      BY <1>3, <3>1, <3>3
  <2>3. Kept(<<s[m]>> \o b, V) = Kept(<<s[m]>>, V) \o Kept(b, V)
    <3>1. PICK o : o = <<s[m]>>
      OBVIOUS
    <3>2. o \in Seq(S) /\ b \in Seq(S)
      BY <1>3, <2>1, <3>1
    <3>3. Kept(o \o b, V) = Kept(o, V) \o Kept(b, V)
      BY <3>2, KeptOfConcat
    <3>4. QED
      BY <3>1, <3>3
  <2>4. Kept(<<s[m]>>, V) = <<>>
    BY <1>3, <1>7, KeptOfOne
  <2>5. <<>> \o Kept(b, V) = Kept(b, V)
    BY <2>1, ConcatEmptySeq
  <2>6. Kept(a \o b, V) = Kept(a, V) \o Kept(b, V)
    BY <1>3, KeptOfConcat
  <2>7. QED
    BY <2>2, <2>3, <2>4, <2>5, <2>6
<1>8. QED
  BY <1>1, <1>4, <1>5, <1>6, <1>7

\* One in: right above what was at its place.
LEMMA OneIn ==
  ASSUME NEW S, NEW s \in Seq(S), NEW i \in 1..Len(s), NEW e \in S, NEW V
  PROVE  /\ InsertAt(s, i, e) \in Seq(S)
         /\ e \notin V => Kept(InsertAt(s, i, e), V) = Kept(s, V)
         /\ e \in V /\ s[i] \in V =>
              \E k \in 2..Len(Kept(InsertAt(s, i, e), V)) :
                 Kept(InsertAt(s, i, e), V)[k] = s[i] /\ Kept(InsertAt(s, i, e), V)[k - 1] = e
<1>1. PICK a, b, c : a = SubSeq(s, 1, i - 1) /\ b = SubSeq(s, i, Len(s)) /\ c = SubSeq(s, i + 1, Len(s))
  OBVIOUS
<1>2. /\ a \in Seq(S) /\ b \in Seq(S) /\ c \in Seq(S) /\ b = <<s[i]>> \o c
      /\ s = a \o b /\ s[i] \in S /\ <<e>> \in Seq(S) /\ <<s[i]>> \in Seq(S)
  <2>1. a \in Seq(S) /\ b \in Seq(S) /\ c \in Seq(S)
    BY <1>1, SplitAt
  <2>2. b = <<s[i]>> \o c /\ s = a \o b
    BY <1>1, SplitAt
  <2>3. s[i] \in S
    BY ElementOfSeq
  <2>4. <<e>> \in Seq(S) /\ <<s[i]>> \in Seq(S)
    BY <2>3
  <2>5. QED
    BY <2>1, <2>2, <2>3, <2>4
<1>3. InsertAt(s, i, e) = a \o (<<e>> \o b) /\ <<e>> \o b \in Seq(S)
  <2>1. InsertAt(s, i, e) = (a \o <<e>>) \o b
    BY <1>1 DEF InsertAt
  <2>2. (a \o <<e>>) \o b = a \o (<<e>> \o b)
    <3>1. PICK o : o = <<e>>
      OBVIOUS
    <3>2. a \in Seq(S) /\ b \in Seq(S) /\ o \in Seq(S)
      BY <1>2, <3>1
    <3>3. (a \o o) \o b = a \o (o \o b)
      BY <3>2, ConcatAssociative, SMTT(30)
    <3>4. QED
      BY <3>1, <3>3
  <2>3. <<e>> \o b \in Seq(S)
    BY <1>2, ConcatProperties
  <2>4. QED
    BY <2>1, <2>2, <2>3
<1>4. PICK r : r = a \o (<<e>> \o b)
  OBVIOUS
<1>5. r \in Seq(S)
  BY <1>2, <1>3, <1>4, ConcatProperties
<1>6. Kept(r, V) = Kept(a, V) \o (Kept(<<e>>, V) \o Kept(b, V))
  <2>1. PICK o, u : o = <<e>> /\ u = o \o b
    OBVIOUS
  <2>2. a \in Seq(S) /\ o \in Seq(S) /\ u \in Seq(S) /\ b \in Seq(S)
    BY <1>2, <1>3, <2>1
  <2>3. Kept(a \o u, V) = Kept(a, V) \o Kept(u, V)
    <3>1. a \in Seq(S) /\ u \in Seq(S)
      BY <2>2
    <3>2. QED
      BY <3>1, KeptOfConcat
  <2>4. Kept(o \o b, V) = Kept(o, V) \o Kept(b, V)
    <3>1. o \in Seq(S) /\ b \in Seq(S)
      BY <2>2
    <3>2. QED
      BY <3>1, KeptOfConcat
  <2>5. QED
    BY <1>4, <2>1, <2>3, <2>4
<1>7. ASSUME e \notin V PROVE Kept(r, V) = Kept(s, V)
  <2>1. Kept(<<e>>, V) = <<>>
    BY <1>7, KeptOfOne
  <2>2. Kept(b, V) \in Seq(S)
    BY <1>2, KeptByPlaces
  <2>3. <<>> \o Kept(b, V) = Kept(b, V)
    BY <2>2, ConcatEmptySeq
  <2>4. Kept(a \o b, V) = Kept(a, V) \o Kept(b, V)
    <3>1. a \in Seq(S) /\ b \in Seq(S)
      BY <1>2
    <3>2. QED
      BY <3>1, KeptOfConcat
  <2>5. QED
    BY <1>2, <1>6, <2>1, <2>3, <2>4
<1>8. ASSUME e \in V, s[i] \in V
      PROVE  \E k \in 2..Len(Kept(r, V)) : Kept(r, V)[k] = s[i] /\ Kept(r, V)[k - 1] = e
  <2>1. PICK x, z : x = Kept(a, V) /\ z = Kept(c, V)
    OBVIOUS
  <2>2. x \in Seq(S) /\ z \in Seq(S) /\ Kept(b, V) = <<s[i]>> \o z
    <3>1. x \in Seq(S) /\ z \in Seq(S)
      BY <1>2, <2>1, KeptByPlaces
    <3>2. Kept(<<s[i]>> \o c, V) = Kept(<<s[i]>>, V) \o Kept(c, V)
      <4>1. PICK o : o = <<s[i]>>
        OBVIOUS
      <4>2. o \in Seq(S) /\ c \in Seq(S)
        BY <1>2, <4>1
      <4>3. Kept(o \o c, V) = Kept(o, V) \o Kept(c, V)
        BY <4>2, KeptOfConcat
      <4>4. QED
        BY <4>1, <4>3
    <3>3. Kept(<<s[i]>>, V) = <<s[i]>>
      BY <1>2, <1>8, KeptOfOne
    <3>4. QED
      BY <1>2, <2>1, <3>1, <3>2, <3>3
  <2>3. PICK n \in Nat : n = Len(x)
    BY <2>2, LenProperties
  <2>4. PICK h \in Nat : h = Len(z)
    BY <2>2, LenProperties
  <2>5. PICK y : y = <<s[i]>> \o z
    OBVIOUS
  <2>6. y \in Seq(S) /\ Len(y) = 1 + h /\ y[1] = s[i]
    BY <1>2, <2>2, <2>4, <2>5, ConcatProperties
  <2>7. PICK u : u = <<e>> \o y
    OBVIOUS
  <2>8. u \in Seq(S) /\ Len(u) = 2 + h /\ u[1] = e /\ u[2] = s[i]
    <3>1. u \in Seq(S) /\ Len(u) = 1 + Len(y) /\ \A j \in 1..(1 + Len(y)) : u[j] = IF j <= 1 THEN <<e>>[j] ELSE y[j - 1]
      BY <1>2, <2>6, <2>7, ConcatProperties
    <3>2. 1 \in 1..(1 + Len(y)) /\ 2 \in 1..(1 + Len(y)) /\ <<e>>[1] = e
      BY <2>6
    <3>3. QED
      BY <2>6, <3>1, <3>2
  <2>9. Kept(r, V) = x \o u
    BY <1>6, <1>8, <2>1, <2>2, <2>5, <2>7, KeptOfOne
  <2>10. Len(x \o u) = n + (2 + h) /\ \A j \in 1..(n + (2 + h)) : (x \o u)[j] = IF j <= n THEN x[j] ELSE u[j - n]
    <3>1. /\ Len(x \o u) = Len(x) + Len(u)
          /\ \A j \in 1..(Len(x) + Len(u)) : (x \o u)[j] = IF j <= Len(x) THEN x[j] ELSE u[j - Len(x)]
      BY <2>2, <2>8, ConcatProperties
    <3>2. QED
      BY <2>3, <2>8, <3>1
  <2>11. (x \o u)[n + 1] = e /\ (x \o u)[n + 2] = s[i] /\ n + 2 \in 2..Len(x \o u) /\ (n + 2) - 1 = n + 1
    BY <2>8, <2>10
  <2>12. QED
    BY <2>9, <2>11
<1>9. QED
  BY <1>3, <1>4, <1>5, <1>7, <1>8

\* A row that is moved, seen through a filter.
LEMMA Moved ==
  ASSUME NEW list \in Seq(Refs), NEW c \in PinClusters,
         NEW from \in 1..Len(ListFor(list, c)), NEW to \in 1..Len(ListFor(list, c)), from # to
  PROVE  LET new == Reordered(list, c, from, to)
             row == ListFor(list, c)[from]
         IN /\ new \in Seq(Refs)
            /\ \A V : row \notin V => Kept(new, V) = Kept(list, V)
            /\ row \in PinsOf(c)
            /\ \E k \in 2..Len(ListFor(new, c)) :
                 ListFor(new, c)[k] = ListFor(list, c)[to] /\ ListFor(new, c)[k - 1] = row
<1>1. PICK n \in Nat : n = Len(list)
  BY LenProperties
<1>2. PICK p : p = Slice(list, c)
  OBVIOUS
<1>3. PICK u : u = ListFor(list, c)
  OBVIOUS
<1>4. AtPlaces(list, PinsOf(c), p) /\ Len(u) = Len(p)
  BY <1>2, <1>3, KeptByPlaces DEF Slice, ListFor
<1>5. \A k \in 1..Len(u) : p[k] \in 1..n /\ u[k] = list[p[k]] /\ list[p[k]] \in PinsOf(c)
  BY <1>1, <1>3, <1>4 DEF AtPlaces, ListFor
<1>6. \A j, k \in 1..Len(u) : j < k => p[j] < p[k]
  BY <1>4 DEF AtPlaces
<1>7. PICK m \in 1..n : m = p[from]
  BY <1>3, <1>5
<1>8. PICK g \in 1..n : g = p[to]
  BY <1>3, <1>5
<1>9. u[from] = list[m] /\ u[to] = list[g] /\ list[m] \in PinsOf(c) /\ list[g] \in PinsOf(c)
  BY <1>3, <1>5, <1>7, <1>8
<1>10. m # g
  <2>1. from \in Int /\ to \in Int
    BY <1>3, <1>4, KeptByPlaces
  <2>2. CASE from < to
    BY <1>3, <1>6, <1>7, <1>8, <2>2
  <2>3. CASE to < from
    BY <1>3, <1>6, <1>7, <1>8, <2>3
  <2>4. QED
    BY <2>1, <2>2, <2>3
<1>11. PICK at : at = IF g > m THEN g - 1 ELSE g
  OBVIOUS
<1>12. PICK r, x : r = RemoveAt(list, m) /\ x = list[m]
  OBVIOUS
<1>13. Reordered(list, c, from, to) = InsertAt(r, at, x)
  BY <1>2, <1>7, <1>8, <1>11, <1>12 DEF Reordered
<1>14. r \in Seq(Refs) /\ Len(r) = n - 1
  BY <1>1, <1>12, OneOut
<1>15. at \in 1..(n - 1) /\ r[at] = list[g]
  <2>1. \A j \in 1..(n - 1) : r[j] = IF j < m THEN list[j] ELSE list[j + 1]
    BY <1>1, <1>12, OneOut
  <2>2. at \in 1..(n - 1) /\ (IF at < m THEN at ELSE at + 1) = g
    BY <1>10, <1>11
  <2>3. QED
    BY <2>1, <2>2
<1>16. r \in Seq(Refs) /\ at \in 1..Len(r) /\ x \in Refs
  BY <1>1, <1>12, <1>14, <1>15, ElementOfSeq
<1>17. PICK new : new = InsertAt(r, at, x)
  OBVIOUS
<1>18. new \in Seq(Refs)
  BY <1>14, <1>16, <1>17, OneIn
<1>19. ASSUME NEW V, x \notin V PROVE Kept(new, V) = Kept(list, V)
  <2>1. Kept(r, V) = Kept(list, V)
    BY <1>1, <1>12, <1>19, OneOut
  <2>2. Kept(InsertAt(r, at, x), V) = Kept(r, V)
    BY <1>16, <1>19, OneIn
  <2>3. QED
    BY <1>17, <2>1, <2>2
<1>20. \E k \in 2..Len(ListFor(new, c)) : ListFor(new, c)[k] = r[at] /\ ListFor(new, c)[k - 1] = x
  <2>1. PICK V : V = PinsOf(c)
    OBVIOUS
  <2>2. x \in V /\ r[at] \in V
    BY <1>9, <1>12, <1>15, <2>1
  <2>3. \E k \in 2..Len(Kept(InsertAt(r, at, x), V)) :
           Kept(InsertAt(r, at, x), V)[k] = r[at] /\ Kept(InsertAt(r, at, x), V)[k - 1] = x
    BY <1>16, <2>2, OneIn
  <2>4. QED
    BY <1>17, <2>1, <2>3 DEF ListFor
<1>21. QED
  BY <1>3, <1>9, <1>12, <1>13, <1>15, <1>17, <1>18, <1>19, <1>20

PinsInv ==
    /\ pins \in [Windows -> Seq(Refs)] /\ kept \in Seq(Refs) /\ told \subseteq Windows /\ unsaved \subseteq Windows
    /\ dragged \in [window : Windows, cluster : PinClusters, row : Nat]
    /\ QuietWindowsAgree

LEMMA PinsInitInv == FavInit => PinsInv
<1> SUFFICES ASSUME FavInit PROVE PinsInv
  OBVIOUS
<1>1. NoDrag \in [window : Windows, cluster : PinClusters, row : Nat]
  BY PinAssumption DEF NoDrag
<1>2. <<>> \in Seq(Refs)
  BY EmptySeq
<1>3. QED
  BY <1>1, <1>2 DEF FavInit, PinsInv, QuietWindowsAgree

LEMMA PersistStep ==
  ASSUME PinsInv, NEW w \in Windows, NEW list \in Seq(Refs), Persist(w, list),
         dragged' \in [window : Windows, cluster : PinClusters, row : Nat]
  PROVE  PinsInv'
<1>1. pins' = [pins EXCEPT ![w] = list]
  BY DEF Persist
<1>2. CASE Saved(w, list)
  BY <1>1, <1>2 DEF Saved, PinsInv, QuietWindowsAgree
<1>3. CASE Refused(w)
  BY <1>1, <1>3 DEF Refused, PinsInv, QuietWindowsAgree
<1>4. QED
  BY <1>2, <1>3 DEF Persist

\* What a drop writes.
LEMMA DropWrites ==
  ASSUME PinsInv, NEW i \in 1..MaxPins, DragDrop(i)
  PROVE  LET w == dragged.window
             c == dragged.cluster
         IN \/ UNCHANGED <<pins, kept, told, unsaved>>
            \/ /\ dragged.row \in 1..Len(ListFor(pins[w], c)) /\ i \in 1..Len(ListFor(pins[w], c))
               /\ dragged.row # i
               /\ Persist(w, Reordered(pins[w], c, dragged.row, i))
<1>1. pins[dragged.window] \in Seq(Refs)
  BY DEF PinsInv
<1>2. DOMAIN ListFor(pins[dragged.window], dragged.cluster) = 1..Len(ListFor(pins[dragged.window], dragged.cluster))
  BY <1>1, KeptByPlaces, LenProperties DEF ListFor
<1>3. QED
  BY <1>2 DEF DragDrop

LEMMA PinsStep == PinsInv /\ [FavNext]_pinVars => PinsInv'
<1> SUFFICES ASSUME PinsInv, [FavNext]_pinVars PROVE PinsInv'
  OBVIOUS
<1>1. NoDrag \in [window : Windows, cluster : PinClusters, row : Nat]
  BY PinAssumption DEF NoDrag
<1>0. Pinnable \subseteq Refs
  BY PinAssumption
<1>2. ASSUME NEW w \in Windows, NEW p \in Refs PROVE Unpinned(pins[w], p) \in Seq(Refs) /\ Pinned(pins[w], p) \in Seq(Refs)
  <2>1. PICK list \in Seq(Refs) : list = pins[w]
    BY DEF PinsInv
  <2>2. PICK n \in Nat : n = Len(list)
    BY LenProperties
  <2>3. PICK q : q = <<p>> \o list
    OBVIOUS
  <2>4. PICK o : o = <<p>>
    OBVIOUS
  <2>5. q \in Seq(Refs) /\ Len(q) = 1 + n
    <3>1. o \in Seq(Refs) /\ Len(o) = 1
      BY <2>4
    <3>2. o \o list \in Seq(Refs) /\ Len(o \o list) = Len(o) + Len(list)
      BY <3>1, ConcatProperties
    <3>3. QED
      BY <2>2, <2>3, <2>4, <3>1, <3>2
  <2>6. PICK h : h = IF n < MaxPins THEN n + 1 ELSE MaxPins
    OBVIOUS
  <2>7. h \in Int /\ h <= 1 + n
    BY <2>6, PinAssumption
  <2>8. \A j \in 1..h : q[j] \in Refs
    BY <2>5, <2>7, ElementOfSeq
  <2>9. SubSeq(q, 1, h) \in Seq(Refs)
    BY <2>7, <2>8, SubSeqProperties
  <2>10. Pinned(list, p) = SubSeq(q, 1, h)
    BY <2>2, <2>3, <2>6 DEF Pinned
  <2>11. Unpinned(list, p) \in Seq(Refs)
    BY KeptByPlaces DEF Unpinned
  <2>12. QED
    BY <2>1, <2>9, <2>10, <2>11
<1>3. CASE UNCHANGED pinVars
  BY <1>3 DEF pinVars, PinsInv, QuietWindowsAgree
<1>4. ASSUME NEW w \in Windows, StorageEvent(w) PROVE PinsInv'
  BY <1>4 DEF StorageEvent, PinsInv, QuietWindowsAgree
<1>5. ASSUME NEW w \in Windows, FavReload(w) PROVE PinsInv'
  BY <1>1, <1>5 DEF FavReload, PinsInv, QuietWindowsAgree
<1>6. ASSUME NEW w \in Windows, NEW p \in Pinnable, Toggle(w, p) PROVE PinsInv'
  <2>1. PICK list \in Seq(Refs) : Persist(w, list)
    BY <1>0, <1>2, <1>6 DEF Toggle
  <2>2. dragged' \in [window : Windows, cluster : PinClusters, row : Nat]
    BY <1>6 DEF Toggle, PinsInv
  <2>3. QED
    BY <2>1, <2>2, PersistStep
<1>7. ASSUME NEW w \in Windows, NEW p \in Pinnable, Unpin(w, p) PROVE PinsInv'
  <2>1. PICK list \in Seq(Refs) : Persist(w, list)
    BY <1>0, <1>2, <1>7 DEF Unpin
  <2>2. dragged' \in [window : Windows, cluster : PinClusters, row : Nat]
    BY <1>7 DEF Unpin, PinsInv
  <2>3. QED
    BY <2>1, <2>2, PersistStep
<1>8. ASSUME NEW w \in Windows, NEW c \in PinClusters, NEW i \in 1..MaxPins, DragStart(w, c, i) PROVE PinsInv'
  <2>1. i \in Nat
    BY PinAssumption
  <2>2. QED
    BY <1>8, <2>1 DEF DragStart, PinsInv, QuietWindowsAgree
<1>9. ASSUME NEW i \in 1..MaxPins, DragDrop(i) PROVE PinsInv'
  <2>1. dragged' \in [window : Windows, cluster : PinClusters, row : Nat]
    BY <1>1, <1>9 DEF DragDrop
  <2>2. CASE UNCHANGED <<pins, kept, told, unsaved>>
    BY <2>1, <2>2 DEF PinsInv, QuietWindowsAgree
  <2>3. CASE ~UNCHANGED <<pins, kept, told, unsaved>>
    <3>1. PICK w, c, f : w = dragged.window /\ c = dragged.cluster /\ f = dragged.row
      OBVIOUS
    <3>2. w \in Windows /\ c \in PinClusters /\ pins[w] \in Seq(Refs)
      BY <3>1 DEF PinsInv
    <3>3. /\ f \in 1..Len(ListFor(pins[w], c)) /\ i \in 1..Len(ListFor(pins[w], c)) /\ f # i
          /\ Persist(w, Reordered(pins[w], c, f, i))
      BY <1>9, <2>3, <3>1, DropWrites
    <3>4. Reordered(pins[w], c, f, i) \in Seq(Refs)
      BY <3>2, <3>3, Moved
    <3>5. QED
      BY <2>1, <3>2, <3>3, <3>4, PersistStep
  <2>4. QED
    BY <2>2, <2>3
<1>10. CASE DragEnd
  BY <1>1, <1>10 DEF DragEnd, PinsInv, QuietWindowsAgree
<1>11. QED
  BY <1>3, <1>4, <1>5, <1>6, <1>7, <1>8, <1>9, <1>10 DEF FavNext

LEMMA DropMovesOne ==
  ASSUME PinsInv, NEW i \in 1..MaxPins, DragDrop(i)
  PROVE  LET w == dragged.window
             c == dragged.cluster
             old == ListFor(pins[w], c)
             new == ListFor(pins'[w], c)
             row == old[dragged.row]
         IN pins'[w] # pins[w] =>
             /\ Unpinned(new, row) = Unpinned(old, row)
             /\ \E k \in 2..Len(new) : new[k] = old[i] /\ new[k - 1] = row
             /\ \A d \in PinClusters \ {c} : ListFor(pins'[w], d) = ListFor(pins[w], d)
<1>1. PICK w, c, f : w = dragged.window /\ c = dragged.cluster /\ f = dragged.row
  OBVIOUS
<1>2. PICK list, moved : list = pins[w] /\ moved = pins'[w]
  OBVIOUS
<1> SUFFICES ASSUME moved # list
             PROVE  LET old == ListFor(list, c)
                        new == ListFor(moved, c)
                        row == old[f]
                    IN /\ Unpinned(new, row) = Unpinned(old, row)
                       /\ \E k \in 2..Len(new) : new[k] = old[i] /\ new[k - 1] = row
                       /\ \A d \in PinClusters \ {c} : ListFor(moved, d) = ListFor(list, d)
  BY <1>1, <1>2
<1>3. w \in Windows /\ c \in PinClusters /\ list \in Seq(Refs)
  BY <1>1, <1>2 DEF PinsInv
<1>4. ~UNCHANGED <<pins, kept, told, unsaved>>
  BY <1>2
<1>5. /\ f \in 1..Len(ListFor(list, c)) /\ i \in 1..Len(ListFor(list, c)) /\ f # i
      /\ Persist(w, Reordered(list, c, f, i))
  BY <1>1, <1>2, <1>4, DropWrites
<1>6. moved = Reordered(list, c, f, i)
  BY <1>2, <1>3, <1>5 DEF Persist, PinsInv
<1>7. PICK row : row = ListFor(list, c)[f]
  OBVIOUS
<1>8. /\ moved \in Seq(Refs) /\ row \in PinsOf(c)
      /\ \A V : row \notin V => Kept(moved, V) = Kept(list, V)
      /\ \E k \in 2..Len(ListFor(moved, c)) :
           ListFor(moved, c)[k] = ListFor(list, c)[i] /\ ListFor(moved, c)[k - 1] = row
  BY <1>3, <1>5, <1>6, <1>7, Moved
<1>9. Unpinned(ListFor(moved, c), row) = Unpinned(ListFor(list, c), row)
  <2>1. PICK V : V = PinsOf(c) \cap (Refs \ {row})
    OBVIOUS
  <2>2. Kept(Kept(moved, PinsOf(c)), Refs \ {row}) = Kept(moved, V)
    BY <1>8, <2>1, KeptOfKept
  <2>3. Kept(Kept(list, PinsOf(c)), Refs \ {row}) = Kept(list, V)
    BY <1>3, <2>1, KeptOfKept
  <2>4. Kept(moved, V) = Kept(list, V)
    BY <1>8, <2>1
  <2>5. QED
    BY <2>2, <2>3, <2>4 DEF Unpinned, ListFor
<1>10. ASSUME NEW d \in PinClusters \ {c} PROVE ListFor(moved, d) = ListFor(list, d)
  <2>1. row \notin PinsOf(d)
    BY <1>8, <1>10 DEF PinsOf
  <2>2. QED
    BY <1>8, <2>1 DEF ListFor
<1>11. QED
  BY <1>7, <1>8, <1>9, <1>10

\* The pins of the sidebar (lib/favourites.ts, Sidebar.tsx) are the list as it was
\* arranged last: a window with no storage event under way, and whose last list
\* the storage did not refuse, has what is stored, in whatever order the windows
\* wrote and heard; and a drop moves one row, to right above the row it was
\* dropped on.
THEOREM PinsStayAsArranged == FavSpec => PinsAreAsArranged
<1>1. FavInit => PinsInv
  BY PinsInitInv
<1>2. PinsInv /\ [FavNext]_pinVars => PinsInv'
  BY PinsStep
<1>3. PinsInv => QuietWindowsAgree
  BY DEF PinsInv
<1> DEFINE Lands ==
             \A i \in 1..MaxPins : DragDrop(i) =>
                LET w == dragged.window
                    c == dragged.cluster
                    old == ListFor(pins[w], c)
                    new == ListFor(pins'[w], c)
                    row == old[dragged.row]
                IN pins'[w] # pins[w] =>
                    /\ Unpinned(new, row) = Unpinned(old, row)
                    /\ \E k \in 2..Len(new) : new[k] = old[i] /\ new[k - 1] = row
                    /\ \A d \in PinClusters \ {c} : ListFor(pins'[w], d) = ListFor(pins[w], d)
<1>4. PinsInv => Lands
  BY DropMovesOne
<1>5. FavSpec => []QuietWindowsAgree
  BY <1>1, <1>2, <1>3, PTL DEF FavSpec
<1>6. FavSpec => [][Lands]_pinVars
  <2> HIDE DEF Lands
  <2>1. QED
    BY <1>1, <1>2, <1>4, PTL DEF FavSpec
<1>7. FavSpec => DropLandsAbove
  BY <1>6 DEF DropLandsAbove
<1>8. QED
  BY <1>5, <1>7 DEF PinsAreAsArranged

-----------------------------------------------------------------------------
(* The palette.  The rows are as many as the entries that match, which are     *)
(* finitely many.  The highlight is below zero only after ArrowDown on an       *)
(* empty list, and on the list, or on its first row, at all other times.       *)
PaletteFits(rows) == palette.highlight = 0 \/ palette.highlight < rows

PaletteInv ==
    /\ palette \in [open : BOOLEAN, rank : TypedRanks, highlight : Int]
    /\ streamed \subseteq StreamedEntries /\ inCluster \in BOOLEAN /\ sunk \in BOOLEAN
    /\ palette.highlight >= -1 /\ (~sunk => palette.highlight >= 0)
    /\ palette.open => PaletteFits(Len(Matches))

LEMMA EntriesAreFew ==
  ASSUME NEW objects \in SUBSET StreamedEntries, NEW rank
  PROVE  Len(Listed(rank, objects)) \in Nat /\ \E S : Listed(rank, objects) \in Seq(S)
<1>1. NumFixed \in Nat /\ NumStreamed \in Nat /\ MatchCap \in Nat
  BY PaletteAssumption
<1> DEFINE hits == {e \in FixedEntries \cup objects : rank[e] # 0}
           rows == IF Cardinality(hits) < MatchCap THEN Cardinality(hits) ELSE MatchCap
<1>2. IsFiniteSet(1..(NumFixed + NumStreamed))
  BY <1>1, FS_Interval
<1>3. hits \subseteq 1..(NumFixed + NumStreamed)
  <2>1. FixedEntries \subseteq 1..(NumFixed + NumStreamed) /\ StreamedEntries \subseteq 1..(NumFixed + NumStreamed)
    BY <1>1 DEF FixedEntries, StreamedEntries
  <2>2. QED
    BY <2>1
<1>4. IsFiniteSet(hits)
  BY <1>2, <1>3, FS_Subset
<1>5. Cardinality(hits) \in Nat
  BY <1>4, FS_CardinalityType
<1>6. rows \in Nat
  BY <1>1, <1>5
<1> DEFINE Row(i) == CHOOSE e \in hits : Cardinality({d \in hits : Before(rank, d, e)}) = i - 1
<1>7. Listed(rank, objects) = [i \in 1..rows |-> Row(i)]
  BY DEF Listed
<1>8. \A i \in 1..rows : Row(i) \in {Row(j) : j \in 1..rows}
  OBVIOUS
<1>9. [i \in 1..rows |-> Row(i)] \in Seq({Row(j) : j \in 1..rows})
  <2> HIDE DEF rows, Row
  <2>1. QED
    BY <1>6, <1>8
<1>10. QED
  BY <1>7, <1>9, LenProperties

LEMMA PaletteInitInv == PaletteInit => PaletteInv
<1> SUFFICES ASSUME PaletteInit PROVE PaletteInv
  OBVIOUS
<1>1. BlankRanks \in TypedRanks
  BY DEF BlankRanks, TypedRanks, Ranks
<1>2. palette \in [open : BOOLEAN, rank : TypedRanks, highlight : Int] /\ palette.highlight = 0
  BY <1>1 DEF PaletteInit
<1>3. streamed \subseteq StreamedEntries
  BY DEF PaletteInit
<1>4. inCluster \in BOOLEAN
  BY DEF PaletteInit
<1>5. sunk \in BOOLEAN
  BY DEF PaletteInit
<1>6. palette.highlight >= -1 /\ palette.highlight >= 0
  BY <1>2
<1>7. PaletteFits(Len(Matches))
  BY <1>2 DEF PaletteFits
<1>8. QED
  BY <1>2, <1>3, <1>4, <1>5, <1>6, <1>7 DEF PaletteInv

LEMMA PlacedAnew ==
  ASSUME palette' \in [open : BOOLEAN, rank : TypedRanks, highlight : Int], palette'.highlight = 0,
         streamed' \subseteq StreamedEntries, inCluster' \in BOOLEAN, sunk' = FALSE
  PROVE  PaletteInv'
<1>1. sunk' \in BOOLEAN
  OBVIOUS
<1>2. palette'.highlight >= -1 /\ palette'.highlight >= 0
  OBVIOUS
<1>3. PaletteFits(Len(Matches))'
  BY DEF PaletteFits
<1>4. QED
  BY <1>1, <1>2, <1>3 DEF PaletteInv

LEMMA PaletteStep == PaletteInv /\ [PaletteNext]_paletteVars => PaletteInv'
<1> SUFFICES ASSUME PaletteInv, [PaletteNext]_paletteVars PROVE PaletteInv'
  OBVIOUS
<1>1. PICK rows \in Nat : rows = Len(Matches)
  BY EntriesAreFew DEF PaletteInv, Matches
<1>2. BlankRanks \in TypedRanks
  BY DEF BlankRanks, TypedRanks, Ranks
<1>3. CASE UNCHANGED paletteVars
  BY <1>3 DEF paletteVars, PaletteInv, PaletteFits, Matches
<1>4. CASE OpenPalette
  <2>1. palette' \in [open : BOOLEAN, rank : TypedRanks, highlight : Int] /\ palette'.highlight = 0
    BY <1>2, <1>4 DEF OpenPalette
  <2>2. streamed' = {} /\ sunk' = FALSE /\ inCluster' = inCluster
    BY <1>4 DEF OpenPalette
  <2>3. QED
    BY <2>1, <2>2, PlacedAnew DEF PaletteInv
<1>5. CASE Dismiss
  BY <1>5 DEF Dismiss, Shut, PaletteInv, PaletteFits
<1>6. ASSUME NEW rank \in TypedRanks, TypeQuery(rank) PROVE PaletteInv'
  <2>1. palette' = [palette EXCEPT !.rank = rank, !.highlight = 0] /\ sunk' = FALSE /\ inCluster' = inCluster
    BY <1>6 DEF TypeQuery
  <2>2. palette' \in [open : BOOLEAN, rank : TypedRanks, highlight : Int] /\ palette'.highlight = 0
    <3>1. palette \in [open : BOOLEAN, rank : TypedRanks, highlight : Int]
      BY DEF PaletteInv
    <3>2. palette' = [palette EXCEPT !.rank = rank, !.highlight = 0] /\ rank \in TypedRanks
      BY <1>6, <2>1
    <3>3. palette' = [open |-> palette.open, rank |-> rank, highlight |-> 0] /\ palette.open \in BOOLEAN
      BY <3>1, <3>2
    <3>4. QED
      BY <3>2, <3>3
  <2>3. streamed' \subseteq StreamedEntries
    BY <1>6 DEF TypeQuery, PaletteInv
  <2>4. QED
    BY <2>1, <2>2, <2>3, PlacedAnew DEF PaletteInv
<1>7. ASSUME NEW objects \in SUBSET StreamedEntries,
             palette' = [palette EXCEPT !.highlight = Clamped(@, Listed(palette.rank, objects))],
             streamed' = objects, sunk' = sunk, inCluster' \in BOOLEAN
      PROVE  PaletteInv'
  <2>1. PICK n \in Nat : n = Len(Listed(palette.rank, objects))
    BY EntriesAreFew
  <2>2. Matches' = Listed(palette.rank, objects)
    BY <1>7 DEF Matches, PaletteInv
  <2>3. palette' = [palette EXCEPT !.highlight = IF palette.highlight >= n THEN 0 ELSE palette.highlight]
    BY <1>7, <2>1 DEF Clamped
  <2>4. Len(Matches') = n
    BY <2>1, <2>2
  <2>5. QED
    BY <1>7, <2>3, <2>4 DEF PaletteInv, PaletteFits
<1>8. ASSUME NEW objects \in SUBSET StreamedEntries, ListChanges(objects) PROVE PaletteInv'
  BY <1>7, <1>8 DEF ListChanges, PaletteInv
<1>9. CASE ClusterChanges
  BY <1>7, <1>9 DEF ClusterChanges, PaletteInv
<1>10. ASSUME NEW row \in Int, row >= -1, NEW sinks \in BOOLEAN, ~sinks => row >= 0,
              palette.open, Place(row, sinks)
       PROVE  PaletteInv'
  <2>1. palette' = [palette EXCEPT !.highlight = IF row >= rows THEN 0 ELSE row]
    BY <1>1, <1>10 DEF Place, Clamped
  <2>2. Matches' = Matches
    BY <1>10, <2>1 DEF Place, Matches, PaletteInv
  <2>3. QED
    BY <1>1, <1>10, <2>1, <2>2 DEF Place, PaletteInv, PaletteFits
<1>11. CASE ArrowDown
  <2>1. PICK row : row = IF palette.highlight + 1 < rows - 1 THEN palette.highlight + 1 ELSE rows - 1
    OBVIOUS
  <2>2. palette.open /\ Place(row, Matches = <<>>)
    BY <1>1, <1>11, <2>1 DEF ArrowDown
  <2>3. Matches # <<>> => rows > 0
    <3>1. PICK S : Matches \in Seq(S)
      BY EntriesAreFew DEF PaletteInv, Matches
    <3>2. QED
      BY <1>1, <3>1, EmptySeq
  <2>4. row \in Int /\ row >= -1 /\ (Matches # <<>> => row >= 0)
    BY <1>1, <2>1, <2>3 DEF PaletteInv
  <2>5. PICK sinks \in BOOLEAN : sinks = (Matches = <<>>)
    OBVIOUS
  <2>6. QED
    BY <1>10, <2>2, <2>4, <2>5
<1>12. CASE ArrowUp
  <2>1. PICK row \in Int : row = IF palette.highlight > 0 THEN palette.highlight - 1 ELSE 0
    BY DEF PaletteInv
  <2>2. row >= -1 /\ row >= 0
    BY <2>1 DEF PaletteInv
  <2>3. palette.open /\ Place(row, FALSE)
    BY <1>12, <2>1 DEF ArrowUp
  <2>4. QED
    BY <1>10, <2>2, <2>3
<1>13. ASSUME NEW row \in 0..(NumFixed + NumStreamed), Hover(row) PROVE PaletteInv'
  <2>1. row \in Int /\ row >= 0 /\ row >= -1
    BY PaletteAssumption
  <2>2. palette.open /\ Place(row, FALSE)
    BY <1>13 DEF Hover
  <2>3. QED
    BY <1>10, <2>1, <2>2
<1>14. ASSUME NEW row, PickRow(row) PROVE PaletteInv'
  BY <1>14 DEF PickRow, Shut, PaletteInv, PaletteFits
<1>15. QED
  BY <1>3, <1>4, <1>5, <1>6, <1>8, <1>9, <1>11, <1>12, <1>13, <1>14 DEF PaletteNext, Enter, ClickRow

\* The highlight is on a row while there is one to pick, unless ArrowDown sank it
\* (CommandPalette.tsx): whatever objects come and go under the typed text.
THEOREM HighlightStaysOnARow == PaletteSpec => []HighlightOnARow
<1>1. PaletteInit => PaletteInv
  BY PaletteInitInv
<1>2. PaletteInv /\ [PaletteNext]_paletteVars => PaletteInv'
  BY PaletteStep
<1>3. PaletteInv => HighlightOnARow
  <2> SUFFICES ASSUME PaletteInv, palette.open, Matches # <<>>, ~sunk
               PROVE  palette.highlight \in 0..(Len(Matches) - 1)
    BY DEF HighlightOnARow
  <2>1. PICK S : Len(Matches) \in Nat /\ Matches \in Seq(S)
    BY EntriesAreFew DEF PaletteInv, Matches
  <2>2. Len(Matches) > 0
    BY <2>1, EmptySeq
  <2>3. QED
    BY <2>1, <2>2 DEF PaletteInv, PaletteFits
<1>4. QED
  BY <1>1, <1>2, <1>3, PTL DEF PaletteSpec

-----------------------------------------------------------------------------
(* The strip of tabs.  A store is sound when no two of its tabs have one id, at *)
(* most one of them is a preview, a tab is active if there is any, and every     *)
(* kept tab that the strip has is where it was.                                 *)
TabRecords == [c : TabClusters, p : Pages, q : {0, 1}, id : Ids, preview : BOOLEAN]
Stores == [tabs : Seq(TabRecords), active : Int]

OneEach(s) ==
    \A i, j \in 1..Len(s.tabs) :
        i # j => s.tabs[i].id # s.tabs[j].id /\ ~(s.tabs[i].preview /\ s.tabs[j].preview)
ActiveIsThere(s) ==
    (\E i \in 1..Len(s.tabs) : s.tabs[i].id = s.active) \/ (Len(s.tabs) = 0 /\ s.active = 0)
Keeps(s) ==
    \A i \in 1..Len(strip.tabs), j \in 1..Len(s.tabs) :
        ~strip.tabs[i].preview /\ s.tabs[j].id = strip.tabs[i].id =>
            s.tabs[j].c = strip.tabs[i].c /\ s.tabs[j].p = strip.tabs[i].p /\ ~s.tabs[j].preview
Sound(s) == s \in Stores /\ OneEach(s) /\ ActiveIsThere(s) /\ Keeps(s)

\* The active tab is the page at r.
OnDisplay(s, r) ==
    \E i \in 1..Len(s.tabs) : s.tabs[i].id = s.active /\ s.tabs[i].c = r.c /\ s.tabs[i].p = r.p

LEMMA LeastIsThere ==
  ASSUME NEW S \in SUBSET Nat, S # {}
  PROVE  Least(S) \in S /\ \A j \in S : Least(S) <= j
<1>1. \E i \in S : \A j \in S : i <= j
  BY LeastOfNaturals
<1>2. QED
  BY <1>1 DEF Least

LEMMA TabsInPlace ==
  ASSUME NEW s \in Stores
  PROVE  /\ s.tabs \in Seq(TabRecords) /\ Len(s.tabs) \in Nat /\ DOMAIN s.tabs = 1..Len(s.tabs)
         /\ \A i \in 1..Len(s.tabs) : s.tabs[i] \in TabRecords
         /\ \A id : HasId(s, id) <=> \E i \in 1..Len(s.tabs) : s.tabs[i].id = id
<1>1. PICK t : t = s.tabs
  OBVIOUS
<1>2. t \in Seq(TabRecords)
  BY <1>1 DEF Stores
<1>3. Len(t) \in Nat /\ DOMAIN t = 1..Len(t) /\ \A i \in 1..Len(t) : t[i] \in TabRecords
  BY <1>2, LenProperties, ElementOfSeq
<1>4. IdsOf(s) = {x.id : x \in {t[i] : i \in 1..Len(t)}}
  BY <1>1, <1>3 DEF IdsOf, TabsOf
<1>5. \A id : HasId(s, id) <=> \E i \in 1..Len(t) : t[i].id = id
  BY <1>4 DEF HasId
<1>6. QED
  BY <1>1, <1>2, <1>3, <1>5

LEMMA TheTab ==
  ASSUME NEW s \in Stores, OneEach(s), NEW i \in 1..Len(s.tabs)
  PROVE  Least(At(s, s.tabs[i].id)) = i /\ At(s, s.tabs[i].id) = {i}
<1>1. Len(s.tabs) \in Nat /\ DOMAIN s.tabs = 1..Len(s.tabs)
  BY TabsInPlace
<1>2. At(s, s.tabs[i].id) = {i}
  BY <1>1 DEF At, OneEach
<1>3. {i} \in SUBSET Nat /\ {i} # {}
  BY <1>1
<1>4. Least({i}) \in {i}
  BY <1>3, LeastIsThere
<1>5. QED
  BY <1>2, <1>4

LEMMA ActiveTab ==
  ASSUME NEW s \in Stores, OneEach(s), NEW i \in 1..Len(s.tabs), s.tabs[i].id = s.active
  PROVE  ActiveOf(s) = s.tabs[i] /\ ActiveOf(s) \in TabRecords /\ ActiveOf(s) # NoTab
<1>1. HasId(s, s.active) /\ s.tabs[i] \in TabRecords
  BY TabsInPlace
<1>2. Least(At(s, s.active)) = i
  BY TheTab
<1>3. ActiveOf(s) = s.tabs[i]
  BY <1>1, <1>2 DEF ActiveOf
<1>4. s.tabs[i].id # 0
  BY <1>1, PageAssumption DEF TabRecords, Ids
<1>5. NoTab.id = 0
  BY DEF NoTab
<1>6. QED
  BY <1>1, <1>3, <1>4, <1>5

\* Tabs that are touched up where they are: a tab that is not a preview keeps its
\* page, and nothing becomes a preview.
LEMMA TouchedUp ==
  ASSUME NEW s, Sound(s), NEW u \in Seq(TabRecords), Len(u) = Len(s.tabs),
         \A j \in 1..Len(s.tabs) :
            /\ u[j].id = s.tabs[j].id
            /\ u[j].preview => s.tabs[j].preview
            /\ ~s.tabs[j].preview => u[j].c = s.tabs[j].c /\ u[j].p = s.tabs[j].p,
         NEW a, (a = s.active /\ Len(u) = 0) \/ \E i \in 1..Len(u) : u[i].id = a
  PROVE  Sound([tabs |-> u, active |-> a])
<1>1. PICK x : x = [tabs |-> u, active |-> a]
  OBVIOUS
<1>2. x.tabs = u /\ x.active = a
  BY <1>1
<1>3. a \in Int
  <2>1. \A i \in 1..Len(u) : u[i] \in TabRecords
    BY ElementOfSeq
  <2>2. s.active \in Int
    BY DEF Sound, Stores
  <2>3. \A i \in 1..Len(u) : u[i].id \in Int
    BY <2>1, PageAssumption DEF TabRecords, Ids
  <2>4. QED
    BY <2>2, <2>3
<1>4. x \in Stores
  BY <1>1, <1>3 DEF Stores
<1>5. OneEach(x)
  BY <1>2 DEF Sound, OneEach
<1>6. ActiveIsThere(x)
  <2>1. CASE \E i \in 1..Len(u) : u[i].id = a
    BY <1>2, <2>1 DEF ActiveIsThere
  <2>2. CASE a = s.active /\ Len(u) = 0
    <3>1. 1..Len(s.tabs) = {}
      BY <2>2
    <3>2. s.active = 0
      BY <3>1 DEF Sound, ActiveIsThere
    <3>3. QED
      BY <1>2, <2>2, <3>2 DEF ActiveIsThere
  <2>3. QED
    BY <2>1, <2>2
<1>7. Keeps(x)
  <2> SUFFICES ASSUME NEW i \in 1..Len(strip.tabs), NEW j \in 1..Len(u),
                      ~strip.tabs[i].preview, u[j].id = strip.tabs[i].id
               PROVE  u[j].c = strip.tabs[i].c /\ u[j].p = strip.tabs[i].p /\ ~u[j].preview
    BY <1>2 DEF Keeps
  <2>1. j \in 1..Len(s.tabs) /\ s.tabs[j].id = strip.tabs[i].id
    OBVIOUS
  <2>2. s.tabs[j].c = strip.tabs[i].c /\ s.tabs[j].p = strip.tabs[i].p /\ ~s.tabs[j].preview
    BY <2>1 DEF Sound, Keeps
  <2>3. QED
    BY <2>1, <2>2
<1>8. QED
  BY <1>1, <1>4, <1>5, <1>6, <1>7 DEF Sound

\* Tabs that are closed: those that stay are in their order.
LEMMA ThinnedOut ==
  ASSUME NEW s, Sound(s), NEW u \in Seq(TabRecords), NEW p,
         \A k \in 1..Len(u) : p[k] \in 1..Len(s.tabs) /\ u[k] = s.tabs[p[k]],
         \A j, k \in 1..Len(u) : j < k => p[j] < p[k],
         NEW a, (a = 0 /\ Len(u) = 0) \/ \E i \in 1..Len(u) : u[i].id = a
  PROVE  Sound([tabs |-> u, active |-> a])
<1>1. PICK x : x = [tabs |-> u, active |-> a]
  OBVIOUS
<1>2. x.tabs = u /\ x.active = a
  BY <1>1
<1>3. a \in Int
  <2>1. \A i \in 1..Len(u) : u[i] \in TabRecords
    BY ElementOfSeq
  <2>2. \A i \in 1..Len(u) : u[i].id \in Int
    BY <2>1, PageAssumption DEF TabRecords, Ids
  <2>3. QED
    BY <2>2
<1>4. x \in Stores
  BY <1>1, <1>3 DEF Stores
<1>5. OneEach(x)
  <2> SUFFICES ASSUME NEW j \in 1..Len(u), NEW k \in 1..Len(u), j # k
               PROVE  u[j].id # u[k].id /\ ~(u[j].preview /\ u[k].preview)
    BY <1>2 DEF OneEach
  <2>1. p[j] # p[k]
    <3>1. j \in Int /\ k \in Int /\ p[j] \in Int /\ p[k] \in Int
      BY LenProperties
    <3>2. j < k \/ k < j
      BY <3>1
    <3>3. QED
      BY <3>1, <3>2
  <2>2. PICK f, g : f = p[j] /\ g = p[k]
    OBVIOUS
  <2>3. f \in 1..Len(s.tabs) /\ g \in 1..Len(s.tabs) /\ f # g /\ u[j] = s.tabs[f] /\ u[k] = s.tabs[g]
    BY <2>1, <2>2
  <2>4. s.tabs[f].id # s.tabs[g].id /\ ~(s.tabs[f].preview /\ s.tabs[g].preview)
    BY <2>3 DEF Sound, OneEach
  <2>5. QED
    BY <2>3, <2>4
<1>6. ActiveIsThere(x)
  BY <1>2 DEF ActiveIsThere
<1>7. Keeps(x)
  <2> SUFFICES ASSUME NEW i \in 1..Len(strip.tabs), NEW j \in 1..Len(u),
                      ~strip.tabs[i].preview, u[j].id = strip.tabs[i].id
               PROVE  u[j].c = strip.tabs[i].c /\ u[j].p = strip.tabs[i].p /\ ~u[j].preview
    BY <1>2 DEF Keeps
  <2>1. PICK f : f = p[j]
    OBVIOUS
  <2>2. f \in 1..Len(s.tabs) /\ u[j] = s.tabs[f]
    BY <2>1
  <2>3. s.tabs[f].c = strip.tabs[i].c /\ s.tabs[f].p = strip.tabs[i].p /\ ~s.tabs[f].preview
    BY <2>2 DEF Sound, Keeps
  <2>4. QED
    BY <2>2, <2>3
<1>8. QED
  BY <1>1, <1>4, <1>5, <1>6, <1>7 DEF Sound


\* One more tab, with an id that nobody has.
LEMMA FreshId ==
  ASSUME NEW s, Sound(s), Fits(s), Sound(strip), Fits(strip)
  PROVE  /\ MakeId(s) \in Ids /\ MakeId(s) # menu.id
         /\ \A i \in 1..Len(s.tabs) : s.tabs[i].id # MakeId(s)
         /\ \A i \in 1..Len(strip.tabs) : strip.tabs[i].id # MakeId(s)
<1> DEFINE T == IdsOf(s) \cup IdsOf(strip) \cup {menu.id}
<1>1. ASSUME NEW r, Sound(r), Fits(r)
      PROVE  IsFiniteSet(IdsOf(r)) /\ Cardinality(IdsOf(r)) <= MaxTabs
  <2>1. PICK n \in Nat : n = Len(r.tabs)
    BY <1>1, TabsInPlace DEF Sound
  <2>2. n <= MaxTabs
    BY <1>1, <2>1 DEF Fits
  <2>3. PICK f : f = [i \in 1..n |-> r.tabs[i].id]
    OBVIOUS
  <2>4. IdsOf(r) = {f[i] : i \in 1..n}
    <3>1. DOMAIN r.tabs = 1..n
      BY <1>1, <2>1, TabsInPlace DEF Sound
    <3>2. IdsOf(r) = {x.id : x \in {r.tabs[i] : i \in 1..n}}
      BY <3>1 DEF IdsOf, TabsOf
    <3>3. QED
      BY <2>3, <3>2
  <2>5. f \in Surjection(1..n, IdsOf(r))
    BY <2>3, <2>4 DEF Surjection
  <2>6. IsFiniteSet(1..n) /\ Cardinality(1..n) = n
    BY FS_Interval
  <2>7. IsFiniteSet(IdsOf(r)) /\ Cardinality(IdsOf(r)) <= n
    BY <2>5, <2>6, FS_Surjection
  <2>8. QED
    BY <2>2, <2>7, FS_CardinalityType, PageAssumption
<1>2. IsFiniteSet(T) /\ Cardinality(T) <= 2 * MaxTabs + 1
  <2>1. PICK A, B : A = IdsOf(s) /\ B = IdsOf(strip)
    OBVIOUS
  <2>2. IsFiniteSet(A) /\ Cardinality(A) <= MaxTabs /\ IsFiniteSet(B) /\ Cardinality(B) <= MaxTabs
    BY <1>1, <2>1
  <2>3. Cardinality(A) \in Nat /\ Cardinality(B) \in Nat
    BY <2>2, FS_CardinalityType
  <2>4. PICK C : C = A \cup B
    OBVIOUS
  <2>5. IsFiniteSet(C) /\ Cardinality(C) <= 2 * MaxTabs
    <3>1. IsFiniteSet(C) /\ Cardinality(C) = Cardinality(A) + Cardinality(B) - Cardinality(A \cap B)
      BY <2>2, <2>4, FS_Union
    <3>2. IsFiniteSet(A \cap B)
      BY <2>2, FS_Subset
    <3>3. Cardinality(A \cap B) \in Nat
      BY <3>2, FS_CardinalityType
    <3>4. QED
      BY <2>2, <2>3, <3>1, <3>3, PageAssumption
  <2>6. Cardinality(C) \in Nat
    BY <2>5, FS_CardinalityType
  <2>7. /\ IsFiniteSet(C \cup {menu.id})
        /\ Cardinality(C \cup {menu.id}) = IF menu.id \in C THEN Cardinality(C) ELSE Cardinality(C) + 1
    BY <2>5, FS_AddElement
  <2>8. Cardinality(C \cup {menu.id}) <= 2 * MaxTabs + 1
    <3>1. Cardinality(C \cup {menu.id}) = Cardinality(C) \/ Cardinality(C \cup {menu.id}) = Cardinality(C) + 1
      BY <2>7
    <3>2. QED
      BY <2>5, <2>6, <3>1, PageAssumption
  <2>9. T = C \cup {menu.id}
    BY <2>1, <2>4
  <2>10. QED
    BY <2>7, <2>8, <2>9
<1>3. IsFiniteSet(Ids) /\ Cardinality(Ids) = 2 * MaxTabs + 2
  BY FS_Interval, PageAssumption DEF Ids
<1>4. Ids \ T # {}
  <2> SUFFICES ASSUME Ids \subseteq T PROVE FALSE
    OBVIOUS
  <2>1. Cardinality(Ids) <= Cardinality(T)
    BY <1>2, FS_Subset
  <2>2. Cardinality(T) \in Nat
    BY <1>2, FS_CardinalityType
  <2>3. QED
    BY <1>2, <1>3, <2>1, <2>2, PageAssumption
<1>5. MakeId(s) \in Ids \ T
  <2>1. Ids \ T \in SUBSET Nat
    BY PageAssumption DEF Ids
  <2>2. Least(Ids \ T) \in Ids \ T
    BY <1>4, <2>1, LeastIsThere
  <2>3. QED
    BY <2>2 DEF MakeId
<1>6. QED
  BY <1>5, TabsInPlace DEF HasId, Sound


LEMMA OneMore ==
  ASSUME NEW s, Sound(s), Fits(s), Sound(strip), Fits(strip), NEW r \in Routes, NEW preview \in BOOLEAN,
         preview => Previews(s) = {}
  PROVE  /\ Sound(Added(s, Tab(s, r, preview))) /\ OnDisplay(Added(s, Tab(s, r, preview)), r)
         /\ Len(Added(s, Tab(s, r, preview)).tabs) = Len(s.tabs) + 1
         /\ \A i \in 1..Len(s.tabs) : Added(s, Tab(s, r, preview)).tabs[i] = s.tabs[i]
         /\ Added(s, Tab(s, r, preview)).active # menu.id
         /\ Added(s, Tab(s, r, preview)).tabs[Len(s.tabs) + 1].id # menu.id
<1>1. PICK x : x = Tab(s, r, preview)
  OBVIOUS
<1>2. PICK z : z = Added(s, x)
  OBVIOUS
<1>3. /\ x \in TabRecords /\ x.id = MakeId(s) /\ x.c = r.c /\ x.p = r.p /\ x.preview = preview
      /\ x.id \in Int
  <2>1. MakeId(s) \in Ids /\ r.c \in TabClusters /\ r.p \in Pages /\ r.q \in {0, 1}
    BY FreshId DEF Routes
  <2>2. MakeId(s) \in Int
    BY <2>1, PageAssumption DEF Ids
  <2>3. QED
    BY <1>1, <2>1, <2>2 DEF Tab, TabRecords
<1>4. PICK n \in Nat : n = Len(s.tabs)
  BY TabsInPlace DEF Sound
<1>5. PICK u : u = Append(s.tabs, x)
  OBVIOUS
<1>6. /\ u \in Seq(TabRecords) /\ Len(u) = n + 1 /\ u[n + 1] = x
      /\ \A i \in 1..n : u[i] = s.tabs[i]
  <2>1. s.tabs \in Seq(TabRecords)
    BY DEF Sound, Stores
  <2>2. QED
    BY <1>3, <1>4, <1>5, <2>1, AppendProperties
<1>7. z = [tabs |-> u, active |-> x.id] /\ z.tabs = u /\ z.active = x.id
  BY <1>2, <1>5 DEF Added
<1>8. \A i \in 1..(n + 1) : i = n + 1 \/ i \in 1..n
  OBVIOUS
<1>9. (\A i \in 1..n : s.tabs[i].id # x.id) /\ (\A i \in 1..Len(strip.tabs) : strip.tabs[i].id # x.id)
      /\ x.id # menu.id
  BY <1>3, <1>4, FreshId
<1>10. z \in Stores
  BY <1>3, <1>6, <1>7 DEF Stores
<1>11. OneEach(z)
  <2>1. \A i \in 1..n : ~(s.tabs[i].preview /\ preview)
    <3>1. DOMAIN s.tabs = 1..n
      BY <1>4, TabsInPlace DEF Sound
    <3>2. QED
      BY <3>1 DEF Previews
  <2>2. \A i, j \in 1..n : i # j => s.tabs[i].id # s.tabs[j].id /\ ~(s.tabs[i].preview /\ s.tabs[j].preview)
    BY <1>4 DEF Sound, OneEach
  <2>3. SUFFICES ASSUME NEW i \in 1..(n + 1), NEW j \in 1..(n + 1), i # j
                 PROVE  u[i].id # u[j].id /\ ~(u[i].preview /\ u[j].preview)
    BY <1>6, <1>7 DEF OneEach
  <2>4. CASE i \in 1..n /\ j \in 1..n
    <3>1. u[i] = s.tabs[i] /\ u[j] = s.tabs[j]
      BY <1>6, <2>4
    <3>2. QED
      BY <2>2, <2>3, <2>4, <3>1
  <2>5. CASE i \in 1..n /\ j = n + 1
    <3>1. u[i] = s.tabs[i] /\ u[j] = x
      BY <1>6, <2>5
    <3>2. QED
      BY <1>3, <1>9, <2>1, <2>5, <3>1
  <2>6. CASE i = n + 1 /\ j \in 1..n
    <3>1. u[j] = s.tabs[j] /\ u[i] = x
      BY <1>6, <2>6
    <3>2. QED
      BY <1>3, <1>9, <2>1, <2>6, <3>1
  <2>7. QED
    <3>1. (i = n + 1 \/ i \in 1..n) /\ (j = n + 1 \/ j \in 1..n)
      BY <1>8
    <3>2. QED
      BY <2>3, <2>4, <2>5, <2>6, <3>1
<1>12. n + 1 \in 1..Len(u) /\ u[n + 1].id = x.id
  BY <1>6
<1>13. ActiveIsThere(z)
  BY <1>7, <1>12 DEF ActiveIsThere
<1>14. Keeps(z)
  <2> SUFFICES ASSUME NEW i \in 1..Len(strip.tabs), NEW j \in 1..(n + 1),
                      ~strip.tabs[i].preview, u[j].id = strip.tabs[i].id
               PROVE  u[j].c = strip.tabs[i].c /\ u[j].p = strip.tabs[i].p /\ ~u[j].preview
    BY <1>6, <1>7 DEF Keeps
  <2>1. j \in 1..n /\ u[j] = s.tabs[j]
    BY <1>6, <1>8, <1>9
  <2>2. QED
    BY <1>4, <2>1 DEF Sound, Keeps
<1>15. OnDisplay(z, r)
  BY <1>3, <1>6, <1>7, <1>12 DEF OnDisplay
<1>16. QED
  BY <1>1, <1>2, <1>4, <1>6, <1>7, <1>9, <1>10, <1>11, <1>13, <1>14, <1>15 DEF Sound

\* A tab that is given a page: a preview, or one that shows the page already.
LEMMA OneTurned ==
  ASSUME NEW s, Sound(s), NEW r \in Routes, NEW i \in 1..Len(s.tabs),
         s.tabs[i].preview \/ (s.tabs[i].c = r.c /\ s.tabs[i].p = r.p)
  PROVE  LET z == Focused(Replaced(s, i, r), i) IN
         /\ Sound(z) /\ OnDisplay(z, r) /\ Len(z.tabs) = Len(s.tabs) /\ z.active = s.tabs[i].id
         /\ \A j \in 1..Len(s.tabs) :
              z.tabs[j].id = s.tabs[j].id /\ z.tabs[j].preview = s.tabs[j].preview /\ (j # i => z.tabs[j] = s.tabs[j])
         /\ z.tabs[i].c = r.c /\ z.tabs[i].p = r.p
<1>1. PICK t : t = s.tabs
  OBVIOUS
<1>2. t \in Seq(TabRecords) /\ Len(t) \in Nat /\ DOMAIN t = 1..Len(t) /\ \A j \in 1..Len(t) : t[j] \in TabRecords
  BY <1>1, TabsInPlace DEF Sound
<1>3. PICK x : x = [t[i] EXCEPT !.c = r.c, !.p = r.p, !.q = r.q]
  OBVIOUS
<1>4. /\ x \in TabRecords /\ x.c = r.c /\ x.p = r.p /\ x.id = t[i].id /\ x.preview = t[i].preview
  <2>1. t[i] \in TabRecords
    BY <1>1, <1>2
  <2>2. QED
    BY <1>3, <2>1 DEF TabRecords, Routes
<1>5. PICK u : u = [t EXCEPT ![i] = x]
  OBVIOUS
<1>6. u \in Seq(TabRecords) /\ Len(u) = Len(t) /\ \A j \in 1..Len(t) : u[j] = IF j = i THEN x ELSE t[j]
  BY <1>1, <1>2, <1>4, <1>5, ExceptSeq
<1>7. s = [tabs |-> t, active |-> s.active]
  BY <1>1 DEF Sound, Stores
<1>8. Replaced(s, i, r) = [tabs |-> u, active |-> s.active]
  <2>1. [s EXCEPT !.tabs[i].c = r.c, !.tabs[i].p = r.p, !.tabs[i].q = r.q] = [s EXCEPT !.tabs = u]
    BY <1>1, <1>2, <1>3, <1>5 DEF Sound, Stores
  <2>2. QED
    BY <1>7, <2>1 DEF Replaced
<1>9. PICK z : z = Focused(Replaced(s, i, r), i)
  OBVIOUS
<1>10. u[i] = x /\ i \in 1..Len(u)
  BY <1>1, <1>6
<1>11. z = [tabs |-> u, active |-> u[i].id] /\ z.tabs = u /\ z.active = t[i].id
  BY <1>4, <1>8, <1>9, <1>10 DEF Focused
<1>12. Sound(z)
  <2>1. \A j \in 1..Len(s.tabs) :
            /\ u[j].id = s.tabs[j].id
            /\ u[j].preview => s.tabs[j].preview
            /\ ~s.tabs[j].preview => u[j].c = s.tabs[j].c /\ u[j].p = s.tabs[j].p
    BY <1>1, <1>4, <1>6
  <2>2. Len(u) = Len(s.tabs) /\ \E k \in 1..Len(u) : u[k].id = u[i].id
    BY <1>1, <1>6, <1>10
  <2>3. Sound([tabs |-> u, active |-> u[i].id])
    BY <1>6, <2>1, <2>2, TouchedUp
  <2>4. QED
    BY <1>11, <2>3
<1>13. OnDisplay(z, r)
  BY <1>4, <1>10, <1>11 DEF OnDisplay
<1>14. QED
  BY <1>1, <1>4, <1>6, <1>9, <1>10, <1>11, <1>12, <1>13


\* The context menu's tab is where it was when the menu opened, if it is there, or it
\* is the preview and active.
MenuTabStays(s) ==
    \A i \in 1..Len(s.tabs) : s.tabs[i].id = menu.id =>
        \/ s.tabs[i].c = menu.c /\ s.tabs[i].p = menu.p
        \/ s.tabs[i].preview /\ s.active = menu.id

LEMMA OpenTabSound ==
  ASSUME NEW s, Sound(s), Fits(s), Sound(strip), Fits(strip), NEW r \in Routes
  PROVE  /\ Sound(OpenTab(s, r)) /\ OnDisplay(OpenTab(s, r), r)
         /\ (\A i \in 1..Len(s.tabs) : s.tabs[i].id = menu.id => s.tabs[i].c = menu.c /\ s.tabs[i].p = menu.p)
            => MenuTabStays(OpenTab(s, r))
<1>1. Len(s.tabs) \in Nat /\ DOMAIN s.tabs = 1..Len(s.tabs)
  BY TabsInPlace DEF Sound
<1>2. CASE Same(s, r) = {}
  <2>1. PICK z : z = Added(s, Tab(s, r, FALSE))
    OBVIOUS
  <2>2. OpenTab(s, r) = z
    BY <1>2, <2>1 DEF OpenTab, CreateTab
  <2>3. /\ Sound(z) /\ OnDisplay(z, r)
        /\ Len(z.tabs) = Len(s.tabs) + 1 /\ z.tabs[Len(s.tabs) + 1].id # menu.id
        /\ \A i \in 1..Len(s.tabs) : z.tabs[i] = s.tabs[i]
    BY <2>1, OneMore
  <2>4. ASSUME \A i \in 1..Len(s.tabs) : s.tabs[i].id = menu.id => s.tabs[i].c = menu.c /\ s.tabs[i].p = menu.p
        PROVE  MenuTabStays(z)
    <3> SUFFICES ASSUME NEW i \in 1..Len(z.tabs), z.tabs[i].id = menu.id
                 PROVE  z.tabs[i].c = menu.c /\ z.tabs[i].p = menu.p
      BY DEF MenuTabStays
    <3>1. i \in 1..Len(s.tabs)
      BY <1>1, <2>3
    <3>2. QED
      BY <2>3, <2>4, <3>1
  <2>5. QED
    BY <2>2, <2>3, <2>4
<1>3. CASE Same(s, r) # {}
  <2>1. Same(s, r) \in SUBSET Nat
    BY <1>1 DEF Same
  <2>2. PICK i : i = Least(Same(s, r))
    OBVIOUS
  <2>3. i \in 1..Len(s.tabs) /\ s.tabs[i].c = r.c /\ s.tabs[i].p = r.p
    <3>1. i \in Same(s, r)
      BY <1>3, <2>1, <2>2, LeastIsThere
    <3>2. QED
      BY <1>1, <3>1 DEF Same
  <2>4. PICK z : z = Focused(Replaced(s, i, r), i)
    OBVIOUS
  <2>5. OpenTab(s, r) = z
    BY <1>3, <2>2, <2>4 DEF OpenTab
  <2>6. /\ Sound(z) /\ OnDisplay(z, r) /\ Len(z.tabs) = Len(s.tabs)
        /\ \A j \in 1..Len(s.tabs) : z.tabs[j].id = s.tabs[j].id /\ (j # i => z.tabs[j] = s.tabs[j])
        /\ z.tabs[i].c = r.c /\ z.tabs[i].p = r.p
    BY <2>3, <2>4, OneTurned
  <2>7. ASSUME \A j \in 1..Len(s.tabs) : s.tabs[j].id = menu.id => s.tabs[j].c = menu.c /\ s.tabs[j].p = menu.p
        PROVE  MenuTabStays(z)
    <3> SUFFICES ASSUME NEW j \in 1..Len(s.tabs), z.tabs[j].id = menu.id
                 PROVE  z.tabs[j].c = menu.c /\ z.tabs[j].p = menu.p
      BY <2>6 DEF MenuTabStays
    <3>1. s.tabs[j].c = menu.c /\ s.tabs[j].p = menu.p
      BY <2>6, <2>7
    <3>2. CASE j = i
      BY <2>3, <2>6, <3>1, <3>2
    <3>3. CASE j # i
      BY <2>6, <3>1, <3>3
    <3>4. QED
      BY <3>2, <3>3
  <2>8. QED
    BY <2>5, <2>6, <2>7
<1>4. QED
  BY <1>2, <1>3

LEMMA OpenPreviewSound ==
  ASSUME NEW s, Sound(s), Fits(s), Sound(strip), Fits(strip), NEW r \in Routes
  PROVE  Sound(OpenPreview(s, r)) /\ OnDisplay(OpenPreview(s, r), r)
<1>1. Len(s.tabs) \in Nat /\ DOMAIN s.tabs = 1..Len(s.tabs) /\ s.tabs \in Seq(TabRecords) /\ s \in Stores
  BY TabsInPlace DEF Sound
<1>2. CASE Previews(s) # {}
  <2>1. Previews(s) \in SUBSET Nat
    BY <1>1 DEF Previews
  <2>2. PICK i : i = Least(Previews(s))
    OBVIOUS
  <2>3. i \in Previews(s)
    BY <1>2, <2>1, <2>2, LeastIsThere
  <2>4. i \in 1..Len(s.tabs) /\ s.tabs[i].preview
    BY <1>1, <2>3 DEF Previews
  <2>5. OpenPreview(s, r) = Focused(Replaced(s, i, r), i)
    BY <1>2, <2>2 DEF OpenPreview
  <2>6. QED
    BY <2>4, <2>5, OneTurned
<1>3. CASE Previews(s) = {} /\ Same(s, r) # {}
  <2>1. Same(s, r) \in SUBSET Nat
    BY <1>1 DEF Same
  <2>2. PICK i : i = Least(Same(s, r))
    OBVIOUS
  <2>3. i \in Same(s, r)
    BY <1>3, <2>1, <2>2, LeastIsThere
  <2>4. i \in 1..Len(s.tabs) /\ s.tabs[i].c = r.c /\ s.tabs[i].p = r.p
    BY <1>1, <2>3 DEF Same
  <2>5. OpenPreview(s, r) = Focused(s, i)
    BY <1>3, <2>2 DEF OpenPreview
  <2>6. Focused(s, i) = [tabs |-> s.tabs, active |-> s.tabs[i].id]
    BY <1>1 DEF Focused, Stores
  <2>7. Sound([tabs |-> s.tabs, active |-> s.tabs[i].id])
    BY <1>1, <2>4, TouchedUp
  <2>8. OnDisplay([tabs |-> s.tabs, active |-> s.tabs[i].id], r)
    BY <2>4 DEF OnDisplay
  <2>9. QED
    BY <2>5, <2>6, <2>7, <2>8
<1>4. CASE Previews(s) = {} /\ Same(s, r) = {}
  <2>1. OpenPreview(s, r) = Added(s, Tab(s, r, TRUE))
    BY <1>4 DEF OpenPreview
  <2>2. QED
    BY <1>4, <2>1, OneMore
<1>5. QED
  BY <1>2, <1>3, <1>4

\* useTabsRouterSync.
LEMMA PatchSound ==
  ASSUME NEW s, Sound(s), NEW q \in {0, 1}
  PROVE  LET z == PatchActive(s, q) IN
         /\ Sound(z) /\ z.active = s.active /\ Len(z.tabs) = Len(s.tabs)
         /\ \A j \in 1..Len(s.tabs) :
              /\ z.tabs[j].id = s.tabs[j].id /\ z.tabs[j].preview = s.tabs[j].preview
              /\ z.tabs[j].c = s.tabs[j].c /\ z.tabs[j].p = s.tabs[j].p
<1>1. PICK t : t = s.tabs
  OBVIOUS
<1>2. t \in Seq(TabRecords) /\ Len(t) \in Nat /\ DOMAIN t = 1..Len(t) /\ \A j \in 1..Len(t) : t[j] \in TabRecords
  BY <1>1, TabsInPlace DEF Sound
<1>3. PICK u : u = [j \in 1..Len(t) |-> IF t[j].id = s.active THEN [t[j] EXCEPT !.q = q] ELSE t[j]]
  OBVIOUS
<1>4. \A j \in 1..Len(t) :
        /\ u[j] \in TabRecords /\ u[j].id = t[j].id /\ u[j].preview = t[j].preview
        /\ u[j].c = t[j].c /\ u[j].p = t[j].p
  BY <1>2, <1>3 DEF TabRecords
<1>5. u \in Seq(TabRecords) /\ Len(u) = Len(t)
  BY <1>2, <1>3, <1>4
<1>6. PatchActive(s, q) = [tabs |-> u, active |-> s.active]
  <2>1. PatchActive(s, q) = [s EXCEPT !.tabs = u]
    BY <1>1, <1>2, <1>3 DEF PatchActive
  <2>2. [s EXCEPT !.tabs = u] = [tabs |-> u, active |-> s.active]
    BY DEF Sound, Stores
  <2>3. QED
    BY <2>1, <2>2
<1>7. (s.active = s.active /\ Len(u) = 0) \/ \E i \in 1..Len(u) : u[i].id = s.active
  BY <1>1, <1>4, <1>5 DEF Sound, ActiveIsThere
<1>8. Sound([tabs |-> u, active |-> s.active])
  BY <1>1, <1>4, <1>5, <1>7, TouchedUp
<1>9. QED
  BY <1>1, <1>4, <1>5, <1>6, <1>8


LEMMA SyncSound ==
  ASSUME NEW s, Sound(s), Fits(s), Sound(strip), Fits(strip), NEW r \in Routes
  PROVE  /\ Sound(Sync(s, r)) /\ OnDisplay(Sync(s, r), r)
         /\ MenuTabStays(s) => MenuTabStays(Sync(s, r))
<1>1. Len(s.tabs) \in Nat /\ DOMAIN s.tabs = 1..Len(s.tabs) /\ s \in Stores /\ OneEach(s)
  BY TabsInPlace DEF Sound
<1>2. r.q \in {0, 1}
  BY DEF Routes
<1>3. PICK a : a = ActiveOf(s)
  OBVIOUS
<1>4. CASE Len(s.tabs) = 0
  <2>1. ~HasId(s, s.active)
    BY <1>1, <1>4, TabsInPlace
  <2>2. ActiveOf(s) = NoTab
    BY <2>1 DEF ActiveOf
  <2>3. Sync(s, r) = OpenTab(s, r)
    BY <2>2 DEF Sync
  <2>4. \A i \in 1..Len(s.tabs) : s.tabs[i].id = menu.id => s.tabs[i].c = menu.c /\ s.tabs[i].p = menu.p
    BY <1>4
  <2>5. QED
    BY <2>3, <2>4, OpenTabSound
<1>5. CASE Len(s.tabs) # 0
  <2>1. PICK k \in 1..Len(s.tabs) : s.tabs[k].id = s.active
    BY <1>5 DEF Sound, ActiveIsThere
  <2>2. a = s.tabs[k] /\ a # NoTab /\ a \in TabRecords
    BY <1>1, <1>3, <2>1, ActiveTab
  <2>3. \A j \in 1..Len(s.tabs) : s.tabs[j].id = s.active => j = k
    BY <1>1, <2>1 DEF OneEach
  <2>4. CASE a.c = r.c /\ a.p = r.p
    <3>1. PICK z : z = PatchActive(s, r.q)
      OBVIOUS
    <3>2. Sync(s, r) = z
      BY <1>3, <2>2, <2>4, <3>1 DEF Sync
    <3>3. /\ Sound(z) /\ z.active = s.active /\ Len(z.tabs) = Len(s.tabs)
          /\ \A j \in 1..Len(s.tabs) :
              /\ z.tabs[j].id = s.tabs[j].id /\ z.tabs[j].preview = s.tabs[j].preview
              /\ z.tabs[j].c = s.tabs[j].c /\ z.tabs[j].p = s.tabs[j].p
      BY <1>2, <3>1, PatchSound
    <3>4. OnDisplay(z, r)
      BY <2>1, <2>2, <2>4, <3>3 DEF OnDisplay
    <3>5. MenuTabStays(s) => MenuTabStays(z)
      BY <3>3 DEF MenuTabStays
    <3>6. QED
      BY <3>2, <3>3, <3>4, <3>5
  <2>5. CASE ~(a.c = r.c /\ a.p = r.p) /\ a.preview
    <3>1. k \in Previews(s) /\ Previews(s) \in SUBSET Nat
      BY <1>1, <2>2, <2>5 DEF Previews
    <3>2. PICK i : i = Least(Previews(s))
      OBVIOUS
    <3>3. i \in Previews(s)
      BY <3>1, <3>2, LeastIsThere
    <3>4. i = k
      BY <1>1, <3>1, <3>3 DEF Previews, OneEach
    <3>5. PICK z : z = Focused(Replaced(s, k, r), k)
      OBVIOUS
    <3>6. OpenPreview(s, r) = z
      BY <3>1, <3>2, <3>4, <3>5 DEF OpenPreview
    <3>7. Sync(s, r) = z
      BY <1>3, <2>2, <2>5, <3>6 DEF Sync
    <3>8. /\ Sound(z) /\ OnDisplay(z, r) /\ Len(z.tabs) = Len(s.tabs) /\ z.active = s.tabs[k].id
          /\ \A j \in 1..Len(s.tabs) :
               z.tabs[j].id = s.tabs[j].id /\ z.tabs[j].preview = s.tabs[j].preview /\ (j # k => z.tabs[j] = s.tabs[j])
      BY <2>2, <2>5, <3>5, OneTurned
    <3>9. ASSUME MenuTabStays(s) PROVE MenuTabStays(z)
      <4> SUFFICES ASSUME NEW j \in 1..Len(s.tabs), z.tabs[j].id = menu.id
                   PROVE  \/ z.tabs[j].c = menu.c /\ z.tabs[j].p = menu.p
                          \/ z.tabs[j].preview /\ z.active = menu.id
        BY <3>8 DEF MenuTabStays
      <4>1. s.tabs[j].id = menu.id
        BY <3>8
      <4>2. CASE j = k
        BY <2>2, <2>5, <3>8, <4>1, <4>2
      <4>3. CASE j # k
        <5>1. s.active # menu.id
          BY <2>3, <4>1, <4>3
        <5>2. s.tabs[j].c = menu.c /\ s.tabs[j].p = menu.p
          BY <3>9, <4>1, <5>1 DEF MenuTabStays
        <5>3. QED
          BY <3>8, <4>3, <5>2
      <4>4. QED
        BY <4>2, <4>3
    <3>10. QED
      BY <3>7, <3>8, <3>9
  <2>6. CASE ~(a.c = r.c /\ a.p = r.p) /\ ~a.preview
    <3>1. Sync(s, r) = OpenTab(s, r)
      BY <1>3, <2>6 DEF Sync
    <3>2. ASSUME MenuTabStays(s)
          PROVE  \A i \in 1..Len(s.tabs) : s.tabs[i].id = menu.id => s.tabs[i].c = menu.c /\ s.tabs[i].p = menu.p
      <4> SUFFICES ASSUME NEW i \in 1..Len(s.tabs), s.tabs[i].id = menu.id
                   PROVE  ~(s.tabs[i].preview /\ s.active = menu.id)
        BY <3>2 DEF MenuTabStays
      <4>1. QED
        BY <2>2, <2>3, <2>6
    <3>3. QED
      BY <3>1, <3>2, OpenTabSound
  <2>7. QED
    BY <2>4, <2>5, <2>6
<1>6. QED
  BY <1>4, <1>5

LEMMA SyncedSound ==
  ASSUME NEW s, Sound(s), Fits(s), Sound(strip), Fits(strip), NEW r \in Routes
  PROVE  /\ Sound(Synced(s, r)) /\ OnDisplay(Synced(s, r), r)
         /\ shell /\ MenuTabStays(s) => MenuTabStays(Synced(s, r))
  BY SyncSound, OpenTabSound DEF Synced, FirstSync

\* The rest of a store: closing tabs.
LEMMA SomeClosed ==
  ASSUME NEW s, Sound(s), NEW V, NEW a,
         \/ \E t \in V \cap TabsOf(s) : t.id = a
         \/ a = Ending(Kept(s.tabs, V))
         \/ \E k \in 1..Len(Kept(s.tabs, V)) : a = Kept(s.tabs, V)[k].id
  PROVE  Sound([tabs |-> Kept(s.tabs, V), active |-> a]) /\ Len(Kept(s.tabs, V)) <= Len(s.tabs)
<1>1. PICK t : t = s.tabs
  OBVIOUS
<1>2. t \in Seq(TabRecords) /\ DOMAIN t = 1..Len(t) /\ Len(t) \in Nat
  BY <1>1, TabsInPlace DEF Sound
<1>3. PICK u, p : u = Kept(t, V) /\ p = PlacesOf(t, V)
  OBVIOUS
<1>4. u \in Seq(TabRecords) /\ Len(u) = Len(p) /\ Len(u) \in Nat /\ Len(u) <= Len(t) /\ AtPlaces(t, V, p)
  BY <1>2, <1>3, KeptByPlaces
<1>5. \A k \in 1..Len(u) : p[k] \in 1..Len(t) /\ u[k] = t[p[k]] /\ u[k] \in V
  BY <1>3, <1>4 DEF AtPlaces
<1>6. \A j, k \in 1..Len(u) : j < k => p[j] < p[k]
  BY <1>4 DEF AtPlaces
<1>7. \A i \in 1..Len(t) : t[i] \in V => \E k \in 1..Len(u) : u[k] = t[i]
  <2> SUFFICES ASSUME NEW i \in 1..Len(t), t[i] \in V PROVE \E k \in 1..Len(u) : u[k] = t[i]
    OBVIOUS
  <2>1. PICK k \in 1..Len(p) : p[k] = i
    BY <1>4 DEF AtPlaces
  <2>2. k \in 1..Len(u)
    BY <1>4
  <2>3. QED
    BY <1>5, <2>1, <2>2
<1>8. (a = 0 /\ Len(u) = 0) \/ \E i \in 1..Len(u) : u[i].id = a
  <2>1. CASE \E x \in V \cap TabsOf(s) : x.id = a
    <3>1. PICK i \in 1..Len(t) : t[i] \in V /\ t[i].id = a
      BY <1>1, <1>2, <2>1 DEF TabsOf
    <3>2. QED
      BY <1>7, <3>1
  <2>2. CASE a = Ending(u)
    <3>1. CASE u = <<>>
      BY <2>2, <3>1, EmptySeq DEF Ending
    <3>2. CASE u # <<>>
      <4>1. Len(u) \in 1..Len(u)
        BY <1>4, <3>2, EmptySeq
      <4>2. QED
        BY <2>2, <3>2, <4>1 DEF Ending
    <3>3. QED
      BY <3>1, <3>2
  <2>3. CASE \E k \in 1..Len(u) : a = u[k].id
    BY <2>3
  <2>4. QED
    BY <1>1, <1>3, <2>1, <2>2, <2>3
<1>9. \A k \in 1..Len(u) : p[k] \in 1..Len(s.tabs) /\ u[k] = s.tabs[p[k]]
  BY <1>1, <1>5
<1>10. Sound([tabs |-> u, active |-> a])
  BY <1>4, <1>6, <1>8, <1>9, ThinnedOut
<1>11. QED
  BY <1>1, <1>3, <1>4, <1>10


\* A sweep, which closes the tabs outside V: the active tab stays active if it is
\* in V.
SweptBy(s, V) ==
    LET next == Kept(s.tabs, V)
    IN [tabs |-> next, active |-> IF \E i \in DOMAIN next : next[i].id = s.active THEN s.active ELSE Ending(next)]

LEMMA SweepSound ==
  ASSUME NEW s, Sound(s), NEW V
  PROVE  /\ Sound(SweptBy(s, V)) /\ Len(SweptBy(s, V).tabs) <= Len(s.tabs)
         /\ \A k \in 1..Len(s.tabs) : s.tabs[k].id = s.active /\ s.tabs[k] \in V =>
              /\ SweptBy(s, V).active = s.active
              /\ MenuTabStays(s) => MenuTabStays(SweptBy(s, V))
              /\ \A r : OnDisplay(s, r) => OnDisplay(SweptBy(s, V), r)
<1>1. PICK u : u = Kept(s.tabs, V)
  OBVIOUS
<1>2. PICK a : a = IF \E i \in DOMAIN u : u[i].id = s.active THEN s.active ELSE Ending(u)
  OBVIOUS
<1>3. PICK z : z = SweptBy(s, V)
  OBVIOUS
<1>4. z = [tabs |-> u, active |-> a] /\ z.tabs = u /\ z.active = a
  BY <1>1, <1>2, <1>3 DEF SweptBy
<1>5. s.tabs \in Seq(TabRecords) /\ u \in Seq(TabRecords)
  BY <1>1, TabsInPlace, KeptByPlaces DEF Sound
<1>6. DOMAIN u = 1..Len(u)
  BY <1>5, LenProperties
<1>7. \/ a = Ending(Kept(s.tabs, V))
      \/ \E k \in 1..Len(Kept(s.tabs, V)) : a = Kept(s.tabs, V)[k].id
  BY <1>1, <1>2, <1>6
<1>8. /\ Sound([tabs |-> u, active |-> a]) /\ Len(u) <= Len(s.tabs)
      /\ \A k \in 1..Len(u) : u[k] \in V /\ \E i \in 1..Len(s.tabs) : u[k] = s.tabs[i]
      /\ \A i \in 1..Len(s.tabs) : s.tabs[i] \in V => \E k \in 1..Len(u) : u[k] = s.tabs[i]
  <2>1. Sound([tabs |-> Kept(s.tabs, V), active |-> a])
    BY <1>7, SomeClosed
  <2>2. PICK t : t = s.tabs
    OBVIOUS
  <2>3. t \in Seq(TabRecords) /\ u = Kept(t, V)
    BY <1>1, <1>5, <2>2
  <2>4. IsTheRest(t, V, u)
    BY <2>3, KeptIsTheRest
  <2>5. QED
    BY <1>1, <2>1, <2>2, <2>4 DEF IsTheRest
<1>9. ASSUME NEW k \in 1..Len(s.tabs), s.tabs[k].id = s.active, s.tabs[k] \in V
      PROVE  /\ z.active = s.active
             /\ MenuTabStays(s) => MenuTabStays(z)
             /\ \A r : OnDisplay(s, r) => OnDisplay(z, r)
  <2>1. PICK j \in 1..Len(u) : u[j] = s.tabs[k]
    BY <1>8, <1>9
  <2>2. z.active = s.active
    BY <1>2, <1>4, <1>6, <1>9, <2>1
  <2>3. ASSUME MenuTabStays(s) PROVE MenuTabStays(z)
    <3> SUFFICES ASSUME NEW i \in 1..Len(u), u[i].id = menu.id
                 PROVE  \/ u[i].c = menu.c /\ u[i].p = menu.p
                        \/ u[i].preview /\ z.active = menu.id
      BY <1>4 DEF MenuTabStays
    <3>1. PICK h \in 1..Len(s.tabs) : u[i] = s.tabs[h]
      BY <1>8
    <3>2. QED
      BY <2>2, <2>3, <3>1 DEF MenuTabStays
  <2>4. ASSUME NEW r, OnDisplay(s, r) PROVE OnDisplay(z, r)
    <3>1. PICK i \in 1..Len(s.tabs) : s.tabs[i].id = s.active /\ s.tabs[i].c = r.c /\ s.tabs[i].p = r.p
      BY <2>4 DEF OnDisplay
    <3>2. i = k
      BY <1>9, <3>1 DEF Sound, OneEach
    <3>3. QED
      BY <1>4, <2>1, <2>2, <3>1, <3>2 DEF OnDisplay
  <2>5. QED
    BY <2>2, <2>3, <2>4
<1>10. QED
  BY <1>3, <1>4, <1>8, <1>9

LEMMA SweptSound ==
  ASSUME NEW s, Sound(s), NEW live
  PROVE  /\ Sound(Swept(s, live)) /\ Len(Swept(s, live).tabs) <= Len(s.tabs)
         /\ \A r : OnDisplay(s, r) /\ r.c \in live =>
              /\ OnDisplay(Swept(s, live), r)
              /\ MenuTabStays(s) => MenuTabStays(Swept(s, live))
<1>1. PICK V : V = {t \in TabsOf(s) : t.c \in live}
  OBVIOUS
<1>2. PICK z : z = SweptBy(s, V)
  OBVIOUS
<1>3. Swept(s, live) = z
  BY <1>1, <1>2 DEF Swept, SweptBy
<1>4. Sound(z) /\ Len(z.tabs) <= Len(s.tabs)
  BY <1>2, SweepSound
<1>5. ASSUME NEW r, OnDisplay(s, r), r.c \in live
      PROVE  OnDisplay(z, r) /\ (MenuTabStays(s) => MenuTabStays(z))
  <2>1. PICK k \in 1..Len(s.tabs) : s.tabs[k].id = s.active /\ s.tabs[k].c = r.c
    BY <1>5 DEF OnDisplay
  <2>2. s.tabs[k] \in V
    BY <1>1, <1>5, <2>1, TabsInPlace DEF TabsOf, Sound
  <2>3. QED
    BY <1>2, <1>5, <2>1, <2>2, SweepSound
<1>6. QED
  BY <1>3, <1>4, <1>5

LEMMA LeftSound ==
  ASSUME NEW s, Sound(s), NEW c
  PROVE  /\ Sound(CloseForCluster(s, c)) /\ Len(CloseForCluster(s, c).tabs) <= Len(s.tabs)
         /\ \A r : OnDisplay(s, r) /\ r.c # c =>
              /\ OnDisplay(CloseForCluster(s, c), r)
              /\ MenuTabStays(s) => MenuTabStays(CloseForCluster(s, c))
<1>1. PICK V : V = {t \in TabsOf(s) : t.c # c}
  OBVIOUS
<1>2. PICK z : z = SweptBy(s, V)
  OBVIOUS
<1>3. CloseForCluster(s, c) = z
  BY <1>1, <1>2 DEF CloseForCluster, SweptBy
<1>4. Sound(z) /\ Len(z.tabs) <= Len(s.tabs)
  BY <1>2, SweepSound
<1>5. ASSUME NEW r, OnDisplay(s, r), r.c # c
      PROVE  OnDisplay(z, r) /\ (MenuTabStays(s) => MenuTabStays(z))
  <2>1. PICK k \in 1..Len(s.tabs) : s.tabs[k].id = s.active /\ s.tabs[k].c = r.c
    BY <1>5 DEF OnDisplay
  <2>2. s.tabs[k] \in V
    BY <1>1, <1>5, <2>1, TabsInPlace DEF TabsOf, Sound
  <2>3. QED
    BY <1>2, <1>5, <2>1, <2>2, SweepSound
<1>6. QED
  BY <1>3, <1>4, <1>5

LEMMA CloseTabSound ==
  ASSUME NEW s, Sound(s), NEW id
  PROVE  Sound(CloseTab(s, id)) /\ Len(CloseTab(s, id).tabs) <= Len(s.tabs)
<1>1. CASE ~HasId(s, id)
  BY <1>1, TabsInPlace DEF CloseTab, Sound
<1>2. CASE HasId(s, id)
  <2>1. PICK V : V = {t \in TabsOf(s) : t.id # id}
    OBVIOUS
  <2>2. PICK u, i : u = Kept(s.tabs, V) /\ i = Least(At(s, id))
    OBVIOUS
  <2>3. PICK near : near = IF i <= Len(u) THEN u[i].id ELSE Ending(u)
    OBVIOUS
  <2>4. PICK a : a = IF s.active = id THEN near ELSE s.active
    OBVIOUS
  <2>5. CloseTab(s, id) = [tabs |-> u, active |-> a]
    BY <1>2, <2>1, <2>2, <2>3, <2>4 DEF CloseTab
  <2>6. PICK j \in 1..Len(s.tabs) : s.tabs[j].id = id
    BY <1>2, TabsInPlace DEF Sound
  <2>7. i = j
    BY <2>2, <2>6, TheTab DEF Sound
  <2>8. u \in Seq(TabRecords) /\ Len(u) \in Nat
    BY <2>2, TabsInPlace, KeptByPlaces DEF Sound
  <2>9. i >= 1 /\ i \in Int
    BY <2>7, TabsInPlace DEF Sound
  <2>10. CASE s.active = id
    <3>1. \/ a = Ending(Kept(s.tabs, V))
          \/ \E k \in 1..Len(Kept(s.tabs, V)) : a = Kept(s.tabs, V)[k].id
      <4>1. CASE i <= Len(u)
        <5>1. i \in 1..Len(u) /\ a = u[i].id
          BY <2>3, <2>4, <2>8, <2>9, <2>10, <4>1
        <5>2. QED
          BY <2>2, <5>1
      <4>2. CASE ~(i <= Len(u))
        BY <2>2, <2>3, <2>4, <2>10, <4>2
      <4>3. QED
        BY <4>1, <4>2
    <3>2. Sound([tabs |-> Kept(s.tabs, V), active |-> a]) /\ Len(Kept(s.tabs, V)) <= Len(s.tabs)
      BY <3>1, SomeClosed
    <3>3. QED
      BY <2>2, <2>5, <3>2
  <2>11. CASE s.active # id
    <3>1. PICK k \in 1..Len(s.tabs) : s.tabs[k].id = s.active
      BY <2>6 DEF Sound, ActiveIsThere
    <3>2. s.tabs[k] \in V \cap TabsOf(s) /\ s.tabs[k].id = a
      BY <2>1, <2>4, <2>11, <3>1, TabsInPlace DEF TabsOf, Sound
    <3>3. Sound([tabs |-> Kept(s.tabs, V), active |-> a]) /\ Len(Kept(s.tabs, V)) <= Len(s.tabs)
      BY <3>2, SomeClosed
    <3>4. QED
      BY <2>2, <2>5, <3>3
  <2>12. QED
    BY <2>10, <2>11
<1>3. QED
  BY <1>1, <1>2


LEMMA OthersSound ==
  ASSUME NEW s, Sound(s), NEW id
  PROVE  /\ Sound(CloseOthers(s, id)) /\ Len(CloseOthers(s, id).tabs) <= Len(s.tabs)
         /\ \A i \in 1..Len(s.tabs) : s.tabs[i].id = id =>
              OnDisplay(CloseOthers(s, id), s.tabs[i])
<1>1. CASE ~HasId(s, id)
  BY <1>1, TabsInPlace DEF CloseOthers, Sound
<1>2. CASE HasId(s, id)
  <2>1. PICK V : V = {t \in TabsOf(s) : t.id = id}
    OBVIOUS
  <2>2. PICK u : u = Kept(s.tabs, V)
    OBVIOUS
  <2>3. PICK z : z = [tabs |-> u, active |-> id]
    OBVIOUS
  <2>4. CloseOthers(s, id) = z /\ z.tabs = u /\ z.active = id
    BY <1>2, <2>1, <2>2, <2>3 DEF CloseOthers
  <2>5. PICK j \in 1..Len(s.tabs) : s.tabs[j].id = id
    BY <1>2, TabsInPlace DEF Sound
  <2>6. s.tabs[j] \in V \cap TabsOf(s)
    BY <2>1, <2>5, TabsInPlace DEF TabsOf, Sound
  <2>7. Sound([tabs |-> Kept(s.tabs, V), active |-> id]) /\ Len(Kept(s.tabs, V)) <= Len(s.tabs)
    BY <2>5, <2>6, SomeClosed
  <2>8. PICK t : t = s.tabs
    OBVIOUS
  <2>9. t \in Seq(TabRecords) /\ u = Kept(t, V)
    BY <2>2, <2>8, TabsInPlace DEF Sound
  <2>10. \A i \in 1..Len(t) : t[i] \in V => \E k \in 1..Len(u) : u[k] = t[i]
    <3>1. IsTheRest(t, V, u)
      BY <2>9, KeptIsTheRest
    <3>2. QED
      BY <3>1 DEF IsTheRest
  <2>11. ASSUME NEW i \in 1..Len(s.tabs), s.tabs[i].id = id PROVE OnDisplay(z, s.tabs[i])
    <3>1. s.tabs[i] \in V
      BY <2>1, <2>11, TabsInPlace DEF TabsOf, Sound
    <3>2. PICK k \in 1..Len(u) : u[k] = s.tabs[i]
      BY <2>8, <2>10, <3>1
    <3>3. QED
      BY <2>4, <2>11, <3>2 DEF OnDisplay
  <2>12. QED
    BY <2>2, <2>3, <2>4, <2>7, <2>11
<1>3. QED
  BY <1>1, <1>2

LEMMA RightSound ==
  ASSUME NEW s, Sound(s), NEW id
  PROVE  Sound(CloseToTheRight(s, id)) /\ Len(CloseToTheRight(s, id).tabs) <= Len(s.tabs)
<1>1. CASE ~HasId(s, id)
  BY <1>1, TabsInPlace DEF CloseToTheRight, Sound
<1>2. CASE HasId(s, id)
  <2>1. PICK t : t = s.tabs
    OBVIOUS
  <2>2. t \in Seq(TabRecords) /\ Len(t) \in Nat /\ \A j \in 1..Len(t) : t[j] \in TabRecords
    BY <2>1, TabsInPlace DEF Sound
  <2>3. PICK i \in 1..Len(t) : t[i].id = id
    BY <1>2, <2>1, TabsInPlace DEF Sound
  <2>4. Least(At(s, id)) = i
    BY <2>1, <2>3, TheTab DEF Sound
  <2>5. PICK u : u = SubSeq(t, 1, i)
    OBVIOUS
  <2>6. u \in Seq(TabRecords) /\ Len(u) = i /\ \A k \in 1..i : u[k] = t[k]
    <3>1. i \in Int /\ 1 <= i /\ i <= Len(t)
      BY <2>2, <2>3
    <3>2. \A k \in 1..i : t[k] \in TabRecords
      BY <2>2, <3>1
    <3>3. /\ SubSeq(t, 1, i) \in Seq(TabRecords) /\ Len(SubSeq(t, 1, i)) = IF 1 <= i THEN i - 1 + 1 ELSE 0
          /\ \A k \in 1..(i - 1 + 1) : SubSeq(t, 1, i)[k] = t[1 + k - 1]
      BY <3>1, <3>2, SubSeqProperties
    <3>4. QED
      BY <2>5, <3>1, <3>3
  <2>7. DOMAIN u = 1..Len(u)
    BY <2>6, LenProperties
  <2>8. PICK a : a = IF \E k \in DOMAIN u : u[k].id = s.active THEN s.active ELSE id
    OBVIOUS
  <2>9. CloseToTheRight(s, id) = [tabs |-> u, active |-> a]
    BY <1>2, <2>1, <2>4, <2>5, <2>8 DEF CloseToTheRight
  <2>10. \E k \in 1..Len(u) : u[k].id = a
    <3>1. i \in 1..Len(u) /\ u[i].id = id
      BY <2>2, <2>3, <2>6
    <3>2. QED
      BY <2>7, <2>8, <3>1
  <2>11. PICK p : p = [k \in 1..i |-> k]
    OBVIOUS
  <2>12. (\A k \in 1..Len(u) : p[k] \in 1..Len(s.tabs) /\ u[k] = s.tabs[p[k]])
         /\ \A j, k \in 1..Len(u) : j < k => p[j] < p[k]
    BY <2>1, <2>2, <2>3, <2>6, <2>11
  <2>13. Sound([tabs |-> u, active |-> a])
    <3>1. (a = 0 /\ Len(u) = 0) \/ \E k \in 1..Len(u) : u[k].id = a
      BY <2>10
    <3>2. u \in Seq(TabRecords)
      BY <2>6
    <3>3. QED
      BY <2>12, <3>1, <3>2, ThinnedOut
  <2>14. QED
    BY <2>1, <2>2, <2>3, <2>6, <2>9, <2>13
<1>3. QED
  BY <1>1, <1>2

LEMMA CloseAllSound == Sound(CloseAll) /\ Len(CloseAll.tabs) = 0 /\ CloseAll.active = 0
<1>1. CloseAll.tabs = <<>> /\ CloseAll.active = 0 /\ Len(CloseAll.tabs) = 0
  BY EmptySeq DEF CloseAll
<1>2. CloseAll \in Stores
  BY EmptySeq DEF CloseAll, Stores
<1>3. 1..Len(CloseAll.tabs) = {}
  BY <1>1
<1>4. QED
  BY <1>1, <1>2, <1>3 DEF Sound, OneEach, ActiveIsThere, Keeps

LEMMA CommitSound ==
  ASSUME NEW s, Sound(s), NEW id
  PROVE  LET z == CommitTab(s, id) IN
         /\ Sound(z) /\ Len(z.tabs) = Len(s.tabs)
         /\ \A r : OnDisplay(s, r) => OnDisplay(z, r)
<1>1. PICK t : t = s.tabs
  OBVIOUS
<1>2. t \in Seq(TabRecords) /\ Len(t) \in Nat /\ DOMAIN t = 1..Len(t) /\ \A j \in 1..Len(t) : t[j] \in TabRecords
  BY <1>1, TabsInPlace DEF Sound
<1>3. PICK u : u = [j \in 1..Len(t) |-> IF t[j].id = id THEN [t[j] EXCEPT !.preview = FALSE] ELSE t[j]]
  OBVIOUS
<1>4. \A j \in 1..Len(t) :
        /\ u[j] \in TabRecords /\ u[j].id = t[j].id /\ u[j].c = t[j].c /\ u[j].p = t[j].p
        /\ u[j].preview => t[j].preview
  <2> SUFFICES ASSUME NEW j \in 1..Len(t)
               PROVE  /\ u[j] \in TabRecords /\ u[j].id = t[j].id /\ u[j].c = t[j].c /\ u[j].p = t[j].p
                      /\ u[j].preview => t[j].preview
    OBVIOUS
  <2>1. CASE t[j].id = id
    <3>1. u[j] = [t[j] EXCEPT !.preview = FALSE] /\ t[j] \in TabRecords
      BY <1>2, <1>3, <2>1
    <3>2. QED
      BY <3>1 DEF TabRecords
  <2>2. CASE t[j].id # id
    BY <1>2, <1>3, <2>2
  <2>3. QED
    BY <2>1, <2>2
<1>5. u \in Seq(TabRecords) /\ Len(u) = Len(t)
  BY <1>2, <1>3, <1>4
<1>6. PICK z : z = [tabs |-> u, active |-> s.active]
  OBVIOUS
<1>7. CommitTab(s, id) = z /\ z.tabs = u /\ z.active = s.active
  <2>1. CommitTab(s, id) = [s EXCEPT !.tabs = u]
    BY <1>1, <1>2, <1>3 DEF CommitTab
  <2>2. s \in Stores
    BY DEF Sound
  <2>3. QED
    BY <1>6, <2>1, <2>2 DEF Stores
<1>8. (s.active = s.active /\ Len(u) = 0) \/ \E i \in 1..Len(u) : u[i].id = s.active
  BY <1>1, <1>4, <1>5 DEF Sound, ActiveIsThere
<1>9. Sound([tabs |-> u, active |-> s.active])
  BY <1>1, <1>4, <1>5, <1>8, TouchedUp
<1>10. \A r : OnDisplay(s, r) => OnDisplay(z, r)
  BY <1>1, <1>4, <1>5, <1>7 DEF OnDisplay
<1>11. QED
  BY <1>1, <1>5, <1>6, <1>7, <1>9, <1>10


\* What holds of the strip, the address and the menu between the steps.
PageIsShown ==
    InShell => address \in Routes /\ current = address.c /\ shell = TRUE /\ OnDisplay(strip, address)
MenuIsHeld ==
    menu = NoTab \/ (InShell /\ menu \in TabRecords /\ MenuTabStays(strip))
TabInv ==
    /\ Sound(strip) /\ Fits(strip) /\ online \subseteq TabClusters
    /\ PageIsShown /\ MenuIsHeld

\* A step that ends with the store z.
Arrives(z) ==
    /\ strip' = z /\ Sound(z) /\ Fits(z)
    /\ address' # Home =>
         address' \in Routes /\ current' = address'.c /\ shell' = TRUE /\ OnDisplay(z, address')

LEMMA ArrivalKeeps ==
  ASSUME TabInv, NEW z, Arrives(z), online' \subseteq TabClusters,
         menu' = NoTab \/ (address' # Home /\ menu' = menu /\ menu \in TabRecords /\ MenuTabStays(z))
  PROVE  TabInv'
<1>1. Sound(strip)'
  <2>1. strip' \in Stores /\ OneEach(strip)' /\ ActiveIsThere(strip)'
    BY DEF Arrives, Sound, OneEach, ActiveIsThere
  <2>2. Keeps(strip)'
    BY <2>1 DEF Keeps, OneEach
  <2>3. QED
    BY <2>1, <2>2 DEF Sound
<1>2. Fits(strip)'
  BY DEF Arrives, Fits
<1>3. PageIsShown'
  BY DEF Arrives, PageIsShown, InShell, OnDisplay
<1>4. MenuIsHeld'
  BY DEF Arrives, MenuIsHeld, InShell, MenuTabStays
<1>5. QED
  BY <1>1, <1>2, <1>3, <1>4 DEF TabInv

LEMMA FitsNoLess ==
  ASSUME NEW s, NEW z, Fits(s), Sound(s), Sound(z), Len(z.tabs) <= Len(s.tabs)
  PROVE  Fits(z)
  BY TabsInPlace, PageAssumption DEF Fits, Sound

LEMMA SettledSound ==
  ASSUME NEW s, Sound(s), Fits(s), NEW cur, NEW live
  PROVE  /\ Sound(Settled(s, cur, live)) /\ Fits(Settled(s, cur, live))
         /\ \A r : OnDisplay(s, r) /\ (r.c = cur /\ (cur = current \/ cur \in live)) =>
              /\ OnDisplay(Settled(s, cur, live), r)
              /\ MenuTabStays(s) => MenuTabStays(Settled(s, cur, live))
<1>1. CASE cur = current
  BY <1>1 DEF Settled
<1>2. CASE cur # current
  <2>1. PICK z : z = Swept(s, live)
    OBVIOUS
  <2>2. Settled(s, cur, live) = z
    BY <1>2, <2>1 DEF Settled
  <2>3. /\ Sound(z) /\ Len(z.tabs) <= Len(s.tabs)
        /\ \A r : OnDisplay(s, r) /\ r.c \in live => OnDisplay(z, r) /\ (MenuTabStays(s) => MenuTabStays(z))
    BY <2>1, SweptSound
  <2>4. Fits(z)
    BY <2>3, FitsNoLess
  <2>5. QED
    BY <1>2, <2>2, <2>3, <2>4
<1>3. QED
  BY <1>1, <1>2

LEMMA RoutesAreNotHome ==
  ASSUME NEW r \in Routes
  PROVE  r # Home /\ r.c \in TabClusters
  BY PageAssumption DEF Routes, Home

LEMMA ShellArrives ==
  ASSUME NEW s, Sound(s), NEW r \in Routes, OnDisplay(s, r), NEW live, r.c = current \/ r.c \in live,
         ToShell(s, r, live)
  PROVE  \E z : Arrives(z) /\ address' # Home /\ (MenuTabStays(s) => MenuTabStays(z))
<1>1. PICK z : z = Settled(s, r.c, live)
  OBVIOUS
<1>2. Fits(s) /\ strip' = z /\ address' = r /\ current' = r.c /\ shell' = TRUE
  BY <1>1 DEF ToShell
<1>3. Sound(z) /\ Fits(z) /\ OnDisplay(z, r) /\ (MenuTabStays(s) => MenuTabStays(z))
  BY <1>1, <1>2, SettledSound
<1>4. address' # Home
  BY <1>2, RoutesAreNotHome
<1>5. Arrives(z)
  BY <1>2, <1>3 DEF Arrives
<1>6. QED
  BY <1>3, <1>4, <1>5

LEMMA HomeArrives ==
  ASSUME TabInv, NEW s, Sound(s), Fits(s), NEW cur, NEW live \in SUBSET TabClusters,
         ToHome(s, cur, live)
  PROVE  \E z : Arrives(z)
<1>1. CASE cur \in live
  <2>1. PICK p \in ListPages :
          LET r == [c |-> cur, p |-> p, q |-> 0] IN ToShell(FirstSync(s, r), r, live)
    BY <1>1 DEF ToHome
  <2>2. PICK r : r = [c |-> cur, p |-> p, q |-> 0]
    OBVIOUS
  <2>3. r \in Routes /\ r.c \in live
    BY <1>1, <2>2, PageAssumption DEF Routes
  <2>4. PICK y : y = FirstSync(s, r)
    OBVIOUS
  <2>5. ToShell(y, r, live)
    BY <2>1, <2>2, <2>4
  <2>6. Sound(y) /\ OnDisplay(y, r)
    BY <2>3, <2>4, OpenTabSound DEF FirstSync, TabInv
  <2>7. QED
    BY <2>3, <2>5, <2>6, ShellArrives
<1>2. CASE cur \notin live
  <2>1. PICK z : z = Settled(s, cur, live)
    OBVIOUS
  <2>2. strip' = z /\ address' = Home
    BY <1>2, <2>1 DEF ToHome
  <2>3. Sound(z) /\ Fits(z)
    BY <2>1, SettledSound
  <2>4. QED
    BY <2>2, <2>3 DEF Arrives
<1>3. QED
  BY <1>1, <1>2

LEMMA RouteArrives ==
  ASSUME TabInv, NEW s, Sound(s), Fits(s), NEW r \in Routes, r = address => OnDisplay(s, r),
         ToRoute(s, r)
  PROVE  /\ \E z : Arrives(z)
         /\ r.c \in online /\ shell = TRUE /\ MenuTabStays(s) =>
              \E z : Arrives(z) /\ address' # Home /\ MenuTabStays(z)
<1>1. CASE r = address /\ strip' = s /\ UNCHANGED <<address, current, shell>>
  <2>1. address # Home
    BY <1>1, RoutesAreNotHome
  <2>2. current = address.c /\ shell = TRUE
    BY <2>1 DEF TabInv, PageIsShown, InShell
  <2>3. Arrives(s) /\ address' # Home
    BY <1>1, <2>1, <2>2 DEF Arrives
  <2>4. QED
    BY <2>3
<1>2. CASE r # address /\ r.c \in online /\ ToShell(Synced(s, r), r, online)
  <2>1. PICK y : y = Synced(s, r)
    OBVIOUS
  <2>2. Sound(y) /\ OnDisplay(y, r) /\ (shell /\ MenuTabStays(s) => MenuTabStays(y))
    BY <2>1, SyncedSound DEF TabInv
  <2>3. \E z : Arrives(z) /\ address' # Home /\ (MenuTabStays(y) => MenuTabStays(z))
    BY <1>2, <2>1, <2>2, ShellArrives
  <2>4. QED
    BY <2>2, <2>3
<1>3. CASE r # address /\ r.c \notin online /\ Fits(Synced(s, r)) /\ ToHome(Synced(s, r), current, online)
  <2>1. PICK y : y = Synced(s, r)
    OBVIOUS
  <2>2. Sound(y) /\ Fits(y) /\ ToHome(y, current, online)
    BY <1>3, <2>1, SyncedSound DEF TabInv
  <2>3. online \in SUBSET TabClusters
    BY DEF TabInv
  <2>4. \E z : Arrives(z)
    BY <2>2, <2>3, HomeArrives
  <2>5. QED
    BY <1>3, <2>4
<1>4. QED
  BY <1>1, <1>2, <1>3 DEF ToRoute


LEMMA AfterCloseArrives ==
  ASSUME TabInv, NEW s, Sound(s), Fits(s), AfterClose(s)
  PROVE  \E z : Arrives(z)
<1>1. online \in SUBSET TabClusters
  BY DEF TabInv
<1>2. CASE s.active = 0
  BY <1>1, <1>2, HomeArrives DEF AfterClose
<1>3. CASE s.active # 0
  <2>1. PICK k \in 1..Len(s.tabs) : s.tabs[k].id = s.active
    BY <1>3 DEF Sound, ActiveIsThere
  <2>2. ActiveOf(s) = s.tabs[k] /\ ActiveOf(s) \in TabRecords
    BY <2>1, ActiveTab DEF Sound
  <2>3. PICK r : r = RouteOf(ActiveOf(s))
    OBVIOUS
  <2>4. r \in Routes /\ r.c = s.tabs[k].c /\ r.p = s.tabs[k].p
    BY <2>2, <2>3 DEF RouteOf, TabRecords, Routes
  <2>5. OnDisplay(s, r)
    BY <2>1, <2>4 DEF OnDisplay
  <2>6. ToRoute(s, r)
    BY <1>3, <2>3 DEF AfterClose
  <2>7. QED
    BY <2>4, <2>5, <2>6, RouteArrives
<1>4. QED
  BY <1>2, <1>3

\* The store stays, and so does the address.
LEMMA StripStays ==
  ASSUME TabInv, NEW s, Sound(s), Fits(s), strip' = s, UNCHANGED <<address, current, shell>>,
         InShell => OnDisplay(s, address)
  PROVE  Arrives(s)
  BY DEF Arrives, TabInv, PageIsShown, InShell

LEMMA TabStep ==
  ASSUME TabInv, [TabNext]_tabVars
  PROVE  TabInv' /\ \E z : Arrives(z)
<1>1. Sound(strip) /\ Fits(strip) /\ online \in SUBSET TabClusters /\ PageIsShown /\ MenuIsHeld
  BY DEF TabInv
<1>2. ASSUME menu' = NoTab, online' \subseteq TabClusters, \E z : Arrives(z)
      PROVE  TabInv' /\ \E z : Arrives(z)
  BY <1>2, ArrivalKeeps
<1>3. ASSUME UNCHANGED <<address, current, shell, online>>, strip' = strip
      PROVE  Arrives(strip)
  BY <1>1, <1>3, StripStays DEF PageIsShown
<1>4. CASE UNCHANGED tabVars
  <2>1. Arrives(strip)
    BY <1>3, <1>4 DEF tabVars
  <2>2. menu' = NoTab \/ (address' # Home /\ menu' = menu /\ menu \in TabRecords /\ MenuTabStays(strip))
    BY <1>1, <1>4 DEF tabVars, MenuIsHeld, InShell
  <2>3. online' \subseteq TabClusters
    BY <1>1, <1>4 DEF tabVars
  <2>4. QED
    BY <2>1, <2>2, <2>3, ArrivalKeeps
<1>5. ASSUME NEW c \in TabClusters, NEW p \in Pages, OpenRoute(c, p)
      PROVE  TabInv' /\ \E z : Arrives(z)
  <2>1. PICK r : r = [c |-> c, p |-> p, q |-> 0]
    OBVIOUS
  <2>2. r \in Routes
    BY <2>1 DEF Routes
  <2>3. PICK s : s = OpenPreview(strip, r)
    OBVIOUS
  <2>4. Fits(s) /\ ToRoute(s, r) /\ menu' = NoTab /\ online' = online
    BY <1>5, <2>1, <2>3 DEF OpenRoute
  <2>5. Sound(s) /\ OnDisplay(s, r)
    BY <1>1, <2>2, <2>3, OpenPreviewSound
  <2>6. \E z : Arrives(z)
    BY <2>2, <2>4, <2>5, RouteArrives
  <2>7. QED
    BY <1>1, <1>2, <2>4, <2>6
<1>6. ASSUME NEW r \in Routes, Navigate(r) PROVE TabInv' /\ \E z : Arrives(z)
  <2>1. ToRoute(strip, r) /\ online' = online /\ (menu' = NoTab \/ (menu' = menu /\ r.c \in online))
    BY <1>6 DEF Navigate
  <2>2. r = address => OnDisplay(strip, r)
    BY <1>1, RoutesAreNotHome DEF PageIsShown, InShell
  <2>3. \E z : Arrives(z)
    BY <1>1, <2>1, <2>2, RouteArrives
  <2>4. CASE menu' = NoTab
    BY <1>1, <1>2, <2>1, <2>3, <2>4
  <2>5. CASE menu' # NoTab
    <3>1. menu' = menu /\ r.c \in online /\ menu # NoTab
      BY <2>1, <2>5
    <3>2. menu \in TabRecords /\ MenuTabStays(strip) /\ shell = TRUE
      BY <1>1, <3>1 DEF MenuIsHeld, PageIsShown
    <3>3. PICK z : Arrives(z) /\ address' # Home /\ MenuTabStays(z)
      BY <1>1, <2>1, <2>2, <3>1, <3>2, RouteArrives
    <3>4. QED
      BY <1>1, <2>1, <3>1, <3>2, <3>3, ArrivalKeeps
  <2>6. QED
    BY <2>4, <2>5
<1>7. CASE NavigateHome
  <2>1. ToHome(strip, current, online) /\ menu' = NoTab /\ online' = online
    BY <1>7 DEF NavigateHome
  <2>2. \E z : Arrives(z)
    BY <1>1, <2>1, HomeArrives
  <2>3. QED
    BY <1>1, <1>2, <2>1, <2>2
<1>8. CASE PushPane
  <2>1. address \in Routes /\ OnDisplay(strip, address)
    BY <1>1, <1>8 DEF PushPane, PageIsShown
  <2>2. PICK r : r = [address EXCEPT !.q = 1]
    OBVIOUS
  <2>3. r \in Routes /\ r.c = address.c /\ r.p = address.p
    BY <2>1, <2>2 DEF Routes
  <2>4. PICK s : s = CommitTab(strip, strip.active)
    OBVIOUS
  <2>5. Sound(s) /\ Len(s.tabs) = Len(strip.tabs) /\ OnDisplay(s, address)
    BY <1>1, <2>1, <2>4, CommitSound
  <2>6. Fits(s) /\ OnDisplay(s, r)
    BY <1>1, <2>3, <2>5 DEF Fits, OnDisplay
  <2>7. ToRoute(s, r) /\ menu' = NoTab /\ online' = online
    BY <1>8, <2>2, <2>4 DEF PushPane
  <2>8. \E z : Arrives(z)
    BY <2>3, <2>5, <2>6, <2>7, RouteArrives
  <2>9. QED
    BY <1>1, <1>2, <2>7, <2>8
<1>9. ASSUME NEW id \in Ids, DoubleClick(id) PROVE TabInv' /\ \E z : Arrives(z)
  <2>1. PICK s : s = CommitTab(strip, id)
    OBVIOUS
  <2>2. InShell /\ strip' = s /\ menu' = NoTab /\ UNCHANGED <<address, current, online, shell>>
    BY <1>9, <2>1 DEF DoubleClick
  <2>3. OnDisplay(strip, address)
    BY <1>1, <2>2 DEF PageIsShown
  <2>4. Sound(s) /\ Len(s.tabs) = Len(strip.tabs) /\ OnDisplay(s, address)
    BY <1>1, <2>1, <2>3, CommitSound
  <2>5. Fits(s)
    BY <1>1, <2>4 DEF Fits
  <2>6. Arrives(s)
    BY <2>2, <2>4, <2>5, StripStays
  <2>7. QED
    BY <1>1, <1>2, <2>2, <2>6
<1>10. ASSUME NEW id \in Ids, Select(id) PROVE TabInv' /\ \E z : Arrives(z)
  <2>1. HasId(strip, id) /\ ToRoute(SelectTab(strip, id), RouteOf(Shown(id))) /\ menu' = NoTab /\ online' = online
    BY <1>10 DEF Select
  <2>2. PICK k \in 1..Len(strip.tabs) : strip.tabs[k].id = id
    BY <1>1, <2>1, TabsInPlace DEF Sound
  <2>3. PICK s : s = [tabs |-> strip.tabs, active |-> id]
    OBVIOUS
  <2>4. s = SelectTab(strip, id) /\ Shown(id) = ActiveOf(s) /\ s.tabs = strip.tabs /\ s.active = id
    BY <1>1, <2>1, <2>3 DEF SelectTab, Shown, Sound, Stores
  <2>5. Sound([tabs |-> strip.tabs, active |-> id])
    <3>1. strip.tabs \in Seq(TabRecords)
      BY <1>1, TabsInPlace DEF Sound
    <3>2. QED
      BY <1>1, <2>2, <3>1, TouchedUp
  <2>6. Sound(s)
    BY <2>3, <2>5
  <2>7. ActiveOf(s) = s.tabs[k] /\ ActiveOf(s) \in TabRecords
    BY <2>2, <2>4, <2>6, ActiveTab DEF Sound
  <2>8. PICK r : r = RouteOf(Shown(id))
    OBVIOUS
  <2>9. r \in Routes /\ r.c = s.tabs[k].c /\ r.p = s.tabs[k].p
    BY <2>4, <2>7, <2>8 DEF RouteOf, TabRecords, Routes
  <2>10. OnDisplay(s, r) /\ Fits(s)
    BY <1>1, <2>2, <2>4, <2>9 DEF OnDisplay, Fits
  <2>11. ToRoute(s, r)
    BY <2>1, <2>4, <2>8
  <2>12. \E z : Arrives(z)
    BY <2>6, <2>9, <2>10, <2>11, RouteArrives
  <2>13. QED
    BY <1>1, <1>2, <2>1, <2>12
<1>11. CASE NewTab
  <2>1. PICK r : r = [c |-> current, p |-> "overview", q |-> 0]
    OBVIOUS
  <2>2. PICK s : s = CreateTab(strip, r)
    OBVIOUS
  <2>3. InShell /\ Len(strip.tabs) < MaxTabs /\ ToRoute(s, r) /\ menu' = NoTab /\ online' = online
    BY <1>11, <2>1, <2>2 DEF NewTab
  <2>4. current \in TabClusters
    BY <1>1, <2>3, RoutesAreNotHome DEF PageIsShown
  <2>5. r \in Routes
    BY <2>1, <2>4, PageAssumption DEF Routes
  <2>6. s = Added(strip, Tab(strip, r, FALSE))
    BY <2>2 DEF CreateTab
  <2>7. Sound(s) /\ OnDisplay(s, r) /\ Len(s.tabs) = Len(strip.tabs) + 1
    BY <1>1, <2>5, <2>6, OneMore
  <2>8. Fits(s)
    BY <1>1, <2>3, <2>7, TabsInPlace, PageAssumption DEF Fits, Sound
  <2>9. \E z : Arrives(z)
    BY <2>3, <2>5, <2>7, <2>8, RouteArrives
  <2>10. QED
    BY <1>1, <1>2, <2>3, <2>9
<1>12. ASSUME NEW id \in Ids, Close(id) PROVE TabInv' /\ \E z : Arrives(z)
  <2>1. PICK s : s = CloseTab(strip, id)
    OBVIOUS
  <2>2. AfterClose(s) /\ menu' = NoTab /\ online' = online
    BY <1>12, <2>1 DEF Close
  <2>3. Sound(s) /\ Fits(s)
    BY <1>1, <2>1, CloseTabSound, FitsNoLess
  <2>4. \E z : Arrives(z)
    BY <2>2, <2>3, AfterCloseArrives
  <2>5. QED
    BY <1>1, <1>2, <2>2, <2>4
<1>13. ASSUME NEW id \in Ids, OpenMenu(id) PROVE TabInv' /\ \E z : Arrives(z)
  <2>1. /\ InShell /\ HasId(strip, id) /\ menu' = Shown(id)
        /\ UNCHANGED <<strip, address, current, online, shell>>
    BY <1>13 DEF OpenMenu
  <2>2. PICK k \in 1..Len(strip.tabs) : strip.tabs[k].id = id
    BY <1>1, <2>1, TabsInPlace DEF Sound
  <2>3. PICK s : s = [strip EXCEPT !.active = id]
    OBVIOUS
  <2>4. s.tabs = strip.tabs /\ s.active = id /\ s \in Stores
    BY <1>1, <2>3, PageAssumption DEF Sound, Stores, Ids
  <2>5. OneEach(s)
    BY <1>1, <2>4 DEF Sound, OneEach
  <2>6. menu' = strip.tabs[k] /\ menu' \in TabRecords
    BY <2>1, <2>2, <2>3, <2>4, <2>5, ActiveTab DEF Shown
  <2>7. \A i \in 1..Len(strip.tabs) : strip.tabs[i].id = id => i = k
    BY <1>1, <2>2 DEF Sound, OneEach
  <2>8. MenuIsHeld'
    BY <2>1, <2>2, <2>6, <2>7 DEF MenuIsHeld, MenuTabStays, InShell
  <2>9. Arrives(strip)
    BY <1>3, <2>1
  <2>10. Sound(strip)' /\ Fits(strip)' /\ PageIsShown' /\ online' \subseteq TabClusters
    BY <1>1, <2>1 DEF Sound, OneEach, ActiveIsThere, Keeps, Fits, PageIsShown, InShell, OnDisplay
  <2>11. QED
    BY <2>8, <2>9, <2>10 DEF TabInv
<1>14. CASE DismissMenu
  <2>1. Arrives(strip) /\ menu' = NoTab /\ online' = online
    BY <1>3, <1>14 DEF DismissMenu
  <2>2. QED
    BY <1>1, <1>2, <2>1
<1>15. CASE MenuAction
  <2>1. InShell /\ menu # NoTab /\ menu' = NoTab /\ online' = online
    BY <1>15 DEF MenuAction
  <2>2. menu \in TabRecords /\ MenuTabStays(strip) /\ address \in Routes /\ OnDisplay(strip, address)
    BY <1>1, <2>1 DEF MenuIsHeld, PageIsShown
  <2>3. CASE AfterClose(CloseTab(strip, menu.id))
    <3>1. PICK s : s = CloseTab(strip, menu.id)
      OBVIOUS
    <3>2. Sound(s) /\ Fits(s) /\ AfterClose(s)
      BY <1>1, <2>3, <3>1, CloseTabSound, FitsNoLess
    <3>3. \E z : Arrives(z)
      BY <3>2, AfterCloseArrives
    <3>4. QED
      BY <1>1, <1>2, <2>1, <3>3
  <2>4. CASE ToRoute(CloseOthers(strip, menu.id), RouteOf(menu))
    <3>1. PICK s, r : s = CloseOthers(strip, menu.id) /\ r = RouteOf(menu)
      OBVIOUS
    <3>2. Sound(s) /\ Fits(s)
      BY <1>1, <3>1, OthersSound, FitsNoLess
    <3>3. r \in Routes /\ r.c = menu.c /\ r.p = menu.p
      BY <2>2, <3>1 DEF RouteOf, TabRecords, Routes
    <3>4. ASSUME r = address PROVE OnDisplay(s, r)
      <4>1. CASE ~HasId(strip, menu.id)
        BY <2>2, <3>1, <3>4, <4>1 DEF CloseOthers
      <4>2. CASE HasId(strip, menu.id)
        <5>1. PICK k \in 1..Len(strip.tabs) : strip.tabs[k].id = menu.id
          BY <1>1, <4>2, TabsInPlace DEF Sound
        <5>2. strip.tabs[k].c = r.c /\ strip.tabs[k].p = r.p
          <6>1. CASE strip.tabs[k].c = menu.c /\ strip.tabs[k].p = menu.p
            BY <3>3, <6>1
          <6>2. CASE strip.active = menu.id
            <7>1. PICK i \in 1..Len(strip.tabs) :
                    strip.tabs[i].id = strip.active /\ strip.tabs[i].c = address.c /\ strip.tabs[i].p = address.p
              BY <2>2 DEF OnDisplay
            <7>2. i = k
              BY <1>1, <5>1, <6>2, <7>1 DEF Sound, OneEach
            <7>3. QED
              BY <3>4, <7>1, <7>2
          <6>3. QED
            BY <2>2, <5>1, <6>1, <6>2 DEF MenuTabStays
        <5>3. OnDisplay(s, strip.tabs[k])
          BY <1>1, <3>1, <5>1, OthersSound
        <5>4. QED
          BY <5>2, <5>3 DEF OnDisplay
      <4>3. QED
        BY <4>1, <4>2
    <3>5. \E z : Arrives(z)
      BY <2>4, <3>1, <3>2, <3>3, <3>4, RouteArrives
    <3>6. QED
      BY <1>1, <1>2, <2>1, <3>5
  <2>5. CASE AfterClose(CloseToTheRight(strip, menu.id))
    <3>1. PICK s : s = CloseToTheRight(strip, menu.id)
      OBVIOUS
    <3>2. Sound(s) /\ Fits(s) /\ AfterClose(s)
      BY <1>1, <2>5, <3>1, RightSound, FitsNoLess
    <3>3. \E z : Arrives(z)
      BY <3>2, AfterCloseArrives
    <3>4. QED
      BY <1>1, <1>2, <2>1, <3>3
  <2>6. CASE ToHome(CloseAll, NoCluster, online)
    <3>1. Sound(CloseAll) /\ Fits(CloseAll)
      BY CloseAllSound, PageAssumption DEF Fits
    <3>2. \E z : Arrives(z)
      BY <1>1, <2>6, <3>1, HomeArrives
    <3>3. QED
      BY <1>1, <1>2, <2>1, <3>2
  <2>7. QED
    BY <1>15, <2>3, <2>4, <2>5, <2>6 DEF MenuAction
<1>16. ASSUME NEW live \in SUBSET TabClusters, ClustersBecome(live) PROVE TabInv' /\ \E z : Arrives(z)
  <2>1. PICK s : s = Swept(strip, live)
    OBVIOUS
  <2>2. PICK cur : cur = IF s # strip /\ current \notin live THEN NoCluster ELSE current
    OBVIOUS
  <2>3. Sound(s) /\ Fits(s)
    BY <1>1, <2>1, SweptSound, FitsNoLess
  <2>4. CASE InShell /\ address.c \in live
    <3>1. strip' = s /\ current' = cur /\ UNCHANGED <<address, shell, menu>> /\ online' = live
      BY <1>16, <2>1, <2>2, <2>4 DEF ClustersBecome
    <3>2. current = address.c /\ OnDisplay(strip, address)
      BY <1>1, <2>4 DEF PageIsShown
    <3>3. OnDisplay(s, address) /\ (MenuTabStays(strip) => MenuTabStays(s))
      BY <1>1, <2>1, <2>4, <3>2, SweptSound
    <3>4. current' = current
      BY <2>2, <2>4, <3>1, <3>2
    <3>5. Arrives(s)
      BY <2>3, <3>1, <3>3, <3>4, StripStays
    <3>6. menu' = NoTab \/ (address' # Home /\ menu' = menu /\ menu \in TabRecords /\ MenuTabStays(s))
      BY <1>1, <2>4, <3>1, <3>3 DEF MenuIsHeld, InShell
    <3>7. QED
      BY <3>1, <3>5, <3>6, ArrivalKeeps
  <2>5. CASE ~(InShell /\ address.c \in live)
    <3>1. ToHome(s, cur, live) /\ menu' = NoTab /\ online' = live
      BY <1>16, <2>1, <2>2, <2>5 DEF ClustersBecome
    <3>2. \E z : Arrives(z)
      BY <2>3, <3>1, HomeArrives
    <3>3. QED
      BY <1>2, <3>1, <3>2
  <2>6. QED
    BY <2>4, <2>5
<1>17. ASSUME NEW c \in TabClusters, LeaveCluster(c) PROVE TabInv' /\ \E z : Arrives(z)
  <2>1. PICK s : s = CloseForCluster(strip, c)
    OBVIOUS
  <2>2. Sound(s) /\ Fits(s) /\ online' = online
    BY <1>1, <1>17, <2>1, LeftSound, FitsNoLess DEF LeaveCluster
  <2>3. CASE current = c
    <3>1. PICK cur : cur = NoCluster
      OBVIOUS
    <3>2. ToHome(s, cur, online) /\ menu' = NoTab
      BY <1>17, <2>1, <2>3, <3>1 DEF LeaveCluster
    <3>3. \E z : Arrives(z)
      BY <1>1, <2>2, <3>2, HomeArrives
    <3>4. QED
      BY <1>1, <1>2, <2>2, <3>2, <3>3
  <2>4. CASE current # c
    <3>1. strip' = s /\ UNCHANGED <<address, current, shell, menu>>
      BY <1>17, <2>1, <2>4 DEF LeaveCluster
    <3>2. InShell => OnDisplay(s, address) /\ (MenuTabStays(strip) => MenuTabStays(s))
      BY <1>1, <2>1, <2>4, LeftSound DEF PageIsShown
    <3>3. Arrives(s)
      BY <2>2, <3>1, <3>2, StripStays
    <3>4. menu' = NoTab \/ (address' # Home /\ menu' = menu /\ menu \in TabRecords /\ MenuTabStays(s))
      BY <1>1, <3>1, <3>2 DEF MenuIsHeld, InShell
    <3>5. QED
      BY <1>1, <2>2, <3>3, <3>4, ArrivalKeeps
  <2>5. QED
    BY <2>3, <2>4
<1>18. CASE PageReload
  <2>1. menu' = NoTab /\ online' = online
    BY <1>18 DEF PageReload
  <2>2. CASE InShell
    <3>1. PICK s : s = FirstSync(strip, address)
      OBVIOUS
    <3>2. address \in Routes /\ address.c = current
      BY <1>1, <2>2 DEF PageIsShown
    <3>3. Sound(s) /\ OnDisplay(s, address)
      BY <1>1, <3>1, <3>2, OpenTabSound DEF FirstSync
    <3>4. ToShell(s, address, online)
      BY <1>18, <2>2, <3>1 DEF PageReload
    <3>5. \E z : Arrives(z)
      BY <3>2, <3>3, <3>4, ShellArrives
    <3>6. QED
      BY <1>1, <1>2, <2>1, <3>5
  <2>3. CASE ~InShell
    <3>1. ToHome(strip, current, online)
      BY <1>18, <2>3 DEF PageReload
    <3>2. \E z : Arrives(z)
      BY <1>1, <3>1, HomeArrives
    <3>3. QED
      BY <1>1, <1>2, <2>1, <3>2
  <2>4. QED
    BY <2>2, <2>3
<1>19. QED
  BY <1>4, <1>5, <1>6, <1>7, <1>8, <1>9, <1>10, <1>11, <1>12, <1>13, <1>14, <1>15, <1>16, <1>17, <1>18 DEF TabNext

LEMMA TabInitInv == TabInit => TabInv
<1> SUFFICES ASSUME TabInit PROVE TabInv
  OBVIOUS
<1>1. strip = CloseAll /\ address = Home /\ online = TabClusters /\ menu = NoTab
  BY DEF TabInit
<1>2. Sound(CloseAll) /\ Fits(CloseAll)
  BY CloseAllSound, PageAssumption DEF Fits
<1>3. QED
  BY <1>1, <1>2 DEF TabInv, PageIsShown, MenuIsHeld, InShell

\* The strip of tabs (stores/tabs.ts, TopTabs.tsx, useTabsRouterSync) shows what is
\* open and opens nothing unasked: in a cluster's shell the active tab is the page of
\* the address, whichever of the two a handler changed first; and a tab that was kept
\* stays where it is until it is closed.
THEOREM TabsStayFaithful == TabSpec => TabsAreFaithful
<1>1. TabInit => TabInv
  BY TabInitInv
<1>2. TabInv /\ [TabNext]_tabVars => TabInv'
  BY TabStep
<1>3. TabInv => TabShowsAddress
  <2> SUFFICES ASSUME TabInv, InShell
               PROVE  ActiveOf(strip).c = address.c /\ ActiveOf(strip).p = address.p
    BY DEF TabShowsAddress
  <2>1. PICK i \in 1..Len(strip.tabs) :
          strip.tabs[i].id = strip.active /\ strip.tabs[i].c = address.c /\ strip.tabs[i].p = address.p
    BY DEF TabInv, PageIsShown, OnDisplay
  <2>2. ActiveOf(strip) = strip.tabs[i]
    BY <2>1, ActiveTab DEF TabInv, Sound
  <2>3. QED
    BY <2>1, <2>2
<1> DEFINE Stays ==
             \A i \in DOMAIN strip.tabs : ~strip.tabs[i].preview =>
                \A j \in DOMAIN strip'.tabs : strip'.tabs[j].id = strip.tabs[i].id =>
                    /\ strip'.tabs[j].c = strip.tabs[i].c /\ strip'.tabs[j].p = strip.tabs[i].p
                    /\ ~strip'.tabs[j].preview
<1>4. TabInv /\ [TabNext]_tabVars => Stays
  <2> SUFFICES ASSUME TabInv, [TabNext]_tabVars PROVE Stays
    OBVIOUS
  <2>1. PICK z : Arrives(z)
    BY TabStep
  <2>2. strip' = z /\ z \in Stores /\ Keeps(z) /\ strip \in Stores
    BY <2>1 DEF Arrives, Sound, TabInv
  <2>3. DOMAIN z.tabs = 1..Len(z.tabs) /\ DOMAIN strip.tabs = 1..Len(strip.tabs)
    BY <2>2, TabsInPlace
  <2>4. QED
    BY <2>2, <2>3 DEF Keeps
<1>5. TabSpec => []TabShowsAddress
  BY <1>1, <1>2, <1>3, PTL DEF TabSpec
<1>6. TabSpec => [][Stays]_tabVars
  <2> HIDE DEF Stays
  <2>1. QED
    BY <1>1, <1>2, <1>4, PTL DEF TabSpec
<1>7. TabSpec => KeptTabsStay
  BY <1>6 DEF KeptTabsStay
<1>8. QED
  BY <1>5, <1>7 DEF TabsAreFaithful
=============================================================================
