----------------------------- MODULE ViewProofs -----------------------------
(***************************************************************************)
(* Proofs about what the pages show: the ring of lines behind one log      *)
(* stream shows an unbroken piece of the log (LogRing implements           *)
(* LogWindow), for any size of the ring and any length of the log; no      *)
(* stream of the pool that claims to be alive has been forgotten, for any  *)
(* sources and any number of sockets (LogStreams); only the user takes a   *)
(* container out of the pick (LogView); a chart never mixes the samples of *)
(* two objects (MetricCharts); the sections of an object's page tell one   *)
(* story of what belongs to it, and the true one (Ownership); and what is   *)
(* said of a pod is consistent and never too good (PodStatus).              *)
(***************************************************************************)
EXTENDS LogRing, LogStreams, LogView, MetricCharts, Ownership, PodStatus, SequenceTheorems,
        FiniteSetTheorems, WellFoundedInduction, TLAPS

-----------------------------------------------------------------------------
(* The lines of a log.  The memory of lines seen is the key: the ring, read     *)
(* from its head, is that memory cell by cell, so that a line not remembered is *)
(* not shown either; and as long as one connection feeds it the memory is an    *)
(* unbroken piece of the log up to the newest line, which the connection is     *)
(* never more than one line ahead of.                                           *)

CellOf(h, z, n, i) == IF z < n THEN i - 1 ELSE IF h + i <= n THEN h + i - 1 ELSE h + i - 1 - n
CellsHold ==
  /\ cap \in Caps /\ seen \in Seq(Lines) /\ Len(seen) = size /\ size <= cap
  /\ head \in 0..(cap - 1) /\ (size < cap => head = size)
  /\ DOMAIN buf = Cells
  /\ \A i \in 1..size : seen[i] = buf[CellOf(head, size, cap, i)]
RingHolds == CellsHold /\ tail \in Caps /\ written \in 0..MaxLine /\ conn \in [Conns -> Nat] /\ last \in Nat
OneEach(q) == \A i, j \in 1..Len(q) : q[i] = q[j] => i = j
UpTo(q, l) == \A i \in 1..Len(q) : q[i] = l - Len(q) + i
FedBehind(c) ==
  conn[c] # 0 => IF last = 0 THEN conn[c] <= written \/ conn[c] = 1
                 ELSE last - 1 <= conn[c] /\ conn[c] <= last + 1
FedByOne ==
  /\ \A c, d \in Conns : conn[c] # 0 /\ conn[d] # 0 => c = d
  /\ last \in 0..written
  /\ IF last = 0 THEN seen = <<>> ELSE seen # <<>> /\ UpTo(seen, last)
  /\ \A c \in Conns : FedBehind(c)
RingInv == RingHolds /\ OneEach(seen) /\ (plain => FedByOne)

\* What KeepLast returns
LEMMA KeepLastIs ==
  ASSUME NEW S, NEW q \in Seq(S), NEW n \in Nat, n >= 1
  PROVE  \E k \in Nat : /\ k = (IF Len(q) > n THEN Len(q) - n ELSE 0) /\ k <= Len(q)
                        /\ KeepLast(q, n) \in Seq(S) /\ Len(KeepLast(q, n)) = Len(q) - k
                        /\ \A i \in 1..(Len(q) - k) : KeepLast(q, n)[i] = q[k + i]
<1>1. Len(q) \in Nat
  OBVIOUS
<1>2. PICK k : k = (IF Len(q) > n THEN Len(q) - n ELSE 0)
  OBVIOUS
<1>3. k \in Nat /\ k <= Len(q)
  BY <1>1, <1>2
<1>4. PICK e : e = SubSeq(q, k + 1, Len(q))
  OBVIOUS
<1>5. KeepLast(q, n) = e
  <2>1. k + 1 = (IF Len(q) > n THEN Len(q) - n + 1 ELSE 1)
    BY <1>1, <1>2
  <2>2. QED
    BY <1>4, <2>1 DEF KeepLast
<1>6. \A i \in (k + 1)..Len(q) : q[i] \in S
  BY <1>1, <1>3
<1>7. /\ e \in Seq(S) /\ Len(e) = (IF k + 1 <= Len(q) THEN Len(q) - (k + 1) + 1 ELSE 0)
      /\ \A i \in 1..(Len(q) - (k + 1) + 1) : e[i] = q[(k + 1) + i - 1]
  BY <1>1, <1>3, <1>4, <1>6, SubSeqProperties
<1>8. Len(e) = Len(q) - k /\ \A i \in 1..(Len(q) - k) : e[i] = q[k + i]
  BY <1>1, <1>3, <1>7
<1>9. QED
  BY <1>2, <1>3, <1>5, <1>7, <1>8

\* The end of a piece of the log is a piece of the log.
LEMMA KeepsShape ==
  ASSUME NEW q \in Seq(Lines), NEW n \in Nat, n >= 1, NEW l \in Int
  PROVE  /\ KeepLast(q, n) \in Seq(Lines) /\ Len(KeepLast(q, n)) <= n
         /\ q # <<>> => KeepLast(q, n) # <<>>
         /\ q = <<>> => KeepLast(q, n) = <<>>
         /\ q # <<>> => KeepLast(q, n)[Len(KeepLast(q, n))] = q[Len(q)]
         /\ OneEach(q) => OneEach(KeepLast(q, n))
         /\ UpTo(q, l) => UpTo(KeepLast(q, n), l)
<1>1. PICK r, m : r = KeepLast(q, n) /\ m = Len(q)
  OBVIOUS
<1>2. PICK k \in Nat : /\ k = (IF m > n THEN m - n ELSE 0) /\ k <= m
                       /\ r \in Seq(Lines) /\ Len(r) = m - k
                       /\ \A i \in 1..(m - k) : r[i] = q[k + i]
  <2>1. \E k \in Nat : /\ k = (IF Len(q) > n THEN Len(q) - n ELSE 0) /\ k <= Len(q)
                       /\ KeepLast(q, n) \in Seq(Lines) /\ Len(KeepLast(q, n)) = Len(q) - k
                       /\ \A i \in 1..(Len(q) - k) : KeepLast(q, n)[i] = q[k + i]
    BY KeepLastIs
  <2>2. QED
    BY <1>1, <2>1
<1>3. m \in Nat /\ (q # <<>> => m >= 1) /\ (q = <<>> => m = 0)
  BY <1>1
<1>4. m - k \in Nat /\ m - k <= n /\ (m >= 1 => m - k >= 1) /\ (m = 0 => m - k = 0)
  BY <1>2, <1>3
<1>5. q # <<>> => r # <<>>
  BY <1>2, <1>3, <1>4
<1>6. q = <<>> => r = <<>>
  BY <1>2, <1>3, <1>4
<1>7. q # <<>> => r[Len(r)] = q[m]
  <2>1. m >= 1 => r[m - k] = q[k + (m - k)] /\ k + (m - k) = m
    BY <1>2, <1>3, <1>4
  <2>2. QED
    BY <1>2, <1>3, <2>1
<1>8. OneEach(q) => OneEach(r)
  <2> SUFFICES ASSUME OneEach(q), NEW i \in 1..(m - k), NEW j \in 1..(m - k), r[i] = r[j] PROVE i = j
    BY <1>2 DEF OneEach
  <2>1. q[k + i] = q[k + j] /\ k + i \in 1..m /\ k + j \in 1..m
    BY <1>2, <1>3, <1>4
  <2>2. k + i = k + j
    BY <1>1, <2>1 DEF OneEach
  <2>3. QED
    BY <1>4, <2>2
<1>9. UpTo(q, l) => UpTo(r, l)
  <2> SUFFICES ASSUME UpTo(q, l), NEW i \in 1..(m - k) PROVE r[i] = l - (m - k) + i
    BY <1>2 DEF UpTo
  <2>1. r[i] = q[k + i] /\ k + i \in 1..m
    BY <1>2, <1>3, <1>4
  <2>2. q[k + i] = l - m + (k + i)
    BY <1>1, <2>1 DEF UpTo
  <2>3. QED
    BY <1>3, <2>1, <2>2
<1>10. QED
  BY <1>1, <1>2, <1>4, <1>5, <1>6, <1>7, <1>8, <1>9

\* The ring read from its head is the memory of lines seen.
LEMMA ReadIsSeen == CellsHold => ReadBuf = seen
<1> SUFFICES ASSUME CellsHold PROVE ReadBuf = seen
  OBVIOUS
<1>1. /\ seen \in Seq(Lines) /\ Len(seen) = size /\ size <= cap /\ cap \in Nat /\ size \in Nat
      /\ \A i \in 1..size : seen[i] = buf[CellOf(head, size, cap, i)]
  BY RingAssumption DEF CellsHold, Caps
<1>2. seen = [i \in 1..size |-> seen[i]]
  BY <1>1
<1>3. CASE size < cap
  <2>1. \A i \in 1..size : seen[i] = buf[i - 1]
    BY <1>1, <1>3 DEF CellOf
  <2>2. ReadBuf = [i \in 1..size |-> buf[i - 1]]
    BY <1>3 DEF ReadBuf
  <2>3. QED
    BY <1>2, <2>1, <2>2
<1>4. CASE ~(size < cap)
  <2>1. size = cap
    BY <1>1, <1>4
  <2>2. \A i \in 1..size : seen[i] = buf[IF head + i <= cap THEN head + i - 1 ELSE head + i - 1 - cap]
    BY <1>1, <1>4 DEF CellOf
  <2>3. ReadBuf = [i \in 1..size |-> buf[IF head + i <= cap THEN head + i - 1 ELSE head + i - 1 - cap]]
    BY <1>4, <2>1 DEF ReadBuf
  <2>4. QED
    BY <1>2, <2>2, <2>3
<1>5. QED
  BY <1>3, <1>4

LEMMA SmallRemainder ==
  ASSUME NEW a \in Nat, NEW n \in Nat, n >= 1, a <= n
  PROVE  a % n = (IF a < n THEN a ELSE 0)
OBVIOUS

\* A ring laid out anew
LEMMA LaidHolds ==
  ASSUME NEW q \in Seq(Lines), NEW n \in Caps, Len(q) <= n, Laid(q, n), seen' = q
  PROVE  CellsHold'
<1>1. n \in Nat /\ 1 <= n /\ n <= HardCap /\ HardCap \in Nat /\ Len(q) \in Nat
  BY RingAssumption DEF Caps
<1>2. cap' = n /\ size' = Len(q) /\ head' = (IF Len(q) < n THEN Len(q) ELSE 0)
  BY <1>1, SmallRemainder DEF Laid
<1>3. buf' = [c \in Cells |-> IF c < Len(q) THEN q[c + 1] ELSE Blank]
  BY DEF Laid
<1>4. ASSUME NEW i \in 1..Len(q) PROVE q[i] = buf'[CellOf(head', size', cap', i)]
  <2>1. i - 1 \in Cells /\ i - 1 < Len(q) /\ (i - 1) + 1 = i
    BY <1>1 DEF Cells
  <2>2. CellOf(head', size', cap', i) = i - 1
    BY <1>1, <1>2 DEF CellOf
  <2>3. QED
    BY <1>3, <2>1, <2>2
<1>5. DOMAIN buf' = Cells
  BY <1>3
<1>6. head' \in 0..(cap' - 1) /\ (size' < cap' => head' = size')
  BY <1>1, <1>2
<1>7. QED
  BY <1>1, <1>2, <1>4, <1>5, <1>6 DEF CellsHold

\* A line that is not remembered
LEMMA PushHolds ==
  ASSUME CellsHold, NEW l \in Lines, l \notin Held(seen), PushLine(l)
  PROVE  CellsHold' /\ seen' = KeepLast(Append(seen, l), cap) /\ last' = l /\ cap' = cap
<1>1. PICK h, z, n, b, q : h = head /\ z = size /\ n = cap /\ b = buf /\ q = seen
  OBVIOUS
<1>2. /\ n \in Nat /\ 1 <= n /\ n <= HardCap /\ HardCap \in Nat /\ z \in Nat /\ z <= n
      /\ q \in Seq(Lines) /\ Len(q) = z /\ h \in Nat /\ h <= n - 1 /\ (z < n => h = z) /\ DOMAIN b = Cells
  BY <1>1, RingAssumption DEF CellsHold, Caps
<1>3. \A i \in 1..z : q[i] = b[CellOf(h, z, n, i)]
  BY <1>1 DEF CellsHold
<1>4. /\ buf' = [b EXCEPT ![h] = l] /\ size' = (IF z < n THEN z + 1 ELSE z) /\ cap' = n /\ last' = l
      /\ seen' = KeepLast(Append(q, l), n) /\ head' = (h + 1) % n
  BY <1>1 DEF PushLine
<1>5. head' = (IF h + 1 < n THEN h + 1 ELSE 0)
  <2>1. h + 1 \in Nat /\ h + 1 <= n
    BY <1>2
  <2>2. QED
    BY <1>2, <1>4, <2>1, SmallRemainder
<1>6. Append(q, l) \in Seq(Lines) /\ Len(Append(q, l)) = z + 1 /\ Append(q, l)[z + 1] = l
      /\ \A i \in 1..z : Append(q, l)[i] = q[i]
  BY <1>2, AppendProperties
<1>7. PICK a : a = Append(q, l)
  OBVIOUS
<1>8. PICK k \in Nat : /\ k = (IF z + 1 > n THEN z + 1 - n ELSE 0) /\ k <= z + 1
                       /\ seen' \in Seq(Lines) /\ Len(seen') = z + 1 - k
                       /\ \A i \in 1..(z + 1 - k) : seen'[i] = a[k + i]
  <2>1. \E k \in Nat : /\ k = (IF Len(a) > n THEN Len(a) - n ELSE 0) /\ k <= Len(a)
                       /\ KeepLast(a, n) \in Seq(Lines) /\ Len(KeepLast(a, n)) = Len(a) - k
                       /\ \A i \in 1..(Len(a) - k) : KeepLast(a, n)[i] = a[k + i]
    <3>1. a \in Seq(Lines) /\ n \in Nat /\ n >= 1
      BY <1>2, <1>6, <1>7
    <3>2. QED
      BY <3>1, KeepLastIs
  <2>2. seen' = KeepLast(a, n) /\ Len(a) = z + 1
    BY <1>4, <1>6, <1>7
  <2>3. PICK k \in Nat : /\ k = (IF Len(a) > n THEN Len(a) - n ELSE 0) /\ k <= Len(a)
                         /\ KeepLast(a, n) \in Seq(Lines) /\ Len(KeepLast(a, n)) = Len(a) - k
                         /\ \A i \in 1..(Len(a) - k) : KeepLast(a, n)[i] = a[k + i]
    BY <2>1
  <2>4. /\ k = (IF z + 1 > n THEN z + 1 - n ELSE 0) /\ k <= z + 1
        /\ seen' \in Seq(Lines) /\ Len(seen') = z + 1 - k
    BY <1>2, <2>2, <2>3
  <2>5. ASSUME NEW i \in 1..(z + 1 - k) PROVE seen'[i] = a[k + i]
    <3>1. z + 1 - k = Len(a) - k
      BY <1>2, <2>2
    <3>2. KeepLast(a, n)[i] = a[k + i]
      BY <2>3, <2>5, <3>1
    <3>3. QED
      BY <2>2, <3>2
  <2>6. QED
    BY <2>4, <2>5
<1>9. h \in Cells /\ buf'[h] = l /\ DOMAIN buf' = Cells
      /\ \A c \in Cells : c # h => buf'[c] = b[c]
  BY <1>2, <1>4 DEF Cells
<1>10. \A i \in 1..Len(seen') : seen'[i] = buf'[CellOf(head', size', cap', i)]
  <2>1. CASE z < n
    <3>1. k = 0 /\ size' = z + 1 /\ h = z
      BY <1>2, <1>4, <1>8, <2>1
    <3> SUFFICES ASSUME NEW i \in 1..(z + 1) PROVE a[i] = buf'[CellOf(head', size', cap', i)]
      BY <1>2, <1>8, <3>1
    <3>2. CellOf(head', size', cap', i) = i - 1
      <4>1. CASE z + 1 < n
        BY <1>4, <3>1, <4>1 DEF CellOf
      <4>2. CASE ~(z + 1 < n)
        <5>1. z + 1 = n /\ head' = 0
          BY <1>2, <1>5, <2>1, <3>1, <4>2
        <5>2. QED
          BY <1>2, <1>4, <3>1, <5>1 DEF CellOf
      <4>3. QED
        BY <4>1, <4>2
    <3>3. CASE i = z + 1
      BY <1>2, <1>6, <1>7, <1>9, <3>1, <3>2, <3>3
    <3>4. CASE i # z + 1
      <4>1. i \in 1..z /\ i - 1 \in Cells /\ i - 1 # h
        BY <1>2, <3>1, <3>4 DEF Cells
      <4>2. CellOf(h, z, n, i) = i - 1
        BY <2>1 DEF CellOf
      <4>3. a[i] = q[i] /\ q[i] = b[i - 1] /\ buf'[i - 1] = b[i - 1]
        BY <1>3, <1>6, <1>7, <1>9, <4>1, <4>2
      <4>4. QED
        BY <3>2, <4>3
    <3>5. QED
      BY <3>3, <3>4
  <2>2. CASE ~(z < n)
    <3>1. z = n /\ k = 1 /\ size' = n /\ z + 1 - k = n
      BY <1>2, <1>4, <1>8, <2>2
    <3> SUFFICES ASSUME NEW i \in 1..n PROVE a[1 + i] = buf'[CellOf(head', size', cap', i)]
      BY <1>8, <3>1
    <3>2. PICK c : c = CellOf(head', size', cap', i)
      OBVIOUS
    <3>3. c = (IF head' + i <= n THEN head' + i - 1 ELSE head' + i - 1 - n)
      BY <1>2, <1>4, <3>1, <3>2 DEF CellOf
    <3>4. CASE i = n
      <4>1. c = h
        BY <1>2, <1>5, <3>3, <3>4
      <4>2. QED
        BY <1>2, <1>6, <1>7, <1>9, <3>1, <3>2, <3>4, <4>1
    <3>5. CASE i # n
      <4>1. i + 1 \in 1..z /\ i < n
        BY <1>2, <3>1, <3>5
      <4>2. c \in Nat /\ c <= n - 1 /\ c # h
        BY <1>2, <1>5, <3>3, <4>1
      <4>3. c = CellOf(h, z, n, i + 1)
        BY <1>2, <1>5, <3>1, <3>3, <4>1 DEF CellOf
      <4>4. c \in Cells
        BY <1>2, <4>2 DEF Cells
      <4>5. a[1 + i] = q[i + 1] /\ q[i + 1] = b[c] /\ buf'[c] = b[c]
        BY <1>2, <1>3, <1>6, <1>7, <1>9, <4>1, <4>2, <4>3, <4>4
      <4>6. QED
        BY <3>2, <4>5
    <3>6. QED
      BY <3>4, <3>5
  <2>3. QED
    BY <2>1, <2>2
<1>11. size' = Len(seen') /\ size' <= cap'
  <2> PICK y, m, j : y = size' /\ m = cap' /\ j = Len(seen')
    OBVIOUS
  <2>1. z \in Nat /\ n \in Nat /\ z <= n /\ m = n /\ y = (IF z < n THEN z + 1 ELSE z)
    BY <1>2, <1>4
  <2>2. j = z + 1 - k /\ k = (IF z + 1 > n THEN z + 1 - n ELSE 0)
    BY <1>8
  <2>3. y = j /\ y <= m
    BY <2>1, <2>2
  <2>4. QED
    BY <2>3
<1>12. head' \in 0..(cap' - 1) /\ (size' < cap' => head' = size')
  BY <1>2, <1>4, <1>5
<1>13. cap' \in Caps
  BY <1>2, <1>4 DEF Caps
<1>14. QED
  BY <1>1, <1>4, <1>8, <1>9, <1>10, <1>11, <1>12, <1>13 DEF CellsHold

LEMMA NewLine ==
  ASSUME CellsHold, NEW l \in Lines, l \notin Held(seen), OneEach(seen)
  PROVE  /\ Append(seen, l) \in Seq(Lines) /\ OneEach(Append(seen, l)) /\ Append(seen, l) # <<>>
         /\ (seen = <<>> => UpTo(Append(seen, l), l))
         /\ (UpTo(seen, l - 1) => UpTo(Append(seen, l), l))
<1>1. PICK q, z, a : q = seen /\ z = Len(q) /\ a = Append(q, l)
  OBVIOUS
<1>2. q \in Seq(Lines) /\ z \in Nat
  BY <1>1 DEF CellsHold
<1>3. /\ a \in Seq(Lines) /\ Len(a) = z + 1 /\ a[z + 1] = l
      /\ \A i \in 1..z : a[i] = q[i]
  BY <1>1, <1>2, AppendProperties
<1>4. \A i \in 1..z : q[i] # l
  BY <1>1, <1>2 DEF Held
<1>5. OneEach(a)
  <2> SUFFICES ASSUME NEW i \in 1..(z + 1), NEW j \in 1..(z + 1), a[i] = a[j] PROVE i = j
    BY <1>3 DEF OneEach
  <2>1. CASE i = z + 1 \/ j = z + 1
    <3>1. i # z + 1 => i \in 1..z
      BY <1>2
    <3>2. j # z + 1 => j \in 1..z
      BY <1>2
    <3>3. QED
      BY <1>3, <1>4, <2>1, <3>1, <3>2
  <2>2. CASE i # z + 1 /\ j # z + 1
    <3>1. i \in 1..z /\ j \in 1..z
      BY <1>2, <2>2
    <3>2. q[i] = q[j]
      BY <1>3, <3>1
    <3>3. QED
      BY <1>1, <3>1, <3>2 DEF OneEach
  <2>3. QED
    BY <2>1, <2>2
<1>6. l \in Int
  BY RingAssumption DEF Lines
<1>7. seen = <<>> => UpTo(a, l)
  <2> SUFFICES ASSUME seen = <<>>, NEW i \in 1..(z + 1) PROVE a[i] = l - (z + 1) + i
    BY <1>3 DEF UpTo
  <2>1. z = 0 /\ i = 1
    BY <1>1
  <2>2. QED
    BY <1>3, <1>6, <2>1
<1>8. UpTo(seen, l - 1) => UpTo(a, l)
  <2> SUFFICES ASSUME UpTo(seen, l - 1), NEW i \in 1..(z + 1) PROVE a[i] = l - (z + 1) + i
    BY <1>3 DEF UpTo
  <2>1. CASE i = z + 1
    BY <1>2, <1>3, <1>6, <2>1
  <2>2. CASE i # z + 1
    <3>1. i \in 1..z
      BY <1>2, <2>2
    <3>2. q[i] = (l - 1) - z + i
      BY <1>1, <3>1 DEF UpTo
    <3>3. QED
      BY <1>2, <1>3, <1>6, <3>1, <3>2
  <2>3. QED
    BY <2>1, <2>2
<1>9. a # <<>>
  BY <1>2, <1>3
<1>10. QED
  BY <1>1, <1>3, <1>5, <1>7, <1>8, <1>9

LEMMA ArrivalInvariance ==
  ASSUME RingInv, NEW c \in Conns, LineArrives(c)
  PROVE  RingInv'
<1>1. PICK l : l = conn[c]
  OBVIOUS
<1>2. /\ CellsHold /\ OneEach(seen) /\ tail \in Caps /\ written \in 0..MaxLine /\ conn \in [Conns -> Nat]
  BY DEF RingInv, RingHolds
<1>3. /\ l \in 1..written /\ PushLine(l) /\ conn' = [conn EXCEPT ![c] = l + 1] /\ tail' = tail /\ written' = written
      /\ plain' => plain /\ (l >= last \/ l \in Held(seen) \/ size = cap)
  BY <1>1 DEF LineArrives
<1>4. l \in Lines /\ l \in Nat /\ l >= 1 /\ l <= written /\ written \in Nat
  BY <1>2, <1>3, RingAssumption DEF Lines
<1>5. tail' \in Caps /\ written' \in 0..MaxLine /\ conn' \in [Conns -> Nat]
  BY <1>2, <1>3, <1>4
<1>6. plain' => FedByOne
  BY <1>3 DEF RingInv
<1>7. ASSUME FedByOne PROVE \A d \in Conns : d # c => conn'[d] = 0
  BY <1>1, <1>2, <1>3, <1>4, <1>7 DEF FedByOne
<1>8. conn'[c] = l + 1
  BY <1>2, <1>3
<1>9. ASSUME FedByOne, last' \in 1..written, seen' # <<>>, UpTo(seen', last'), last' - 1 <= l + 1, l <= last'
      PROVE  FedByOne'
  <2>1. \A d \in Conns : FedBehind(d)'
    <3>1. FedBehind(c)'
      <4>1. PICK v, w : v = conn'[c] /\ w = last'
        OBVIOUS
      <4>2. v = l + 1 /\ w \in 1..written /\ w - 1 <= l + 1 /\ l <= w
        BY <1>8, <1>9, <4>1
      <4>3. w # 0 /\ w - 1 <= v /\ v <= w + 1
        BY <1>4, <4>2
      <4>4. QED
        BY <4>1, <4>3 DEF FedBehind
    <3>2. ASSUME NEW d \in Conns, d # c PROVE FedBehind(d)'
      BY <1>7, <1>9, <3>2 DEF FedBehind
    <3>3. QED
      BY <3>1, <3>2
  <2>2. \A d, e \in Conns : conn'[d] # 0 /\ conn'[e] # 0 => d = e
    BY <1>7, <1>9
  <2>3. last' \in 0..written' /\ last' # 0
    BY <1>3, <1>4, <1>9
  <2>4. QED
    BY <1>9, <2>1, <2>2, <2>3 DEF FedByOne
<1>10. FedByOne => (last = 0 \/ (l >= last - 1 /\ l <= last + 1)) /\ last \in 0..written
  BY <1>1, <1>4 DEF FedByOne, FedBehind
<1>11. CASE l \in Held(seen)
  <2>1. UNCHANGED cellVars
    BY <1>3, <1>11 DEF PushLine
  <2>2. CellsHold' /\ OneEach(seen)'
    BY <1>2, <2>1 DEF CellsHold, OneEach, cellVars
  <2>3. ASSUME FedByOne PROVE FedByOne'
    <3>1. PICK i \in 1..Len(seen) : seen[i] = l
      BY <1>2, <1>11 DEF Held, CellsHold
    <3>2. Len(seen) \in Nat
      BY <1>2 DEF CellsHold
    <3>3. last # 0 /\ UpTo(seen, last) /\ seen # <<>>
      BY <2>3, <3>1, <3>2 DEF FedByOne
    <3>4. l = last - Len(seen) + i
      BY <3>1, <3>3 DEF UpTo
    <3>5. last \in Nat /\ last <= written
      BY <1>4, <1>10, <2>3
    <3>6. l <= last
      BY <3>1, <3>2, <3>4, <3>5
    <3>7. last - 1 <= l + 1
      BY <1>4, <1>10, <2>3, <3>3, <3>5
    <3>8. last \in 1..written
      BY <1>4, <3>3, <3>5
    <3>9. seen' = seen /\ last' = last
      BY <2>1 DEF cellVars
    <3>10. QED
      BY <1>9, <2>3, <3>3, <3>6, <3>7, <3>8, <3>9
  <2>4. QED
    <3>1. last' \in Nat
      BY <2>1 DEF RingInv, RingHolds, cellVars
    <3>2. QED
      BY <1>5, <1>6, <2>2, <2>3, <3>1 DEF RingInv, RingHolds
<1>12. CASE l \notin Held(seen)
  <2>1. CellsHold' /\ seen' = KeepLast(Append(seen, l), cap) /\ last' = l /\ cap' = cap
    BY <1>2, <1>3, <1>4, <1>12, PushHolds
  <2>2. PICK a : a = Append(seen, l)
    OBVIOUS
  <2>3. /\ a \in Seq(Lines) /\ OneEach(a) /\ a # <<>>
        /\ (seen = <<>> => UpTo(a, l)) /\ (UpTo(seen, l - 1) => UpTo(a, l))
    BY <1>2, <1>4, <1>12, <2>2, NewLine
  <2>4. cap \in Nat /\ cap >= 1
    BY <1>2, RingAssumption DEF CellsHold, Caps
  <2>5. OneEach(seen') /\ seen' # <<>> /\ (UpTo(a, l) => UpTo(seen', l))
    <3>1. l \in Int
      BY <1>4
    <3>2. /\ OneEach(a) => OneEach(KeepLast(a, cap))
          /\ a # <<>> => KeepLast(a, cap) # <<>>
          /\ UpTo(a, l) => UpTo(KeepLast(a, cap), l)
      BY <2>3, <2>4, <3>1, KeepsShape
    <3>3. QED
      BY <2>1, <2>2, <2>3, <3>2
  <2>6. ASSUME FedByOne, plain' PROVE UpTo(seen', l)
    <3>1. CASE last = 0
      <4>1. seen = <<>>
        BY <2>6, <3>1 DEF FedByOne
      <4>2. QED
        BY <2>3, <2>5, <4>1
    <3>2. CASE last # 0
      <4>1. UpTo(seen, last) /\ seen # <<>> /\ last \in Nat
        BY <1>4, <1>10, <2>6, <3>2 DEF FedByOne
      <4>2. Len(seen) \in Nat /\ Len(seen) >= 1 /\ seen \in Seq(Lines) /\ Len(seen) = size /\ size <= cap
        BY <1>2, <4>1 DEF CellsHold
      <4>3. \A i \in 1..Len(seen) : seen[i] # l
        BY <1>12, <4>2 DEF Held
      <4>4. l # last
        <5>1. seen[Len(seen)] = last
          BY <4>1, <4>2 DEF UpTo
        <5>2. QED
          BY <4>2, <4>3, <5>1
      <4>5. CASE l = last + 1
        <5>1. l - 1 = last
          BY <4>1, <4>5
        <5>2. QED
          BY <2>3, <2>5, <4>1, <5>1
      <4>6. CASE l = last - 1
        <5>1. size = cap
          BY <1>3, <1>12, <2>6, <4>1, <4>6
        <5>2. Len(seen) = 1
          <6>1. CASE Len(seen) >= 2
            <7>1. Len(seen) - 1 \in 1..Len(seen)
              BY <4>2, <6>1
            <7>2. seen[Len(seen) - 1] = last - Len(seen) + (Len(seen) - 1)
              BY <4>1, <7>1 DEF UpTo
            <7>3. seen[Len(seen) - 1] = l
              BY <4>1, <4>2, <4>6, <7>2
            <7>4. QED
              BY <4>3, <7>1, <7>3
          <6>2. QED
            BY <4>2, <6>1
        <5>3. cap = 1 /\ Len(a) = 2 /\ a[Len(a)] = l
          <6>1. Len(Append(seen, l)) = Len(seen) + 1 /\ Append(seen, l)[Len(seen) + 1] = l
            BY <1>4, <4>2, AppendProperties
          <6>2. cap = 1
            BY <4>2, <5>1, <5>2
          <6>3. Len(a) = 2 /\ Len(a) = Len(seen) + 1
            BY <2>2, <5>2, <6>1
          <6>4. QED
            BY <2>2, <6>1, <6>2, <6>3
        <5>4. Len(seen') = 1
          <6>1. PICK m : m = Len(seen')
            OBVIOUS
          <6>2. m <= 1
            <7>1. Len(KeepLast(a, cap)) <= cap
              BY <2>3, <2>4, KeepsShape
            <7>2. QED
              BY <2>1, <2>2, <5>3, <6>1, <7>1
          <6>3. m \in Nat /\ m # 0
            <7>1. seen' \in Seq(Lines)
              BY <2>1 DEF CellsHold
            <7>2. QED
              BY <2>5, <6>1, <7>1
          <6>4. m = 1
            BY <6>2, <6>3
          <6>5. QED
            BY <6>1, <6>4
        <5>5. seen'[1] = l
          <6>1. KeepLast(a, cap)[Len(KeepLast(a, cap))] = a[Len(a)]
            BY <2>3, <2>4, KeepsShape
          <6>2. QED
            BY <2>1, <2>2, <5>3, <5>4, <6>1
        <5>6. QED
          BY <1>4, <5>4, <5>5 DEF UpTo
      <4>7. QED
        BY <1>4, <1>10, <2>6, <3>2, <4>1, <4>4, <4>5, <4>6
    <3>3. QED
      BY <3>1, <3>2
  <2>7. ASSUME FedByOne, plain' PROVE FedByOne'
    BY <1>4, <1>9, <2>1, <2>5, <2>6, <2>7
  <2>8. QED
    BY <1>4, <1>5, <1>6, <2>1, <2>5, <2>7 DEF RingInv, RingHolds
<1>13. QED
  BY <1>11, <1>12

\* The ring begins anew, and connection c, if any, with the line it asked for.
LEMMA AnewInvariance ==
  ASSUME RingHolds, NEW n \in Caps, Laid(<<>>, n), seen' = <<>>, last' = 0,
         tail' \in Caps, written' = written, conn' \in [Conns -> Nat],
         plain' => /\ \A c, d \in Conns : conn'[c] # 0 /\ conn'[d] # 0 => c = d
                   /\ \A c \in Conns : conn'[c] # 0 => conn'[c] <= written \/ conn'[c] = 1
  PROVE  RingInv'
<1>1. CellsHold'
  <2>1. <<>> \in Seq(Lines) /\ Len(<<>>) = 0 /\ 0 <= n
    BY RingAssumption DEF Caps
  <2>2. QED
    BY <2>1, LaidHolds
<1>2. OneEach(seen')
  BY DEF OneEach
<1>3. written \in 0..MaxLine
  BY DEF RingHolds
<1>4. ASSUME plain' PROVE FedByOne'
  <2>1. \A c \in Conns : FedBehind(c)'
    BY <1>4 DEF FedBehind
  <2>2. last' \in 0..written'
    BY <1>3, RingAssumption
  <2>3. QED
    BY <1>4, <2>1, <2>2 DEF FedByOne
<1>5. QED
  BY <1>1, <1>2, <1>3, <1>4 DEF RingInv, RingHolds

\* The ring keeps the end of what it holds.
LEMMA KeptInvariance ==
  ASSUME RingInv, NEW n \in Caps, NEW m \in Caps, m <= n, Laid(KeepLast(seen, m), n), seen' = KeepLast(seen, m),
         last' = last \/ last' = (IF seen' = <<>> THEN 0 ELSE seen'[Len(seen')]),
         tail' \in Caps, written' = written,
         conn' = conn \/ conn' = [c \in Conns |-> 0], plain' = plain
  PROVE  RingInv'
<1>1. /\ CellsHold /\ OneEach(seen) /\ (plain => FedByOne)
      /\ seen \in Seq(Lines) /\ conn \in [Conns -> Nat] /\ written \in 0..MaxLine
  BY DEF RingInv, RingHolds, CellsHold
<1>2. m \in Nat /\ m >= 1 /\ n \in Nat
  BY RingAssumption DEF Caps
<1>3. /\ seen' \in Seq(Lines) /\ Len(seen') <= m /\ OneEach(seen')
      /\ (seen # <<>> => seen' # <<>> /\ seen'[Len(seen')] = seen[Len(seen)])
      /\ (seen = <<>> => seen' = <<>>)
  <2>1. 0 \in Int
    OBVIOUS
  <2>2. QED
    BY <1>1, <1>2, <2>1, KeepsShape
<1>4. CellsHold'
  <2>1. KeepLast(seen, m) \in Seq(Lines) /\ Len(KeepLast(seen, m)) <= n
    <3>1. Len(seen') \in Nat
      BY <1>3
    <3>2. Len(seen') <= n
      BY <1>2, <1>3, <3>1
    <3>3. QED
      BY <1>3, <3>2
  <2>2. QED
    BY <2>1, LaidHolds
<1>5. conn' \in [Conns -> Nat]
  BY <1>1
<1>6. ASSUME FedByOne PROVE FedByOne'
  <2>1. last \in Int /\ last \in 0..written
    BY <1>6 DEF FedByOne
  <2>2. UpTo(seen, last) => UpTo(seen', last)
    BY <1>1, <1>2, <2>1, KeepsShape
  <2>3. last' = last /\ (IF last = 0 THEN seen' = <<>> ELSE seen' # <<>> /\ UpTo(seen', last))
    <3>1. CASE last = 0
      BY <1>3, <1>6, <3>1 DEF FedByOne
    <3>2. CASE last # 0
      <4>1. seen # <<>> /\ UpTo(seen, last)
        BY <1>6, <3>2 DEF FedByOne
      <4>2. Len(seen) \in Nat /\ Len(seen) >= 1
        BY <1>1, <4>1
      <4>3. seen[Len(seen)] = last
        BY <2>1, <4>1, <4>2 DEF UpTo
      <4>4. QED
        BY <1>3, <2>2, <3>2, <4>1, <4>3
    <3>3. QED
      BY <3>1, <3>2
  <2>4. \A c \in Conns : conn'[c] = conn[c] \/ conn'[c] = 0
    BY <1>1
  <2>5. \A c \in Conns : FedBehind(c)'
    BY <1>6, <2>3, <2>4 DEF FedByOne, FedBehind
  <2>6. \A c, d \in Conns : conn'[c] # 0 /\ conn'[d] # 0 => c = d
    BY <1>6, <2>4 DEF FedByOne
  <2>7. QED
    BY <2>1, <2>3, <2>5, <2>6 DEF FedByOne
<1>7. last' \in Nat
  <2>1. seen' # <<>> => seen'[Len(seen')] \in Lines
    <3>1. seen' # <<>> => Len(seen') \in 1..Len(seen')
      BY <1>3
    <3>2. QED
      BY <1>3, <3>1
  <2>2. last \in Nat /\ Lines \subseteq Nat
    BY RingAssumption DEF RingInv, RingHolds, Lines
  <2>3. \/ last' = last \/ last' = 0
        \/ seen' # <<>> /\ last' = seen'[Len(seen')]
    BY Zenon
  <2>4. CASE last' = last
    BY <2>2, <2>4
  <2>5. CASE last' = 0
    BY <2>5
  <2>6. CASE seen' # <<>> /\ last' = seen'[Len(seen')]
    BY <2>1, <2>2, <2>6, Zenon
  <2>7. QED
    BY <2>3, <2>4, <2>5, <2>6, Zenon
<1>8. QED
  BY <1>1, <1>3, <1>4, <1>5, <1>6, <1>7 DEF RingInv, RingHolds

LEMMA RingStep == RingInv /\ [RingNext]_ringVars => RingInv'
<1> SUFFICES ASSUME RingInv, [RingNext]_ringVars PROVE RingInv'
  OBVIOUS
<1>1. /\ CellsHold /\ RingHolds /\ OneEach(seen) /\ (plain => FedByOne) /\ ReadBuf = seen
      /\ tail \in Caps /\ written \in 0..MaxLine /\ conn \in [Conns -> Nat] /\ cap \in Caps
  BY ReadIsSeen DEF RingInv, RingHolds, CellsHold
<1>2. MaxLine \in Nat /\ written \in Nat
  BY <1>1, RingAssumption
<1>3. CASE UNCHANGED cellVars /\ UNCHANGED tail /\ written' \in 0..MaxLine /\ conn' \in [Conns -> Nat]
           /\ (plain' => FedByOne')
  BY <1>1, <1>3 DEF cellVars, CellsHold, RingHolds, OneEach, RingInv
<1>4. CASE WriteLine
  <2>1. written' = written + 1 /\ written' \in 0..MaxLine /\ UNCHANGED <<cellVars, tail, conn, plain>>
    BY <1>1, <1>2, <1>4 DEF WriteLine
  <2>2. ASSUME FedByOne PROVE FedByOne'
    <3>1. last \in 0..written'
      BY <1>2, <2>1, <2>2 DEF FedByOne
    <3>2. \A c \in Conns : FedBehind(c)'
      BY <1>1, <1>2, <2>1, <2>2 DEF FedByOne, FedBehind, cellVars
    <3>3. QED
      BY <2>1, <2>2, <3>1, <3>2 DEF FedByOne, UpTo, cellVars
  <2>3. QED
    BY <1>1, <1>3, <2>1, <2>2
<1>5. CASE ClearRing
  BY <1>1, <1>5, AnewInvariance DEF ClearRing
<1>6. CASE ReloadRing
  <2>1. PICK m : m = Smaller(MaxSaved, tail)
    OBVIOUS
  <2>2. m \in Caps /\ m <= tail
    BY <1>1, <2>1, RingAssumption DEF Smaller, Caps
  <2>3. /\ Laid(KeepLast(seen, m), tail) /\ seen' = KeepLast(seen, m)
        /\ last' = (IF seen' = <<>> THEN 0 ELSE seen'[Len(seen')])
        /\ conn' = [c \in Conns |-> 0] /\ UNCHANGED <<tail, written, plain>>
    BY <1>1, <1>6, <2>1 DEF ReloadRing
  <2>4. QED
    BY <1>1, <2>2, <2>3, KeptInvariance
<1>7. ASSUME NEW c \in Conns, RingConnect(c) PROVE RingInv'
  <2>1. PICK at \in FirstSent(last, tail) : conn' = [conn EXCEPT ![c] = at]
    BY <1>7 DEF RingConnect
  <2>2. /\ UNCHANGED <<cellVars, tail, written>>
        /\ plain' => plain /\ \A d \in Conns : d # c => conn[d] = 0
    BY <1>7 DEF RingConnect, Alone
  <2>3. /\ at \in Nat
        /\ IF last = 0 THEN at <= written \/ at = 1 ELSE last - 1 <= at /\ at <= last + 1
    <3>1. last \in Nat /\ tail \in Nat /\ tail >= 1
      BY <1>1, RingAssumption DEF RingHolds, Caps
    <3>2. CASE last > 0
      <4>1. at \in {last, IF last > 1 THEN last - 1 ELSE 1}
        BY <2>1, <3>2 DEF FirstSent
      <4>2. QED
        BY <3>1, <3>2, <4>1
    <3>3. CASE ~(last > 0)
      <4>1. at = (IF written > tail THEN written - tail + 1 ELSE 1)
        BY <2>1, <3>3 DEF FirstSent
      <4>2. QED
        BY <1>2, <3>1, <3>3, <4>1
    <3>4. QED
      BY <3>2, <3>3
  <2>4. conn' \in [Conns -> Nat] /\ conn'[c] = at /\ \A d \in Conns : d # c => conn'[d] = conn[d]
    BY <1>1, <2>1, <2>3
  <2>5. ASSUME FedByOne, \A d \in Conns : d # c => conn[d] = 0 PROVE FedByOne'
    <3>1. FedBehind(c)'
      <4>1. last' = last /\ written' = written
        BY <2>2 DEF cellVars
      <4>2. QED
        BY <2>3, <2>4, <4>1 DEF FedBehind
    <3>2. \A d \in Conns : d # c => conn'[d] = 0
      BY <2>4, <2>5
    <3>3. \A d \in Conns : FedBehind(d)'
      BY <3>1, <3>2 DEF FedBehind
    <3>4. QED
      BY <2>2, <2>5, <3>2, <3>3 DEF FedByOne, UpTo, cellVars
  <2>6. QED
    BY <1>1, <1>3, <2>2, <2>4, <2>5
<1>9. ASSUME NEW c \in Conns, Drop(c) PROVE RingInv'
  <2>1. conn' = [conn EXCEPT ![c] = 0] /\ UNCHANGED <<cellVars, tail, written, plain>>
    BY <1>9 DEF Drop
  <2>2. conn' \in [Conns -> Nat] /\ \A d \in Conns : conn'[d] = conn[d] \/ conn'[d] = 0
    BY <1>1, <2>1
  <2>3. ASSUME FedByOne PROVE FedByOne'
    <3>1. \A d \in Conns : FedBehind(d)'
      BY <2>1, <2>2, <2>3 DEF FedByOne, FedBehind, cellVars
    <3>2. QED
      BY <2>1, <2>2, <2>3, <3>1 DEF FedByOne, UpTo, cellVars
  <2>4. QED
    BY <1>1, <1>3, <2>1, <2>2, <2>3
<1>10. ASSUME NEW n \in Caps, Trim(n) PROVE RingInv'
  <2>1. n <= n
    BY RingAssumption DEF Caps
  <2>2. QED
    BY <1>1, <1>10, <2>1, KeptInvariance DEF Trim
<1>11. ASSUME NEW c \in Conns, NEW n \in Caps, NEW t \in Caps, RingRefetch(c, n, t) PROVE RingInv'
  <2>1. PICK at \in FirstSent(0, t) : conn' = [conn EXCEPT ![c] = at]
    BY <1>11 DEF RingRefetch
  <2>2. at \in Nat /\ (at <= written \/ at = 1)
    BY <1>2, <2>1, RingAssumption DEF FirstSent, Caps
  <2>3. conn' \in [Conns -> Nat] /\ conn'[c] = at /\ \A d \in Conns : d # c => conn'[d] = conn[d]
    BY <1>1, <2>1, <2>2
  <2>4. plain' => \A d \in Conns : d # c => conn'[d] = 0
    BY <1>11, <2>3 DEF RingRefetch, Alone
  <2>5. /\ Laid(<<>>, n) /\ seen' = <<>> /\ last' = 0 /\ tail' \in Caps /\ written' = written
    BY <1>11 DEF RingRefetch
  <2>6. plain' => /\ \A b, d \in Conns : conn'[b] # 0 /\ conn'[d] # 0 => b = d
                  /\ \A d \in Conns : conn'[d] # 0 => conn'[d] <= written \/ conn'[d] = 1
    BY <2>2, <2>3, <2>4
  <2>7. QED
    BY <1>1, <2>3, <2>5, <2>6, AnewInvariance
<1>12. CASE UNCHANGED ringVars
  <2>1. UNCHANGED <<cellVars, tail, written, conn, plain>>
    BY <1>12 DEF ringVars
  <2>2. FedByOne => FedByOne'
    BY <2>1 DEF FedByOne, FedBehind, UpTo, cellVars
  <2>3. QED
    BY <1>1, <1>3, <2>1, <2>2
<1>13. QED
  BY <1>4, <1>5, <1>6, <1>7, <1>9, <1>10, <1>11, <1>12, ArrivalInvariance DEF RingNext

LEMMA ReadIsSeenNext == (CellsHold => ReadBuf = seen)'
BY ReadIsSeen, PTL

LEMMA RingStepMaps ==
  RingInv /\ RingInv' /\ [RingNext]_ringVars => [Window!WindowNext]_(Window!windowVars)
<1> SUFFICES ASSUME RingInv, RingInv', [RingNext]_ringVars
             PROVE  Window!WindowNext \/ (seen' = seen /\ cap' = cap)
  BY ReadIsSeen, ReadIsSeenNext DEF Window!windowVars, RingInv, RingHolds
<1>1. /\ CellsHold /\ ReadBuf = seen /\ ReadBuf' = seen' /\ cap \in Caps /\ tail \in Caps
      /\ written \in 0..MaxLine /\ seen \in Seq(Lines)
  BY ReadIsSeen, ReadIsSeenNext DEF RingInv, RingHolds, CellsHold
<1>2. \A q, n : Window!KeepLast(q, n) = KeepLast(q, n)
  BY DEF Window!KeepLast, KeepLast
<1>3. CASE WriteLine \/ UNCHANGED ringVars \/ \E c \in Conns : RingConnect(c) \/ Drop(c)
  BY <1>3 DEF WriteLine, ringVars, RingConnect, Drop, cellVars
<1>4. CASE ClearRing
  <2>1. cap' = cap /\ seen' = <<>>
    BY <1>4 DEF ClearRing, Laid
  <2>2. Window!Restart(cap)
    BY <1>1, <2>1 DEF Window!Restart
  <2>3. QED
    BY <1>1, <2>2 DEF Window!WindowNext, Caps
<1>5. CASE ReloadRing
  <2>1. PICK m : m = Smaller(MaxSaved, tail)
    OBVIOUS
  <2>2. m \in Caps /\ m <= tail
    BY <1>1, <2>1, RingAssumption DEF Smaller, Caps
  <2>3. cap' = tail /\ seen' = KeepLast(seen, m)
    BY <1>1, <1>5, <2>1 DEF ReloadRing, Laid
  <2>4. Window!Resize(tail, m)
    BY <1>1, <1>2, <2>2, <2>3 DEF Window!Resize
  <2>5. QED
    BY <1>1, <2>2, <2>4 DEF Window!WindowNext, Caps
<1>6. ASSUME NEW c \in Conns, LineArrives(c) PROVE Window!WindowNext \/ (seen' = seen /\ cap' = cap)
  <2>1. PICK l : l = conn[c]
    OBVIOUS
  <2>2. l \in Lines /\ PushLine(l)
    BY <1>1, <1>6, <2>1, RingAssumption DEF LineArrives, Lines
  <2>3. CASE l \in Held(seen)
    BY <2>2, <2>3 DEF PushLine, cellVars
  <2>4. CASE l \notin Held(seen)
    <3>1. seen' = KeepLast(Append(seen, l), cap) /\ cap' = cap
      BY <2>2, <2>4 DEF PushLine
    <3>2. Window!Accept(l)
      BY <1>1, <1>2, <3>1 DEF Window!Accept
    <3>3. QED
      BY <2>2, <3>2 DEF Window!WindowNext
  <2>5. QED
    BY <2>3, <2>4
<1>7. ASSUME NEW n \in Caps, Trim(n) PROVE Window!WindowNext
  <2>1. cap' = n /\ seen' = KeepLast(seen, n) /\ n <= n
    BY <1>1, <1>7, RingAssumption DEF Trim, Laid, Caps
  <2>2. Window!Resize(n, n)
    BY <1>1, <1>2, <2>1 DEF Window!Resize
  <2>3. QED
    BY <2>2 DEF Window!WindowNext, Caps
<1>8. ASSUME NEW c \in Conns, NEW n \in Caps, NEW t \in Caps, RingRefetch(c, n, t) PROVE Window!WindowNext
  <2>1. cap' = n /\ seen' = <<>>
    BY <1>8 DEF RingRefetch, Laid
  <2>2. Window!Restart(n)
    BY <1>1, <2>1 DEF Window!Restart
  <2>3. QED
    BY <2>2 DEF Window!WindowNext, Caps
<1>9. QED
  BY <1>3, <1>4, <1>5, <1>6, <1>7, <1>8 DEF RingNext

LEMMA RingInitHolds == RingInit => RingInv /\ Window!WindowInit
<1> SUFFICES ASSUME RingInit PROVE RingInv /\ Window!WindowInit
  OBVIOUS
<1>1. /\ size = 0 /\ head = 0 /\ cap \in Caps /\ cap \in Nat /\ cap >= 1 /\ seen = <<>> /\ last = 0 /\ tail = cap
      /\ written \in 0..MaxLine /\ conn = [c \in Conns |-> 0] /\ DOMAIN buf = Cells
  BY RingAssumption DEF RingInit, Caps
<1>2. CellsHold
  BY <1>1 DEF CellsHold
<1>3. FedByOne
  BY <1>1, RingAssumption DEF FedByOne, FedBehind
<1>4. RingInv
  BY <1>1, <1>2, <1>3 DEF RingInv, RingHolds, OneEach
<1>5. ReadBuf = <<>>
  BY <1>1, <1>2, ReadIsSeen
<1>6. QED
  BY <1>1, <1>4, <1>5 DEF Window!WindowInit, Caps

LEMMA RingInvGives == RingInv => NoLineTwice /\ RingIsTail
<1> SUFFICES ASSUME RingInv PROVE NoLineTwice /\ RingIsTail
  OBVIOUS
<1>1. /\ ReadBuf = seen /\ seen \in Seq(Lines) /\ OneEach(seen) /\ (plain => FedByOne)
      /\ written \in Nat /\ conn \in [Conns -> Nat]
  BY ReadIsSeen DEF RingInv, RingHolds, CellsHold
<1>2. DOMAIN seen = 1..Len(seen) /\ Len(seen) \in Nat
  BY <1>1
<1>3. NoLineTwice
  BY <1>1, <1>2 DEF NoLineTwice, OneEach
<1>4. ASSUME plain, NEW c \in Conns, conn[c] > written
      PROVE  /\ seen = <<>> <=> written = 0
             /\ \A i \in DOMAIN seen : seen[i] = written - Len(seen) + i
  <2>1. FedByOne /\ conn[c] # 0 /\ conn[c] \in Nat
    BY <1>1, <1>4
  <2>2. FedBehind(c) /\ last \in 0..written /\ (IF last = 0 THEN seen = <<>> ELSE seen # <<>> /\ UpTo(seen, last))
    BY <2>1 DEF FedByOne
  <2>3. last = written
    BY <1>1, <1>4, <2>1, <2>2 DEF FedBehind
  <2>4. QED
    BY <1>1, <1>2, <2>2, <2>3 DEF UpTo
<1>5. QED
  BY <1>1, <1>3, <1>4 DEF RingIsTail

(* The ring of a log stream is the window of the last lines it was given,       *)
(* holds no line twice, and, fed by one connection, is the end of the log.      *)
THEOREM LogsAreFaithful == RingSpec => RingIsFaithful
<1>1. RingInit => RingInv /\ Window!WindowInit
  BY RingInitHolds
<1>2. RingInv => NoLineTwice /\ RingIsTail
  BY RingInvGives
<1>3. RingInv /\ RingInv' /\ [RingNext]_ringVars => [Window!WindowNext]_(Window!windowVars)
  BY RingStepMaps
<1>4. QED
  BY <1>1, <1>2, <1>3, RingStep, PTL DEF RingSpec, RingIsFaithful, RingIsWindow, Window!WindowSpec

-----------------------------------------------------------------------------
(* The log streams.  A stream that claims to be alive has a socket, a timer, or *)
(* an armed timer it has lost the handle of; or it came back from a reload and  *)
(* nobody watches it yet.  The socket a stream names is one of its own, and a   *)
(* socket, closing ones included, is that of a stream in the pool.              *)

StreamFields == {"st", "ws", "timer", "holds", "opened", "data", "transient", "fresh", "empty"}
IsStream(s) == DOMAIN s = StreamFields
IsSocket(w) == DOMAIN w = {"ph", "of", "says"}
HasSocket(socks, k) == \E i \in Sockets : socks[i] # NoSocket /\ socks[i].of = k
Busy(s, socks, l, k) == s.timer \/ l[k] > 0 \/ HasSocket(socks, k)
SocketsAreOwned(s, socks) ==
  /\ \A i \in Sockets : socks[i] # NoSocket =>
       IsSocket(socks[i]) /\ socks[i].of \in Sources /\ IsStream(s[socks[i].of])
  /\ \A k \in Sources : IsStream(s[k]) /\ s[k].ws # 0 =>
       s[k].ws \in Sockets /\ socks[s[k].ws] # NoSocket /\ socks[s[k].ws].of = k
AliveIsBusy(s, socks, l, W) ==
  \A k \in Sources : IsStream(s[k]) /\ s[k].st \in LiveStates =>
     Busy(s[k], socks, l, k) \/ (k \notin W /\ s[k].ws = 0 /\ s[k].st = "reconnecting")
StreamsHold(s, socks, l, W) ==
  /\ DOMAIN s = Sources /\ DOMAIN socks = Sockets /\ l \in [Sources -> Nat] /\ W \subseteq Sources
  /\ \A k \in Sources : s[k] = None \/ IsStream(s[k])
  /\ \A k \in W : IsStream(s[k])
  /\ SocketsAreOwned(s, socks) /\ AliveIsBusy(s, socks, l, W)
LogsInv ==
  /\ StreamsHold(stream, socket, loose, watched)
  /\ sel # NoSource => sel \in watched

\* The sockets socks1 are the sockets socks but for some of stream k's.
OnlyOf(k, socks, socks1) ==
  /\ DOMAIN socks1 = Sockets
  /\ \A i \in Sockets : socks1[i] # NoSocket => (IsSocket(socks1[i]) /\ socks1[i].of = k) \/ socks1[i] = socks[i]
  /\ \A i \in Sockets : socks[i] # NoSocket /\ socks[i].of # k => socks1[i] = socks[i]
SameElsewhere(k, l, l2) == l2 \in [Sources -> Nat] /\ \A x \in Sources : x # k => l2[x] = l[x]
Connects(s, socks, k, r, t, d) ==
  /\ Free(socks) # {}
  /\ t = [s EXCEPT ![k] = Connected(r, Lowest(Free(socks)))]
  /\ d = Dialled(socks, k)

OneStream(k, s, t) == DOMAIN t = Sources /\ IsStream(t[k]) /\ \A x \in Sources : x # k => t[x] = s[x]
HasItsSocket(k, s, socks) == s[k].ws # 0 => s[k].ws \in Sockets /\ socks[s[k].ws] # NoSocket /\ socks[s[k].ws].of = k
BusyIfAlive(k, s, socks, l) == s[k].st \in LiveStates => Busy(s[k], socks, l, k)

LEMMA NotNone == ASSUME NEW s, IsStream(s) PROVE s # None
BY DEF IsStream, StreamFields, None

\* A stream and its socket in the next state: only stream k is another one, only
\* slot i of the sockets.
LEMMA OneStreamChanges ==
  ASSUME NEW s, NEW socks, NEW l, NEW W, StreamsHold(s, socks, l, W),
         NEW t, NEW socks2, NEW l2, NEW k \in Sources,
         OneStream(k, s, t), OnlyOf(k, socks, socks2), SameElsewhere(k, l, l2),
         HasItsSocket(k, t, socks2), BusyIfAlive(k, t, socks2, l2)
  PROVE  StreamsHold(t, socks2, l2, W)
<1>0. /\ DOMAIN t = Sources /\ IsStream(t[k]) /\ \A x \in Sources : x # k => t[x] = s[x] /\ l2[x] = l[x]
      /\ DOMAIN socks2 = Sockets /\ l2 \in [Sources -> Nat]
      /\ \A i \in Sockets : socks2[i] # NoSocket => (IsSocket(socks2[i]) /\ socks2[i].of = k) \/ socks2[i] = socks[i]
      /\ \A i \in Sockets : socks[i] # NoSocket /\ socks[i].of # k => socks2[i] = socks[i]
      /\ t[k].ws # 0 => t[k].ws \in Sockets /\ socks2[t[k].ws] # NoSocket /\ socks2[t[k].ws].of = k
      /\ t[k].st \in LiveStates => Busy(t[k], socks2, l2, k)
  BY DEF OneStream, OnlyOf, SameElsewhere, HasItsSocket, BusyIfAlive
<1>1. \A x \in Sources : x # k /\ IsStream(t[x]) => IsStream(s[x]) /\ t[x] = s[x]
  BY <1>0
<1>2. \A x \in Sources : x # k /\ HasSocket(socks, x) => HasSocket(socks2, x)
  BY <1>0 DEF HasSocket
<1>3. \A i \in Sockets : socks2[i] # NoSocket =>
         IsSocket(socks2[i]) /\ socks2[i].of \in Sources /\ IsStream(t[socks2[i].of])
  <2> SUFFICES ASSUME NEW i \in Sockets, socks2[i] # NoSocket
               PROVE  IsSocket(socks2[i]) /\ socks2[i].of \in Sources /\ IsStream(t[socks2[i].of])
    OBVIOUS
  <2>0. socks2[i] = socks[i] => IsSocket(socks2[i])
    BY DEF StreamsHold, SocketsAreOwned
  <2>1. CASE socks2[i].of = k
    BY <1>0, <2>0, <2>1
  <2>2. CASE socks2[i].of # k
    <3>1. socks2[i] = socks[i]
      BY <1>0, <2>2
    <3>2. socks[i].of \in Sources /\ IsStream(s[socks[i].of])
      BY <1>0, <3>1 DEF StreamsHold, SocketsAreOwned
    <3>3. QED
      BY <1>0, <2>0, <2>2, <3>1, <3>2
  <2>3. QED
    BY <2>1, <2>2
<1>4. \A x \in Sources : IsStream(t[x]) /\ t[x].ws # 0 =>
         t[x].ws \in Sockets /\ socks2[t[x].ws] # NoSocket /\ socks2[t[x].ws].of = x
  <2> SUFFICES ASSUME NEW x \in Sources, x # k, IsStream(t[x]), t[x].ws # 0
               PROVE  t[x].ws \in Sockets /\ socks2[t[x].ws] # NoSocket /\ socks2[t[x].ws].of = x
    BY <1>0
  <2>1. t[x] = s[x]
    BY <1>0
  <2>2. s[x].ws \in Sockets /\ socks[s[x].ws] # NoSocket /\ socks[s[x].ws].of = x
    BY <2>1 DEF StreamsHold, SocketsAreOwned
  <2>3. QED
    BY <1>0, <2>1, <2>2
<1>5. ASSUME NEW x \in Sources, IsStream(t[x]), t[x].st \in LiveStates
      PROVE  Busy(t[x], socks2, l2, x) \/ (x \notin W /\ t[x].ws = 0 /\ t[x].st = "reconnecting")
  <2>1. CASE x = k
    BY <1>0, <1>5, <2>1
  <2>2. CASE x # k
    <3>1. t[x] = s[x] /\ l2[x] = l[x] /\ IsStream(s[x])
      BY <1>0, <1>5, <2>2
    <3>2. Busy(s[x], socks, l, x) \/ (x \notin W /\ s[x].ws = 0 /\ s[x].st = "reconnecting")
      BY <1>5, <3>1 DEF StreamsHold, AliveIsBusy
    <3>3. QED
      BY <1>2, <2>2, <3>1, <3>2 DEF Busy
  <2>3. QED
    BY <2>1, <2>2
<1>6. \A x \in Sources : t[x] = None \/ IsStream(t[x])
  BY <1>0 DEF StreamsHold
<1>7. W \subseteq Sources /\ \A x \in W : IsStream(t[x])
  BY <1>0 DEF StreamsHold
<1>8. QED
  BY <1>0, <1>3, <1>4, <1>5, <1>6, <1>7 DEF StreamsHold, SocketsAreOwned, AliveIsBusy

LEMMA LeastSlot ==
  ASSUME NEW T \in SUBSET Nat, T # {}
  PROVE  Lowest(T) \in T
<1> DEFINE R == OpToRel(<, Nat)
<1>1. IsWellFoundedOn(R, Nat)
  BY NatLessThanWellFounded
<1>2. PICK m \in T : \A j \in T : <<j, m>> \notin R
  <2> HIDE DEF R
  <2>1. QED
    BY <1>1, WFMin
<1>3. \A j \in T : ~(j < m)
  BY <1>2 DEF OpToRel
<1>4. \E i \in T : \A j \in T : i <= j
  BY <1>3
<1>5. QED
  BY <1>4 DEF Lowest

\* Any call of connect for a stream in the pool, whichever of its sockets is closing
LEMMA ConnectHolds ==
  ASSUME NEW s, NEW socks, NEW l, NEW W, StreamsHold(s, socks, l, W),
         NEW k \in Sources, NEW r, IsStream(r), NEW socks1, OnlyOf(k, socks, socks1),
         NEW l2, SameElsewhere(k, l, l2), NEW t2, NEW d2, Connects(s, socks1, k, r, t2, d2)
  PROVE  StreamsHold(t2, d2, l2, W) /\ IsStream(t2[k]) /\ Busy(t2[k], d2, l2, k)
<1>0. /\ DOMAIN socks1 = Sockets /\ l2 \in [Sources -> Nat] /\ \A x \in Sources : x # k => l2[x] = l[x]
      /\ \A i \in Sockets : socks1[i] # NoSocket => (IsSocket(socks1[i]) /\ socks1[i].of = k) \/ socks1[i] = socks[i]
      /\ \A i \in Sockets : socks[i] # NoSocket /\ socks[i].of # k => socks1[i] = socks[i]
  BY DEF OnlyOf, SameElsewhere
<1>1. PICK n : n = Lowest(Free(socks1))
  OBVIOUS
<1>2. n \in Sockets /\ socks1[n] = NoSocket /\ n # 0
  <2>1. Free(socks1) \in SUBSET Nat
    BY LogAssumption DEF Free, Sockets
  <2> Free(socks1) # {}
    BY DEF Connects
  <2>2. n \in Free(socks1)
    BY <1>1, <2>1, LeastSlot
  <2>3. QED
    BY <2>2, LogAssumption DEF Free, Sockets
<1>3. PICK c : c = Connected(r, n)
  OBVIOUS
<1>4. IsStream(c) /\ c.ws = n
  BY <1>3 DEF Connected, IsStream, StreamFields
<1>5. PICK w : w = [ph |-> "dial", of |-> k, says |-> "lines"]
  OBVIOUS
<1>6. w # NoSocket /\ w.of = k /\ IsSocket(w)
  BY <1>5 DEF NoSocket, IsSocket
<1>7. PICK socks2, t : socks2 = [socks1 EXCEPT ![n] = w] /\ t = [s EXCEPT ![k] = c]
  OBVIOUS
<1>8. DOMAIN s = Sources
  BY DEF StreamsHold
<1>9. /\ DOMAIN t = Sources /\ DOMAIN socks2 = Sockets /\ t[k] = c /\ socks2[n] = w
      /\ \A x \in Sources : x # k => t[x] = s[x]
      /\ \A i \in Sockets : i # n => socks2[i] = socks1[i]
  BY <1>0, <1>2, <1>7, <1>8
<1>10. \A i \in Sockets : socks2[i] # NoSocket => (IsSocket(socks2[i]) /\ socks2[i].of = k) \/ socks2[i] = socks[i]
  BY <1>0, <1>6, <1>9
<1>11. \A i \in Sockets : socks[i] # NoSocket /\ socks[i].of # k => socks2[i] = socks[i]
  BY <1>0, <1>2, <1>9
<1>12. Busy(t[k], socks2, l2, k)
  BY <1>2, <1>6, <1>9 DEF Busy, HasSocket
<1>13. IsStream(t[k]) /\ t[k].ws \in Sockets /\ socks2[t[k].ws] # NoSocket /\ socks2[t[k].ws].of = k
  BY <1>2, <1>4, <1>6, <1>9
<1>14. OneStream(k, s, t) /\ OnlyOf(k, socks, socks2) /\ SameElsewhere(k, l, l2)
  BY <1>0, <1>9, <1>10, <1>11, <1>13 DEF OneStream, OnlyOf, SameElsewhere
<1>15. HasItsSocket(k, t, socks2) /\ BusyIfAlive(k, t, socks2, l2)
  BY <1>12, <1>13 DEF HasItsSocket, BusyIfAlive
<1>16. StreamsHold(t, socks2, l2, W)
  BY <1>14, <1>15, OneStreamChanges
<1>17. t2 = t /\ d2 = socks2
  BY <1>1, <1>3, <1>5, <1>7 DEF Dialled, Connects
<1>18. QED
  BY <1>12, <1>13, <1>16, <1>17

\* A closed socket stays until its close has been reported.
LEMMA ClosingHolds ==
  ASSUME NEW s, NEW socks, NEW l, NEW W, StreamsHold(s, socks, l, W), NEW k \in Sources, IsStream(s[k])
  PROVE  OnlyOf(k, socks, Closing(socks, s[k].ws))
<1>1. PICK n, c : n = s[k].ws /\ c = Closing(socks, n)
  OBVIOUS
<1>2. DOMAIN socks = Sockets
  BY DEF StreamsHold
<1>3. CASE n = 0
  BY <1>1, <1>2, <1>3 DEF Closing, OnlyOf
<1>4. CASE n # 0
  <2>1. n \in Sockets /\ socks[n] # NoSocket /\ socks[n].of = k /\ IsSocket(socks[n])
    BY <1>1, <1>4 DEF StreamsHold, SocketsAreOwned
  <2>2. PICK w : w = [socks[n] EXCEPT !.ph = "closing"]
    OBVIOUS
  <2>3. IsSocket(w) /\ w.of = k
    BY <2>1, <2>2 DEF IsSocket
  <2>4. c = [socks EXCEPT ![n] = w]
    BY <1>1, <1>4, <2>2 DEF Closing
  <2>5. DOMAIN c = Sockets /\ c[n] = w /\ \A i \in Sockets : i # n => c[i] = socks[i]
    BY <1>2, <2>1, <2>4
  <2>6. QED
    BY <1>1, <2>1, <2>3, <2>5 DEF OnlyOf
<1>5. QED
  BY <1>3, <1>4

LEMMA ReconnectHolds ==
  ASSUME NEW s, NEW socks, NEW l, NEW W, StreamsHold(s, socks, l, W), NEW k \in Sources, IsStream(s[k]),
         NEW r, IsStream(r), NEW t, NEW d, Connects(s, Closing(socks, s[k].ws), k, r, t, d)
  PROVE  StreamsHold(t, d, l, W) /\ IsStream(t[k]) /\ Busy(t[k], d, l, k)
<1>1. PICK c : c = Closing(socks, s[k].ws)
  OBVIOUS
<1>2. OnlyOf(k, socks, c)
  BY <1>1, ClosingHolds
<1>3. SameElsewhere(k, l, l)
  BY DEF StreamsHold, SameElsewhere
<1>4. Connects(s, c, k, r, t, d)
  BY <1>1
<1>5. QED
  BY <1>2, <1>3, <1>4, ConnectHolds

\* A stream and its own socket i change, and the socket does not go away.
LEMMA FrameHolds ==
  ASSUME NEW s, NEW socks, NEW l, NEW W, StreamsHold(s, socks, l, W),
         NEW i \in Sockets, socks[i] # NoSocket, NEW k, k = socks[i].of,
         NEW t, OneStream(k, s, t), t[k].ws = s[k].ws, NEW c, DOMAIN c = Sockets,
         IsSocket(c[i]), c[i].of = k, \A j \in Sockets : j # i => c[j] = socks[j]
  PROVE  StreamsHold(t, c, l, W)
<1>1. k \in Sources /\ IsStream(s[k]) /\ SameElsewhere(k, l, l)
  BY DEF StreamsHold, SocketsAreOwned, SameElsewhere
<1>2. c[i] # NoSocket
  BY DEF IsSocket, NoSocket
<1>3. OnlyOf(k, socks, c)
  BY DEF OnlyOf
<1>4. HasItsSocket(k, t, c)
  <2>1. s[k].ws # 0 => s[k].ws \in Sockets /\ socks[s[k].ws] # NoSocket /\ socks[s[k].ws].of = k
    BY <1>1 DEF StreamsHold, SocketsAreOwned
  <2>2. QED
    BY <1>2, <2>1 DEF HasItsSocket
<1>5. BusyIfAlive(k, t, c, l)
  BY <1>2 DEF BusyIfAlive, Busy, HasSocket
<1>6. QED
  BY <1>1, <1>3, <1>4, <1>5, OneStreamChanges

LEMMA WatchOne ==
  ASSUME NEW s, NEW socks, NEW l, NEW W, StreamsHold(s, socks, l, W), NEW V \in SUBSET Sources,
         \A k \in V : IsStream(s[k]) /\ (s[k].st \in LiveStates => Busy(s[k], socks, l, k))
  PROVE  StreamsHold(s, socks, l, V)
<1>1. ASSUME NEW k \in Sources, IsStream(s[k]), s[k].st \in LiveStates
      PROVE  Busy(s[k], socks, l, k) \/ (k \notin V /\ s[k].ws = 0 /\ s[k].st = "reconnecting")
  BY <1>1 DEF StreamsHold, AliveIsBusy
<1>2. QED
  BY <1>1 DEF StreamsHold, AliveIsBusy

\* A new stream, which may drive others out of the pool
LEMMA OpenNewHolds ==
  ASSUME LogsInv, NEW k \in Sources, OpenNew(k), watched' = {k}
  PROVE  StreamsHold(stream', socket', loose', watched')
<1>1. PICK gone : gone = Evicted
  OBVIOUS
<1>2. PICK socks, s, l : /\ socks = Without(socket, gone)
                         /\ s = [x \in Sources |-> IF x \in gone THEN None ELSE stream[x]]
                         /\ l = [x \in Sources |-> IF x \in gone THEN 0 ELSE loose[x]]
  OBVIOUS
<1>3. StreamsHold(stream, socket, loose, watched)
  BY DEF LogsInv
<1>4. k \notin gone /\ Free(socks) # {} /\ loose' = l
  BY <1>1, <1>2 DEF OpenNew, Evicted
<1>5. \A i \in Sockets : socks[i] # NoSocket => socks[i] = socket[i] /\ socket[i].of \notin gone
  BY <1>2 DEF Without
<1>6. \A i \in Sockets : socket[i] # NoSocket /\ socket[i].of \notin gone => socks[i] = socket[i]
  BY <1>2 DEF Without
<1>7. \A x \in Sources : IsStream(s[x]) => x \notin gone /\ s[x] = stream[x] /\ l[x] = loose[x]
  BY <1>2, NotNone
<1>8. \A i \in Sockets : socks[i] # NoSocket => IsSocket(socks[i]) /\ socks[i].of \in Sources /\ IsStream(s[socks[i].of])
  BY <1>2, <1>3, <1>5 DEF StreamsHold, SocketsAreOwned
<1>9. \A x \in Sources : IsStream(s[x]) /\ s[x].ws # 0 =>
         s[x].ws \in Sockets /\ socks[s[x].ws] # NoSocket /\ socks[s[x].ws].of = x
  <2> SUFFICES ASSUME NEW x \in Sources, IsStream(s[x]), s[x].ws # 0
               PROVE  s[x].ws \in Sockets /\ socks[s[x].ws] # NoSocket /\ socks[s[x].ws].of = x
    OBVIOUS
  <2>1. x \notin gone /\ s[x] = stream[x]
    BY <1>7
  <2>2. s[x].ws \in Sockets /\ socket[s[x].ws] # NoSocket /\ socket[s[x].ws].of = x
    BY <1>3, <2>1 DEF StreamsHold, SocketsAreOwned
  <2>3. QED
    BY <1>6, <2>1, <2>2
<1>10. ASSUME NEW x \in Sources, IsStream(s[x]), s[x].st \in LiveStates
       PROVE  Busy(s[x], socks, l, x) \/ (s[x].ws = 0 /\ s[x].st = "reconnecting")
  <2>1. x \notin gone /\ s[x] = stream[x] /\ l[x] = loose[x]
    BY <1>7, <1>10
  <2>2. Busy(stream[x], socket, loose, x) \/ (stream[x].ws = 0 /\ stream[x].st = "reconnecting")
    BY <1>3, <1>10, <2>1 DEF StreamsHold, AliveIsBusy
  <2>3. HasSocket(socket, x) => HasSocket(socks, x)
    BY <1>6, <2>1 DEF HasSocket
  <2>4. QED
    BY <2>1, <2>2, <2>3 DEF Busy
<1>11. StreamsHold(s, socks, l, {})
  <2>1. DOMAIN s = Sources /\ DOMAIN socks = Sockets
    BY <1>2 DEF Without
  <2>2. l \in [Sources -> Nat]
    BY <1>2, <1>3 DEF StreamsHold
  <2>3. \A x \in Sources : s[x] = None \/ IsStream(s[x])
    BY <1>2, <1>3 DEF StreamsHold
  <2>4. QED
    BY <1>8, <1>9, <1>10, <2>1, <2>2, <2>3 DEF StreamsHold, SocketsAreOwned, AliveIsBusy
<1>12. PICK n : n = Lowest(Free(socks))
  OBVIOUS
<1>13. PICK c : c = Connected(NewStream, n)
  OBVIOUS
<1>14. IsStream(NewStream)
  BY DEF IsStream, NewStream, StreamFields
<1>16. PICK t, d : t = [s EXCEPT ![k] = c] /\ d = Dialled(socks, k)
  OBVIOUS
<1>17. StreamsHold(t, d, l, {}) /\ IsStream(t[k]) /\ Busy(t[k], d, l, k)
  <2>1. OnlyOf(k, socks, socks) /\ SameElsewhere(k, l, l)
    BY <1>11 DEF StreamsHold, OnlyOf, SameElsewhere
  <2>2. Connects(s, socks, k, NewStream, t, d)
    BY <1>4, <1>12, <1>13, <1>16 DEF Connects
  <2>3. QED
    BY <1>11, <1>14, <2>1, <2>2, ConnectHolds
<1>18. stream' = t /\ socket' = d
  <2>1. stream' = [x \in Sources |-> IF x = k THEN c ELSE IF x \in gone THEN None ELSE stream[x]]
    BY <1>1, <1>2, <1>12, <1>13 DEF OpenNew
  <2>2. t = [x \in Sources |-> IF x = k THEN c ELSE s[x]]
    BY <1>2, <1>16
  <2>3. socket' = d
    BY <1>1, <1>2, <1>16 DEF OpenNew
  <2>4. QED
    BY <1>2, <2>1, <2>2, <2>3
<1>19. StreamsHold(t, d, l, {k})
  <2>1. {k} \in SUBSET Sources
    OBVIOUS
  <2>2. QED
    BY <1>17, <2>1, WatchOne
<1>20. QED
  BY <1>4, <1>18, <1>19

LEMMA OpenHeldHolds ==
  ASSUME LogsInv, NEW k \in Sources, OpenHeld(k), watched' = {k}
  PROVE  StreamsHold(stream', socket', loose', watched')
<1>1. StreamsHold(stream, socket, loose, watched) /\ loose' = loose /\ {k} \in SUBSET Sources
  BY DEF LogsInv, OpenHeld
<1>2. IsStream(stream[k])
  BY <1>1 DEF OpenHeld, Pooled, StreamsHold
<1>3. CASE stream[k].ws = 0 /\ ~stream[k].timer /\ stream[k].st = "reconnecting"
  <2>1. PICK r : r = Restarted(stream[k])
    OBVIOUS
  <2>2. IsStream(r)
    BY <1>2, <2>1 DEF Restarted, IsStream, StreamFields
  <2>3. LogConnect(k, r, Closing(socket, stream[k].ws))
    BY <1>3, <2>1 DEF OpenHeld, Reconnect
  <2>4. StreamsHold(stream', socket', loose, watched) /\ IsStream(stream'[k]) /\ Busy(stream'[k], socket', loose, k)
    BY <1>1, <1>2, <2>2, <2>3, ReconnectHolds DEF LogConnect, Connects
  <2>5. QED
    BY <1>1, <2>4, WatchOne
<1>4. CASE ~(stream[k].ws = 0 /\ ~stream[k].timer /\ stream[k].st = "reconnecting")
  <2>1. stream' = stream /\ socket' = socket
    BY <1>4 DEF OpenHeld
  <2>2. stream[k].st \in LiveStates => Busy(stream[k], socket, loose, k)
    BY <1>1, <1>2, <1>4 DEF StreamsHold, AliveIsBusy, Busy
  <2>3. QED
    BY <1>1, <1>2, <2>1, <2>2, WatchOne
<1>5. QED
  BY <1>3, <1>4

LEMMA FramesHold ==
  ASSUME StreamsHold(stream, socket, loose, watched), NEW i \in Sockets,
         OnOpen(i) \/ Line(i) \/ ErrorText(i)
  PROVE  StreamsHold(stream', socket', loose', watched')
<1>1. PICK k, w, r : k = socket[i].of /\ w = socket[i] /\ r = stream[k]
  OBVIOUS
<1>2. w.ph \in {"dial", "open"} /\ loose' = loose /\ watched' = watched
  BY <1>1 DEF OnOpen, Line, ErrorText
<1>3. w # NoSocket
  BY <1>2 DEF NoSocket
<1>4. IsSocket(w) /\ k \in Sources /\ IsStream(r) /\ DOMAIN stream = Sources /\ DOMAIN socket = Sockets
  BY <1>1, <1>3 DEF StreamsHold, SocketsAreOwned
<1>5. ASSUME NEW u, IsSocket(u), u.of = k, NEW t, IsStream(t), t.ws = r.ws,
             stream' = [stream EXCEPT ![k] = t],
             socket' = [socket EXCEPT ![i] = u] \/ (socket' = socket /\ u = w)
      PROVE  StreamsHold(stream', socket', loose', watched')
  <2>1. PICK n, c : n = stream' /\ c = socket'
    OBVIOUS
  <2>2. OneStream(k, stream, n) /\ n[k].ws = stream[k].ws
    BY <1>1, <1>4, <1>5, <2>1 DEF OneStream
  <2>3. DOMAIN c = Sockets /\ c[i] = u /\ \A j \in Sockets : j # i => c[j] = socket[j]
    BY <1>1, <1>4, <1>5, <2>1
  <2>4. IsSocket(c[i]) /\ c[i].of = k
    BY <1>5, <2>3
  <2>5. k = socket[i].of /\ socket[i] # NoSocket
    BY <1>1, <1>3
  <2>6. StreamsHold(n, c, loose, watched)
    BY <2>2, <2>3, <2>4, <2>5, FrameHolds
  <2>7. QED
    BY <1>2, <2>1, <2>6
<1>6. \A new \in BOOLEAN : IsStream(LogPayload(r, new)) /\ LogPayload(r, new).ws = r.ws
  BY <1>4 DEF LogPayload, IsStream, StreamFields
<1>7. CASE OnOpen(i)
  <2>1. PICK says : socket' = [socket EXCEPT ![i].ph = "open", ![i].says = says]
    BY <1>7 DEF OnOpen
  <2>2. PICK u : u = [w EXCEPT !.ph = "open", !.says = says]
    OBVIOUS
  <2>3. socket' = [socket EXCEPT ![i] = u]
    BY <1>1, <1>4, <2>1, <2>2
  <2>4. IsSocket(u) /\ u.of = k
    BY <1>1, <1>4, <2>2 DEF IsSocket
  <2>5. PICK t : t = [r EXCEPT !.st = "streaming", !.opened = TRUE]
    OBVIOUS
  <2>6. IsStream(t) /\ t.ws = r.ws
    BY <1>4, <2>5 DEF IsStream, StreamFields
  <2>7. stream' = [stream EXCEPT ![k] = t]
    BY <1>1, <1>4, <1>7, <2>5 DEF OnOpen
  <2>8. QED
    BY <1>5, <2>3, <2>4, <2>6, <2>7
<1>8. CASE Line(i)
  <2>1. PICK new \in BOOLEAN : stream' = [stream EXCEPT ![k] = LogPayload(r, new)]
    BY <1>1, <1>8 DEF Line
  <2>2. PICK t : t = LogPayload(r, new)
    OBVIOUS
  <2>3. IsStream(t) /\ t.ws = r.ws
    BY <1>6, <2>2
  <2>4. stream' = [stream EXCEPT ![k] = t]
    BY <2>1, <2>2
  <2>5. socket' = socket
    BY <1>8 DEF Line
  <2>6. w.of = k
    BY <1>1
  <2>7. QED
    BY <1>4, <1>5, <2>3, <2>4, <2>5, <2>6
<1>9. CASE ErrorText(i)
  <2>1. PICK u : u = [w EXCEPT !.says = "bye"]
    OBVIOUS
  <2>2. socket' = [socket EXCEPT ![i] = u]
    BY <1>1, <1>9, <2>1 DEF ErrorText
  <2>3. IsSocket(u) /\ u.of = k
    BY <1>1, <1>4, <2>1 DEF IsSocket
  <2>4. PICK t1, t2, t3 : /\ t1 = [r EXCEPT !.st = "pod-gone"]
                          /\ t2 = [r EXCEPT !.transient = TRUE, !.st = "waiting"]
                          /\ t3 = LogPayload(r, TRUE)
    OBVIOUS
  <2>5. /\ IsStream(t1) /\ t1.ws = r.ws
        /\ IsStream(t2) /\ t2.ws = r.ws
        /\ IsStream(t3) /\ t3.ws = r.ws
    BY <1>4, <1>6, <2>4 DEF IsStream, StreamFields
  <2>6. \E t \in {t1, t2, t3} : stream' = [stream EXCEPT ![k] = t]
    BY <1>1, <1>4, <1>9, <2>4 DEF ErrorText
  <2>7. QED
    BY <1>5, <2>2, <2>3, <2>5, <2>6
<1>10. QED
  BY <1>7, <1>8, <1>9

LEMMA ClosesHold ==
  ASSUME StreamsHold(stream, socket, loose, watched), NEW i \in Sockets, OnClose(i)
  PROVE  StreamsHold(stream', socket', loose', watched')
<1>1. PICK k, s : k = socket[i].of /\ s = [stream[k] EXCEPT !.ws = 0]
  OBVIOUS
<1>2. socket[i] # NoSocket /\ socket' = [socket EXCEPT ![i] = NoSocket] /\ watched' = watched
  BY DEF OnClose, NoSocket
<1>3. k \in Sources /\ IsStream(stream[k]) /\ DOMAIN stream = Sources /\ DOMAIN socket = Sockets /\ loose \in [Sources -> Nat]
  BY <1>1, <1>2 DEF StreamsHold, SocketsAreOwned
<1>4. IsStream(s) /\ s.ws = 0 /\ s.st = stream[k].st
  BY <1>1, <1>3 DEF IsStream, StreamFields
<1>5. ASSUME NEW t, IsStream(t), t.ws = 0, t.st \in LiveStates => t.timer, stream' = [stream EXCEPT ![k] = t],
             loose' \in [Sources -> Nat], \A x \in Sources : x # k => loose'[x] = loose[x]
      PROVE  StreamsHold(stream', socket', loose', watched')
  <2>1. PICK n, c, l : n = stream' /\ c = socket' /\ l = loose'
    OBVIOUS
  <2>2. /\ DOMAIN n = Sources /\ n[k] = t /\ \A x \in Sources : x # k => n[x] = stream[x] /\ l[x] = loose[x]
        /\ DOMAIN c = Sockets /\ c[i] = NoSocket /\ \A j \in Sockets : j # i => c[j] = socket[j]
    BY <1>2, <1>3, <1>5, <2>1
  <2>3. OnlyOf(k, socket, c)
    BY <1>1, <2>2 DEF OnlyOf
  <2>4. OneStream(k, stream, n) /\ SameElsewhere(k, loose, l)
    BY <1>5, <2>1, <2>2 DEF OneStream, SameElsewhere
  <2>5. HasItsSocket(k, n, c) /\ BusyIfAlive(k, n, c, l)
    BY <1>5, <2>2 DEF HasItsSocket, BusyIfAlive, Busy
  <2>6. StreamsHold(n, c, l, watched)
    BY <1>3, <2>3, <2>4, <2>5, OneStreamChanges
  <2>7. QED
    BY <1>2, <2>1, <2>6
<1>6. ASSUME Armed(k, s) PROVE loose' \in [Sources -> Nat] /\ \A x \in Sources : x # k => loose'[x] = loose[x]
  BY <1>3, <1>6 DEF Armed
<1>7. PICK e : \/ s.st = "pod-gone" /\ stream' = [stream EXCEPT ![k] = s] /\ loose' = loose
               \/ Armed(k, s) /\ stream' = [stream EXCEPT ![k] = [s EXCEPT !.timer = TRUE]]
               \/ stream' = [stream EXCEPT ![k] = [s EXCEPT !.empty = GiveUp, !.st = "ended"]] /\ loose' = loose
               \/ Armed(k, s) /\ stream' = [stream EXCEPT ![k] = [s EXCEPT !.empty = e, !.st = "reconnecting", !.timer = TRUE]]
  BY <1>1 DEF OnClose
<1>8. PICK t1, t2, t3 : /\ t1 = [s EXCEPT !.timer = TRUE]
                        /\ t2 = [s EXCEPT !.empty = GiveUp, !.st = "ended"]
                        /\ t3 = [s EXCEPT !.empty = e, !.st = "reconnecting", !.timer = TRUE]
  OBVIOUS
<1>9. /\ IsStream(t1) /\ t1.ws = 0 /\ t1.timer
      /\ IsStream(t2) /\ t2.ws = 0 /\ t2.st \notin LiveStates
      /\ IsStream(t3) /\ t3.ws = 0 /\ t3.timer
  BY <1>4, <1>8 DEF IsStream, StreamFields, LiveStates
<1>10. CASE s.st = "pod-gone" /\ stream' = [stream EXCEPT ![k] = s] /\ loose' = loose
  BY <1>3, <1>4, <1>5, <1>10 DEF LiveStates
<1>11. CASE Armed(k, s) /\ stream' = [stream EXCEPT ![k] = t1]
  BY <1>5, <1>6, <1>9, <1>11
<1>12. CASE stream' = [stream EXCEPT ![k] = t2] /\ loose' = loose
  BY <1>3, <1>5, <1>9, <1>12
<1>13. CASE Armed(k, s) /\ stream' = [stream EXCEPT ![k] = t3]
  BY <1>5, <1>6, <1>9, <1>13
<1>14. QED
  BY <1>7, <1>8, <1>10, <1>11, <1>12, <1>13

LEMMA TimersHold ==
  ASSUME StreamsHold(stream, socket, loose, watched), NEW k \in Sources, RetryTimer(k) \/ LooseTimer(k)
  PROVE  StreamsHold(stream', socket', loose', watched')
<1>1. PICK r : r = [stream[k] EXCEPT !.timer = FALSE]
  OBVIOUS
<1>2. stream[k] # None /\ LogConnect(k, r, socket) /\ watched' = watched
  BY <1>1 DEF RetryTimer, LooseTimer
<1>3. IsStream(stream[k]) /\ DOMAIN socket = Sockets /\ loose \in [Sources -> Nat]
  BY <1>2 DEF StreamsHold
<1>4. IsStream(r)
  BY <1>1, <1>3 DEF IsStream, StreamFields
<1>5. loose' \in [Sources -> Nat] /\ \A x \in Sources : x # k => loose'[x] = loose[x]
  <2>1. CASE RetryTimer(k)
    BY <1>3, <2>1 DEF RetryTimer
  <2>2. CASE LooseTimer(k)
    BY <1>3, <2>2 DEF LooseTimer
  <2>3. QED
    BY <2>1, <2>2
<1>6. PICK l : l = loose'
  OBVIOUS
<1>7. Free(socket) # {} /\ stream' = [stream EXCEPT ![k] = Connected(r, Lowest(Free(socket)))]
      /\ socket' = Dialled(socket, k)
  BY <1>2 DEF LogConnect
<1>8. StreamsHold(stream', socket', l, watched)
  <2>1. PICK t, d : t = stream' /\ d = socket'
    OBVIOUS
  <2>2. OnlyOf(k, socket, socket) /\ SameElsewhere(k, loose, l)
    BY <1>3, <1>5, <1>6 DEF OnlyOf, SameElsewhere
  <2>3. Connects(stream, socket, k, r, t, d)
    BY <1>7, <2>1 DEF Connects
  <2>4. StreamsHold(t, d, l, watched)
    BY <1>4, <2>2, <2>3, ConnectHolds
  <2>5. QED
    BY <2>1, <2>4
<1>9. QED
  BY <1>2, <1>6, <1>7, <1>8

LEMMA LogsStep == LogsInv /\ [LogsNext]_logsVars => LogsInv'
<1> SUFFICES ASSUME LogsInv, [LogsNext]_logsVars PROVE LogsInv'
  OBVIOUS
<1>1. StreamsHold(stream, socket, loose, watched) /\ (sel # NoSource => sel \in watched) /\ watched \subseteq Sources
  BY DEF LogsInv, StreamsHold
<1>2. ASSUME StreamsHold(stream', socket', loose', watched'), sel' # NoSource => sel' \in watched' PROVE LogsInv'
  BY <1>2 DEF LogsInv
<1>3. CASE StreamStep /\ UNCHANGED pageVars
  <2>1. sel' = sel /\ watched' = watched
    BY <1>3 DEF StreamStep, pageVars, OnOpen, Line, ErrorText, OnClose, RetryTimer, LooseTimer, PodBecomes
  <2>2. CASE \E p : PodBecomes(p)
    BY <1>1, <1>2, <2>1, <2>2 DEF PodBecomes
  <2>3. QED
    BY <1>1, <1>2, <1>3, <2>1, <2>2, FramesHold, ClosesHold, TimersHold DEF StreamStep
<1>4. ASSUME NEW k \in Sources, Show(k) PROVE LogsInv'
  <2>1. watched' = {k} /\ sel' = k /\ (OpenNew(k) \/ OpenHeld(k))
    BY <1>4 DEF Show
  <2>2. QED
    BY <1>2, <2>1, OpenNewHolds, OpenHeldHolds
<1>5. ASSUME sel # NoSource, NEW r, IsStream(r), LogConnect(sel, r, Closing(socket, stream[sel].ws)),
             UNCHANGED <<watched, loose, sel>>
      PROVE  LogsInv'
  <2>1. sel \in Sources /\ IsStream(stream[sel])
    BY <1>1, <1>5 DEF StreamsHold
  <2>2. StreamsHold(stream', socket', loose, watched)
    BY <1>1, <1>5, <2>1, ReconnectHolds DEF LogConnect, Connects
  <2>3. QED
    BY <1>1, <1>2, <1>5, <2>2
<1>6. ASSUME sel # NoSource PROVE IsStream(Restarted(stream[sel])) /\ IsStream(Restarted(Cleared(stream[sel])))
  <2>1. IsStream(stream[sel])
    BY <1>1, <1>6 DEF StreamsHold
  <2>2. QED
    BY <2>1 DEF Restarted, Cleared, IsStream, StreamFields
<1>7. CASE Render
  <2>1. CASE Reconnect(sel) /\ sel # NoSource /\ UNCHANGED <<watched, loose, sel>>
    BY <1>5, <1>6, <2>1 DEF Reconnect
  <2>2. CASE UNCHANGED <<stream, socket, watched, loose, sel>>
    BY <1>1, <1>2, <2>2
  <2>3. QED
    BY <1>7, <2>1, <2>2 DEF Render
<1>8. CASE Leave
  <2>1. UNCHANGED <<stream, loose, socket>> /\ watched' = {} /\ sel' = NoSource
    BY <1>8 DEF Leave
  <2>2. StreamsHold(stream, socket, loose, {})
    BY <1>1, WatchOne
  <2>3. QED
    BY <1>2, <2>1, <2>2
<1>9. CASE PickLargerTail
  BY <1>5, <1>6, <1>9 DEF PickLargerTail, Refetch, pageVars
<1>10. CASE ReconnectButton
  BY <1>5, <1>6, <1>10 DEF ReconnectButton, Reconnect, pageVars
<1>11. CASE ClearLines
  <2>1. sel # NoSource /\ stream' = [stream EXCEPT ![sel] = Cleared(@)] /\ UNCHANGED <<watched, loose, socket, sel>>
    BY <1>11 DEF ClearLines, pageVars
  <2>2. sel \in Sources /\ IsStream(stream[sel]) /\ DOMAIN stream = Sources
    BY <1>1, <2>1 DEF StreamsHold
  <2>3. PICK k, c, t : k = sel /\ c = Cleared(stream[k]) /\ t = [stream EXCEPT ![k] = c]
    OBVIOUS
  <2>4. IsStream(c) /\ c.ws = stream[k].ws /\ c.st = stream[k].st /\ c.timer = stream[k].timer
    BY <2>2, <2>3 DEF Cleared, IsStream, StreamFields
  <2>5. stream' = t /\ t[k] = c /\ DOMAIN t = Sources /\ \A x \in Sources : x # k => t[x] = stream[x]
    BY <2>1, <2>2, <2>3
  <2>6. HasItsSocket(k, t, socket)
    BY <1>1, <2>2, <2>3, <2>4, <2>5 DEF StreamsHold, SocketsAreOwned, HasItsSocket
  <2>7. BusyIfAlive(k, t, socket, loose)
    BY <1>1, <2>1, <2>2, <2>3, <2>4, <2>5 DEF StreamsHold, AliveIsBusy, Busy, BusyIfAlive
  <2>8. StreamsHold(t, socket, loose, watched)
    <3>1. k \in Sources /\ OneStream(k, stream, t) /\ OnlyOf(k, socket, socket) /\ SameElsewhere(k, loose, loose)
      BY <1>1, <2>2, <2>3, <2>4, <2>5 DEF StreamsHold, OneStream, OnlyOf, SameElsewhere
    <3>2. QED
      BY <1>1, <2>6, <2>7, <3>1, OneStreamChanges
  <2>9. QED
    BY <1>1, <1>2, <2>1, <2>5, <2>8
<1>12. CASE ReloadLogs
  <2>1. /\ stream' = [k \in Sources |-> IF k \in Saved THEN Hydrated(stream[k]) ELSE None]
        /\ socket' = [i \in Sockets |-> NoSocket] /\ loose' = [k \in Sources |-> 0]
        /\ watched' = {} /\ sel' = NoSource
    BY <1>12 DEF ReloadLogs
  <2>2. \A s : /\ IsStream(Hydrated(s)) /\ Hydrated(s).ws = 0
               /\ Hydrated(s).st \in LiveStates => Hydrated(s).st = "reconnecting"
    BY DEF Hydrated, NewStream, IsStream, StreamFields, LiveStates
  <2>3. \A k \in Sources : stream'[k] = None \/ \E s : stream'[k] = Hydrated(s)
    BY <2>1
  <2>4. \A k \in Sources : IsStream(stream'[k]) =>
           stream'[k].ws = 0 /\ (stream'[k].st \in LiveStates => stream'[k].st = "reconnecting")
    BY <2>2, <2>3, NotNone
  <2>5. SocketsAreOwned(stream', socket')
    BY <2>1, <2>4 DEF SocketsAreOwned
  <2>6. AliveIsBusy(stream', socket', loose', watched')
    BY <2>1, <2>4 DEF AliveIsBusy
  <2>7. StreamsHold(stream', socket', loose', watched')
    BY <2>1, <2>2, <2>3, <2>5, <2>6 DEF StreamsHold
  <2>8. QED
    BY <1>2, <2>1, <2>7
<1>13. CASE UNCHANGED logsVars
  BY <1>1, <1>2, <1>13 DEF logsVars, logVars, pageVars
<1>14. QED
  BY <1>3, <1>4, <1>7, <1>8, <1>9, <1>10, <1>11, <1>12, <1>13 DEF LogsNext

(* A log stream that the page watches and that claims to be alive has something *)
(* under way that will change its state.                                        *)
THEOREM StreamsNeverStall == LogsSpec => []NeverStalls
<1>1. LogsInit => LogsInv
  <2> SUFFICES ASSUME LogsInit PROVE LogsInv
    OBVIOUS
  <2>1. /\ stream = [k \in Sources |-> None] /\ watched = {} /\ loose = [k \in Sources |-> 0]
        /\ socket = [i \in Sockets |-> NoSocket] /\ sel = NoSource
    BY DEF LogsInit, LogInit
  <2>2. \A k \in Sources : stream[k] = None /\ ~IsStream(stream[k])
    BY <2>1, NotNone
  <2>3. SocketsAreOwned(stream, socket) /\ AliveIsBusy(stream, socket, loose, watched)
    BY <2>1, <2>2 DEF SocketsAreOwned, AliveIsBusy
  <2>4. QED
    BY <2>1, <2>2, <2>3 DEF LogsInv, StreamsHold
<1>2. LogsInv => NeverStalls
  <2> SUFFICES ASSUME LogsInv, NEW k \in watched, stream[k].st \in LiveStates
               PROVE  Busy(stream[k], socket, loose, k)
    BY DEF NeverStalls, Busy, HasSocket
  <2>1. k \in Sources /\ IsStream(stream[k])
    BY DEF LogsInv, StreamsHold
  <2>2. QED
    BY <2>1 DEF LogsInv, StreamsHold, AliveIsBusy
<1>3. QED
  BY <1>1, <1>2, LogsStep, PTL DEF LogsSpec

-----------------------------------------------------------------------------
(* MetricCharts: the samples the pages collect                              *)

\* A history of one object, in the order of the clock
SamplesOf(of) == [t : Nat, of : {of}]
History(h, of, now) ==
  /\ h \in Seq(SamplesOf(of))
  /\ \A i \in 1..Len(h) : h[i].t <= now /\ (i > 1 => h[i - 1].t < h[i].t)

LEMMA SampleTypes ==
  ASSUME NEW of, NEW now, NEW h, History(h, of, now), NEW i \in 1..Len(h)
  PROVE  h[i].t \in Nat /\ h[i].of = of
<1>1. h[i] \in SamplesOf(of)
  BY ElementOfSeq DEF History
<1>2. QED
  BY <1>1 DEF SamplesOf

\* The end of a history is one.
LEMMA EndOfHistory ==
  ASSUME NEW h, NEW of, NEW now \in Nat, History(h, of, now), NEW n \in 1..(Len(h) + 1)
  PROVE  History(SubSeq(h, n, Len(h)), of, now)
<1>1. h \in Seq(SamplesOf(of)) /\ Len(h) \in Nat
  BY LenProperties DEF History
<1>2. PICK g : g = SubSeq(h, n, Len(h))
  OBVIOUS
<1>3. /\ g \in Seq(SamplesOf(of)) /\ Len(g) = Len(h) - n + 1
      /\ \A i \in 1..Len(g) : g[i] = h[n + i - 1] /\ n + i - 1 \in 1..Len(h)
  <2>1. \A i \in n..Len(h) : h[i] \in SamplesOf(of)
    BY <1>1, ElementOfSeq
  <2>2. /\ g \in Seq(SamplesOf(of)) /\ Len(g) = IF n <= Len(h) THEN Len(h) - n + 1 ELSE 0
        /\ \A i \in 1..(Len(h) - n + 1) : g[i] = h[n + i - 1]
    BY <1>1, <1>2, <2>1, SubSeqProperties
  <2>3. QED
    BY <1>1, <2>2
<1>4. ASSUME NEW i \in 1..Len(g) PROVE g[i].t <= now /\ (i > 1 => g[i - 1].t < g[i].t)
  <2>1. g[i] = h[n + i - 1] /\ n + i - 1 \in 1..Len(h) /\ g[i].t <= now
    BY <1>3 DEF History
  <2>2. CASE i > 1
    <3>1. i - 1 \in 1..Len(g) /\ n + (i - 1) - 1 = (n + i - 1) - 1 /\ n + i - 1 > 1
      BY <1>1, <1>3, <2>2, SMTT(30)
    <3>2. g[i - 1] = h[(n + i - 1) - 1]
      BY <1>3, <3>1
    <3>3. h[(n + i - 1) - 1].t < h[n + i - 1].t
      BY <2>1, <3>1 DEF History
    <3>4. QED
      BY <2>1, <3>2, <3>3
  <2>3. QED
    BY <2>1, <2>2
<1>5. QED
  BY <1>2, <1>3, <1>4 DEF History

\* A sample taken of the same object keeps the history one of it.
LEMMA SampledIsHistory ==
  ASSUME NEW h, NEW of, clock \in Nat, History(h, of, clock)
  PROVE  History(Sampled(h, of), of, clock)
<1>1. h \in Seq(SamplesOf(of)) /\ Len(h) \in Nat /\ (h # <<>> => Len(h) \in 1..Len(h))
  BY EmptySeq, LenProperties DEF History
<1>2. PICK e, all : e = [t |-> clock, of |-> of] /\ all = Append(h, e)
  OBVIOUS
<1>3. CASE h # <<>> /\ h[Len(h)].t = clock
  BY <1>3 DEF Sampled
<1>4. CASE ~(h # <<>> /\ h[Len(h)].t = clock)
  <2>0. e \in SamplesOf(of)
    BY <1>2 DEF SamplesOf
  <2>1. /\ all \in Seq(SamplesOf(of)) /\ Len(all) = Len(h) + 1 /\ all[Len(h) + 1] = e
        /\ \A i \in 1..Len(h) : all[i] = h[i]
    BY <1>1, <1>2, <2>0
  <2>2. ASSUME NEW i \in 1..Len(all) PROVE all[i].t <= clock /\ (i > 1 => all[i - 1].t < all[i].t)
    <3>1. CASE i <= Len(h)
      <4>1. i \in 1..Len(h) /\ all[i] = h[i] /\ (i > 1 => i - 1 \in 1..Len(h) /\ all[i - 1] = h[i - 1])
        BY <1>1, <2>1, <3>1
      <4>2. QED
        BY <4>1 DEF History
    <3>2. CASE i = Len(h) + 1
      <4>1. all[i].t = clock
        BY <1>2, <2>1, <3>2
      <4>2. CASE i > 1
        <5>1. i - 1 = Len(h) /\ Len(h) \in 1..Len(h) /\ h # <<>>
          BY <1>1, <3>2, <4>2
        <5>2. h[Len(h)].t \in Nat /\ h[Len(h)].t <= clock /\ h[Len(h)].t # clock
          BY <1>4, <5>1, SampleTypes DEF History
        <5>3. QED
          BY <2>1, <4>1, <5>1, <5>2
      <4>3. QED
        BY <4>1, <4>2
    <3>3. QED
      BY <1>1, <2>1, <3>1, <3>2
  <2>3. History(all, of, clock)
    BY <2>1, <2>2 DEF History
  <2>4. PICK n : n = Len(all) - (IF Len(all) > HistoryLen THEN HistoryLen ELSE Len(all)) + 1
    OBVIOUS
  <2>5. n \in 1..(Len(all) + 1)
    <3>1. PICK k : k = IF Len(all) > HistoryLen THEN HistoryLen ELSE Len(all)
      OBVIOUS
    <3>2. k \in 0..Len(all) /\ Len(all) \in Nat
      BY <1>1, <2>1, <3>1, MetricAssumption
    <3>3. n = Len(all) - k + 1
      BY <2>4, <3>1
    <3>4. QED
      BY <3>2, <3>3
  <2>6. Sampled(h, of) = SubSeq(all, n, Len(all))
    BY <1>2, <1>4, <2>4 DEF Sampled
  <2>7. QED
    BY <2>3, <2>5, <2>6, EndOfHistory
<1>5. QED
  BY <1>3, <1>4

LEMMA NoHistory == ASSUME NEW of, NEW now PROVE History(<<>>, of, now)
BY DEF History

LEMMA LaterHistory ==
  ASSUME NEW h, NEW of, NEW now \in Nat, History(h, of, now) PROVE History(h, of, now + 1)
<1>1. \A i \in 1..Len(h) : h[i].t \in Nat
  BY SampleTypes
<1>2. QED
  BY <1>1 DEF History

\* The result on display is of the scope on display, so is each sample kept.
ChartInv ==
  /\ result \in {"none", scope}
  /\ live = [k \in Scopes \X Metrics |-> live[k]]
  /\ \A s \in Scopes, m \in Metrics : History(live[<<s, m>>], s, clock)
MetricsInv == clock \in Nat /\ ChartInv /\ History(samples, shown, clock)

LEMMA CollectKeepsHistories ==
  ASSUME MetricsInv, NEW s, NEW m, NEW r \in {"none", s}, Collect(s, m, r)
  PROVE  /\ live' = [k \in Scopes \X Metrics |-> live'[k]]
         /\ \A x \in Scopes, y \in Metrics : History(live'[<<x, y>>], x, clock)
<1>1. CASE r = "none" \/ <<s, m>> \notin Scopes \X Metrics
  <2>1. live' = live
    BY <1>1 DEF Collect, MetricsInv, ChartInv
  <2>2. QED
    BY <2>1 DEF MetricsInv, ChartInv
<1>2. CASE r # "none" /\ <<s, m>> \in Scopes \X Metrics
  <2>1. PICK h : h = Sampled(live[<<s, m>>], s)
    OBVIOUS
  <2>2. live' = [live EXCEPT ![<<s, m>>] = h] /\ s \in Scopes /\ m \in Metrics
    BY <1>2, <2>1 DEF Collect
  <2>3. History(h, s, clock)
    BY <2>1, <2>2, SampledIsHistory DEF MetricsInv, ChartInv
  <2>4. ASSUME NEW x \in Scopes, NEW y \in Metrics PROVE History(live'[<<x, y>>], x, clock)
    <3>1. CASE <<x, y>> = <<s, m>>
      BY <2>2, <2>3, <3>1 DEF MetricsInv, ChartInv
    <3>2. CASE <<x, y>> # <<s, m>>
      <4>1. live'[<<x, y>>] = live[<<x, y>>]
        BY <2>2, <3>2 DEF MetricsInv, ChartInv
      <4>2. QED
        BY <4>1 DEF MetricsInv, ChartInv
    <3>3. QED
      BY <3>1, <3>2
  <2>5. QED
    BY <2>2, <2>4 DEF MetricsInv, ChartInv
<1>3. QED
  BY <1>1, <1>2

\* Seconds pass over every history alike.
LEMMA SecondKeepsHistories ==
  ASSUME MetricsInv, SecondPasses, UNCHANGED <<scope, result, live, shown, samples>>
  PROVE  MetricsInv'
<1>1. PICK now : now = clock + 1 /\ clock' = now /\ now \in Nat
  BY DEF SecondPasses, MetricsInv
<1>2. \A s \in Scopes, m \in Metrics : History(live[<<s, m>>], s, now)
  BY <1>1, LaterHistory DEF MetricsInv, ChartInv
<1>3. History(samples, shown, now)
  BY <1>1, LaterHistory DEF MetricsInv
<1>4. ChartInv'
  BY <1>1, <1>2 DEF MetricsInv, ChartInv, History
<1>5. QED
  BY <1>1, <1>3, <1>4 DEF MetricsInv, History

LEMMA ChartKeepsHistories ==
  ASSUME MetricsInv, ChartNext, UNCHANGED objectVars
  PROVE  MetricsInv'
<1>0. History(samples, shown, clock) /\ clock \in Nat /\ UNCHANGED <<shown, samples>>
  BY DEF MetricsInv, objectVars
<1>1. ASSUME UNCHANGED clock, result' \in {"none", scope'},
             UNCHANGED live \/ \E m : Collect(scope', m, result')
      PROVE  MetricsInv'
  <2>1. /\ live' = [k \in Scopes \X Metrics |-> live'[k]]
        /\ \A x \in Scopes, y \in Metrics : History(live'[<<x, y>>], x, clock)
    <3>1. CASE UNCHANGED live
      BY <3>1 DEF MetricsInv, ChartInv
    <3>2. CASE \E m : Collect(scope', m, result')
      <4>1. PICK s, r, m : s = scope' /\ r = result' /\ Collect(s, m, r)
        BY <3>2
      <4>2. r \in {"none", s}
        BY <1>1, <4>1
      <4>3. QED
        BY <4>1, <4>2, CollectKeepsHistories
    <3>3. QED
      BY <1>1, <3>1, <3>2
  <2>2. QED
    BY <1>0, <1>1, <2>1 DEF MetricsInv, ChartInv, History
<1>2. result \in {"none", scope}
  BY DEF MetricsInv, ChartInv
<1>3. ASSUME NEW s \in Scopes, NEW m \in Metrics, SelectView(s, m) PROVE MetricsInv'
  BY <1>1, <1>3 DEF SelectView, ResultOf, sourceVars
<1>4. ASSUME NEW s \in Scopes, LiveAnswered(s) PROVE MetricsInv'
  <2>1. UNCHANGED <<clock, scope>> /\ result' = (IF s = scope THEN s ELSE result)
    BY <1>4 DEF LiveAnswered, sourceVars
  <2>2. UNCHANGED live \/ \E m : Collect(scope', m, result')
    BY <1>4, <2>1 DEF LiveAnswered
  <2>3. QED
    BY <1>1, <1>2, <2>1, <2>2
<1>5. ASSUME NEW s \in Scopes, Forgets(s) PROVE MetricsInv'
  BY <1>1, <1>2, <1>5 DEF Forgets, sourceVars
<1>6. CASE SelectRange \/ RangeAnswered \/ ProviderChanges
  BY <1>1, <1>2, <1>6 DEF SelectRange, RangeAnswered, ProviderChanges, Probed, Chosen, chartVars, sourceVars
<1>7. CASE OverviewAgain
  BY <1>1, <1>7 DEF OverviewAgain, ResultOf, sourceVars
<1>8. CASE RangeMoves
  BY <1>0, <1>8, SecondKeepsHistories DEF RangeMoves
<1>9. QED
  BY <1>3, <1>4, <1>5, <1>6, <1>7, <1>8 DEF ChartNext

LEMMA PanelKeepsHistories ==
  ASSUME MetricsInv, PanelNext, UNCHANGED chartVars
  PROVE  MetricsInv'
<1>0. History(samples, shown, clock) /\ clock \in Nat /\ UNCHANGED <<scope, result, live>>
  BY DEF MetricsInv, chartVars
<1>1. ASSUME UNCHANGED clock, History(samples', shown', clock) PROVE MetricsInv'
  BY <1>0, <1>1 DEF MetricsInv, ChartInv, History
<1>2. ASSUME NEW o, NEW kept, History(kept, o, clock) PROVE History(Collected(o, kept), o, clock)
  BY <1>0, <1>2, SampledIsHistory DEF Collected
<1>3. ASSUME NEW o, NEW t, Drawn(o, t) PROVE History(samples', shown', clock)
  <2>1. PICK kept : kept = IF Reset(o, t) THEN <<>> ELSE samples
    OBVIOUS
  <2>2. History(kept, o, clock)
    BY <1>0, <2>1, NoHistory DEF Reset
  <2>3. samples' = <<>> \/ samples' = Collected(o, kept)
    BY <1>3, <2>1 DEF Drawn
  <2>4. shown' = o
    BY <1>3 DEF Drawn
  <2>5. QED
    BY <1>2, <2>2, <2>3, <2>4, NoHistory
<1>4. ASSUME NEW o \in PanelObjects, ShowObject(o) PROVE MetricsInv'
  <2>1. UNCHANGED clock
    BY <1>4 DEF ShowObject, sourceVars
  <2>2. Drawn(o, tab) \/ (shown' = o /\ (samples' = <<>> \/ samples' = Collected(o, <<>>)))
    BY <1>4 DEF ShowObject
  <2>3. QED
    BY <1>1, <1>2, <1>3, <2>1, <2>2, NoHistory
<1>5. ASSUME NEW t, SelectTabOf(t) PROVE MetricsInv'
  BY <1>1, <1>3, <1>5 DEF SelectTabOf, sourceVars
<1>6. ASSUME NEW k, PanelAnswered(k) PROVE MetricsInv'
  <2>1. UNCHANGED clock /\ (Drawn(shown, tab) \/ UNCHANGED <<shown, samples>>)
    BY <1>6 DEF PanelAnswered, sourceVars
  <2>2. QED
    BY <1>0, <1>1, <1>3, <2>1
<1>7. CASE PointsArrive
  BY <1>1, <1>3, <1>7 DEF PointsArrive, sourceVars
<1>8. CASE SourceChanges
  <2>1. UNCHANGED <<clock, shown>>
    BY <1>8 DEF SourceChanges, Probed, Chosen
  <2>2. samples' \in {<<>>, Collected(shown, samples), Collected(shown, <<>>)}
    BY <1>8 DEF SourceChanges
  <2>3. QED
    BY <1>0, <1>1, <1>2, <2>1, <2>2, NoHistory
<1>9. CASE WindowMoves
  BY <1>0, <1>9, SecondKeepsHistories DEF WindowMoves
<1>10. QED
  BY <1>4, <1>5, <1>6, <1>7, <1>8, <1>9 DEF PanelNext

LEMMA MetricsInvariance == MetricsSpec => []MetricsInv
<1>1. SourceInit /\ ChartInit /\ PanelInit => MetricsInv
  <2>1. ASSUME SourceInit, ChartInit, PanelInit PROVE MetricsInv
    <3>1. clock \in Nat /\ History(samples, shown, clock) /\ result \in {"none", scope}
      BY <2>1, NoHistory DEF SourceInit, ChartInit, PanelInit
    <3>2. live = [k \in Scopes \X Metrics |-> <<>>]
      BY <2>1 DEF ChartInit
    <3>3. live = [k \in Scopes \X Metrics |-> live[k]]
      BY <3>2
    <3>4. \A s \in Scopes, m \in Metrics : live[<<s, m>>] = <<>>
      BY <3>2
    <3>5. QED
      BY <3>1, <3>3, <3>4, NoHistory DEF MetricsInv, ChartInv
  <2>2. QED
    BY <2>1
<1>2. MetricsInv /\ [MetricsNext]_<<sourceVars, chartVars, objectVars>> => MetricsInv'
  <2>1. CASE UNCHANGED <<sourceVars, chartVars, objectVars>>
    BY <2>1 DEF MetricsInv, ChartInv, History, sourceVars, chartVars, objectVars
  <2>2. QED
    BY <2>1, ChartKeepsHistories, PanelKeepsHistories DEF MetricsNext
<1>3. QED
  BY <1>1, <1>2, PTL DEF MetricsSpec

\* A chart shows one thing: no sample of the worker nodes joins the history of
\* the masters, no sample of one pod the panel of another, in whatever order
\* selections, late answers and dropped queries come; and a history has one
\* sample for a second, in the order of time.
THEOREM ChartsShowOneThing == MetricsSpec => []SamplesOfTheShown
<1>1. MetricsInv => SamplesOfTheShown
  <2>1. ASSUME MetricsInv, NEW s \in Scopes, NEW m \in Metrics, NEW i \in DOMAIN live[<<s, m>>]
        PROVE  live[<<s, m>>][i].of = s /\ (i > 1 => live[<<s, m>>][i - 1].t < live[<<s, m>>][i].t)
    <3>1. History(live[<<s, m>>], s, clock)
      BY <2>1 DEF MetricsInv, ChartInv
    <3>2. i \in 1..Len(live[<<s, m>>])
      BY <2>1, <3>1, LenProperties DEF History
    <3>3. QED
      BY <3>1, <3>2, SampleTypes DEF History
  <2>2. ASSUME MetricsInv, NEW i \in DOMAIN samples PROVE samples[i].of = shown
    <3>1. History(samples, shown, clock)
      BY <2>2 DEF MetricsInv
    <3>2. i \in 1..Len(samples)
      BY <2>2, <3>1, LenProperties DEF History
    <3>3. QED
      BY <3>1, <3>2, SampleTypes
  <2>3. QED
    BY <2>1, <2>2 DEF SamplesOfTheShown, HistoryOfScope, SamplesOfObject
<1>2. QED
  BY MetricsInvariance, <1>1, PTL

-----------------------------------------------------------------------------
(* LogView: the containers picked                                           *)

\* What the two effects leave of a pick is a pick of the same kind, with every
\* name that the pod still has.
LEMMA EffectsKeepPicks ==
  ASSUME NEW p, NEW done, EffectsOn(p, done)
  PROVE  /\ p.mode = "all" => picked' = p
         /\ p.mode = "some" =>
              picked'.mode = "some" /\ (p.names \cap Options') \subseteq picked'.names
<1>1. PICK opts : opts = Options'
  OBVIOUS
<1>2. CASE opts = {}
  <2>1. picked' = p
    BY <1>1, <1>2 DEF EffectsOn
  <2>2. QED
    BY <1>1, <1>2, <2>1
<1>3. CASE opts # {}
  <2>1. picked' = Kept(IF done THEN p ELSE Defaulted(p, opts), opts)
    BY <1>1, <1>3 DEF EffectsOn
  <2>2. ASSUME p.mode \in {"all", "some"} PROVE picked' = Kept(p, opts)
    BY <2>1, <2>2 DEF Defaulted
  <2>3. ASSUME p.mode = "all" PROVE picked' = p
    <3>1. Kept(p, opts) = p
      <4>1. p.mode # "some"
        BY <2>3
      <4>2. CASE p.names \cap opts = {}
        BY <4>1, <4>2, Zenon DEF Kept
      <4>3. CASE p.names \cap opts # {}
        BY <4>1, <4>3, Zenon DEF Kept
      <4>4. QED
        BY <4>2, <4>3
    <3>2. QED
      BY <2>2, <2>3, <3>1
  <2>4. ASSUME p.mode = "some"
        PROVE  picked' = Pick(IF p.names \cap opts = {} THEN FirstRegular(opts) ELSE p.names \cap opts)
    <3>1. p.mode = "some" => Kept(p, opts) = Pick(IF p.names \cap opts = {} THEN FirstRegular(opts) ELSE p.names \cap opts)
      BY Zenon DEF Kept
    <3>2. QED
      BY <2>2, <2>4, <3>1
  <2>5. QED
    BY <1>1, <2>3, <2>4 DEF Pick
<1>4. QED
  BY <1>2, <1>3

\* What the containers on offer are, before and after a step.
OptionsFrom(l, sp, q, po, opts) ==
  /\ l => opts = sp
  /\ ~l /\ q # {} => opts = q
  /\ ~l /\ q = {} /\ po # {} => opts = po
  /\ ~l /\ q = {} /\ po = {} => opts \in {{}, {given}}
  /\ ~l /\ q = {} /\ po = {} /\ given # "none" => opts = {given}
  /\ ~l /\ q = {} /\ po = {} /\ given = "none" => opts = {}
LEMMA OptionsAre == OptionsFrom(listed, spec, queried, pooled, Options)
  BY Zenon DEF OptionsFrom, Options
LEMMA NextOptionsAre ==
  ASSUME given' = given
  PROVE  OptionsFrom(listed', spec', queried', pooled', Options')
  BY Zenon DEF OptionsFrom, Options

LEMMA FirstInside == \A opts : FirstRegular(opts) \subseteq opts
<1>1. ASSUME NEW opts, opts # {} PROVE FirstRegular(opts) \subseteq opts
  <2>1. \E c \in opts : c \in Regular \/ opts \cap Regular = {}
    BY <1>1
  <2>2. QED
    BY <1>1, <2>1 DEF FirstRegular
<1>2. QED
  BY <1>1 DEF FirstRegular

\* The names picked are on offer, as long as anything is.
NamesOf(p, opts) == (p.mode # "some" => p.names = {}) /\ (opts # {} => p.names \subseteq opts)
PicksInv == (listed => spec # {}) /\ NamesOf(picked, Options)

LEMMA EffectsPrune ==
  ASSUME NEW p, NEW done, EffectsOn(p, done), p.mode # "some" => p.names = {}
  PROVE  NamesOf(picked, Options)'
<1>1. PICK opts : opts = Options'
  OBVIOUS
<1>2. CASE opts = {}
  BY <1>1, <1>2 DEF EffectsOn, NamesOf
<1>3. CASE opts # {}
  <2>1. PICK d : d = IF done THEN p ELSE Defaulted(p, opts)
    OBVIOUS
  <2>2. picked' = Kept(d, opts)
    BY <1>1, <1>3, <2>1 DEF EffectsOn
  <2>3. d.mode # "some" => d.names = {}
    BY <2>1 DEF Defaulted, Pick
  <2>4. CASE d.mode # "some"
    <3>1. picked' = d
      BY <2>2, <2>4, Zenon DEF Kept
    <3>2. QED
      BY <2>3, <2>4, <3>1 DEF NamesOf
  <2>5. CASE d.mode = "some"
    <3>1. picked' = Pick(IF d.names \cap opts = {} THEN FirstRegular(opts) ELSE d.names \cap opts)
      BY <2>2, <2>5, Zenon DEF Kept
    <3>2. picked'.mode = "some" /\ picked'.names \subseteq opts
      BY <3>1, FirstInside DEF Pick
    <3>3. QED
      BY <1>1, <3>2 DEF NamesOf
  <2>6. QED
    BY <2>4, <2>5
<1>4. QED
  BY <1>2, <1>3

\* Whatever a step other than the user's picks does to the offer, what is picked
\* and still there is on offer afterwards, or nothing is, or the pick is untouched.
OffersStay ==
  \/ picked' = picked
  \/ Effects /\ (Options' = {} \/ (picked.names \cap StillThere) \subseteq Options')
LEMMA StepOffers ==
  ASSUME PicksInv, ViewNext, ~UserPicks
  PROVE  OffersStay
<1>1. OptionsFrom(listed, spec, queried, pooled, Options)
  BY OptionsAre
<1>2. StillThere \subseteq spec' /\ (listed' => StillThere = spec')
  BY DEF StillThere, TurnsBlind
<1>3. Options = {} \/ picked.names \subseteq Options
  BY DEF PicksInv, NamesOf
<1>4. ASSUME NEW s, SpecChanges(s) PROVE OffersStay
  <2>1. /\ spec' = s /\ (listed' <=> listed /\ s # {}) /\ Effects
        /\ UNCHANGED <<queried, pooled, given>>
    BY <1>4 DEF SpecChanges
  <2>2. OptionsFrom(listed', spec', queried', pooled', Options')
    BY <2>1, NextOptionsAre
  <2>3. CASE listed /\ s # {}
    BY <1>2, <2>1, <2>2, <2>3 DEF OptionsFrom, OffersStay
  <2>4. CASE s = {}
    BY <1>2, <2>1, <2>4 DEF OffersStay
  <2>5. CASE ~listed
    <3>1. Options' = Options
      BY <2>1, <2>5, Zenon DEF Options
    <3>2. QED
      BY <1>3, <2>1, <3>1 DEF OffersStay
  <2>6. QED
    BY <2>3, <2>4, <2>5
<1>5. CASE PodListArrives \/ QueryAnswers
  <2>1. /\ Effects /\ UNCHANGED <<spec, given>> /\ spec # {}
        /\ listed' \/ (~listed' /\ queried' = spec)
    BY <1>5 DEF PodListArrives, QueryAnswers
  <2>2. OptionsFrom(listed', spec', queried', pooled', Options')
    BY <2>1, NextOptionsAre
  <2>3. Options' = spec'
    BY <2>1, <2>2 DEF OptionsFrom
  <2>4. QED
    BY <1>2, <2>1, <2>3 DEF OffersStay
<1>6. CASE StreamsOpen
  <2>1. /\ Effects /\ UNCHANGED <<spec, listed, queried, given>>
        /\ pooled' = pooled \cup LogContainers /\ ~ LogContainers \subseteq pooled
    BY <1>6 DEF StreamsOpen
  <2>2. OptionsFrom(listed', spec', queried', pooled', Options')
    BY <2>1, NextOptionsAre
  <2>3. LogContainers \subseteq Options
    <3>1. Active(Options) \subseteq Options
      BY FirstInside DEF Active
    <3>2. QED
      BY <3>1 DEF LogContainers
  <2>4. Options # {} /\ pooled' # {}
    BY <2>1, <2>3
  <2>5. Options \subseteq Options'
    BY <1>1, <2>1, <2>2, <2>3, <2>4 DEF OptionsFrom
  <2>6. QED
    BY <1>3, <2>1, <2>4, <2>5 DEF OffersStay
<1>7. CASE OtherPod
  <2>1. Effects /\ UNCHANGED given
    BY <1>7 DEF OtherPod
  <2>2. OptionsFrom(listed', spec', queried', pooled', Options')
    BY <2>1, NextOptionsAre
  <2>3. CASE listed'
    BY <1>2, <2>1, <2>2, <2>3 DEF OptionsFrom, OffersStay
  <2>4. CASE ~listed'
    BY <1>7, <2>1, <2>4 DEF StillThere, TurnsBlind, OffersStay
  <2>5. QED
    BY <2>3, <2>4
<1>8. CASE (\E c \in AllContainers : ContainerRestarts(c)) \/ TogglePrevious
  BY <1>8 DEF ContainerRestarts, TogglePrevious, selection, OffersStay
<1>9. QED
  BY <1>4, <1>5, <1>6, <1>7, <1>8 DEF ViewNext

LEMMA PicksStep ==
  ASSUME PicksInv, ViewNext
  PROVE  PicksInv'
<1>1. (listed => spec # {})'
  BY DEF PicksInv, ViewNext, SpecChanges, ContainerRestarts, PodListArrives, QueryAnswers, StreamsOpen,
         OtherPod, Turned, TogglePrevious, UserPicks, PickAll, PickContainer, MountLogs, knowledge
<1>2. picked.mode # "some" => picked.names = {}
  BY DEF PicksInv, NamesOf
<1>3. ASSUME Effects PROVE NamesOf(picked, Options)'
  BY <1>2, <1>3, EffectsPrune DEF Effects
<1>4. ASSUME UNCHANGED <<spec, listed, queried, pooled, given, picked>> PROVE NamesOf(picked, Options)'
  <2>1. Options' = Options
    BY <1>4 DEF Options
  <2>2. QED
    BY <1>4, <2>1 DEF PicksInv, NamesOf
<1>5. ASSUME NEW c, MountLogs(c) PROVE NamesOf(picked, Options)'
  <2>1. PICK p : p = IF c = "none" THEN Unset ELSE Pick({c})
    OBVIOUS
  <2>2. EffectsOn(p, c # "none")
    BY <1>5, <2>1 DEF MountLogs
  <2>3. p.mode # "some" => p.names = {}
    BY <2>1 DEF Unset, Pick
  <2>4. QED
    BY <2>2, <2>3, EffectsPrune
<1>6. ASSUME PickAll PROVE NamesOf(picked, Options)'
  BY <1>6 DEF PickAll, AllPicked, NamesOf
<1>7. ASSUME NEW c, PickContainer(c) PROVE NamesOf(picked, Options)'
  <2>1. c \in Options /\ picked' = Toggled(c) /\ Options' = Options
    BY <1>7 DEF PickContainer, knowledge, Options
  <2>2. picked.names \subseteq Options
    BY <2>1 DEF PicksInv, NamesOf
  <2>3. PICK next : /\ next \subseteq Options
                    /\ Toggled(c) \in {Pick({c}), AllPicked, Pick(next)}
    <3>1. PICK now : now = IF picked.mode = "all" THEN Options ELSE picked.names
      OBVIOUS
    <3>2. PICK next : next = IF c \in now THEN now \ {c} ELSE now \cup {c}
      OBVIOUS
    <3>3. next \subseteq Options
      BY <2>1, <2>2, <3>1, <3>2
    <3>4. Toggled(c) \in {Pick({c}), AllPicked, Pick(next)}
      BY <3>1, <3>2, Zenon DEF Toggled
    <3>5. QED
      BY <3>3, <3>4
  <2>4. QED
    BY <2>1, <2>3 DEF NamesOf, Pick, AllPicked
<1>8. QED
  BY <1>1, <1>3, <1>4, <1>5, <1>6, <1>7
     DEF PicksInv, ViewNext, UserPicks, SpecChanges, ContainerRestarts, PodListArrives, QueryAnswers,
         StreamsOpen, OtherPod, TogglePrevious, knowledge, selection

\* For any pods and any order in which the list, the page's own request and the
\* pool say what containers there are: only the user takes a container out of
\* the pick while the pod has it, or a turn to a pod that the watch does not list.
THEOREM PicksStay == ViewSpec => PicksSurvive
<1> DEFINE Stays ==
      ~UserPicks => /\ picked.mode = "all" => picked' = picked
                    /\ picked.mode = "some" => /\ picked'.mode = "some"
                                               /\ (picked.names \cap StillThere) \subseteq picked'.names
<1>1. ViewInit => PicksInv
  BY DEF ViewInit, PicksInv, NamesOf, Unset
<1>2. PicksInv /\ [ViewNext]_viewVars => PicksInv'
  <2>1. PicksInv /\ UNCHANGED viewVars => PicksInv'
    BY DEF PicksInv, NamesOf, Options, viewVars, knowledge, selection
  <2>2. QED
    BY <2>1, PicksStep
<1>3. PicksInv /\ [ViewNext]_viewVars => [Stays]_viewVars
  <2> SUFFICES ASSUME PicksInv, ViewNext, ~UserPicks
               PROVE  /\ picked.mode = "all" => picked' = picked
                      /\ picked.mode = "some" => /\ picked'.mode = "some"
                                                 /\ (picked.names \cap StillThere) \subseteq picked'.names
    OBVIOUS
  <2>1. OffersStay
    BY StepOffers
  <2>2. CASE picked' = picked
    BY <2>2
  <2>3. CASE Effects
    <3>1. EffectsOn(picked, initialized)
      BY <2>3 DEF Effects
    <3>2. /\ picked.mode = "all" => picked' = picked
          /\ picked.mode = "some" =>
               picked'.mode = "some" /\ (picked.names \cap Options') \subseteq picked'.names
      BY <3>1, EffectsKeepPicks
    <3>3. CASE Options' = {}
      BY <3>1, <3>3 DEF EffectsOn
    <3>4. QED
      BY <2>1, <3>2, <3>3 DEF OffersStay
  <2>4. QED
    BY <2>1, <2>2, <2>3 DEF OffersStay
<1>4. QED
  BY <1>1, <1>2, <1>3, PTL DEF ViewSpec, PicksSurvive

-----------------------------------------------------------------------------
(* PodStatus: the readings of a pod.  The statuses are ones a kubelet writes:   *)
(* only a container that runs is ready, only one that ended has an exit code,   *)
(* and a pod is lost, or left without a running container, for a reason that   *)
(* shows.                                                                     *)

GoodStatus(c) ==
  /\ c.is \in {"waiting", "running", "terminated"} /\ c.ready \in BOOLEAN
  /\ c.ready => c.is = "running"
  /\ c.is # "waiting" => c.began
  /\ c.is # "terminated" => c.code = 0
  /\ c.is = "terminated" => (c.code = 0 <=> c.why = "Completed")
Mains == 1..NumMains
PodInv ==
  /\ initSpec \in Specs
  /\ inits = [k \in DOMAIN initSpec |-> inits[k]] /\ \A k \in DOMAIN inits : GoodStatus(inits[k])
  /\ mains = <<>> \/ mains = [k \in Mains |-> mains[k]]
  /\ \A k \in DOMAIN mains : GoodStatus(mains[k])
  /\ lost => deleting
  /\ evicted => \A k \in DOMAIN mains : mains[k].is # "running"

LEMMA StatusesAreGood ==
  /\ \A why, began : began \in BOOLEAN => GoodStatus(Waiting(why, began))
  /\ \A ready \in BOOLEAN : GoodStatus(Running(ready))
  /\ \A exit \in Exits : GoodStatus(Ended(exit))
  /\ GoodStatus(Ended([why |-> "Error", code |-> 137]))
BY PodAssumption DEF GoodStatus, Status, Waiting, Running, Ended

LEMMA InitStepKeepsPods ==
  ASSUME PodInv, NEW k \in DOMAIN inits, InitStep(k) PROVE PodInv'
<1>1. PICK c : GoodStatus(c) /\ InitBecomes(k, c)
  BY StatusesAreGood DEF InitStep
<1>2. inits' = [inits EXCEPT ![k] = c] /\ UNCHANGED <<initSpec, policy, mains, evicted, deleting, lost>>
  BY <1>1 DEF InitBecomes
<1>3. inits' = [j \in DOMAIN initSpec |-> inits'[j]] /\ \A j \in DOMAIN inits' : GoodStatus(inits'[j])
  BY <1>1, <1>2 DEF PodInv
<1>4. QED
  BY <1>2, <1>3 DEF PodInv, GoodStatus

LEMMA MainStepKeepsPods ==
  ASSUME PodInv, NEW k \in DOMAIN mains, MainStep(k) PROVE PodInv'
<1>1. PICK c : GoodStatus(c) /\ MainBecomes(k, c)
  <2>1. mains[k].ready \in BOOLEAN
    BY DEF PodInv, GoodStatus
  <2>2. QED
    BY <2>1, StatusesAreGood DEF MainStep
<1>2. /\ mains' = [mains EXCEPT ![k] = c] /\ UNCHANGED <<initSpec, policy, inits, evicted, deleting, lost>>
      /\ ~evicted
  BY <1>1 DEF MainBecomes, Alive
<1>3. mains = [j \in Mains |-> mains[j]]
  BY DEF PodInv
<1>4. mains' = [j \in Mains |-> mains'[j]] /\ \A j \in DOMAIN mains' : GoodStatus(mains'[j])
  BY <1>1, <1>2, <1>3 DEF PodInv
<1>5. QED
  BY <1>2, <1>4 DEF PodInv, GoodStatus

LEMMA PodInvariance == PodSpec => []PodInv
<1>1. PodInit => PodInv
  <2>1. ASSUME PodInit PROVE PodInv
    <3>1. /\ initSpec \in Specs /\ mains = <<>> /\ inits = [k \in DOMAIN initSpec |-> Waiting("PodInitializing", FALSE)]
          /\ evicted = FALSE /\ lost = FALSE
      BY <2>1 DEF PodInit
    <3>2. \A k \in DOMAIN inits : GoodStatus(inits[k])
      BY <3>1, StatusesAreGood
    <3>3. inits = [k \in DOMAIN initSpec |-> inits[k]]
      BY <3>1
    <3>4. DOMAIN mains = {} /\ ~evicted /\ ~lost
      BY <3>1
    <3>5. QED
      BY <3>1, <3>2, <3>3, <3>4 DEF PodInv
  <2>2. QED
    BY <2>1
<1>2. PodInv /\ [PodNext]_podVars => PodInv'
  <2> SUFFICES ASSUME PodInv, [PodNext]_podVars PROVE PodInv'
    OBVIOUS
  <2>1. CASE Report
    <3>1. mains' = [k \in Mains |-> Waiting("PodInitializing", FALSE)]
          /\ UNCHANGED <<initSpec, policy, inits, evicted, deleting, lost>> /\ ~evicted
      BY <2>1 DEF Report, Alive, Mains
    <3>2. \A k \in DOMAIN mains' : GoodStatus(mains'[k])
      BY <3>1, StatusesAreGood
    <3>3. QED
      BY <3>1, <3>2 DEF PodInv, GoodStatus
  <2>2. CASE Evict
    <3>1. PICK killed : GoodStatus(killed) /\ killed.is = "terminated"
                        /\ mains' = [k \in DOMAIN mains |-> IF mains[k].is = "running" THEN killed ELSE mains[k]]
      BY <2>2, StatusesAreGood DEF Evict, Ended, Status
    <3>2. UNCHANGED <<initSpec, policy, inits, deleting, lost>>
      BY <2>2 DEF Evict
    <3>3. \A k \in DOMAIN mains' : GoodStatus(mains'[k]) /\ mains'[k].is # "running"
      BY <3>1 DEF PodInv
    <3>4. DOMAIN mains' = DOMAIN mains
      BY <3>1
    <3>5. mains' = <<>> \/ mains' = [k \in Mains |-> mains'[k]]
      <4>1. CASE mains = <<>>
        BY <3>1, <4>1
      <4>2. CASE mains = [k \in Mains |-> mains[k]]
        BY <3>1, <4>2
      <4>3. QED
        BY <4>1, <4>2 DEF PodInv
    <3>6. QED
      BY <3>2, <3>3, <3>5 DEF PodInv, GoodStatus
  <2>3. CASE DeletePod \/ LoseNode \/ UNCHANGED podVars
    BY <2>3 DEF DeletePod, LoseNode, podVars, PodInv, GoodStatus
  <2>4. QED
    BY <2>1, <2>2, <2>3, InitStepKeepsPods, MainStepKeepsPods DEF PodNext
<1>3. QED
  BY <1>1, <1>2, PTL DEF PodSpec

\* The first of some containers is one of them.
LEMMA FirstIsOne ==
  ASSUME NEW S, S \subseteq Nat, S # {} PROVE Min(S) \in S
<1> DEFINE R == OpToRel(<, Nat)
<1>1. PICK n \in S : \A m \in S : <<m, n>> \notin R
  <2>1. IsWellFoundedOn(R, Nat)
    BY NatLessThanWellFounded
  <2> HIDE DEF R
  <2> QED BY <2>1, WFMin
<1>2. \A m \in S : n <= m
  <2> SUFFICES ASSUME NEW m \in S, m < n PROVE FALSE
    OBVIOUS
  <2>1. m \in Nat /\ n \in Nat
    OBVIOUS
  <2>2. <<m, n>> \in R
    BY <2>1 DEF OpToRel
  <2> QED BY <1>1, <2>2
<1>3. QED
  BY <1>1, <1>2, Zenon DEF Min

\* A green chip: nothing initializes, everything runs and is ready.
LEMMA GreenChip ==
  ASSUME PodInv, Chip = "ok"
  PROVE  /\ ~deleting /\ Healthy /\ Phase = "Running"
         /\ \A k \in DOMAIN inits : inits[k].is = "terminated" /\ inits[k].code = 0
<1>1. Label = Plain("Running") /\ NumReady >= NumMains
  <2>1. PICK a, b, n : a = Label /\ b = Phase /\ n = NumReady
    OBVIOUS
  <2>2. Kind(a, b, n, NumMains) = "ok"
    BY <2>1 DEF Chip
  <2>3. a = Plain("Running")
    <3> SUFFICES ASSUME a # Plain("Running") PROVE FALSE
      OBVIOUS
    <3>1. Kind(a, b, n, NumMains) \in {"info", "warn", "bad", "mute"}
      BY DEF Kind
    <3>2. QED
      BY <2>2, <3>1
  <2>4. n >= NumMains
    <3> SUFFICES ASSUME ~(n >= NumMains) PROVE FALSE
      OBVIOUS
    <3>1. Kind(a, b, n, NumMains) = "warn"
      BY <2>3, Zenon DEF Kind
    <3>2. QED
      BY <2>2, <3>1
  <2>5. QED
    BY <2>1, <2>3, <2>4
<1>2. mains # <<>> /\ \A k \in DOMAIN mains : mains[k].is = "running" /\ mains[k].ready
  <2>1. PICK S : S = {k \in DOMAIN mains : mains[k].ready}
    OBVIOUS
  <2>2. Cardinality(S) >= NumMains /\ NumMains \in Nat \ {0}
    BY <1>1, <2>1, PodAssumption DEF NumReady
  <2>3. mains # <<>>
    <3> SUFFICES ASSUME mains = <<>> PROVE FALSE
      OBVIOUS
    <3>1. S = {}
      BY <2>1
    <3>2. QED
      BY <2>2, <3>1, FS_EmptySet
  <2>4. DOMAIN mains = Mains
    BY <2>3 DEF PodInv
  <2>5. IsFiniteSet(Mains) /\ Cardinality(Mains) = NumMains
    BY <2>2, FS_Interval DEF Mains
  <2>6. S = Mains
    <3>1. S \subseteq Mains
      BY <2>1, <2>4
    <3>2. Cardinality(S) <= NumMains /\ Cardinality(S) \in Nat
      BY <2>5, <3>1, FS_Subset, FS_CardinalityType
    <3>3. Cardinality(S) = Cardinality(Mains)
      BY <2>2, <2>5, <3>2
    <3>4. QED
      BY <2>5, <3>1, <3>3, FS_Subset
  <2>7. QED
    BY <2>1, <2>3, <2>4, <2>6 DEF PodInv, GoodStatus
<1>3. ~deleting
  <2> SUFFICES ASSUME deleting PROVE FALSE
    OBVIOUS
  <2>1. Label \in {Plain("Unknown"), Plain("Terminating")}
    BY DEF Label
  <2>2. QED
    BY <1>1, <2>1 DEF Plain
<1>4. ~evicted /\ ~lost
  <2>1. PICK k \in DOMAIN mains : TRUE
    <3>1. 1 \in Mains
      BY PodAssumption DEF Mains
    <3>2. QED
      BY <1>2, <3>1 DEF PodInv
  <2>2. QED
    BY <1>2, <1>3, <2>1 DEF PodInv
<1>5. \A k \in DOMAIN inits : inits[k].is = "terminated" /\ inits[k].code = 0
  <2> SUFFICES ASSUME \E k \in DOMAIN inits : ~(inits[k].is = "terminated" /\ inits[k].code = 0) PROVE FALSE
    OBVIOUS
  <2>1. Label \in {InitLabel, MainLabel(InitLabel)}
    BY <1>3 DEF Label
  <2>2. {k \in DOMAIN mains : mains[k].is # "running"} = {}
    BY <1>2
  <2>3. InitLabel.init = TRUE
    BY DEF InitLabel, OfInit
  <2>4. MainLabel(InitLabel) = InitLabel
    <3>1. InitLabel \notin {Plain("Completed"), Plain("Succeeded")}
      BY <2>3 DEF Plain
    <3>2. QED
      BY <2>2, <3>1 DEF MainLabel
  <2>5. QED
    BY <1>1, <2>1, <2>3, <2>4 DEF Plain
<1>6. Initialized
  <2> SUFFICES ASSUME NEW k \in DOMAIN inits PROVE InitDone(k)
    BY DEF Initialized
  <2>1. inits[k].began
    BY <1>5 DEF PodInv, GoodStatus
  <2>2. QED
    BY <1>5, <2>1 DEF InitDone
<1>7. Phase = "Running"
  <2>1. ~GivenUp
    BY <1>4, <1>5 DEF GivenUp
  <2>2. ~Starting
    BY <1>2, <1>6 DEF Starting
  <2>3. ~Over
    <3>1. 1 \in DOMAIN mains
      BY <1>2, PodAssumption DEF PodInv, Mains
    <3>2. QED
      BY <1>2, <3>1 DEF Over, Stopped
  <2>4. QED
    BY <2>1, <2>2, <2>3 DEF Phase
<1>8. QED
  BY <1>2, <1>3, <1>4, <1>5, <1>6, <1>7 DEF Healthy

LEMMA GreenHasNoBadge ==
  ASSUME PodInv, Chip = "ok" PROVE Badge = "none" /\ \A k \in DOMAIN mains : Square(mains[k]) = "ok"
<1>1. /\ ~deleting /\ Healthy /\ Phase = "Running"
      /\ \A k \in DOMAIN inits : inits[k].is = "terminated" /\ inits[k].code = 0
  BY GreenChip
<1>2. \A k \in DOMAIN mains : mains[k].is = "running" /\ mains[k].ready
  BY <1>1 DEF Healthy
<1>3. Stuck(inits, {"PodInitializing"}) = {} /\ Exited(inits) = {}
  BY <1>1 DEF Stuck, Exited
<1>4. Stuck(mains, {}) = {} /\ Exited(mains) = {}
  BY <1>2 DEF Stuck, Exited
<1>5. Issues = {}
  BY <1>1, <1>3, <1>4 DEF Issues
<1>6. ASSUME NEW k \in DOMAIN mains PROVE Square(mains[k]) = "ok"
  <2>1. Square(mains[k]) = Kind(Plain("Running"), Phase, 1, 1)
    BY <1>1, <1>2 DEF Square
  <2>2. 1 >= 1
    OBVIOUS
  <2>3. QED
    BY <2>1, <2>2, Zenon DEF Kind
<1>7. QED
  BY <1>5, <1>6 DEF Badge

LEMMA HealthyIsGreen ==
  ASSUME PodInv, Healthy, ~HasSidecar PROVE Chip = "ok"
<1>1. /\ Initialized /\ mains # <<>> /\ ~deleting /\ ~evicted /\ ~lost
      /\ \A k \in DOMAIN mains : mains[k].is = "running" /\ mains[k].ready
  BY DEF Healthy, PodInv
<1>2. \A k \in DOMAIN inits : inits[k].is = "terminated" /\ inits[k].code = 0
  <2> SUFFICES ASSUME NEW k \in DOMAIN inits PROVE inits[k].is = "terminated" /\ inits[k].code = 0
    OBVIOUS
  <2>1. k \in DOMAIN initSpec /\ initSpec[k] = "plain"
    BY PodAssumption DEF PodInv, HasSidecar
  <2>2. QED
    BY <1>1, <2>1 DEF Initialized, InitDone
<1>3. Phase = "Running"
  <2>1. ~GivenUp
    BY <1>1, <1>2 DEF GivenUp
  <2>2. ~Starting
    BY <1>1 DEF Starting
  <2>3. ~Over
    <3>1. 1 \in DOMAIN mains
      BY <1>1, PodAssumption DEF PodInv, Mains
    <3>2. QED
      BY <1>1, <3>1 DEF Over, Stopped
  <2>4. QED
    BY <2>1, <2>2, <2>3 DEF Phase
<1>4. Label = Plain("Running")
  <2>1. ~\E k \in DOMAIN inits : ~(inits[k].is = "terminated" /\ inits[k].code = 0)
    BY <1>2
  <2>2. Label = MainLabel(Plain("Running"))
    BY <1>1, <1>3, <2>1 DEF Label, StatusReason
  <2>3. {k \in DOMAIN mains : mains[k].is # "running"} = {}
    BY <1>1
  <2>4. Plain("Running") \notin {Plain("Completed"), Plain("Succeeded")}
    BY DEF Plain
  <2>5. QED
    BY <2>2, <2>3, <2>4 DEF MainLabel
<1>5. NumReady >= NumMains
  <2>1. {k \in DOMAIN mains : mains[k].ready} = Mains
    BY <1>1 DEF PodInv
  <2>2. NumMains \in Nat \ {0} /\ Cardinality(Mains) = NumMains
    <3>1. NumMains \in Nat \ {0} /\ 1 \in Int /\ NumMains \in Int
      BY PodAssumption
    <3>2. Cardinality(1..NumMains) = IF 1 > NumMains THEN 0 ELSE NumMains - 1 + 1
      BY <3>1, FS_Interval
    <3>3. QED
      BY <3>1, <3>2 DEF Mains
  <2>3. QED
    BY <2>1, <2>2 DEF NumReady
<1>6. QED
  BY <1>4, <1>5, Zenon DEF Chip, Kind

\* What is red, of a chip or a square, is of something that has an issue.
LEMMA RedTexts ==
  ASSUME NEW label, NEW ph, NEW n, NEW m, Kind(label, ph, n, m) = "bad"
  PROVE  ~label.init /\ ph # "Succeeded" /\ (ph = "Failed" \/ label.text \in Failing)
<1>1. label # Plain("Running")
  <2> SUFFICES ASSUME label = Plain("Running") PROVE FALSE
    OBVIOUS
  <2>1. Kind(label, ph, n, m) = IF n >= m THEN "ok" ELSE "warn"
    BY Zenon DEF Kind
  <2>2. QED
    BY <2>1
<1>2. ~(label \in {Plain("Completed"), Plain("Succeeded")} \/ ph = "Succeeded")
  <2> SUFFICES ASSUME label \in {Plain("Completed"), Plain("Succeeded")} \/ ph = "Succeeded" PROVE FALSE
    OBVIOUS
  <2>1. ~(label # Plain("Running") /\ ph # "Succeeded"
           /\ (label.init \/ label.text \in {"Pending", "Terminating", "NotReady"} \cup Preparing))
    BY DEF Plain, Preparing
  <2>2. Kind(label, ph, n, m) = "info"
    BY <1>1, <2>1, Zenon DEF Kind
  <2>3. QED
    BY <2>2
<1>3. ~(label.init \/ label.text \in {"Pending", "Terminating", "NotReady"} \cup Preparing)
  <2> SUFFICES ASSUME label.init \/ label.text \in {"Pending", "Terminating", "NotReady"} \cup Preparing PROVE FALSE
    OBVIOUS
  <2>1. Kind(label, ph, n, m) = "warn"
    BY <1>1, <1>2, Zenon DEF Kind
  <2>2. QED
    BY <2>1
<1>4. Kind(label, ph, n, m) = IF ph = "Failed" \/ label.text \in Failing THEN "bad" ELSE "mute"
  BY <1>1, <1>2, <1>3, Zenon DEF Kind
<1>5. QED
  BY <1>2, <1>3, <1>4

LEMMA DownInFailing ==
  ASSUME PodInv, Phase # "Succeeded", NEW k \in DOMAIN mains, mains[k].is # "running", mains[k].why \in Failing
  PROVE  Issues # {}
<1>1. CASE mains[k].is = "waiting"
  <2>1. k \in Stuck(mains, {})
    BY <1>1 DEF Stuck
  <2>2. <<Severity(mains, k), "main", k>> \in Issues
    BY <2>1, Zenon DEF Issues
  <2>3. QED
    BY <2>2
<1>2. CASE mains[k].is = "terminated"
  <2>1. mains[k].why # "Completed"
    BY DEF Failing
  <2>2. k \in Exited(mains)
    BY <1>2, <2>1 DEF Exited, PodInv, GoodStatus
  <2>3. <<"bad", "main", k>> \in Issues
    BY <2>2, Zenon DEF Issues
  <2>4. QED
    BY <2>3
<1>3. QED
  BY <1>1, <1>2 DEF PodInv, GoodStatus

LEMMA RedChipHasBadge ==
  ASSUME PodInv, Chip = "bad" PROVE Issues # {}
<1>1. /\ ~Label.init /\ Phase # "Succeeded" /\ (Phase = "Failed" \/ Label.text \in Failing)
  <2>1. PICK a, b, n : a = Label /\ b = Phase /\ n = NumReady
    OBVIOUS
  <2>2. Kind(a, b, n, NumMains) = "bad"
    BY <2>1 DEF Chip
  <2>3. QED
    BY <2>1, <2>2, RedTexts
<1>2. CASE deleting \/ Phase = "Failed"
  <2>1. <<"warn", "deletion">> \in Issues \/ <<"bad", "phase">> \in Issues
    BY <1>2, Zenon DEF Issues
  <2>2. QED
    BY <2>1
<1>3. CASE ~deleting /\ Phase # "Failed"
  <2>1. ~evicted /\ ~lost
    <3>1. ~GivenUp
      <4>1. GivenUp => Phase = "Failed"
        BY Zenon DEF Phase
      <4>2. QED
        BY <1>3, <4>1
    <3>2. QED
      BY <1>3, <3>1 DEF GivenUp, PodInv
  <2>2. PICK before : before \in {InitLabel, Plain(Phase)} /\ Label \in {before, MainLabel(before)}
    BY <1>3, <2>1 DEF Label, StatusReason
  <2>3. Label # before
    <3>1. InitLabel.init
      BY DEF InitLabel, OfInit
    <3>2. Phase \notin Failing
      BY <1>3 DEF Phase, Failing
    <3>3. QED
      BY <1>1, <1>3, <2>2, <3>1, <3>2 DEF Plain
  <2>4. PICK down : down = {k \in DOMAIN mains : mains[k].is # "running"}
    OBVIOUS
  <2>5. PICK label : label = IF down = {} THEN before ELSE Plain(mains[Min(down)].why)
    OBVIOUS
  <2>6. Label \in {label, Plain("Running"), Plain("NotReady")}
    BY <2>2, <2>3, <2>4, <2>5 DEF MainLabel
  <2>7. Label = label /\ down # {} /\ label = Plain(mains[Min(down)].why)
    <3>1. Plain("Running").text \notin Failing /\ Plain("NotReady").text \notin Failing
      BY DEF Plain, Failing
    <3>2. QED
      BY <1>1, <1>3, <2>3, <2>5, <2>6, <3>1
  <2>8. Min(down) \in down
    <3>1. down \subseteq Nat
      BY <2>4, PodAssumption DEF PodInv, Mains
    <3>2. QED
      BY <2>7, <3>1, FirstIsOne
  <2>9. mains[Min(down)].why \in Failing
    BY <1>1, <1>3, <2>7 DEF Plain
  <2>10. QED
    BY <1>1, <2>4, <2>8, <2>9, DownInFailing
<1>4. QED
  BY <1>2, <1>3

LEMMA RedSquareHasBadge ==
  ASSUME PodInv, NEW k \in DOMAIN mains, Square(mains[k]) = "bad" PROVE Issues # {}
<1>1. CASE deleting \/ Phase = "Failed"
  <2>1. <<"warn", "deletion">> \in Issues \/ <<"bad", "phase">> \in Issues
    BY <1>1, Zenon DEF Issues
  <2>2. QED
    BY <2>1
<1>2. CASE ~deleting /\ Phase # "Failed"
  <2>1. PICK c : c = mains[k]
    OBVIOUS
  <2>2. PICK label, n : /\ Kind(Plain(label), Phase, n, 1) = "bad"
                        /\ label = IF c.is = "running" THEN (IF c.ready THEN "Running" ELSE "NotReady") ELSE c.why
    BY <1>2, <2>1 DEF Square
  <2>3. Phase # "Succeeded" /\ Plain(label).text \in Failing
    BY <1>2, <2>2, RedTexts
  <2>4. label \in Failing
    BY <2>3 DEF Plain
  <2>5. c.is # "running" /\ c.why \in Failing
    BY <2>2, <2>4 DEF Failing
  <2>6. QED
    BY <2>1, <2>3, <2>5, DownInFailing
<1>3. QED
  BY <1>1, <1>2

\* For any pod of any containers, however they start, end, crash and are
\* evicted: the chip is green exactly for a pod that does its work, whose squares
\* are then green and which has no badge, and whatever is red has a badge.
THEOREM PodsAreReadRight == PodSpec => []PodIsReadRight
<1>1. PodInv => PodIsReadRight
  <2> SUFFICES ASSUME PodInv PROVE PodIsReadRight
    OBVIOUS
  <2>1. Chip = "ok" => Healthy /\ Badge = "none" /\ \A k \in DOMAIN mains : Square(mains[k]) = "ok"
    BY GreenChip, GreenHasNoBadge
  <2>2. GreenIsHealthy
    BY <2>1, HealthyIsGreen DEF GreenIsHealthy
  <2>3. Issues # {} => Badge # "none"
    BY DEF Badge
  <2>4. ReadingsAgree
    <3>1. Badge = "bad" => Chip # "ok"
      BY <2>1
    <3>2. QED
      BY <2>3, <3>1, RedChipHasBadge, RedSquareHasBadge DEF ReadingsAgree
  <2>5. QED
    BY <2>2, <2>4 DEF PodIsReadRight
<1>2. QED
  BY PodInvariance, <1>1, PTL
-----------------------------------------------------------------------------
(* What belongs to an object.  A controller owns what its kind may own, so a    *)
(* chain of owners has at most three members; a workload that is alive has its   *)
(* name for itself; and the page's copy of the object is one of those that the   *)
(* page is about.                                                             *)
Owned(parent, o) == parent \in Objects /\ <<kind[parent], kind[o]>> \in MayOwn

OwnInv ==
  /\ kind \in Shapes /\ alive \subseteq Objects /\ Fixed \subseteq alive
  /\ owner \in [Objects -> Objects \cup {"none"}]
  /\ learnt \in [Objects -> Objects \cup {"none", "absent"}]
  /\ \A o \in alive : owner[o] # "none" => Owned(owner[o], o)
  /\ \A o \in Objects : learnt[o] \notin {"none", "absent"} => Owned(learnt[o], o)
  /\ \A o, x \in alive : x \in Namesakes(o) /\ kind[o] \in WorkloadKinds => x = o
  /\ obj # "none" => obj \in Objects /\ About(obj) = page

LEMMA OwnInitInv == OwnInit => OwnInv
BY OwnershipAssumption DEF OwnInit, OwnInv, Namesakes, WorkloadKinds

LEMMA OwnStep == OwnInv /\ [OwnNext]_ownVars => OwnInv'
<1> SUFFICES ASSUME OwnInv, [OwnNext]_ownVars PROVE OwnInv'
  OBVIOUS
<1> USE OwnershipAssumption
<1>0. /\ kind \in Shapes /\ alive \subseteq Objects /\ Fixed \subseteq alive
      /\ owner \in [Objects -> Objects \cup {"none"}]
      /\ learnt \in [Objects -> Objects \cup {"none", "absent"}]
      /\ \A x \in alive : owner[x] # "none" => Owned(owner[x], x)
      /\ \A x \in Objects : learnt[x] \notin {"none", "absent"} => Owned(learnt[x], x)
  BY DEF OwnInv
<1>1. ASSUME NEW o \in Objects, NEW parent \in Objects \cup {"none"}, Create(o, parent) PROVE OwnInv'
  <2>1. /\ alive' = alive \cup {o} /\ owner' = [owner EXCEPT ![o] = parent]
        /\ UNCHANGED <<kind, learnt, page, obj>> /\ Namesakes(o) \cap alive = {}
        /\ parent # "none" => Owned(parent, o)
    BY <1>1 DEF Create, Owned, OwnInv
  <2>2. /\ (\A x \in alive : owner[x] # "none" => Owned(owner[x], x))'
        /\ (\A x \in Objects : learnt[x] \notin {"none", "absent"} => Owned(learnt[x], x))'
    <3>1. \A p, x : Owned(p, x)' <=> Owned(p, x)
      BY <2>1 DEF Owned
    <3>2. \A x \in alive' : owner'[x] = IF x = o THEN parent ELSE owner[x]
      BY <1>0, <2>1
    <3>3. QED
      BY <1>0, <2>1, <3>1, <3>2
  <2>3. \A y, x \in alive' : x \in Namesakes(y)' /\ kind'[y] \in WorkloadKinds => x = y
    BY <2>1 DEF OwnInv, Namesakes
  <2>4. obj' # "none" => obj' \in Objects /\ About(obj)' = page'
    BY <2>1 DEF OwnInv, About
  <2>5. owner' \in [Objects -> Objects \cup {"none"}]
    BY <1>0, <2>1
  <2>6. QED
    BY <1>0, <2>1, <2>2, <2>3, <2>4, <2>5 DEF OwnInv
<1>2. ASSUME NEW o \in Objects, NEW parent \in Objects \cup {"none"}, Reown(o, parent) PROVE OwnInv'
  <2>1. /\ owner' = [owner EXCEPT ![o] = parent] /\ UNCHANGED <<kind, alive, learnt, page, obj>>
        /\ parent # "none" => Owned(parent, o)
    BY <1>2 DEF Reown, Owned, OwnInv
  <2>2. /\ (\A x \in alive : owner[x] # "none" => Owned(owner[x], x))'
        /\ (\A x \in Objects : learnt[x] \notin {"none", "absent"} => Owned(learnt[x], x))'
    <3>1. \A p, x : Owned(p, x)' <=> Owned(p, x)
      BY <2>1 DEF Owned
    <3>2. \A x \in alive' : owner'[x] = IF x = o THEN parent ELSE owner[x]
      BY <1>0, <2>1
    <3>3. QED
      BY <1>0, <2>1, <3>1, <3>2
  <2>3. /\ obj' # "none" => obj' \in Objects /\ About(obj)' = page'
        /\ \A y, x \in alive' : x \in Namesakes(y)' /\ kind'[y] \in WorkloadKinds => x = y
    BY <2>1 DEF OwnInv, About, Namesakes
  <2>4. owner' \in [Objects -> Objects \cup {"none"}]
    BY <1>0, <2>1
  <2>5. QED
    BY <1>0, <2>1, <2>2, <2>3, <2>4 DEF OwnInv
<1>3. ASSUME NEW o \in Objects, Delete(o) PROVE OwnInv'
  BY <1>3 DEF Delete, OwnInv, Owned, About, Namesakes
<1>4. ASSUME NEW o \in Objects, ListFollows(o) PROVE OwnInv'
  <2>1. learnt' = [learnt EXCEPT ![o] = Current(o)] /\ UNCHANGED <<clusterVars, page, obj>>
    BY <1>4 DEF ListFollows
  <2>2. Current(o) \in Objects \cup {"none", "absent"}
        /\ (Current(o) \notin {"none", "absent"} => Owned(Current(o), o))
    BY DEF Current, OwnInv
  <2>3. (\A x \in Objects : learnt[x] \notin {"none", "absent"} => Owned(learnt[x], x))'
    BY <1>0, <2>1, <2>2 DEF Owned, clusterVars
  <2>4. QED
    BY <2>1, <2>2, <2>3 DEF OwnInv, Owned, About, Namesakes, clusterVars
<1>5. ASSUME NEW o \in Objects, ObjectFollows(o) PROVE OwnInv'
  BY <1>5 DEF ObjectFollows, OwnInv, Owned, About, Namesakes, clusterVars
<1>6. ASSUME NEW o \in Objects, OpenPage(o) PROVE OwnInv'
  BY <1>6 DEF OpenPage, OwnInv, Owned, About, Namesakes, clusterVars
<1>7. CASE UNCHANGED <<clusterVars, learnt, page, obj>>
  BY <1>7 DEF OwnInv, Owned, About, Namesakes, clusterVars
<1>8. QED
  BY <1>1, <1>2, <1>3, <1>4, <1>5, <1>6, <1>7 DEF OwnNext, SlicesFollow, ownVars

LEMMA OneStory == SectionsAgree
<1>1. ASSUME page.kind \in WorkloadKinds
      PROVE  RelatedPods = TopologyPods /\ RelatedMiddle = TopologyMiddle
             /\ DescendantUIDs = RelatedMiddle \cup RelatedPods
  BY <1>1 DEF WorkloadKinds, RelatedPods, TopologyPods, RelatedMiddle, TopologyMiddle, DescendantUIDs, Listed
<1>2. ASSUME page.kind = "Service" PROVE RelatedPods \subseteq TopologyPods
  BY <1>2 DEF WorkloadKinds, RelatedPods, TopologyPods, Listed
<1>3. QED
  BY <1>1, <1>2 DEF SectionsAgree

\* What is shown of a workload, once all is learnt: the owned ones and theirs.
LEMMA ShownOnes ==
  ASSUME OwnInv, CaughtUp, page.kind \in WorkloadKinds
  PROVE  /\ kind[obj] = page.kind /\ obj \in alive
         /\ RelatedMiddle \cup RelatedPods \subseteq alive \ {obj}
         /\ \A x \in RelatedMiddle \cup RelatedPods : owner[x] \in {obj} \cup RelatedMiddle
         /\ \A x \in alive : owner[x] \in {obj} \cup RelatedMiddle \cup RelatedPods =>
                             x \in RelatedMiddle \cup RelatedPods
<1> USE OwnershipAssumption
<1>1. obj \in alive /\ obj \in Objects /\ obj # "none" /\ kind[obj] = page.kind
  BY DEF CaughtUp, OwnInv, About
<1>2. \A x \in Objects : IF x \in alive THEN learnt[x] = owner[x] ELSE learnt[x] = "absent"
  BY DEF CaughtUp, Current
<1>3. \A x \in alive : x \in Objects /\ learnt[x] = owner[x] /\ owner[x] # "absent"
  BY <1>2 DEF OwnInv
<1>4. \A x \in alive : owner[x] \in Objects => <<kind[owner[x]], kind[x]>> \in MayOwn
  BY DEF OwnInv, Owned
<1>5. CASE page.kind = "Deployment"
  <2>1. RelatedMiddle = {x \in alive : kind[x] = "ReplicaSet" /\ owner[x] = obj}
    BY <1>1, <1>2, <1>3, <1>5 DEF RelatedMiddle, OwnedBy, Listed
  <2>2. RelatedPods = {x \in alive : kind[x] = "Pod" /\ owner[x] \in RelatedMiddle}
    <3>1. RelatedPods = OwnedBy({x \in Objects : kind[x] = "Pod" /\ learnt[x] # "absent"}, RelatedMiddle)
      BY <1>5 DEF RelatedPods, WorkloadKinds, Listed
    <3>2. \A x \in RelatedMiddle : x \in Objects /\ x # "none"
      BY <2>1 DEF OwnInv
    <3>3. QED
      BY <1>2, <1>3, <3>1, <3>2 DEF OwnedBy
  <2>3. QED
    BY <1>1, <1>4, <1>5, <2>1, <2>2 DEF MayOwn, OwnInv
<1>6. CASE page.kind = "CronJob"
  <2>1. RelatedMiddle = {x \in alive : kind[x] = "Job" /\ owner[x] = obj}
    BY <1>1, <1>2, <1>3, <1>6 DEF RelatedMiddle, OwnedBy, Listed
  <2>2. RelatedPods = {x \in alive : kind[x] = "Pod" /\ owner[x] \in RelatedMiddle}
    <3>1. RelatedPods = OwnedBy({x \in Objects : kind[x] = "Pod" /\ learnt[x] # "absent"}, RelatedMiddle)
      BY <1>6 DEF RelatedPods, WorkloadKinds, Listed
    <3>2. \A x \in RelatedMiddle : x \in Objects /\ x # "none"
      BY <2>1 DEF OwnInv
    <3>3. QED
      BY <1>2, <1>3, <3>1, <3>2 DEF OwnedBy
  <2>3. QED
    BY <1>1, <1>4, <1>6, <2>1, <2>2 DEF MayOwn, OwnInv
<1>7. CASE page.kind \in {"StatefulSet", "ReplicaSet", "Job"}
  <2>1. RelatedMiddle = {}
    BY <1>7 DEF RelatedMiddle
  <2>2. RelatedPods = {x \in alive : kind[x] = "Pod" /\ owner[x] = obj}
    <3>1. RelatedPods = OwnedBy({x \in Objects : kind[x] = "Pod" /\ learnt[x] # "absent"}, {obj})
      BY <1>7 DEF RelatedPods, WorkloadKinds, Listed
    <3>2. QED
      BY <1>1, <1>2, <1>3, <3>1 DEF OwnedBy
  <2>3. QED
    BY <1>1, <1>4, <1>7, <2>1, <2>2 DEF MayOwn, OwnInv
<1>8. QED
  BY <1>5, <1>6, <1>7 DEF WorkloadKinds

LEMMA TrueStory == OwnInv => ShowsDescendants
<1> SUFFICES ASSUME OwnInv, CaughtUp, page.kind \in WorkloadKinds
             PROVE  /\ RelatedMiddle \cup RelatedPods = Descending \ {obj}
                    /\ \A o \in Events : EventShown(o) <=> o \in Descending \/ o \in Namesakes(obj)
  BY DEF ShowsDescendants
<1> DEFINE Below == RelatedMiddle \cup RelatedPods
<1>1. /\ kind[obj] = page.kind /\ obj \in alive /\ Below \subseteq alive \ {obj}
      /\ \A x \in Below : owner[x] \in {obj} \cup RelatedMiddle
      /\ \A x \in alive : owner[x] \in {obj} \cup Below => x \in Below
  BY ShownOnes
<1>2. Descending \subseteq {obj} \cup Below
  <2>1. {obj} \cup Below \in SUBSET alive
    BY <1>1
  <2>2. {x \in alive : owner[x] \in {obj} \cup Below} \subseteq {obj} \cup Below
    BY <1>1
  <2>3. QED
    BY <2>1, <2>2 DEF Descending
<1>3. {obj} \cup Below \subseteq Descending
  <2>1. ASSUME NEW S \in SUBSET alive, obj \in S, {x \in alive : owner[x] \in S} \subseteq S,
               NEW o \in {obj} \cup Below
        PROVE  o \in S
    <3>1. RelatedMiddle \subseteq S
      <4> SUFFICES ASSUME NEW m \in RelatedMiddle PROVE m \in S
        OBVIOUS
      <4>1. m \in alive /\ owner[m] \in {obj} \cup RelatedMiddle
        BY <1>1
      <4>2. owner[m] = obj
        BY <4>1, ShownOnes, OwnershipAssumption DEF RelatedMiddle, OwnedBy, CaughtUp, Current, Listed, OwnInv
      <4>3. QED
        BY <2>1, <4>1, <4>2
    <3>2. QED
      BY <1>1, <2>1, <3>1
  <2>2. QED
    BY <1>1, <2>1 DEF Descending
<1>4. \A o \in Events : EventShown(o) <=> o \in {obj} \cup Below \/ o \in Namesakes(obj)
  <2>1. DescendantUIDs = Below
    BY OneStory DEF SectionsAgree
  <2>2. ASSUME NEW o \in Objects PROVE About(o) = page <=> o \in Namesakes(obj)
    <3>1. About(obj) = page
      BY <1>1, OwnershipAssumption DEF OwnInv
    <3>2. QED
      BY <3>1 DEF About, Namesakes
  <2>3. QED
    BY <2>1, <2>2 DEF EventShown, Events
<1>5. QED
  BY <1>1, <1>2, <1>3, <1>4

\* For any objects of any names, in whatever order they are created, deleted,
\* adopted and released and the lists hear of it: the three sections of a
\* workload's page agree, and once all is learnt they show what descends from the
\* object and nothing else, but for events of former objects of its kind and name.
THEOREM PagesShowWhatBelongs == OwnSpec => []BelongingsAreRight
<1>1. OwnInv => BelongingsAreRight
  BY OneStory, TrueStory DEF BelongingsAreRight
<1>2. QED
  BY <1>1, OwnInitInv, OwnStep, PTL DEF OwnSpec
=============================================================================
