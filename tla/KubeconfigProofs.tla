-------------------------- MODULE KubeconfigProofs --------------------------
(* Theorems about ClusterManager and Registry. *)
EXTENDS ClusterManager, Registry, FiniteSetTheorems, WellFoundedInduction, TLAPS

LEMMA ContextsAreNaturals ==
  /\ Contexts \subseteq Nat
  /\ Names \subseteq Nat \X Nat
BY ContextsInAssumption DEF Contexts, Names

\* m.order has a first element when it has any.
LEMMA FirstExists ==
  ASSUME NEW ns \in SUBSET Names, ns # {}
  PROVE  FirstOf(ns) \in ns
<1> DEFINE R == OpToRel(<, Nat)
           L == LexPairOrdering(R, R, Nat, Nat)
<1>1. IsWellFoundedOn(L, Nat \X Nat)
  BY NatLessThanWellFounded, WFLexPairOrdering
<1>2. PICK x \in ns : \A y \in ns : <<y, x>> \notin L
  <2>1. ns \subseteq Nat \X Nat
    BY ContextsAreNaturals
  <2> HIDE DEF L
  <2> QED BY <1>1, <2>1, WFMin
<1>3. ASSUME NEW y \in ns \ {x} PROVE NameBefore(x, y)
  <2>1. /\ x = <<x[1], x[2]>> /\ x[1] \in Nat /\ x[2] \in Nat
        /\ y = <<y[1], y[2]>> /\ y[1] \in Nat /\ y[2] \in Nat
    <3>1. x \in Nat \X Nat /\ y \in Nat \X Nat
      BY <1>2, <1>3, ContextsAreNaturals
    <3> QED BY <3>1
  <2>2. <<y, x>> \notin L
    BY <1>2
  <2>3. ~(y[1] < x[1]) /\ ~(y[1] = x[1] /\ y[2] < x[2])
    BY <2>1, <2>2 DEF OpToRel, LexPairOrdering
  <2>4. x[1] # y[1] \/ x[2] # y[2]
    BY <2>1
  <2> QED BY <2>1, <2>3, <2>4 DEF NameBefore
<1> QED BY <1>2, <1>3 DEF FirstOf

\* The loop over suffixes in addContextsFromYAML ends, at a name that is free.
LEMMA SuffixIsFree ==
  ASSUME NEW cs, IsFiniteSet(DOMAIN cs), NEW c \in Contexts
  PROVE  /\ FreeSuffix(cs, c) \in Nat \ {0}
         /\ Name(c, FreeSuffix(cs, c)) \notin DOMAIN cs
<1> DEFINE K == Cardinality(DOMAIN cs) + 1
           Free == {n \in 1..K : Name(c, n) \notin DOMAIN cs}
           R == OpToRel(<, Nat)
<1>1. K \in Nat \ {0} /\ Cardinality(DOMAIN cs) < K
  BY FS_CardinalityType
<1>2. Free # {}
  <2> SUFFICES ASSUME Free = {} PROVE FALSE
    OBVIOUS
  <2> DEFINE f == [n \in 1..K |-> Name(c, n)]
  <2>1. f \in [1..K -> DOMAIN cs]
    OBVIOUS
  <2>2. IsFiniteSet(1..K) /\ Cardinality(DOMAIN cs) < Cardinality(1..K)
    <3> HIDE DEF K
    <3>1. IsFiniteSet(1..K) /\ Cardinality(1..K) = IF 1 > K THEN 0 ELSE K - 1 + 1
      BY <1>1, FS_Interval
    <3>2. Cardinality(1..K) = K
      BY <1>1, <3>1
    <3> QED BY <1>1, <3>1, <3>2
  <2>4. \A n \in 1..K : f[n] = Name(c, n)
    OBVIOUS
  <2> HIDE DEF K, f
  <2>3. \E m, n \in 1..K : m # n /\ f[m] = f[n]
    <3> DEFINE S == 1..K
               T == DOMAIN cs
    <3>1. IsFiniteSet(S) /\ IsFiniteSet(T) /\ Cardinality(T) < Cardinality(S) /\ f \in [S -> T]
      BY <2>1, <2>2
    <3> HIDE DEF S, T
    <3>2. \E m, n \in S : m # n /\ f[m] = f[n]
      BY <3>1, FS_PigeonHole
    <3> QED BY <3>2 DEF S
  <2> QED BY <2>3, <2>4 DEF Name
<1>3. PICK n \in Free : \A m \in Free : <<m, n>> \notin R
  <2>1. Free \subseteq Nat
    BY <1>1
  <2> HIDE DEF Free, R
  <2>2. IsWellFoundedOn(R, Nat)
    BY NatLessThanWellFounded DEF R
  <2> QED BY <1>2, <2>1, <2>2, WFMin
<1>4. \A i \in 1..(n - 1) : Name(c, i) \in DOMAIN cs
  <2> SUFFICES ASSUME NEW i \in 1..(n - 1), Name(c, i) \notin DOMAIN cs PROVE FALSE
    OBVIOUS
  <2>1. n \in 1..K /\ K \in Nat
    BY <1>1, <1>3
  <2>2. i \in Free /\ i < n /\ i \in Nat /\ n \in Nat
    BY <2>1
  <2>3. <<i, n>> \in R
    BY <2>2 DEF OpToRel
  <2> QED BY <1>3, <2>2, <2>3
<1>5. n \in 1..(Cardinality(DOMAIN cs) + 1) /\ Name(c, n) \notin DOMAIN cs
  BY <1>3
<1>6. /\ FreeSuffix(cs, c) \in 1..(Cardinality(DOMAIN cs) + 1)
      /\ Name(c, FreeSuffix(cs, c)) \notin DOMAIN cs
  BY <1>4, <1>5, Zenon DEF FreeSuffix
<1> QED BY <1>1, <1>6

\* The names given to the contexts of a file are new and finitely many.
LEMMA AssignedAreNew ==
  ASSUME NEW cs, IsFiniteSet(DOMAIN cs),
         NEW ctxs \in SUBSET Contexts, IsFiniteSet(ctxs), ctxs # {}
  PROVE  /\ IsFiniteSet(Assigned(cs, ctxs))
         /\ Assigned(cs, ctxs) # {}
         /\ Assigned(cs, ctxs) \subseteq Names
         /\ \A x \in Assigned(cs, ctxs) : x \notin DOMAIN cs /\ x[1] \in ctxs
<1> DEFINE f == [c \in ctxs |-> Name(c, FreeSuffix(cs, c))]
<1>1. f \in Surjection(ctxs, Assigned(cs, ctxs))
  BY DEF Surjection, Assigned
<1>2. IsFiniteSet(Assigned(cs, ctxs))
  BY <1>1, FS_Surjection
<1>3. \A c \in ctxs : FreeSuffix(cs, c) \in Nat \ {0} /\ Name(c, FreeSuffix(cs, c)) \notin DOMAIN cs
  BY SuffixIsFree
<1>4. ASSUME NEW x \in Assigned(cs, ctxs)
      PROVE  x \in Names /\ x \notin DOMAIN cs /\ x[1] \in ctxs
  <2>1. PICK c \in ctxs : x = Name(c, FreeSuffix(cs, c))
    BY DEF Assigned
  <2>2. x = <<c, FreeSuffix(cs, c)>> /\ x[1] = c
    BY <2>1 DEF Name
  <2>3. FreeSuffix(cs, c) \in Nat \ {0} /\ c \in Contexts
    BY <1>3, <2>1
  <2>4. x \in Names
    BY <2>2, <2>3 DEF Names
  <2> QED BY <1>3, <2>1, <2>2, <2>4
<1>5. Assigned(cs, ctxs) # {}
  BY DEF Assigned
<1> QED BY <1>2, <1>4, <1>5

-----------------------------------------------------------------------------
(* The invariant                                                           *)

IInv == TypeOK /\ CurrentIsUsable

\* Registering the contexts of a file keeps every cluster that is there, and
\* leaves a default.
LEMMA Registered ==
  ASSUME IInv, NEW y \in Payloads,
         NEW ctxs \in SUBSET ContextsIn[y], ctxs # {},
         clusters' = WithContexts(clusters, y, ctxs),
         current' = Promoted(clusters, ctxs)
  PROVE  /\ ClusterTypes'
         /\ current' \in DOMAIN clusters'
         /\ \A x \in DOMAIN clusters : x \in DOMAIN clusters' /\ clusters'[x] = clusters[x]
<1> DEFINE added == Assigned(clusters, ctxs)
<1>1. IsFiniteSet(ctxs) /\ ctxs \in SUBSET Contexts
  BY ContextsInAssumption, FS_Subset DEF Contexts
<1>2. /\ IsFiniteSet(DOMAIN clusters) /\ DOMAIN clusters \subseteq Names
      /\ clusters \in [DOMAIN clusters -> [payload : Payloads, context : Contexts]]
      /\ \A x \in DOMAIN clusters : clusters[x].context = x[1]
  BY DEF IInv, TypeOK, ClusterTypes
<1>3. /\ IsFiniteSet(added) /\ added # {} /\ added \subseteq Names
      /\ \A x \in added : x \notin DOMAIN clusters /\ x[1] \in ctxs
  BY <1>1, <1>2, AssignedAreNew
<1>4. clusters' = [x \in DOMAIN clusters \cup added |-> IF x \in added THEN Origin(y, x) ELSE clusters[x]]
  BY DEF WithContexts
<1> HIDE DEF added
<1>5. DOMAIN clusters' = DOMAIN clusters \cup added
  BY <1>4
<1>6. \A x \in DOMAIN clusters : x \in DOMAIN clusters' /\ clusters'[x] = clusters[x]
  BY <1>3, <1>4, <1>5
<1>7. \A x \in added : clusters'[x] = [payload |-> y, context |-> x[1]]
  BY <1>4, <1>5 DEF Origin
<1>8. ClusterTypes'
  <2>0. IsFiniteSet(DOMAIN clusters \cup added)
    BY <1>2, <1>3, FS_Union
  <2>1. IsFiniteSet(DOMAIN clusters')
    BY <1>5, <2>0
  <2>2. \A x \in DOMAIN clusters' : clusters'[x] \in [payload : Payloads, context : Contexts] /\ clusters'[x].context = x[1]
    BY <1>1, <1>2, <1>3, <1>5, <1>6, <1>7
  <2>3. clusters' \in [DOMAIN clusters' -> [payload : Payloads, context : Contexts]]
    BY <1>4, <1>5, <2>2
  <2> QED BY <1>2, <1>3, <1>5, <2>1, <2>2, <2>3 DEF ClusterTypes
<1>9. current' \in DOMAIN clusters'
  <2>1. CASE current = None
    BY <1>3, <1>5, <2>1, FirstExists DEF Promoted, added
  <2>2. CASE current # None
    BY <1>5, <2>2 DEF Promoted, IInv, CurrentIsUsable
  <2> QED BY <2>1, <2>2
<1> QED BY <1>6, <1>8, <1>9

LEMMA InitIInv == Init => IInv
<1> SUFFICES ASSUME Init PROVE IInv
  OBVIOUS
<1>1. DOMAIN clusters = {} /\ clusters = [x \in {} |-> None]
  BY DEF Init
<1>2. DOMAIN disk = {} /\ disk = [x \in {} |-> None]
  BY DEF Init
<1>3. ClusterTypes
  BY <1>1, FS_EmptySet DEF ClusterTypes
<1>4. DiskTypes
  BY <1>2 DEF Init, DiskTypes
<1>5. job \in [Handlers -> JobTypes]
  BY DEF Init, JobTypes
<1>6. CurrentIsUsable
  BY <1>1 DEF Init, CurrentIsUsable
<1> QED BY <1>3, <1>4, <1>5, <1>6 DEF Init, IInv, TypeOK

\* What a request has in hand at each step.
LEMMA InHand ==
  ASSUME TypeOK, NEW h \in Handlers
  PROVE  /\ At(h, "naming") => job[h].payload \in Payloads /\ job[h].stem \in Stems
         /\ At(h, "writing") \/ At(h, "filling") \/ At(h, "marking") =>
              /\ job[h] \in [at : {"writing", "filling", "marking"}, payload : Payloads, path : Paths]
         /\ At(h, "scanning") => job[h].name \in Names /\ job[h].of \in Payloads
         /\ At(h, "found") \/ At(h, "rewriting") =>
              job[h] \in [at : {"found", "rewriting"}, name : Names, path : Paths, file : FileTypes]
         /\ At(h, "forgetting") => job[h].path \in Paths
BY DEF TypeOK, JobTypes, At, Idle

\* Files stay well typed when one is written.
LEMMA Written ==
  ASSUME DiskTypes, NEW p \in Paths, NEW y \in Payloads,
         NEW ctxs \in SUBSET ContextsIn[y], Write(p, y, ctxs),
         UNCHANGED <<loaded, unread>>
  PROVE  DiskTypes'
<1>1. [payload |-> y, contexts |-> ctxs] \in FileTypes
  BY DEF FileTypes, Contexts
<1> QED BY <1>1 DEF DiskTypes, Write

-----------------------------------------------------------------------------
(* Requests                                                                *)

\* A step of a request that is not about the map keeps the map's invariant.
LEMMA MapUntouched ==
  ASSUME IInv, UNCHANGED <<clusters, current>>
  PROVE  (ClusterTypes /\ current \in Names \cup {None} /\ CurrentIsUsable)'
BY DEF IInv, TypeOK, ClusterTypes, CurrentIsUsable

LEMMA ImportKeepsIInv ==
  ASSUME IInv, up, UNCHANGED <<up, unread>>, NEW h \in Handlers, Import(h)
  PROVE  IInv'
<1> USE DEF IInv
<1>0. TypeOK /\ DiskTypes /\ job \in [Handlers -> JobTypes] /\ clean \in BOOLEAN /\ own \in BOOLEAN
  BY DEF TypeOK
<1>1. ASSUME NEW y \in Payloads, NEW s \in Stems, ImportRegister(h, y, s) PROVE IInv'
  <2>1. ClusterTypes' /\ current' \in DOMAIN clusters'
    BY <1>1, ContextsInAssumption, Registered DEF ImportRegister
  <2>2. DiskTypes' /\ (clean' \in BOOLEAN /\ own' \in BOOLEAN)
    BY <1>0, <1>1 DEF ImportRegister, DiskTypes
  <2>3. job' \in [Handlers -> JobTypes]
    BY <1>0, <1>1 DEF ImportRegister, Do, JobTypes
  <2> QED BY <2>1, <2>2, <2>3 DEF TypeOK, ClusterTypes, CurrentIsUsable
<1>2. ASSUME UNCHANGED <<clusters, current>>, DiskTypes', (clean' \in BOOLEAN /\ own' \in BOOLEAN),
             NEW j \in JobTypes, Do(h, j)
      PROVE  IInv'
  <2>1. job' \in [Handlers -> JobTypes]
    BY <1>0, <1>2 DEF Do
  <2> QED BY <1>2, <2>1, MapUntouched DEF TypeOK
<1>3. CASE ImportName(h)
  <2>1. DiskTypes' /\ (clean' \in BOOLEAN /\ own' \in BOOLEAN)
    BY <1>0, <1>3 DEF ImportName, DiskTypes
  <2>2. job[h].payload \in Payloads /\ job[h].stem \in Stems
    BY <1>0, <1>3, InHand DEF ImportName
  <2>3. PICK n \in 1..(MaxFiles + 1) :
          Do(h, [at |-> "writing", payload |-> job[h].payload, path |-> <<job[h].stem, n>>])
    BY <1>3 DEF ImportName
  <2>4. <<job[h].stem, n>> \in Paths
    BY <2>2 DEF Paths
  <2>5. [at |-> "writing", payload |-> job[h].payload, path |-> <<job[h].stem, n>>] \in JobTypes
    BY <2>2, <2>4 DEF JobTypes
  <2> QED BY <1>2, <1>3, <2>1, <2>3, <2>5 DEF ImportName
<1>4. CASE ImportTruncate(h)
  <2>1. job[h] \in [at : {"writing", "filling", "marking"}, payload : Payloads, path : Paths]
    BY <1>0, <1>4, InHand DEF ImportTruncate
  <2>2. DiskTypes'
    BY <1>0, <1>4, <2>1, Written DEF ImportTruncate
  <2>3. [job[h] EXCEPT !.at = "filling"] \in JobTypes
    BY <2>1 DEF JobTypes
  <2> QED BY <1>0, <1>2, <1>4, <2>2, <2>3 DEF ImportTruncate
<1>5. CASE ImportFill(h)
  <2>1. job[h] \in [at : {"writing", "filling", "marking"}, payload : Payloads, path : Paths]
    BY <1>0, <1>5, InHand DEF ImportFill
  <2>2. DiskTypes'
    BY <1>0, <1>5, <2>1, Written DEF ImportFill
  <2>3. [job[h] EXCEPT !.at = "marking"] \in JobTypes
    BY <2>1 DEF JobTypes
  <2> QED BY <1>0, <1>2, <1>5, <2>2, <2>3 DEF ImportFill
<1>6. CASE ImportFails(h)
  <2>1. DiskTypes' /\ Idle \in JobTypes
    BY <1>0, <1>6 DEF ImportFails, DiskTypes, JobTypes
  <2> QED BY <1>2, <1>6, <2>1 DEF ImportFails
<1>7. CASE ImportMark(h)
  <2>1. job[h].path \in Paths
    BY <1>0, <1>7, InHand DEF ImportMark
  <2>2. DiskTypes' /\ Idle \in JobTypes
    BY <1>0, <1>7, <2>1 DEF ImportMark, DiskTypes, Recorded, JobTypes
  <2> QED BY <1>0, <1>2, <1>7, <2>2 DEF ImportMark
<1> QED BY <1>1, <1>3, <1>4, <1>5, <1>6, <1>7 DEF Import

LEMMA RemovalKeepsIInv ==
  ASSUME IInv, up, UNCHANGED <<up, unread>>, NEW h \in Handlers, Removal(h)
  PROVE  IInv'
<1> USE DEF IInv
<1>0. /\ TypeOK /\ DiskTypes /\ ClusterTypes /\ job \in [Handlers -> JobTypes]
      /\ clean \in BOOLEAN /\ own \in BOOLEAN /\ unread = {}
  BY DEF TypeOK
<1>1. ASSUME NEW x \in DOMAIN clusters, RemoveUnregister(h, x) PROVE IInv'
  <2>1. /\ clusters' = [z \in DOMAIN clusters \ {x} |-> clusters[z]]
        /\ current' = IF current = x THEN FirstClusterName(clusters') ELSE current
    BY <1>1 DEF RemoveUnregister
  <2>2. DOMAIN clusters' = DOMAIN clusters \ {x} /\ IsFiniteSet(DOMAIN clusters')
    BY <1>0, <2>1, FS_RemoveElement DEF ClusterTypes
  <2>3. ClusterTypes'
    BY <1>0, <2>1, <2>2 DEF ClusterTypes
  <2>4. CurrentIsUsable'
    <3>1. CASE DOMAIN clusters' = {}
      BY <2>1, <2>2, <3>1 DEF CurrentIsUsable, FirstClusterName
    <3>2. CASE DOMAIN clusters' # {} /\ current = x
      BY <2>1, <2>3, <3>2, FirstExists DEF CurrentIsUsable, FirstClusterName, ClusterTypes
    <3>3. CASE DOMAIN clusters' # {} /\ current # x
      BY <2>1, <2>2, <3>3 DEF CurrentIsUsable
    <3> QED BY <3>1, <3>2, <3>3
  <2>5. current' \in Names \cup {None}
    BY <2>3, <2>4 DEF CurrentIsUsable, ClusterTypes
  <2>6. [at |-> "scanning", name |-> x, of |-> clusters[x].payload] \in JobTypes
    BY <1>0 DEF ClusterTypes, JobTypes
  <2>7. job' \in [Handlers -> JobTypes] /\ DiskTypes' /\ (clean' \in BOOLEAN /\ own' \in BOOLEAN)
    BY <1>0, <1>1, <2>6 DEF RemoveUnregister, Do, DiskTypes
  <2> QED BY <2>3, <2>4, <2>5, <2>7 DEF TypeOK
<1>2. ASSUME UNCHANGED <<clusters, current>>, DiskTypes', (clean' \in BOOLEAN /\ own' \in BOOLEAN),
             NEW j \in JobTypes, Do(h, j)
      PROVE  IInv'
  <2>1. job' \in [Handlers -> JobTypes]
    BY <1>0, <1>2 DEF Do
  <2> QED BY <1>2, <2>1, MapUntouched DEF TypeOK
<1>3. CASE RemoveFind(h)
  <2>1. job[h].name \in Names
    BY <1>0, <1>3, InHand DEF RemoveFind
  <2>2. PICK p \in Holding(job[h].name) :
          Do(h, [at |-> "found", name |-> job[h].name, path |-> p, file |-> disk[p]])
    BY <1>3 DEF RemoveFind
  <2>3. p \in Paths /\ disk[p] \in FileTypes
    BY <1>0, <2>2 DEF Holding, DiskTypes
  <2>4. [at |-> "found", name |-> job[h].name, path |-> p, file |-> disk[p]] \in JobTypes
    BY <2>1, <2>3 DEF JobTypes
  <2>5. DiskTypes' /\ (clean' \in BOOLEAN /\ own' \in BOOLEAN)
    BY <1>0, <1>3 DEF RemoveFind, DiskTypes
  <2> QED BY <1>2, <1>3, <2>2, <2>4, <2>5 DEF RemoveFind
<1>4. CASE RemoveFindsNothing(h)
  <2>1. DiskTypes' /\ (clean' \in BOOLEAN /\ own' \in BOOLEAN) /\ Idle \in JobTypes
    BY <1>0, <1>4 DEF RemoveFindsNothing, DiskTypes, JobTypes
  <2> QED BY <1>2, <1>4, <2>1 DEF RemoveFindsNothing
<1>5. ASSUME At(h, "found") \/ At(h, "rewriting")
      PROVE  job[h] \in [at : {"found", "rewriting"}, name : Names, path : Paths, file : FileTypes]
  BY <1>0, <1>5, InHand
<1>6. CASE RemoveUnlink(h)
  <2>1. [at |-> "forgetting", path |-> job[h].path] \in JobTypes
    BY <1>5, <1>6 DEF RemoveUnlink, JobTypes
  <2>2. DiskTypes'
    BY <1>0, <1>6 DEF RemoveUnlink, DiskTypes
  <2> QED BY <1>0, <1>2, <1>6, <2>1, <2>2 DEF RemoveUnlink
<1>7. CASE RemoveForget(h)
  <2>1. DiskTypes' /\ Idle \in JobTypes
    BY <1>0, <1>7 DEF RemoveForget, DiskTypes, JobTypes
  <2> QED BY <1>0, <1>2, <1>7, <2>1 DEF RemoveForget
<1>8. ASSUME NEW f \in FileTypes, NEW ctxs \in SUBSET f.contexts
      PROVE  f.payload \in Payloads /\ ctxs \in SUBSET ContextsIn[f.payload]
  BY DEF FileTypes
<1>9. CASE RemoveTruncate(h)
  <2>1. job[h] \in [at : {"found", "rewriting"}, name : Names, path : Paths, file : FileTypes]
    BY <1>5, <1>9 DEF RemoveTruncate
  <2>2. DiskTypes'
    BY <1>0, <1>8, <1>9, <2>1, Written DEF RemoveTruncate
  <2>3. [job[h] EXCEPT !.at = "rewriting"] \in JobTypes
    BY <2>1 DEF JobTypes
  <2> QED BY <1>0, <1>2, <1>9, <2>2, <2>3 DEF RemoveTruncate
<1>10. CASE RemoveRewrite(h)
  <2>1. job[h] \in [at : {"found", "rewriting"}, name : Names, path : Paths, file : FileTypes]
    BY <1>5, <1>10 DEF RemoveRewrite
  <2>2. DiskTypes'
    BY <1>0, <1>8, <1>10, <2>1, Written DEF RemoveRewrite, Stripped
  <2>3. Idle \in JobTypes
    BY DEF JobTypes
  <2> QED BY <1>0, <1>2, <1>10, <2>2, <2>3 DEF RemoveRewrite
<1>11. CASE RemoveFails(h)
  <2>1. DiskTypes' /\ Idle \in JobTypes
    BY <1>0, <1>11 DEF RemoveFails, DiskTypes, JobTypes
  <2> QED BY <1>2, <1>11, <2>1 DEF RemoveFails
<1> QED BY <1>1, <1>3, <1>4, <1>6, <1>7, <1>9, <1>10, <1>11 DEF Removal

-----------------------------------------------------------------------------
(* The theorems                                                            *)

LEMMA StepIInv == IInv /\ [Next]_vars => IInv'
<1> SUFFICES ASSUME IInv, [Next]_vars PROVE IInv'
  OBVIOUS
<1>0. /\ TypeOK /\ DiskTypes /\ ClusterTypes /\ job \in [Handlers -> JobTypes]
      /\ clean \in BOOLEAN /\ own \in BOOLEAN /\ CurrentIsUsable
  BY DEF IInv, TypeOK
<1>1. CASE Serve
  <2>1. ASSUME NEW h \in Handlers, NEW x \in Askable, SetCurrent(h, x) PROVE IInv'
    <3>1. x \in DOMAIN clusters /\ current' = x
          /\ UNCHANGED <<clusters, loaded, disk, up, unread, job, clean, own>>
      BY <1>1, <2>1 DEF Serve, SetCurrent, Known
    <3> QED BY <1>0, <3>1 DEF IInv, TypeOK, ClusterTypes, DiskTypes, CurrentIsUsable
  <2> QED BY <1>1, <2>1, ImportKeepsIInv, RemovalKeepsIInv DEF Serve
<1>2. CASE Restart
  <2>1. DOMAIN clusters' = {} /\ clusters' = [x \in {} |-> None] /\ current' = None
    BY <1>2 DEF Restart
  <2>2. ClusterTypes' /\ CurrentIsUsable'
    BY <2>1, FS_EmptySet DEF ClusterTypes, CurrentIsUsable
  <2>3. DiskTypes'
    BY <1>0, <1>2 DEF Restart, DiskTypes
  <2>4. /\ job' \in [Handlers -> JobTypes] /\ (clean' \in BOOLEAN /\ own' \in BOOLEAN)
        /\ up' \in BOOLEAN /\ (up' => unread' = {})
    BY <1>0, <1>2 DEF Restart, JobTypes
  <2> QED BY <2>1, <2>2, <2>3, <2>4 DEF IInv, TypeOK
<1>3. CASE LoadFile
  <2>1. PICK p \in unread :
          /\ unread' = unread \ {p}
          /\ IF p \in loaded \/ disk[p].contexts = {}
             THEN UNCHANGED <<clusters, current, loaded>>
             ELSE /\ clusters' = WithContexts(clusters, disk[p].payload, disk[p].contexts)
                  /\ current' = Promoted(clusters, disk[p].contexts)
                  /\ loaded' = loaded \cup Recorded(p)
    BY <1>3 DEF LoadFile
  <2>2. p \in Paths /\ disk[p] \in FileTypes
    BY <1>0, <2>1 DEF DiskTypes
  <2>3. disk[p].payload \in Payloads /\ disk[p].contexts \in SUBSET ContextsIn[disk[p].payload]
    BY <2>2 DEF FileTypes
  <2>4. ClusterTypes' /\ CurrentIsUsable' /\ current' \in Names \cup {None}
    <3>1. CASE p \in loaded \/ disk[p].contexts = {}
      BY <2>1, <3>1, MapUntouched
    <3>2. CASE ~(p \in loaded \/ disk[p].contexts = {})
      <4>1. ClusterTypes' /\ current' \in DOMAIN clusters'
        BY <2>1, <2>3, <3>2, Registered
      <4> QED BY <4>1 DEF ClusterTypes, CurrentIsUsable
    <3> QED BY <3>1, <3>2
  <2>5. DiskTypes'
    BY <1>0, <1>3, <2>1, <2>2 DEF LoadFile, DiskTypes, Recorded
  <2>6. UNCHANGED <<up, job, clean, own>> /\ ~up
    BY <1>3 DEF LoadFile
  <2> QED BY <1>0, <2>4, <2>5, <2>6 DEF IInv, TypeOK
<1>4. CASE Ready
  <2>1. /\ current' = FirstClusterName(clusters) /\ unread = {}
        /\ UNCHANGED <<clusters, loaded, disk, unread, job, clean, own>> /\ up' = TRUE
    BY <1>4 DEF Ready
  <2>2. CurrentIsUsable' /\ current' \in Names \cup {None}
    BY <1>0, <2>1, FirstExists DEF CurrentIsUsable, FirstClusterName, ClusterTypes
  <2> QED BY <1>0, <2>1, <2>2 DEF IInv, TypeOK, ClusterTypes, DiskTypes
<1>5. CASE UNCHANGED vars
  BY <1>0, <1>5 DEF vars, IInv, TypeOK, ClusterTypes, DiskTypes, CurrentIsUsable
<1> QED BY <1>1, <1>2, <1>3, <1>4, <1>5 DEF Next

LEMMA Invariance == Spec => []IInv
<1>1. IInv /\ [Next]_vars => IInv'
  BY StepIInv
<1> QED BY InitIInv, <1>1, PTL DEF Spec

\* The manager's state is well typed, and a cluster connects to the context it
\* is named for, whatever is imported, removed, interrupted and reloaded.
THEOREM TypeCorrect == Spec => []TypeOK
<1>1. IInv => TypeOK
  BY DEF IInv
<1> QED BY Invariance, <1>1, PTL

\* m.current names a cluster if and only if there is one: the default that
\* Get("") serves never dangles.
THEOREM DefaultNeverDangles == Spec => []CurrentIsUsable
<1>1. IInv => CurrentIsUsable
  BY DEF IInv
<1> QED BY Invariance, <1>1, PTL

\* While the server runs, a registered name is never given to another cluster:
\* the suffix loop of addContextsFromYAML finds a free one every time.
THEOREM ClustersAreNotReplaced == Spec => NamesAreStable
<1> DEFINE Stable == up => \A x \in DOMAIN clusters \cap DOMAIN clusters' : clusters'[x] = clusters[x]
<1>1. IInv /\ [Next]_vars => [Stable]_vars
  <2> SUFFICES ASSUME IInv, Next, up, NEW x \in DOMAIN clusters, x \in DOMAIN clusters'
               PROVE  clusters'[x] = clusters[x]
    OBVIOUS
  <2>1. ASSUME NEW h \in Handlers, Import(h) PROVE clusters'[x] = clusters[x]
    <3>1. ASSUME NEW y \in Payloads, NEW s \in Stems, ImportRegister(h, y, s)
          PROVE  clusters'[x] = clusters[x]
      BY <3>1, ContextsInAssumption, Registered DEF ImportRegister
    <3>2. CASE UNCHANGED clusters
      BY <3>2
    <3> QED BY <2>1, <3>1, <3>2 DEF Import, ImportName, ImportTruncate, ImportFill, ImportFails, ImportMark
  <2>2. ASSUME NEW h \in Handlers, Removal(h) PROVE clusters'[x] = clusters[x]
    <3>1. ASSUME NEW z \in DOMAIN clusters, RemoveUnregister(h, z)
          PROVE  clusters'[x] = clusters[x]
      BY <3>1 DEF RemoveUnregister
    <3>2. CASE UNCHANGED clusters
      BY <3>2
    <3> QED BY <2>2, <3>1, <3>2 DEF Removal, RemoveFind, RemoveFindsNothing, RemoveUnlink,
                 RemoveForget, RemoveTruncate, RemoveRewrite, RemoveFails
  <2>3. ASSUME NEW h \in Handlers, NEW z \in Askable, SetCurrent(h, z) PROVE clusters'[x] = clusters[x]
    BY <2>3 DEF SetCurrent
  <2>4. CASE Restart
    BY <2>4 DEF Restart
  <2> QED BY <2>1, <2>2, <2>3, <2>4 DEF Next, Serve, LoadFile, Ready
<1> QED BY Invariance, <1>1, PTL DEF Spec, NamesAreStable

-----------------------------------------------------------------------------
(* What a restart gives back.  The clusters are counted against the copies on   *)
(* disk: while nothing has gone wrong, of each context there are at least as    *)
(* many copies as clusters, when what a request under way has yet to take from  *)
(* the disk is counted with the clusters and what it has yet to write with the  *)
(* copies.  It holds of the files read so far while the server starts.          *)

From(r) == IF r.at = "scanning" THEN r.of ELSE r.file.payload
Removes(r, c, ys) ==
  r.at \in {"scanning", "found", "rewriting"} /\ r.name = Name(c, 1) /\ From(r) \in ys
Owes(r, c, ys) ==
  \/ r.at \in {"naming", "writing", "filling"} /\ c \in ContextsIn[r.payload] /\ r.payload \in ys
  \/ r.at = "rewriting" /\ c \in r.file.contexts /\ r.file.payload \in ys
Named(c, ys) == {x \in DOMAIN clusters : x[1] = c /\ clusters[x].payload \in ys}
Removing(c, ys) == {h \in Handlers : Removes(job[h], c, ys)}
HeldOf(c, ys) == {p \in DOMAIN disk \ unread : c \in disk[p].contexts /\ disk[p].payload \in ys}
Owing(c, ys) == {h \in Handlers : Owes(job[h], c, ys)}
Covers(n, r, d, o) == Cardinality(n) + Cardinality(r) <= Cardinality(d) + Cardinality(o)
\* What is counted together: the clusters of all payloads, and of each while all
\* removals found their own files.
Counted == {ys \in SUBSET Payloads : ys = Payloads \/ own}
Balanced ==
  \A c \in Contexts, ys \in Counted : Covers(Named(c, ys), Removing(c, ys), HeldOf(c, ys), Owing(c, ys))

\* A request that has looked at the disk acts on what it saw.
OnDisk(r) == r.at \in {"writing", "filling", "marking", "found", "rewriting", "forgetting"}
SeesDisk(r) ==
  /\ r.at \in {"writing", "forgetting"} => r.path \notin DOMAIN disk
  /\ r.at \in {"filling", "rewriting"} => r.path \in DOMAIN disk /\ disk[r.path].contexts = {}
  /\ r.at = "found" => r.path \in DOMAIN disk /\ disk[r.path] = r.file
  /\ r.at \in {"found", "rewriting"} =>
       r.name[2] = 1 /\ r.name[1] \in r.file.contexts /\ r.path \in loaded
OneOnDisk == \A g, h \in Handlers : OnDisk(job[g]) /\ OnDisk(job[h]) => g = h
ReadIsLoaded ==
  \A p \in DOMAIN disk \ unread : disk[p].contexts # {} =>
     p \in loaded \/ \E h \in Handlers : job[h].at = "marking" /\ job[h].path = p
DiskInv ==
  /\ IsFiniteSet(DOMAIN disk) /\ IsFiniteSet({h \in Handlers : Busy(h)})
  /\ ~up => \A h \in Handlers : ~Busy(h)
  /\ own => clean
  /\ clean => /\ Balanced /\ OneOnDisk /\ ReadIsLoaded
              /\ \A h \in Handlers : SeesDisk(job[h])

\* One element comes, goes, or neither.
LEMMA Recount ==
  ASSUME NEW S, NEW T, NEW e, IsFiniteSet(S), T \ {e} = S \ {e}
  PROVE  /\ IsFiniteSet(T) /\ Cardinality(S) \in Nat /\ Cardinality(T) \in Nat
         /\ (e \in S) = (e \in T) => Cardinality(T) = Cardinality(S)
         /\ e \in T /\ e \notin S => Cardinality(T) = Cardinality(S) + 1
         /\ e \notin T /\ e \in S => Cardinality(T) = Cardinality(S) - 1
<1>1. CASE e \in T /\ e \notin S
  <2>1. T = S \cup {e}
    BY <1>1
  <2>2. QED
    BY <1>1, <2>1, FS_AddElement, FS_CardinalityType
<1>2. CASE e \notin T /\ e \in S
  <2>1. T = S \ {e}
    BY <1>2
  <2>2. QED
    BY <1>2, <2>1, FS_RemoveElement, FS_CardinalityType
<1>3. CASE (e \in S) = (e \in T)
  <2>1. T = S
    BY <1>3
  <2>2. QED
    BY <1>3, <2>1, FS_CardinalityType
<1>4. QED
  BY <1>1, <1>2, <1>3

One(b) == IF b THEN 1 ELSE 0

LEMMA CoversStays ==
  ASSUME NEW n1, NEW r1, NEW d1, NEW o1, IsFiniteSet(n1), IsFiniteSet(r1), IsFiniteSet(d1), IsFiniteSet(o1),
         Covers(n1, r1, d1, o1), NEW n2, NEW r2, NEW d2, NEW o2, NEW x, NEW h, NEW p,
         n2 \ {x} = n1 \ {x}, r2 \ {h} = r1 \ {h}, d2 \ {p} = d1 \ {p}, o2 \ {h} = o1 \ {h},
         One(x \in n2) + One(h \in r2) + One(p \in d1) + One(h \in o1)
           <= One(x \in n1) + One(h \in r1) + One(p \in d2) + One(h \in o2)
  PROVE  Covers(n2, r2, d2, o2)
<1>1. /\ Cardinality(n1) \in Nat /\ Cardinality(n2) \in Nat
      /\ Cardinality(n2) + One(x \in n1) = Cardinality(n1) + One(x \in n2)
  BY Recount DEF One
<1>2. /\ Cardinality(r1) \in Nat /\ Cardinality(r2) \in Nat
      /\ Cardinality(r2) + One(h \in r1) = Cardinality(r1) + One(h \in r2)
  BY Recount DEF One
<1>3. /\ Cardinality(d1) \in Nat /\ Cardinality(d2) \in Nat
      /\ Cardinality(d2) + One(p \in d1) = Cardinality(d1) + One(p \in d2)
  BY Recount DEF One
<1>4. /\ Cardinality(o1) \in Nat /\ Cardinality(o2) \in Nat
      /\ Cardinality(o2) + One(h \in o1) = Cardinality(o1) + One(h \in o2)
  BY Recount DEF One
<1>5. \A b : One(b) \in Nat
  BY DEF One
<1>6. PICK a1, a2, b1, b2, c1, c2, e1, e2 :
        /\ a1 = Cardinality(n1) /\ a2 = Cardinality(n2) /\ b1 = Cardinality(r1) /\ b2 = Cardinality(r2)
        /\ c1 = Cardinality(d1) /\ c2 = Cardinality(d2) /\ e1 = Cardinality(o1) /\ e2 = Cardinality(o2)
  OBVIOUS
<1>7. PICK u1, u2, v1, v2, w1, w2, y1, y2 :
        /\ u1 = One(x \in n1) /\ u2 = One(x \in n2) /\ v1 = One(h \in r1) /\ v2 = One(h \in r2)
        /\ w1 = One(p \in d1) /\ w2 = One(p \in d2) /\ y1 = One(h \in o1) /\ y2 = One(h \in o2)
  OBVIOUS
<1>8. /\ {a1, a2, b1, b2, c1, c2, e1, e2} \subseteq Nat /\ {u1, u2, v1, v2, w1, w2, y1, y2} \subseteq Nat
      /\ a2 + u1 = a1 + u2 /\ b2 + v1 = b1 + v2 /\ c2 + w1 = c1 + w2 /\ e2 + y1 = e1 + y2
      /\ u2 + v2 + w1 + y1 <= u1 + v1 + w2 + y2
  BY <1>1, <1>2, <1>3, <1>4, <1>5, <1>6, <1>7
<1>9. a1 + b1 <= c1 + e1
  BY <1>6 DEF Covers
<1>10. a2 + b2 <= c2 + e2
  BY <1>8, <1>9
<1>11. QED
  BY <1>6, <1>10 DEF Covers

LEMMA CountedAreFinite ==
  ASSUME IInv, DiskInv, NEW c, NEW ys
  PROVE  IsFiniteSet(Named(c, ys)) /\ IsFiniteSet(Removing(c, ys)) /\ IsFiniteSet(HeldOf(c, ys)) /\ IsFiniteSet(Owing(c, ys))
<1>1. IsFiniteSet(DOMAIN clusters) /\ IsFiniteSet(DOMAIN disk) /\ IsFiniteSet({h \in Handlers : Busy(h)})
  BY DEF IInv, TypeOK, ClusterTypes, DiskInv
<1>2. Removing(c, ys) \subseteq {h \in Handlers : Busy(h)} /\ Owing(c, ys) \subseteq {h \in Handlers : Busy(h)}
  BY DEF Removing, Owing, Removes, Owes, Busy, Idle
<1>3. Named(c, ys) \subseteq DOMAIN clusters /\ HeldOf(c, ys) \subseteq DOMAIN disk
  BY DEF Named, HeldOf
<1>4. QED
  BY <1>1, <1>2, <1>3, FS_Subset

\* What a step of request h with a file p does to the invariant: the parts that
\* change are those of h, of p and of one cluster of each context.
LEMMA RequestStep ==
  ASSUME IInv, DiskInv, up, UNCHANGED <<up, unread>>, NEW h \in Handlers, NEW j, Do(h, j)
  PROVE  /\ job'[h] = j /\ \A g \in Handlers \ {h} : job'[g] = job[g]
         /\ IsFiniteSet({g \in Handlers : Busy(g)})'
         /\ \A c, ys : Removing(c, ys)' \ {h} = Removing(c, ys) \ {h} /\ (h \in Removing(c, ys)' <=> Removes(j, c, ys))
         /\ \A c, ys : Owing(c, ys)' \ {h} = Owing(c, ys) \ {h} /\ (h \in Owing(c, ys)' <=> Owes(j, c, ys))
<1>1. job \in [Handlers -> JobTypes]
  BY DEF IInv, TypeOK
<1>2. job'[h] = j /\ \A g \in Handlers \ {h} : job'[g] = job[g]
  BY <1>1 DEF Do
<1>3. PICK f : f = job'
  OBVIOUS
<1>4. {g \in Handlers : f[g] # Idle} \ {h} = {g \in Handlers : job[g] # Idle} \ {h}
  BY <1>2, <1>3
<1>5. IsFiniteSet({g \in Handlers : job[g] # Idle})
  BY DEF DiskInv, Busy
<1>6. IsFiniteSet({g \in Handlers : f[g] # Idle})
  BY <1>4, <1>5, Recount
<1>7. IsFiniteSet({g \in Handlers : Busy(g)})'
  BY <1>3, <1>6 DEF Busy
<1>8. \A c, ys : Removing(c, ys)' \ {h} = Removing(c, ys) \ {h} /\ (h \in Removing(c, ys)' <=> Removes(j, c, ys))
  BY <1>2 DEF Removing, Removes
<1>9. \A c, ys : Owing(c, ys)' \ {h} = Owing(c, ys) \ {h} /\ (h \in Owing(c, ys)' <=> Owes(j, c, ys))
  BY <1>2 DEF Owing, Owes
<1>10. QED
  BY <1>2, <1>7, <1>8, <1>9

LEMMA Rebalanced ==
  ASSUME IInv, DiskInv, clean, own' => own, up, UNCHANGED <<up, unread>>,
         NEW h \in Handlers, NEW j, Do(h, j), NEW p,
         \A c \in Contexts, ys \in Counted' : \E x :
           /\ Named(c, ys)' \ {x} = Named(c, ys) \ {x} /\ HeldOf(c, ys)' \ {p} = HeldOf(c, ys) \ {p}
           /\ One(x \in Named(c, ys)') + One(Removes(j, c, ys)) + One(p \in HeldOf(c, ys)) + One(Owes(job[h], c, ys))
                <= One(x \in Named(c, ys)) + One(Removes(job[h], c, ys)) + One(p \in HeldOf(c, ys)') + One(Owes(j, c, ys))
  PROVE  Balanced'
<1> SUFFICES ASSUME NEW c \in Contexts, NEW ys \in Counted'
             PROVE  Covers(Named(c, ys)', Removing(c, ys)', HeldOf(c, ys)', Owing(c, ys)')
  BY DEF Balanced, Covers
<1>0. ys \in Counted
  BY DEF Counted
<1>1. PICK x : /\ Named(c, ys)' \ {x} = Named(c, ys) \ {x} /\ HeldOf(c, ys)' \ {p} = HeldOf(c, ys) \ {p}
               /\ One(x \in Named(c, ys)') + One(Removes(j, c, ys)) + One(p \in HeldOf(c, ys)) + One(Owes(job[h], c, ys))
                    <= One(x \in Named(c, ys)) + One(Removes(job[h], c, ys)) + One(p \in HeldOf(c, ys)') + One(Owes(j, c, ys))
  OBVIOUS
<1>2. PICK n1, r1, d1, o1 : n1 = Named(c, ys) /\ r1 = Removing(c, ys) /\ d1 = HeldOf(c, ys) /\ o1 = Owing(c, ys)
  OBVIOUS
<1>3. PICK n2, r2, d2, o2 : n2 = Named(c, ys)' /\ r2 = Removing(c, ys)' /\ d2 = HeldOf(c, ys)' /\ o2 = Owing(c, ys)'
  OBVIOUS
<1>4. IsFiniteSet(n1) /\ IsFiniteSet(r1) /\ IsFiniteSet(d1) /\ IsFiniteSet(o1)
  BY <1>2, CountedAreFinite
<1>5. Covers(n1, r1, d1, o1)
  BY <1>0, <1>2 DEF DiskInv, Balanced
<1>6. n2 \ {x} = n1 \ {x} /\ d2 \ {p} = d1 \ {p}
  BY <1>1, <1>2, <1>3
<1>7. r2 \ {h} = r1 \ {h} /\ o2 \ {h} = o1 \ {h}
  BY <1>2, <1>3, RequestStep
<1>8. (h \in r2 <=> Removes(j, c, ys)) /\ (h \in o2 <=> Owes(j, c, ys))
  BY <1>3, RequestStep
<1>9. (h \in r1 <=> Removes(job[h], c, ys)) /\ (h \in o1 <=> Owes(job[h], c, ys))
  BY <1>2 DEF Removing, Owing
<1>10. One(x \in n2) + One(h \in r2) + One(p \in d1) + One(h \in o1)
         <= One(x \in n1) + One(h \in r1) + One(p \in d2) + One(h \in o2)
  <2>1. /\ One(h \in r2) = One(Removes(j, c, ys)) /\ One(h \in o2) = One(Owes(j, c, ys))
        /\ One(h \in r1) = One(Removes(job[h], c, ys)) /\ One(h \in o1) = One(Owes(job[h], c, ys))
    BY <1>8, <1>9 DEF One
  <2>2. QED
    BY <1>1, <1>2, <1>3, <2>1
<1>11. Covers(n2, r2, d2, o2)
  BY <1>4, <1>5, <1>6, <1>7, <1>10, CoversStays
<1>12. QED
  BY <1>3, <1>11

\* A step of the only request that is at work on the disk
LEMMA AloneStep ==
  ASSUME IInv, DiskInv, up, UNCHANGED <<up, unread>>, NEW h \in Handlers, NEW j, Do(h, j), IsFiniteSet(DOMAIN disk'),
         own' => clean',
         clean' => /\ Balanced' /\ SeesDisk(j)' /\ \A g \in Handlers \ {h} : ~OnDisk(job[g])
                   /\ \A p \in DOMAIN disk' : disk'[p].contexts # {} =>
                        p \in loaded' \/ (j.at = "marking" /\ j.path = p)
  PROVE  DiskInv'
<1>1. job'[h] = j /\ \A g \in Handlers \ {h} : job'[g] = job[g]
  BY RequestStep
<1>2. IsFiniteSet({g \in Handlers : Busy(g)})'
  BY RequestStep
<1>3. ASSUME clean' PROVE OneOnDisk' /\ ReadIsLoaded' /\ \A g \in Handlers : SeesDisk(job[g])'
  <2>1. \A g \in Handlers \ {h} : ~OnDisk(job'[g])
    BY <1>1, <1>3
  <2>2. \A g \in Handlers : SeesDisk(job[g])'
    <3>1. ASSUME NEW g \in Handlers \ {h} PROVE SeesDisk(job[g])'
      BY <2>1 DEF SeesDisk, OnDisk
    <3>2. SeesDisk(job[h])'
      <4>1. job'[h] = j /\ SeesDisk(j)'
        BY <1>1, <1>3
      <4>2. QED
        BY <4>1 DEF SeesDisk
    <3>3. QED
      BY <3>1, <3>2
  <2>3. OneOnDisk'
    BY <2>1 DEF OneOnDisk, OnDisk
  <2>4. ReadIsLoaded'
    BY <1>1, <1>3 DEF ReadIsLoaded
  <2>5. QED
    BY <2>2, <2>3, <2>4
<1>4. QED
  BY <1>2, <1>3 DEF DiskInv

\* A step in memory
LEMMA MemoryStep ==
  ASSUME IInv, DiskInv, up, UNCHANGED <<up, unread, disk, loaded, clean, own>>, NEW h \in Handlers, NEW j, Do(h, j),
         ~Busy(h), ~OnDisk(j), clean => Balanced'
  PROVE  DiskInv'
<1>1. job'[h] = j /\ \A g \in Handlers \ {h} : job'[g] = job[g]
  BY RequestStep
<1>2. IsFiniteSet({g \in Handlers : Busy(g)})'
  BY RequestStep
<1>3. ASSUME clean' PROVE OneOnDisk' /\ ReadIsLoaded' /\ \A g \in Handlers : SeesDisk(job[g])'
  <2>1. OneOnDisk /\ ReadIsLoaded /\ \A g \in Handlers : SeesDisk(job[g])
    BY <1>3 DEF DiskInv
  <2>2. \A g \in Handlers : SeesDisk(job[g])'
    BY <1>1, <2>1 DEF SeesDisk, OnDisk
  <2>3. OneOnDisk'
    BY <1>1, <2>1 DEF OneOnDisk, OnDisk
  <2>4. ReadIsLoaded'
    BY <1>1, <2>1 DEF ReadIsLoaded, Busy, Idle
  <2>5. QED
    BY <2>2, <2>3, <2>4
<1>4. QED
  BY <1>2, <1>3 DEF DiskInv

\* Steps on the disk of one request: the others have not looked at it.
LEMMA NobodyElse ==
  ASSUME DiskInv, clean, NEW h \in Handlers, OnDisk(job[h]) \/ ~Overlaps(h)
  PROVE  \A g \in Handlers \ {h} : ~OnDisk(job[g])
BY DEF DiskInv, OneOnDisk, Overlaps, Busy, OnDisk, Idle

LEMMA UpIsRead ==
  ASSUME IInv, up PROVE unread = {} /\ \A c, ys : HeldOf(c, ys) = FilesOf(c, ys)
BY DEF IInv, TypeOK, HeldOf, FilesOf

\* A context that is registered gets one more name.
LEMMA OneMoreName ==
  ASSUME IInv, NEW y \in Payloads, NEW ctxs \in SUBSET ContextsIn[y], ctxs # {},
         clusters' = WithContexts(clusters, y, ctxs), NEW c \in Contexts, NEW ys
  PROVE  \E x : /\ Named(c, ys)' \ {x} = Named(c, ys) \ {x}
                /\ One(x \in Named(c, ys)') <= One(x \in Named(c, ys)) + One(c \in ctxs /\ y \in ys)
<1>1. /\ IsFiniteSet(DOMAIN clusters) /\ ctxs \in SUBSET Contexts
  BY DEF IInv, TypeOK, ClusterTypes, Contexts
<1>2. PICK x : x = Name(c, FreeSuffix(clusters, c))
  OBVIOUS
<1>3. /\ DOMAIN clusters' = DOMAIN clusters \cup Assigned(clusters, ctxs)
      /\ \A z \in DOMAIN clusters : z \notin Assigned(clusters, ctxs) => clusters'[z] = clusters[z]
      /\ \A z \in Assigned(clusters, ctxs) : clusters'[z].payload = y
  BY DEF WithContexts, Origin
<1>4. \A z \in Assigned(clusters, ctxs) : z[1] = c => z = x /\ c \in ctxs
  BY <1>2 DEF Assigned, Name
<1>5. \A z \in DOMAIN clusters : z \notin Assigned(clusters, ctxs)
  BY <1>1, AssignedAreNew, ContextsInAssumption, FS_Subset DEF IInv, TypeOK, ClusterTypes
<1>6. Named(c, ys)' \subseteq Named(c, ys) \cup {x} /\ Named(c, ys) \subseteq Named(c, ys)'
  BY <1>3, <1>4, <1>5 DEF Named
<1>7. ~(c \in ctxs /\ y \in ys) => Named(c, ys)' = Named(c, ys)
  BY <1>3, <1>4, <1>5 DEF Named
<1>8. QED
  BY <1>6, <1>7 DEF One

LEMMA ImportKeepsDisk ==
  ASSUME IInv, DiskInv, up, UNCHANGED <<up, unread>>, NEW h \in Handlers, Import(h)
  PROVE  DiskInv'
<1>0. /\ TypeOK /\ DiskTypes /\ IsFiniteSet(DOMAIN disk) /\ unread = {} /\ unread' = {} /\ DOMAIN disk \subseteq Paths
  BY UpIsRead DEF IInv, TypeOK, DiskTypes, DiskInv
<1>1. ASSUME NEW y \in Payloads, NEW s \in Stems, ImportRegister(h, y, s) PROVE DiskInv'
  <2>1. PICK j : j = [at |-> "naming", payload |-> y, stem |-> s]
    OBVIOUS
  <2>2. /\ ~Busy(h) /\ Do(h, j) /\ clusters' = WithContexts(clusters, y, ContextsIn[y])
        /\ UNCHANGED <<disk, loaded, clean, own>>
    BY <1>1, <2>1 DEF ImportRegister
  <2>3. ASSUME clean PROVE Balanced'
    <3>1. \A c, ys : ~Removes(j, c, ys) /\ ~Removes(job[h], c, ys) /\ ~Owes(job[h], c, ys) /\ (Owes(j, c, ys) <=> c \in ContextsIn[y] /\ y \in ys)
      BY <2>1, <2>2 DEF Removes, Owes, Busy, Idle
    <3>2. ASSUME NEW c \in Contexts, NEW ys \in Counted'
          PROVE  \E x : /\ Named(c, ys)' \ {x} = Named(c, ys) \ {x} /\ HeldOf(c, ys)' \ {h} = HeldOf(c, ys) \ {h}
                        /\ One(x \in Named(c, ys)') + One(Removes(j, c, ys)) + One(h \in HeldOf(c, ys)) + One(Owes(job[h], c, ys))
                             <= One(x \in Named(c, ys)) + One(Removes(job[h], c, ys)) + One(h \in HeldOf(c, ys)') + One(Owes(j, c, ys))
      <4>1. PICK x : /\ Named(c, ys)' \ {x} = Named(c, ys) \ {x}
                     /\ One(x \in Named(c, ys)') <= One(x \in Named(c, ys)) + One(c \in ContextsIn[y] /\ y \in ys)
        BY <2>2, ContextsInAssumption, OneMoreName
      <4>2. HeldOf(c, ys)' = HeldOf(c, ys)
        BY <2>2 DEF HeldOf
      <4>3. QED
        BY <3>1, <4>1, <4>2 DEF One
    <3>3. QED
      BY <2>2, <2>3, <3>2, Rebalanced
  <2>4. ~OnDisk(j)
    BY <2>1 DEF OnDisk
  <2>5. QED
    BY <2>2, <2>3, <2>4, MemoryStep
<1>2. CASE ImportName(h)
  <2>1. PICK n \in 1..(MaxFiles + 1) :
          /\ <<job[h].stem, n>> \notin DOMAIN disk
          /\ Do(h, [at |-> "writing", payload |-> job[h].payload, path |-> <<job[h].stem, n>>])
    BY <1>2 DEF ImportName
  <2>2. PICK j : j = [at |-> "writing", payload |-> job[h].payload, path |-> <<job[h].stem, n>>]
    OBVIOUS
  <2>3. /\ Do(h, j) /\ job[h].at = "naming" /\ UNCHANGED <<clusters, loaded, disk>>
        /\ clean' = (clean /\ ~Overlaps(h)) /\ own' = (own /\ ~Overlaps(h))
    BY <1>2, <2>1, <2>2 DEF ImportName, At
  <2>4. ASSUME clean'
        PROVE  /\ Balanced' /\ SeesDisk(j)' /\ \A g \in Handlers \ {h} : ~OnDisk(job[g])
               /\ \A p \in DOMAIN disk' : disk'[p].contexts # {} =>
                    p \in loaded' \/ (j.at = "marking" /\ j.path = p)
    <3>1. clean /\ ~Overlaps(h)
      BY <2>3, <2>4
    <3>2. \A g \in Handlers \ {h} : ~OnDisk(job[g])
      BY <3>1, NobodyElse
    <3>3. SeesDisk(j)'
      BY <2>1, <2>2, <2>3 DEF SeesDisk
    <3>4. \A p \in DOMAIN disk : disk[p].contexts # {} => p \in loaded
      BY <1>0, <2>3, <3>1 DEF DiskInv, ReadIsLoaded, Overlaps, Busy, Idle
    <3>5. \A c, ys : ~Removes(j, c, ys) /\ ~Removes(job[h], c, ys) /\ (Owes(j, c, ys) <=> Owes(job[h], c, ys))
      BY <2>2, <2>3 DEF Removes, Owes
    <3>6. \A c, ys : Named(c, ys)' = Named(c, ys) /\ HeldOf(c, ys)' = HeldOf(c, ys)
      BY <2>3 DEF Named, HeldOf
    <3>7. Balanced'
      <4>1. \A c \in Contexts, ys \in Counted' : \E x :
              /\ Named(c, ys)' \ {x} = Named(c, ys) \ {x} /\ HeldOf(c, ys)' \ {h} = HeldOf(c, ys) \ {h}
              /\ One(x \in Named(c, ys)') + One(Removes(j, c, ys)) + One(h \in HeldOf(c, ys)) + One(Owes(job[h], c, ys))
                   <= One(x \in Named(c, ys)) + One(Removes(job[h], c, ys)) + One(h \in HeldOf(c, ys)') + One(Owes(j, c, ys))
        BY <3>5, <3>6 DEF One
      <4>2. QED
        BY <2>3, <3>1, <4>1, Rebalanced
    <3>8. QED
      BY <2>3, <3>2, <3>3, <3>4, <3>7
  <2>5. QED
    BY <1>0, <2>3, <2>4, AloneStep DEF DiskInv
<1>3. CASE ImportTruncate(h) \/ ImportFill(h)
  <2>1. job[h] \in [at : {"writing", "filling", "marking"}, payload : Payloads, path : Paths]
    BY <1>0, <1>3, InHand DEF ImportTruncate, ImportFill
  <2>2. PICK r, p, y : r = job[h] /\ p = r.path /\ y = r.payload
    OBVIOUS
  <2>3. PICK j, ctxs : /\ Write(p, y, ctxs) /\ Do(h, j)
                       /\ \/ r.at = "writing" /\ ctxs = {} /\ j = [r EXCEPT !.at = "filling"]
                          \/ r.at = "filling" /\ ctxs = ContextsIn[y] /\ j = [r EXCEPT !.at = "marking"]
    BY <1>3, <2>2 DEF ImportTruncate, ImportFill, At
  <2>4. /\ UNCHANGED <<clusters, loaded, clean, own>> /\ y \in Payloads
        /\ DOMAIN disk' = DOMAIN disk \cup {p} /\ disk'[p].contexts = ctxs /\ disk'[p].payload = y
        /\ \A q \in DOMAIN disk : q # p => disk'[q] = disk[q]
    BY <1>3, <2>1, <2>2, <2>3 DEF ImportTruncate, ImportFill, Write
  <2>5. /\ r.at = "writing" => j.at = "filling" /\ j.path = p /\ j.payload = y
        /\ r.at = "filling" => j.at = "marking" /\ j.path = p /\ j.payload = y
    BY <2>1, <2>2, <2>3
  <2>6. IsFiniteSet(DOMAIN disk')
    BY <1>0, <2>4, FS_AddElement
  <2>7. ASSUME clean'
        PROVE  /\ Balanced' /\ SeesDisk(j)' /\ \A g \in Handlers \ {h} : ~OnDisk(job[g])
               /\ \A q \in DOMAIN disk' : disk'[q].contexts # {} =>
                    q \in loaded' \/ (j.at = "marking" /\ j.path = q)
    <3>1. clean /\ OnDisk(r)
      BY <2>3, <2>4, <2>7 DEF OnDisk
    <3>2. \A g \in Handlers \ {h} : ~OnDisk(job[g])
      BY <2>2, <3>1, NobodyElse
    <3>3. r.at = "writing" => p \notin DOMAIN disk
      BY <2>2, <3>1 DEF DiskInv, SeesDisk
    <3>4. r.at = "filling" => p \in DOMAIN disk /\ disk[p].contexts = {}
      BY <2>2, <3>1 DEF DiskInv, SeesDisk
    <3>5. SeesDisk(j)'
      BY <2>3, <2>4, <2>5 DEF SeesDisk
    <3>6. \A q \in DOMAIN disk : disk[q].contexts # {} => q \in loaded
      BY <1>0, <2>2, <2>3, <3>1, <3>2 DEF DiskInv, ReadIsLoaded, OnDisk
    <3>7. ASSUME NEW q \in DOMAIN disk', disk'[q].contexts # {}
          PROVE  q \in loaded' \/ (j.at = "marking" /\ j.path = q)
      BY <2>3, <2>4, <2>5, <3>6, <3>7
    <3>8. \A c, ys : ~Removes(j, c, ys) /\ ~Removes(r, c, ys)
      BY <2>3, <2>5 DEF Removes
    <3>9. \A c, ys : Owes(r, c, ys) <=> c \in ContextsIn[y] /\ y \in ys
      BY <2>2, <2>3 DEF Owes
    <3>10. \A c, ys : Owes(j, c, ys) <=> r.at = "writing" /\ c \in ContextsIn[y] /\ y \in ys
      BY <2>3, <2>5 DEF Owes
    <3>11. \A c, ys : Named(c, ys)' = Named(c, ys)
      BY <2>4 DEF Named
    <3>12. \A c, ys : HeldOf(c, ys)' \ {p} = HeldOf(c, ys) \ {p} /\ p \notin HeldOf(c, ys) /\ (p \in HeldOf(c, ys)' <=> c \in ctxs /\ y \in ys)
      BY <1>0, <2>3, <2>4, <3>3, <3>4 DEF HeldOf
    <3>13. Balanced'
      <4>1. ASSUME NEW c \in Contexts, NEW ys \in Counted'
            PROVE  \E x :
              /\ Named(c, ys)' \ {x} = Named(c, ys) \ {x} /\ HeldOf(c, ys)' \ {p} = HeldOf(c, ys) \ {p}
              /\ One(x \in Named(c, ys)') + One(Removes(j, c, ys)) + One(p \in HeldOf(c, ys)) + One(Owes(r, c, ys))
                   <= One(x \in Named(c, ys)) + One(Removes(r, c, ys)) + One(p \in HeldOf(c, ys)') + One(Owes(j, c, ys))
        BY <2>3, <3>8, <3>9, <3>10, <3>11, <3>12 DEF One
      <4>2. Do(h, j) /\ r = job[h] /\ (own' => own)
        BY <2>2, <2>3, <2>4
      <4>3. QED
        BY <3>1, <4>1, <4>2, Rebalanced
    <3>14. QED
      BY <3>2, <3>5, <3>7, <3>13
  <2>8. QED
    BY <2>3, <2>4, <2>6, <2>7, AloneStep DEF DiskInv
<1>4. CASE ImportFails(h)
  <2>1. Do(h, Idle) /\ clean' = FALSE /\ own' = FALSE /\ disk' = disk
    BY <1>4 DEF ImportFails
  <2>2. QED
    BY <1>0, <2>1, AloneStep
<1>5. CASE ImportMark(h)
  <2>1. PICK r, p : r = job[h] /\ p = r.path
    OBVIOUS
  <2>2. /\ r.at = "marking" /\ loaded' = loaded \cup {p} /\ Do(h, Idle) /\ UNCHANGED <<clusters, disk, clean, own>>
    BY <1>5, <2>1 DEF ImportMark, Recorded, At
  <2>3. ASSUME clean'
        PROVE  /\ Balanced' /\ SeesDisk(Idle)' /\ \A g \in Handlers \ {h} : ~OnDisk(job[g])
               /\ \A q \in DOMAIN disk' : disk'[q].contexts # {} =>
                    q \in loaded' \/ (Idle.at = "marking" /\ Idle.path = q)
    <3>1. clean /\ OnDisk(r)
      BY <2>2, <2>3 DEF OnDisk
    <3>2. \A g \in Handlers \ {h} : ~OnDisk(job[g])
      BY <2>1, <3>1, NobodyElse
    <3>3. SeesDisk(Idle)'
      BY DEF SeesDisk, Idle
    <3>4. \A q \in DOMAIN disk : disk[q].contexts # {} => q \in loaded \/ q = p
      BY <1>0, <2>1, <3>1, <3>2 DEF DiskInv, ReadIsLoaded, OnDisk
    <3>5. \A c, ys : /\ ~Removes(Idle, c, ys) /\ ~Owes(Idle, c, ys) /\ ~Removes(r, c, ys) /\ ~Owes(r, c, ys)
                     /\ Named(c, ys)' = Named(c, ys) /\ HeldOf(c, ys)' = HeldOf(c, ys)
      BY <2>2 DEF Removes, Owes, Idle, Named, HeldOf
    <3>6. Balanced'
      <4>1. \A c \in Contexts, ys \in Counted' : \E x :
              /\ Named(c, ys)' \ {x} = Named(c, ys) \ {x} /\ HeldOf(c, ys)' \ {p} = HeldOf(c, ys) \ {p}
              /\ One(x \in Named(c, ys)') + One(Removes(Idle, c, ys)) + One(p \in HeldOf(c, ys)) + One(Owes(r, c, ys))
                   <= One(x \in Named(c, ys)) + One(Removes(r, c, ys)) + One(p \in HeldOf(c, ys)') + One(Owes(Idle, c, ys))
        BY <3>5 DEF One
      <4>2. QED
        BY <2>1, <2>2, <3>1, <4>1, Rebalanced
    <3>7. QED
      BY <2>2, <3>2, <3>3, <3>4, <3>6
  <2>4. QED
    BY <1>0, <2>2, <2>3, AloneStep DEF DiskInv
<1>6. QED
  BY <1>1, <1>2, <1>3, <1>4, <1>5 DEF Import

LEMMA RemovalKeepsDisk ==
  ASSUME IInv, DiskInv, up, UNCHANGED <<up, unread>>, NEW h \in Handlers, Removal(h)
  PROVE  DiskInv'
<1>0. /\ TypeOK /\ DiskTypes /\ IsFiniteSet(DOMAIN disk) /\ unread = {} /\ unread' = {} /\ DOMAIN disk \subseteq Paths
      /\ DOMAIN clusters \subseteq Names
  BY UpIsRead DEF IInv, TypeOK, DiskTypes, DiskInv, ClusterTypes
<1>1. ASSUME NEW x \in DOMAIN clusters, RemoveUnregister(h, x) PROVE DiskInv'
  <2>1. PICK j : j = [at |-> "scanning", name |-> x, of |-> clusters[x].payload]
    OBVIOUS
  <2>2. /\ ~Busy(h) /\ Do(h, j) /\ clusters' = [z \in DOMAIN clusters \ {x} |-> clusters[z]]
        /\ UNCHANGED <<disk, loaded, clean, own>>
    BY <1>1, <2>1 DEF RemoveUnregister
  <2>3. ASSUME clean PROVE Balanced'
    <3>1. \A c, ys : ~Removes(job[h], c, ys) /\ ~Owes(job[h], c, ys) /\ ~Owes(j, c, ys) /\ (Removes(j, c, ys) <=> x = Name(c, 1) /\ clusters[x].payload \in ys)
      BY <2>1, <2>2 DEF Removes, From, Owes, Busy, Idle
    <3>2. ASSUME NEW c \in Contexts, NEW ys \in Counted'
          PROVE  /\ Named(c, ys)' \ {x} = Named(c, ys) \ {x} /\ HeldOf(c, ys)' \ {h} = HeldOf(c, ys) \ {h}
                 /\ One(x \in Named(c, ys)') + One(Removes(j, c, ys)) + One(h \in HeldOf(c, ys)) + One(Owes(job[h], c, ys))
                      <= One(x \in Named(c, ys)) + One(Removes(job[h], c, ys)) + One(h \in HeldOf(c, ys)') + One(Owes(j, c, ys))
      <4>1. Named(c, ys)' \ {x} = Named(c, ys) \ {x} /\ x \notin Named(c, ys)' /\ (x \in Named(c, ys) <=> x[1] = c /\ clusters[x].payload \in ys)
        BY <1>1, <2>2 DEF Named
      <4>2. HeldOf(c, ys)' = HeldOf(c, ys)
        BY <2>2 DEF HeldOf
      <4>3. x = Name(c, 1) => x[1] = c
        BY DEF Name
      <4>4. QED
        BY <3>1, <4>1, <4>2, <4>3 DEF One
    <3>3. QED
      BY <2>2, <2>3, <3>2, Rebalanced
  <2>4. ~OnDisk(j)
    BY <2>1 DEF OnDisk
  <2>5. QED
    BY <2>2, <2>3, <2>4, MemoryStep
<1>2. CASE RemoveFind(h)
  <2>1. PICK x, p : /\ x = job[h].name /\ p \in Holding(x)
                    /\ Do(h, [at |-> "found", name |-> x, path |-> p, file |-> disk[p]])
                    /\ own' = (own /\ ~Overlaps(h) /\ disk[p].payload = job[h].of)
    BY <1>2 DEF RemoveFind
  <2>2. PICK j : j = [at |-> "found", name |-> x, path |-> p, file |-> disk[p]]
    OBVIOUS
  <2>3. /\ Do(h, j) /\ job[h].at = "scanning" /\ UNCHANGED <<clusters, loaded, disk>>
        /\ clean' = (clean /\ ~Overlaps(h))
        /\ own' = (own /\ ~Overlaps(h) /\ disk[p].payload = job[h].of)
        /\ p \in DOMAIN disk /\ x[2] = 1 /\ x[1] \in disk[p].contexts
    BY <1>2, <2>1, <2>2 DEF RemoveFind, At, Holding, Holds
  <2>4. ASSUME clean'
        PROVE  /\ Balanced' /\ SeesDisk(j)' /\ \A g \in Handlers \ {h} : ~OnDisk(job[g])
               /\ \A q \in DOMAIN disk' : disk'[q].contexts # {} =>
                    q \in loaded' \/ (j.at = "marking" /\ j.path = q)
    <3>1. clean /\ ~Overlaps(h)
      BY <2>3, <2>4
    <3>2. \A g \in Handlers \ {h} : ~OnDisk(job[g])
      BY <3>1, NobodyElse
    <3>3. \A q \in DOMAIN disk : disk[q].contexts # {} => q \in loaded
      BY <1>0, <2>3, <3>1 DEF DiskInv, ReadIsLoaded, Overlaps, Busy, Idle
    <3>4. SeesDisk(j)'
      BY <2>2, <2>3, <3>3 DEF SeesDisk
    <3>5. \A c, ys : ~Owes(j, c, ys) /\ ~Owes(job[h], c, ys)
      BY <2>1, <2>2, <2>3 DEF Owes
    <3>9. ASSUME NEW c, NEW ys \in Counted' PROVE Removes(j, c, ys) <=> Removes(job[h], c, ys)
      <4>1. From(j) = disk[p].payload /\ From(job[h]) = job[h].of
        BY <2>2, <2>3 DEF From
      <4>2. disk[p].payload \in Payloads /\ job[h].of \in Payloads
        BY <1>0, <2>3, InHand DEF DiskTypes, FileTypes, At
      <4>3. From(j) \in ys <=> From(job[h]) \in ys
        BY <2>3, <4>1, <4>2 DEF Counted
      <4>4. QED
        BY <2>1, <2>2, <2>3, <4>3 DEF Removes
    <3>6. \A c, ys : Named(c, ys)' = Named(c, ys) /\ HeldOf(c, ys)' = HeldOf(c, ys)
      BY <2>3 DEF Named, HeldOf
    <3>7. Balanced'
      <4>1. \A c \in Contexts, ys \in Counted' : \E z :
              /\ Named(c, ys)' \ {z} = Named(c, ys) \ {z} /\ HeldOf(c, ys)' \ {p} = HeldOf(c, ys) \ {p}
              /\ One(z \in Named(c, ys)') + One(Removes(j, c, ys)) + One(p \in HeldOf(c, ys)) + One(Owes(job[h], c, ys))
                   <= One(z \in Named(c, ys)) + One(Removes(job[h], c, ys)) + One(p \in HeldOf(c, ys)') + One(Owes(j, c, ys))
        BY <3>5, <3>6, <3>9 DEF One
      <4>2. QED
        BY <2>3, <3>1, <4>1, Rebalanced
    <3>8. QED
      BY <2>3, <3>2, <3>3, <3>4, <3>7
  <2>5. QED
    BY <1>0, <2>3, <2>4, AloneStep DEF DiskInv
<1>3. CASE RemoveFindsNothing(h)
  <2>1. /\ Do(h, Idle) /\ job[h].at = "scanning" /\ UNCHANGED <<clusters, loaded, disk>>
        /\ clean' = (clean /\ ~Overlaps(h)) /\ own' = (own /\ ~Overlaps(h))
    BY <1>3 DEF RemoveFindsNothing, At
  <2>2. ASSUME clean'
        PROVE  /\ Balanced' /\ SeesDisk(Idle)' /\ \A g \in Handlers \ {h} : ~OnDisk(job[g])
               /\ \A q \in DOMAIN disk' : disk'[q].contexts # {} =>
                    q \in loaded' \/ (Idle.at = "marking" /\ Idle.path = q)
    <3>1. clean /\ ~Overlaps(h)
      BY <2>1, <2>2
    <3>2. \A g \in Handlers \ {h} : ~OnDisk(job[g])
      BY <3>1, NobodyElse
    <3>3. \A q \in DOMAIN disk : disk[q].contexts # {} => q \in loaded
      BY <1>0, <2>1, <3>1 DEF DiskInv, ReadIsLoaded, Overlaps, Busy, Idle
    <3>4. SeesDisk(Idle)'
      BY DEF SeesDisk, Idle
    <3>5. \A c, ys : /\ ~Removes(Idle, c, ys) /\ ~Owes(Idle, c, ys) /\ ~Owes(job[h], c, ys)
                     /\ Named(c, ys)' = Named(c, ys) /\ HeldOf(c, ys)' = HeldOf(c, ys)
      BY <2>1 DEF Removes, Owes, Idle, Named, HeldOf
    <3>6. Balanced'
      <4>1. \A c \in Contexts, ys \in Counted' : \E z :
              /\ Named(c, ys)' \ {z} = Named(c, ys) \ {z} /\ HeldOf(c, ys)' \ {h} = HeldOf(c, ys) \ {h}
              /\ One(z \in Named(c, ys)') + One(Removes(Idle, c, ys)) + One(h \in HeldOf(c, ys)) + One(Owes(job[h], c, ys))
                   <= One(z \in Named(c, ys)) + One(Removes(job[h], c, ys)) + One(h \in HeldOf(c, ys)') + One(Owes(Idle, c, ys))
        BY <3>5 DEF One
      <4>2. QED
        BY <2>1, <3>1, <4>1, Rebalanced
    <3>7. QED
      BY <2>1, <3>2, <3>3, <3>4, <3>6
  <2>3. QED
    BY <1>0, <2>1, <2>2, AloneStep DEF DiskInv
<1>4. ASSUME job[h].at \in {"found", "rewriting"}
      PROVE  /\ job[h] \in [at : {"found", "rewriting"}, name : Names, path : Paths, file : FileTypes]
             /\ job[h].name = <<job[h].name[1], job[h].name[2]>>
             /\ \A c, ys : job[h].name[2] = 1 =>
                  (Removes(job[h], c, ys) <=> c = job[h].name[1] /\ job[h].file.payload \in ys)
  <2>1. job[h] \in [at : {"found", "rewriting"}, name : Names, path : Paths, file : FileTypes]
    BY <1>0, <1>4, InHand DEF At
  <2>2. job[h].name = <<job[h].name[1], job[h].name[2]>>
    BY <2>1 DEF Names
  <2>3. QED
    BY <1>4, <2>1, <2>2 DEF Removes, From, Name
<1>5. CASE RemoveUnlink(h)
  <2>1. PICK r, p : r = job[h] /\ p = r.path
    OBVIOUS
  <2>2. PICK j : j = [at |-> "forgetting", path |-> p]
    OBVIOUS
  <2>3. /\ r.at = "found" /\ Cardinality(r.file.contexts) = 1 /\ p \in DOMAIN disk
        /\ disk' = [q \in DOMAIN disk \ {p} |-> disk[q]] /\ Do(h, j) /\ UNCHANGED <<clusters, loaded, clean, own>>
    BY <1>5, <2>1, <2>2 DEF RemoveUnlink, At
  <2>4. IsFiniteSet(DOMAIN disk')
    BY <1>0, <2>3, FS_RemoveElement
  <2>5. ASSUME clean'
        PROVE  /\ Balanced' /\ SeesDisk(j)' /\ \A g \in Handlers \ {h} : ~OnDisk(job[g])
               /\ \A q \in DOMAIN disk' : disk'[q].contexts # {} =>
                    q \in loaded' \/ (j.at = "marking" /\ j.path = q)
    <3>1. clean /\ OnDisk(r)
      BY <2>3, <2>5 DEF OnDisk
    <3>2. \A g \in Handlers \ {h} : ~OnDisk(job[g])
      BY <2>1, <3>1, NobodyElse
    <3>3. \A q \in DOMAIN disk : disk[q].contexts # {} => q \in loaded
      BY <1>0, <2>1, <2>3, <3>1, <3>2 DEF DiskInv, ReadIsLoaded, OnDisk
    <3>4. SeesDisk(j)'
      BY <2>2, <2>3 DEF SeesDisk
    <3>5. PICK k : k = r.name[1]
      OBVIOUS
    <3>6. disk[p] = r.file /\ r.name[2] = 1 /\ k \in r.file.contexts
      BY <2>1, <2>3, <3>1, <3>5 DEF DiskInv, SeesDisk
    <3>7. r.file.contexts = {k}
      <4>1. r.file \in FileTypes
        BY <1>4, <2>1, <2>3
      <4>2. r.file.payload \in Payloads /\ r.file.contexts \subseteq ContextsIn[r.file.payload]
        BY <4>1 DEF FileTypes
      <4>3. IsFiniteSet(r.file.contexts)
        BY <4>2, ContextsInAssumption, FS_Subset
      <4>4. PICK z : r.file.contexts = {z}
        BY <2>3, <4>3, FS_Singleton
      <4>5. QED
        BY <3>6, <4>4
    <3>8. \A c, ys : /\ Removes(r, c, ys) <=> c = k /\ r.file.payload \in ys
                     /\ ~Removes(j, c, ys) /\ ~Owes(j, c, ys) /\ ~Owes(r, c, ys) /\ Named(c, ys)' = Named(c, ys)
      BY <1>4, <2>1, <2>2, <2>3, <3>5, <3>6 DEF Removes, Owes, Named
    <3>9. \A c, ys : /\ HeldOf(c, ys)' \ {p} = HeldOf(c, ys) \ {p} /\ p \notin HeldOf(c, ys)' /\ (p \in HeldOf(c, ys) <=> c = k /\ r.file.payload \in ys)
      BY <1>0, <2>3, <3>6, <3>7 DEF HeldOf
    <3>10. Balanced'
      <4>1. \A c \in Contexts, ys \in Counted' : \E z :
              /\ Named(c, ys)' \ {z} = Named(c, ys) \ {z} /\ HeldOf(c, ys)' \ {p} = HeldOf(c, ys) \ {p}
              /\ One(z \in Named(c, ys)') + One(Removes(j, c, ys)) + One(p \in HeldOf(c, ys)) + One(Owes(r, c, ys))
                   <= One(z \in Named(c, ys)) + One(Removes(r, c, ys)) + One(p \in HeldOf(c, ys)') + One(Owes(j, c, ys))
        BY <3>8, <3>9 DEF One
      <4>2. Do(h, j) /\ r = job[h] /\ (own' => own)
        BY <2>1, <2>3
      <4>3. QED
        BY <3>1, <4>1, <4>2, Rebalanced
    <3>11. QED
      BY <2>3, <3>2, <3>3, <3>4, <3>10
  <2>6. QED
    BY <2>3, <2>4, <2>5, AloneStep DEF DiskInv
<1>6. CASE RemoveForget(h)
  <2>1. PICK r, p : r = job[h] /\ p = r.path
    OBVIOUS
  <2>2. r.at = "forgetting" /\ loaded' = loaded \ {p} /\ Do(h, Idle) /\ UNCHANGED <<clusters, disk, clean, own>>
    BY <1>6, <2>1 DEF RemoveForget, At
  <2>3. ASSUME clean'
        PROVE  /\ Balanced' /\ SeesDisk(Idle)' /\ \A g \in Handlers \ {h} : ~OnDisk(job[g])
               /\ \A q \in DOMAIN disk' : disk'[q].contexts # {} =>
                    q \in loaded' \/ (Idle.at = "marking" /\ Idle.path = q)
    <3>1. clean /\ OnDisk(r)
      BY <2>2, <2>3 DEF OnDisk
    <3>2. \A g \in Handlers \ {h} : ~OnDisk(job[g])
      BY <2>1, <3>1, NobodyElse
    <3>3. p \notin DOMAIN disk
      BY <2>1, <2>2, <3>1 DEF DiskInv, SeesDisk
    <3>4. \A q \in DOMAIN disk : disk[q].contexts # {} => q \in loaded
      BY <1>0, <2>1, <2>2, <3>1, <3>2 DEF DiskInv, ReadIsLoaded, OnDisk
    <3>5. SeesDisk(Idle)'
      BY DEF SeesDisk, Idle
    <3>6. \A c, ys : /\ ~Removes(Idle, c, ys) /\ ~Owes(Idle, c, ys) /\ ~Removes(r, c, ys) /\ ~Owes(r, c, ys)
                     /\ Named(c, ys)' = Named(c, ys) /\ HeldOf(c, ys)' = HeldOf(c, ys)
      BY <2>2 DEF Removes, Owes, Idle, Named, HeldOf
    <3>7. Balanced'
      <4>1. \A c \in Contexts, ys \in Counted' : \E z :
              /\ Named(c, ys)' \ {z} = Named(c, ys) \ {z} /\ HeldOf(c, ys)' \ {p} = HeldOf(c, ys) \ {p}
              /\ One(z \in Named(c, ys)') + One(Removes(Idle, c, ys)) + One(p \in HeldOf(c, ys)) + One(Owes(r, c, ys))
                   <= One(z \in Named(c, ys)) + One(Removes(r, c, ys)) + One(p \in HeldOf(c, ys)') + One(Owes(Idle, c, ys))
        BY <3>6 DEF One
      <4>2. QED
        BY <2>1, <2>2, <3>1, <4>1, Rebalanced
    <3>8. QED
      BY <2>2, <3>2, <3>3, <3>4, <3>5, <3>7
  <2>4. QED
    BY <1>0, <2>2, <2>3, AloneStep DEF DiskInv
<1>7. CASE RemoveTruncate(h) \/ RemoveRewrite(h)
  <2>1. job[h].at \in {"found", "rewriting"}
    BY <1>7 DEF RemoveTruncate, RemoveRewrite, At
  <2>2. PICK r, p, f, k : r = job[h] /\ p = r.path /\ f = r.file /\ k = r.name[1]
    OBVIOUS
  <2>3. PICK j, ctxs : /\ Write(p, f.payload, ctxs) /\ Do(h, j)
                       /\ \/ r.at = "found" /\ ctxs = {} /\ j = [r EXCEPT !.at = "rewriting"]
                          \/ r.at = "rewriting" /\ ctxs = f.contexts \ {k} /\ j = Idle
    BY <1>7, <2>2 DEF RemoveTruncate, RemoveRewrite, At, Stripped
  <2>4. /\ UNCHANGED <<clusters, loaded, clean, own>>
        /\ DOMAIN disk' = DOMAIN disk \cup {p} /\ disk'[p].contexts = ctxs /\ disk'[p].payload = f.payload
        /\ \A q \in DOMAIN disk : q # p => disk'[q] = disk[q]
    BY <1>7, <2>2, <2>3 DEF RemoveTruncate, RemoveRewrite, Write
  <2>5. r \in [at : {"found", "rewriting"}, name : Names, path : Paths, file : FileTypes]
    BY <1>4, <2>1, <2>2
  <2>6. /\ r.at = "found" => j.at = "rewriting" /\ j.path = p /\ j.file = f /\ j.name = r.name
        /\ r.at = "rewriting" => j.at = "idle"
    BY <2>2, <2>3, <2>5 DEF Idle
  <2>7. IsFiniteSet(DOMAIN disk')
    BY <1>0, <2>4, FS_AddElement
  <2>8. ASSUME clean'
        PROVE  /\ Balanced' /\ SeesDisk(j)' /\ \A g \in Handlers \ {h} : ~OnDisk(job[g])
               /\ \A q \in DOMAIN disk' : disk'[q].contexts # {} =>
                    q \in loaded' \/ (j.at = "marking" /\ j.path = q)
    <3>1. clean /\ OnDisk(r)
      BY <2>3, <2>4, <2>8 DEF OnDisk
    <3>2. \A g \in Handlers \ {h} : ~OnDisk(job[g])
      BY <2>2, <3>1, NobodyElse
    <3>3. /\ p \in DOMAIN disk /\ p \in loaded /\ r.name[2] = 1 /\ k \in f.contexts
          /\ r.at = "found" => disk[p] = f
          /\ r.at = "rewriting" => disk[p].contexts = {}
      BY <2>1, <2>2, <3>1 DEF DiskInv, SeesDisk
    <3>4. \A q \in DOMAIN disk : disk[q].contexts # {} => q \in loaded
      BY <1>0, <2>1, <2>2, <3>1, <3>2 DEF DiskInv, ReadIsLoaded, OnDisk
    <3>5. SeesDisk(j)'
      BY <2>2, <2>3, <2>4, <2>6, <3>3 DEF SeesDisk
    <3>6. \A q \in DOMAIN disk' : disk'[q].contexts # {} => q \in loaded'
      BY <2>4, <3>3, <3>4
    <3>7. \A c, ys : (Removes(r, c, ys) <=> c = k /\ f.payload \in ys) /\ Named(c, ys)' = Named(c, ys)
      BY <1>4, <2>1, <2>2, <2>4, <3>3 DEF Named
    <3>8. \A c, ys : Removes(j, c, ys) <=> r.at = "found" /\ Removes(r, c, ys)
      BY <2>2, <2>3, <2>6 DEF Removes, From
    <3>9. \A c, ys : /\ Owes(j, c, ys) <=> r.at = "found" /\ c \in f.contexts /\ f.payload \in ys
                     /\ Owes(r, c, ys) <=> r.at = "rewriting" /\ c \in f.contexts /\ f.payload \in ys
      BY <2>1, <2>2, <2>3, <2>6 DEF Owes
    <3>10. \A c, ys : /\ HeldOf(c, ys)' \ {p} = HeldOf(c, ys) \ {p} /\ (p \in HeldOf(c, ys)' <=> c \in ctxs /\ f.payload \in ys)
                      /\ p \in HeldOf(c, ys) <=> r.at = "found" /\ c \in f.contexts /\ f.payload \in ys
      BY <1>0, <2>1, <2>2, <2>4, <3>3 DEF HeldOf
    <3>11. Balanced'
      <4>1. ASSUME NEW c \in Contexts, NEW ys \in Counted'
            PROVE  \E z :
              /\ Named(c, ys)' \ {z} = Named(c, ys) \ {z} /\ HeldOf(c, ys)' \ {p} = HeldOf(c, ys) \ {p}
              /\ One(z \in Named(c, ys)') + One(Removes(j, c, ys)) + One(p \in HeldOf(c, ys)) + One(Owes(r, c, ys))
                   <= One(z \in Named(c, ys)) + One(Removes(r, c, ys)) + One(p \in HeldOf(c, ys)') + One(Owes(j, c, ys))
        <5>1. Named(c, ys)' = Named(c, ys) /\ HeldOf(c, ys)' \ {p} = HeldOf(c, ys) \ {p}
          <6>1. Named(c, ys)' = Named(c, ys)
            BY <2>4 DEF Named
          <6>2. HeldOf(c, ys)' \ {p} = HeldOf(c, ys) \ {p}
            BY <1>0, <2>4 DEF HeldOf
          <6>3. QED
            BY <6>1, <6>2
        <5>2. /\ Removes(r, c, ys) <=> c = k /\ f.payload \in ys
              /\ Removes(j, c, ys) <=> r.at = "found" /\ Removes(r, c, ys)
              /\ Owes(j, c, ys) <=> r.at = "found" /\ c \in f.contexts /\ f.payload \in ys
              /\ Owes(r, c, ys) <=> r.at = "rewriting" /\ c \in f.contexts /\ f.payload \in ys
              /\ p \in HeldOf(c, ys)' <=> c \in ctxs /\ f.payload \in ys
              /\ p \in HeldOf(c, ys) <=> r.at = "found" /\ c \in f.contexts /\ f.payload \in ys
          <6>1. Removes(r, c, ys) <=> c = k /\ f.payload \in ys
            BY <3>7
          <6>2. Removes(j, c, ys) <=> r.at = "found" /\ Removes(r, c, ys)
            BY <3>8
          <6>3. /\ Owes(j, c, ys) <=> r.at = "found" /\ c \in f.contexts /\ f.payload \in ys
                /\ Owes(r, c, ys) <=> r.at = "rewriting" /\ c \in f.contexts /\ f.payload \in ys
            BY <3>9
          <6>4. p \in HeldOf(c, ys)' <=> c \in ctxs /\ f.payload \in ys
            BY <1>0, <2>1, <2>2, <2>4, <3>3 DEF HeldOf
          <6>5. p \in HeldOf(c, ys) <=> r.at = "found" /\ c \in f.contexts /\ f.payload \in ys
            BY <1>0, <2>1, <2>2, <2>4, <3>3 DEF HeldOf
          <6>6. QED
            BY <6>1, <6>2, <6>3, <6>4, <6>5
        <5>3. CASE r.at = "found"
          <6>1. ctxs = {}
            BY <2>3, <5>3
          <6>2. /\ One(Removes(j, c, ys)) = One(Removes(r, c, ys))
                /\ One(p \in HeldOf(c, ys)) = One(Owes(j, c, ys)) /\ One(Owes(r, c, ys)) = 0
                /\ One(p \in HeldOf(c, ys)') = 0 /\ One(Removes(r, c, ys)) \in Nat /\ One(Owes(j, c, ys)) \in Nat
            BY <5>2, <5>3, <6>1 DEF One
          <6>3. One(h \in Named(c, ys)') = One(h \in Named(c, ys)) /\ One(h \in Named(c, ys)) \in Nat
            BY <5>1 DEF One
          <6>4. Named(c, ys)' \ {h} = Named(c, ys) \ {h}
            BY <5>1
          <6>5. QED
            BY <5>1, <6>2, <6>3, <6>4
        <5>4. CASE r.at = "rewriting"
          <6>1. ctxs = f.contexts \ {k} /\ k \in f.contexts
            BY <2>3, <3>3, <5>4
          <6>2. ~Removes(j, c, ys) /\ ~Owes(j, c, ys) /\ p \notin HeldOf(c, ys)
            BY <5>2, <5>4
          <6>3. Owes(r, c, ys) => Removes(r, c, ys) \/ p \in HeldOf(c, ys)'
            BY <5>2, <6>1
          <6>4. /\ One(Removes(j, c, ys)) = 0 /\ One(Owes(j, c, ys)) = 0 /\ One(p \in HeldOf(c, ys)) = 0
                /\ One(Owes(r, c, ys)) <= One(Removes(r, c, ys)) + One(p \in HeldOf(c, ys)')
                /\ One(Removes(r, c, ys)) \in Nat /\ One(p \in HeldOf(c, ys)') \in Nat
                /\ One(Owes(r, c, ys)) \in Nat
            BY <6>2, <6>3 DEF One
          <6>5. One(h \in Named(c, ys)') = One(h \in Named(c, ys)) /\ One(h \in Named(c, ys)) \in Nat
            BY <5>1 DEF One
          <6>6. Named(c, ys)' \ {h} = Named(c, ys) \ {h}
            BY <5>1
          <6>7. QED
            BY <5>1, <6>4, <6>5, <6>6
        <5>5. QED
          BY <2>3, <5>3, <5>4
      <4>2. Do(h, j) /\ r = job[h] /\ (own' => own)
        BY <2>2, <2>3, <2>4
      <4>3. QED
        BY <3>1, <4>1, <4>2, Rebalanced
    <3>12. QED
      BY <3>2, <3>5, <3>6, <3>11
  <2>9. QED
    BY <2>3, <2>4, <2>7, <2>8, AloneStep DEF DiskInv
<1>8. CASE RemoveFails(h)
  <2>1. Do(h, Idle) /\ clean' = FALSE /\ own' = FALSE /\ disk' = disk
    BY <1>8 DEF RemoveFails
  <2>2. QED
    BY <1>0, <2>1, AloneStep
<1>9. QED
  BY <1>1, <1>2, <1>3, <1>5, <1>6, <1>7, <1>8 DEF Removal

\* While the server starts, no request is under way.
LEMMA StartKeepsDisk ==
  ASSUME IInv, IInv', DiskInv, LoadFile
  PROVE  DiskInv'
<1>0. /\ IsFiniteSet(DOMAIN disk) /\ ~up /\ unread \subseteq DOMAIN disk /\ UNCHANGED <<disk, up, job, clean, own>>
      /\ \A h \in Handlers : job[h] = Idle
      /\ \A q \in DOMAIN disk : disk[q] \in FileTypes
  BY DEF LoadFile, DiskInv, Busy, IInv, TypeOK, DiskTypes
<1>1. PICK p \in unread :
        /\ unread' = unread \ {p}
        /\ IF p \in loaded \/ disk[p].contexts = {}
           THEN UNCHANGED <<clusters, current, loaded>>
           ELSE /\ clusters' = WithContexts(clusters, disk[p].payload, disk[p].contexts)
                /\ current' = Promoted(clusters, disk[p].contexts)
                /\ loaded' = loaded \cup Recorded(p)
  BY DEF LoadFile
<1>2. PICK y, ctxs : y = disk[p].payload /\ ctxs = disk[p].contexts
  OBVIOUS
<1>3. p \in DOMAIN disk /\ p \notin unread' /\ y \in Payloads /\ ctxs \in SUBSET ContextsIn[y]
  BY <1>0, <1>1, <1>2 DEF FileTypes
<1>4. DOMAIN disk \ unread' = (DOMAIN disk \ unread) \cup {p}
  BY <1>1, <1>3
<1>5. ASSUME clean, NEW c \in Contexts, NEW ys \in Counted'
      PROVE  Covers(Named(c, ys)', Removing(c, ys)', HeldOf(c, ys)', Owing(c, ys)')
  <2>1. PICK n1, r1, d1, o1 : n1 = Named(c, ys) /\ r1 = Removing(c, ys) /\ d1 = HeldOf(c, ys) /\ o1 = Owing(c, ys)
    OBVIOUS
  <2>2. PICK n2, d2 : n2 = Named(c, ys)' /\ d2 = HeldOf(c, ys)'
    OBVIOUS
  <2>3. IsFiniteSet(n1) /\ IsFiniteSet(r1) /\ IsFiniteSet(d1) /\ IsFiniteSet(o1) /\ Covers(n1, r1, d1, o1)
    BY <1>0, <1>5, <2>1, CountedAreFinite DEF DiskInv, Balanced, Counted
  <2>4. r1 = Removing(c, ys)' /\ o1 = Owing(c, ys)'
    BY <1>0, <2>1 DEF Removing, Owing
  <2>5. d2 \ {p} = d1 \ {p} /\ p \notin d1 /\ (p \in d2 <=> c \in ctxs /\ y \in ys)
    BY <1>0, <1>1, <1>2, <1>3, <1>4, <2>1, <2>2 DEF HeldOf
  <2>6. PICK x : n2 \ {x} = n1 \ {x} /\ One(x \in n2) <= One(x \in n1) + One(c \in ctxs /\ y \in ys)
    <3>1. CASE UNCHANGED clusters
      <4>1. n2 = n1
        BY <2>1, <2>2, <3>1 DEF Named
      <4>2. QED
        BY <4>1 DEF One
    <3>2. CASE clusters' = WithContexts(clusters, y, ctxs) /\ ctxs # {}
      BY <1>3, <2>1, <2>2, <3>2, OneMoreName
    <3>3. QED
      BY <1>1, <1>2, <3>1, <3>2
  <2>7. One(x \in n2) + One(p \in r1) + One(p \in d1) + One(p \in o1)
          <= One(x \in n1) + One(p \in r1) + One(p \in d2) + One(p \in o1)
    BY <2>5, <2>6 DEF One
  <2>8. Covers(n2, r1, d2, o1)
    BY <2>3, <2>5, <2>6, <2>7, CoversStays
  <2>9. QED
    BY <2>2, <2>4, <2>8
<1>6. ASSUME clean PROVE ReadIsLoaded'
  <2>1. \A q \in DOMAIN disk \ unread : disk[q].contexts # {} => q \in loaded
    BY <1>0, <1>6 DEF DiskInv, ReadIsLoaded, Idle
  <2>2. loaded \subseteq loaded' /\ (ctxs # {} => p \in loaded')
    BY <1>1, <1>2 DEF Recorded
  <2>3. QED
    BY <1>0, <1>2, <1>4, <2>1, <2>2 DEF ReadIsLoaded
<1>7. OneOnDisk' /\ \A h \in Handlers : SeesDisk(job[h])'
  BY <1>0 DEF OneOnDisk, SeesDisk, OnDisk, Idle
<1>8. IsFiniteSet({h \in Handlers : Busy(h)})'
  BY <1>0 DEF DiskInv, Busy
<1>9. QED
  <2>1. clean' => Balanced'
    BY <1>0, <1>5 DEF Balanced, Covers
  <2>2. ~up' => \A h \in Handlers : ~Busy(h)'
    BY <1>0 DEF Busy
  <2>3. QED
    BY <1>0, <1>6, <1>7, <1>8, <2>1, <2>2 DEF DiskInv

\* Nothing is counted when nothing is read and nobody is at work.
NothingRead ==
  /\ clusters = <<>> /\ clean /\ unread = DOMAIN disk /\ IsFiniteSet(DOMAIN disk)
  /\ \A h \in Handlers : job[h] = Idle
LEMMA NothingCounted == NothingRead => DiskInv
<1> SUFFICES ASSUME NothingRead PROVE DiskInv
  OBVIOUS
<1> USE DEF NothingRead
<1>1. \A c, ys : Named(c, ys) = {} /\ Removing(c, ys) = {} /\ HeldOf(c, ys) = {} /\ Owing(c, ys) = {}
  BY DEF Named, Removing, HeldOf, Owing, Removes, Owes, Idle
<1>2. Cardinality({}) = 0
  BY FS_EmptySet
<1>3. Covers({}, {}, {}, {})
  BY <1>2 DEF Covers
<1>4. Balanced
  BY <1>1, <1>3 DEF Balanced
<1>5. {h \in Handlers : Busy(h)} = {}
  BY DEF Busy
<1>6. OneOnDisk /\ ReadIsLoaded /\ \A h \in Handlers : SeesDisk(job[h])
  BY DEF OneOnDisk, ReadIsLoaded, SeesDisk, OnDisk, Idle
<1>7. QED
  BY <1>4, <1>5, <1>6, FS_EmptySet DEF DiskInv, Busy

LEMMA DiskStep == IInv /\ IInv' /\ DiskInv /\ [Next]_vars => DiskInv'
<1> SUFFICES ASSUME IInv, IInv', DiskInv, [Next]_vars PROVE DiskInv'
  OBVIOUS
<1>1. CASE Serve
  <2>1. PICK h \in Handlers : Import(h) \/ Removal(h) \/ \E x \in Askable : SetCurrent(h, x)
    BY <1>1 DEF Serve
  <2>2. CASE \E x \in Askable : SetCurrent(h, x)
    <3>1. UNCHANGED <<clusters, loaded, disk, up, unread, job, clean, own>>
      BY <1>1, <2>2 DEF Serve, SetCurrent
    <3>2. QED
      BY <3>1 DEF DiskInv, Balanced, Counted, Covers, Named, Removing, HeldOf, Owing, OneOnDisk, ReadIsLoaded,
                  SeesDisk, Busy
  <2>3. QED
    BY <1>1, <2>1, <2>2, ImportKeepsDisk, RemovalKeepsDisk DEF Serve
<1>2. CASE Restart
  <2>1. NothingRead'
    BY <1>2 DEF Restart, DiskInv, NothingRead
  <2>2. QED
    BY <2>1, NothingCounted, PTL
<1>3. CASE LoadFile
  BY <1>3, StartKeepsDisk
<1>4. CASE Ready \/ UNCHANGED vars
  <2>1. /\ UNCHANGED <<clusters, loaded, disk, unread, job, clean, own>> /\ (up' = up \/ up')
    BY <1>4 DEF Ready, vars
  <2>2. QED
    BY <2>1 DEF DiskInv, Balanced, Counted, Covers, Named, Removing, HeldOf, Owing, OneOnDisk, ReadIsLoaded,
                SeesDisk, Busy
<1>5. QED
  BY <1>1, <1>2, <1>3, <1>4 DEF Next

\* Once no request is under way, and none failed or met another on the disk
\* since the server started, wherever it was killed before: of each context name
\* there are as many copies on disk as clusters in the picker; while every
\* removal found the file of its own cluster, each cluster has one of its own
\* payload; and every file that can be read is in loadedFiles.
THEOREM PickerIsBacked == Spec => []RestartRestores
<1>1. Init => DiskInv
  <2>1. ASSUME Init PROVE DiskInv
    <3>1. DOMAIN disk = {}
      BY <2>1 DEF Init
    <3>2. QED
      BY <2>1, <3>1, FS_EmptySet, NothingCounted DEF Init, NothingRead
  <2>2. QED
    BY <2>1
<1>2. IInv /\ DiskInv => RestartRestores
  <2>1. ASSUME IInv, DiskInv, AtRest, clean, NEW c \in Contexts, NEW ys \in Counted PROVE HasFile(c, ys)
    <3>1. Removing(c, ys) = {} /\ Owing(c, ys) = {}
      BY <2>1 DEF AtRest, Removing, Owing, Removes, Owes, Busy, Idle
    <3>2. PICK n, d : n = Named(c, ys) /\ d = HeldOf(c, ys)
      OBVIOUS
    <3>3. Covers(n, {}, d, {}) /\ IsFiniteSet(n) /\ IsFiniteSet(d)
      BY <2>1, <3>1, <3>2, CountedAreFinite DEF DiskInv, Balanced
    <3>4. Cardinality(n) <= Cardinality(d)
      BY <3>3, FS_EmptySet, FS_CardinalityType DEF Covers
    <3>5. ClustersOf(c, ys) = n /\ FilesOf(c, ys) = d
      BY <2>1, <3>2, UpIsRead DEF ClustersOf, Named, AtRest
    <3>6. QED
      BY <3>4, <3>5 DEF HasFile
  <2>2. ASSUME IInv, DiskInv, AtRest, clean, NEW p \in DOMAIN disk, disk[p].contexts # {} PROVE p \in loaded
    BY <2>2, UpIsRead DEF DiskInv, ReadIsLoaded, AtRest, Busy, Idle
  <2>3. ASSUME IInv, DiskInv PROVE NothingLost
    BY <2>1, <2>3 DEF NothingLost, Counted
  <2>4. ASSUME IInv, DiskInv PROVE OwnIsKept
    BY <2>1, <2>4 DEF OwnIsKept, Counted, DiskInv
  <2>5. QED
    BY <2>2, <2>3, <2>4 DEF RestartRestores, ReadIsLoaded, ReloadAddsNothing
<1>3. QED
  BY Invariance, <1>1, DiskStep, <1>2, PTL DEF Spec

-----------------------------------------------------------------------------
(* Registry: the adoption of the legacy kubeconfigs                         *)

\* r.mu makes the adoption exclusive: until the memory of the server says that
\* the legacy files are adopted, only the identity that holds r.mu can have any
\* that a crash has not left behind, and a call that does not adopt copies nothing.
Exclusive ==
  /\ making.adopt => ~legacyAdopted
  /\ making.todo \cup making.writing # {} => making.adopt
  /\ sentinel => legacyAdopted
  /\ ~legacyAdopted =>
       \A i \in Identities \ interrupted : HasCopies(i) => making.id = i /\ making.adopt

\* Every copy is whole, is being written, or was cut; and the holder of r.mu has,
\* or has still to look at, every legacy file.
CopiesAreKnown ==
  \A i \in Identities, f \in Legacy :
    dirs[i][f] = "part" => <<i, f>> \in cut \/ (making.id = i /\ f \in making.writing)
Complete ==
  making.adopt => \A f \in Legacy :
    \/ dirs[making.id][f] = "whole" \/ f \in making.todo \cup making.writing
    \/ <<making.id, f>> \in cut

\* One file is written at a time, and has been taken off the list.
OneAtATime ==
  /\ making.writing \cap making.todo = {}
  /\ \A f, g \in making.writing : f = g

AdoptInv ==
  /\ AdoptTypeOK /\ Exclusive /\ OneAtATime /\ CopiesAreKnown /\ Complete
  /\ AdoptedOnce /\ LegacyReachable

LEMMA InitAdoptInv == AdoptInit => AdoptInv
<1> SUFFICES ASSUME AdoptInit PROVE AdoptInv
  OBVIOUS
<1>1. AdoptTypeOK
  BY DEF AdoptInit, AdoptTypeOK
<1>2. Exclusive /\ OneAtATime /\ CopiesAreKnown /\ Complete
  BY DEF AdoptInit, Exclusive, OneAtATime, CopiesAreKnown, Complete, Nobody, HasCopies
<1>3. AdoptedOnce /\ LegacyReachable
  BY DEF AdoptInit, AdoptedOnce, LegacyReachable, HasCopies
<1> QED BY <1>1, <1>2, <1>3 DEF AdoptInv

\* While a call copies, the holder of r.mu is an identity.
Holders == [id : Identities \ managers, adopt : BOOLEAN, todo : SUBSET Legacy, writing : SUBSET Legacy]
LEMMA Copying ==
  ASSUME AdoptInv, NEW f \in making.todo \cup making.writing
  PROVE  making \in Holders /\ making.adopt /\ ~legacyAdopted /\ ~sentinel /\ f \in Legacy
BY DEF AdoptInv, AdoptTypeOK, Exclusive, Nobody, Holders

\* One copy of the holder changes; the others are as they were.
LEMMA CopyStep ==
  ASSUME AdoptInv, NEW f \in Legacy, NEW to, NEW w,
         (to = "part" /\ w = {f}) \/ (to = "whole" /\ w = {}), f \in making.todo \cup making.writing,
         dirs' = [dirs EXCEPT ![making.id][f] = to],
         making' = [making EXCEPT !.todo = @ \ {f}, !.writing = w],
         making.writing \subseteq {f},
         UNCHANGED <<managers, legacyAdopted, sentinel, interrupted, cut>>
  PROVE  AdoptInv'
<1> USE DEF AdoptInv
<1>1. making \in Holders /\ making.adopt /\ ~legacyAdopted /\ ~sentinel
  BY Copying
<1>2. /\ making' \in Holders /\ making'.id = making.id /\ making'.adopt
      /\ making'.todo = making.todo \ {f}
      /\ making'.writing = w
  BY <1>1 DEF Holders
<1>3. /\ dirs' \in [Identities -> [Legacy -> {"absent", "part", "whole"}]]
      /\ dirs'[making.id][f] = to
      /\ \A i \in Identities, g \in Legacy : i # making.id \/ g # f => dirs'[i][g] = dirs[i][g]
  BY <1>1 DEF AdoptTypeOK, Holders
<1>4. AdoptTypeOK'
  BY <1>2, <1>3 DEF AdoptTypeOK, Holders
<1>5. \A i \in Identities : HasCopies(i)' => i = making.id \/ HasCopies(i)
  BY <1>3 DEF HasCopies
<1>6. Exclusive' /\ OneAtATime'
  BY <1>1, <1>2, <1>5 DEF Exclusive, OneAtATime
<1>7. CopiesAreKnown'
  BY <1>1, <1>2, <1>3 DEF CopiesAreKnown, Holders
<1>8. Complete'
  BY <1>1, <1>2, <1>3 DEF Complete, Holders
<1>9. AdoptedOnce'
  <2> SUFFICES ASSUME NEW i \in Identities \ interrupted, HasCopies(i)'
               PROVE  i = making.id
    BY DEF AdoptedOnce
  <2>1. QED
    BY <1>1, <1>5 DEF Exclusive
<1>10. LegacyReachable'
  BY <1>1 DEF LegacyReachable
<1>11. QED
  BY <1>4, <1>6, <1>7, <1>8, <1>9, <1>10

LEMMA StepAdoptInv == AdoptInv /\ [AdoptNext]_adoptVars => AdoptInv'
<1> SUFFICES ASSUME AdoptInv, [AdoptNext]_adoptVars PROVE AdoptInv'
  OBVIOUS
<1> USE DEF AdoptInv
<1>1. ASSUME NEW i \in Identities, ForBegin(i) PROVE AdoptInv'
  <2>0. /\ making = Nobody /\ i \notin managers
        /\ making' = [id |-> i, adopt |-> ~legacyAdopted, writing |-> {},
                      todo |-> {f \in Legacy : ~legacyAdopted /\ dirs[i][f] = "absent"}]
        /\ UNCHANGED <<managers, legacyAdopted, sentinel, dirs, interrupted, cut>>
    BY <1>1 DEF ForBegin, Cached
  <2>1. AdoptTypeOK'
    BY <2>0 DEF AdoptTypeOK
  <2>2. Exclusive' /\ OneAtATime'
    BY <2>0, NoneAssumption DEF AdoptTypeOK, Exclusive, OneAtATime, HasCopies, Nobody
  <2>3. CopiesAreKnown'
    BY <2>0 DEF CopiesAreKnown, Nobody
  <2>4. Complete'
    <3> SUFFICES ASSUME ~legacyAdopted, NEW f \in Legacy
                 PROVE  dirs[i][f] = "whole" \/ dirs[i][f] = "absent" \/ <<i, f>> \in cut
      BY <2>0 DEF Complete
    <3>1. dirs[i][f] \in {"absent", "part", "whole"}
      BY DEF AdoptTypeOK
    <3>2. dirs[i][f] = "part" => <<i, f>> \in cut
      BY <2>0 DEF CopiesAreKnown, Nobody
    <3>3. QED
      BY <3>1, <3>2
  <2>5. (AdoptedOnce /\ LegacyReachable)'
    BY <2>0 DEF AdoptedOnce, LegacyReachable, HasCopies
  <2> QED BY <2>1, <2>2, <2>3, <2>4, <2>5
<1>2. ASSUME NEW f \in Legacy, CopyBegins(f) PROVE AdoptInv'
  <2>1. making.writing = {} /\ f \in making.todo
    BY <1>2 DEF CopyBegins
  <2>2. /\ dirs' = [dirs EXCEPT ![making.id][f] = "part"]
        /\ making' = [making EXCEPT !.todo = @ \ {f}, !.writing = {f}]
        /\ UNCHANGED <<managers, legacyAdopted, sentinel, interrupted, cut>>
    BY <1>2 DEF CopyBegins
  <2>3. making.writing \subseteq {f} /\ f \in making.todo \cup making.writing
    BY <2>1
  <2>4. QED
    BY ONLY AdoptInv, f \in Legacy, <2>2, <2>3, CopyStep
<1>3. ASSUME NEW f \in Legacy, CopyEnds(f) PROVE AdoptInv'
  <2>1. /\ f \in making.writing /\ dirs' = [dirs EXCEPT ![making.id][f] = "whole"]
        /\ making' = [making EXCEPT !.writing = {}]
        /\ UNCHANGED <<managers, legacyAdopted, sentinel, interrupted, cut>>
    BY <1>3 DEF CopyEnds
  <2>2. making \in Holders /\ making.writing \subseteq {f} /\ f \notin making.todo
    BY <2>1, Copying DEF AdoptTypeOK, OneAtATime
  <2>3. making' = [making EXCEPT !.todo = @ \ {f}, !.writing = {}]
    BY <2>1, <2>2 DEF Holders
  <2>4. f \in making.todo \cup making.writing
    BY <2>1
  <2>5. QED
    BY ONLY AdoptInv, f \in Legacy, <2>1, <2>2, <2>3, <2>4, CopyStep
<1>4. ASSUME NEW f \in Legacy, CopyFails(f) PROVE AdoptInv'
  <2>0. /\ f \in making.todo \cup making.writing
        /\ making' = [making EXCEPT !.todo = @ \ {f}, !.writing = {}]
        /\ cut' = cut \cup {<<making.id, f>>}
        /\ UNCHANGED <<managers, legacyAdopted, sentinel, dirs, interrupted>>
    BY <1>4 DEF CopyFails
  <2>1. making \in Holders /\ making.adopt /\ ~legacyAdopted /\ ~sentinel
    BY <2>0, Copying
  <2>2. /\ making' \in Holders /\ making'.id = making.id /\ making'.adopt
        /\ making'.todo = making.todo \ {f} /\ making'.writing = {}
    BY <2>0, <2>1 DEF Holders
  <2>3. making.writing \subseteq {f}
    BY <1>4, <2>1 DEF CopyFails, OneAtATime
  <2>4. AdoptTypeOK'
    BY <2>0, <2>1, <2>2 DEF AdoptTypeOK, Holders
  <2>5. Exclusive' /\ OneAtATime'
    BY <2>0, <2>1, <2>2 DEF Exclusive, OneAtATime, HasCopies
  <2>6. CopiesAreKnown' /\ Complete'
    BY <2>0, <2>1, <2>2, <2>3 DEF CopiesAreKnown, Complete
  <2>7. (AdoptedOnce /\ LegacyReachable)'
    BY <2>0, <2>1 DEF AdoptedOnce, LegacyReachable, HasCopies
  <2> QED BY <2>4, <2>5, <2>6, <2>7
<1>5. CASE ForEnd
  <2>0. /\ making \in Holders /\ making.todo = {} /\ making.writing = {}
        /\ managers' = managers \cup {making.id} /\ making' = Nobody
        /\ legacyAdopted' = (legacyAdopted \/ making.adopt)
        /\ sentinel' \in {sentinel, TRUE} /\ (~making.adopt => sentinel' = sentinel)
        /\ UNCHANGED <<dirs, interrupted, cut>>
    <3>1. making \in Holders /\ making.todo = {} /\ making.writing = {}
      BY <1>5, NoneAssumption DEF ForEnd, CopiesDone, AdoptTypeOK, Nobody, Holders
    <3>2. /\ managers' = managers \cup {making.id} /\ making' = Nobody
          /\ legacyAdopted' = (legacyAdopted \/ making.adopt)
          /\ UNCHANGED <<dirs, interrupted, cut>>
      BY <1>5 DEF ForEnd, Mirror
    <3>3. sentinel' \in {sentinel, TRUE} /\ (~making.adopt => sentinel' = sentinel)
      BY <1>5 DEF ForEnd
    <3>4. QED
      BY <3>1, <3>2, <3>3
  <2>1. AdoptTypeOK'
    BY <2>0 DEF AdoptTypeOK, Holders
  <2>2. Exclusive' /\ OneAtATime'
    BY <2>0 DEF AdoptTypeOK, Exclusive, OneAtATime, HasCopies, Nobody
  <2>3. CopiesAreKnown' /\ Complete'
    BY <2>0 DEF CopiesAreKnown, Complete, Nobody
  <2>4. AdoptedOnce'
    BY <2>0 DEF AdoptedOnce, HasCopies
  <2>5. LegacyReachable'
    BY <2>0 DEF AdoptTypeOK, Complete, LegacyReachable, Holders
  <2> QED BY <2>1, <2>2, <2>3, <2>4, <2>5
<1>6. CASE RestartRegistry
  <2>0. /\ managers' = {} /\ legacyAdopted' = sentinel /\ making' = Nobody
        /\ interrupted' = interrupted \cup {i \in Identities : ~sentinel /\ HasCopies(i)}
        /\ cut' = cut \cup {<<making.id, f>> : f \in making.writing}
        /\ UNCHANGED <<sentinel, dirs>>
    BY <1>6 DEF RestartRegistry
  <2>1. AdoptTypeOK'
    BY <2>0 DEF AdoptTypeOK, Nobody
  <2>2. Exclusive' /\ OneAtATime'
    BY <2>0 DEF Exclusive, OneAtATime, HasCopies, Nobody
  <2>3. CopiesAreKnown' /\ Complete'
    BY <2>0 DEF CopiesAreKnown, Complete, Nobody
  <2>4. (AdoptedOnce /\ LegacyReachable)'
    BY <2>0 DEF AdoptedOnce, LegacyReachable, HasCopies
  <2> QED BY <2>1, <2>2, <2>3, <2>4
<1>7. CASE UNCHANGED adoptVars
  BY <1>7 DEF adoptVars, AdoptTypeOK, Exclusive, OneAtATime, CopiesAreKnown, Complete, AdoptedOnce, LegacyReachable, HasCopies
<1> QED BY <1>1, <1>2, <1>3, <1>4, <1>5, <1>6, <1>7 DEF AdoptNext

LEMMA AdoptInvariance == AdoptSpec => []AdoptInv
<1>1. AdoptInv /\ [AdoptNext]_adoptVars => AdoptInv'
  BY StepAdoptInv
<1> QED BY InitAdoptInv, <1>1, PTL DEF AdoptSpec

\* A manager in use is never replaced, for any number of identities and files.
THEOREM AdoptTypeCorrect == AdoptSpec => []AdoptTypeOK
<1>1. AdoptInv => AdoptTypeOK
  BY DEF AdoptInv
<1> QED BY AdoptInvariance, <1>1, PTL

\* The legacy kubeconfigs go to one identity, apart from copies a crash left
\* behind: For of registry.go holds r.mu from the test of legacyAdopted to its
\* assignment.
THEOREM LegacyAdoptedOnce == AdoptSpec => []AdoptedOnce
<1>1. AdoptInv => AdoptedOnce
  BY DEF AdoptInv
<1> QED BY AdoptInvariance, <1>1, PTL

\* Wherever the server stops: what the sentinel hides has been copied whole for
\* one identity, but for the files whose copy for it failed or was cut short.
THEOREM LegacyNeverLost == AdoptSpec => []LegacyReachable
<1>1. AdoptInv => LegacyReachable
  BY DEF AdoptInv
<1> QED BY AdoptInvariance, <1>1, PTL

\* Whatever identities ask and wherever the server stops: once they are marked as
\* adopted the legacy kubeconfigs have an owner, as far as copying them went well,
\* and one only, as far as no crash left copies behind.
THEOREM LegacyIsOwned == AdoptSpec => []LegacyHasOneOwner
BY LegacyAdoptedOnce, LegacyNeverLost, PTL DEF LegacyHasOneOwner
=============================================================================
