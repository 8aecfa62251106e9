------------------------ MODULE InformerStoreProofs ------------------------
(***************************************************************************)
(* Proofs about InformerStore, for any number of keys, entries,            *)
(* subscribers and versions and any channel capacity.                      *)
(***************************************************************************)
EXTENDS InformerStore, Integers, TLAPS

\* s.entries maps a key to an entry allocated for that key.
EntriesAreOfTheirKey ==
  \A k \in Keys : entries[k] # None => keyOf[entries[k]] = k

\* A call of subscribe past its first critical section has an entry.
CallersHaveEntries ==
  /\ \A p \in Subs : pc[p] # "idle" => ent[p] # None
  /\ \A p \in Subs : ent[p] # None => keyOf[ent[p]] # None
  /\ \A p \in Subs : p \in created => pc[p] # "idle"

\* Janitors work on allocated entries.
JanitorsHaveEntries ==
  \A e \in Entries : sleeping[e] > 0 \/ armed[e] > 0 => keyOf[e] # None

\* entry.subs holds the subscribers between Register and CloseUnregister.
SubsAreRegistered ==
  /\ \A e \in Entries : \A p \in subs[e] : ent[p] = e /\ pc[p] \in {"registered", "open"}
  /\ \A p \in Subs : pc[p] \in {"registered", "open"} => p \in subs[ent[p]]

MapInv ==
  /\ TypeOK
  /\ InformerRunsIffRegistered
  /\ EntriesAreOfTheirKey
  /\ CallersHaveEntries
  /\ JanitorsHaveEntries

IInv ==
  /\ MapInv
  /\ SubsAreRegistered
  /\ BroadcastStaysInEntry
  /\ RunningInformerIsClaimed

USE ChanCapAssumption, MaxVersionAssumption, NoneAssumption

LEMMA InitMapInv == Init => MapInv
<1> SUFFICES ASSUME Init PROVE MapInv
  OBVIOUS
<1>1. TypeOK
  <2>1. 0 \in Versions /\ <<>> \in Seq(Events)
    BY DEF Versions
  <2>2. QED
    BY <2>1 DEF Init, TypeOK, PcStates
<1>2. InformerRunsIffRegistered /\ EntriesAreOfTheirKey
  BY DEF Init, InformerRunsIffRegistered, EntriesAreOfTheirKey
<1>3. CallersHaveEntries /\ JanitorsHaveEntries
  BY DEF Init, CallersHaveEntries, JanitorsHaveEntries
<1>4. QED
  BY <1>1, <1>2, <1>3 DEF MapInv

LEMMA EventTypes ==
  /\ \A v \in Versions : Snapshot(v) \in Events /\ Delta(v) \in Events
  /\ \A s \in SUBSET Versions, ev \in Events : Applied(s, ev) \in SUBSET Versions
<1>1. ASSUME NEW v \in Versions PROVE Snapshot(v) \in Events /\ Delta(v) \in Events
  BY DEF Snapshot, Delta, Events
<1>2. ASSUME NEW s \in SUBSET Versions, NEW ev \in Events
      PROVE  Applied(s, ev) \in SUBSET Versions
  <2>1. ev.v \in Versions
    BY DEF Events
  <2>2. 1..ev.v \subseteq Versions
    BY <2>1 DEF Versions
  <2>3. QED
    BY <2>1, <2>2 DEF Applied
<1>3. QED
  BY <1>1, <1>2

\* Retiring an allocated entry removes and cancels it, or does nothing; both
\* keep s.entries and the running informers in step.
LEMMA RetireKeepsMap ==
  ASSUME MapInv, UNCHANGED rootDone,
         NEW e \in Entries, keyOf[e] \in Keys, Retire(e)
  PROVE  /\ entries' \in [Keys -> Entries \cup {None}]
         /\ live' \subseteq live
         /\ UNCHANGED keyOf
         /\ InformerRunsIffRegistered'
         /\ EntriesAreOfTheirKey'
<1> USE DEF MapInv, TypeOK, InformerRunsIffRegistered, EntriesAreOfTheirKey
<1>1. CASE IsCurrent(e)
  <2>1. /\ entries' = [entries EXCEPT ![keyOf[e]] = None]
        /\ live' = live \ {e}
        /\ keyOf' = keyOf
    BY <1>1 DEF Retire
  <2>2. \A k \in Keys : entries'[k] # None => k # keyOf[e] /\ entries'[k] = entries[k]
    BY <2>1
  <2>3. EntriesAreOfTheirKey'
    BY <2>1, <2>2
  <2>4. \A k \in Keys : entries'[k] # None => entries'[k] # e
    BY <2>1, <2>2
  <2>5. \A x \in live' : entries'[keyOf'[x]] = x
    BY <1>1, <2>1 DEF IsCurrent
  <2>6. QED
    BY <2>1, <2>2, <2>3, <2>4, <2>5
<1>2. CASE ~IsCurrent(e)
  BY <1>2 DEF Retire, mapVars
<1>3. QED
  BY <1>1, <1>2

LEMMA NextMapInv == MapInv /\ [Next]_vars => MapInv'
<1> SUFFICES ASSUME MapInv, [Next]_vars PROVE MapInv'
  OBVIOUS
<1> USE DEF MapInv, TypeOK, InformerRunsIffRegistered, EntriesAreOfTheirKey,
            CallersHaveEntries, JanitorsHaveEntries, PcStates
<1>1. ASSUME NEW k \in Keys, ApiChange(k) PROVE MapInv'
  BY <1>1 DEF ApiChange, Versions, mapVars, infVars, janVars, callVars, chanVars
<1>2. ASSUME NEW e \in Entries, InformerSync(e) PROVE MapInv'
  BY <1>2 DEF InformerSync, apiVars, mapVars, janVars, callVars, chanVars
<1>3. ASSUME NEW e \in Entries, InformerWatch(e) PROVE MapInv'
  BY <1>3 DEF InformerWatch, Versions, apiVars, mapVars, janVars, callVars, chanVars
<1>4. ASSUME NEW p \in Subs, NEW k \in Keys, SubscribeBegin(p, k) PROVE MapInv'
  <2>1. /\ UNCHANGED <<apiVars, infVars, subs, janVars, last, snap, mark, chanVars, crashed>>
        /\ pc[p] = "idle" /\ pc' = [pc EXCEPT ![p] = "listing"]
    BY <1>4 DEF SubscribeBegin
  <2>2. CASE Join(p, k)
    BY <2>1, <2>2 DEF Join, apiVars, mapVars, infVars, janVars, chanVars
  <2>3. CASE Create(p, k)
    <3>1. PICK e \in Unallocated :
            /\ ent' = [ent EXCEPT ![p] = e]
            /\ entries' = [entries EXCEPT ![k] = e]
            /\ keyOf' = [keyOf EXCEPT ![e] = k]
            /\ live' = IF rootDone THEN live ELSE live \cup {e}
      BY <2>3 DEF Create
    <3>2. e \in Entries /\ keyOf[e] = None
      BY DEF Unallocated
    <3>3. entries[k] = None /\ created' = created \cup {p}
      BY <2>3 DEF Create, NeedsEntry
    <3>4. TypeOK'
      BY <2>1, <3>1, <3>2, <3>3 DEF apiVars, infVars, janVars, chanVars
    <3>5. InformerRunsIffRegistered' /\ EntriesAreOfTheirKey'
      BY <2>1, <3>1, <3>2, <3>3 DEF apiVars
    <3>6. CallersHaveEntries' /\ JanitorsHaveEntries'
      BY <2>1, <3>1, <3>2, <3>3 DEF janVars
    <3>7. QED
      BY <3>4, <3>5, <3>6
  <2>4. QED
    BY <1>4, <2>2, <2>3 DEF SubscribeBegin
<1>5. ASSUME NEW p \in Subs, InitialSnapshot(p) PROVE MapInv'
  <2>1. /\ UNCHANGED <<apiVars, mapVars, infVars, subs, janVars, ent, created, last,
                       mark, chanVars, crashed>>
        /\ pc[p] = "listing"
    BY <1>5 DEF InitialSnapshot
  <2>2. /\ snap' \in [Subs -> Versions] /\ pc' \in [Subs -> PcStates]
        /\ \A q \in Subs : pc'[q] = "idle" <=> pc[q] = "idle"
    <3>1. CASE ListFromCache(p)
      BY <2>1, <3>1 DEF ListFromCache
    <3>2. CASE CallApi(p)
      BY <2>1, <3>2 DEF CallApi
    <3>3. QED
      BY <1>5, <3>1, <3>2 DEF InitialSnapshot
  <2>3. TypeOK'
    BY <2>1, <2>2 DEF apiVars, mapVars, infVars, janVars, chanVars
  <2>4. InformerRunsIffRegistered' /\ EntriesAreOfTheirKey' /\ JanitorsHaveEntries'
    BY <2>1 DEF apiVars, mapVars, janVars
  <2>5. CallersHaveEntries'
    BY <2>1, <2>2 DEF mapVars
  <2>6. QED
    BY <2>3, <2>4, <2>5
<1>6. ASSUME NEW p \in Subs, ApiAnswer(p) PROVE MapInv'
  <2>1. /\ UNCHANGED <<apiVars, mapVars, infVars, subs, janVars, ent, created, last,
                       mark, chanVars, crashed>>
        /\ pc[p] = "calling"
    BY <1>6 DEF ApiAnswer
  <2>2. keyOf[ent[p]] \in Keys
    BY <2>1
  <2>3. /\ snap' \in [Subs -> Versions] /\ pc' \in [Subs -> PcStates]
        /\ \A q \in Subs : pc'[q] = "idle" <=> pc[q] = "idle"
    <3>1. CASE ListReturns(p)
      BY <2>1, <2>2, <3>1 DEF ListReturns
    <3>2. CASE ListFails(p)
      BY <2>1, <3>2 DEF ListFails
    <3>3. QED
      BY <1>6, <3>1, <3>2 DEF ApiAnswer
  <2>4. TypeOK'
    BY <2>1, <2>3 DEF apiVars, mapVars, infVars, janVars, chanVars
  <2>5. InformerRunsIffRegistered' /\ EntriesAreOfTheirKey' /\ JanitorsHaveEntries'
    BY <2>1 DEF apiVars, mapVars, janVars
  <2>6. CallersHaveEntries'
    BY <2>1, <2>3 DEF mapVars
  <2>7. QED
    BY <2>4, <2>5, <2>6
<1>7. ASSUME NEW p \in Subs, RemoveEntry(p) PROVE MapInv'
  <2>1. /\ UNCHANGED <<apiVars, infVars, subs, janVars, ent, created, last, snap, mark,
                       chanVars, crashed>>
        /\ pc[p] = "failing" /\ pc' = [pc EXCEPT ![p] = "failed"]
    BY <1>7 DEF RemoveEntry
  <2>2. ent[p] \in Entries
    BY <2>1
  <2>3. QED
    BY <1>7, <2>1, <2>2, RetireKeepsMap DEF RemoveEntry, apiVars, infVars, janVars, chanVars
<1>8. ASSUME NEW p \in Subs, Register(p) PROVE MapInv'
  BY <1>8 DEF Register, apiVars, mapVars, infVars, janVars, chanVars
<1>9. ASSUME NEW p \in Subs, PushSnapshot(p) PROVE MapInv'
  BY <1>9, EventTypes DEF PushSnapshot, apiVars, mapVars, infVars, janVars
<1>10. ASSUME NEW e \in Entries, BroadcastCopy(e) PROVE MapInv'
  BY <1>10 DEF BroadcastCopy, HandlerReady, Audience, Versions, apiVars, mapVars,
               janVars, callVars, chanVars
<1>11. ASSUME NEW e \in Entries, NEW p \in Subs, BroadcastSend(e, p) PROVE MapInv'
  <2>1. UNCHANGED <<apiVars, mapVars, synced, store, seen, subs, janVars, callVars, view>>
    BY <1>11 DEF BroadcastSend
  <2>2. casting' \in [Entries -> SUBSET Subs]
    BY <1>11 DEF BroadcastSend
  <2>3. /\ chan' \in [Subs -> Seq(Events)]
        /\ dropped' \subseteq Subs /\ crashed' \in BOOLEAN
    <3>1. Delta(seen[e]) \in Events
      BY EventTypes
    <3>2. CASE Deliver(e, p)
      BY <3>1, <3>2 DEF Deliver
    <3>3. CASE Drop(p)
      BY <3>3 DEF Drop
    <3>4. CASE SendOnClosed(p)
      BY <3>4 DEF SendOnClosed
    <3>5. QED
      BY <1>11, <3>2, <3>3, <3>4 DEF BroadcastSend
  <2>4. QED
    BY <2>1, <2>2, <2>3 DEF apiVars, mapVars, janVars, callVars
<1>12. ASSUME NEW p \in Subs, Consume(p) PROVE MapInv'
  BY <1>12, EventTypes DEF Consume, apiVars, mapVars, infVars, janVars, callVars
<1>13. ASSUME NEW p \in Subs, CloseUnregister(p) PROVE MapInv'
  BY <1>13 DEF CloseUnregister, apiVars, mapVars, infVars, janVars, chanVars
<1>14. ASSUME NEW p \in Subs, CloseChannel(p) PROVE MapInv'
  BY <1>14 DEF CloseChannel, apiVars, mapVars, infVars, chanVars
<1>15. ASSUME NEW e \in Entries, JanitorCheck(e) PROVE MapInv'
  BY <1>15 DEF JanitorCheck, apiVars, mapVars, infVars, callVars, chanVars
<1>16. ASSUME NEW e \in Entries, JanitorStop(e) PROVE MapInv'
  <2>1. keyOf[e] \in Keys
    BY <1>16 DEF JanitorStop
  <2>2. armed' \in [Entries -> Nat] /\ \A x \in Entries : armed'[x] > 0 => armed[x] > 0
    BY <1>16 DEF JanitorStop
  <2>3. UNCHANGED <<apiVars, infVars, subs, sleeping, callVars, chanVars, crashed>>
    BY <1>16 DEF JanitorStop
  <2>4. QED
    BY <1>16, <2>1, <2>2, <2>3, RetireKeepsMap DEF JanitorStop, apiVars, infVars,
       callVars, chanVars
<1>17. CASE StopAll
  BY <1>17 DEF StopAll, apiVars, infVars, janVars, callVars, chanVars
<1>18. CASE RootCancel
  BY <1>18 DEF RootCancel, infVars, janVars, callVars, chanVars
<1>19. CASE UNCHANGED vars
  BY <1>19 DEF vars, apiVars, mapVars, infVars, janVars, callVars, chanVars
<1>20. QED
  BY <1>1, <1>2, <1>3, <1>4, <1>5, <1>6, <1>7, <1>8, <1>9, <1>10, <1>11, <1>12,
     <1>13, <1>14, <1>15, <1>16, <1>17, <1>18, <1>19
     DEF Next, Subscriber, Informer, Janitor

SubsInv == MapInv /\ SubsAreRegistered /\ BroadcastStaysInEntry

LEMMA InitSubsInv == Init => SubsInv
BY InitMapInv DEF SubsInv, Init, SubsAreRegistered, BroadcastStaysInEntry

\* Actions that touch neither entry.subs, nor the broadcast in progress, nor
\* anybody's entry or program counter.
LEMMA SubsFrame ==
  ASSUME SubsAreRegistered, BroadcastStaysInEntry, UNCHANGED <<subs, casting, pc, ent>>
  PROVE  SubsAreRegistered' /\ BroadcastStaysInEntry'
BY DEF SubsAreRegistered, BroadcastStaysInEntry

\* Actions of one subscriber outside the time it is registered.
LEMMA SubsStep ==
  ASSUME TypeOK, SubsAreRegistered, BroadcastStaysInEntry,
         UNCHANGED <<subs, casting>>,
         NEW p \in Subs, NEW s \in {"listing", "calling", "failing", "failed", "listed"},
         pc[p] \in {"idle", "listing", "calling", "failing"},
         pc' = [pc EXCEPT ![p] = s],
         \A q \in Subs \ {p} : ent'[q] = ent[q]
  PROVE  SubsAreRegistered' /\ BroadcastStaysInEntry'
BY DEF TypeOK, SubsAreRegistered, BroadcastStaysInEntry

LEMMA NextSubsInv == SubsInv /\ [Next]_vars => SubsInv'
<1> SUFFICES ASSUME SubsInv, [Next]_vars
             PROVE  SubsAreRegistered' /\ BroadcastStaysInEntry'
  BY NextMapInv DEF SubsInv
<1>0. TypeOK /\ CallersHaveEntries /\ SubsAreRegistered /\ BroadcastStaysInEntry
  BY DEF SubsInv, MapInv
<1> USE <1>0
<1> USE DEF SubsAreRegistered, BroadcastStaysInEntry
<1>1. ASSUME NEW k \in Keys, ApiChange(k) PROVE SubsAreRegistered' /\ BroadcastStaysInEntry'
  BY <1>1, SubsFrame DEF ApiChange, infVars, callVars
<1>2. ASSUME NEW e \in Entries, InformerSync(e) \/ InformerWatch(e)
      PROVE  SubsAreRegistered' /\ BroadcastStaysInEntry'
  BY <1>2, SubsFrame DEF InformerSync, InformerWatch, callVars
<1>3. ASSUME NEW p \in Subs, NEW k \in Keys, SubscribeBegin(p, k)
      PROVE  SubsAreRegistered' /\ BroadcastStaysInEntry'
  <2>1. \A q \in Subs \ {p} : ent'[q] = ent[q]
    BY <1>3 DEF SubscribeBegin, Join, Create, TypeOK
  <2>2. QED
    BY <1>3, <2>1, SubsStep DEF SubscribeBegin, infVars
<1>4. ASSUME NEW p \in Subs, InitialSnapshot(p)
      PROVE  SubsAreRegistered' /\ BroadcastStaysInEntry'
  BY <1>4, SubsStep DEF InitialSnapshot, ListFromCache, CallApi, infVars
<1>5. ASSUME NEW p \in Subs, ApiAnswer(p)
      PROVE  SubsAreRegistered' /\ BroadcastStaysInEntry'
  BY <1>5, SubsStep DEF ApiAnswer, ListReturns, ListFails, infVars
<1>6. ASSUME NEW p \in Subs, RemoveEntry(p)
      PROVE  SubsAreRegistered' /\ BroadcastStaysInEntry'
  BY <1>6, SubsStep DEF RemoveEntry, infVars
<1>7. ASSUME NEW p \in Subs, Register(p)
      PROVE  SubsAreRegistered' /\ BroadcastStaysInEntry'
  <2>1. ent[p] \in Entries
    BY <1>7 DEF Register, CallersHaveEntries, TypeOK
  <2>2. /\ UNCHANGED <<casting, ent>> /\ pc[p] = "listed"
        /\ subs' = [subs EXCEPT ![ent[p]] = @ \cup {p}]
        /\ pc' = [pc EXCEPT ![p] = "registered"]
    BY <1>7 DEF Register, infVars
  <2>3. SubsAreRegistered'
    BY <2>1, <2>2 DEF TypeOK
  <2>4. BroadcastStaysInEntry'
    BY <2>2 DEF TypeOK
  <2>5. QED
    BY <2>3, <2>4
<1>8. ASSUME NEW p \in Subs, PushSnapshot(p)
      PROVE  SubsAreRegistered' /\ BroadcastStaysInEntry'
  BY <1>8 DEF PushSnapshot, infVars, TypeOK
<1>9. ASSUME NEW e \in Entries, BroadcastCopy(e)
      PROVE  SubsAreRegistered' /\ BroadcastStaysInEntry'
  BY <1>9 DEF BroadcastCopy, Audience, callVars, TypeOK
<1>10. ASSUME NEW e \in Entries, NEW p \in Subs, BroadcastSend(e, p)
       PROVE  SubsAreRegistered' /\ BroadcastStaysInEntry'
  BY <1>10 DEF BroadcastSend, callVars, TypeOK
<1>11. ASSUME NEW p \in Subs, Consume(p)
       PROVE  SubsAreRegistered' /\ BroadcastStaysInEntry'
  BY <1>11, SubsFrame DEF Consume, infVars, callVars
<1>12. ASSUME NEW p \in Subs, CloseUnregister(p)
       PROVE  SubsAreRegistered' /\ BroadcastStaysInEntry'
  <2>1. /\ UNCHANGED <<casting, ent>> /\ pc[p] = "open"
        /\ subs' = [subs EXCEPT ![ent[p]] = @ \ {p}]
        /\ pc' = [pc EXCEPT ![p] = "closing"]
    BY <1>12 DEF CloseUnregister, infVars
  <2>2. ent[p] \in Entries
    BY <2>1 DEF CallersHaveEntries, TypeOK
  <2>3. QED
    BY <2>1, <2>2 DEF TypeOK
<1>13. ASSUME NEW p \in Subs, CloseChannel(p)
       PROVE  SubsAreRegistered' /\ BroadcastStaysInEntry'
  BY <1>13 DEF CloseChannel, infVars, TypeOK
<1>14. ASSUME NEW e \in Entries, Janitor(e)
       PROVE  SubsAreRegistered' /\ BroadcastStaysInEntry'
  BY <1>14, SubsFrame DEF Janitor, JanitorCheck, JanitorStop, infVars, callVars
<1>15. CASE StopAll \/ RootCancel
  BY <1>15, SubsFrame DEF StopAll, RootCancel, infVars, callVars
<1>16. CASE UNCHANGED vars
  BY <1>16, SubsFrame DEF vars, infVars, callVars
<1>17. QED
  BY <1>1, <1>2, <1>3, <1>4, <1>5, <1>6, <1>7, <1>8, <1>9, <1>10, <1>11, <1>12,
     <1>13, <1>14, <1>15, <1>16
     DEF Next, Subscriber, Informer

-----------------------------------------------------------------------------
(* No informer is left running without somebody who will stop it.          *)

\* An entry that is retired is not running afterwards.
LEMMA RetiredIsStopped ==
  ASSUME InformerRunsIffRegistered, NEW e \in Entries, Retire(e)
  PROVE  live' \subseteq live \ {e}
BY DEF InformerRunsIffRegistered, Retire, IsCurrent, mapVars

LEMMA ClaimFrame ==
  ASSUME RunningInformerIsClaimed, live' \subseteq live,
         UNCHANGED <<subs, ent, created, last, pc, sleeping, armed>>
  PROVE  RunningInformerIsClaimed'
BY DEF RunningInformerIsClaimed, Claimed, Creating, Leaving

LEMMA NextClaimed ==
  ASSUME SubsInv, RunningInformerIsClaimed, [Next]_vars
  PROVE  RunningInformerIsClaimed'
<1>0. TypeOK /\ InformerRunsIffRegistered /\ CallersHaveEntries
  BY DEF SubsInv, MapInv
<1> USE <1>0
<1>1. ASSUME NEW k \in Keys, ApiChange(k) PROVE RunningInformerIsClaimed'
  BY <1>1, ClaimFrame DEF ApiChange, mapVars, janVars, callVars
<1>2. ASSUME NEW e \in Entries, Informer(e) PROVE RunningInformerIsClaimed'
  BY <1>2, ClaimFrame DEF Informer, InformerSync, InformerWatch, BroadcastCopy,
     BroadcastSend, mapVars, janVars, callVars
<1>3. ASSUME NEW p \in Subs, NEW k \in Keys, SubscribeBegin(p, k)
      PROVE  RunningInformerIsClaimed'
  <2>1. /\ UNCHANGED <<subs, sleeping, armed, last>>
        /\ pc[p] = "idle" /\ pc' = [pc EXCEPT ![p] = "listing"]
    BY <1>3 DEF SubscribeBegin, janVars
  <2>2. /\ \A q \in Subs \ {p} : ent'[q] = ent[q] /\ pc'[q] = pc[q]
        /\ created \subseteq created'
    BY <1>3, <2>1 DEF SubscribeBegin, Join, Create, TypeOK
  <2>3. \A e \in live : Claimed(e)'
    <3>1. ~Creating(p) /\ ~Leaving(p)
      BY <2>1 DEF Creating, Leaving
    <3>2. ASSUME NEW q \in Subs \ {p}
          PROVE  (Creating(q) => Creating(q)') /\ (Leaving(q) => Leaving(q)')
      BY <2>1, <2>2 DEF Creating, Leaving
    <3>3. QED
      BY <2>1, <2>2, <3>1, <3>2 DEF RunningInformerIsClaimed, Claimed
  <2>4. CASE Join(p, k)
    BY <2>3, <2>4 DEF Join, mapVars, RunningInformerIsClaimed
  <2>5. CASE Create(p, k)
    <3>1. PICK e \in Unallocated : /\ ent' = [ent EXCEPT ![p] = e]
                                   /\ live' = IF rootDone THEN live ELSE live \cup {e}
      BY <2>5 DEF Create
    <3>2. ent'[p] = e /\ p \in created' /\ pc'[p] = "listing"
      BY <2>1, <2>5, <3>1 DEF Create, TypeOK
    <3>3. Claimed(e)'
      BY <3>2 DEF Claimed, Creating
    <3>4. QED
      BY <2>3, <3>1, <3>3 DEF RunningInformerIsClaimed
  <2>6. QED
    BY <1>3, <2>4, <2>5 DEF SubscribeBegin
<1>4. ASSUME NEW p \in Subs, InitialSnapshot(p) \/ ApiAnswer(p)
      PROVE  RunningInformerIsClaimed'
  <2>1. /\ UNCHANGED <<live, subs, sleeping, armed, ent, created, last>>
        /\ pc[p] \in {"listing", "calling"}
        /\ \E s \in {"listed", "calling", "failing", "failed"} :
             /\ pc' = [pc EXCEPT ![p] = s]
             /\ p \in created => s # "failed"
    BY <1>4 DEF InitialSnapshot, ListFromCache, CallApi, ApiAnswer, ListReturns,
       ListFails, mapVars, janVars
  <2>2. \A q \in Subs : (Creating(q) => Creating(q)') /\ (Leaving(q) => Leaving(q)')
    BY <2>1 DEF Creating, Leaving, TypeOK
  <2>3. QED
    BY <2>1, <2>2 DEF RunningInformerIsClaimed, Claimed
<1>5. ASSUME NEW p \in Subs, RemoveEntry(p) PROVE RunningInformerIsClaimed'
  <2>1. /\ UNCHANGED <<subs, sleeping, armed, ent, created, last>>
        /\ pc[p] = "failing" /\ pc' = [pc EXCEPT ![p] = "failed"]
    BY <1>5 DEF RemoveEntry, janVars
  <2>2. live' \subseteq live \ {ent[p]}
    BY <1>5, <2>1, RetiredIsStopped DEF RemoveEntry, CallersHaveEntries, TypeOK
  <2>3. ASSUME NEW q \in Subs \ {p}
        PROVE  (Creating(q) => Creating(q)') /\ (Leaving(q) => Leaving(q)')
    BY <2>1 DEF Creating, Leaving, TypeOK
  <2>4. \A e \in live' : Claimed(e)'
    BY <2>1, <2>2, <2>3 DEF RunningInformerIsClaimed, Claimed
  <2>5. QED
    BY <2>4 DEF RunningInformerIsClaimed
<1>6. ASSUME NEW p \in Subs, Register(p) PROVE RunningInformerIsClaimed'
  <2>1. /\ UNCHANGED <<live, sleeping, armed, ent, created, last>>
        /\ subs' = [subs EXCEPT ![ent[p]] = @ \cup {p}]
        /\ pc[p] = "listed" /\ pc' = [pc EXCEPT ![p] = "registered"]
    BY <1>6 DEF Register, mapVars, janVars
  <2>2. ent[p] \in Entries
    BY <2>1 DEF CallersHaveEntries, TypeOK
  <2>3. subs'[ent[p]] # {} /\ \A e \in Entries : subs[e] \subseteq subs'[e]
    BY <2>1, <2>2 DEF TypeOK
  <2>4. ASSUME NEW q \in Subs \ {p}
        PROVE  (Creating(q) => Creating(q)') /\ (Leaving(q) => Leaving(q)')
    BY <2>1 DEF Creating, Leaving, TypeOK
  <2>5. ASSUME NEW e \in live PROVE Claimed(e)'
    <3>1. CASE e = ent[p]
      BY <2>3, <3>1 DEF Claimed
    <3>2. CASE e # ent[p]
      BY <2>1, <2>3, <2>4, <3>2 DEF RunningInformerIsClaimed, Claimed, TypeOK
    <3>3. QED
      BY <3>1, <3>2
  <2>6. QED
    BY <2>1, <2>5 DEF RunningInformerIsClaimed
<1>7. ASSUME NEW p \in Subs, PushSnapshot(p) PROVE RunningInformerIsClaimed'
  <2>1. /\ UNCHANGED <<live, subs, sleeping, armed, ent, created, last>>
        /\ pc[p] = "registered" /\ pc' = [pc EXCEPT ![p] = "open"]
    BY <1>7 DEF PushSnapshot, mapVars, janVars
  <2>2. ASSUME NEW q \in Subs
        PROVE  (Creating(q) => Creating(q)') /\ (Leaving(q) => Leaving(q)')
    BY <2>1 DEF Creating, Leaving, TypeOK
  <2>3. QED
    BY <2>1, <2>2 DEF Claimed, RunningInformerIsClaimed
<1>8. ASSUME NEW p \in Subs, Consume(p) PROVE RunningInformerIsClaimed'
  BY <1>8, ClaimFrame DEF Consume, mapVars, janVars, callVars
<1>9. ASSUME NEW p \in Subs, CloseUnregister(p) PROVE RunningInformerIsClaimed'
  <2>1. /\ UNCHANGED <<live, sleeping, armed, ent, created>>
        /\ subs' = [subs EXCEPT ![ent[p]] = @ \ {p}]
        /\ last' = IF BecameEmpty(p) THEN last \cup {p} ELSE last
        /\ pc[p] = "open" /\ pc' = [pc EXCEPT ![p] = "closing"]
    BY <1>9 DEF CloseUnregister, mapVars, janVars
  <2>2. ent[p] \in Entries
    BY <2>1 DEF CallersHaveEntries, TypeOK
  <2>3. ASSUME NEW q \in Subs \ {p}
        PROVE  (Creating(q) => Creating(q)') /\ (Leaving(q) => Leaving(q)')
    BY <2>1 DEF Creating, Leaving, TypeOK
  <2>4. ~Creating(p) /\ ~Leaving(p)
    BY <2>1 DEF Creating, Leaving
  <2>5. ASSUME NEW e \in live, e # ent[p] PROVE Claimed(e)'
    BY <2>1, <2>2, <2>3, <2>4, <2>5 DEF RunningInformerIsClaimed, Claimed, TypeOK
  <2>6. ASSUME ent[p] \in live PROVE Claimed(ent[p])'
    <3>1. CASE BecameEmpty(p)
      BY <2>1, <3>1 DEF Claimed, Leaving, TypeOK
    <3>2. CASE ~BecameEmpty(p)
      BY <2>1, <2>2, <3>2 DEF Claimed, BecameEmpty, TypeOK
    <3>3. QED
      BY <3>1, <3>2
  <2>7. QED
    BY <2>1, <2>5, <2>6 DEF RunningInformerIsClaimed
<1>10. ASSUME NEW p \in Subs, CloseChannel(p) PROVE RunningInformerIsClaimed'
  <2>1. /\ UNCHANGED <<live, subs, armed, ent, created, last>>
        /\ sleeping' = IF p \in last THEN [sleeping EXCEPT ![ent[p]] = @ + 1] ELSE sleeping
        /\ pc[p] = "closing" /\ pc' = [pc EXCEPT ![p] = "closed"]
    BY <1>10 DEF CloseChannel, mapVars
  <2>2. ent[p] \in Entries
    BY <2>1 DEF CallersHaveEntries, TypeOK
  <2>3. \A e \in Entries : sleeping[e] > 0 => sleeping'[e] > 0
    BY <2>1, <2>2 DEF TypeOK
  <2>4. ASSUME NEW q \in Subs \ {p}
        PROVE  (Creating(q) => Creating(q)') /\ (Leaving(q) => Leaving(q)')
    BY <2>1 DEF Creating, Leaving, TypeOK
  <2>5. ~Creating(p)
    BY <2>1 DEF Creating
  <2>6. ASSUME NEW e \in live PROVE Claimed(e)'
    <3>1. CASE e = ent[p] /\ p \in last
      BY <2>1, <2>2, <3>1 DEF Claimed, TypeOK
    <3>2. CASE ~(e = ent[p] /\ p \in last)
      BY <2>1, <2>3, <2>4, <2>5, <3>2 DEF RunningInformerIsClaimed, Claimed, Leaving
    <3>3. QED
      BY <3>1, <3>2
  <2>7. QED
    BY <2>1, <2>6 DEF RunningInformerIsClaimed
<1>11. ASSUME NEW e \in Entries, JanitorCheck(e) PROVE RunningInformerIsClaimed'
  <2>1. /\ UNCHANGED <<live, subs, ent, created, last, pc>>
        /\ sleeping' = [sleeping EXCEPT ![e] = @ - 1]
        /\ armed' = IF subs[e] = {} THEN [armed EXCEPT ![e] = @ + 1] ELSE armed
    BY <1>11 DEF JanitorCheck, mapVars, callVars
  <2>2. subs'[e] # {} \/ armed'[e] > 0
    BY <2>1 DEF TypeOK
  <2>3. \A x \in live : Claimed(x)'
    BY <2>1, <2>2 DEF RunningInformerIsClaimed, Claimed, Creating, Leaving, TypeOK
  <2>4. QED
    BY <2>1, <2>3 DEF RunningInformerIsClaimed
<1>12. ASSUME NEW e \in Entries, JanitorStop(e) PROVE RunningInformerIsClaimed'
  <2>1. /\ UNCHANGED <<subs, sleeping, ent, created, last, pc>>
        /\ armed' = [armed EXCEPT ![e] = @ - 1]
    BY <1>12 DEF JanitorStop, callVars
  <2>2. live' \subseteq live \ {e}
    BY <1>12, RetiredIsStopped DEF JanitorStop
  <2>3. \A x \in live' : Claimed(x)'
    BY <2>1, <2>2 DEF RunningInformerIsClaimed, Claimed, Creating, Leaving, TypeOK
  <2>4. QED
    BY <2>3 DEF RunningInformerIsClaimed
<1>13. CASE StopAll \/ RootCancel
  BY <1>13, ClaimFrame DEF StopAll, RootCancel, janVars, callVars
<1>14. CASE UNCHANGED vars
  BY <1>14, ClaimFrame DEF vars, mapVars, janVars, callVars
<1>15. QED
  BY <1>1, <1>2, <1>3, <1>4, <1>5, <1>6, <1>7, <1>8, <1>9, <1>10, <1>11, <1>12,
     <1>13, <1>14
     DEF Next, Subscriber, Janitor

-----------------------------------------------------------------------------
(* The theorems                                                            *)

LEMMA Invariance == Spec => []IInv
<1>1. Init => IInv
  BY InitSubsInv DEF IInv, SubsInv, Init, RunningInformerIsClaimed
<1>2. IInv /\ [Next]_vars => IInv'
  BY NextSubsInv, NextClaimed DEF IInv, SubsInv
<1>3. QED
  BY <1>1, <1>2, PTL DEF Spec

\* Every reachable state is well typed.
THEOREM TypeCorrect == Spec => []TypeOK
<1>1. IInv => TypeOK
  BY DEF IInv, MapInv
<1>2. QED
  BY <1>1, Invariance, PTL

\* No interleaving of janitors, failing creators, stopAll and subscribers
\* leaves an informer running outside s.entries, or a cancelled one in it.
THEOREM RunsIffRegistered == Spec => []InformerRunsIffRegistered
<1>1. IInv => InformerRunsIffRegistered
  BY DEF IInv, MapInv
<1>2. QED
  BY <1>1, Invariance, PTL

\* Every running informer has somebody left who will stop it.
THEOREM RunningIsClaimed == Spec => []RunningInformerIsClaimed
<1>1. IInv => RunningInformerIsClaimed
  BY DEF IInv
<1>2. QED
  BY <1>1, Invariance, PTL

\* Together: an informer runs exactly while s.entries points at it, and then
\* somebody is left who will stop it.
THEOREM RunsForItsClaims == Spec => []RunsForClaims
BY RunsIffRegistered, RunningIsClaimed, PTL DEF RunsForClaims

\* A broadcast working on its copy of the channels never holds a channel of
\* another informer's subscriber.
THEOREM BroadcastStays == Spec => []BroadcastStaysInEntry
<1>1. IInv => BroadcastStaysInEntry
  BY DEF IInv
<1>2. QED
  BY <1>1, Invariance, PTL

-----------------------------------------------------------------------------
(* The channel of a subscriber.  A delta goes to the end of it, right after  *)
(* the one offered before; a snapshot that waits in it has behind it every   *)
(* delta handed out since it was sent, so that the consumer, which throws    *)
(* away its view when it comes to the snapshot, gets them all afterwards.    *)

Unregistered == {"idle", "listing", "calling", "failing", "failed", "listed"}
SnapshotIsFollowed(p) ==
  \A i \in DOMAIN chan[p] : chan[p][i].kind = "snapshot" =>
    \A v \in (mark[p] + 1)..Offered(p) :
      \E j \in DOMAIN chan[p] : i < j /\ chan[p][j] = Delta(v)
Arrives(p) == \A v \in (mark[p] + 1)..Offered(p) : v \in view[p] \/ Buffered(p, v)
StreamInv(p) ==
  /\ pc[p] \in Unregistered => chan[p] = <<>>
  /\ p \notin dropped /\ pc[p] \in {"registered", "open"} => Gapless(p)
  /\ p \notin dropped /\ pc[p] = "open" => SnapshotIsFollowed(p) /\ Arrives(p)
DeliveryInv == \A p \in Subs : StreamInv(p)

LEMMA InitDeliveryInv == Init => DeliveryInv
BY DEF Init, DeliveryInv, StreamInv

\* The elements of a sequence after an Append and after a Tail
LEMMA AfterAppend ==
  ASSUME NEW S, NEW c \in Seq(S), NEW x \in S, NEW d, d = Append(c, x), NEW n, n = Len(c) + 1
  PROVE  /\ n \in DOMAIN d /\ d[n] = x /\ n \in Nat
         /\ \A i \in DOMAIN c : i \in DOMAIN d /\ d[i] = c[i] /\ i \in Nat /\ i < n
         /\ \A i \in DOMAIN d : i \in DOMAIN c \/ i = n
OBVIOUS

LEMMA AfterTail ==
  ASSUME NEW S, NEW c \in Seq(S), c # <<>>, NEW d, d = Tail(c)
  PROVE  /\ 1 \in DOMAIN c /\ Head(c) = c[1] /\ c[1] \in S
         /\ \A i \in DOMAIN d : i \in Nat /\ i + 1 \in DOMAIN c /\ d[i] = c[i + 1]
         /\ \A i \in DOMAIN c : i \in Nat /\ (i # 1 => i - 1 \in DOMAIN d /\ d[i - 1] = c[i])
<1>1. DOMAIN c = 1..Len(c) /\ Len(c) \in Nat /\ Len(c) >= 1
  OBVIOUS
<1>2. Len(d) = Len(c) - 1 /\ DOMAIN d = 1..Len(d) /\ \A i \in 1..Len(d) : d[i] = c[i + 1]
  BY <1>1
<1>3. Head(c) = c[1] /\ c[1] \in S
  BY <1>1
<1>4. QED
  BY <1>1, <1>2, <1>3

LEMMA OfferedTypes ==
  ASSUME TypeOK, NEW p \in Subs, ent[p] \in Entries
  PROVE  /\ Offered(p) \in Int /\ mark[p] \in Nat /\ seen[ent[p]] \in Nat
         /\ p \notin casting[ent[p]] => Offered(p) = seen[ent[p]]
         /\ p \in casting[ent[p]] => Offered(p) = seen[ent[p]] - 1
BY DEF TypeOK, Versions, Offered

\* A step that leaves the channel of p alone, and what has been offered to p
LEMMA StreamFrame ==
  ASSUME NEW p \in Subs, StreamInv(p),
         chan'[p] = chan[p], view'[p] = view[p], mark'[p] = mark[p], dropped \subseteq dropped',
         pc[p] \in {"registered", "open"} => Offered(p)' = Offered(p),
         \/ pc'[p] = pc[p]
         \/ pc[p] \in Unregistered /\ pc'[p] \in Unregistered
         \/ pc'[p] \in {"closing", "closed"}
  PROVE  StreamInv(p)'
<1>1. CASE pc'[p] \in {"closing", "closed"}
  BY <1>1 DEF StreamInv, Unregistered
<1>2. CASE pc[p] \in Unregistered /\ pc'[p] \in Unregistered
  BY <1>2 DEF StreamInv, Unregistered
<1>3. CASE pc'[p] = pc[p]
  <2>1. CASE pc[p] \in {"registered", "open"}
    BY <1>3, <2>1 DEF StreamInv, Gapless, NothingMissing, NothingOvertakes, IsDelta,
                      SnapshotIsFollowed, Arrives, Buffered
  <2>2. CASE pc[p] \notin {"registered", "open"}
    BY <1>3, <2>2 DEF StreamInv
  <2>3. QED
    BY <2>1, <2>2
<1>4. QED
  BY <1>1, <1>2, <1>3

\* The broadcast loop offers the next delta to p, and p's channel takes it.
LEMMA DeliveredDelta ==
  ASSUME TypeOK, NEW p \in Subs, ent[p] \in Entries, StreamInv(p),
         p \notin dropped, pc[p] \in {"registered", "open"}, p \in casting[ent[p]],
         chan'[p] = Append(chan[p], Delta(seen[ent[p]])), Offered(p)' = seen[ent[p]],
         UNCHANGED <<pc, mark, view>>
  PROVE  StreamInv(p)'
<1> DEFINE o == seen[ent[p]]
<1>1. /\ o \in Nat /\ mark[p] \in Nat /\ Offered(p) = o - 1 /\ Offered(p)' = o
      /\ chan[p] \in Seq(Events) /\ Delta(o) \in Events
  BY OfferedTypes, EventTypes DEF TypeOK, Versions
<1>2. PICK n : n = Len(chan[p]) + 1
  OBVIOUS
<1>3. PICK c, d, x : c = chan[p] /\ d = chan'[p] /\ x = o
  OBVIOUS
<1>4. /\ n \in DOMAIN d /\ d[n] = Delta(x) /\ n \in Nat
      /\ \A i \in DOMAIN c : i \in DOMAIN d /\ d[i] = c[i] /\ i \in Nat /\ i < n
      /\ \A i \in DOMAIN d : i \in DOMAIN c \/ i = n
  BY <1>1, <1>2, <1>3, AfterAppend
<1>5. d[n].kind = "delta" /\ d[n].v = x
  BY <1>4 DEF Delta
<1>6. Gapless(p) /\ (pc[p] = "open" => SnapshotIsFollowed(p) /\ Arrives(p))
  BY DEF StreamInv
<1>7. \A i \in DOMAIN c : c[i].v \in Nat
  <2>1. \A i \in DOMAIN c : c[i] \in Events
    BY <1>1, <1>3
  <2>2. QED
    BY <2>1 DEF Events, Versions
<1> HIDE DEF o
<1>8. Gapless(p)'
  <2>1. ASSUME NEW i \in DOMAIN d, d[i].kind = "delta"
        PROVE  /\ d[i].v <= x
               /\ d[i].v = x \/ \E j \in DOMAIN d : i < j /\ d[j] = Delta(d[i].v + 1)
               /\ \A j \in DOMAIN d : i < j /\ d[j].kind = "delta" => d[i].v < d[j].v
    <3>1. CASE i = n
      BY <1>1, <1>3, <1>4, <1>5, <3>1
    <3>2. CASE i \in DOMAIN c
      <4>1. /\ c[i].v <= x - 1
            /\ c[i].v = x - 1 \/ \E j \in DOMAIN c : i < j /\ c[j] = Delta(c[i].v + 1)
            /\ \A j \in DOMAIN c : i < j /\ c[j].kind = "delta" => c[i].v < c[j].v
        BY <1>1, <1>3, <1>4, <1>6, <2>1, <3>2 DEF Gapless, NothingMissing, NothingOvertakes, IsDelta
      <4>2. c[i].v \in Nat /\ x \in Nat /\ d[i] = c[i]
        BY <1>1, <1>3, <1>4, <1>7, <3>2
      <4>3. d[i].v = x \/ \E j \in DOMAIN d : i < j /\ d[j] = Delta(d[i].v + 1)
        <5>1. CASE c[i].v = x - 1
          BY <1>4, <3>2, <4>2, <5>1
        <5>2. CASE \E j \in DOMAIN c : i < j /\ c[j] = Delta(c[i].v + 1)
          BY <1>4, <4>2, <5>2
        <5>3. QED
          BY <4>1, <5>1, <5>2
      <4>4. \A j \in DOMAIN d : i < j /\ d[j].kind = "delta" => d[i].v < d[j].v
        BY <1>4, <1>5, <4>1, <4>2
      <4>5. QED
        BY <4>1, <4>2, <4>3, <4>4
    <3>3. QED
      BY <1>4, <3>1, <3>2
  <2>2. QED
    BY <1>1, <1>3, <2>1 DEF Gapless, NothingMissing, NothingOvertakes, IsDelta
<1>9. ASSUME pc[p] = "open" PROVE SnapshotIsFollowed(p)' /\ Arrives(p)'
  <2>1. ASSUME NEW v \in (mark[p] + 1)..x
        PROVE  /\ v \in view[p] \/ \E j \in DOMAIN d : d[j] = Delta(v)
               /\ \A i \in DOMAIN d : d[i].kind = "snapshot" =>
                    \E j \in DOMAIN d : i < j /\ d[j] = Delta(v)
    <3>1. CASE v = x
      BY <1>4, <1>5, <3>1
    <3>2. CASE v # x
      <4>1. v \in (mark[p] + 1)..Offered(p)
        BY <1>1, <1>3, <2>1, <3>2
      <4>2. /\ v \in view[p] \/ \E j \in DOMAIN c : c[j] = Delta(v)
            /\ \A i \in DOMAIN c : c[i].kind = "snapshot" =>
                 \E j \in DOMAIN c : i < j /\ c[j] = Delta(v)
        BY <1>3, <1>6, <1>9, <4>1 DEF SnapshotIsFollowed, Arrives, Buffered
      <4>3. QED
        BY <1>4, <1>5, <4>2
    <3>3. QED
      BY <3>1, <3>2
  <2>2. QED
    BY <1>1, <1>3, <2>1 DEF SnapshotIsFollowed, Arrives, Buffered
<1>10. QED
  BY <1>6, <1>8, <1>9 DEF StreamInv, Unregistered

\* The consumer takes the first event: a delta joins the view, a snapshot
\* replaces it, and then all that the view should hold is still to come.
LEMMA ConsumedEvent ==
  ASSUME IInv, NEW p \in Subs, StreamInv(p), Consume(p), p \notin dropped
  PROVE  StreamInv(p)'
<1>1. /\ pc[p] = "open" /\ pc' = pc /\ chan[p] # <<>> /\ chan'[p] = Tail(chan[p])
      /\ view'[p] = Applied(view[p], Head(chan[p]))
      /\ UNCHANGED <<mark, seen, casting, ent>> /\ chan[p] \in Seq(Events) /\ TypeOK
  BY DEF Consume, infVars, callVars, IInv, MapInv, TypeOK
<1>2. PICK c, d : c = chan[p] /\ d = chan'[p]
  OBVIOUS
<1>3. /\ 1 \in DOMAIN c /\ Head(c) = c[1] /\ c[1] \in Events
      /\ \A i \in DOMAIN d : i \in Nat /\ i + 1 \in DOMAIN c /\ d[i] = c[i + 1]
      /\ \A i \in DOMAIN c : i \in Nat /\ (i # 1 => i - 1 \in DOMAIN d /\ d[i - 1] = c[i])
      /\ \A i \in DOMAIN c : i = 1 \/ i > 1
  <2>1. \A i \in DOMAIN c : i = 1 \/ i > 1
    BY <1>1, <1>2
  <2>2. c \in Seq(Events) /\ c # <<>> /\ d = Tail(c)
    BY <1>1, <1>2
  <2>3. QED
    BY <2>1, <2>2, AfterTail
<1>4. Offered(p)' = Offered(p)
  BY <1>1 DEF Offered
<1>5. Gapless(p) /\ SnapshotIsFollowed(p) /\ Arrives(p)
  BY <1>1 DEF StreamInv
<1>6. Gapless(p)'
  <2>1. ASSUME NEW i \in DOMAIN d, d[i].kind = "delta"
        PROVE  /\ d[i].v <= Offered(p)
               /\ d[i].v = Offered(p) \/ \E j \in DOMAIN d : i < j /\ d[j] = Delta(d[i].v + 1)
               /\ \A j \in DOMAIN d : i < j /\ d[j].kind = "delta" => d[i].v < d[j].v
    <3>1. /\ c[i + 1].v <= Offered(p)
          /\ \/ c[i + 1].v = Offered(p)
             \/ \E j \in DOMAIN c : i + 1 < j /\ c[j] = Delta(c[i + 1].v + 1)
          /\ \A j \in DOMAIN c : i + 1 < j /\ c[j].kind = "delta" => c[i + 1].v < c[j].v
      BY <1>2, <1>3, <1>5, <2>1 DEF Gapless, NothingMissing, NothingOvertakes, IsDelta
    <3>2. ASSUME NEW j \in DOMAIN c, i + 1 < j
          PROVE  j - 1 \in DOMAIN d /\ i < j - 1 /\ d[j - 1] = c[j]
      BY <1>3, <3>2
    <3>3. ASSUME NEW j \in DOMAIN d, i < j
          PROVE  j + 1 \in DOMAIN c /\ i + 1 < j + 1 /\ d[j] = c[j + 1]
      BY <1>3, <3>3
    <3>4. QED
      BY <1>3, <3>1, <3>2, <3>3
  <2>2. QED
    BY <1>2, <1>4, <2>1 DEF Gapless, NothingMissing, NothingOvertakes, IsDelta
<1>7. SnapshotIsFollowed(p)'
  <2>1. ASSUME NEW i \in DOMAIN d, d[i].kind = "snapshot", NEW v \in (mark[p] + 1)..Offered(p)
        PROVE  \E j \in DOMAIN d : i < j /\ d[j] = Delta(v)
    <3>1. PICK j \in DOMAIN c : i + 1 < j /\ c[j] = Delta(v)
      BY <1>2, <1>3, <1>5, <2>1 DEF SnapshotIsFollowed
    <3>2. j - 1 \in DOMAIN d /\ i < j - 1 /\ d[j - 1] = c[j]
      BY <1>3, <3>1
    <3>3. QED
      BY <3>1, <3>2
  <2>2. QED
    BY <1>1, <1>2, <1>4, <2>1 DEF SnapshotIsFollowed
<1>8. Arrives(p)'
  <2>1. ASSUME NEW v \in (mark[p] + 1)..Offered(p)
        PROVE  v \in view'[p] \/ \E j \in DOMAIN d : d[j] = Delta(v)
    <3>1. CASE c[1].kind = "snapshot"
      <4>1. PICK j \in DOMAIN c : 1 < j /\ c[j] = Delta(v)
        BY <1>2, <1>3, <1>5, <2>1, <3>1 DEF SnapshotIsFollowed
      <4>2. j - 1 \in DOMAIN d /\ d[j - 1] = c[j]
        BY <1>3, <4>1
      <4>3. QED
        BY <4>1, <4>2
    <3>2. CASE c[1].kind # "snapshot"
      <4>1. view'[p] = view[p] \cup {c[1].v}
        BY <1>1, <1>2, <1>3, <3>2 DEF Applied
      <4>2. CASE v \in view[p]
        BY <4>1, <4>2
      <4>3. CASE v \notin view[p]
        <5>1. PICK j \in DOMAIN c : c[j] = Delta(v)
          BY <1>2, <1>5, <2>1, <4>3 DEF Arrives, Buffered
        <5>2. CASE j = 1
          BY <4>1, <5>1, <5>2 DEF Delta
        <5>3. CASE j # 1
          BY <1>3, <5>1, <5>3
        <5>4. QED
          BY <5>2, <5>3
      <4>4. QED
        BY <4>2, <4>3
    <3>3. QED
      BY <3>1, <3>2
  <2>2. QED
    BY <1>1, <1>2, <1>4, <2>1 DEF Arrives, Buffered
<1>9. QED
  BY <1>1, <1>6, <1>7, <1>8 DEF StreamInv, Unregistered

\* When the snapshot is sent nothing has been handed out after it.
LEMMA PushedSnapshot ==
  ASSUME IInv, NEW p \in Subs, StreamInv(p), PushSnapshot(p), p \notin dropped
  PROVE  StreamInv(p)'
<1>1. /\ pc[p] = "registered" /\ pc'[p] = "open" /\ chan[p] \in Seq(Events)
      /\ chan'[p] = Append(chan[p], Snapshot(snap[p])) /\ mark'[p] = seen[ent[p]]
      /\ UNCHANGED <<seen, casting, ent>> /\ TypeOK
  BY DEF PushSnapshot, infVars, IInv, MapInv, TypeOK
<1>2. ent[p] \in Entries
  BY <1>1 DEF IInv, MapInv, CallersHaveEntries, TypeOK
<1>3. Offered(p)' = Offered(p) /\ Offered(p) \in Int /\ Offered(p) <= mark'[p] /\ mark'[p] \in Nat
  <2>1. Offered(p)' = Offered(p)
    BY <1>1 DEF Offered
  <2>2. QED
    BY <1>1, <1>2, <2>1, OfferedTypes
<1>4. SnapshotIsFollowed(p)' /\ Arrives(p)'
  BY <1>3 DEF SnapshotIsFollowed, Arrives
<1>5. Gapless(p)'
  <2>1. PICK n, c, d : n = Len(chan[p]) + 1 /\ c = chan[p] /\ d = chan'[p]
    OBVIOUS
  <2>2. Snapshot(snap[p]) \in Events
    BY <1>1, EventTypes DEF TypeOK
  <2>3. /\ n \in DOMAIN d /\ d[n] = Snapshot(snap[p])
        /\ \A i \in DOMAIN c : i \in DOMAIN d /\ d[i] = c[i]
        /\ \A i \in DOMAIN d : i \in DOMAIN c \/ i = n
    BY <1>1, <2>1, <2>2, AfterAppend
  <2>4. \A i \in DOMAIN d : d[i].kind = "delta" => i \in DOMAIN c
    BY <2>3 DEF Snapshot
  <2>5. Gapless(p)
    BY <1>1 DEF StreamInv
  <2>6. QED
    BY <1>3, <2>1, <2>3, <2>4, <2>5 DEF Gapless, NothingMissing, NothingOvertakes, IsDelta
<1>6. QED
  BY <1>1, <1>4, <1>5 DEF StreamInv, Unregistered

\* What has been offered to p does not change with the copy of a broadcast:
\* p is in the copy, and the new delta still to come.
LEMMA CopyOffersNothing ==
  ASSUME IInv, NEW e \in Entries, BroadcastCopy(e), NEW p \in Subs, pc[p] \in {"registered", "open"}
  PROVE  Offered(p)' = Offered(p)
<1>1. /\ casting[e] = {} /\ seen' = [seen EXCEPT ![e] = @ + 1] /\ ent' = ent
      /\ casting' = [casting EXCEPT ![e] = subs[e]]
  BY DEF BroadcastCopy, HandlerReady, Audience, callVars
<1>2. seen \in [Entries -> Nat] /\ casting \in [Entries -> SUBSET Subs] /\ p \in subs[ent[p]]
  BY DEF IInv, MapInv, TypeOK, Versions, SubsAreRegistered
<1>3. ent[p] \in Entries
  BY DEF IInv, MapInv, CallersHaveEntries, TypeOK
<1>4. CASE ent[p] = e
  <2>1. seen'[e] = seen[e] + 1 /\ seen[e] \in Nat /\ p \in casting'[e] /\ p \notin casting[e]
    BY <1>1, <1>2, <1>4
  <2>2. QED
    BY <1>1, <1>4, <2>1 DEF Offered
<1>5. CASE ent[p] # e
  BY <1>1, <1>2, <1>3, <1>5 DEF Offered
<1>6. QED
  BY <1>4, <1>5

LEMMA NextDeliveryInv == IInv /\ DeliveryInv /\ [Next]_vars => DeliveryInv'
<1> SUFFICES ASSUME IInv, DeliveryInv, [Next]_vars, NEW p \in Subs
             PROVE  StreamInv(p)'
  BY DEF DeliveryInv
<1>0. /\ StreamInv(p) /\ TypeOK
      /\ pc[p] \in {"registered", "open"} => ent[p] \in Entries
  BY DEF DeliveryInv, IInv, MapInv, CallersHaveEntries, TypeOK
\* Most steps move no event and, if they are p's, register or close nothing.
<1>1. CASE /\ UNCHANGED <<chan, view, mark, dropped, seen, casting>>
           /\ pc[p] \in {"registered", "open"} => ent'[p] = ent[p]
           /\ \/ pc'[p] = pc[p]
              \/ pc[p] \in Unregistered /\ pc'[p] \in Unregistered
              \/ pc'[p] \in {"closing", "closed"}
  BY <1>0, <1>1, StreamFrame DEF Offered
<1>2. ASSUME NEW k \in Keys, NEW q \in Subs, SubscribeBegin(q, k) PROVE StreamInv(p)'
  <2>1. /\ pc[q] = "idle" /\ \A r \in Subs \ {q} : ent'[r] = ent[r]
        /\ pc' = [pc EXCEPT ![q] = "listing"]
        /\ UNCHANGED <<chan, view, mark, dropped, seen, casting>>
    BY <1>0, <1>2 DEF SubscribeBegin, Join, Create, TypeOK, infVars, chanVars
  <2>2. QED
    BY <1>0, <1>1, <2>1 DEF Unregistered, TypeOK
<1>3. ASSUME NEW q \in Subs, InitialSnapshot(q) \/ ApiAnswer(q) \/ RemoveEntry(q)
      PROVE  StreamInv(p)'
  <2>1. /\ UNCHANGED <<chan, view, mark, dropped, seen, casting, ent>>
        /\ pc[q] \in Unregistered
        /\ \E s \in Unregistered : pc' = [pc EXCEPT ![q] = s]
    BY <1>3 DEF InitialSnapshot, ListFromCache, CallApi, ApiAnswer, ListReturns, ListFails,
                RemoveEntry, infVars, chanVars, Unregistered
  <2>2. QED
    BY <1>0, <1>1, <2>1 DEF TypeOK
<1>4. ASSUME NEW q \in Subs, Register(q) PROVE StreamInv(p)'
  <2>1. /\ UNCHANGED <<chan, view, mark, dropped, seen, casting, ent>>
        /\ pc[q] = "listed" /\ pc' = [pc EXCEPT ![q] = "registered"]
    BY <1>4 DEF Register, infVars, chanVars
  <2>2. CASE p = q
    <3>1. pc'[p] = "registered" /\ chan'[p] = <<>>
      BY <1>0, <2>1, <2>2 DEF StreamInv, Unregistered, TypeOK
    <3>2. QED
      BY <3>1 DEF StreamInv, Unregistered, Gapless
  <2>3. CASE p # q
    BY <1>0, <1>1, <2>1, <2>3 DEF TypeOK
  <2>4. QED
    BY <2>2, <2>3
<1>5. ASSUME NEW q \in Subs, PushSnapshot(q) PROVE StreamInv(p)'
  <2>1. /\ pc[q] = "registered" /\ pc' = [pc EXCEPT ![q] = "open"]
        /\ mark' = [mark EXCEPT ![q] = seen[ent[q]]]
        /\ chan' = [chan EXCEPT ![q] = Append(@, Snapshot(snap[q]))]
        /\ UNCHANGED <<view, dropped, seen, casting, ent>>
    BY <1>5 DEF PushSnapshot, infVars
  <2>2. CASE p = q /\ p \notin dropped
    BY <1>0, <1>5, <2>2, PushedSnapshot
  <2>3. CASE p = q /\ p \in dropped
    BY <1>0, <2>1, <2>3 DEF StreamInv, Unregistered, TypeOK
  <2>4. CASE p # q
    <3>1. pc'[p] = pc[p] /\ mark'[p] = mark[p] /\ chan'[p] = chan[p] /\ Offered(p)' = Offered(p)
      BY <1>0, <2>1, <2>4 DEF TypeOK, Offered
    <3>2. QED
      BY <1>0, <2>1, <3>1, StreamFrame
  <2>5. QED
    BY <2>2, <2>3, <2>4
<1>6. ASSUME NEW q \in Subs, Consume(q) PROVE StreamInv(p)'
  <2>1. /\ pc[q] = "open" /\ view' = [view EXCEPT ![q] = Applied(@, Head(chan[q]))]
        /\ chan' = [chan EXCEPT ![q] = Tail(@)]
        /\ UNCHANGED <<pc, mark, dropped, seen, casting, ent>>
    BY <1>6 DEF Consume, infVars, callVars
  <2>2. CASE p = q /\ p \notin dropped
    BY <1>0, <1>6, <2>2, ConsumedEvent
  <2>3. CASE p = q /\ p \in dropped
    BY <2>1, <2>3 DEF StreamInv, Unregistered
  <2>4. CASE p # q
    <3>1. view'[p] = view[p] /\ chan'[p] = chan[p] /\ Offered(p)' = Offered(p)
      BY <1>0, <2>1, <2>4 DEF TypeOK, Offered
    <3>2. QED
      BY <1>0, <2>1, <3>1, StreamFrame
  <2>5. QED
    BY <2>2, <2>3, <2>4
<1>7. ASSUME NEW q \in Subs, CloseUnregister(q) \/ CloseChannel(q) PROVE StreamInv(p)'
  <2>1. /\ UNCHANGED <<chan, view, mark, dropped, seen, casting, ent>>
        /\ \E s \in {"closing", "closed"} : pc' = [pc EXCEPT ![q] = s]
    BY <1>7 DEF CloseUnregister, CloseChannel, infVars, chanVars
  <2>2. QED
    BY <1>0, <1>1, <2>1 DEF TypeOK
<1>8. ASSUME NEW e \in Entries, InformerSync(e) \/ InformerWatch(e) \/ Janitor(e)
      PROVE  StreamInv(p)'
  BY <1>1, <1>8 DEF InformerSync, InformerWatch, Janitor, JanitorCheck, JanitorStop, infVars,
                    callVars, chanVars
<1>9. ASSUME NEW e \in Entries, BroadcastCopy(e) PROVE StreamInv(p)'
  <2>1. UNCHANGED <<chan, view, mark, dropped, pc>>
    BY <1>9 DEF BroadcastCopy, callVars, chanVars
  <2>2. QED
    BY <1>0, <1>9, <2>1, CopyOffersNothing, StreamFrame
<1>10. ASSUME NEW e \in Entries, NEW q \in Subs, BroadcastSend(e, q) PROVE StreamInv(p)'
  <2>1. /\ q \in casting[e] /\ casting' = [casting EXCEPT ![e] = @ \ {q}]
        /\ Deliver(e, q) \/ Drop(q) \/ SendOnClosed(q)
        /\ UNCHANGED <<view, mark, pc, seen, ent>>
    BY <1>10 DEF BroadcastSend, callVars
  <2>2. ent[q] = e /\ pc[q] \in {"registered", "open", "closing", "closed"}
    BY <2>1 DEF IInv, BroadcastStaysInEntry
  <2>3. casting \in [Entries -> SUBSET Subs] /\ chan \in [Subs -> Seq(Events)]
    BY <1>0 DEF TypeOK
  <2>4. dropped \subseteq dropped' /\ \A r \in Subs \ {q} : chan'[r] = chan[r]
    BY <2>1, <2>3 DEF Deliver, Drop, SendOnClosed
  <2>5. CASE p # q
    <3>1. pc[p] \in {"registered", "open"} => Offered(p)' = Offered(p)
      BY <1>0, <2>1, <2>3, <2>5 DEF Offered
    <3>2. QED
      BY <1>0, <2>1, <2>4, <2>5, <3>1, StreamFrame
  <2>6. CASE p = q
    <3>1. CASE p \in dropped' \/ pc[p] \in {"closing", "closed"}
      BY <2>1, <2>2, <2>6, <3>1 DEF StreamInv, Unregistered
    <3>2. CASE p \notin dropped' /\ pc[p] \in {"registered", "open"}
      <4>1. Deliver(e, p)
        BY <2>1, <2>6, <3>2 DEF Drop, SendOnClosed
      <4>2. chan'[p] = Append(chan[p], Delta(seen[ent[p]]))
        BY <2>2, <2>3, <2>6, <4>1 DEF Deliver
      <4>3. Offered(p)' = seen[ent[p]] /\ p \in casting[ent[p]] /\ p \notin dropped
        BY <2>1, <2>2, <2>3, <2>4, <2>6, <3>2 DEF Offered
      <4>4. QED
        BY <1>0, <2>1, <3>2, <4>2, <4>3, DeliveredDelta
    <3>3. QED
      BY <2>2, <2>6, <3>1, <3>2
  <2>7. QED
    BY <2>5, <2>6
<1>11. ASSUME NEW k \in Keys, ApiChange(k) PROVE StreamInv(p)'
  BY <1>1, <1>11 DEF ApiChange, infVars, callVars, chanVars
<1>12. CASE StopAll \/ RootCancel \/ UNCHANGED vars
  BY <1>1, <1>12 DEF StopAll, RootCancel, vars, infVars, callVars, chanVars
<1>13. QED
  BY <1>2, <1>3, <1>4, <1>5, <1>6, <1>7, <1>8, <1>9, <1>10, <1>11, <1>12
     DEF Next, Subscriber, Informer

\* The only snapshot in a channel is the subscriber's own, and until it is
\* consumed it waits there; afterwards the view contains it.
Early == Unregistered \cup {"registered"}
SnapshotInv(p) ==
  /\ \A i \in DOMAIN chan[p] : chan[p][i].kind = "snapshot" =>
       pc[p] \notin Early /\ chan[p][i] = Snapshot(snap[p])
  /\ pc[p] = "open" =>
       \/ 1..snap[p] \subseteq view[p]
       \/ \E i \in DOMAIN chan[p] : chan[p][i] = Snapshot(snap[p])
SnapshotsInv == \A p \in Subs : SnapshotInv(p)

LEMMA SnapshotFrame ==
  ASSUME NEW p \in Subs, SnapshotInv(p), chan'[p] = chan[p], view'[p] = view[p],
         \/ pc'[p] = pc[p] /\ snap'[p] = snap[p]
         \/ pc[p] \in Early /\ pc'[p] \in Early
         \/ pc'[p] \in {"closing", "closed"} /\ pc[p] \notin Early /\ snap'[p] = snap[p]
  PROVE  SnapshotInv(p)'
BY DEF SnapshotInv, Early, Unregistered

LEMMA NextSnapshotsInv == IInv /\ SnapshotsInv /\ [Next]_vars => SnapshotsInv'
<1> SUFFICES ASSUME IInv, SnapshotsInv, [Next]_vars, NEW p \in Subs
             PROVE  SnapshotInv(p)'
  BY DEF SnapshotsInv
<1>0. SnapshotInv(p) /\ TypeOK
  BY DEF SnapshotsInv, IInv, MapInv
<1>1. CASE UNCHANGED <<chan, view, pc, snap>>
  BY <1>0, <1>1, SnapshotFrame
<1>2. ASSUME NEW q \in Subs,
             \/ (\E k \in Keys : SubscribeBegin(q, k)) \/ InitialSnapshot(q) \/ ApiAnswer(q)
             \/ RemoveEntry(q) \/ Register(q)
      PROVE  SnapshotInv(p)'
  <2>1. /\ UNCHANGED <<chan, view>> /\ pc[q] \in Early
        /\ \E s \in Early : pc' = [pc EXCEPT ![q] = s]
        /\ \A r \in Subs \ {q} : snap'[r] = snap[r]
    BY <1>0, <1>2 DEF SubscribeBegin, InitialSnapshot, ListFromCache, CallApi, ApiAnswer, ListReturns,
         ListFails, RemoveEntry, Register, chanVars, Early, Unregistered, TypeOK
  <2>2. QED
    BY <1>0, <2>1, SnapshotFrame DEF TypeOK
<1>3. ASSUME NEW q \in Subs, PushSnapshot(q) PROVE SnapshotInv(p)'
  <2>1. /\ pc[q] = "registered" /\ pc' = [pc EXCEPT ![q] = "open"]
        /\ chan' = [chan EXCEPT ![q] = Append(@, Snapshot(snap[q]))] /\ UNCHANGED <<view, snap>>
    BY <1>3 DEF PushSnapshot
  <2>2. CASE p # q
    BY <1>0, <2>1, <2>2, SnapshotFrame DEF TypeOK
  <2>3. CASE p = q
    <3>1. PICK n, c, d : n = Len(chan[p]) + 1 /\ c = chan[p] /\ d = chan'[p]
      OBVIOUS
    <3>2. c \in Seq(Events) /\ Snapshot(snap[p]) \in Events /\ d = Append(c, Snapshot(snap[p]))
      BY <1>0, <2>1, <2>3, <3>1, EventTypes DEF TypeOK
    <3>3. /\ n \in DOMAIN d /\ d[n] = Snapshot(snap[p])
          /\ \A i \in DOMAIN c : i \in DOMAIN d /\ d[i] = c[i]
          /\ \A i \in DOMAIN d : i \in DOMAIN c \/ i = n
      BY <3>1, <3>2, AfterAppend
    <3>4. pc'[p] = "open" /\ pc[p] \in Early /\ snap'[p] = snap[p]
      BY <1>0, <2>1, <2>3 DEF TypeOK, Early
    <3>5. \A i \in DOMAIN c : c[i].kind # "snapshot"
      BY <1>0, <3>1, <3>4 DEF SnapshotInv
    <3>6. \A i \in DOMAIN d : d[i].kind = "snapshot" => d[i] = Snapshot(snap[p])
      BY <3>3, <3>5
    <3>7. "open" \notin Early
      BY DEF Early, Unregistered
    <3>8. QED
      BY <3>1, <3>3, <3>4, <3>6, <3>7 DEF SnapshotInv
  <2>4. QED
    BY <2>2, <2>3
<1>4. ASSUME NEW q \in Subs, Consume(q) PROVE SnapshotInv(p)'
  <2>1. /\ pc[q] = "open" /\ view' = [view EXCEPT ![q] = Applied(@, Head(chan[q]))] /\ chan[q] # <<>>
        /\ chan' = [chan EXCEPT ![q] = Tail(@)] /\ UNCHANGED <<pc, snap>>
    BY <1>4 DEF Consume, callVars
  <2>2. CASE p # q
    BY <1>0, <2>1, <2>2, SnapshotFrame DEF TypeOK
  <2>3. CASE p = q
    <3>1. PICK c, d : c = chan[p] /\ d = chan'[p]
      OBVIOUS
    <3>2. c \in Seq(Events) /\ c # <<>> /\ d = Tail(c) /\ view'[p] = Applied(view[p], Head(c))
      BY <1>0, <2>1, <2>3, <3>1 DEF TypeOK
    <3>3. /\ 1 \in DOMAIN c /\ Head(c) = c[1]
          /\ \A i \in DOMAIN d : i + 1 \in DOMAIN c /\ d[i] = c[i + 1]
          /\ \A i \in DOMAIN c : i # 1 => i - 1 \in DOMAIN d /\ d[i - 1] = c[i]
      BY <3>2, AfterTail
    <3>4. /\ \A i \in DOMAIN c : c[i].kind = "snapshot" => pc[p] \notin Early /\ c[i] = Snapshot(snap[p])
          /\ 1..snap[p] \subseteq view[p] \/ \E i \in DOMAIN c : c[i] = Snapshot(snap[p])
      BY <1>0, <2>1, <2>3, <3>1 DEF SnapshotInv
    <3>7. \A i \in DOMAIN d : d[i].kind = "snapshot" => pc[p] \notin Early /\ d[i] = Snapshot(snap[p])
      BY <3>3, <3>4
    <3>5. CASE c[1].kind = "snapshot"
      <4>1. c[1] = Snapshot(snap[p])
        BY <3>3, <3>4, <3>5
      <4>2. view'[p] = 1..snap[p]
        BY <3>2, <3>3, <3>5, <4>1 DEF Applied, Snapshot
      <4>3. QED
        BY <2>1, <3>1, <3>7, <4>2 DEF SnapshotInv
    <3>6. CASE c[1].kind # "snapshot"
      <4>1. view[p] \subseteq view'[p]
        BY <3>2, <3>3, <3>6 DEF Applied
      <4>2. 1..snap[p] \subseteq view'[p] \/ \E i \in DOMAIN d : d[i] = Snapshot(snap[p])
        <5>1. CASE 1..snap[p] \subseteq view[p]
          BY <4>1, <5>1
        <5>2. CASE \E i \in DOMAIN c : c[i] = Snapshot(snap[p])
          <6>1. PICK i \in DOMAIN c : c[i] = Snapshot(snap[p])
            BY <5>2
          <6>2. i # 1
            BY <3>6, <6>1 DEF Snapshot
          <6>3. QED
            BY <3>3, <6>1, <6>2
        <5>3. QED
          BY <3>4, <5>1, <5>2
      <4>3. QED
        BY <2>1, <3>1, <3>7, <4>2 DEF SnapshotInv
    <3>8. QED
      BY <3>5, <3>6
  <2>4. QED
    BY <2>2, <2>3
<1>5. ASSUME NEW q \in Subs, CloseUnregister(q) \/ CloseChannel(q) PROVE SnapshotInv(p)'
  <2>1. /\ UNCHANGED <<chan, view, snap>> /\ pc[q] \in {"open", "closing"}
        /\ \E s \in {"closing", "closed"} : pc' = [pc EXCEPT ![q] = s]
    BY <1>5 DEF CloseUnregister, CloseChannel, chanVars
  <2>2. "open" \notin Early /\ "closing" \notin Early
    BY DEF Early, Unregistered
  <2>3. QED
    BY <1>0, <2>1, <2>2, SnapshotFrame DEF TypeOK
<1>6. ASSUME NEW e \in Entries, NEW q \in Subs, BroadcastSend(e, q) PROVE SnapshotInv(p)'
  <2>1. /\ Deliver(e, q) \/ Drop(q) \/ SendOnClosed(q)
        /\ UNCHANGED <<view, pc, snap>>
    BY <1>6 DEF BroadcastSend, callVars
  <2>2. CASE chan'[p] = chan[p]
    BY <1>0, <2>1, <2>2, SnapshotFrame
  <2>3. CASE Deliver(e, q) /\ p = q
    <3>1. PICK n, c, d : n = Len(chan[p]) + 1 /\ c = chan[p] /\ d = chan'[p]
      OBVIOUS
    <3>2. c \in Seq(Events) /\ Delta(seen[e]) \in Events /\ d = Append(c, Delta(seen[e]))
      BY <1>0, <2>3, <3>1, EventTypes DEF TypeOK, Deliver
    <3>3. /\ n \in DOMAIN d /\ d[n] = Delta(seen[e])
          /\ \A i \in DOMAIN c : i \in DOMAIN d /\ d[i] = c[i]
          /\ \A i \in DOMAIN d : i \in DOMAIN c \/ i = n
      BY <3>1, <3>2, AfterAppend
    <3>4. d[n].kind # "snapshot"
      BY <3>3 DEF Delta
    <3>5. QED
      BY <1>0, <2>1, <3>1, <3>3, <3>4 DEF SnapshotInv
  <2>4. QED
    BY <1>0, <2>1, <2>2, <2>3 DEF Deliver, Drop, SendOnClosed, TypeOK
<1>7. QED
  BY <1>1, <1>2, <1>3, <1>4, <1>5, <1>6
     DEF Next, Subscriber, Informer, Janitor, ApiChange, InformerSync, InformerWatch, BroadcastCopy,
         JanitorCheck, JanitorStop, StopAll, RootCancel, vars, callVars, chanVars

\* A subscriber whose channel has not overflowed misses the gap between its list
\* and the send of its snapshot, and nothing else: what waits in the channel is
\* consecutive up to the last delta offered, and what was handed out after the
\* snapshot, or is part of it, is shown or waits.
THEOREM DeliveryCompletes == Spec => []DeliveryIsComplete
<1>1. Init => SnapshotsInv
  BY DEF Init, SnapshotsInv, SnapshotInv
<1>2. IInv /\ DeliveryInv /\ SnapshotsInv => DeliveryIsComplete
  <2> SUFFICES ASSUME IInv, DeliveryInv, SnapshotsInv PROVE DeliveryIsComplete
    OBVIOUS
  <2>1. ChannelIsGapless /\ DeltasAfterSnapshotArrive
    BY DEF DeliveryInv, StreamInv, ChannelIsGapless, DeltasAfterSnapshotArrive, Arrives
  <2>2. ASSUME NEW p \in Subs \ dropped, pc[p] = "open", NEW v \in 1..Offered(p)
        PROVE  v \in view[p] \/ Buffered(p, v) \/ WaitsInSnapshot(p, v) \/ InTheGap(p, v)
    <3>1. /\ snap[p] \in Nat /\ mark[p] \in Nat /\ Offered(p) \in Int
          /\ v \in Int /\ 1 <= v /\ v <= Offered(p)
      <4>1. TypeOK /\ ent[p] \in Entries
        BY <2>2 DEF IInv, MapInv, CallersHaveEntries, TypeOK
      <4>2. Offered(p) \in Int /\ mark[p] \in Nat
        BY <4>1, OfferedTypes
      <4>3. snap[p] \in Nat
        BY <4>1 DEF TypeOK, Versions
      <4>4. QED
        BY <4>2, <4>3
    <3>2. CASE v <= snap[p]
      BY <2>2, <3>1, <3>2 DEF SnapshotsInv, SnapshotInv, WaitsInSnapshot
    <3>3. CASE v > mark[p]
      BY <2>1, <2>2, <3>1, <3>3 DEF DeltasAfterSnapshotArrive
    <3>4. QED
      BY <3>1, <3>2, <3>3 DEF InTheGap
  <2>3. QED
    BY <2>1, <2>2 DEF DeliveryIsComplete, OnlyTheGapIsLost
<1>3. QED
  BY <1>1, <1>2, InitDeliveryInv, NextDeliveryInv, NextSnapshotsInv, Invariance, PTL DEF Spec

-----------------------------------------------------------------------------
(* Refinement of KeyedLease                                                *)

Holder == [k \in Keys |-> RunningInformer(k)]
Spent  == {e \in Entries : keyOf[e] # None}

LEMMA LeaseFrame ==
  ASSUME UNCHANGED mapVars
  PROVE  UNCHANGED Lease!leaseVars
BY DEF mapVars, Lease!leaseVars, RunningInformer

\* Stopping the informers of some keys is a release.
LEMMA LeaseRelease ==
  ASSUME NEW ks \in SUBSET Keys, UNCHANGED keyOf,
         \A k \in ks : RunningInformer(k)' = None,
         \A k \in Keys \ ks : RunningInformer(k)' = RunningInformer(k)
  PROVE  Lease!LeaseNext
<1>1. Lease!Release(ks)
  BY DEF Lease!Release
<1>2. QED
  BY <1>1 DEF Lease!LeaseNext

LEMMA RetireReleases ==
  ASSUME MapInv, NEW e \in Entries, keyOf[e] \in Keys, Retire(e)
  PROVE  Lease!LeaseNext
<1> USE DEF MapInv, TypeOK
<1>1. CASE IsCurrent(e)
  <2>1. /\ entries' = [entries EXCEPT ![keyOf[e]] = None]
        /\ live' = live \ {e}
        /\ keyOf' = keyOf
    BY <1>1 DEF Retire
  <2>2. RunningInformer(keyOf[e])' = None
    BY <2>1 DEF RunningInformer
  <2>3. ASSUME NEW k \in Keys \ {keyOf[e]}
        PROVE  RunningInformer(k)' = RunningInformer(k)
    BY <2>1 DEF RunningInformer, EntriesAreOfTheirKey
  <2>4. {keyOf[e]} \in SUBSET Keys
    OBVIOUS
  <2>5. QED
    BY <2>1, <2>2, <2>3, <2>4, LeaseRelease
<1>2. CASE ~IsCurrent(e)
  <2>1. UNCHANGED mapVars
    BY <1>2 DEF Retire
  <2>2. \A k \in Keys : RunningInformer(k)' = RunningInformer(k)
    BY <2>1 DEF RunningInformer, mapVars
  <2>3. Lease!Release({})
    BY <2>1, <2>2 DEF Lease!Release, mapVars
  <2>4. QED
    BY <2>3 DEF Lease!LeaseNext
<1>3. QED
  BY <1>1, <1>2

LEMMA CreateGrants ==
  ASSUME MapInv, NEW p \in Subs, NEW k \in Keys, Create(p, k)
  PROVE  Lease!LeaseNext
<1> USE DEF MapInv, TypeOK
<1>1. PICK e \in Unallocated :
        /\ entries' = [entries EXCEPT ![k] = e]
        /\ keyOf' = [keyOf EXCEPT ![e] = k]
        /\ live' = IF rootDone THEN live ELSE live \cup {e}
  BY DEF Create
<1>2. e \in Entries /\ keyOf[e] = None /\ entries[k] = None
  BY DEF Unallocated, Create, NeedsEntry
<1>3. e \notin live
  BY <1>2 DEF InformerRunsIffRegistered
<1>4. Spent' = Spent \cup {e} /\ e \notin Spent
  BY <1>1, <1>2 DEF Spent
<1>5. RunningInformer(k) = None
  BY <1>2 DEF RunningInformer
<1>6. ASSUME NEW j \in Keys \ {k} PROVE RunningInformer(j)' = RunningInformer(j)
  BY <1>1, <1>2, <1>3 DEF RunningInformer, EntriesAreOfTheirKey
<1>7. CASE rootDone
  <2>1. RunningInformer(k)' = None
    BY <1>1, <1>2, <1>3, <1>7 DEF RunningInformer
  <2>2. Holder' = Holder
    BY <1>5, <1>6, <2>1 DEF Holder
  <2>3. Lease!Waste(e)
    BY <1>2, <1>4, <2>2 DEF Lease!Waste, Holder, Spent
  <2>4. QED
    BY <1>2, <2>3 DEF Lease!LeaseNext
<1>8. CASE ~rootDone
  <2>1. RunningInformer(k)' = e
    BY <1>1, <1>8 DEF RunningInformer
  <2>2. Holder' = [Holder EXCEPT ![k] = e]
    BY <1>6, <2>1 DEF Holder
  <2>3. Lease!Grant(k, e)
    BY <1>2, <1>4, <1>5, <2>2 DEF Lease!Grant, Holder, Spent
  <2>4. QED
    BY <1>2, <2>3 DEF Lease!LeaseNext
<1>9. QED
  BY <1>7, <1>8

LEMMA LeaseStep ==
  ASSUME MapInv, [Next]_vars
  PROVE  [Lease!LeaseNext]_(Lease!leaseVars)
<1>1. CASE UNCHANGED mapVars
  BY <1>1, LeaseFrame
<1>2. ASSUME NEW p \in Subs, NEW k \in Keys, SubscribeBegin(p, k)
      PROVE  [Lease!LeaseNext]_(Lease!leaseVars)
  BY <1>2, LeaseFrame, CreateGrants DEF SubscribeBegin, Join
<1>3. ASSUME NEW p \in Subs, RemoveEntry(p) PROVE Lease!LeaseNext
  <2>1. ent[p] \in Entries /\ keyOf[ent[p]] \in Keys
    BY <1>3 DEF RemoveEntry, MapInv, TypeOK, CallersHaveEntries
  <2>2. QED
    BY <1>3, <2>1, RetireReleases DEF RemoveEntry
<1>4. ASSUME NEW e \in Entries, JanitorStop(e) PROVE Lease!LeaseNext
  <2>1. keyOf[e] \in Keys
    BY <1>4 DEF JanitorStop, MapInv, TypeOK, JanitorsHaveEntries
  <2>2. QED
    BY <1>4, <2>1, RetireReleases DEF JanitorStop
<1>5. CASE StopAll
  <2>1. \A k \in Keys : RunningInformer(k)' = None
    BY <1>5 DEF StopAll, RunningInformer
  <2>2. QED
    BY <1>5, <2>1, LeaseRelease DEF StopAll
<1>6. CASE RootCancel
  <2>1. \A k \in Keys : RunningInformer(k)' = None
    BY <1>6 DEF RootCancel, RunningInformer
  <2>2. QED
    BY <1>6, <2>1, LeaseRelease DEF RootCancel
<1>7. QED
  BY <1>1, <1>2, <1>3, <1>4, <1>5, <1>6
     DEF Next, Subscriber, Informer, Janitor, ApiChange, InformerSync, InformerWatch,
         BroadcastCopy, BroadcastSend, InitialSnapshot, ApiAnswer, Register,
         PushSnapshot, Consume, CloseUnregister, CloseChannel, JanitorCheck, vars

\* Every step of the store is a grant of a fresh informer to a key that has
\* none, a release, or invisible to the API server.
THEOREM StoreImplementsLease == Spec => ImplementsLease
<1>1. Init => Lease!LeaseInit
  BY DEF Init, Lease!LeaseInit, RunningInformer
<1>2. IInv /\ [Next]_vars => [Lease!LeaseNext]_(Lease!leaseVars)
  BY LeaseStep DEF IInv
<1>3. QED
  BY <1>1, <1>2, Invariance, PTL DEF Spec, ImplementsLease, Lease!LeaseSpec
=============================================================================
