----------------------------- MODULE KeyedLease -----------------------------
(***************************************************************************)
(* What the informer store promises to the API server, whatever its locks, *)
(* goroutines and timers do: at any moment a key has at most one running   *)
(* informer, an informer serves one key for its whole life, and once       *)
(* stopped it is never started again.                                      *)
(***************************************************************************)
CONSTANTS Keys, Ids, None

VARIABLES
  holder,   \* the running informer of each key, None when there is none
  spent     \* identities that were used up

leaseVars == <<holder, spent>>

LeaseInit ==
  /\ holder = [k \in Keys |-> None]
  /\ spent = {}

\* A fresh identity starts to serve k.
Grant(k, i) ==
  /\ holder[k] = None
  /\ i \in Ids \ spent
  /\ holder' = [holder EXCEPT ![k] = i]
  /\ spent' = spent \cup {i}

\* An identity is used up without ever running.
Waste(i) ==
  /\ i \in Ids \ spent
  /\ spent' = spent \cup {i}
  /\ UNCHANGED holder

\* The informers of some keys stop together.
Release(ks) ==
  /\ holder' = [k \in Keys |-> IF k \in ks THEN None ELSE holder[k]]
  /\ UNCHANGED spent

LeaseNext ==
  \/ \E k \in Keys, i \in Ids : Grant(k, i)
  \/ \E i \in Ids : Waste(i)
  \/ \E ks \in SUBSET Keys : Release(ks)

LeaseSpec == LeaseInit /\ [][LeaseNext]_leaseVars
=============================================================================
