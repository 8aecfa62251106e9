-------------------------- MODULE MCInformerStore --------------------------
(* InformerStore on small instances. *)
EXTENDS InformerStore, TLC

CONSTANTS k1, k2, e1, e2, e3, s1, s2, s3, none

Symmetry == Permutations({e1, e2, e3}) \cup Permutations({s1, s2, s3})

\* The store while its cluster is neither paused, removed nor shut down.
UndisturbedNext ==
  \/ \E k \in Keys : ApiChange(k)
  \/ \E p \in Subs : Subscriber(p)
  \/ \E e \in Entries : Informer(e) \/ Janitor(e)
UndisturbedSpec == Init /\ [][UndisturbedNext]_vars
UndisturbedFairSpec == UndisturbedSpec /\ Fairness
=============================================================================
