-------------------------- MODULE MCKubeconfigFiles --------------------------
(***************************************************************************)
(* The kubeconfig files of an identity, and those from before there were     *)
(* identities, side by side: a behaviour follows ClusterManager or Registry. *)
(***************************************************************************)
EXTENDS ClusterManager, Registry, TLC

CONSTANTS one, two, h1, h2, i1, i2, i3, l1, l2

\* A kubeconfig with one context and one with two, a name in common.
Overlapping == one :> {1} @@ two :> {1, 2}

\* No property is about one request, identity or legacy file rather than another.
Alike == Permutations(Handlers) \cup Permutations(Identities) \cup Permutations(Legacy)

VARIABLE part   \* the component this behaviour is about

allVars == <<part, vars, adoptVars>>

Parts == {"imports", "adoption"}

AnyInit ==
    /\ part \in Parts
    /\ Init /\ AdoptInit

AnyNext ==
    \/ /\ part = "imports" /\ Next
       /\ UNCHANGED <<part, adoptVars>>
    \/ /\ part = "adoption" /\ AdoptNext
       /\ UNCHANGED <<part, vars>>

AnySpec == AnyInit /\ [][AnyNext]_allVars
==============================================================================
