--------------------------- MODULE MCResourceList ---------------------------
(***************************************************************************)
(* What a page keeps in step with the server, side by side: the lists over  *)
(* their stream, and the clusters that it offers. A behaviour follows one   *)
(* of them.                                                                *)
(***************************************************************************)
EXTENDS ResourceList, ClusterLife, TLC

CONSTANTS n1, n2, o1, o2

\* One object in each namespace.
OneEach == o1 :> n1 @@ o2 :> n2

VARIABLE part   \* the component this behaviour is about

allVars == <<part, vars, lifeVars>>

BothInit == part \in {"lists", "clusters"} /\ Init /\ LifeInit

BothNext ==
  \/ part = "lists" /\ Next /\ UNCHANGED <<part, lifeVars>>
  \/ part = "clusters" /\ LifeNext /\ UNCHANGED <<part, vars>>

BothSpec == BothInit /\ [][BothNext]_allVars

\* Stream objects, views, and the two namespaces with their objects are
\* interchangeable.
Same == n1 :> n1 @@ n2 :> n2 @@ o1 :> o1 @@ o2 :> o2
Swapped == n1 :> n2 @@ n2 :> n1 @@ o1 :> o2 @@ o2 :> o1
Interchangeable ==
  {p @@ q @@ r : p \in Permutations(Streams), q \in Permutations(Views), r \in {Same, Swapped}}

\* No step depends on the history variables of ClusterStream.
NoHistory == <<part, server, born, stream, pool, hook, badge, listVars, lifeVars>>
=============================================================================
