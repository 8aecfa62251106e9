------------------------------ MODULE Registry ------------------------------
(***************************************************************************)
(* internal/clusters/registry.go: one Manager per identity, made on its    *)
(* first request, and the adoption of the kubeconfigs of older versions by *)
(* the first identity that comes.  r.mu is held while a manager is made,   *)
(* so that the legacy files are copied for one identity at a time; a       *)
(* sentinel file, written after the copies, remembers the adoption when    *)
(* the server is restarted.  A Manager is ClusterManager's subject: here   *)
(* it is its directory, as far as the legacy files are in it.              *)
(***************************************************************************)
EXTENDS Naturals, FiniteSets

CONSTANTS
  Identities,   \* device cookies, SSO users
  Legacy,       \* files in ~/.k8s-view/imported
  NoIdentity

ASSUME NoneAssumption == NoIdentity \notin Identities

VARIABLES
  managers,      \* r.managers
  legacyAdopted, \* r.legacyAdopted
  sentinel,      \* ~/.k8s-view/.legacy-adopted exists
  dirs,          \* each identity's directory: its copy of a legacy file, which may be a part of it
  making,        \* the call of For that holds r.mu, the files it has still to look at, the one it writes
  interrupted,   \* history: identities that had copies when the server died without a sentinel
  cut            \* history: copies that failed, or that the end of the server cut short

adoptVars == <<managers, legacyAdopted, sentinel, dirs, making, interrupted, cut>>

\* r.mu is free.
Nobody == [id |-> NoIdentity, adopt |-> FALSE, todo |-> {}, writing |-> {}]

HasCopies(i) == \E f \in Legacy : dirs[i][f] # "absent"

AdoptInit ==
  /\ managers = {} /\ legacyAdopted = FALSE /\ sentinel = FALSE
  /\ dirs = [i \in Identities |-> [f \in Legacy |-> "absent"]]
  /\ making = Nobody
  /\ interrupted = {} /\ cut = {}

Cached(i) == i \in managers

\* For: the identity has no manager.  A file that is there, whole or not, counts
\* as adopted on a previous startup.
ForBegin(i) ==
  /\ making = Nobody
  /\ ~Cached(i)
  /\ making' = [id |-> i, adopt |-> ~legacyAdopted, writing |-> {},
                todo |-> {f \in Legacy : ~legacyAdopted /\ dirs[i][f] = "absent"}]
  /\ UNCHANGED <<managers, legacyAdopted, sentinel, dirs, interrupted, cut>>

\* adoptLegacyImports, one file at a time: os.WriteFile makes an empty file, and
\* fills it.
CopyBegins(f) ==
  /\ f \in making.todo /\ making.writing = {}
  /\ dirs' = [dirs EXCEPT ![making.id][f] = "part"]
  /\ making' = [making EXCEPT !.todo = @ \ {f}, !.writing = {f}]
  /\ UNCHANGED <<managers, legacyAdopted, sentinel, interrupted, cut>>

CopyEnds(f) ==
  /\ f \in making.writing
  /\ dirs' = [dirs EXCEPT ![making.id][f] = "whole"]
  /\ making' = [making EXCEPT !.writing = {}]
  /\ UNCHANGED <<managers, legacyAdopted, sentinel, interrupted, cut>>

\* Unreadable, not to be created (or no directory to create it in), or no room
\* for its contents: the loop goes on.
CopyFails(f) ==
  /\ f \in making.writing \/ (f \in making.todo /\ making.writing = {})
  /\ making' = [making EXCEPT !.todo = @ \ {f}, !.writing = {}]
  /\ cut' = cut \cup {<<making.id, f>>}
  /\ UNCHANGED <<managers, legacyAdopted, sentinel, dirs, interrupted>>

CopiesDone == making.id # NoIdentity /\ making.todo = {} /\ making.writing = {}

\* Mutant: the mirror of the sentinel is only read at the start.
StaleMirror(adopt) == legacyAdopted
Mirror(adopt) == legacyAdopted \/ adopt

\* The manager is registered; the sentinel is written, or cannot be.
ForEnd ==
  /\ CopiesDone
  /\ managers' = managers \cup {making.id}
  /\ IF making.adopt THEN sentinel' \in {sentinel, TRUE} ELSE UNCHANGED sentinel
  /\ legacyAdopted' = Mirror(making.adopt)
  /\ making' = Nobody
  /\ UNCHANGED <<dirs, interrupted, cut>>

\* NewRegistry, after a crash or a stop: wherever the call of For was.
RestartRegistry ==
  /\ managers' = {}
  /\ legacyAdopted' = sentinel
  /\ making' = Nobody
  /\ interrupted' = interrupted \cup {i \in Identities : ~sentinel /\ HasCopies(i)}
  /\ cut' = cut \cup {<<making.id, f>> : f \in making.writing}
  /\ UNCHANGED <<sentinel, dirs>>

AdoptNext ==
  \/ \E i \in Identities : ForBegin(i)
  \/ \E f \in Legacy : CopyBegins(f) \/ CopyEnds(f) \/ CopyFails(f)
  \/ ForEnd
  \/ RestartRegistry

AdoptSpec == AdoptInit /\ [][AdoptNext]_adoptVars

-----------------------------------------------------------------------------
(* Properties                                                              *)

\* Types of the variables; the manager being made is not registered, so that
\* none in use is replaced.
AdoptTypeOK ==
  /\ managers \subseteq Identities
  /\ legacyAdopted \in BOOLEAN /\ sentinel \in BOOLEAN
  /\ interrupted \subseteq Identities /\ cut \subseteq Identities \X Legacy
  /\ dirs \in [Identities -> [Legacy -> {"absent", "part", "whole"}]]
  /\ \/ making = Nobody
     \/ making \in [id : Identities \ managers, adopt : BOOLEAN, todo : SUBSET Legacy, writing : SUBSET Legacy]

\* "The adoption fires exactly once" (registry.go:28-30): the legacy kubeconfigs,
\* and the credentials in them, are copied for at most one identity, whichever
\* asks first and however many ask at once, and over any number of restarts.
\* Not so for the copies the server had made when it died before the sentinel
\* was there: an identity that has such copies shares them with the one that
\* adopts after it.
AdoptedOnce ==
  \A i, j \in Identities \ interrupted : HasCopies(i) /\ HasCopies(j) => i = j

\* Once the sentinel is there some identity has the contents of every legacy
\* file but of those whose copy for it failed, or was cut short when the server
\* ended in the middle of os.WriteFile (manager.go:516): the part that is then in
\* its directory passes for adopted at the next start (manager.go:508), and no
\* start makes it whole.  No other crash puts a legacy file out of reach.
LegacyReachable ==
  sentinel => \E i \in Identities : \A f \in Legacy : dirs[i][f] = "whole" \/ <<i, f>> \in cut

\* Both: the legacy files belong to one identity, and to none only where the
\* copying itself failed.
LegacyHasOneOwner == AdoptedOnce /\ LegacyReachable
=============================================================================
