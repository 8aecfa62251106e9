--------------------------- MODULE ClusterManager ---------------------------
(***************************************************************************)
(* internal/clusters/manager.go and import.go: the clusters of one         *)
(* identity, in memory and on disk.                                        *)
(*                                                                         *)
(* Memory is the map m.clusters from assigned names to clusters, under     *)
(* m.mu; disk is a directory of kubeconfig files, under no lock at all.    *)
(* ImportKubeconfig registers the contexts of a payload, then picks a free *)
(* path, writes the file and marks the path as loaded; Remove takes a name *)
(* out of the map, then looks for a file with a context of that name and   *)
(* strips or deletes it.  Each of these steps interleaves with those of    *)
(* other requests, and the server can die between any two of them.  It is  *)
(* started again by NewManagerForIdentity, which reads the files one by    *)
(* one, in the order of their names, before it serves any request.         *)
(*                                                                         *)
(* A context name is a number, its place in the alphabet; an assigned name *)
(* is <<context, n>>, "context" for n = 1 and "context-n" beyond.  A path  *)
(* is <<stem, n>>, "stem.yaml" for n = 1 and "stem-n.yaml" beyond.  Left   *)
(* out: contexts that are themselves called "context-n", contexts that     *)
(* client-go refuses, and clusters of other origins than an import.        *)
(***************************************************************************)
EXTENDS Naturals, FiniteSets

CONSTANTS
  Payloads,     \* kubeconfigs that users import
  ContextsIn,   \* the contexts of each payload
  Stems,        \* file names that users choose
  Handlers,     \* requests under way at the same time
  MaxClusters,  \* bound: clusters registered at any time
  MaxFiles,     \* bound: files on disk at any time
  None

ASSUME ContextsInAssumption ==
  \A y \in Payloads :
    ContextsIn[y] \subseteq Nat /\ ContextsIn[y] # {} /\ IsFiniteSet(ContextsIn[y])

VARIABLES
  clusters,     \* m.clusters: assigned name -> the context it came from
  current,      \* m.current
  loaded,       \* m.loadedFiles
  disk,         \* path -> the payload and the contexts left in the file
  up,           \* NewManagerForIdentity has returned
  unread,       \* until then: the paths of ReadDir it has yet to load
  job,          \* what each request is doing
  clean,        \* history: since the start no write failed, and no request
                \* touched the disk while another was half way
  own           \* history: that, and each removal found the file of its own cluster

vars == <<clusters, current, loaded, disk, up, unread, job, clean, own>>

Contexts == UNION {ContextsIn[y] : y \in Payloads}
Name(c, n) == <<c, n>>
Names == Contexts \X (Nat \ {0})
Paths == Stems \X (Nat \ {0})

Origin(y, x) == [payload |-> y, context |-> x[1]]

NameBefore(x, y) == x[1] < y[1] \/ (x[1] = y[1] /\ x[2] < y[2])
\* ReadDir sorts by file name, and "-" sorts before "." in "kc-2.yaml".
PathBefore(p, q) ==
  p[1] < q[1] \/ (p[1] = q[1] /\ p[2] # 1 /\ (q[2] = 1 \/ p[2] < q[2]))

\* A file has contexts of its payload: all, those that are left, or none when
\* it was cut short.
FileTypes ==
  {f \in [payload : Payloads, contexts : SUBSET Contexts] : f.contexts \subseteq ContextsIn[f.payload]}
Idle == [at |-> "idle"]
JobTypes ==
  {Idle}
    \cup [at : {"naming"}, payload : Payloads, stem : Stems]
    \cup [at : {"writing", "filling", "marking"}, payload : Payloads, path : Paths]
    \cup [at : {"scanning"}, name : Names, of : Payloads]
    \cup [at : {"found", "rewriting"}, name : Names, path : Paths, file : FileTypes]
    \cup [at : {"forgetting"}, path : Paths]

Busy(h) == job[h] # Idle
\* A step of h on the disk while another request is half way.
Overlaps(h) == \E g \in Handlers \ {h} : Busy(g)

\* The first of a set of names in the order of m.order.
FirstOf(ns) == CHOOSE x \in ns : \A y \in ns \ {x} : NameBefore(x, y)

FirstClusterName(cs) == IF DOMAIN cs = {} THEN None ELSE FirstOf(DOMAIN cs)

-----------------------------------------------------------------------------
(* addContextsFromYAML                                                     *)

FreeSuffix(cs, c) ==
  CHOOSE n \in 1..(Cardinality(DOMAIN cs) + 1) :
    /\ Name(c, n) \notin DOMAIN cs
    /\ \A i \in 1..(n - 1) : Name(c, i) \in DOMAIN cs

\* Mutant: a name that is taken is overwritten.
TakeName(cs, ctxs) == {Name(c, 1) : c \in ctxs}
Assigned(cs, ctxs) == {Name(c, FreeSuffix(cs, c)) : c \in ctxs}

WithContexts(cs, y, ctxs) ==
  LET added == Assigned(cs, ctxs)
  IN  [x \in DOMAIN cs \cup added |-> IF x \in added THEN Origin(y, x) ELSE cs[x]]

\* The first context of an import becomes the default when there is none.
Promoted(cs, ctxs) == IF current = None THEN FirstOf(Assigned(cs, ctxs)) ELSE current

-----------------------------------------------------------------------------
Init ==
  /\ clusters = <<>> /\ current = None
  /\ loaded = {} /\ disk = <<>>
  /\ up = FALSE /\ unread = {}
  /\ job = [h \in Handlers |-> Idle]
  /\ clean = TRUE /\ own = TRUE

At(h, step) == job[h].at = step
Do(h, j) == job' = [job EXCEPT ![h] = j]
Write(p, y, ctxs) ==
  disk' = [q \in DOMAIN disk \cup {p} |->
             IF q = p THEN [payload |-> y, contexts |-> ctxs] ELSE disk[q]]

-----------------------------------------------------------------------------
(* ImportKubeconfig                                                        *)

\* The bound on clusters is MaxClusters.
ImportRegister(h, y, stem) ==
  /\ ~Busy(h)
  /\ Cardinality(DOMAIN clusters) + Cardinality(ContextsIn[y]) <= MaxClusters
  /\ clusters' = WithContexts(clusters, y, ContextsIn[y])
  /\ current' = Promoted(clusters, ContextsIn[y])
  /\ Do(h, [at |-> "naming", payload |-> y, stem |-> stem])
  /\ UNCHANGED <<loaded, disk, clean, own>>

\* uniquePath: the first path of the stem that does not exist.
ImportName(h) ==
  /\ At(h, "naming")
  /\ Cardinality(DOMAIN disk) < MaxFiles
  /\ \E n \in 1..(MaxFiles + 1) :
       /\ <<job[h].stem, n>> \notin DOMAIN disk
       /\ \A i \in 1..(n - 1) : <<job[h].stem, i>> \in DOMAIN disk
       /\ Do(h, [at |-> "writing", payload |-> job[h].payload, path |-> <<job[h].stem, n>>])
  /\ clean' = (clean /\ ~Overlaps(h)) /\ own' = (own /\ ~Overlaps(h))
  /\ UNCHANGED <<clusters, current, loaded, disk>>

\* os.WriteFile truncates, then writes.
ImportTruncate(h) ==
  /\ At(h, "writing")
  /\ Write(job[h].path, job[h].payload, {})
  /\ Do(h, [job[h] EXCEPT !.at = "filling"])
  /\ UNCHANGED <<clusters, current, loaded, clean, own>>

ImportFill(h) ==
  /\ At(h, "filling")
  /\ Write(job[h].path, job[h].payload, ContextsIn[job[h].payload])
  /\ Do(h, [job[h] EXCEPT !.at = "marking"])
  /\ UNCHANGED <<clusters, current, loaded, clean, own>>

\* mkdir or the write fails: the clusters stay in memory only.
ImportFails(h) ==
  /\ At(h, "naming") \/ At(h, "writing") \/ At(h, "filling")
  /\ Do(h, Idle)
  /\ clean' = FALSE /\ own' = FALSE
  /\ UNCHANGED <<clusters, current, loaded, disk>>

\* Mutant: the path is not recorded.
Forgotten(p) == {}
Recorded(p) == {p}

ImportMark(h) ==
  /\ At(h, "marking")
  /\ loaded' = loaded \cup Recorded(job[h].path)
  /\ Do(h, Idle)
  /\ UNCHANGED <<clusters, current, disk, clean, own>>

-----------------------------------------------------------------------------
(* Remove, SetCurrent                                                      *)

\* "of" is history: the payload that the removed cluster came from.
RemoveUnregister(h, x) ==
  /\ ~Busy(h)
  /\ x \in DOMAIN clusters
  /\ clusters' = [z \in DOMAIN clusters \ {x} |-> clusters[z]]
  /\ current' = IF current = x THEN FirstClusterName(clusters') ELSE current
  /\ Do(h, [at |-> "scanning", name |-> x, of |-> clusters[x].payload])
  /\ UNCHANGED <<loaded, disk, clean, own>>

\* removeFromImportedFile looks for a context with the assigned name, so a
\* name with a suffix is never found.
Holds(p, x) == x[2] = 1 /\ x[1] \in disk[p].contexts
Holding(x) == {p \in DOMAIN disk : Holds(p, x)}

RemoveFind(h) ==
  /\ At(h, "scanning")
  /\ \E p \in Holding(job[h].name) :
       /\ \A q \in Holding(job[h].name) \ {p} : PathBefore(p, q)
       /\ Do(h, [at |-> "found", name |-> job[h].name, path |-> p, file |-> disk[p]])
       /\ own' = (own /\ ~Overlaps(h) /\ disk[p].payload = job[h].of)
  /\ clean' = (clean /\ ~Overlaps(h))
  /\ UNCHANGED <<clusters, current, loaded, disk>>

RemoveFindsNothing(h) ==
  /\ At(h, "scanning")
  /\ Holding(job[h].name) = {}
  /\ Do(h, Idle)
  /\ clean' = (clean /\ ~Overlaps(h)) /\ own' = (own /\ ~Overlaps(h))
  /\ UNCHANGED <<clusters, current, loaded, disk>>

\* The last context: the file is unlinked, then forgotten.
RemoveUnlink(h) ==
  /\ At(h, "found") /\ Cardinality(job[h].file.contexts) = 1
  /\ job[h].path \in DOMAIN disk
  /\ disk' = [q \in DOMAIN disk \ {job[h].path} |-> disk[q]]
  /\ Do(h, [at |-> "forgetting", path |-> job[h].path])
  /\ UNCHANGED <<clusters, current, loaded, clean, own>>

RemoveForget(h) ==
  /\ At(h, "forgetting")
  /\ loaded' = loaded \ {job[h].path}
  /\ Do(h, Idle)
  /\ UNCHANGED <<clusters, current, disk, clean, own>>

\* Other contexts are left: the file, as it was read, is rewritten.
\* Mutant: the whole file goes.
StripAll(f, x) == {}
Stripped(f, x) == f.contexts \ {x[1]}

RemoveTruncate(h) ==
  /\ At(h, "found") /\ Cardinality(job[h].file.contexts) > 1
  /\ Write(job[h].path, job[h].file.payload, {})
  /\ Do(h, [job[h] EXCEPT !.at = "rewriting"])
  /\ UNCHANGED <<clusters, current, loaded, clean, own>>

RemoveRewrite(h) ==
  /\ At(h, "rewriting")
  /\ Write(job[h].path, job[h].file.payload, Stripped(job[h].file, job[h].name))
  /\ Do(h, Idle)
  /\ UNCHANGED <<clusters, current, loaded, clean, own>>

\* The file cannot be unlinked or written, or is cut short; Remove logs it.
RemoveFails(h) ==
  /\ At(h, "found") \/ At(h, "rewriting")
  /\ Do(h, Idle)
  /\ clean' = FALSE /\ own' = FALSE
  /\ UNCHANGED <<clusters, current, loaded, disk>>

Known(x) == x \in DOMAIN clusters

SetCurrent(h, x) ==
  /\ ~Busy(h)
  /\ Known(x)
  /\ current' = x
  /\ UNCHANGED <<clusters, loaded, disk, job, clean, own>>

-----------------------------------------------------------------------------
(* A restart: NewManagerForIdentity and LoadImported                       *)

Restart ==
  /\ clusters' = <<>> /\ current' = None /\ loaded' = {}
  /\ up' = FALSE /\ unread' = DOMAIN disk
  /\ job' = [h \in Handlers |-> Idle]
  /\ clean' = TRUE /\ own' = TRUE
  /\ UNCHANGED disk

\* A file cut short does not parse: it is skipped.
LoadFile ==
  /\ ~up
  /\ \E p \in unread :
       /\ \A q \in unread \ {p} : PathBefore(p, q)
       /\ unread' = unread \ {p}
       /\ IF p \in loaded \/ disk[p].contexts = {}
          THEN UNCHANGED <<clusters, current, loaded>>
          ELSE /\ clusters' = WithContexts(clusters, disk[p].payload, disk[p].contexts)
               /\ current' = Promoted(clusters, disk[p].contexts)
               /\ loaded' = loaded \cup Recorded(p)
  /\ UNCHANGED <<disk, up, job, clean, own>>

Ready ==
  /\ ~up /\ unread = {}
  /\ current' = FirstClusterName(clusters)
  /\ up' = TRUE
  /\ UNCHANGED <<clusters, loaded, disk, unread, job, clean, own>>

-----------------------------------------------------------------------------
Import(h) ==
  \/ \E y \in Payloads, s \in Stems : ImportRegister(h, y, s)
  \/ ImportName(h) \/ ImportTruncate(h) \/ ImportFill(h) \/ ImportFails(h) \/ ImportMark(h)

Removal(h) ==
  \/ \E x \in DOMAIN clusters : RemoveUnregister(h, x)
  \/ RemoveFind(h) \/ RemoveFindsNothing(h)
  \/ RemoveUnlink(h) \/ RemoveForget(h) \/ RemoveTruncate(h) \/ RemoveRewrite(h)
  \/ RemoveFails(h)

\* The names a request can ask for include ones that are not registered.
Askable == {Name(c, n) : c \in Contexts, n \in 1..MaxClusters}

Serve ==
  /\ up /\ UNCHANGED <<up, unread>>
  /\ \E h \in Handlers : Import(h) \/ Removal(h) \/ \E x \in Askable : SetCurrent(h, x)

Next == Serve \/ Restart \/ LoadFile \/ Ready

Spec == Init /\ [][Next]_vars

-----------------------------------------------------------------------------
(* Properties                                                              *)

\* The files with a context, and the clusters of that context, from given payloads.
FilesOf(c, ys) == {p \in DOMAIN disk : c \in disk[p].contexts /\ disk[p].payload \in ys}
ClustersOf(c, ys) == {x \in DOMAIN clusters : x[1] = c /\ clusters[x].payload \in ys}
HasFile(c, ys) == Cardinality(ClustersOf(c, ys)) <= Cardinality(FilesOf(c, ys))
AtRest == up /\ \A h \in Handlers : ~Busy(h)

ClusterTypes ==
  /\ IsFiniteSet(DOMAIN clusters) /\ DOMAIN clusters \subseteq Names
  /\ clusters \in [DOMAIN clusters -> [payload : Payloads, context : Contexts]]
  /\ \A x \in DOMAIN clusters : clusters[x].context = x[1]

DiskTypes ==
  /\ loaded \subseteq Paths
  /\ DOMAIN disk \subseteq Paths /\ disk \in [DOMAIN disk -> FileTypes]
  /\ unread \subseteq DOMAIN disk

\* Types of the variables; a cluster connects to the context it is named for.
TypeOK ==
  /\ ClusterTypes /\ current \in Names \cup {None}
  /\ DiskTypes
  /\ up \in BOOLEAN /\ (up => unread = {})
  /\ job \in [Handlers -> JobTypes]
  /\ clean \in BOOLEAN /\ own \in BOOLEAN

\* There is a default cluster if and only if there is a cluster, and it is
\* one of them: through imports, removals, selections of any name, restarts.
CurrentIsUsable ==
  IF DOMAIN clusters = {} THEN current = None ELSE current \in DOMAIN clusters

\* A name means the same cluster until it is removed or the server restarts:
\* no import takes the name of another cluster, for which streams are open.
NamesAreStable ==
  [][up => \A x \in DOMAIN clusters \cap DOMAIN clusters' : clusters'[x] = clusters[x]]_vars

\* The picker is as long after a restart: of each context name there are at
\* least as many copies on disk as clusters in memory, once requests are done,
\* if no write failed and requests did not overlap since the server started; a
\* crash in the middle of one does not leave fewer.
NothingLost ==
  AtRest /\ clean => \A c \in Contexts : HasFile(c, Payloads)

\* And it has the same clusters: each is backed by a copy of its own payload, so
\* that a restart connects the picker to the clusters it showed.  Not so once a
\* removal has stripped the file of another cluster with the same context name:
\* removeFromImportedFile takes the first in the order of the directory
\* (import.go:299), whichever file the removed cluster came from; the removed
\* cluster is then back after the restart in place of the one that was kept.
OwnIsKept ==
  AtRest /\ own => \A c \in Contexts, y \in Payloads : HasFile(c, {y})

\* LoadImported can be called again at any time and adds nothing: no file that
\* it could read is missing from loadedFiles.
ReloadAddsNothing ==
  AtRest /\ clean => \A p \in DOMAIN disk : disk[p].contexts # {} => p \in loaded

\* Together: a restart, or another LoadImported, gives back what was shown, of
\* each context name as many clusters, and until a removal went astray the same.
RestartRestores == NothingLost /\ OwnIsKept /\ ReloadAddsNothing

-----------------------------------------------------------------------------
(* What a comment of the code says, and the code does not do               *)

\* Remove "deletes the kubeconfig YAML that defined this context" (manager.go):
\* when nothing has gone wrong, memory and disk hold the same contexts.
DiskMatchesMemory ==
  AtRest /\ clean =>
    {clusters[x] : x \in DOMAIN clusters}
      = UNION {{Origin(disk[p].payload, Name(c, 1)) : c \in disk[p].contexts} : p \in DOMAIN disk}
=============================================================================
