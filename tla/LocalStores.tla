----------------------------- MODULE LocalStores -----------------------------
(***************************************************************************)
(* What a browser keeps for its windows, in one storage that they share.     *)
(*                                                                         *)
(* The pins of the sidebar (frontend/src/lib/favourites.ts,                 *)
(* components/Sidebar.tsx): each window has a copy of the list; each change   *)
(* writes the whole copy to the storage, and the others hear of it some time *)
(* later and read it anew.                                                  *)
(*                                                                         *)
(* The settings of a cluster (frontend/src/stores/app.ts, pages/             *)
(* SettingsPage.tsx, components/IconEditor.tsx): each window has a copy of   *)
(* the store and writes all of it with every change; it reads the storage    *)
(* only when it is loaded. The photo of a cluster is scaled down before it is *)
(* kept, which takes a while.                                               *)
(***************************************************************************)
EXTENDS Filters, SequencesExt, FiniteSets

CONSTANTS
    Windows,       \* windows of the browser
    PinClusters,   \* clusters with pins
    PinNames,      \* names of objects
    Pinnable,      \* bound: the objects that are pinned
    MaxPins,       \* MAX: the length of the list of pins
    MaxUnsaved,    \* bound: windows that show a list the storage refused
    Edited         \* bound: the plain settings that are changed

Refs == [cluster : PinClusters, name : PinNames]

ASSUME PinAssumption == MaxPins \in Nat \ {0} /\ Windows # {} /\ PinClusters # {} /\ Pinnable \subseteq Refs

VARIABLES
    pins,          \* each window's cache of the pins
    kept,          \* the pins that the storage has
    told,          \* the windows with a storage event under way
    unsaved,       \* history: the windows whose list was refused and is still shown
    dragged,       \* the row being dragged: its window, cluster and index, 0 for none
    settings,      \* of the cluster, in each window
    storage,       \* of the cluster, in the storage
    uploading      \* the windows where a photo is being scaled down

pinVars == <<pins, kept, told, unsaved, dragged>>
settingsVars == <<settings, storage, uploading>>

-----------------------------------------------------------------------------
(* The pins *)
NoDrag == [window |-> CHOOSE w \in Windows : TRUE, cluster |-> CHOOSE c \in PinClusters : TRUE, row |-> 0]

PinsOf(c) == {p \in Refs : p.cluster = c}
ListFor(list, c) == Kept(list, PinsOf(c))
(* The places in the whole list of the rows of a cluster *)
Slice(list, c) == PlacesOf(list, PinsOf(c))

Pinned(list, p) == SubSeq(<<p>> \o list, 1, IF Len(list) < MaxPins THEN Len(list) + 1 ELSE MaxPins)
Unpinned(list, p) == Kept(list, Refs \ {p})
(* Mutant of Reordered: the target's place is not corrected. *)
ReorderedAtOldPlace(list, c, from, to) ==
    LET moved == Slice(list, c)[from] IN InsertAt(RemoveAt(list, moved), Slice(list, c)[to], list[moved])
(* reorder: out at the place of one row, in at the place of another, which   *)
(* is one lower by now if it came after the first.                          *)
Reordered(list, c, from, to) ==
    LET moved == Slice(list, c)[from]
        target == Slice(list, c)[to]
        at == IF target > moved THEN target - 1 ELSE target
    IN InsertAt(RemoveAt(list, moved), at, list[moved])

FavInit ==
    /\ pins = [w \in Windows |-> <<>>] /\ kept = <<>> /\ told = {} /\ unsaved = {}
    /\ dragged = NoDrag

(* persist: the list of this window replaces that of the storage, and the      *)
(* other windows are told; or the storage refuses it (quota), which is         *)
(* swallowed: it has the old list and nobody is told, but the window shows the *)
(* new one.                                                                 *)
Saved(w, list) == kept' = list /\ told' = told \cup (Windows \ {w}) /\ unsaved' = unsaved \ {w}
Refused(w) ==
    /\ Cardinality(unsaved \cup {w}) <= MaxUnsaved /\ unsaved' = unsaved \cup {w}
    /\ UNCHANGED <<kept, told>>
Persist(w, list) ==
    /\ pins' = [pins EXCEPT ![w] = list]
    /\ Saved(w, list) \/ Refused(w)

Toggle(w, p) ==
    /\ Persist(w, IF Contains(pins[w], p) THEN Unpinned(pins[w], p) ELSE Pinned(pins[w], p))
    /\ UNCHANGED dragged
Unpin(w, p) ==
    /\ dragged = NoDrag /\ Contains(pins[w], p) /\ Persist(w, Unpinned(pins[w], p))
    /\ UNCHANGED dragged
(* The listener reads what is in the storage by now, not what the event says. *)
StorageEvent(w) ==
    /\ w \in told /\ told' = told \ {w} /\ pins' = [pins EXCEPT ![w] = kept]
    /\ unsaved' = unsaved \ {w}
    /\ UNCHANGED <<kept, dragged>>
FavReload(w) ==
    /\ pins' = [pins EXCEPT ![w] = kept] /\ told' = told \ {w}
    /\ unsaved' = unsaved \ {w}
    /\ dragged' = IF dragged.window = w THEN NoDrag ELSE dragged
    /\ UNCHANGED kept

(* A row is dragged by its index; the rows may be others when it is dropped. *)
DragStart(w, c, i) ==
    /\ dragged = NoDrag /\ i \in DOMAIN ListFor(pins[w], c)
    /\ dragged' = [window |-> w, cluster |-> c, row |-> i] /\ UNCHANGED <<pins, kept, told, unsaved>>
DragDrop(i) ==
    LET w == dragged.window
        rows == ListFor(pins[w], dragged.cluster)
    IN /\ dragged # NoDrag /\ i \in DOMAIN rows /\ dragged' = NoDrag
       /\ IF dragged.row = i \/ dragged.row \notin DOMAIN rows THEN UNCHANGED <<pins, kept, told, unsaved>>
          ELSE Persist(w, Reordered(pins[w], dragged.cluster, dragged.row, i))
DragEnd == dragged # NoDrag /\ dragged' = NoDrag /\ UNCHANGED <<pins, kept, told, unsaved>>

FavNext ==
    \/ \E w \in Windows : StorageEvent(w) \/ FavReload(w)
    \/ \E w \in Windows, p \in Pinnable : Toggle(w, p) \/ Unpin(w, p)
    \/ \E w \in Windows, c \in PinClusters, i \in 1..MaxPins : DragStart(w, c, i)
    \/ \E i \in 1..MaxPins : DragDrop(i)
    \/ DragEnd

FavSpec == FavInit /\ [][FavNext]_pinVars

-----------------------------------------------------------------------------
(* The settings. Fields of each section of their page; all metrics toggles    *)
(* and the source are one choice of a preset.                                *)
GeneralFields == {"displayName", "tag", "tagTone", "persistColumnWidths", "showPodMetricsColumns"}
ProxyFields == {"httpProxy", "httpsProxy", "noProxy"}
TerminalFields == {"terminalWorkingDirectory", "terminalDefaultNamespace", "terminalDefaultShell"}
NamespaceFields == {"accessibleNamespaces"}
MetricFields == {"metricsProvider", "hiddenMetrics", "prometheus", "kubeStateMetrics", "nodeExporter"}
NodeShellFields == {"nodeShellImage", "nodeShellPullSecret"}
LensFields == {"prometheus", "kubeStateMetrics", "nodeExporter"}
PresetFields == {"metricsProvider"} \cup LensFields
Presets == {LensFields, {"prometheus"}, {"prometheus", "kubeStateMetrics"}}
Fields == GeneralFields \cup ProxyFields \cup TerminalFields \cup NamespaceFields \cup MetricFields \cup NodeShellFields
ASSUME SettingsAssumption == Edited \subseteq Fields

(* set: the fields that differ from their defaults *)
Defaults == [set |-> {}, label |-> FALSE, image |-> FALSE, kind |-> "unset"]

(* resolveClusterIcon: the choice, or what there is instead *)
Icon(s) ==
    CASE s.kind = "label" /\ s.label -> "label"
      [] s.image /\ ~(s.kind = "label" /\ s.label) -> "image"
      [] OTHER -> IF s.label THEN "label" ELSE "none"

SettingsInit ==
    /\ settings = [w \in Windows |-> Defaults] /\ storage = Defaults
    /\ uploading = {}

(* A change of the store: the copy of this window is written as a whole. *)
Put(w, s) == settings' = [settings EXCEPT ![w] = s] /\ storage' = s
Patch(w, s) == Put(w, s) /\ UNCHANGED uploading

ChangeField(w, f) ==
    \E on \in BOOLEAN :
        Patch(w, [settings[w] EXCEPT !.set = IF on THEN @ \cup {f} ELSE @ \ {f}])
ChoosePreset(w) ==
    \E lens \in Presets :
        Patch(w, [settings[w] EXCEPT !.set = (@ \ PresetFields) \cup ((lens \cup {"metricsProvider"}) \cap Edited)])

(* Mutant of TypeLabel: a label takes the place of the photo. *)
TypeLabelOverPhoto(w) == \E on \in BOOLEAN : Patch(w, [settings[w] EXCEPT !.label = on, !.kind = "label", !.image = FALSE])
(* The tiles and fields of the icon editor *)
TypeLabel(w) == \E on \in BOOLEAN : Patch(w, [settings[w] EXCEPT !.label = on, !.kind = "label"])
ShowPhoto(w) == settings[w].image /\ Patch(w, [settings[w] EXCEPT !.kind = "image"])
RemovePhoto(w) == settings[w].image /\ Patch(w, [settings[w] EXCEPT !.image = FALSE, !.kind = "label"])
ResetIcon(w) == Patch(w, [settings[w] EXCEPT !.label = FALSE, !.image = FALSE, !.kind = "label"])
ChoosePhoto(w) ==
    /\ w \notin uploading /\ uploading' = uploading \cup {w}
    /\ UNCHANGED <<settings, storage>>
PhotoScaled(w, ok) ==
    /\ w \in uploading /\ uploading' = uploading \ {w}
    /\ IF ok THEN Put(w, [settings[w] EXCEPT !.image = TRUE, !.kind = "image"])
       ELSE UNCHANGED <<settings, storage>>

(* A change of anything else in the store: theme, namespaces, the last page *)
ChangeOther(w) == Put(w, settings[w]) /\ UNCHANGED uploading
ForgetSettings(w) == Put(w, Defaults) /\ UNCHANGED uploading
ReloadStore(w) ==
    /\ settings' = [settings EXCEPT ![w] = storage] /\ uploading' = uploading \ {w}
    /\ UNCHANGED storage

SettingsNext == \E w \in Windows :
    \/ \E f \in Edited : ChangeField(w, f)
    \/ \E ok \in BOOLEAN : PhotoScaled(w, ok)
    \/ ChoosePreset(w) \/ TypeLabel(w) \/ ShowPhoto(w) \/ RemovePhoto(w) \/ ResetIcon(w) \/ ChoosePhoto(w)
    \/ ChangeOther(w) \/ ForgetSettings(w) \/ ReloadStore(w)

SettingsSpec == SettingsInit /\ [][SettingsNext]_settingsVars

-----------------------------------------------------------------------------
(* The windows agree once they have heard: a window with no event under way,  *)
(* and no list of its own that the storage refused (favourites.ts:134-136      *)
(* tells nobody, not even the user), shows what the storage has, in whatever   *)
(* order the windows wrote and heard.                                        *)
QuietWindowsAgree == \A w \in Windows : w \notin told \cup unsaved => pins[w] = kept

(* A drop moves one row and no other: it lands right above the row it was     *)
(* dropped on (the line the sidebar draws), the other rows keep their order,  *)
(* and those of the other clusters keep theirs (their slots are shortcuts).   *)
(* The comment of reorder, favourites.ts:73, has it land at index `to`: a row  *)
(* dragged down lands one above.                                             *)
DropLandsAbove ==
    [][\A i \in 1..MaxPins : DragDrop(i) =>
        LET w == dragged.window
            c == dragged.cluster
            old == ListFor(pins[w], c)
            new == ListFor(pins'[w], c)
            row == old[dragged.row]
        IN pins'[w] # pins[w] =>
            /\ Unpinned(new, row) = Unpinned(old, row)
            /\ \E k \in 2..Len(new) : new[k] = old[i] /\ new[k - 1] = row
            /\ \A d \in PinClusters \ {c} : ListFor(pins'[w], d) = ListFor(pins[w], d)]_pinVars

(* Both: what a window shows is the list as it was arranged last.             *)
PinsAreAsArranged == []QuietWindowsAgree /\ DropLandsAbove

(* "Both stay on file, so flipping back and forth never loses the upload"     *)
(* (IconEditor.tsx): in the window that has a photo it is lost only when the   *)
(* user removes it, resets the icon or forgets the cluster, or when the window *)
(* is loaded again over what another one wrote; and while it is there, a       *)
(* badge is drawn.                                                           *)
PhotoStays ==
    [][\A w \in Windows : settings[w].image =>
         /\ Icon(settings[w]) # "none"
         /\ settings'[w].image \/ RemovePhoto(w) \/ ResetIcon(w) \/ ForgetSettings(w) \/ ReloadStore(w)]_settingsVars
=============================================================================
