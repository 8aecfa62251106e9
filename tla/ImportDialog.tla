---------------------------- MODULE ImportDialog ----------------------------
(***************************************************************************)
(* The start of the page while no cluster is connected (frontend/src/       *)
(* App.tsx) and its import dialog (components/AddClusterModal.tsx): a        *)
(* kubeconfig is typed or read from a file, its contexts are checked or not, *)
(* and what is checked is sent; or the backend imports a file it found.     *)
(* A text is the set of its contexts, or Broken if it does not parse.       *)
(***************************************************************************)
EXTENDS Integers, FiniteSets

CONSTANTS
    Contexts,     \* names of contexts
    BareNumbers   \* those YAML reads as numbers: the dialog compares them as text

ASSUME ImportAssumption == IsFiniteSet(Contexts) /\ BareNumbers \subseteq Contexts

Broken == {"broken"}
NoText == {}
Texts == {NoText, Broken} \cup SUBSET Contexts

VARIABLES
    registered,   \* at the server: the clusters of the identity
    onDisk,       \* at the server: the contexts of the kubeconfig it found
    roster,       \* the page's copy: "loading", "failed" or "known", and the names
    dialog,       \* addClusterOpen
    text,         \* yaml
    checks,       \* picked
    reading,      \* a chosen file that is being read: its text, or NoText
    found,        \* scanResult: the contexts listed for the file, or NoText
    scanning,
    request,      \* the import under way: "none", "text" or "path", and what it asks for
    entered       \* the cluster the page went to, or "none"

formVars == <<text, checks, reading, found, scanning>>
startVars == <<registered, onDisk, roster, dialog, formVars, request, entered>>

Idle == [by |-> "none", names |-> {}]
Parsed(t) == t \cap Contexts
(* Bound: a dialog that opens again under an import of the one before waits. *)
Busy == request # Idle
ImportScreen == roster.st = "failed" \/ (roster.st = "known" /\ roster.names = {})
DialogUp == dialog /\ ImportScreen
EmptyForm == text' = NoText /\ checks' = {} /\ reading' = NoText /\ found' = NoText /\ scanning' = FALSE

StartInit ==
    /\ registered = {} /\ onDisk = Contexts
    /\ roster = [st |-> "loading", names |-> {}] /\ dialog = FALSE
    /\ text = NoText /\ checks = {} /\ reading = NoText /\ found = NoText /\ scanning = FALSE
    /\ request = Idle /\ entered = "none"

(* The poll of the list; a failed one keeps the list of the last. The screen *)
(* and its dialog go when the list has clusters, and the form with them.    *)
ListAnswers ==
    /\ \/ roster' = [st |-> "known", names |-> registered]
       \/ roster' = [roster EXCEPT !.st = "failed"]
    /\ UNCHANGED <<registered, onDisk, dialog, request, entered>>
    /\ IF DialogUp' THEN UNCHANGED formVars ELSE EmptyForm
OthersImport(c) ==
    /\ registered' = registered \cup {c}
    /\ UNCHANGED <<onDisk, roster, dialog, formVars, request, entered>>
FileChanges(t) ==
    /\ onDisk' = t /\ UNCHANGED <<registered, roster, dialog, formVars, request, entered>>

OpenDialog ==
    /\ ImportScreen /\ ~dialog /\ dialog' = TRUE
    /\ EmptyForm /\ UNCHANGED <<registered, onDisk, roster, request, entered>>
CloseDialog ==
    /\ DialogUp /\ ~Busy /\ dialog' = FALSE
    /\ EmptyForm /\ UNCHANGED <<registered, onDisk, roster, request, entered>>

(* Another text: everything is checked again if its contexts are others. *)
NewText(t) ==
    /\ text' = t
    /\ checks' = IF Parsed(t) # Parsed(text) THEN Parsed(t) ELSE checks
TypeText(t) ==
    /\ DialogUp /\ ~Busy /\ NewText(t)
    /\ UNCHANGED <<registered, onDisk, roster, dialog, reading, found, scanning, request, entered>>
ChooseFile(t) ==
    /\ DialogUp /\ ~Busy /\ t # NoText /\ reading' = t
    /\ UNCHANGED <<registered, onDisk, roster, dialog, text, checks, found, scanning, request, entered>>
FileRead ==
    /\ DialogUp /\ reading # NoText /\ reading' = NoText /\ NewText(reading)
    /\ UNCHANGED <<registered, onDisk, roster, dialog, found, scanning, request, entered>>
TogglePick(c) ==
    /\ DialogUp /\ c \in Parsed(text)
    /\ checks' = IF c \in checks THEN checks \ {c} ELSE checks \cup {c}
    /\ UNCHANGED <<registered, onDisk, roster, dialog, text, reading, found, scanning, request, entered>>
TogglePicks ==
    /\ DialogUp /\ Parsed(text) # {}
    /\ checks' = IF checks = Parsed(text) THEN {} ELSE Parsed(text)
    /\ UNCHANGED <<registered, onDisk, roster, dialog, text, reading, found, scanning, request, entered>>

Scan ==
    /\ DialogUp /\ ~Busy /\ ~scanning /\ scanning' = TRUE
    /\ UNCHANGED <<registered, onDisk, roster, dialog, text, checks, reading, found, request, entered>>
Scanned ==
    /\ DialogUp /\ scanning /\ scanning' = FALSE /\ found' \in {found, onDisk}
    /\ UNCHANGED <<registered, onDisk, roster, dialog, text, checks, reading, request, entered>>

(* submit: the whole text, or what filterKubeconfig leaves of it. Names that  *)
(* are bare numbers in the YAML are in the checks as text, and match nothing. *)
(* Mutant of Payload: the whole text, whatever is checked. *)
PayloadUnfiltered == text
Payload ==
    CASE Parsed(text) = {} -> text
      [] Parsed(text) # {} /\ Cardinality(checks) = Cardinality(Parsed(text)) -> Parsed(text)
      [] OTHER -> (Parsed(text) \cap checks) \ BareNumbers
Submit ==
    /\ DialogUp /\ ~Busy /\ text # NoText
    /\ Parsed(text) # {} => checks # {}
    /\ request' = [by |-> "text", names |-> Payload]
    /\ UNCHANGED <<registered, onDisk, roster, dialog, formVars, entered>>
ImportByPath ==
    /\ DialogUp /\ ~Busy /\ found # NoText
    /\ request' = [by |-> "path", names |-> found]
    /\ UNCHANGED <<registered, onDisk, roster, dialog, formVars, entered>>

(* The server reads the file anew; it may refuse. Then the answer, to a      *)
(* dialog that may be gone by now: it enters the first of the clusters.       *)
Imported(ok) ==
    LET names == Parsed(IF request.by = "path" THEN onDisk ELSE request.names)
    IN /\ Busy /\ request' = Idle
       /\ IF ok /\ names # {}
          THEN /\ registered' = registered \cup names /\ dialog' = FALSE /\ EmptyForm
               /\ roster' = [st |-> "known", names |-> registered'] /\ entered' \in names
          ELSE UNCHANGED <<registered, dialog, formVars, roster, entered>>
       /\ UNCHANGED onDisk

StartNext ==
    \/ ListAnswers \/ OpenDialog \/ CloseDialog \/ FileRead \/ TogglePicks \/ Scan \/ Scanned \/ Submit \/ ImportByPath
    \/ \E c \in Contexts : OthersImport(c) \/ TogglePick(c)
    \/ \E t \in Texts : TypeText(t) \/ ChooseFile(t)
    \/ \E t \in SUBSET Contexts : FileChanges(t)
    \/ \E ok \in BOOLEAN : Imported(ok)

StartSpec == StartInit /\ [][StartNext]_startVars

-----------------------------------------------------------------------------
(* A text that parses is imported as it is shown: what is sent is what is    *)
(* checked, whatever text the checks were made on (except the contexts whose *)
(* names are bare numbers, which a partial import loses).                     *)
SendsTheChecked ==
    [][(request = Idle /\ request'.by = "text" /\ Parsed(text) # {}) =>
        /\ request'.names \subseteq checks
        /\ checks \ request'.names \subseteq BareNumbers]_startVars
=============================================================================
