------------------------------ MODULE YamlEdit ------------------------------
(***************************************************************************)
(* Editing an object as YAML: the pane (components/YAMLEditPane.tsx), the   *)
(* YAML tab of the detail page (YAMLTab) and the handler that replaces the   *)
(* object (applyResource, strategy=update). The buffer is filled from a copy *)
(* of the object that was fetched earlier; other clients write meanwhile,    *)
(* and the apiserver refuses an update whose resourceVersion or uid is old.  *)
(*                                                                           *)
(* An object is its uid, its resourceVersion and the set of writes, each     *)
(* named by the version it produced, whose effect its content still shows.   *)
(***************************************************************************)
EXTENDS Integers

CONSTANTS
    Editors,      \* "pane": refilled when uid or version change; "tab": when the uid does
    MaxVersion    \* bound: writes of the object

ASSUME EditorsAssumption == Editors \subseteq {"pane", "tab"} /\ MaxVersion \in Nat \ {0}

VARIABLES
    object,   \* the object at the apiserver
    editor    \* per editor: the query's data and fetch, the buffer, the call in flight, the view

yamlVars == <<object, editor>>

Nothing == [uid |-> 0, rv |-> 0, log |-> {}]
NoBuffer == [uid |-> 0, rv |-> 0, log |-> {}, typed |-> FALSE]
NoCall == [kind |-> "", buffer |-> NoBuffer, watched |-> FALSE]

Edit(e) == editor[e]
EditBusy(e) == Edit(e).call.watched
Change(e, ed) == editor' = [editor EXCEPT ![e] = ed]
(* Mutant of Text: the version is stripped with the managed fields. *)
TextUnversioned(o) == [uid |-> o.uid, rv |-> 0, log |-> o.log, typed |-> FALSE]
(* stripManaged and YAML.stringify: uid and resourceVersion stay in the text *)
Text(o) == [uid |-> o.uid, rv |-> o.rv, log |-> o.log, typed |-> FALSE]
Stamp(e, o) == IF e = "pane" THEN <<o.uid, o.rv>> ELSE <<o.uid>>
Versions == object.rv < MaxVersion

YamlInit ==
    /\ object = [uid |-> 1, rv |-> 1, log |-> {1}]
    /\ editor = [e \in Editors |->
         [data |-> Nothing, fetch |-> Nothing, asked |-> TRUE, buffer |-> NoBuffer, call |-> NoCall, preview |-> FALSE]]

-----------------------------------------------------------------------------
(* Another client changes the object, or deletes it and creates it again.   *)
OtherWrite ==
    /\ Versions /\ UNCHANGED editor
    /\ object' = [object EXCEPT !.rv = @ + 1, !.log = @ \cup {object.rv + 1}]
Recreate ==
    /\ Versions /\ UNCHANGED editor
    /\ object' = [uid |-> object.rv + 1, rv |-> object.rv + 1, log |-> {object.rv + 1}]

(* The query: asked on mount, by Reload and after a save (by the tab's page *)
(* also every few seconds); the answer was read some time before it arrives *)
(* and refills the buffer when the stamp differs from the data's.           *)
Ask(e) == ~EditBusy(e) /\ Change(e, [Edit(e) EXCEPT !.asked = TRUE, !.preview = (e = "tab" /\ @)]) /\ UNCHANGED object
Served(e) ==
    /\ Edit(e).asked
    /\ Change(e, [Edit(e) EXCEPT !.asked = FALSE, !.fetch = object]) /\ UNCHANGED object
Arrives(e) ==
    LET ed == Edit(e)
        o == ed.fetch
        same == ed.data # Nothing /\ Stamp(e, o) = Stamp(e, ed.data)
    IN /\ o # Nothing /\ UNCHANGED object
       /\ Change(e, [ed EXCEPT !.data = o, !.fetch = Nothing, !.buffer = IF same THEN @ ELSE Text(o),
                               !.preview = IF same THEN @ ELSE (e = "pane" /\ @)])

Type(e) ==
    /\ Edit(e).buffer # NoBuffer /\ ~Edit(e).preview
    /\ Change(e, [Edit(e) EXCEPT !.buffer.typed = TRUE]) /\ UNCHANGED object
(* onSave, onApply and onPreview *)
Send(e, kind) ==
    LET ed == Edit(e)
    IN /\ ~EditBusy(e) /\ ed.call = NoCall /\ ed.buffer # NoBuffer
       /\ e = "tab" => ed.buffer.typed
       /\ Change(e, [ed EXCEPT !.call = [kind |-> kind, buffer |-> ed.buffer, watched |-> TRUE]])
       /\ UNCHANGED object
(* "Review diff" of the tab compares locally *)
Review(e) ==
    /\ e = "tab" /\ Edit(e).buffer.typed /\ ~EditBusy(e)
    /\ Change(e, [Edit(e) EXCEPT !.preview = ~@]) /\ UNCHANGED object
(* The pane or the tab is closed and opened again; the call goes on. *)
Reopen(e) ==
    /\ Edit(e).data # Nothing
    /\ Change(e, [Edit(e) EXCEPT !.buffer = Text(Edit(e).data), !.preview = FALSE, !.call.watched = FALSE])
    /\ UNCHANGED object

(* applyResource at the apiserver: an update must name the current object   *)
(* and version; one that changes nothing makes no version.                  *)
Accepts(b) == b.uid = object.uid /\ b.rv \in {0, object.rv}
Rewritten(b) ==
    IF b.typed THEN [object EXCEPT !.rv = @ + 1, !.log = b.log \cup {object.rv + 1}] ELSE [object EXCEPT !.log = b.log]
Done(e, ok) ==
    LET ed == Edit(e)
        saved == ok /\ ed.call.kind = "save"
    IN Change(e, [ed EXCEPT !.call = NoCall,
                            !.asked = @ \/ (saved /\ ed.call.watched),
                            !.preview = IF ~ed.call.watched THEN @
                                        ELSE (ok /\ e = "pane" /\ ~saved) \/ (@ /\ ~(saved /\ e = "tab"))])
SaveAnswered(e) ==
    LET b == Edit(e).call.buffer
    IN /\ Edit(e).call.kind = "save"
       /\ IF Accepts(b) THEN Versions /\ object' = Rewritten(b) ELSE UNCHANGED object
       /\ Done(e, Accepts(b))
PreviewAnswered(e) ==
    /\ Edit(e).call.kind = "preview"
    /\ Done(e, Accepts(Edit(e).call.buffer)) /\ UNCHANGED object

YamlNext ==
    \/ OtherWrite \/ Recreate
    \/ \E e \in Editors :
         \/ Ask(e) \/ Served(e) \/ Arrives(e) \/ Type(e) \/ Review(e) \/ Reopen(e)
         \/ Send(e, "save") \/ SaveAnswered(e) \/ PreviewAnswered(e)
         \/ e = "pane" /\ Send(e, "preview")

YamlSpec == YamlInit /\ [][YamlNext]_yamlVars

-----------------------------------------------------------------------------
(* A save never undoes the write of another client that the editor had not   *)
(* seen: the object shows every write since it was created, whatever fetch,  *)
(* reopening or other editor came between the copy and the save.             *)
NoLostUpdate == object.log = object.uid..object.rv
=============================================================================
