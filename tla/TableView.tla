------------------------------ MODULE TableView ------------------------------
(***************************************************************************)
(* A list of objects with its checkboxes, search, row menu and bulk actions *)
(* (frontend/src/components/ResourceTable.tsx) and the handlers behind them  *)
(* (pages/ResourceListPage.tsx, pages/NodesPage.tsx): they ask in a dialog,  *)
(* call the server for objects by NAME, and tell what failed in another.     *)
(* Meanwhile the list follows the server, some way behind, and the user goes *)
(* on clicking.                                                              *)
(*                                                                         *)
(* The dialogs (components/Modals.tsx): alert, confirm and prompt push a      *)
(* dialog and return a promise; the host shows the last one of the stack. An  *)
(* answer resolves the dialog on display and then removes the last one of the  *)
(* stack, whichever that is by then: a handler that comes back from the        *)
(* server pushes onto the queue of state updates first, and the page shows it  *)
(* with its next render.                                                   *)
(***************************************************************************)
EXTENDS Integers, Sequences, SequencesExt

CONSTANTS
    Names,     \* names of objects
    Runs,      \* runs of a handler that may be under way at once
    MaxUid,    \* bound: objects ever created
    Beside     \* bound: what a handler that starts while another is under way may be

ASSUME TableAssumption == 0 \notin Runs /\ MaxUid \in Nat

VARIABLES
    stack,   \* rendered: each dialog is the run that awaits it and a step of that run
    late,    \* pushed and not rendered yet
    raced,   \* so far: an answer was given while a push was not rendered
    objects,   \* at the server: the uid under each name, 0 if there is none
    born,      \* uids used
    rows,      \* the page's copy of objects
    checked,   \* selectedKeys
    hides,     \* the names that the debounced search hides
    bulk,      \* the run behind bulkBusy, or 0
    run        \* the handlers under way

dialogVars == <<stack, late, raced>>
tableVars == <<objects, born, rows, checked, hides, bulk, run>>
listVars == <<dialogVars, tableVars>>

-----------------------------------------------------------------------------
(* The dialogs *)
Dialog(h, step) == [of |-> h, step |-> step]
DialogInit == stack = <<>> /\ late = <<>> /\ raced = FALSE

(* push in the event of a click, which renders at once, and after a request *)
OpenNow(d) == stack' = stack \o late \o <<d>> /\ late' = <<>> /\ UNCHANGED raced
OpenLater(d) == late' = Append(late, d) /\ UNCHANGED <<stack, raced>>
RenderDialogs == late # <<>> /\ stack' = stack \o late /\ late' = <<>> /\ UNCHANGED raced

(* The buttons of ModalHost, Enter and Escape: resolve the dialog on display, *)
(* pop, and render with what the run pushes in return.                       *)
OnDisplay == Last(stack)
Resolve(next) ==
    /\ stack # <<>>
    /\ stack' = Front(stack \o late) \o next /\ late' = <<>>
    /\ raced' = (raced \/ late # <<>>)

Undecided == ToSet(stack \o late)

-----------------------------------------------------------------------------
(* The list and its handlers *)
(* Of a run: the names it will call for, those of them not served yet, the   *)
(* dialog it awaits (a question, or 0: what it has to tell), and the rows     *)
(* that were on display and checked, or clicked, when it started. A "change"  *)
(* (scale, restart, trigger, evict, port forward, kubeadm) asks once or more. *)
NoRun == [kind |-> "none", stage |-> "idle", step |-> 0, items |-> {}, left |-> {}, failed |-> FALSE, shown |-> {}]
(* The menus of the lists, of the nodes, and the head of the detail panel *)
ListKinds == {"delete", "change", "direct", "walk"}
NodeKinds == {"change", "direct", "drain"}
PanelKinds == {"delete", "change", "direct"}
RowKinds == ListKinds \cup NodeKinds
Questions(kind) == IF kind = "change" THEN {1, 2} ELSE {1}

FilteredRows == {n \in Names : rows[n] # 0 /\ n \notin hides}
(* Mutant of SelectedItems: of all rows, hidden by the search or not. *)
SelectedOfAllRows == {n \in Names : rows[n] # 0 /\ rows[n] \in checked}
SelectedItems == {n \in FilteredRows : rows[n] \in checked}

TableInit ==
    /\ DialogInit
    /\ born = 1 /\ objects = [n \in Names |-> IF n = (CHOOSE m \in Names : TRUE) THEN 1 ELSE 0] /\ rows = objects
    /\ checked = {} /\ hides = {} /\ bulk = 0
    /\ run = [h \in Runs |-> NoRun]

-----------------------------------------------------------------------------
(* The server, and the list that follows it *)
Appear(n) ==
    /\ objects[n] = 0 /\ born < MaxUid
    /\ born' = born + 1 /\ objects' = [objects EXCEPT ![n] = born + 1]
    /\ UNCHANGED <<dialogVars, rows, checked, hides, bulk, run>>
Vanish(n) ==
    /\ objects[n] # 0 /\ objects' = [objects EXCEPT ![n] = 0]
    /\ UNCHANGED <<dialogVars, born, rows, checked, hides, bulk, run>>
RowArrives(n) ==
    /\ rows[n] # objects[n] /\ rows' = [rows EXCEPT ![n] = objects[n]]
    /\ UNCHANGED <<dialogVars, objects, born, checked, hides, bulk, run>>

(* The table *)
Check(n, on) ==
    /\ n \in FilteredRows
    /\ checked' = IF on THEN checked \cup {rows[n]} ELSE checked \ {rows[n]}
    /\ UNCHANGED <<dialogVars, objects, born, rows, hides, bulk, run>>
CheckAll(on) ==
    LET keys == {rows[n] : n \in FilteredRows}
    IN /\ checked' = IF on THEN checked \cup keys ELSE checked \ keys
       /\ UNCHANGED <<dialogVars, objects, born, rows, hides, bulk, run>>
ClearSelection ==
    /\ SelectedItems # {} /\ checked' = {}
    /\ UNCHANGED <<dialogVars, objects, born, rows, hides, bulk, run>>
(* The search box, 80 ms after the last key *)
Search(h) ==
    /\ hides' = h /\ UNCHANGED <<dialogVars, objects, born, rows, checked, bulk, run>>
(* Another set of columns: the reset effect *)
ResetTable ==
    /\ checked' = {}
    /\ UNCHANGED <<dialogVars, objects, born, rows, hides, bulk, run>>

-----------------------------------------------------------------------------
(* A handler starts, under the first name that is free: it asks, or it calls *)
(* at once.                                                                *)
Free(h) == run[h] = NoRun /\ \A d \in Undecided : d.of # h
Start(h, kind, items, shown) ==
    LET r == [NoRun EXCEPT !.kind = kind, !.items = items, !.shown = shown]
    IN /\ Free(h) /\ h = (CHOOSE g \in Runs : Free(g))
       /\ kind \in Beside \/ \A g \in Runs : run[g] = NoRun
       /\ IF kind \in {"direct", "walk"}
          THEN /\ run' = [run EXCEPT ![h] = [r EXCEPT !.stage = IF kind = "walk" THEN "look" ELSE "call", !.left = items]]
               /\ UNCHANGED dialogVars
          ELSE \E step \in Questions(kind) :
               /\ run' = [run EXCEPT ![h] = [r EXCEPT !.stage = "wait", !.step = step]]
               /\ OpenNow(Dialog(h, step))
RowAction(h, n, kind) ==
    /\ n \in FilteredRows /\ Start(h, kind, {n}, {n})
    /\ UNCHANGED <<objects, born, rows, checked, hides, bulk>>
(* The panel beside the list acts on the object of its address, listed or not. *)
PanelAction(h, n, kind) ==
    /\ Start(h, kind, {n}, {n})
    /\ UNCHANGED <<objects, born, rows, checked, hides, bulk>>
RunBulkAction(h) ==
    /\ SelectedItems # {} /\ bulk = 0
    /\ Start(h, "bulk", SelectedItems, {n \in Names : rows[n] # 0 /\ n \notin hides /\ rows[n] \in checked})
    /\ bulk' = h
    /\ UNCHANGED <<objects, born, rows, checked, hides>>

(* The end of a run; runBulkAction drops the selection unless it was refused. *)
EndRun(h, keep) ==
    /\ run' = [run EXCEPT ![h] = NoRun]
    /\ bulk' = IF bulk = h THEN 0 ELSE bulk
    /\ checked' = IF bulk = h /\ ~keep THEN {} ELSE checked
Await(h, step) == [run EXCEPT ![h].stage = "wait", ![h].step = step]

Answer(yes) ==
    LET d == OnDisplay
        r == run[d.of]
        awaited == r.stage = "wait" /\ r.step = d.step
        again == awaited /\ yes /\ d.step > 1
    IN /\ stack # <<>> /\ Resolve(IF again THEN <<Dialog(d.of, d.step - 1)>> ELSE <<>>)
       /\ CASE ~awaited -> UNCHANGED <<run, bulk, checked>>
            [] again -> run' = Await(d.of, d.step - 1) /\ UNCHANGED <<bulk, checked>>
            [] awaited /\ yes /\ d.step = 1 ->
                 run' = [run EXCEPT ![d.of].stage = "call", ![d.of].left = r.items] /\ UNCHANGED <<bulk, checked>>
            [] OTHER -> EndRun(d.of, d.step > 0)
       /\ UNCHANGED <<objects, born, rows, hides>>

(* restartPodController reads the owner first: a question, or a refusal. *)
LookedUp(h) ==
    /\ run[h].stage = "look"
    /\ \E step \in {0, 1} : run' = Await(h, step) /\ OpenLater(Dialog(h, step))
    /\ UNCHANGED <<objects, born, rows, checked, hides, bulk>>
(* A request by name; its effect may be there although it failed for the page. *)
ServeRun(h, n) ==
    LET deletes == run[h].kind \in {"delete", "bulk"} /\ objects[n] # 0
    IN /\ run[h].stage = "call" /\ n \in run[h].left
       /\ \E effect, ok \in BOOLEAN :
            /\ effect => deletes
            /\ ok => (deletes <=> effect) /\ (run[h].kind \in {"delete", "bulk"} => deletes)
            /\ objects' = IF effect THEN [objects EXCEPT ![n] = 0] ELSE objects
            /\ run' = [run EXCEPT ![h].left = @ \ {n}, ![h].failed = @ \/ ~ok]
       /\ UNCHANGED <<dialogVars, born, rows, checked, hides, bulk>>
(* All answers are in: an alert, or a toast. *)
Tells(r) ==
    {told \in BOOLEAN :
        /\ told => r.kind = "drain" \/ (r.failed /\ r.kind # "walk")
        /\ r.kind = "drain" \/ (r.failed /\ r.kind \in {"delete", "bulk"}) => told}
RunSettled(h) ==
    /\ run[h].stage = "call" /\ run[h].left = {}
    /\ \E tell \in Tells(run[h]) :
         IF tell THEN run' = Await(h, 0) /\ OpenLater(Dialog(h, 0)) /\ UNCHANGED <<bulk, checked>>
         ELSE EndRun(h, FALSE) /\ UNCHANGED dialogVars
    /\ UNCHANGED <<objects, born, rows, hides>>
Paint == RenderDialogs /\ UNCHANGED tableVars

TableNext ==
    \/ \E n \in Names : Appear(n) \/ Vanish(n) \/ RowArrives(n)
    \/ \E n \in Names, on \in BOOLEAN : Check(n, on)
    \/ \E on \in BOOLEAN : CheckAll(on) \/ Answer(on)
    \/ \E h \in {{}} \cup {{n} : n \in Names} : Search(h)
    \/ \E h \in Runs, n \in Names : ServeRun(h, n) \/ \E kind \in RowKinds : RowAction(h, n, kind)
    \/ \E h \in Runs, n \in Names, kind \in PanelKinds : PanelAction(h, n, kind)
    \/ \E h \in Runs : RunBulkAction(h) \/ LookedUp(h) \/ RunSettled(h)
    \/ ClearSelection \/ ResetTable \/ Paint

TableSpec == TableInit /\ [][TableNext]_listVars

-----------------------------------------------------------------------------
(* A handler that awaits an answer has its dialog on the stack, once: an     *)
(* answer given to another dialog, or an alert that comes on top, does not   *)
(* take it away. (An answer that races with a dialog not rendered yet does;   *)
(* the bulk button then stays busy for good.)                                *)
NoDialogLost ==
    ~raced => \A h \in Runs : run[h].stage = "wait" =>
        \E i \in DOMAIN (stack \o late) : \A j \in DOMAIN (stack \o late) :
            (stack \o late)[j].of = h <=> i = j /\ (stack \o late)[i].step = run[h].step

(* What disappears at a handler's request was on display and checked (or was *)
(* the row of the menu) when the handler was started, whatever the user typed *)
(* or checked, and whatever rows came and went, since.                       *)
DeletesOnlyShown ==
    [][\A n \in Names : objects[n] # 0 /\ objects'[n] = 0 =>
         Vanish(n) \/ \E h \in Runs : run[h].stage = "call" /\ n \in run[h].shown]_listVars

(* Both: what the user confirms, and nothing else, is what goes.             *)
DeletesAsConfirmed == []NoDialogLost /\ DeletesOnlyShown
=============================================================================
