----------------------------- MODULE PageProofs -----------------------------
(***************************************************************************)
(* Proofs about what the browser keeps over long sequences of calls, for   *)
(* any constants of the components: the editor of an object, the tabs of   *)
(* the clusters, the photo of a cluster, the rollback of a deployment, the *)
(* import dialog, the columns of a table, the history behind the arrows,   *)
(* the panes of terminals and the dialogs of a table. One part per         *)
(* component: an invariant, one lemma per action that can disturb it, and  *)
(* the theorem.                                                            *)
(***************************************************************************)
EXTENDS YamlEdit, ClusterLife, LocalStores, Rollback, ImportDialog, ColumnLayout,
        NavStack, Panes, TableView, FiniteSetTheorems, SequenceTheorems, WellFoundedInduction, TLAPS

-----------------------------------------------------------------------------
(* Editing YAML: every copy of the object that is under way shows all writes  *)
(* up to its own version, so the one an update is accepted for misses none.   *)

IsCopy(c) ==
  /\ c.uid \in Nat /\ c.rv \in Nat
  /\ c.uid = 0 \/ (c.rv # 0 /\ c.log = c.uid .. c.rv)
EditorOK(ed) ==
  /\ DOMAIN ed = {"data", "fetch", "asked", "buffer", "call", "preview"}
  /\ DOMAIN ed.buffer = {"uid", "rv", "log", "typed"}
  /\ DOMAIN ed.call = {"kind", "buffer", "watched"}
  /\ IsCopy(ed.data) /\ IsCopy(ed.fetch) /\ IsCopy(ed.buffer) /\ IsCopy(ed.call.buffer)
YamlInv ==
  /\ DOMAIN object = {"uid", "rv", "log"}
  /\ IsCopy(object) /\ object.uid # 0 /\ object.uid <= object.rv
  /\ DOMAIN editor = Editors /\ \A e \in Editors : EditorOK(editor[e])

LEMMA EditorChanges ==
  ASSUME YamlInv, NEW e \in Editors, NEW ed, EditorOK(ed), Change(e, ed), UNCHANGED object
  PROVE  YamlInv'
BY DEF YamlInv, Change

LEMMA TextIsCopy ==
  ASSUME NEW o, IsCopy(o)
  PROVE  IsCopy(Text(o)) /\ DOMAIN Text(o) = {"uid", "rv", "log", "typed"}
BY DEF IsCopy, Text

LEMMA DoneIsOK ==
  ASSUME YamlInv, NEW e \in Editors, NEW ok, Done(e, ok)
  PROVE  DOMAIN editor' = Editors /\ \A d \in Editors : EditorOK(editor'[d])
<1>1. EditorOK(editor[e]) /\ DOMAIN editor = Editors
  BY DEF YamlInv
<1>2. PICK asked, preview, t :
         /\ t = [editor[e] EXCEPT !.call = NoCall, !.asked = asked, !.preview = preview]
         /\ editor' = [editor EXCEPT ![e] = t]
  BY DEF Done, Change, Edit
<1>3. EditorOK(t)
  BY <1>1, <1>2 DEF EditorOK, NoCall, NoBuffer, IsCopy
<1>4. QED
  BY <1>1, <1>2, <1>3 DEF YamlInv

LEMMA YamlStepInvariance == YamlInv /\ [YamlNext]_yamlVars => YamlInv'
<1> SUFFICES ASSUME YamlInv, [YamlNext]_yamlVars PROVE YamlInv'
  OBVIOUS
<1>1. /\ object.uid \in Nat /\ object.rv \in Nat /\ object.log = object.uid .. object.rv
      /\ object.uid # 0 /\ object.rv # 0 /\ object.uid <= object.rv
      /\ DOMAIN object = {"uid", "rv", "log"}
  BY DEF YamlInv, IsCopy
<1>2. CASE OtherWrite
  <2>1. /\ object'.uid = object.uid /\ object'.rv = object.rv + 1
        /\ object'.log = object.log \cup {object.rv + 1} /\ DOMAIN object' = {"uid", "rv", "log"}
    BY <1>1, <1>2 DEF OtherWrite
  <2>2. QED
    BY <1>1, <1>2, <2>1 DEF OtherWrite, YamlInv, IsCopy
<1>3. CASE Recreate
  BY <1>1, <1>3 DEF Recreate, YamlInv, IsCopy
<1>4. ASSUME NEW e \in Editors,
             \/ Ask(e) \/ Served(e) \/ Arrives(e) \/ Type(e) \/ Review(e) \/ Reopen(e)
             \/ Send(e, "save") \/ Send(e, "preview") \/ SaveAnswered(e) \/ PreviewAnswered(e)
      PROVE  YamlInv'
  <2>1. EditorOK(editor[e])
    BY DEF YamlInv
  <2>2. CASE Ask(e)
    <3>1. PICK t : /\ t = [editor[e] EXCEPT !.asked = TRUE, !.preview = (e = "tab" /\ editor[e].preview)]
                   /\ Change(e, t)
      BY <2>2 DEF Ask, Edit
    <3>2. EditorOK(t)
      BY <2>1, <3>1 DEF EditorOK
    <3>3. QED
      BY <2>2, <3>1, <3>2, EditorChanges DEF Ask
  <2>3. CASE Review(e)
    <3>1. PICK t : t = [editor[e] EXCEPT !.preview = ~editor[e].preview] /\ Change(e, t)
      BY <2>3 DEF Review, Edit
    <3>2. EditorOK(t)
      BY <2>1, <3>1 DEF EditorOK
    <3>3. QED
      BY <2>3, <3>1, <3>2, EditorChanges DEF Review
  <2>4. CASE Served(e)
    <3>1. PICK t : t = [editor[e] EXCEPT !.asked = FALSE, !.fetch = object] /\ Change(e, t)
      BY <2>4 DEF Served, Edit
    <3>2. EditorOK(t)
      BY <2>1, <3>1 DEF EditorOK, YamlInv
    <3>3. QED
      BY <2>4, <3>1, <3>2, EditorChanges DEF Served
  <2>5. CASE Arrives(e)
    <3>1. PICK buffer, preview, t :
             /\ buffer = editor[e].buffer \/ buffer = Text(editor[e].fetch)
             /\ t = [editor[e] EXCEPT !.data = editor[e].fetch, !.fetch = Nothing, !.buffer = buffer,
                                      !.preview = preview]
             /\ Change(e, t)
      BY <2>5 DEF Arrives, Edit
    <3>2. IsCopy(buffer) /\ DOMAIN buffer = {"uid", "rv", "log", "typed"}
      BY <2>1, <3>1, TextIsCopy DEF EditorOK
    <3>3. IsCopy(Nothing)
      BY DEF IsCopy, Nothing
    <3>4. EditorOK(t)
      BY <2>1, <3>1, <3>2, <3>3 DEF EditorOK
    <3>5. QED
      BY <2>5, <3>1, <3>4, EditorChanges DEF Arrives
  <2>6. CASE Type(e)
    <3>1. PICK t : t = [editor[e] EXCEPT !.buffer.typed = TRUE] /\ Change(e, t)
      BY <2>6 DEF Type, Edit
    <3>2. EditorOK(t)
      BY <2>1, <3>1 DEF EditorOK, IsCopy
    <3>3. QED
      BY <2>6, <3>1, <3>2, EditorChanges DEF Type
  <2>7. CASE Send(e, "save") \/ Send(e, "preview")
    <3>1. PICK kind, t :
             /\ t = [editor[e] EXCEPT !.call = [kind |-> kind, buffer |-> editor[e].buffer, watched |-> TRUE]]
             /\ Change(e, t)
      BY <2>7 DEF Send, Edit
    <3>2. EditorOK(t)
      BY <2>1, <3>1 DEF EditorOK
    <3>3. QED
      BY <2>7, <3>1, <3>2, EditorChanges DEF Send
  <2>8. CASE Reopen(e)
    <3>1. PICK t : /\ t = [editor[e] EXCEPT !.buffer = Text(editor[e].data), !.preview = FALSE,
                                            !.call.watched = FALSE]
                   /\ Change(e, t)
      BY <2>8 DEF Reopen, Edit
    <3>2. EditorOK(t)
      BY <2>1, <3>1, TextIsCopy DEF EditorOK
    <3>3. QED
      BY <2>8, <3>1, <3>2, EditorChanges DEF Reopen
  <2>9. CASE PreviewAnswered(e)
    BY <2>9, DoneIsOK DEF PreviewAnswered, YamlInv
  <2>10. CASE SaveAnswered(e)
    <3>1. PICK b : b = editor[e].call.buffer /\ IsCopy(b)
      BY <2>1 DEF EditorOK
    <3>2. DOMAIN editor' = Editors /\ \A d \in Editors : EditorOK(editor'[d])
      BY <2>10, DoneIsOK DEF SaveAnswered
    <3>3. CASE Accepts(b) /\ object' = Rewritten(b)
      <4>1. b.log = object.log
        BY <1>1, <3>1, <3>3 DEF Accepts, IsCopy
      <4>2. CASE b.typed
        <5>1. /\ object'.uid = object.uid /\ object'.rv = object.rv + 1
              /\ object'.log = object.log \cup {object.rv + 1} /\ DOMAIN object' = {"uid", "rv", "log"}
          BY <1>1, <3>3, <4>1, <4>2 DEF Rewritten
        <5>2. QED
          BY <1>1, <3>2, <5>1 DEF YamlInv, IsCopy
      <4>3. CASE ~b.typed
        <5>1. /\ object'.uid = object.uid /\ object'.rv = object.rv
              /\ object'.log = object.log /\ DOMAIN object' = {"uid", "rv", "log"}
          BY <1>1, <3>3, <4>1, <4>3 DEF Rewritten
        <5>2. QED
          BY <1>1, <3>2, <5>1 DEF YamlInv, IsCopy
      <4>4. QED
        BY <4>2, <4>3
    <3>4. CASE UNCHANGED object
      BY <3>2, <3>4 DEF YamlInv
    <3>5. QED
      BY <2>10, <3>1, <3>3, <3>4 DEF SaveAnswered, Edit
  <2>11. QED
    BY <1>4, <2>2, <2>4, <2>5, <2>6, <2>7, <2>8, <2>9, <2>10, <2>3
<1>5. CASE UNCHANGED yamlVars
  BY <1>5 DEF yamlVars, YamlInv
<1>6. QED
  BY <1>2, <1>3, <1>4, <1>5 DEF YamlNext

(* A save never undoes a write of another client that the editor had not      *)
(* seen, whichever of the pane and the tab are open, for any number of writes. *)
THEOREM SavesLoseNothing == YamlSpec => []NoLostUpdate
<1>1. YamlInit => YamlInv
  <2> SUFFICES ASSUME YamlInit PROVE YamlInv
    OBVIOUS
  <2>1. IsCopy(object) /\ object.uid = 1 /\ object.rv = 1 /\ DOMAIN object = {"uid", "rv", "log"}
    BY DEF YamlInit, IsCopy
  <2>2. DOMAIN editor = Editors /\ \A e \in Editors : EditorOK(editor[e])
    BY DEF YamlInit, EditorOK, IsCopy, Nothing, NoCall, NoBuffer
  <2>3. QED
    BY <2>1, <2>2 DEF YamlInv
<1>2. YamlInv => NoLostUpdate
  BY DEF YamlInv, IsCopy, NoLostUpdate
<1>3. QED
  BY <1>1, <1>2, YamlStepInvariance, PTL DEF YamlSpec

-----------------------------------------------------------------------------
(* The active cluster.  Inside a shell the active cluster is the shell's, or   *)
(* none, after the shell's cluster was removed and has lost its tabs.          *)

Placed(u) ==
  /\ DOMAIN u = {"path", "active", "tabs"}
  /\ u.active # Nowhere => u.active \in u.tabs
  /\ u.path # Nowhere => u.active = u.path \/ (u.active = Nowhere /\ u.path \notin u.tabs)
WellPlaced(u, live) == Placed(u) /\ (u.path # Nowhere => u.path \in live)
LifeInv == WellPlaced(ui, LiveIn(cached))

LEMMA ShellSettled ==
  ASSUME NEW u, NEW live, NEW c \in live, DOMAIN u = {"path", "active", "tabs"}
  PROVE  WellPlaced(Shell(u, c), live) /\ WellPlaced(SweptUi(Shell(u, c), live), live)
<1>1. PICK t : t = Shell(u, c)
  OBVIOUS
<1>2. DOMAIN t = {"path", "active", "tabs"} /\ t.path = c /\ t.active = c /\ c \in t.tabs
  BY <1>1 DEF Shell
<1>3. SweptUi(t, live) = t \/ SweptUi(t, live) = [t EXCEPT !.tabs = t.tabs \cap live, !.active = t.active]
  BY <1>2 DEF SweptUi
<1>4. WellPlaced(t, live) /\ WellPlaced(SweptUi(t, live), live)
  BY <1>2, <1>3 DEF WellPlaced, Placed
<1>5. QED
  BY <1>1, <1>4

LEMMA SweptPlaced ==
  ASSUME NEW u, NEW live, Placed(u), u.path = Nowhere \/ u.path \in live
  PROVE  WellPlaced(SweptUi(u, live), live)
<1>1. CASE SweptUi(u, live) = u
  BY <1>1 DEF WellPlaced
<1>2. CASE SweptUi(u, live) # u
  <2>1. PICK t, a : /\ a = (IF u.active \in live THEN u.active ELSE Nowhere)
                    /\ t = [u EXCEPT !.tabs = u.tabs \cap live, !.active = a]
    OBVIOUS
  <2>2. SweptUi(u, live) = t
    BY <1>2, <2>1 DEF SweptUi
  <2>3. t.path = u.path /\ t.active = a /\ t.tabs = u.tabs \cap live /\ DOMAIN t = {"path", "active", "tabs"}
    BY <2>1 DEF Placed
  <2>4. WellPlaced(t, live)
    BY <2>1, <2>3 DEF WellPlaced, Placed
  <2>5. QED
    BY <2>2, <2>4
<1>3. QED
  BY <1>1, <1>2

LEMMA RedirectSettled ==
  ASSUME NEW u, NEW live, WellPlaced(u, live)
  PROVE  WellPlaced(RootRedirect(u, live), live)
BY ShellSettled DEF RootRedirect, WellPlaced, Placed

\* The path may be of a cluster that is gone: the sweep leaves a page whose
\* active cluster, if any, is live, and the blocked route leaves the shell.
LEMMA SettleSettled ==
  ASSUME NEW u, NEW live, Placed(u)
  PROVE  WellPlaced(Settle(u, live), live)
<1>1. PICK t : t = SweptUi(u, live)
  OBVIOUS
<1>2. Placed([t EXCEPT !.path = Nowhere]) /\ (t.path \in live => Placed(t)) /\ DOMAIN t = {"path", "active", "tabs"}
  <2>1. CASE t = u
    BY <2>1 DEF Placed
  <2>2. CASE t # u
    <3>1. PICK a : /\ a = (IF u.active \in live THEN u.active ELSE Nowhere)
                   /\ t = [u EXCEPT !.tabs = u.tabs \cap live, !.active = a]
      BY <1>1, <2>2 DEF SweptUi
    <3>2. t.path = u.path /\ t.active = a /\ t.tabs = u.tabs \cap live /\ DOMAIN t = {"path", "active", "tabs"}
      BY <3>1 DEF Placed
    <3>3. a # Nowhere => a \in t.tabs
      BY <3>1, <3>2 DEF Placed
    <3>4. Placed([t EXCEPT !.path = Nowhere])
      BY <3>2, <3>3 DEF Placed
    <3>5. t.path \in live => Placed(t)
      BY <3>1, <3>2, <3>3 DEF Placed
    <3>6. QED
      BY <3>2, <3>4, <3>5
  <2>3. QED
    BY <2>1, <2>2
<1>3. WellPlaced(Blocked(t, live), live)
  BY <1>2 DEF Blocked, WellPlaced, Placed
<1>4. QED
  BY <1>1, <1>3, RedirectSettled DEF Settle

LEMMA VisitSettled ==
  ASSUME NEW u, NEW live, NEW c,
         DOMAIN u = {"path", "active", "tabs"},
         u.active \in {ui.active, c}, u.active \in {Nowhere, c} \cup u.tabs \cup live
  PROVE  WellPlaced(Visit(u, c, live), live)
<1>1. CASE c \in live
  BY <1>1, ShellSettled DEF Visit
<1>2. CASE c \notin live
  <2>1. PICK t : t = [u EXCEPT !.tabs = u.tabs \cup {c}]
    OBVIOUS
  <2>2. /\ DOMAIN t = {"path", "active", "tabs"} /\ t.active = u.active
        /\ t.tabs = u.tabs \cup {c} /\ ~(t.tabs \subseteq live)
    BY <1>2, <2>1
  <2>3. PICK s : s = [(IF u.active = ui.active THEN t ELSE SweptUi(t, live)) EXCEPT !.path = Nowhere]
    OBVIOUS
  <2>4. Visit(u, c, live) = RootRedirect(s, live)
    BY <1>2, <2>1, <2>3 DEF Visit
  <2>5. CASE u.active = ui.active
    <3>1. s.path = Nowhere /\ s.active = u.active /\ s.tabs = t.tabs /\ DOMAIN s = {"path", "active", "tabs"}
      BY <2>2, <2>3, <2>5
    <3>2. CASE s.active \in live
      BY <2>4, <3>1, <3>2, ShellSettled DEF RootRedirect
    <3>3. CASE s.active \notin live
      <4>1. WellPlaced(s, live)
        BY <1>2, <2>2, <3>1, <3>3 DEF WellPlaced, Placed
      <4>2. QED
        BY <2>4, <4>1, RedirectSettled
    <3>4. QED
      BY <3>2, <3>3
  <2>6. CASE u.active # ui.active
    <3>1. u.active = c
      BY <1>2, <2>6
    <3>2. SweptUi(t, live) = [t EXCEPT !.tabs = t.tabs \cap live, !.active = Nowhere]
      BY <1>2, <2>2, <3>1 DEF SweptUi
    <3>3. s = [[t EXCEPT !.tabs = t.tabs \cap live, !.active = Nowhere] EXCEPT !.path = Nowhere]
      BY <2>3, <2>6, <3>2
    <3>4. s.path = Nowhere /\ s.active = Nowhere /\ DOMAIN s = {"path", "active", "tabs"}
      BY <2>2, <3>3
    <3>5. WellPlaced(s, live)
      BY <3>4 DEF WellPlaced, Placed
    <3>6. QED
      BY <2>4, <3>5, RedirectSettled
  <2>7. QED
    BY <2>5, <2>6
<1>3. QED
  BY <1>1, <1>2

LEMMA ForgottenSettled ==
  ASSUME NEW u, NEW live, NEW c, WellPlaced(u, live)
  PROVE  WellPlaced(Forgotten(u, c), live)
<1>1. PICK t, a : /\ a = (IF u.active = c THEN Nowhere ELSE u.active)
                  /\ t = [u EXCEPT !.tabs = u.tabs \ {c}, !.active = a]
  OBVIOUS
<1>2. Forgotten(u, c) = t
  BY <1>1 DEF Forgotten
<1>3. t.path = u.path /\ t.active = a /\ t.tabs = u.tabs \ {c} /\ DOMAIN t = {"path", "active", "tabs"}
  BY <1>1 DEF WellPlaced, Placed
<1>4. WellPlaced(t, live)
  BY <1>1, <1>3 DEF WellPlaced, Placed
<1>5. QED
  BY <1>2, <1>4

LEMMA LifeStepInvariance == LifeInv /\ [LifeNext]_lifeVars => LifeInv'
<1> SUFFICES ASSUME LifeInv, [LifeNext]_lifeVars PROVE LifeInv'
  OBVIOUS
<1> DEFINE live == LiveIn(cached)
<1>1. /\ DOMAIN ui = {"path", "active", "tabs"} /\ Placed(ui) /\ WellPlaced(ui, live)
      /\ ui.active # Nowhere => ui.active \in ui.tabs
  BY DEF LifeInv, WellPlaced, Placed
<1>2. UNCHANGED cached => LiveIn(cached)' = live
  BY DEF LiveIn
<1>3. UNCHANGED <<ui, cached>> => LifeInv'
  BY <1>1, <1>2 DEF LifeInv
<1>4. ASSUME UNCHANGED cached, WellPlaced(ui', live) PROVE LifeInv'
  BY <1>2, <1>4 DEF LifeInv
<1>5. ASSUME NEW c \in LifeClusters, EnterCluster(c) PROVE LifeInv'
  <2>1. WellPlaced(Visit(ui, c, live), live)
    BY <1>1, VisitSettled
  <2>2. QED
    BY <1>4, <1>5, <2>1 DEF EnterCluster
<1>6. ASSUME NEW c \in LifeClusters, CloseTabsOf(c) PROVE LifeInv'
  <2>1. PICK next : next = [ui EXCEPT !.tabs = ui.tabs \ {c}]
    OBVIOUS
  <2>2. /\ next.path = ui.path /\ next.active = ui.active /\ next.tabs = ui.tabs \ {c}
        /\ DOMAIN next = {"path", "active", "tabs"}
    BY <1>1, <2>1
  <2>3. UNCHANGED cached /\ c \in ui.tabs /\ ui.path # Nowhere
    BY <1>6 DEF CloseTabsOf
  <2>4. CASE c # ui.path /\ ui' = next
    <3>1. WellPlaced(next, live)
      BY <1>1, <2>2, <2>3, <2>4 DEF WellPlaced, Placed
    <3>2. QED
      BY <1>4, <2>3, <2>4, <3>1
  <2>5. CASE ui' = [next EXCEPT !.path = Nowhere, !.active = Nowhere]
    <3>1. ui'.path = Nowhere /\ ui'.active = Nowhere /\ DOMAIN ui' = {"path", "active", "tabs"}
      BY <2>2, <2>5
    <3>2. QED
      BY <1>4, <2>3, <3>1 DEF WellPlaced, Placed
  <2>6. ASSUME NEW d \in next.tabs, c = ui.path, ui' = Visit(next, d, live) PROVE LifeInv'
    <3>1. next.active = c /\ c \in live
      BY <1>1, <2>2, <2>3, <2>6 DEF WellPlaced, Placed
    <3>2. WellPlaced(Visit(next, d, live), live)
      BY <2>2, <3>1, VisitSettled
    <3>3. QED
      BY <1>4, <2>3, <2>6, <3>2
  <2>7. QED
    BY <1>6, <2>1, <2>4, <2>5, <2>6 DEF CloseTabsOf
<1>7. ASSUME NEW c \in LifeClusters, Disconnect(c) PROVE LifeInv'
  <2>1. PICK u : u = [ui EXCEPT !.tabs = ui.tabs \ {c}]
    OBVIOUS
  <2>2. /\ u.path = ui.path /\ u.active = ui.active /\ u.tabs = ui.tabs \ {c}
        /\ DOMAIN u = {"path", "active", "tabs"}
    BY <1>1, <2>1
  <2>3. CASE ui.active = c
    <3>1. PICK t : t = [u EXCEPT !.active = Nowhere, !.path = Nowhere]
      OBVIOUS
    <3>2. t.path = Nowhere /\ t.active = Nowhere /\ DOMAIN t = {"path", "active", "tabs"}
      BY <2>2, <3>1
    <3>3. WellPlaced(SweptUi(t, live), live)
      BY <3>2, SweptPlaced DEF Placed
    <3>4. QED
      BY <1>4, <1>7, <2>1, <2>3, <3>1, <3>3 DEF Disconnect
  <2>4. CASE ui.active # c
    <3>1. WellPlaced(u, live)
      BY <1>1, <2>2, <2>4 DEF WellPlaced, Placed
    <3>2. QED
      BY <1>4, <1>7, <2>1, <2>4, <3>1 DEF Disconnect
  <2>5. QED
    BY <2>3, <2>4
<1>8. ASSUME NEW r \in calls, Deliver(r) PROVE LifeInv'
  <2>1. UNCHANGED cached /\ ui' = Rest(r)
    BY <1>8 DEF Deliver
  <2>2. PICK f : f = Forgotten(ui, r.c) /\ WellPlaced(f, live)
    BY <1>1, ForgottenSettled
  <2>3. f.path = Nowhere \/ f.path \in live
    BY <2>2 DEF WellPlaced
  <2>4. WellPlaced(SweptUi(f, live), live)
    BY <2>2, <2>3, SweptPlaced DEF WellPlaced
  <2>5. WellPlaced(Settle([f EXCEPT !.path = Nowhere], live), live)
    <3>1. Placed([f EXCEPT !.path = Nowhere])
      BY <2>2 DEF WellPlaced, Placed
    <3>2. QED
      BY <3>1, SettleSettled
  <2>6. Rest(r) \in {ui, f, SweptUi(f, live), Settle([f EXCEPT !.path = Nowhere], live)}
    BY <2>2 DEF Rest, Gone
  <2>7. QED
    BY <1>1, <1>4, <2>1, <2>2, <2>4, <2>5, <2>6
<1>9. ASSUME NEW r \in calls, ListArrives(r) PROVE LifeInv'
  <2>1. ui' = Settle(ui, LiveIn(cached'))
    BY <1>9 DEF ListArrives
  <2>2. PICK l : l = LiveIn(cached')
    OBVIOUS
  <2>3. LiveIn(cached)' = l
    BY <2>2 DEF LiveIn
  <2>4. WellPlaced(Settle(ui, l), l)
    BY <1>1, SettleSettled
  <2>5. QED
    BY <2>1, <2>2, <2>3, <2>4 DEF LifeInv
<1>10. ASSUME NEW t \in then, Continue(t) PROVE LifeInv'
  <2>1. PICK u : u = [ui EXCEPT !.active = t.c]
    OBVIOUS
  <2>2. u.active = t.c /\ DOMAIN u = {"path", "active", "tabs"}
    BY <1>1, <2>1
  <2>3. WellPlaced(Visit(u, t.c, live), live)
    BY <2>2, VisitSettled
  <2>4. WellPlaced(Settle([ui EXCEPT !.path = Nowhere], live), live)
    <3>1. Placed([ui EXCEPT !.path = Nowhere])
      BY <1>1 DEF Placed
    <3>2. QED
      BY <3>1, SettleSettled
  <2>5. ui' \in {Visit(u, t.c, live), Settle([ui EXCEPT !.path = Nowhere], live)}
    BY <1>10, <2>1 DEF Continue
  <2>6. UNCHANGED cached
    BY <1>10 DEF Continue
  <2>7. QED
    BY <1>4, <2>3, <2>4, <2>5, <2>6
<1>11. CASE \/ \E c \in LifeClusters :
                 \/ Unregister(c) \/ Get(c) \/ BreakerResets(c)
                 \/ \E enter \in BOOLEAN : Connect(c, enter)
                 \/ \E state \in {"live", "paused", "gone"} : OthersChange(c, state)
            \/ \E r \in calls : Serve(r) \/ Fails(r)
            \/ PollList \/ UNCHANGED lifeVars
  BY <1>3, <1>11 DEF Unregister, Get, BreakerResets, Connect, OthersChange, Serve, Fails, PollList, lifeVars
<1>12. QED
  BY <1>5, <1>6, <1>7, <1>8, <1>9, <1>10, <1>11 DEF LifeNext

(* An active cluster has a tab, for every number of clusters, of requests      *)
(* under way and of other browsers' changes.                                   *)
THEOREM ActiveClusterHasTab == LifeSpec => []ActiveHasTab
<1>1. LifeInit => LifeInv
  <2>1. LifeInit => /\ ui.path = Nowhere /\ ui.active = Nowhere
                    /\ DOMAIN ui = {"path", "active", "tabs"}
    BY DEF LifeInit
  <2>2. QED
    BY <2>1 DEF LifeInv, WellPlaced, Placed
<1>2. LifeInv => ActiveHasTab
  BY DEF LifeInv, WellPlaced, Placed, ActiveHasTab
<1>3. QED
  BY <1>1, <1>2, LifeStepInvariance, PTL DEF LifeSpec

-----------------------------------------------------------------------------
(* The photo of a cluster: every other change of a window's copy leaves it.    *)

SettingsFields == {"set", "label", "image", "kind"}
SettingsInv ==
  /\ DOMAIN settings = Windows /\ \A w \in Windows : DOMAIN settings[w] = SettingsFields
  /\ DOMAIN storage = SettingsFields
PhotoLeaves(w) == RemovePhoto(w) \/ ResetIcon(w) \/ ForgetSettings(w) \/ ReloadStore(w)
PhotoKept == \A w \in Windows : settings[w].image => settings'[w].image \/ PhotoLeaves(w)

LEMMA PuttingOne ==
  ASSUME SettingsInv, NEW w \in Windows, NEW s, Put(w, s), DOMAIN s = SettingsFields,
         settings[w].image => s.image \/ PhotoLeaves(w)
  PROVE  SettingsInv' /\ PhotoKept
BY DEF SettingsInv, Put, PhotoKept

LEMMA SettingsStep ==
  ASSUME SettingsInv, SettingsNext
  PROVE  SettingsInv' /\ PhotoKept
<1>1. PICK w \in Windows :
         \/ \E f \in Edited : ChangeField(w, f)
         \/ \E ok \in BOOLEAN : PhotoScaled(w, ok)
         \/ ChoosePreset(w) \/ TypeLabel(w) \/ ShowPhoto(w) \/ RemovePhoto(w) \/ ResetIcon(w) \/ ChoosePhoto(w)
         \/ ChangeOther(w) \/ ForgetSettings(w) \/ ReloadStore(w)
  BY DEF SettingsNext
<1>2. DOMAIN settings[w] = SettingsFields
  BY DEF SettingsInv
<1>3. CASE (\E f \in Edited : ChangeField(w, f)) \/ ChoosePreset(w)
  <2>1. PICK set : Put(w, [settings[w] EXCEPT !.set = set])
    BY <1>3 DEF ChangeField, ChoosePreset, Patch
  <2>2. PICK s : s = [settings[w] EXCEPT !.set = set]
    OBVIOUS
  <2>3. DOMAIN s = SettingsFields /\ s.image = settings[w].image
    BY <1>2, <2>2 DEF SettingsFields
  <2>4. QED
    BY <2>1, <2>2, <2>3, PuttingOne
<1>4. CASE TypeLabel(w)
  <2>1. PICK on : Put(w, [settings[w] EXCEPT !.label = on, !.kind = "label"])
    BY <1>4 DEF TypeLabel, Patch
  <2>2. PICK s : s = [settings[w] EXCEPT !.label = on, !.kind = "label"]
    OBVIOUS
  <2>3. DOMAIN s = SettingsFields /\ s.image = settings[w].image
    BY <1>2, <2>2 DEF SettingsFields
  <2>4. QED
    BY <2>1, <2>2, <2>3, PuttingOne
<1>5. CASE ShowPhoto(w)
  <2>1. PICK s : s = [settings[w] EXCEPT !.kind = "image"]
    OBVIOUS
  <2>2. DOMAIN s = SettingsFields /\ s.image = settings[w].image
    BY <1>2, <2>1 DEF SettingsFields
  <2>3. QED
    BY <1>5, <2>1, <2>2, PuttingOne DEF ShowPhoto, Patch
<1>6. CASE RemovePhoto(w) \/ ResetIcon(w) \/ ForgetSettings(w)
  <2>1. PhotoLeaves(w)
    BY <1>6 DEF PhotoLeaves
  <2>2. PICK s : DOMAIN s = SettingsFields /\ Put(w, s)
    <3>1. CASE RemovePhoto(w)
      <4>1. PICK s : s = [settings[w] EXCEPT !.image = FALSE, !.kind = "label"]
        OBVIOUS
      <4>2. QED
        BY <1>2, <3>1, <4>1 DEF RemovePhoto, Patch
    <3>2. CASE ResetIcon(w)
      <4>1. PICK s : s = [settings[w] EXCEPT !.label = FALSE, !.image = FALSE, !.kind = "label"]
        OBVIOUS
      <4>2. QED
        BY <1>2, <3>2, <4>1 DEF ResetIcon, Patch
    <3>3. CASE ForgetSettings(w)
      BY <3>3 DEF ForgetSettings, Defaults, SettingsFields
    <3>4. QED
      BY <1>6, <3>1, <3>2, <3>3
  <2>3. QED
    BY <2>1, <2>2, PuttingOne
<1>7. CASE ChoosePhoto(w)
  BY <1>7 DEF ChoosePhoto, SettingsInv, PhotoKept
<1>8. CASE \E ok \in BOOLEAN : PhotoScaled(w, ok)
  <2>1. CASE UNCHANGED <<settings, storage>>
    BY <2>1 DEF SettingsInv, PhotoKept
  <2>2. CASE Put(w, [settings[w] EXCEPT !.image = TRUE, !.kind = "image"])
    <3>1. PICK s : s = [settings[w] EXCEPT !.image = TRUE, !.kind = "image"]
      OBVIOUS
    <3>2. DOMAIN s = SettingsFields /\ s.image
      BY <1>2, <3>1 DEF SettingsFields
    <3>3. QED
      BY <2>2, <3>1, <3>2, PuttingOne
  <2>3. QED
    BY <1>8, <2>1, <2>2 DEF PhotoScaled
<1>9. CASE ChangeOther(w)
  BY <1>2, <1>9, PuttingOne DEF ChangeOther
<1>10. CASE ReloadStore(w)
  BY <1>10 DEF ReloadStore, SettingsInv, PhotoKept, PhotoLeaves
<1>11. QED
  BY <1>1, <1>3, <1>4, <1>5, <1>6, <1>7, <1>8, <1>9, <1>10

(* The photo of a cluster is lost only to the user's own word or to another     *)
(* window's copy, for every number of windows; and while it is there a badge    *)
(* is drawn.                                                                   *)
THEOREM PhotosStay == SettingsSpec => PhotoStays
<1>1. SettingsInit => SettingsInv
  BY DEF SettingsInit, SettingsInv, Defaults, SettingsFields
<1>2. SettingsInv /\ [SettingsNext]_settingsVars => SettingsInv'
  BY SettingsStep DEF settingsVars, SettingsInv
<1>3. SettingsInv /\ [SettingsNext]_settingsVars =>
        [\A w \in Windows : settings[w].image =>
           /\ Icon(settings[w]) # "none"
           /\ settings'[w].image \/ RemovePhoto(w) \/ ResetIcon(w) \/ ForgetSettings(w) \/ ReloadStore(w)]_settingsVars
  BY SettingsStep DEF Icon, PhotoKept, PhotoLeaves
<1>4. QED
  BY <1>1, <1>2, <1>3, PTL DEF SettingsSpec, PhotoStays

-----------------------------------------------------------------------------
(* A rollback.  The numbers of a deployment only grow, since its newest set is *)
(* never collected: what a number stood for in any copy of a set, however old, *)
(* is what it stands for among the sets there are.                             *)

Copies ==
  replicaSets \cup {history, review, confirmed.reviewed, confirmed.found}
OfThis(c) == c.owner = deployment.uid
RollbackTypes ==
  /\ DOMAIN deployment = {"uid", "template", "revision"}
  /\ deployment.uid \in Nat \ {0} /\ deployment.revision \in Nat
  /\ DOMAIN confirmed = {"stage", "reviewed", "got", "found"}
  /\ \A c \in Copies : c.owner \in Nat /\ c.revision \in Nat /\ c.owner <= deployment.uid
NewestStays ==
  \/ deployment.revision = 0 /\ \A c \in Copies : ~OfThis(c)
  \/ \E top \in Owned :
       /\ deployment.revision <= top.revision
       /\ \A c \in Copies : OfThis(c) => c.revision <= top.revision
NumbersAreKept ==
  \A s \in Owned, c \in Copies : OfThis(c) /\ c.revision = s.revision => c.template = s.template
FoundIsReviewed ==
  confirmed.stage = "found" =>
    confirmed.found.template = confirmed.reviewed.template \/ ~OfThis(confirmed.reviewed)
\* What was reviewed is of the deployment that was got, or of one before it.
GotIsBetween ==
  confirmed.stage = "got" =>
    /\ confirmed.got.uid \in Nat /\ confirmed.got.uid <= deployment.uid
    /\ confirmed.reviewed.owner <= confirmed.got.uid
RollbackInv == RollbackTypes /\ NewestStays /\ NumbersAreKept /\ FoundIsReviewed /\ GotIsBetween

LEMMA NewestIsTop ==
  ASSUME RollbackInv
  PROVE  /\ Newest \in Nat /\ deployment.revision <= Newest
         /\ \A c \in Copies : OfThis(c) => c.revision <= Newest
<1>1. CASE Owned = {}
  BY <1>1 DEF RollbackInv, RollbackTypes, NewestStays, Newest
<1>2. ASSUME NEW top \in Owned, deployment.revision <= top.revision,
             \A c \in Copies : OfThis(c) => c.revision <= top.revision
      PROVE  /\ Newest \in Nat /\ deployment.revision <= Newest
             /\ \A c \in Copies : OfThis(c) => c.revision <= Newest
  <2>1. PICK R : R = {s.revision : s \in Owned}
    OBVIOUS
  <2>2. \A s \in Owned : s \in Copies /\ OfThis(s)
    BY DEF Owned, Copies, OfThis
  <2>3. R \subseteq Nat /\ top.revision \in R /\ \A n \in R : n <= top.revision
    BY <1>2, <2>1, <2>2 DEF RollbackInv, RollbackTypes
  <2>4. ASSUME NEW m \in R, \A n \in R : m >= n PROVE m = top.revision
    <3>1. m \in Nat /\ top.revision \in Nat /\ m >= top.revision /\ m <= top.revision
      BY <2>3, <2>4
    <3>2. QED
      BY <3>1
  <2>5. Max(R) = top.revision
    BY <2>3, <2>4 DEF Max
  <2>6. Newest = top.revision
    BY <1>2, <2>1, <2>5 DEF Newest
  <2>7. QED
    BY <1>2, <2>3, <2>6
<1>3. QED
  BY <1>1, <1>2 DEF RollbackInv, NewestStays, Owned, Copies, OfThis

\* Steps of the page and of the request: the copies are of copies.
LEMMA CopyingKeeps ==
  ASSUME RollbackInv, UNCHANGED replicaSets,
         DOMAIN deployment' = {"uid", "template", "revision"},
         deployment'.uid = deployment.uid, deployment'.revision = deployment.revision,
         DOMAIN confirmed' = {"stage", "reviewed", "got", "found"},
         \A c \in Copies' : c \in Copies \/ c = NoReview,
         confirmed'.stage = "found" =>
            confirmed'.found.template = confirmed'.reviewed.template \/ confirmed'.reviewed.owner # deployment.uid,
         confirmed'.stage = "got" =>
            /\ confirmed'.got.uid \in Nat /\ confirmed'.got.uid <= deployment.uid
            /\ confirmed'.reviewed.owner <= confirmed'.got.uid
  PROVE  RollbackInv'
<1>1. Owned' = Owned /\ \A c : OfThis(c)' <=> OfThis(c)
  BY DEF Owned, OfThis
<1>2. NoReview.owner = 0 /\ NoReview.revision = 0
  BY DEF NoReview
<1>3. \A c \in Copies' : c.owner \in Nat /\ c.revision \in Nat /\ c.owner <= deployment.uid
  BY <1>2 DEF RollbackInv, RollbackTypes
<1>4. RollbackTypes'
  BY <1>3 DEF RollbackInv, RollbackTypes
<1>5. ~OfThis(NoReview)
  BY <1>2 DEF RollbackInv, RollbackTypes, OfThis
<1>6. \A c \in Copies' : OfThis(c) => c \in Copies
  BY <1>5
<1>7. NewestStays'
  BY <1>1, <1>6 DEF RollbackInv, NewestStays
<1>8. NumbersAreKept'
  BY <1>1, <1>6 DEF RollbackInv, NumbersAreKept
<1>9. FoundIsReviewed' /\ GotIsBetween'
  BY DEF FoundIsReviewed, GotIsBetween, OfThis
<1>10. QED
  BY <1>4, <1>7, <1>8, <1>9 DEF RollbackInv

LEMMA RollbackStep ==
  ASSUME RollbackInv, RollbackNext
  PROVE  RollbackInv'
<1>1. /\ DOMAIN deployment = {"uid", "template", "revision"}
      /\ deployment.uid \in Nat \ {0} /\ deployment.revision \in Nat
      /\ DOMAIN confirmed = {"stage", "reviewed", "got", "found"}
      /\ FoundIsReviewed /\ GotIsBetween
  BY DEF RollbackInv, RollbackTypes
<1>2. /\ replicaSets \subseteq Copies /\ history \in Copies
      /\ review \in Copies /\ confirmed.reviewed \in Copies /\ confirmed.found \in Copies
  BY DEF Copies
<1>3. CASE ControllerScales
  <2>1. PICK mine, new :
           /\ mine \subseteq Owned
           /\ new = [owner |-> deployment.uid, template |-> deployment.template, revision |-> Newest + 1]
           /\ replicaSets' = (replicaSets \ mine) \cup {new}
           /\ UNCHANGED <<deployment, history, left, review, confirmed>>
    BY <1>3 DEF ControllerScales
  <2>2. new.owner = deployment.uid /\ new.revision = Newest + 1
    BY <2>1
  <2>3. Copies' \subseteq Copies \cup {new}
    BY <2>1 DEF Copies
  <2>4. Owned' \subseteq Owned \cup {new} /\ new \in Owned'
    BY <2>1, <2>2 DEF Owned
  <2>5. \A c : OfThis(c)' <=> OfThis(c)
    BY <2>1 DEF OfThis
  <2>6. RollbackTypes'
    BY <2>1, <2>2, <2>3, NewestIsTop DEF RollbackInv, RollbackTypes
  <2>7. /\ deployment.revision <= new.revision
        /\ \A c \in Copies' : OfThis(c) => c.revision <= new.revision
        /\ \A c \in Copies : OfThis(c) => c.revision # new.revision
    <3>1. \A c \in Copies : c.revision \in Nat
      BY DEF RollbackInv, RollbackTypes
    <3>2. QED
      BY <1>1, <2>2, <2>3, <3>1, NewestIsTop
  <2>8. NewestStays'
    BY <2>1, <2>4, <2>5, <2>7 DEF NewestStays
  <2>9. NumbersAreKept'
    <3>1. ASSUME NEW s \in Owned', NEW c \in Copies', OfThis(c), c.revision = s.revision
          PROVE  c.template = s.template
      <4>1. s \in Owned => s \in Copies /\ OfThis(s)
        BY DEF Owned, Copies, OfThis
      <4>2. s = new <=> c = new
        BY <2>2, <2>3, <2>4, <2>7, <3>1, <4>1
      <4>3. CASE s = new
        BY <4>2, <4>3
      <4>4. CASE s # new
        BY <2>3, <2>4, <3>1, <4>2, <4>4 DEF RollbackInv, NumbersAreKept
      <4>5. QED
        BY <4>3, <4>4
    <3>2. QED
      BY <2>5, <3>1 DEF NumbersAreKept
  <2>10. FoundIsReviewed' /\ GotIsBetween'
    BY <1>1, <2>1 DEF FoundIsReviewed, GotIsBetween, OfThis
  <2>11. QED
    BY <2>6, <2>8, <2>9, <2>10 DEF RollbackInv
<1>4. CASE ControllerAnnotates
  <2>1. PICK s \in Owned : deployment' = [deployment EXCEPT !.revision = s.revision]
    BY <1>4 DEF ControllerAnnotates
  <2>2. /\ deployment'.uid = deployment.uid /\ deployment'.revision = s.revision
        /\ DOMAIN deployment' = {"uid", "template", "revision"}
    BY <1>1, <2>1
  <2>3. UNCHANGED <<replicaSets, history, left, review, confirmed>>
    BY <1>4 DEF ControllerAnnotates
  <2>4. Owned' = Owned /\ Copies' = Copies /\ \A c : OfThis(c)' <=> OfThis(c)
    BY <2>2, <2>3 DEF Owned, Copies, OfThis
  <2>5. s \in Copies /\ OfThis(s)
    BY <2>1 DEF Owned, Copies, OfThis
  <2>6. RollbackTypes' /\ NumbersAreKept' /\ FoundIsReviewed' /\ GotIsBetween'
    BY <2>2, <2>3, <2>4, <2>5 DEF RollbackInv, RollbackTypes, NumbersAreKept, FoundIsReviewed, GotIsBetween
  <2>7. NewestStays'
    BY <2>2, <2>4, <2>5 DEF RollbackInv, NewestStays
  <2>8. QED
    BY <2>6, <2>7 DEF RollbackInv
<1>5. ASSUME NEW gone \in replicaSets, ControllerCollects(gone) PROVE RollbackInv'
  <2>1. /\ replicaSets' = replicaSets \ {gone}
        /\ OfThis(gone) => gone.revision < deployment.revision
        /\ UNCHANGED <<deployment, history, left, review, confirmed>>
    BY <1>5 DEF ControllerCollects, OfThis
  <2>2. /\ Copies' \subseteq Copies /\ Owned' = Owned \ {gone}
        /\ \A c : OfThis(c)' <=> OfThis(c)
    BY <2>1 DEF Copies, Owned, OfThis
  <2>3. RollbackTypes' /\ NumbersAreKept' /\ FoundIsReviewed' /\ GotIsBetween'
    BY <2>1, <2>2 DEF RollbackInv, RollbackTypes, NumbersAreKept, FoundIsReviewed, GotIsBetween
  <2>4. NewestStays'
    <3>1. ASSUME NEW top \in Owned, deployment.revision <= top.revision PROVE top # gone
      <4>1. top \in Copies /\ OfThis(top)
        BY DEF Owned, Copies, OfThis
      <4>2. top.revision \in Nat
        BY <4>1 DEF RollbackInv, RollbackTypes
      <4>3. QED
        BY <1>1, <2>1, <3>1, <4>1, <4>2
    <3>2. QED
      BY <2>1, <2>2, <3>1 DEF RollbackInv, NewestStays
  <2>5. QED
    BY <2>3, <2>4 DEF RollbackInv
<1>6. ASSUME NEW t \in Rolled, RollOut(t) PROVE RollbackInv'
  <2>1. /\ deployment'.uid = deployment.uid /\ deployment'.revision = deployment.revision
        /\ DOMAIN deployment' = {"uid", "template", "revision"}
        /\ UNCHANGED <<replicaSets, history, left, review, confirmed>>
    BY <1>1, <1>6 DEF RollOut
  <2>2. Copies' = Copies
    BY <2>1 DEF Copies
  <2>3. QED
    BY <1>1, <2>1, <2>2, CopyingKeeps DEF FoundIsReviewed, GotIsBetween, OfThis
<1>7. ASSUME NEW t \in Rolled, Recreated(t) PROVE RollbackInv'
  <2>1. /\ deployment'.uid = deployment.uid + 1 /\ deployment'.revision = 0
        /\ DOMAIN deployment' = {"uid", "template", "revision"}
        /\ UNCHANGED <<replicaSets, history, left, review, confirmed>>
    BY <1>7 DEF Recreated
  <2>2. Copies' = Copies
    BY <2>1 DEF Copies
  <2>3. \A c \in Copies : c.owner \in Nat /\ c.owner <= deployment.uid /\ c.revision \in Nat
    BY DEF RollbackInv, RollbackTypes
  <2>4. \A c \in Copies : ~(c.owner = deployment'.uid)
    BY <1>1, <2>1, <2>3
  <2>5. Owned' = {}
    BY <1>2, <2>1, <2>4 DEF Owned
  <2>6. RollbackTypes'
    BY <1>1, <2>1, <2>2, <2>3 DEF RollbackTypes
  <2>7. NewestStays' /\ NumbersAreKept' /\ FoundIsReviewed' /\ GotIsBetween'
    BY <1>1, <1>2, <2>1, <2>2, <2>4, <2>5
       DEF NewestStays, NumbersAreKept, FoundIsReviewed, GotIsBetween, OfThis
  <2>8. QED
    BY <2>6, <2>7 DEF RollbackInv
<1>8. CASE HistoryAnswers \/ PanelRefetches \/ CancelReview \/ RollBackTo
  <2>1. UNCHANGED <<deployment, replicaSets, confirmed>>
    BY <1>8 DEF HistoryAnswers, PanelRefetches, CancelReview, RollBackTo
  <2>2. \A c \in Copies' : c \in Copies \/ c = NoReview
    <3>1. CASE HistoryAnswers
      BY <3>1 DEF HistoryAnswers, Copies, Owned
    <3>2. CASE PanelRefetches \/ CancelReview \/ RollBackTo
      BY <1>2, <3>2 DEF PanelRefetches, CancelReview, RollBackTo, Copies
    <3>3. QED
      BY <1>8, <3>1, <3>2
  <2>3. QED
    BY <1>1, <2>1, <2>2, CopyingKeeps DEF FoundIsReviewed, GotIsBetween, OfThis
<1>9. CASE Confirm
  <2>1. confirmed'.stage = "sent" /\ confirmed'.reviewed = review /\ confirmed'.found = NoReview
        /\ DOMAIN confirmed' = {"stage", "reviewed", "got", "found"}
        /\ UNCHANGED <<deployment, replicaSets, history, left, review>>
    BY <1>9 DEF Confirm, NoRequest
  <2>2. \A c \in Copies' : c \in Copies \/ c = NoReview
    BY <2>1 DEF Copies
  <2>3. QED
    BY <1>1, <2>1, <2>2, CopyingKeeps
<1>15. CASE GetDeployment
  <2>1. /\ confirmed' = [confirmed EXCEPT !.stage = "got",
                            !.got = [uid |-> deployment.uid, revision |-> deployment.revision]]
        /\ UNCHANGED <<deployment, replicaSets, history, left, review>>
    BY <1>15 DEF GetDeployment
  <2>2. /\ confirmed'.stage = "got" /\ confirmed'.got.uid = deployment.uid
        /\ confirmed'.reviewed = confirmed.reviewed /\ confirmed'.found = confirmed.found
        /\ DOMAIN confirmed' = {"stage", "reviewed", "got", "found"}
    BY <1>1, <2>1
  <2>3. Copies' = Copies
    BY <2>1, <2>2 DEF Copies
  <2>4. confirmed.reviewed.owner <= deployment.uid
    BY <1>2 DEF RollbackInv, RollbackTypes
  <2>5. QED
    BY <1>1, <2>1, <2>2, <2>3, <2>4, CopyingKeeps
<1>10. ASSUME confirmed' = NoRequest, UNCHANGED <<replicaSets, history>>, review' \in {review, NoReview},
              deployment'.uid = deployment.uid, deployment'.revision = deployment.revision,
              DOMAIN deployment' = {"uid", "template", "revision"}
       PROVE  RollbackInv'
  <2>1. confirmed'.stage = "none" /\ confirmed'.reviewed = NoReview /\ confirmed'.found = NoReview
        /\ DOMAIN confirmed' = {"stage", "reviewed", "got", "found"}
    BY <1>10 DEF NoRequest
  <2>2. \A c \in Copies' : c \in Copies \/ c = NoReview
    BY <1>10, <2>1 DEF Copies
  <2>3. QED
    BY <1>10, <2>1, <2>2, CopyingKeeps
<1>11. CASE FindRevision
  <2>1. UNCHANGED <<deployment, replicaSets, history, left, review>>
    BY <1>11 DEF FindRevision
  <2>2. ASSUME NEW s \in replicaSets, s.owner = confirmed.got.uid,
               s.revision = confirmed.reviewed.revision,
               confirmed' = [confirmed EXCEPT !.stage = "found", !.found = s]
        PROVE  RollbackInv'
    <3>1. confirmed'.stage = "found" /\ confirmed'.reviewed = confirmed.reviewed /\ confirmed'.found = s
          /\ DOMAIN confirmed' = {"stage", "reviewed", "got", "found"}
      BY <1>1, <2>2
    <3>2. \A c \in Copies' : c \in Copies \/ c = NoReview
      BY <2>1, <3>1 DEF Copies, Owned
    <3>3. ASSUME confirmed.reviewed.owner = deployment.uid PROVE s.template = confirmed.reviewed.template
      <4>1. confirmed.stage = "got"
        BY <1>11 DEF FindRevision
      <4>2. s.owner = deployment.uid
        BY <1>1, <2>2, <3>3, <4>1 DEF GotIsBetween
      <4>3. s \in Owned
        BY <2>2, <4>2 DEF Owned
      <4>4. QED
        BY <1>2, <2>2, <3>3, <4>3 DEF RollbackInv, NumbersAreKept, OfThis
    <3>4. QED
      BY <1>1, <2>1, <3>1, <3>2, <3>3, CopyingKeeps
  <2>3. QED
    BY <1>1, <1>10, <1>11, <2>1, <2>2 DEF FindRevision
<1>12. CASE PatchTemplate
  <2>1. /\ deployment'.uid = deployment.uid /\ deployment'.revision = deployment.revision
        /\ DOMAIN deployment' = {"uid", "template", "revision"}
    BY <1>1, <1>12 DEF PatchTemplate
  <2>2. QED
    BY <1>10, <1>12, <2>1 DEF PatchTemplate
<1>13. CASE RollbackFails
  BY <1>1, <1>10, <1>13 DEF RollbackFails
<1>14. QED
  BY <1>3, <1>4, <1>5, <1>6, <1>7, <1>8, <1>9, <1>11, <1>12, <1>13, <1>15 DEF RollbackNext

(* Whatever the reviewed template sets is set to that and nothing else changes, *)
(* unless the deployment was replaced, for every set of templates, whatever     *)
(* they set, and every number of revisions and of deployments of the name.      *)
THEOREM ReviewedIsApplied == RollbackSpec => AppliesTheReviewed
<1>1. RollbackInit => RollbackInv
  <2> SUFFICES ASSUME RollbackInit PROVE RollbackInv
    OBVIOUS
  <2>1. /\ deployment.uid = 1 /\ deployment.revision = 0 /\ DOMAIN deployment = {"uid", "template", "revision"}
        /\ confirmed.stage = "none" /\ DOMAIN confirmed = {"stage", "reviewed", "got", "found"}
        /\ Owned = {} /\ Copies = {NoReview} /\ NoReview.owner = 0 /\ NoReview.revision = 0
    BY DEF RollbackInit, NoRequest, NoReview, Owned, Copies
  <2>2. QED
    BY <2>1 DEF RollbackInv, RollbackTypes, NewestStays, NumbersAreKept, FoundIsReviewed, GotIsBetween, OfThis
<1>2. RollbackInv /\ [RollbackNext]_rollbackVars => RollbackInv'
  <2>1. RollbackInv /\ UNCHANGED rollbackVars => RollbackInv'
    BY DEF rollbackVars, RollbackInv, RollbackTypes, NewestStays, NumbersAreKept, FoundIsReviewed,
           GotIsBetween, Copies, OfThis, Owned
  <2>2. QED
    BY <2>1, RollbackStep
<1>3. RollbackInv /\ [RollbackNext]_rollbackVars => [PatchTemplate => ReviewedIsSet]_rollbackVars
  <2>1. ASSUME RollbackInv, PatchTemplate, confirmed.reviewed.owner = deployment.uid
        PROVE  \A k \in TemplateKeys :
                 deployment'.template[k] = IF confirmed.reviewed.template[k] # Absent
                                           THEN confirmed.reviewed.template[k] ELSE deployment.template[k]
    <3>1. /\ confirmed.found.template = confirmed.reviewed.template
          /\ DOMAIN deployment = {"uid", "template", "revision"}
      BY <2>1 DEF PatchTemplate, RollbackInv, RollbackTypes, FoundIsReviewed, OfThis
    <3>2. deployment'.template = Merged(deployment.template, confirmed.reviewed.template)
      BY <2>1, <3>1 DEF PatchTemplate
    <3>3. QED
      BY <3>2 DEF Merged
  <2>2. QED
    BY <2>1 DEF ReviewedIsSet
<1>4. QED
  BY <1>1, <1>2, <1>3, PTL DEF RollbackSpec, AppliesTheReviewed

-----------------------------------------------------------------------------
(* The import dialog: the checks are always among the contexts on display,     *)
(* which is what makes the comparison of two counts a comparison of sets.      *)

ChecksShown == checks \subseteq Parsed(text)

LEMMA EmptyFormShown == EmptyForm => ChecksShown'
BY DEF EmptyForm, ChecksShown

LEMMA NewTextShown ==
  ASSUME ChecksShown, NEW t, NewText(t)
  PROVE  ChecksShown'
BY DEF ChecksShown, NewText, Parsed

LEMMA ChecksStep == ChecksShown /\ [StartNext]_startVars => ChecksShown'
<1> SUFFICES ASSUME ChecksShown, [StartNext]_startVars PROVE ChecksShown'
  OBVIOUS
<1>1. UNCHANGED <<text, checks>> => ChecksShown'
  BY DEF ChecksShown, Parsed
<1>2. CASE ListAnswers
  BY <1>1, <1>2, EmptyFormShown DEF ListAnswers, formVars
<1>3. CASE OpenDialog \/ CloseDialog
  BY <1>3, EmptyFormShown DEF OpenDialog, CloseDialog
<1>4. CASE FileRead \/ \E t \in Texts : TypeText(t)
  BY <1>4, NewTextShown DEF FileRead, TypeText
<1>5. CASE TogglePicks \/ \E c \in Contexts : TogglePick(c)
  BY <1>5 DEF TogglePicks, TogglePick, ChecksShown, Parsed
<1>6. CASE Scan \/ Scanned \/ Submit \/ ImportByPath
  BY <1>1, <1>6 DEF Scan, Scanned, Submit, ImportByPath, formVars
<1>7. CASE \/ \E c \in Contexts : OthersImport(c)
           \/ \E t \in Texts : ChooseFile(t)
           \/ \E t \in SUBSET Contexts : FileChanges(t)
  BY <1>1, <1>7 DEF OthersImport, ChooseFile, FileChanges, formVars
<1>8. CASE \E ok \in BOOLEAN : Imported(ok)
  BY <1>1, <1>8, EmptyFormShown DEF Imported, formVars
<1>9. CASE UNCHANGED startVars
  BY <1>1, <1>9 DEF startVars, formVars
<1>10. QED
  BY <1>2, <1>3, <1>4, <1>5, <1>6, <1>7, <1>8, <1>9 DEF StartNext

LEMMA PayloadIsChecked ==
  ASSUME ChecksShown, Parsed(text) # {}
  PROVE  Payload \subseteq checks /\ checks \ Payload \subseteq BareNumbers
<1>1. IsFiniteSet(Parsed(text))
  BY ImportAssumption, FS_Subset DEF Parsed
<1>2. CASE Cardinality(checks) = Cardinality(Parsed(text))
  <2>1. checks = Parsed(text)
    BY <1>1, <1>2, FS_Subset DEF ChecksShown
  <2>2. Payload = Parsed(text)
    BY <1>2 DEF Payload
  <2>3. QED
    BY <2>1, <2>2
<1>3. CASE Cardinality(checks) # Cardinality(Parsed(text))
  <2>1. Payload = (Parsed(text) \cap checks) \ BareNumbers
    BY <1>3 DEF Payload
  <2>2. QED
    BY <2>1 DEF ChecksShown
<1>4. QED
  BY <1>2, <1>3

\* Nothing but Submit begins the import of a text.
LEMMA SubmitSends ==
  ASSUME [StartNext]_startVars, request = Idle, request'.by = "text"
  PROVE  request'.names = Payload
<1>1. Idle.by # "text"
  BY DEF Idle
<1>2. request' # request
  BY <1>1
<1>3. CASE Submit
  BY <1>3 DEF Submit
<1>4. CASE ImportByPath
  BY <1>4 DEF ImportByPath
<1>5. CASE ListAnswers \/ OpenDialog \/ CloseDialog \/ FileRead \/ TogglePicks \/ Scan \/ Scanned
  BY <1>2, <1>5 DEF ListAnswers, OpenDialog, CloseDialog, FileRead, TogglePicks, Scan, Scanned
<1>6. CASE \/ \E c \in Contexts : OthersImport(c) \/ TogglePick(c)
           \/ \E t \in Texts : TypeText(t) \/ ChooseFile(t)
           \/ \E t \in SUBSET Contexts : FileChanges(t)
  BY <1>2, <1>6 DEF OthersImport, TogglePick, TypeText, ChooseFile, FileChanges
<1>7. CASE \E ok \in BOOLEAN : Imported(ok)
  BY <1>1, <1>7 DEF Imported
<1>8. CASE UNCHANGED startVars
  BY <1>2, <1>8 DEF startVars
<1>9. QED
  BY <1>3, <1>4, <1>5, <1>6, <1>7, <1>8 DEF StartNext

(* What is sent is what is checked, but for contexts whose names are bare       *)
(* numbers, for every set of contexts.                                          *)
THEOREM CheckedIsSent == StartSpec => SendsTheChecked
<1>1. StartInit => ChecksShown
  BY DEF StartInit, ChecksShown
<1>2. ChecksShown /\ [StartNext]_startVars =>
        [(request = Idle /\ request'.by = "text" /\ Parsed(text) # {}) =>
          /\ request'.names \subseteq checks
          /\ checks \ request'.names \subseteq BareNumbers]_startVars
  BY SubmitSends, PayloadIsChecked
<1>3. QED
  BY <1>1, <1>2, ChecksStep, PTL DEF StartSpec, SendsTheChecked

-----------------------------------------------------------------------------
(* Hidden columns.  What is hidden has a reason in the table on display, and   *)
(* in every stored choice, also for the columns that are not offered now.      *)

Reasons(list) == unchecked[list] \cup OffByDefault \cup dropped[list]
ChoicesHaveReasons ==
  \A l \in Lists : columnsOf[l] # NoChoice => Offered(l, TRUE) \subseteq columnsOf[l] \cup Reasons(l)
ColumnTypes ==
  /\ DOMAIN table = {"list", "shown", "widths", "menu"} /\ table.list \in Lists
  /\ DOMAIN columnsOf = Lists /\ DOMAIN dropped = Lists /\ DOMAIN unchecked = Lists
ColumnInv == ColumnTypes /\ ChoicesHaveReasons /\ HiddenOnPurpose

LEMMA OfferedNow == \A l, m : Required \in Offered(l, m) /\ Offered(l, m) \subseteq Offered(l, TRUE)
BY DEF Offered

LEMMA FreshHasReasons ==
  ASSUME ColumnInv, NEW l \in Lists, NEW chosen
  PROVE  /\ Fresh(l, chosen).list = l /\ DOMAIN Fresh(l, chosen) = {"list", "shown", "widths", "menu"}
         /\ Required \in Fresh(l, chosen).shown
         /\ Offered(l, chosen.metrics) \subseteq Fresh(l, chosen).shown \cup Reasons(l)
<1>1. PICK offered, shown : offered = Offered(l, chosen.metrics) /\ shown = ReadColumns(l, offered)
  OBVIOUS
<1>2. /\ Fresh(l, chosen).list = l /\ Fresh(l, chosen).shown = shown
      /\ DOMAIN Fresh(l, chosen) = {"list", "shown", "widths", "menu"}
  BY <1>1 DEF Fresh
<1>3. CASE columnsOf[l] = NoChoice
  BY <1>1, <1>2, <1>3 DEF ReadColumns, DefaultColumns, Normalized, Reasons
<1>4. CASE columnsOf[l] # NoChoice
  <2>1. shown = (columnsOf[l] \cap offered) \cup {Required}
    BY <1>1, <1>4 DEF ReadColumns, Normalized
  <2>2. offered \subseteq columnsOf[l] \cup Reasons(l)
    BY <1>1, <1>4, OfferedNow DEF ColumnInv, ChoicesHaveReasons
  <2>3. QED
    BY <1>1, <1>2, <2>1, <2>2
<1>5. QED
  BY <1>3, <1>4

\* A table opens on a list, or anew after a change of the settings.
LEMMA FreshTable ==
  ASSUME ColumnInv, NEW l \in Lists, table' = Fresh(l, prefs'), UNCHANGED <<columnsOf, dropped, unchecked>>
  PROVE  ColumnInv'
<1>1. PICK chosen, t : chosen = prefs' /\ t = Fresh(l, chosen)
  OBVIOUS
<1>2. /\ t.list = l /\ DOMAIN t = {"list", "shown", "widths", "menu"} /\ Required \in t.shown
      /\ Offered(l, chosen.metrics) \subseteq t.shown \cup Reasons(l)
  BY <1>1, FreshHasReasons
<1>3. Reasons(l)' = Reasons(l) /\ table' = t /\ prefs' = chosen
  BY <1>1 DEF Reasons
<1>4. ColumnTypes'
  BY <1>2, <1>3 DEF ColumnInv, ColumnTypes
<1>5. ChoicesHaveReasons'
  BY DEF ColumnInv, ChoicesHaveReasons, Reasons
<1>6. HiddenOnPurpose'
  BY <1>2, <1>3 DEF HiddenOnPurpose, Reasons
<1>7. QED
  BY <1>4, <1>5, <1>6 DEF ColumnInv

\* A choice is stored: hidden columns have been unchecked, or had a reason.
LEMMA StoredChoice ==
  ASSUME ColumnInv, NEW keys, StoreColumns(keys),
         NEW offered, offered = Offered(table.list, prefs.metrics),
         NEW out, unchecked' = [unchecked EXCEPT ![table.list] = out],
         offered \subseteq keys \cup {Required} \cup out \cup OffByDefault \cup dropped[table.list]
  PROVE  ColumnInv'
<1>1. PICK l, shown, all : /\ l = table.list /\ shown = (keys \cap offered) \cup {Required}
                           /\ all = Offered(l, TRUE)
  OBVIOUS
<1>2. l \in Lists /\ DOMAIN columnsOf = Lists /\ DOMAIN dropped = Lists /\ DOMAIN unchecked = Lists
      /\ DOMAIN table = {"list", "shown", "widths", "menu"}
  BY <1>1 DEF ColumnInv, ColumnTypes
<1>3. /\ table' = [table EXCEPT !.shown = shown]
      /\ columnsOf' = [columnsOf EXCEPT ![l] = shown]
      /\ dropped' = [dropped EXCEPT ![l] = (dropped[l] \cup (all \ offered)) \ shown]
      /\ UNCHANGED prefs
  BY <1>1 DEF StoreColumns, Normalized
<1>4. /\ columnsOf'[l] = shown /\ dropped'[l] = (dropped[l] \cup (all \ offered)) \ shown
      /\ unchecked'[l] = out /\ table'.list = l /\ table'.shown = shown
      /\ DOMAIN table' = {"list", "shown", "widths", "menu"}
  BY <1>1, <1>2, <1>3
<1>5. all \subseteq shown \cup Reasons(l)'
  BY <1>1, <1>4 DEF Reasons
<1>6. ColumnTypes'
  BY <1>2, <1>3, <1>4 DEF ColumnTypes
<1>7. ChoicesHaveReasons'
  <2>1. ASSUME NEW k \in Lists, columnsOf'[k] # NoChoice
        PROVE  Offered(k, TRUE) \subseteq columnsOf'[k] \cup Reasons(k)'
    <3>1. CASE k = l
      BY <1>1, <1>4, <1>5, <3>1
    <3>2. CASE k # l
      <4>1. columnsOf'[k] = columnsOf[k] /\ dropped'[k] = dropped[k] /\ unchecked'[k] = unchecked[k]
        BY <1>1, <1>2, <1>3, <3>2
      <4>2. QED
        BY <2>1, <4>1 DEF ColumnInv, ChoicesHaveReasons, Reasons
    <3>3. QED
      BY <3>1, <3>2
  <2>2. QED
    BY <2>1 DEF ChoicesHaveReasons
<1>8. HiddenOnPurpose'
  <2>1. offered \subseteq all
    BY <1>1, OfferedNow
  <2>2. Offered(table.list, prefs.metrics)' = offered
    BY <1>1, <1>3, <1>4 DEF Offered
  <2>3. QED
    BY <1>1, <1>4, <1>5, <2>1, <2>2 DEF HiddenOnPurpose, Reasons
<1>9. QED
  BY <1>6, <1>7, <1>8 DEF ColumnInv

LEMMA WidthsOnly ==
  ASSUME ColumnInv, DOMAIN table' = DOMAIN table, table'.list = table.list, table'.shown = table.shown,
         UNCHANGED <<columnsOf, prefs, dropped, unchecked>>
  PROVE  ColumnInv'
<1>1. ColumnTypes' /\ ChoicesHaveReasons'
  BY DEF ColumnInv, ColumnTypes, ChoicesHaveReasons, Reasons
<1>2. HiddenOnPurpose'
  BY DEF ColumnInv, HiddenOnPurpose, Offered
<1>3. QED
  BY <1>1, <1>2 DEF ColumnInv

LEMMA ColumnStep == ColumnInv /\ [ColumnNext]_columnVars => ColumnInv'
<1> SUFFICES ASSUME ColumnInv, [ColumnNext]_columnVars PROVE ColumnInv'
  OBVIOUS
<1>1. PICK l, offered : l = table.list /\ offered = Offered(l, prefs.metrics)
  OBVIOUS
<1>2. /\ DOMAIN table = {"list", "shown", "widths", "menu"} /\ l \in Lists
      /\ DOMAIN unchecked = Lists
      /\ offered \subseteq table.shown \cup Reasons(l)
  BY <1>1 DEF ColumnInv, ColumnTypes, HiddenOnPurpose, Reasons
<1>3. ASSUME NEW list \in Lists, OpenList(list) PROVE ColumnInv'
  <2>1. table' = Fresh(list, prefs')
    BY <1>3 DEF OpenList
  <2>2. QED
    BY <1>3, <2>1, FreshTable DEF OpenList
<1>4. ASSUME NEW keeps \in BOOLEAN, NEW metrics \in BOOLEAN, ChangePrefs(keeps, metrics) PROVE ColumnInv'
  <2>1. CASE table' = Fresh(table.list, prefs')
    BY <1>1, <1>2, <1>4, <2>1, FreshTable DEF ChangePrefs
  <2>2. CASE table' = table /\ table.list # PodList
    <3>1. Offered(table.list, prefs.metrics)' = offered
      BY <1>1, <2>2 DEF Offered
    <3>2. UNCHANGED <<columnsOf, dropped, unchecked>>
      BY <1>4 DEF ChangePrefs
    <3>3. ColumnTypes' /\ ChoicesHaveReasons'
      BY <2>2, <3>2 DEF ColumnInv, ColumnTypes, ChoicesHaveReasons, Reasons
    <3>4. HiddenOnPurpose'
      BY <1>1, <2>2, <3>1, <3>2 DEF ColumnInv, HiddenOnPurpose
    <3>5. QED
      BY <3>3, <3>4 DEF ColumnInv
  <2>3. QED
    BY <1>4, <2>1, <2>2 DEF ChangePrefs
<1>5. ASSUME NEW key \in ColumnKeys, ToggleColumn(key) PROVE ColumnInv'
  <2>1. CASE key \in table.shown
    <3>1. PICK out : out = unchecked[l] \cup {key}
      OBVIOUS
    <3>2. StoreColumns(table.shown \ {key}) /\ unchecked' = [unchecked EXCEPT ![l] = out]
      BY <1>1, <1>5, <2>1, <3>1 DEF ToggleColumn
    <3>3. offered \subseteq (table.shown \ {key}) \cup {Required} \cup out \cup OffByDefault \cup dropped[l]
      BY <1>2, <3>1 DEF Reasons
    <3>4. QED
      BY <1>1, <3>2, <3>3, StoredChoice
  <2>2. CASE key \notin table.shown
    <3>1. PICK out : out = unchecked[l] \ {key}
      OBVIOUS
    <3>2. StoreColumns(table.shown \cup {key}) /\ unchecked' = [unchecked EXCEPT ![l] = out]
      BY <1>1, <1>5, <2>2, <3>1 DEF ToggleColumn
    <3>3. offered \subseteq (table.shown \cup {key}) \cup {Required} \cup out \cup OffByDefault \cup dropped[l]
      BY <1>2, <3>1 DEF Reasons
    <3>4. QED
      BY <1>1, <3>2, <3>3, StoredChoice
  <2>3. QED
    BY <2>1, <2>2
<1>6. CASE ShowAllColumns \/ ResetColumns
  <2>1. PICK out : out = unchecked[l] \ offered
    OBVIOUS
  <2>2. PICK keys : /\ StoreColumns(keys) /\ unchecked' = [unchecked EXCEPT ![l] = out]
                    /\ keys = offered \/ keys = DefaultColumns(offered)
    BY <1>1, <1>6, <2>1 DEF ShowAllColumns, ResetColumns
  <2>3. offered \subseteq keys \cup {Required} \cup out \cup OffByDefault \cup dropped[l]
    BY <2>2 DEF DefaultColumns, Normalized
  <2>4. QED
    BY <1>1, <2>2, <2>3, StoredChoice
<1>7. CASE ToggleColumnMenu
  <2>1. PICK menu : table' = [table EXCEPT !.menu = menu]
    BY <1>7 DEF ToggleColumnMenu
  <2>2. DOMAIN table' = DOMAIN table /\ table'.list = table.list /\ table'.shown = table.shown
    BY <1>2, <2>1
  <2>3. QED
    BY <1>7, <2>2, WidthsOnly DEF ToggleColumnMenu
<1>8. CASE ResizeMove \/ ResizeEnd \/ ResetWidths \/ \E key \in ColumnKeys : ResetWidth(key)
  <2>1. PICK widths : table' = [table EXCEPT !.widths = widths]
    BY <1>8 DEF ResizeMove, ResizeEnd, ResetWidths, ResetWidth
  <2>2. DOMAIN table' = DOMAIN table /\ table'.list = table.list /\ table'.shown = table.shown
    BY <1>2, <2>1
  <2>3. QED
    BY <1>8, <2>2, WidthsOnly DEF ResizeMove, ResizeEnd, ResetWidths, ResetWidth
<1>9. CASE (\E key \in ColumnKeys : ResizeStart(key)) \/ UNCHANGED columnVars
  BY <1>9, WidthsOnly DEF ResizeStart, columnVars
<1>10. QED
  BY <1>3, <1>4, <1>5, <1>6, <1>7, <1>8, <1>9 DEF ColumnNext

(* A hidden column is one the user unchecked in this list, one that is off by   *)
(* default, or one that the stored choice could not mention, for every set of   *)
(* lists and columns.                                                          *)
THEOREM ColumnsHideOnPurpose == ColumnSpec => []HiddenOnPurpose
<1>1. ColumnInit => ColumnInv
  <2> SUFFICES ASSUME ColumnInit PROVE ColumnInv
    OBVIOUS
  <2>1. PICK offered : offered = Offered(PodList, prefs.metrics)
    OBVIOUS
  <2>2. /\ table.list = PodList /\ table.shown = DefaultColumns(offered)
        /\ DOMAIN table = {"list", "shown", "widths", "menu"}
    BY <2>1, ColumnAssumption DEF ColumnInit, Fresh, ReadColumns
  <2>3. ColumnTypes /\ ChoicesHaveReasons
    BY <2>2, ColumnAssumption DEF ColumnInit, ColumnTypes, ChoicesHaveReasons
  <2>4. HiddenOnPurpose
    BY <2>1, <2>2 DEF HiddenOnPurpose, DefaultColumns, Normalized
  <2>5. QED
    BY <2>3, <2>4 DEF ColumnInv
<1>2. ColumnInv => HiddenOnPurpose
  BY DEF ColumnInv
<1>3. QED
  BY <1>1, <1>2, ColumnStep, PTL DEF ColumnSpec

-----------------------------------------------------------------------------
(* The arrows of the top bar.  While the page is moved by its own arrows, the   *)
(* list is the end of the browser's history, seen through an offset that is     *)
(* the same for the current location and for every entry, and the flag says     *)
(* what is under way.  Neighbours in the history differ, without which the      *)
(* commit of a traversal would go unnoticed.                                    *)

Fits(e, x, h, o) ==
  /\ e \in Seq(Places) /\ h \in Seq(Places) /\ x \in Nat /\ o \in Nat
  /\ 1 <= x /\ x <= Len(e) /\ Len(e) + o = Len(h)
  /\ \A i \in 1..Len(e) : e[i] = h[o + i]
Differ(h) == \A i \in Nat : 1 <= i /\ i < Len(h) => h[i] # h[i + 1]
Aligned(n, h, p) ==
  /\ DOMAIN n = {"entries", "index", "pending"} /\ Differ(h)
  /\ \E o \in Nat : p = o + n.index /\ Fits(n.entries, n.index, h, o)
UnderWay ==
  \/ moves = <<>> /\ nav.pending = "none"
  \/ moves = <<-1>> /\ nav.pending = "back" /\ CanBack
  \/ moves = <<1>> /\ nav.pending = "forward" /\ CanForward
NavInv == calm => Aligned(nav, hist, pos) /\ UnderWay

LEMMA CutAndAppend ==
  ASSUME NEW S, NEW q \in Seq(S), NEW m \in 1..Len(q), NEW x \in S
  PROVE  LET r == Append(SubSeq(q, 1, m), x)
         IN r \in Seq(S) /\ Len(r) = m + 1 /\ r[m + 1] = x /\ \A i \in 1..m : r[i] = q[i]
<1>1. \A i \in 1..m : q[i] \in S
  OBVIOUS
<1>2. PICK c : c = SubSeq(q, 1, m)
  OBVIOUS
<1>3. c \in Seq(S) /\ Len(c) = m /\ \A i \in 1..m : c[i] = q[i]
  <2>1. /\ c \in Seq(S) /\ Len(c) = IF 1 <= m THEN m - 1 + 1 ELSE 0
        /\ \A i \in 1..(m - 1 + 1) : c[i] = q[1 + i - 1]
    BY <1>1, <1>2, SubSeqProperties
  <2>2. QED
    BY <2>1
<1>4. QED
  BY <1>2, <1>3, AppendProperties

LEMMA LastOnes ==
  ASSUME NEW S, NEW s \in Seq(S), s # <<>>
  PROVE  \E k \in 0..(Len(s) - 1) :
            /\ LastEntries(s) \in Seq(S) /\ Len(LastEntries(s)) = Len(s) - k
            /\ \A i \in 1..(Len(s) - k) : LastEntries(s)[i] = s[k + i]
<1>1. Len(s) \in Nat /\ Len(s) >= 1
  OBVIOUS
<1>2. PICK k : k = (IF Len(s) > NavMax THEN Len(s) - NavMax ELSE 0)
  OBVIOUS
<1>3. k \in 0..(Len(s) - 1)
  BY <1>1, <1>2, NavAssumption
<1>4. PICK e : e = SubSeq(s, k + 1, Len(s))
  OBVIOUS
<1>5. LastEntries(s) = e
  BY <1>2, <1>4 DEF LastEntries
<1>6. \A i \in (k + 1)..Len(s) : s[i] \in S
  BY <1>1, <1>3
<1>7. /\ e \in Seq(S) /\ Len(e) = (IF k + 1 <= Len(s) THEN Len(s) - (k + 1) + 1 ELSE 0)
      /\ \A i \in 1..(Len(s) - (k + 1) + 1) : e[i] = s[(k + 1) + i - 1]
  BY <1>1, <1>3, <1>4, <1>6, SubSeqProperties
<1>8. /\ Len(e) = Len(s) - k
      /\ \A i \in 1..(Len(s) - k) : e[i] = s[k + i]
  BY <1>1, <1>3, <1>7
<1>9. QED
  BY <1>3, <1>5, <1>7, <1>8

LEMMA DifferAfterPush ==
  ASSUME NEW h, NEW g, NEW p \in Nat, 1 <= p, p <= Len(h), Len(h) \in Nat, Differ(h),
         Len(g) = p + 1, \A i \in 1..p : g[i] = h[i], g[p + 1] # h[p]
  PROVE  Differ(g)
<1> SUFFICES ASSUME NEW i \in Nat, 1 <= i, i < Len(g) PROVE g[i] # g[i + 1]
  BY DEF Differ
<1>1. i <= p /\ g[i] = h[i]
  OBVIOUS
<1>2. CASE i = p
  BY <1>1, <1>2
<1>3. CASE i # p
  <2>1. i + 1 \in 1..p /\ i < Len(h)
    BY <1>1, <1>3
  <2>2. g[i + 1] = h[i + 1] /\ h[i] # h[i + 1]
    BY <2>1 DEF Differ
  <2>3. QED
    BY <1>1, <2>2
<1>4. QED
  BY <1>2, <1>3

LEMMA FitsAfterPush ==
  ASSUME NEW e, NEW x, NEW h, NEW o, Fits(e, x, h, o), NEW loc \in Places, Differ(h), loc # h[o + x]
  PROVE  LET g == Append(SubSeq(h, 1, o + x), loc)
             f == LastEntries(Append(SubSeq(e, 1, x), loc))
         IN  Differ(g) /\ \E k \in Nat : Len(f) = x + 1 - k /\ Fits(f, x + 1 - k, g, o + k)
<1>1. PICK m, l, p : m = Len(e) /\ l = Len(h) /\ p = o + x
  OBVIOUS
<1>2. /\ e \in Seq(Places) /\ h \in Seq(Places) /\ x \in Nat /\ o \in Nat /\ m \in Nat /\ l \in Nat
      /\ 1 <= x /\ x <= m /\ m + o = l /\ p = o + x /\ p \in Nat /\ 1 <= p /\ p <= l
  <2>1. /\ e \in Seq(Places) /\ h \in Seq(Places) /\ x \in Nat /\ o \in Nat
        /\ 1 <= x /\ x <= m /\ m + o = l
    BY <1>1 DEF Fits
  <2>2. m \in Nat /\ l \in Nat
    BY <1>1, <2>1
  <2>3. QED
    BY <1>1, <2>1, <2>2
<1>3. \A i \in 1..m : e[i] = h[o + i]
  BY <1>1 DEF Fits
<1>4. PICK g : g = Append(SubSeq(h, 1, p), loc)
  OBVIOUS
<1>5. /\ g \in Seq(Places) /\ Len(g) = p + 1 /\ g[p + 1] = loc
      /\ \A i \in 1..p : g[i] = h[i]
  <2>1. p \in 1..Len(h)
    BY <1>1, <1>2
  <2>2. QED
    BY <1>2, <1>4, <2>1, CutAndAppend
<1>6. PICK s : s = Append(SubSeq(e, 1, x), loc)
  OBVIOUS
<1>7. s \in Seq(Places) /\ Len(s) = x + 1 /\ s[x + 1] = loc /\ \A i \in 1..x : s[i] = e[i]
  <2>1. x \in 1..Len(e)
    BY <1>1, <1>2
  <2>2. QED
    BY <1>2, <1>6, <2>1, CutAndAppend
<1>8. PICK f : f = LastEntries(s)
  OBVIOUS
<1>9. PICK k \in 0..(Len(s) - 1) : /\ f \in Seq(Places) /\ Len(f) = Len(s) - k
                                   /\ \A i \in 1..(Len(s) - k) : f[i] = s[k + i]
  <2>1. s # <<>>
    <3>1. Len(s) # 0
      BY <1>2, <1>7
    <3>2. QED
      BY <3>1
  <2>2. \E k \in 0..(Len(s) - 1) :
           /\ LastEntries(s) \in Seq(Places) /\ Len(LastEntries(s)) = Len(s) - k
           /\ \A i \in 1..(Len(s) - k) : LastEntries(s)[i] = s[k + i]
    <3>1. s \in Seq(Places)
      BY <1>7
    <3>2. QED
      BY ONLY <2>1, <3>1, LastOnes
  <2>3. QED
    BY <1>8, <2>2
<1>10. /\ k \in Nat /\ k <= x /\ Len(f) = x + 1 - k
       /\ \A i \in 1..(x + 1 - k) : f[i] = s[k + i]
  BY <1>2, <1>7, <1>9
<1>11. \A i \in 1..(x + 1 - k) : f[i] = g[o + k + i]
  <2> SUFFICES ASSUME NEW i \in 1..(x + 1 - k) PROVE f[i] = g[o + k + i]
    OBVIOUS
  <2>1. PICK j : j = k + i
    OBVIOUS
  <2>2. f[i] = s[j]
    BY <1>10, <2>1
  <2>3. j \in Nat /\ 1 <= j /\ j <= x + 1 /\ o + k + i = o + j
    BY <1>2, <1>10, <2>1
  <2>4. CASE j = x + 1
    <3>1. o + j = p + 1
      BY <1>2, <2>3, <2>4
    <3>2. QED
      BY <1>5, <1>7, <2>2, <2>3, <2>4, <3>1
  <2>5. CASE j # x + 1
    <3>1. j \in 1..x /\ j \in 1..m /\ o + j \in 1..p
      BY <1>2, <2>3, <2>5
    <3>2. s[j] = e[j] /\ e[j] = h[o + j] /\ g[o + j] = h[o + j]
      BY <1>3, <1>5, <1>7, <3>1
    <3>3. QED
      BY <2>2, <2>3, <3>2
  <2>6. QED
    BY <2>4, <2>5
<1>12. Fits(f, x + 1 - k, g, o + k)
  <2>1. x + 1 - k \in Nat /\ 1 <= x + 1 - k /\ x + 1 - k <= Len(f) /\ Len(f) + (o + k) = Len(g) /\ o + k \in Nat
    <3>1. Len(g) = o + x + 1 /\ Len(f) = x + 1 - k /\ k \in Nat /\ k <= x /\ x \in Nat /\ o \in Nat
      BY <1>2, <1>5, <1>10
    <3>2. QED
      BY <3>1
  <2>2. \A i \in 1..Len(f) : f[i] = g[(o + k) + i]
    BY <1>10, <1>11
  <2>3. QED
    BY <1>5, <1>9, <2>1, <2>2 DEF Fits
<1>13. Differ(g)
  <2>1. g[p + 1] # h[p]
    BY <1>1, <1>5
  <2>2. QED
    BY <1>1, <1>2, <1>5, <2>1, DifferAfterPush, SMTT(30)
<1>14. QED
  BY <1>1, <1>4, <1>6, <1>8, <1>10, <1>12, <1>13

LEMMA PushKeepsAlignment ==
  ASSUME Aligned(nav, hist, pos), nav.pending = "none", NEW loc \in Places, loc # hist[pos],
         hist' = Append(SubSeq(hist, 1, pos), loc), pos' = pos + 1, nav' = Record(nav, loc)
  PROVE  Aligned(nav', hist', pos') /\ nav'.pending = "none"
<1>1. PICK e, x : e = nav.entries /\ x = nav.index
  OBVIOUS
<1>2. PICK o \in Nat : pos = o + x /\ Fits(e, x, hist, o)
  BY <1>1 DEF Aligned
<1>3. Differ(hist) /\ DOMAIN nav = {"entries", "index", "pending"}
  BY DEF Aligned
<1>4. PICK f : f = LastEntries(Append(SubSeq(e, 1, x), loc))
  OBVIOUS
<1>5. PICK k \in Nat : Len(f) = x + 1 - k /\ Fits(f, x + 1 - k, hist', o + k)
  BY <1>2, <1>3, <1>4, FitsAfterPush
<1>6. Differ(hist')
  BY <1>2, <1>3, FitsAfterPush
<1>7. e[x] = hist[pos]
  <2>1. x \in 1..Len(e)
    <3>1. x \in Nat /\ 1 <= x /\ x <= Len(e) /\ Len(e) \in Nat
      BY <1>2 DEF Fits
    <3>2. QED
      BY <3>1
  <2>2. QED
    BY <1>2, <2>1 DEF Fits
<1>8. nav' = [nav EXCEPT !.entries = f, !.index = Len(f)]
  BY <1>1, <1>4, <1>7 DEF Record
<1>9. /\ nav'.entries = f /\ nav'.index = x + 1 - k /\ nav'.pending = "none"
      /\ DOMAIN nav' = {"entries", "index", "pending"}
  BY <1>3, <1>5, <1>8
<1>10. pos' = (o + k) + (x + 1 - k) /\ o + k \in Nat
  <2>1. x \in Nat
    BY <1>2 DEF Fits
  <2>2. QED
    BY <1>2, <1>5, <2>1
<1>11. QED
  BY <1>5, <1>6, <1>9, <1>10 DEF Aligned

(* A commit one step to the left or to the right, inside the list.              *)
LEMMA CommitKeepsAlignment ==
  ASSUME Aligned(nav, hist, pos), UnderWay, Commit
  PROVE  Aligned(nav', hist', pos') /\ UnderWay'
<1>1. PICK e, x : e = nav.entries /\ x = nav.index
  OBVIOUS
<1>2. PICK o \in Nat : pos = o + x /\ Fits(e, x, hist, o)
  BY <1>1 DEF Aligned
<1>3. Differ(hist) /\ DOMAIN nav = {"entries", "index", "pending"} /\ hist' = hist
  BY DEF Aligned, Commit
<1>4. /\ x \in Nat /\ 1 <= x /\ x <= Len(e) /\ Len(e) + o = Len(hist)
      /\ Len(e) \in Nat /\ Len(hist) \in Nat /\ hist \in Seq(Places)
  BY <1>2 DEF Fits
<1>5. ASSUME NEW y \in Nat, NEW to, to = o + y, 1 <= y, y <= Len(e), pos' = to, moves' = <<>>,
             nav' = [nav EXCEPT !.pending = "none", !.index = y]
      PROVE  Aligned(nav', hist', pos') /\ UnderWay'
  <2>1. /\ nav'.pending = "none" /\ nav'.index = y /\ nav'.entries = e
        /\ DOMAIN nav' = {"entries", "index", "pending"}
    BY <1>1, <1>3, <1>5
  <2>2. Fits(e, y, hist, o)
    BY <1>2, <1>5 DEF Fits
  <2>3. UnderWay'
    BY <1>5, <2>1 DEF UnderWay
  <2>4. QED
    BY <1>3, <1>5, <2>1, <2>2, <2>3 DEF Aligned
<1>6. CASE moves = <<-1>> /\ nav.pending = "back" /\ CanBack
  <2>1. Head(moves) = -1 /\ Tail(moves) = <<>>
    BY <1>6
  <2>2. PICK to, y : to = o + y /\ y = x - 1 /\ to = pos - 1
    BY <1>2, <1>4
  <2>3. x > 1
    BY <1>1, <1>6 DEF CanBack
  <2>4. y \in Nat /\ 1 <= y /\ y <= Len(e) /\ to \in Nat /\ 1 <= to /\ to < Len(hist) /\ to + 1 = pos
    BY <1>2, <1>4, <2>2, <2>3
  <2>5. pos + Head(moves) = to /\ to \in 0..Len(hist) /\ to # 0
    BY <1>2, <1>4, <2>1, <2>4
  <2>6. pos' = to /\ moves' = <<>> /\ nav' = (IF hist[to] = hist[pos] THEN nav ELSE Record(nav, hist[to]))
    BY <2>1, <2>5 DEF Commit, Recorded
  <2>7. hist[to] # hist[pos]
    BY <1>3, <2>4 DEF Differ
  <2>8. nav' = [nav EXCEPT !.pending = "none", !.index = y]
    BY <1>1, <1>6, <2>2, <2>3, <2>6, <2>7 DEF Record
  <2>9. QED
    BY <1>5, <2>2, <2>4, <2>6, <2>8
<1>7. CASE moves = <<1>> /\ nav.pending = "forward" /\ CanForward
  <2>1. Head(moves) = 1 /\ Tail(moves) = <<>>
    BY <1>7
  <2>2. PICK to, y : to = o + y /\ y = x + 1 /\ to = pos + 1
    BY <1>2, <1>4
  <2>3. x < Len(e)
    BY <1>1, <1>7 DEF CanForward
  <2>4. /\ y \in Nat /\ 1 <= y /\ y <= Len(e) /\ to \in Nat /\ 1 <= to /\ to <= Len(hist)
        /\ pos \in Nat /\ 1 <= pos /\ pos < Len(hist)
    BY <1>2, <1>4, <2>2, <2>3
  <2>5. pos + Head(moves) = to /\ to \in 0..Len(hist) /\ to # 0
    BY <1>4, <2>1, <2>2, <2>4
  <2>6. pos' = to /\ moves' = <<>> /\ nav' = (IF hist[to] = hist[pos] THEN nav ELSE Record(nav, hist[to]))
    BY <2>1, <2>5 DEF Commit, Recorded
  <2>7. hist[to] # hist[pos]
    BY <1>3, <2>2, <2>4 DEF Differ
  <2>8. nav' = [nav EXCEPT !.pending = "none", !.index = y]
    BY <1>1, <1>7, <2>2, <2>3, <2>6, <2>7 DEF Record
  <2>9. QED
    BY <1>5, <2>2, <2>4, <2>6, <2>8
<1>8. QED
  BY <1>6, <1>7 DEF UnderWay, Commit

LEMMA NavStep == NavInv /\ [NavNext]_navVars => NavInv'
<1> SUFFICES ASSUME NavInv, [NavNext]_navVars, calm' PROVE Aligned(nav', hist', pos') /\ UnderWay'
  BY DEF NavInv, UnderWay, CanBack, CanForward
<1>1. ASSUME NEW loc \in Places, Push(loc) PROVE Aligned(nav', hist', pos') /\ UnderWay'
  <2>1. calm /\ moves = <<>> /\ loc # hist[pos]
    BY <1>1 DEF Push
  <2>2. Aligned(nav, hist, pos) /\ nav.pending = "none"
    BY <2>1 DEF NavInv, UnderWay
  <2>3. nav' = Record(nav, loc)
    BY <1>1, <2>1 DEF Push, Recorded
  <2>4. QED
    BY <1>1, <2>1, <2>2, <2>3, PushKeepsAlignment DEF Push, UnderWay
<1>2. ASSUME NEW loc \in Places, Replace(loc) PROVE Aligned(nav', hist', pos') /\ UnderWay'
  <2>1. calm /\ loc = hist[pos] /\ nav' = nav /\ UNCHANGED <<pos, moves>>
    BY <1>2 DEF Replace, Recorded
  <2>2. Aligned(nav, hist, pos) /\ UnderWay
    BY <2>1 DEF NavInv
  <2>3. hist' = hist
    <3>1. hist \in Seq(Places)
      BY <2>2 DEF Aligned, Fits
    <3>2. hist' = [hist EXCEPT ![pos] = hist[pos]]
      BY <1>2, <2>1 DEF Replace
    <3>3. QED
      BY <3>1, <3>2
  <2>4. QED
    BY <2>1, <2>2, <2>3 DEF UnderWay, CanBack, CanForward
<1>3. CASE BackArrow
  <2>1. /\ calm /\ moves = <<>> /\ moves' = <<-1>> /\ nav' = [nav EXCEPT !.pending = "back"]
        /\ UNCHANGED <<hist, pos>> /\ CanBack
    <3>1. calm' = (calm /\ moves = <<>>)
      BY <1>3 DEF BackArrow
    <3>2. calm /\ moves = <<>>
      BY <3>1, Zenon
    <3>3. moves' = Append(moves, -1)
      BY <1>3 DEF BackArrow, AskHistory
    <3>4. moves' = <<-1>>
      BY <3>2, <3>3
    <3>5. QED
      BY <1>3, <3>2, <3>4 DEF BackArrow, AskHistory
  <2>2. Aligned(nav, hist, pos)
    BY <2>1 DEF NavInv
  <2>3. /\ nav'.pending = "back" /\ nav'.entries = nav.entries /\ nav'.index = nav.index
        /\ DOMAIN nav' = {"entries", "index", "pending"}
    BY <2>1, <2>2 DEF Aligned
  <2>4. QED
    BY <2>1, <2>2, <2>3 DEF Aligned, UnderWay, CanBack
<1>4. CASE ForwardArrow
  <2>1. /\ calm /\ moves = <<>> /\ moves' = <<1>> /\ nav' = [nav EXCEPT !.pending = "forward"]
        /\ UNCHANGED <<hist, pos>> /\ CanForward
    <3>1. calm' = (calm /\ moves = <<>>)
      BY <1>4 DEF ForwardArrow
    <3>2. calm /\ moves = <<>>
      BY <3>1, Zenon
    <3>3. moves' = Append(moves, 1)
      BY <1>4 DEF ForwardArrow, AskHistory
    <3>4. moves' = <<1>>
      BY <3>2, <3>3
    <3>5. QED
      BY <1>4, <3>2, <3>4 DEF ForwardArrow, AskHistory
  <2>2. Aligned(nav, hist, pos)
    BY <2>1 DEF NavInv
  <2>3. /\ nav'.pending = "forward" /\ nav'.entries = nav.entries /\ nav'.index = nav.index
        /\ DOMAIN nav' = {"entries", "index", "pending"}
    BY <2>1, <2>2 DEF Aligned
  <2>4. QED
    BY <2>1, <2>2, <2>3 DEF Aligned, UnderWay, CanForward
<1>5. CASE Commit
  BY <1>5, CommitKeepsAlignment DEF Commit, NavInv
<1>6. CASE \E by \in {-1, 1} : BrowserButton(by)
  BY <1>6 DEF BrowserButton
<1>7. CASE UNCHANGED navVars
  BY <1>7 DEF navVars, NavInv, UnderWay, CanBack, CanForward
<1>8. QED
  BY <1>1, <1>2, <1>3, <1>4, <1>5, <1>6, <1>7 DEF NavNext

(* Moved by its own arrows, one at a time, the list of the top bar is a window  *)
(* of the browser's history around the current location, for every length of    *)
(* the list and of the history.                                                *)
THEOREM ArrowsFollowHistory == NavSpec => []ListMirrorsHistory
<1>1. NavInit => NavInv
  <2> SUFFICES ASSUME NavInit PROVE Aligned(nav, hist, pos) /\ UnderWay
    BY DEF NavInv
  <2>1. PICK p \in Places : hist = <<p>> /\ nav = [entries |-> <<p>>, index |-> 1, pending |-> "none"]
    BY NavAssumption DEF NavInit
  <2>2. /\ hist \in Seq(Places) /\ Len(hist) = 1 /\ nav.entries = hist /\ nav.index = 1 /\ nav.pending = "none"
        /\ DOMAIN nav = {"entries", "index", "pending"}
    BY <2>1
  <2>3. pos = 1 /\ moves = <<>>
    BY DEF NavInit
  <2>4. Differ(hist)
    BY <2>2 DEF Differ
  <2>5. Fits(nav.entries, nav.index, hist, 0) /\ pos = 0 + nav.index
    BY <2>2, <2>3 DEF Fits
  <2>6. QED
    BY <2>2, <2>3, <2>4, <2>5 DEF Aligned, UnderWay
<1>2. NavInv => ListMirrorsHistory
  <2> SUFFICES ASSUME NavInv, calm, moves = <<>>
               PROVE  /\ nav.pending = "none"
                      /\ \A i \in DOMAIN nav.entries :
                           LET h == pos - nav.index + i IN h \in DOMAIN hist /\ nav.entries[i] = hist[h]
                      /\ ~CanForward => pos = Len(hist)
    BY DEF ListMirrorsHistory
  <2>1. Aligned(nav, hist, pos) /\ nav.pending = "none"
    BY DEF NavInv, UnderWay
  <2>2. PICK e, x : e = nav.entries /\ x = nav.index
    OBVIOUS
  <2>3. PICK o \in Nat : pos = o + x /\ Fits(e, x, hist, o)
    BY <2>1, <2>2 DEF Aligned
  <2>4. /\ x \in Nat /\ x <= Len(e) /\ Len(e) + o = Len(hist) /\ e \in Seq(Places) /\ hist \in Seq(Places)
        /\ \A i \in 1..Len(e) : e[i] = hist[o + i]
    BY <2>3 DEF Fits
  <2>5. ASSUME NEW i \in DOMAIN e PROVE LET h == pos - x + i IN h \in DOMAIN hist /\ e[i] = hist[h]
    <3>1. i \in 1..Len(e) /\ Len(e) \in Nat /\ Len(hist) \in Nat /\ DOMAIN hist = 1..Len(hist)
      BY <2>4, <2>5
    <3>2. pos - x + i = o + i /\ o + i \in 1..Len(hist)
      BY <2>3, <2>4, <3>1
    <3>3. QED
      BY <2>4, <3>1, <3>2
  <2>6. ~CanForward => pos = Len(hist)
    BY <2>2, <2>3, <2>4 DEF CanForward
  <2>7. QED
    BY <2>1, <2>2, <2>5, <2>6
<1>3. QED
  BY <1>1, <1>2, NavStep, PTL DEF NavSpec

-----------------------------------------------------------------------------
(* The panes in the address.  Every handler writes the sessions it copied, one  *)
(* added, one taken out or one replaced; which one, the address it copied says. *)

IsQuery(q) ==
  /\ DOMAIN q = {"refs", "bt", "d", "tab"}
  /\ q.refs \in Seq(AllRefs) /\ q.bt \in Nat
PanesInv == IsQuery(query) /\ (errand # NoErrand => IsQuery(errand.query))
Keeps(p, q) == \A i \in DOMAIN p : p[i] \in ToSet(q)

LEMMA WithoutOne ==
  ASSUME NEW S, NEW q \in Seq(S), NEW k \in 1..Len(q)
  PROVE  /\ RemoveAt(q, k) \in Seq(S)
         /\ \A i \in 1..Len(q) : i # k => q[i] \in ToSet(RemoveAt(q, k))
<1>1. Len(q) \in Nat /\ k \in Nat /\ 1 <= k /\ k <= Len(q) /\ \A i \in 1..Len(q) : q[i] \in S
  OBVIOUS
<1>2. PICK a, b : a = SubSeq(q, 1, k - 1) /\ b = SubSeq(q, k + 1, Len(q))
  OBVIOUS
<1>3. /\ a \in Seq(S) /\ Len(a) = k - 1 /\ \A i \in 1..(k - 1) : a[i] = q[i]
  <2>1. \A i \in 1..(k - 1) : q[i] \in S
    BY <1>1
  <2>2. /\ a \in Seq(S) /\ Len(a) = (IF 1 <= k - 1 THEN (k - 1) - 1 + 1 ELSE 0)
        /\ \A i \in 1..((k - 1) - 1 + 1) : a[i] = q[1 + i - 1]
    BY <1>1, <1>2, <2>1, SubSeqProperties
  <2>3. QED
    BY <1>1, <2>2
<1>4. /\ b \in Seq(S) /\ Len(b) = Len(q) - k /\ \A i \in 1..(Len(q) - k) : b[i] = q[k + i]
  <2>1. \A i \in (k + 1)..Len(q) : q[i] \in S
    BY <1>1
  <2>2. /\ b \in Seq(S) /\ Len(b) = (IF k + 1 <= Len(q) THEN Len(q) - (k + 1) + 1 ELSE 0)
        /\ \A i \in 1..(Len(q) - (k + 1) + 1) : b[i] = q[(k + 1) + i - 1]
    BY <1>1, <1>2, <2>1, SubSeqProperties
  <2>3. QED
    BY <1>1, <2>2
<1>5. PICK r : r = a \o b
  OBVIOUS
<1>6. /\ r \in Seq(S) /\ Len(r) = Len(a) + Len(b)
      /\ \A i \in 1..(Len(a) + Len(b)) : r[i] = IF i <= Len(a) THEN a[i] ELSE b[i - Len(a)]
  BY <1>3, <1>4, <1>5, ConcatProperties
<1>7. ASSUME NEW i \in 1..Len(q), i # k PROVE \E j \in 1..Len(r) : r[j] = q[i]
  <2>1. CASE i < k
    <3>1. i \in 1..Len(r) /\ i \in 1..(Len(a) + Len(b)) /\ i <= Len(a) /\ i \in 1..(k - 1)
      BY <1>1, <1>3, <1>4, <1>6, <2>1
    <3>2. r[i] = q[i]
      BY <1>3, <1>6, <3>1
    <3>3. QED
      BY <3>1, <3>2
  <2>2. CASE i > k
    <3>1. PICK j, m : j = i - 1 /\ m = i - k
      OBVIOUS
    <3>2. /\ j \in 1..Len(r) /\ j \in 1..(Len(a) + Len(b)) /\ ~(j <= Len(a)) /\ j - Len(a) = m
          /\ m \in 1..(Len(q) - k) /\ k + m = i
      BY <1>1, <1>3, <1>4, <1>6, <2>2, <3>1
    <3>3. r[j] = b[m] /\ b[m] = q[i]
      BY <1>4, <1>6, <3>2
    <3>4. QED
      BY <3>2, <3>3
  <2>3. QED
    BY <1>1, <1>7, <2>1, <2>2
<1>8. RemoveAt(q, k) = r
  BY <1>2, <1>5 DEF RemoveAt
<1>9. QED
  BY <1>6, <1>7, <1>8 DEF ToSet

LEMMA WithOneMore ==
  ASSUME NEW S, NEW q \in Seq(S), NEW x \in S
  PROVE  Append(q, x) \in Seq(S) /\ Keeps(q, Append(q, x))
<1>1. PICK a : a = Append(q, x)
  OBVIOUS
<1>2. /\ a \in Seq(S) /\ Len(a) = Len(q) + 1 /\ \A i \in 1..Len(q) : a[i] = q[i]
  BY <1>1, AppendProperties
<1>3. Len(q) \in Nat /\ DOMAIN q = 1..Len(q) /\ DOMAIN a = 1..Len(a)
  BY <1>2
<1>4. \A i \in 1..Len(q) : i \in DOMAIN a /\ a[i] = q[i]
  BY <1>2, <1>3
<1>5. QED
  BY <1>1, <1>2, <1>3, <1>4 DEF Keeps, ToSet

LEMMA SetRefsIs ==
  ASSUME NEW q, IsQuery(q), NEW refs \in Seq(AllRefs), NEW idx \in Nat
  PROVE  IsQuery(SetRefs(q, refs, idx)) /\ SetRefs(q, refs, idx).refs = refs
<1>1. PICK b : b = (IF refs = <<>> THEN 0 ELSE Lower(idx, Len(refs) - 1))
  OBVIOUS
<1>2. b \in Nat
  <2>1. Len(refs) \in Nat /\ (refs # <<>> => Len(refs) >= 1)
    OBVIOUS
  <2>2. QED
    BY <1>1, <2>1 DEF Lower
<1>3. PICK r : r = SetRefs(q, refs, idx)
  OBVIOUS
<1>4. r = [q EXCEPT !.refs = refs, !.bt = b]
  BY <1>1, <1>3 DEF SetRefs
<1>5. r.refs = refs /\ r.bt = b /\ DOMAIN r = {"refs", "bt", "d", "tab"}
  BY <1>4 DEF IsQuery
<1>6. QED
  BY <1>2, <1>3, <1>5 DEF IsQuery

LEMMA LeastOfNaturals ==
  ASSUME NEW T \in SUBSET Nat, T # {}
  PROVE  \E m \in T : \A j \in T : m <= j
<1> DEFINE R == OpToRel(<, Nat)
<1>1. IsWellFoundedOn(R, Nat)
  BY NatLessThanWellFounded
<1>2. PICK m \in T : \A j \in T : <<j, m>> \notin R
  <2> HIDE DEF R
  <2>1. QED
    BY <1>1, WFMin
<1>3. \A j \in T : ~(j < m)
  BY <1>2 DEF OpToRel
<1>4. QED
  BY <1>3

LEMMA IndexInIs ==
  ASSUME NEW q, IsQuery(q), NEW r, OpenIn(q, r)
  PROVE  IndexIn(q, r) \in 1..Len(q.refs) /\ q.refs[IndexIn(q, r)] = r
<1>1. PICK s : s = q.refs
  OBVIOUS
<1>2. s \in Seq(AllRefs)
  BY <1>1 DEF IsQuery
<1>3. PICK i0 \in 1..Len(s) : s[i0] = r
  BY <1>1, <1>2 DEF OpenIn, ToSet
<1>4. Len(s) \in Nat /\ DOMAIN s = 1..Len(s)
  BY <1>2
<1>5. \E i \in 1..Len(s) : s[i] = r /\ \A j \in 1..(i - 1) : s[j] # r
  <2>1. PICK T : T = {i \in 1..Len(s) : s[i] = r}
    OBVIOUS
  <2>2. PICK m \in T : \A j \in T : m <= j
    <3>1. T \in SUBSET Nat /\ T # {}
      BY <1>3, <1>4, <2>1
    <3>2. QED
      BY <3>1, LeastOfNaturals
  <2>3. m \in 1..Len(s) /\ s[m] = r
    BY <2>1, <2>2
  <2>4. ASSUME NEW j \in 1..(m - 1) PROVE s[j] # r
    <3>1. j \in 1..Len(s) /\ j < m /\ ~(m <= j)
      BY <1>4, <2>3
    <3>2. QED
      BY <2>1, <2>2, <3>1
  <2>5. QED
    BY <2>3, <2>4
<1>6. QED
  BY <1>1, <1>4, <1>5 DEF IndexIn

Purpose(i) ==
  \/ ClosePane(i) \/ CloseAllPanes \/ ErrandDone
  \/ query.bt = i - 1 /\ (query.refs[i] = Launcher \/ PressSession(query.refs[i]))
  \/ page' # page
OnPurpose == \A i \in DOMAIN query.refs : query.refs[i] \notin ToSet(query'.refs) => Purpose(i)

\* What the buttons write
LEMMA PushedIs ==
  ASSUME NEW q, IsQuery(q), NEW r \in AllRefs
  PROVE  /\ IsQuery(Pushed(q, r))
         /\ \A i \in DOMAIN q.refs : q.refs[i] \notin ToSet(Pushed(q, r).refs) => i = q.bt + 1 /\ q.refs[i] = r
<1>1. PICK s : s = q.refs
  OBVIOUS
<1>2. s \in Seq(AllRefs) /\ Len(s) \in Nat /\ DOMAIN s = 1..Len(s) /\ q.bt \in Nat
  BY <1>1 DEF IsQuery
<1>3. CASE ~OpenIn(q, r)
  <2>1. PICK t : t = Append(s, r)
    OBVIOUS
  <2>2. t \in Seq(AllRefs) /\ Keeps(s, t)
    BY <1>2, <2>1, WithOneMore
  <2>3. Pushed(q, r) = SetRefs(q, t, Len(s))
    BY <1>1, <1>3, <2>1 DEF Pushed, Appended
  <2>4. IsQuery(SetRefs(q, t, Len(s))) /\ SetRefs(q, t, Len(s)).refs = t
    BY <1>2, <2>2, SetRefsIs
  <2>5. QED
    BY <1>1, <2>2, <2>3, <2>4 DEF Keeps
<1>4. CASE OpenIn(q, r)
  <2>1. PICK k : k = IndexIn(q, r)
    OBVIOUS
  <2>2. k \in 1..Len(s) /\ s[k] = r
    BY <1>1, <1>4, <2>1, IndexInIs
  <2>3. CASE k - 1 = q.bt
    <3>1. PICK t : t = RemoveAt(s, k)
      OBVIOUS
    <3>2. t \in Seq(AllRefs) /\ \A i \in 1..Len(s) : i # k => s[i] \in ToSet(t)
      BY <1>2, <2>2, <3>1, WithoutOne
    <3>3. Pushed(q, r) = SetRefs(q, t, q.bt)
      BY <1>1, <1>4, <2>1, <2>3, <3>1 DEF Pushed, Dropped
    <3>4. IsQuery(SetRefs(q, t, q.bt)) /\ SetRefs(q, t, q.bt).refs = t
      BY <1>2, <3>2, SetRefsIs
    <3>5. ASSUME NEW i \in DOMAIN s, s[i] \notin ToSet(t) PROVE i = q.bt + 1 /\ s[i] = r
      <4>1. i = k
        BY <1>2, <3>2, <3>5
      <4>2. QED
        BY <2>2, <2>3, <4>1
    <3>6. QED
      BY <1>1, <3>3, <3>4, <3>5
  <2>4. CASE k - 1 # q.bt
    <3>1. PICK p : p = Pushed(q, r)
      OBVIOUS
    <3>2. p = [q EXCEPT !.bt = k - 1]
      BY <1>4, <2>1, <2>4, <3>1 DEF Pushed, FocusedOn
    <3>3. p.refs = s /\ p.bt = k - 1 /\ DOMAIN p = DOMAIN q
      BY <1>1, <3>2 DEF IsQuery
    <3>4. k - 1 \in Nat
      BY <2>2
    <3>5. IsQuery(p)
      BY <1>2, <3>3, <3>4 DEF IsQuery
    <3>6. \A i \in DOMAIN s : s[i] \in ToSet(s)
      BY DEF ToSet
    <3>7. QED
      BY <1>1, <3>1, <3>3, <3>5, <3>6
  <2>5. QED
    BY <2>3, <2>4
<1>5. QED
  BY <1>3, <1>4

LEMMA AddedTabIs ==
  ASSUME NEW q, IsQuery(q), NEW r \in AllRefs
  PROVE  IsQuery(AddedTab(q, r)) /\ Keeps(q.refs, AddedTab(q, r).refs)
<1>1. PICK s, p : s = q.refs /\ p = AddedTab(q, r)
  OBVIOUS
<1>2. s \in Seq(AllRefs) /\ Len(s) \in Nat /\ DOMAIN s = 1..Len(s) /\ q.bt \in Nat
  BY <1>1 DEF IsQuery
<1>3. CASE ~OpenIn(q, r)
  <2>1. PICK t : t = Append(s, r)
    OBVIOUS
  <2>2. t \in Seq(AllRefs) /\ Keeps(s, t)
    BY <1>2, <2>1, WithOneMore
  <2>3. p = SetRefs(q, t, Len(s))
    BY <1>1, <1>3, <2>1 DEF AddedTab, Appended
  <2>4. IsQuery(SetRefs(q, t, Len(s))) /\ SetRefs(q, t, Len(s)).refs = t
    BY <1>2, <2>2, SetRefsIs
  <2>5. QED
    BY <1>1, <2>2, <2>3, <2>4
<1>4. CASE OpenIn(q, r)
  <2>1. PICK k : k = IndexIn(q, r)
    OBVIOUS
  <2>2. k \in 1..Len(s)
    BY <1>1, <1>4, <2>1, IndexInIs
  <2>3. p = [q EXCEPT !.bt = k - 1]
    BY <1>1, <1>4, <2>1 DEF AddedTab, FocusedOn
  <2>4. p.refs = s /\ p.bt = k - 1 /\ DOMAIN p = DOMAIN q /\ k - 1 \in Nat
    BY <1>1, <2>2, <2>3 DEF IsQuery
  <2>5. QED
    BY <1>1, <1>2, <2>4 DEF IsQuery, Keeps, ToSet
<1>5. QED
  BY <1>3, <1>4

\* The detail panel leaves the sessions alone.
LEMMA DetailKeepsPanes ==
  ASSUME NEW q, IsQuery(q), NEW o, NEW tab
  PROVE  IsQuery(Detailed(q, o, tab)) /\ Detailed(q, o, tab).refs = q.refs
<1>1. PICK u : u = [q EXCEPT !.d = o, !.tab = tab]
  OBVIOUS
<1>2. IsQuery(u) /\ u.refs = q.refs
  BY <1>1 DEF IsQuery
<1>3. QED
  BY <1>1, <1>2 DEF Detailed

LEMMA ClosedKeepsPanes ==
  ASSUME NEW q, IsQuery(q)
  PROVE  IsQuery(Closed(q)) /\ Closed(q).refs = q.refs
<1>1. PICK u : u = [q EXCEPT !.d = NoDetail, !.tab = NoTabName]
  OBVIOUS
<1>2. IsQuery(u) /\ u.refs = q.refs
  BY <1>1 DEF IsQuery
<1>3. QED
  BY <1>1, <1>2 DEF Closed

LEMMA TabKeepsPanes ==
  ASSUME NEW q, IsQuery(q), NEW tab
  PROVE  IsQuery([q EXCEPT !.tab = tab]) /\ [q EXCEPT !.tab = tab].refs = q.refs
<1>1. PICK u : u = [q EXCEPT !.tab = tab]
  OBVIOUS
<1>2. IsQuery(u) /\ u.refs = q.refs
  BY <1>1 DEF IsQuery
<1>3. QED
  BY <1>1, <1>2

LEMMA PanesStep == PanesInv /\ [PaneNext]_paneVars => PanesInv' /\ (OnPurpose \/ UNCHANGED paneVars)
<1> SUFFICES ASSUME PanesInv, [PaneNext]_paneVars PROVE PanesInv' /\ (OnPurpose \/ UNCHANGED paneVars)
  OBVIOUS
<1>1. /\ IsQuery(query) /\ (errand # NoErrand => IsQuery(errand.query))
      /\ query.refs \in Seq(AllRefs) /\ query.bt \in Nat /\ DOMAIN query.refs = 1..Len(query.refs) /\ Len(query.refs) \in Nat
  BY DEF PanesInv, IsQuery
<1>2. ASSUME NEW q, IsQuery(q), WriteHere(q),
             \A i \in DOMAIN query.refs : query.refs[i] \notin ToSet(q.refs) => Purpose(i)
      PROVE  PanesInv' /\ OnPurpose
  BY <1>1, <1>2 DEF WriteHere, Write, PanesInv, OnPurpose
<1>3. \A s : \A i \in DOMAIN s : s[i] \in ToSet(s)
  BY DEF ToSet
<1>4. ASSUME NEW q, IsQuery(q), WriteHere(q), q.refs = query.refs PROVE PanesInv' /\ OnPurpose
  BY <1>2, <1>3, <1>4
<1>5. ASSUME NEW r \in PaneRefs, PressSession(r) PROVE PanesInv' /\ OnPurpose
  <2>1. r \in AllRefs /\ WriteHere(Pushed(query, r))
    BY <1>5 DEF AllRefs, PressSession
  <2>2. /\ IsQuery(Pushed(query, r))
        /\ \A i \in DOMAIN query.refs :
              query.refs[i] \notin ToSet(Pushed(query, r).refs) => i = query.bt + 1 /\ query.refs[i] = r
    BY <1>1, <2>1, PushedIs
  <2>3. \A i \in DOMAIN query.refs : i = query.bt + 1 /\ query.refs[i] = r => Purpose(i)
    BY <1>1, <1>5 DEF Purpose
  <2>4. QED
    BY <1>2, <2>1, <2>2, <2>3
<1>6. ASSUME NEW r \in PaneRefs, LaunchTerminal(r) PROVE PanesInv' /\ OnPurpose
  <2>1. PICK s, b, t : s = query.refs /\ b = query.bt + 1 /\ t = [s EXCEPT ![b] = r]
    OBVIOUS
  <2>2. s \in Seq(AllRefs) /\ b \in Nat /\ DOMAIN s = 1..Len(s) /\ Len(s) \in Nat /\ r \in AllRefs
    BY <1>1, <2>1 DEF AllRefs
  <2>3. t \in Seq(AllRefs) /\ DOMAIN t = DOMAIN s /\ \A i \in DOMAIN s : i # b => t[i] = s[i]
    <3>1. \A i \in 1..Len(s) : s[i] \in AllRefs
      BY <2>2
    <3>2. \A i \in 1..Len(s) : t[i] = IF i = b THEN r ELSE s[i]
      BY <2>1, <2>2
    <3>3. DOMAIN t = 1..Len(s) /\ t = [i \in 1..Len(s) |-> t[i]]
      BY <2>1, <2>2
    <3>4. t \in [1..Len(s) -> AllRefs]
      BY <2>2, <3>1, <3>2, <3>3
    <3>5. t \in Seq(AllRefs)
      BY <2>2, <3>4, SeqDef
    <3>6. QED
      BY <2>2, <3>2, <3>3, <3>5
  <2>4. PICK q : q = [query EXCEPT !.refs = t]
    OBVIOUS
  <2>5. q.refs = t /\ q.bt = query.bt /\ DOMAIN q = DOMAIN query
    BY <1>1, <2>4 DEF IsQuery
  <2>6. IsQuery(q)
    BY <1>1, <2>3, <2>5 DEF IsQuery
  <2>7. WriteHere(q) /\ ActiveRef(query) = Launcher
    BY <1>6, <2>1, <2>4 DEF LaunchTerminal
  <2>8. ASSUME NEW i \in DOMAIN query.refs, query.refs[i] \notin ToSet(t) PROVE Purpose(i)
    <3>1. i = b
      BY <2>1, <2>3, <2>8 DEF ToSet
    <3>2. query.bt < Len(query.refs) /\ query.refs # <<>>
      BY <1>1, <2>1, <2>8, <3>1
    <3>3. ActiveRef(query) = query.refs[query.bt + 1]
      BY <3>2 DEF ActiveRef, ActiveIdx
    <3>4. query.refs[i] = Launcher /\ query.bt = i - 1
      BY <1>1, <2>1, <2>7, <3>1, <3>3
    <3>5. QED
      BY <3>4 DEF Purpose
  <2>9. QED
    BY <1>2, <2>5, <2>6, <2>7, <2>8
<1>7. ASSUME NEW r \in AllRefs, AddTab(r) PROVE PanesInv' /\ OnPurpose
  <2>1. IsQuery(AddedTab(query, r)) /\ Keeps(query.refs, AddedTab(query, r).refs)
    BY <1>1, AddedTabIs
  <2>2. QED
    BY <1>2, <1>7, <2>1 DEF AddTab, Keeps
<1>8. ASSUME NEW i \in 1..MaxPanes, SelectPane(i) PROVE PanesInv' /\ OnPurpose
  <2>1. i - 1 \in Nat /\ WriteHere(SetRefs(query, query.refs, i - 1))
    BY <1>8 DEF SelectPane
  <2>2. IsQuery(SetRefs(query, query.refs, i - 1)) /\ SetRefs(query, query.refs, i - 1).refs = query.refs
    BY <1>1, <2>1, SetRefsIs
  <2>3. QED
    BY <1>4, <2>1, <2>2
<1>9. ASSUME NEW i \in 1..MaxPanes, ClosePane(i) PROVE PanesInv' /\ OnPurpose
  <2>1. PICK t : t = RemoveAt(query.refs, i)
    OBVIOUS
  <2>2. i \in 1..Len(query.refs) /\ WriteHere(SetRefs(query, t, query.bt))
    BY <1>1, <1>9, <2>1 DEF ClosePane, Dropped
  <2>3. t \in Seq(AllRefs) /\ \A j \in 1..Len(query.refs) : j # i => query.refs[j] \in ToSet(t)
    BY <1>1, <2>1, <2>2, WithoutOne
  <2>4. IsQuery(SetRefs(query, t, query.bt)) /\ SetRefs(query, t, query.bt).refs = t
    BY <1>1, <2>3, SetRefsIs
  <2>5. \A j \in DOMAIN query.refs : query.refs[j] \notin ToSet(t) => Purpose(j)
    BY <1>1, <1>9, <2>3 DEF Purpose
  <2>6. QED
    BY <1>2, <2>2, <2>4, <2>5
<1>10. CASE CloseAllPanes
  <2>1. <<>> \in Seq(AllRefs) /\ 0 \in Nat
    OBVIOUS
  <2>2. IsQuery(SetRefs(query, <<>>, 0))
    BY <1>1, <2>1, SetRefsIs
  <2>3. WriteHere(SetRefs(query, <<>>, 0)) /\ \A i : Purpose(i)
    BY <1>10 DEF CloseAllPanes, Purpose
  <2>4. QED
    BY <1>2, <2>2, <2>3
<1>11. ASSUME NEW o \in Details, LinkTo(o) PROVE PanesInv' /\ OnPurpose
  <2>1. WriteHere(Closed(query)) \/ WriteHere(Detailed(query, o, NoTabName))
    BY <1>11 DEF LinkTo
  <2>2. /\ IsQuery(Closed(query)) /\ Closed(query).refs = query.refs
        /\ IsQuery(Detailed(query, o, NoTabName)) /\ Detailed(query, o, NoTabName).refs = query.refs
    BY <1>1, ClosedKeepsPanes, DetailKeepsPanes
  <2>3. QED
    BY <1>4, <2>1, <2>2
<1>12. ASSUME NEW o \in Details, NEW tab, OpenDetail(o, tab) PROVE PanesInv' /\ OnPurpose
  <2>1. WriteHere(Detailed(query, o, tab))
    BY <1>12 DEF OpenDetail
  <2>2. IsQuery(Detailed(query, o, tab)) /\ Detailed(query, o, tab).refs = query.refs
    BY <1>1, ClosedKeepsPanes, DetailKeepsPanes
  <2>3. QED
    BY <1>4, <2>1, <2>2
<1>13. CASE GoTab("events")
  BY <1>1, <1>4, <1>13, TabKeepsPanes DEF GoTab
<1>14. CASE CloseDetail
  BY <1>1, <1>4, <1>14, ClosedKeepsPanes DEF CloseDetail
<1>15. ASSUME NEW p \in PanePages, GoPage(p) PROVE PanesInv' /\ OnPurpose
  <2>1. query' = NoPanes /\ page' # page /\ errand' = errand
    BY <1>15 DEF GoPage, Write
  <2>2. IsQuery(NoPanes)
    BY DEF IsQuery, NoPanes
  <2>3. QED
    BY <1>1, <2>1, <2>2 DEF PanesInv, OnPurpose, Purpose
<1>16. ASSUME NEW kind \in {"shell", "delete"}, StartErrand(kind) PROVE PanesInv' /\ OnPurpose
  <2>1. errand' = [kind |-> kind, query |-> query, page |-> page] /\ query' = query
    BY <1>16 DEF StartErrand
  <2>2. errand'.query = query
    BY <2>1
  <2>3. QED
    BY <1>1, <1>3, <2>1, <2>2 DEF PanesInv, OnPurpose
<1>17. CASE ErrandDone
  <2>1. ShellRef \in AllRefs /\ IsQuery(errand.query) /\ errand' = NoErrand
    BY <1>1, <1>17, PanesAssumption DEF ErrandDone, AllRefs
  <2>2. query' = (IF errand.kind = "shell" THEN Pushed(errand.query, ShellRef) ELSE Closed(errand.query))
    BY <1>17 DEF ErrandDone, Write
  <2>3. IsQuery(query')
    BY <2>1, <2>2, PushedIs, ClosedKeepsPanes
  <2>4. QED
    BY <1>17, <2>1, <2>3 DEF PanesInv, OnPurpose, Purpose
<1>18. CASE ErrandFailed
  BY <1>1, <1>3, <1>18 DEF ErrandFailed, PanesInv, OnPurpose
<1>19. CASE UNCHANGED paneVars
  BY <1>19 DEF paneVars, PanesInv
<1>20. QED
  BY <1>5, <1>6, <1>7, <1>8, <1>9, <1>10, <1>11, <1>12, <1>13, <1>14, <1>15, <1>16, <1>17, <1>18, <1>19
     DEF PaneNext

(* A session of the bottom pane closes only because its close button was        *)
(* pressed, its own button while it was shown, the launcher was used up, or the *)
(* page was left: no other handler that rewrites the address drops one, and     *)
(* an answer of the server is the only one that brings back an old address.     *)
THEOREM PanesCloseOnPurpose == PaneSpec => SessionsCloseOnPurpose
<1>1. PaneInit => PanesInv
  <2>1. IsQuery(NoPanes)
    BY DEF IsQuery, NoPanes
  <2>2. QED
    BY <2>1 DEF PaneInit, PanesInv
<1>2. PanesInv /\ [PaneNext]_paneVars => PanesInv'
  BY PanesStep
<1>3. PanesInv /\ [PaneNext]_paneVars =>
        [\A i \in DOMAIN query.refs : query.refs[i] \notin ToSet(query'.refs) =>
           \/ ClosePane(i) \/ CloseAllPanes \/ ErrandDone
           \/ query.bt = i - 1 /\ (query.refs[i] = Launcher \/ PressSession(query.refs[i]))
           \/ page' # page]_paneVars
  BY PanesStep DEF OnPurpose, Purpose
<1>4. QED
  BY <1>1, <1>2, <1>3, PTL DEF PaneSpec, SessionsCloseOnPurpose

-----------------------------------------------------------------------------
(* The dialogs of a table.  Until an answer races with a dialog that is not    *)
(* rendered, the stack has exactly one dialog of each run that waits, of the    *)
(* step it waits at, and none of any other run: a run that comes back from the  *)
(* server can push onto it blindly.                                           *)

Dialogs == [of : Runs, step : Nat]
AwaitedOnce(q, r) ==
  \A h \in Runs :
     IF r[h].stage = "wait"
     THEN \E i \in DOMAIN q : q[i].step = r[h].step /\ \A j \in DOMAIN q : q[j].of = h <=> j = i
     ELSE \A j \in DOMAIN q : q[j].of # h
RunFields == {"kind", "stage", "step", "items", "left", "failed", "shown"}
RunOK(r) == DOMAIN r = RunFields /\ r.step \in Nat /\ r.left \subseteq r.items /\ r.items \subseteq r.shown
RunsOK(f) == DOMAIN f = Runs /\ \A h \in Runs : RunOK(f[h])
TableInv ==
  /\ stack \in Seq(Dialogs) /\ late \in Seq(Dialogs)
  /\ DOMAIN objects = Names
  /\ RunsOK(run)
  /\ ~raced => AwaitedOnce(stack \o late, run)

LEMMA PushesAtTheEnd ==
  ASSUME NEW s \in Seq(Dialogs), NEW l \in Seq(Dialogs), NEW d \in Dialogs
  PROVE  /\ s \o l \in Seq(Dialogs) /\ (s \o l) \o <<d>> = Append(s \o l, d)
         /\ s \o Append(l, d) = Append(s \o l, d)
         /\ s \o <<>> = s
<1>1. s \o l \in Seq(Dialogs)
  BY ConcatProperties
<1>2. Append(s \o l, d) = (s \o l) \o <<d>> /\ Append(l, d) = l \o <<d>> /\ <<d>> \in Seq(Dialogs)
  <2>1. Append(s \o l, d) = (s \o l) \o <<d>>
    BY <1>1, AppendIsConcat, Zenon
  <2>2. Append(l, d) = l \o <<d>>
    BY AppendIsConcat
  <2>3. <<d>> \in Seq(Dialogs)
    OBVIOUS
  <2> QED
    BY <2>1, <2>2, <2>3
<1>3. s \o (l \o <<d>>) = (s \o l) \o <<d>> /\ s \o <<>> = s
  BY <1>2, ConcatAssociative, ConcatEmptySeq
<1> QED
  BY <1>1, <1>2, <1>3

LEMMA FrontIsRest ==
  ASSUME NEW q \in Seq(Dialogs), q # <<>>
  PROVE  /\ Front(q) \in Seq(Dialogs) /\ Len(Front(q)) = Len(q) - 1 /\ Len(q) > 0
         /\ \A i \in 1..(Len(q) - 1) : Front(q)[i] = q[i]
         /\ Last(q) = q[Len(q)] /\ Last(q) \in Dialogs
<1>1. Len(q) \in Nat /\ Len(q) > 0
  BY EmptySeq
<1>2. \A i \in 1..(Len(q) - 1) : q[i] \in Dialogs
  BY <1>1
<1>3. /\ Front(q) \in Seq(Dialogs) /\ Len(Front(q)) = Len(q) - 1
      /\ \A i \in 1..(Len(q) - 1) : Front(q)[i] = q[i]
  <2> DEFINE n == Len(q) - 1
  <2>1. n \in Int /\ 1 \in Int /\ \A i \in 1..n : q[i] \in Dialogs
    BY <1>1, <1>2
  <2>2. /\ SubSeq(q, 1, n) \in Seq(Dialogs)
        /\ Len(SubSeq(q, 1, n)) = IF 1 <= n THEN n - 1 + 1 ELSE 0
        /\ \A i \in 1..(n - 1 + 1) : SubSeq(q, 1, n)[i] = q[1 + i - 1]
    <3> HIDE DEF n
    <3> QED
      BY <2>1, SubSeqProperties
  <2>3. Front(q) = SubSeq(q, 1, n)
    BY DEF Front
  <2> n \in Nat
    BY <1>1
  <2> HIDE DEF n
  <2>4. n - 1 + 1 = n /\ (~(1 <= n) => n = 0) /\ \A i \in 1..n : 1 + i - 1 = i
    OBVIOUS
  <2>5. Len(Front(q)) = n /\ \A i \in 1..n : Front(q)[i] = q[i]
    BY <2>2, <2>3, <2>4
  <2> QED
    BY <2>2, <2>3, <2>5 DEF n
<1> QED
  BY <1>1, <1>3 DEF Last

\* A run that had no dialog gets the one that is pushed.
LEMMA PushIsAwaited ==
  ASSUME NEW q \in Seq(Dialogs), NEW r, NEW t, NEW h \in Runs, NEW d \in Dialogs,
         AwaitedOnce(q, r), r[h].stage # "wait", d.of = h,
         t[h].stage = "wait", t[h].step = d.step, \A g \in Runs \ {h} : t[g] = r[g]
  PROVE  AwaitedOnce(Append(q, d), t)
<1> DEFINE n == Len(q)
           p == Append(q, d)
<1>1. n \in Nat /\ DOMAIN q = 1..n /\ DOMAIN p = 1..(n + 1) /\ p[n + 1] = d /\ \A i \in 1..n : p[i] = q[i]
  BY AppendProperties, LenProperties
<1> HIDE DEF n, p
<1>2. \A j \in DOMAIN q : q[j].of # h
  BY DEF AwaitedOnce
<1>3. ASSUME NEW g \in Runs, g # h
      PROVE  IF t[g].stage = "wait"
             THEN \E i \in DOMAIN p : p[i].step = t[g].step /\ \A j \in DOMAIN p : p[j].of = g <=> j = i
             ELSE \A j \in DOMAIN p : p[j].of # g
  <2>1. t[g] = r[g] /\ d.of # g
    BY <1>3
  <2>2. CASE r[g].stage = "wait"
    <3>1. PICK i \in DOMAIN q : q[i].step = r[g].step /\ \A j \in DOMAIN q : q[j].of = g <=> j = i
      BY <1>3, <2>2 DEF AwaitedOnce
    <3> QED
      BY <1>1, <2>1, <2>2, <3>1
  <2>3. CASE r[g].stage # "wait"
    BY <1>1, <1>3, <2>1, <2>3 DEF AwaitedOnce
  <2> QED
    BY <2>2, <2>3
<1>4. n + 1 \in DOMAIN p /\ p[n + 1].step = t[h].step /\ \A j \in DOMAIN p : p[j].of = h <=> j = n + 1
  BY <1>1, <1>2
<1> QED
  BY <1>3, <1>4 DEF AwaitedOnce, p

\* The last dialog goes, and with it the wait of its run, if it did wait.
LEMMA PopIsAnswered ==
  ASSUME NEW q \in Seq(Dialogs), q # <<>>, NEW r, NEW t, AwaitedOnce(q, r),
         NEW h, h = Last(q).of, t[h].stage # "wait", \A g \in Runs \ {h} : t[g] = r[g]
  PROVE  AwaitedOnce(Front(q), t)
<1> DEFINE n == Len(q)
           p == Front(q)
<1>1. /\ n \in Nat /\ n > 0 /\ DOMAIN q = 1..n /\ DOMAIN p = 1..(n - 1)
      /\ q[n].of = h /\ h \in Runs /\ \A i \in 1..(n - 1) : p[i] = q[i]
  <2>1. /\ p \in Seq(Dialogs) /\ Len(p) = n - 1 /\ n > 0 /\ \A i \in 1..(n - 1) : p[i] = q[i]
        /\ Last(q) = q[n] /\ Last(q) \in Dialogs
    BY FrontIsRest
  <2> QED
    BY <2>1, LenProperties DEF Dialogs
<1> HIDE DEF n, p
<1>2. ASSUME NEW g \in Runs, g # h
      PROVE  IF t[g].stage = "wait"
             THEN \E i \in DOMAIN p : p[i].step = t[g].step /\ \A j \in DOMAIN p : p[j].of = g <=> j = i
             ELSE \A j \in DOMAIN p : p[j].of # g
  <2>1. CASE r[g].stage = "wait"
    <3>1. PICK i \in DOMAIN q : q[i].step = r[g].step /\ \A j \in DOMAIN q : q[j].of = g <=> j = i
      BY <1>2, <2>1 DEF AwaitedOnce
    <3>2. i # n
      BY <1>1, <1>2, <3>1
    <3> QED
      BY <1>1, <1>2, <2>1, <3>1, <3>2
  <2>2. CASE r[g].stage # "wait"
    BY <1>1, <1>2, <2>2 DEF AwaitedOnce
  <2> QED
    BY <2>1, <2>2
<1>3. \A j \in DOMAIN p : p[j].of # h
  <2>1. CASE r[h].stage = "wait"
    <3>1. PICK i \in DOMAIN q : \A j \in DOMAIN q : q[j].of = h <=> j = i
      BY <1>1, <2>1 DEF AwaitedOnce
    <3> QED
      BY <1>1, <3>1
  <2>2. CASE r[h].stage # "wait"
    BY <1>1, <2>2 DEF AwaitedOnce
  <2> QED
    BY <2>1, <2>2
<1> QED
  BY <1>2, <1>3 DEF AwaitedOnce, p

LEMMA AwaitedByStage ==
  ASSUME NEW q, NEW r, NEW t, AwaitedOnce(q, r),
         \A h \in Runs : (t[h].stage = "wait" <=> r[h].stage = "wait") /\ t[h].step = r[h].step
  PROVE  AwaitedOnce(q, t)
BY DEF AwaitedOnce

LEMMA NoRunIsOK == RunOK(NoRun) /\ NoRun.stage = "idle"
BY DEF RunOK, NoRun, RunFields

\* Awaiting a dialog.
LEMMA AwaitIsOK ==
  ASSUME NEW h \in Runs, RunsOK(run), NEW s \in Nat
  PROVE  /\ RunsOK(Await(h, s)) /\ Await(h, s)[h].stage = "wait" /\ Await(h, s)[h].step = s
         /\ \A g \in Runs \ {h} : Await(h, s)[g] = run[g]
BY DEF RunsOK, RunOK, RunFields, Await

LEMMA EndIsOK ==
  ASSUME NEW h \in Runs, RunsOK(run), NEW keep, EndRun(h, keep)
  PROVE  RunsOK(run') /\ run'[h].stage # "wait" /\ \A g \in Runs \ {h} : run'[g] = run[g]
BY NoRunIsOK DEF RunsOK, EndRun

-----------------------------------------------------------------------------
\* A dialog is opened, by a click or by a run that is back.
LEMMA Opens ==
  ASSUME TableInv, NEW h \in Runs, NEW s \in Nat, run[h].stage # "wait",
         OpenNow(Dialog(h, s)) \/ OpenLater(Dialog(h, s)), UNCHANGED objects,
         RunsOK(run'), run'[h].stage = "wait", run'[h].step = s, \A g \in Runs \ {h} : run'[g] = run[g]
  PROVE  TableInv'
<1> DEFINE d == Dialog(h, s)
<1>1. d \in Dialogs /\ d.of = h /\ d.step = s
  BY DEF Dialog, Dialogs
<1> HIDE DEF d
<1>2. /\ stack \o late \in Seq(Dialogs) /\ (stack \o late) \o <<d>> = Append(stack \o late, d)
      /\ stack \o Append(late, d) = Append(stack \o late, d)
  BY <1>1, PushesAtTheEnd DEF TableInv
<1>3. Append(stack \o late, d) \in Seq(Dialogs) /\ Append(late, d) \in Seq(Dialogs)
  BY <1>1, <1>2, AppendProperties DEF TableInv
<1>4. stack' \in Seq(Dialogs) /\ late' \in Seq(Dialogs) /\ stack' \o late' = Append(stack \o late, d) /\ raced' = raced
  <2>1. CASE OpenNow(d)
    <3>1. stack' = Append(stack \o late, d) /\ late' = <<>> /\ raced' = raced
      BY <1>2, <2>1 DEF OpenNow
    <3>2. Append(stack \o late, d) \o <<>> = Append(stack \o late, d)
      BY <1>3, ConcatEmptySeq
    <3> QED
      BY <1>3, <3>1, <3>2, EmptySeq
  <2>2. CASE OpenLater(d)
    BY <1>2, <1>3, <2>2 DEF OpenLater, TableInv
  <2> QED
    BY <2>1, <2>2 DEF d
<1>5. ~raced' => AwaitedOnce(stack' \o late', run')
  <2>1. CASE raced'
    BY <2>1
  <2>2. CASE ~raced'
    <3>1. AwaitedOnce(stack \o late, run)
      BY <1>4, <2>2 DEF TableInv
    <3>2. AwaitedOnce(Append(stack \o late, d), run')
      <4>1. run'[h].step = d.step
        BY <1>1
      <4> DEFINE q == stack \o late
      <4>2. q \in Seq(Dialogs) /\ AwaitedOnce(q, run)
        BY <1>2, <3>1
      <4> HIDE DEF q
      <4>3. AwaitedOnce(Append(q, d), run')
        BY <1>1, <4>1, <4>2, PushIsAwaited
      <4> QED
        BY <4>3 DEF q
    <3> QED
      BY <1>4, <3>2
  <2> QED
    BY <2>1, <2>2
<1> QED
  BY <1>4, <1>5 DEF TableInv

LEMMA DialogsStand ==
  ASSUME TableInv, UNCHANGED dialogVars, DOMAIN objects' = Names, RunsOK(run'),
         \A h \in Runs : (run'[h].stage = "wait" <=> run[h].stage = "wait") /\ run'[h].step = run[h].step
  PROVE  TableInv'
<1>1. stack' = stack /\ late' = late /\ raced' = raced
  BY DEF dialogVars
<1>2. ASSUME AwaitedOnce(stack \o late, run) PROVE AwaitedOnce(stack \o late, run')
  BY <1>2, AwaitedByStage
<1> QED
  BY <1>1, <1>2 DEF TableInv

LEMMA StartOpens ==
  ASSUME TableInv, NEW h \in Runs, NEW kind, NEW items, NEW shown, items \subseteq shown,
         Start(h, kind, items, shown), UNCHANGED objects
  PROVE  TableInv'
<1> DEFINE r == [NoRun EXCEPT !.kind = kind, !.items = items, !.shown = shown]
           c == [r EXCEPT !.stage = IF kind = "walk" THEN "look" ELSE "call", !.left = items]
<1>1. RunsOK(run) /\ run[h] = NoRun /\ NoRun.stage = "idle" /\ NoRun.step = 0
  BY DEF Start, Free, TableInv, NoRun
<1>2. RunOK(c) /\ c.stage # "wait" /\ c.step = 0
  BY DEF NoRun, RunOK, RunFields
<1>3. CASE kind \in {"direct", "walk"}
  <2>1. run' = [run EXCEPT ![h] = c] /\ UNCHANGED dialogVars
    BY <1>3 DEF Start
  <2> HIDE DEF c
  <2>2. RunsOK(run') /\ \A g \in Runs : (run'[g].stage = "wait" <=> run[g].stage = "wait") /\ run'[g].step = run[g].step
    BY <1>1, <1>2, <2>1 DEF RunsOK
  <2> QED
    BY <2>1, <2>2, DialogsStand DEF TableInv
<1>4. CASE kind \notin {"direct", "walk"}
  <2>1. PICK s \in Questions(kind) : /\ run' = [run EXCEPT ![h] = [r EXCEPT !.stage = "wait", !.step = s]]
                                     /\ OpenNow(Dialog(h, s))
    BY <1>4 DEF Start
  <2> DEFINE w == [r EXCEPT !.stage = "wait", !.step = s]
  <2>2. s \in Nat
    BY DEF Questions
  <2>3. RunOK(w) /\ w.stage = "wait" /\ w.step = s
    BY <2>2 DEF NoRun, RunOK, RunFields
  <2> HIDE DEF w
  <2>4. run' = [run EXCEPT ![h] = w]
    BY <2>1 DEF w
  <2>5. RunsOK(run') /\ run'[h].stage = "wait" /\ run'[h].step = s /\ \A g \in Runs \ {h} : run'[g] = run[g]
    BY <1>1, <2>3, <2>4 DEF RunsOK
  <2> QED
    BY <1>1, <2>1, <2>2, <2>5, Opens
<1> QED
  BY <1>3, <1>4

LEMMA AnswerTakesItsDialog ==
  ASSUME TableInv, NEW yes \in BOOLEAN, Answer(yes)
  PROVE  TableInv'
<1> DEFINE d == Last(stack)
           r == run[d.of]
           awaited == r.stage = "wait" /\ r.step = d.step
           again == awaited /\ yes /\ d.step > 1
           next == IF again THEN <<Dialog(d.of, d.step - 1)>> ELSE <<>>
           all == stack \o late
<1>1. stack \in Seq(Dialogs) /\ late \in Seq(Dialogs) /\ stack # <<>> /\ d \in Dialogs /\ d.of \in Runs /\ d.step \in Nat
  BY FrontIsRest DEF TableInv, Answer, Dialogs
<1>2. all \in Seq(Dialogs) /\ all # <<>> /\ RunsOK(run)
  BY <1>1, ConcatProperties, EmptySeq DEF TableInv
<1>3. Front(all) \in Seq(Dialogs)
  BY <1>2, FrontIsRest
<1>4. stack' = Front(all) \o next /\ late' = <<>> /\ raced' = (raced \/ late # <<>>) /\ objects' = objects
  BY DEF Answer, Resolve, OnDisplay
<1>5. next \in Seq(Dialogs)
  <2>1. CASE again
    <3>1. Dialog(d.of, d.step - 1) \in Dialogs
      BY <1>1, <2>1 DEF Dialog, Dialogs
    <3> QED
      BY <2>1, <3>1
  <2>2. CASE ~again
    BY <2>2
  <2> QED
    BY <2>1, <2>2
<1>6. stack' \in Seq(Dialogs) /\ late' \in Seq(Dialogs) /\ stack' \o late' = stack'
  BY <1>3, <1>4, <1>5, ConcatProperties, ConcatEmptySeq, EmptySeq
<1>7. CASE ~awaited
  <2>1. run' = run /\ next = <<>>
    BY <1>7 DEF Answer, OnDisplay
  <2>2. ASSUME ~raced' PROVE AwaitedOnce(stack', run')
    <3>1. late = <<>> /\ all = stack /\ AwaitedOnce(stack, run)
      BY <1>1, <1>4, <2>2, ConcatEmptySeq DEF TableInv
    <3>2. r.stage # "wait"
      <4>1. Len(stack) \in DOMAIN stack /\ stack[Len(stack)] = d
        BY <1>1, FrontIsRest, LenProperties
      <4>2. SUFFICES ASSUME r.stage = "wait" PROVE FALSE
        OBVIOUS
      <4>3. PICK i \in DOMAIN stack : stack[i].step = r.step /\ \A j \in DOMAIN stack : stack[j].of = d.of <=> j = i
        BY <1>1, <3>1, <4>2 DEF AwaitedOnce
      <4>4. d.step = r.step
        BY <4>1, <4>3
      <4> QED
        BY <1>7, <4>2, <4>4
    <3>3. AwaitedOnce(Front(stack), run)
      BY <1>1, <3>1, <3>2, PopIsAnswered
    <3> QED
      BY <1>3, <1>4, <2>1, <3>1, <3>3, ConcatEmptySeq
  <2> QED
    BY <1>2, <1>4, <1>6, <2>1, <2>2 DEF TableInv
<1>8. CASE again
  <2> DEFINE e == Dialog(d.of, d.step - 1)
             t == [run EXCEPT ![d.of] = NoRun]
  <2>1. run' = Await(d.of, d.step - 1) /\ next = <<e>>
    BY <1>8 DEF Answer, OnDisplay
  <2>2. d.step - 1 \in Nat /\ e \in Dialogs /\ e.of = d.of /\ e.step = d.step - 1
    BY <1>1, <1>8 DEF Dialog, Dialogs
  <2> HIDE DEF e
  <2>3. /\ RunsOK(run') /\ run'[d.of].stage = "wait" /\ run'[d.of].step = d.step - 1
        /\ \A g \in Runs \ {d.of} : run'[g] = run[g]
    BY <1>1, <1>2, <2>1, <2>2, AwaitIsOK
  <2>4. ASSUME ~raced' PROVE AwaitedOnce(stack', run')
    <3>1. late = <<>> /\ all = stack /\ AwaitedOnce(stack, run)
      BY <1>1, <1>4, <2>4, ConcatEmptySeq DEF TableInv
    <3>2. t[d.of].stage # "wait" /\ \A g \in Runs \ {d.of} : t[g] = run[g]
      BY <1>1, <1>2, NoRunIsOK DEF RunsOK
    <3>3. AwaitedOnce(Front(stack), t)
      <4> HIDE DEF t
      <4> QED
        BY <1>1, <3>1, <3>2, PopIsAnswered
    <3>4. Front(stack) \in Seq(Dialogs) /\ Front(stack) \o <<e>> = Append(Front(stack), e)
      BY <1>3, <2>2, <3>1, AppendIsConcat
    <3>5. \A g \in Runs \ {d.of} : run'[g] = t[g]
      BY <2>3, <3>2
    <3>6. AwaitedOnce(Append(Front(stack), e), run')
      <4> DEFINE q == Front(stack)
                 h == d.of
      <4>1. q \in Seq(Dialogs) /\ AwaitedOnce(q, t) /\ h \in Runs /\ t[h].stage # "wait" /\ e.of = h
        BY <1>1, <2>2, <3>2, <3>3, <3>4
      <4>2. run'[h].stage = "wait" /\ run'[h].step = e.step /\ \A g \in Runs \ {h} : run'[g] = t[g]
        BY <2>2, <2>3, <3>5
      <4> HIDE DEF t, d, q, h
      <4>3. AwaitedOnce(Append(q, e), run')
        BY <2>2, <4>1, <4>2, PushIsAwaited
      <4> QED
        BY <4>3 DEF q
    <3> QED
      BY <1>4, <2>1, <3>1, <3>4, <3>6
  <2> QED
    BY <1>4, <1>6, <2>3, <2>4 DEF TableInv
<1>9. CASE awaited /\ ~again
  <2>1. next = <<>>
    BY <1>9
  <2>2. RunsOK(run') /\ run'[d.of].stage # "wait" /\ \A g \in Runs \ {d.of} : run'[g] = run[g]
    <3>1. CASE yes /\ d.step = 1
      <4>1. run' = [run EXCEPT ![d.of].stage = "call", ![d.of].left = r.items]
        BY <1>9, <3>1 DEF Answer, OnDisplay
      <4> HIDE DEF d
      <4> QED
        BY <1>1, <1>2, <4>1 DEF RunsOK, RunOK, RunFields
    <3>2. CASE ~(yes /\ d.step = 1)
      <4>1. EndRun(d.of, d.step > 0)
        BY <1>9, <3>2 DEF Answer, OnDisplay
      <4> QED
        BY <1>1, <1>2, <4>1, EndIsOK
    <3> QED
      BY <3>1, <3>2
  <2>3. ASSUME ~raced' PROVE AwaitedOnce(stack', run')
    <3>1. late = <<>> /\ all = stack /\ AwaitedOnce(stack, run)
      BY <1>1, <1>4, <2>3, ConcatEmptySeq DEF TableInv
    <3>2. AwaitedOnce(Front(stack), run')
      BY <1>1, <2>2, <3>1, PopIsAnswered
    <3> QED
      BY <1>3, <1>4, <2>1, <3>1, <3>2, ConcatEmptySeq
  <2> QED
    BY <1>4, <1>6, <2>2, <2>3 DEF TableInv
<1> QED
  BY <1>7, <1>8, <1>9

LEMMA PaintShows ==
  ASSUME TableInv, Paint
  PROVE  TableInv'
<1>1. /\ stack' = stack \o late /\ late' = <<>> /\ UNCHANGED <<raced, run, objects>>
  BY DEF Paint, RenderDialogs, tableVars
<1>2. stack \o late \in Seq(Dialogs) /\ (stack \o late) \o <<>> = stack \o late /\ <<>> \in Seq(Dialogs)
  BY ConcatProperties, ConcatEmptySeq, EmptySeq DEF TableInv
<1> QED
  BY <1>1, <1>2 DEF TableInv

LEMMA LookedUpAsks ==
  ASSUME TableInv, NEW h \in Runs, LookedUp(h)
  PROVE  TableInv'
<1>1. PICK s \in {0, 1} : run' = Await(h, s) /\ OpenLater(Dialog(h, s))
  BY DEF LookedUp
<1>2. RunsOK(run) /\ run[h].stage # "wait" /\ objects' = objects /\ s \in Nat
  BY DEF LookedUp, TableInv
<1> QED
  BY <1>1, <1>2, AwaitIsOK, Opens

LEMMA ServedRunIsOK ==
  ASSUME TableInv, NEW h \in Runs, NEW n \in Names, ServeRun(h, n)
  PROVE  TableInv'
<1>1. PICK ok \in BOOLEAN : run' = [run EXCEPT ![h].left = @ \ {n}, ![h].failed = @ \/ ~ok]
  BY DEF ServeRun
<1>2. RunsOK(run) /\ UNCHANGED dialogVars /\ DOMAIN objects' = Names
  BY DEF TableInv, ServeRun
<1>3. RunsOK(run') /\ \A g \in Runs : run'[g].stage = run[g].stage /\ run'[g].step = run[g].step
  BY <1>1, <1>2 DEF RunsOK, RunOK, RunFields
<1> QED
  BY <1>2, <1>3, DialogsStand

LEMMA SettledTells ==
  ASSUME TableInv, NEW h \in Runs, RunSettled(h)
  PROVE  TableInv'
<1>1. RunsOK(run) /\ run[h].stage = "call" /\ objects' = objects /\ DOMAIN objects = Names
  BY DEF RunSettled, TableInv
<1>2. CASE run' = Await(h, 0) /\ OpenLater(Dialog(h, 0))
  BY <1>1, <1>2, AwaitIsOK, Opens
<1>3. CASE EndRun(h, FALSE) /\ UNCHANGED dialogVars
  <2>1. run' = [run EXCEPT ![h] = NoRun]
    BY <1>3 DEF EndRun
  <2>2. RunsOK(run') /\ run'[h].stage # "wait" /\ \A g \in Runs \ {h} : run'[g] = run[g]
    BY <1>1, <1>3, EndIsOK
  <2>3. ASSUME AwaitedOnce(stack \o late, run) PROVE AwaitedOnce(stack \o late, run')
    <3>1. \A g \in Runs : (run'[g].stage = "wait" <=> run[g].stage = "wait")
      BY <1>1, <2>2
    <3> QED
      BY <2>2, <2>3, <3>1 DEF AwaitedOnce
  <2> QED
    BY <1>1, <1>3, <2>2, <2>3 DEF TableInv, dialogVars
<1> QED
  BY <1>2, <1>3 DEF RunSettled

LEMMA TableStep ==
  ASSUME TableInv, [TableNext]_listVars
  PROVE  TableInv'
<1>1. ASSUME UNCHANGED <<dialogVars, run>>, DOMAIN objects' = Names PROVE TableInv'
  BY <1>1 DEF TableInv, dialogVars
<1>2. ASSUME NEW n \in Names, Appear(n) \/ Vanish(n) \/ RowArrives(n) PROVE TableInv'
  <2>1. UNCHANGED <<dialogVars, run>> /\ DOMAIN objects' = Names
    BY <1>2 DEF Appear, Vanish, RowArrives, TableInv
  <2> QED
    BY <1>1, <2>1
<1>3. ASSUME \/ \E n \in Names, on \in BOOLEAN : Check(n, on)
             \/ \E on \in BOOLEAN : CheckAll(on)
             \/ \E h \in {{}} \cup {{n} : n \in Names} : Search(h)
             \/ ClearSelection \/ ResetTable \/ UNCHANGED listVars
      PROVE  TableInv'
  <2>1. UNCHANGED <<dialogVars, run>> /\ UNCHANGED objects
    BY <1>3 DEF Check, CheckAll, Search, ClearSelection, ResetTable, listVars, tableVars
  <2> QED
    BY <1>1, <2>1 DEF TableInv
<1>4. ASSUME NEW h \in Runs, NEW n \in Names, NEW kind, RowAction(h, n, kind) \/ PanelAction(h, n, kind)
      PROVE  TableInv'
  BY <1>4, StartOpens DEF RowAction, PanelAction
<1>5. ASSUME NEW h \in Runs, RunBulkAction(h) PROVE TableInv'
  <2>1. SelectedItems \subseteq {n \in Names : rows[n] # 0 /\ n \notin hides /\ rows[n] \in checked}
    BY DEF SelectedItems, FilteredRows
  <2> QED
    BY <1>5, <2>1, StartOpens DEF RunBulkAction
<1> QED
  BY <1>2, <1>3, <1>4, <1>5, AnswerTakesItsDialog, PaintShows, LookedUpAsks, ServedRunIsOK, SettledTells
     DEF TableNext

LEMMA AwaitedIsNotLost == TableInv => NoDialogLost
BY DEF TableInv, AwaitedOnce, NoDialogLost

\* What a step takes away was on display, or was taken by somebody else.
LEMMA TakesShown ==
  ASSUME TableInv, [TableNext]_listVars, NEW n \in Names, objects[n] # 0, objects'[n] = 0
  PROVE  Vanish(n) \/ \E h \in Runs : run[h].stage = "call" /\ n \in run[h].shown
<1>1. ASSUME NEW h \in Runs, NEW m \in Names, ServeRun(h, m)
      PROVE  run[h].stage = "call" /\ n \in run[h].shown
  <2>1. run[h].stage = "call" /\ m \in run[h].left /\ RunOK(run[h])
    BY <1>1 DEF ServeRun, TableInv, RunsOK
  <2>2. m = n
    BY <1>1 DEF ServeRun, TableInv
  <2> QED
    BY <2>1, <2>2 DEF RunOK
<1>2. ASSUME NEW m \in Names, Vanish(m) PROVE m = n
  BY <1>2 DEF Vanish, TableInv
<1>3. ASSUME NEW m \in Names, Appear(m) PROVE FALSE
  BY <1>3 DEF Appear, TableInv
<1>4. ASSUME UNCHANGED objects PROVE FALSE
  BY <1>4
<1> QED
  BY <1>1, <1>2, <1>3, <1>4
     DEF TableNext, RowArrives, Check, CheckAll, Answer, Search, RowAction, PanelAction, RunBulkAction, LookedUp,
         RunSettled, ClearSelection, ResetTable, Paint, listVars, tableVars

(* A dialog that is awaited is on the stack, once, until an answer races with   *)
(* another that is not rendered; and what the handlers delete was on display    *)
(* when they were started, for any names and any number of handlers at work.    *)
THEOREM DeletionsAreConfirmed == TableSpec => DeletesAsConfirmed
<1>1. TableInit => TableInv
  <2>1. ASSUME TableInit PROVE TableInv
    <3>1. stack = <<>> /\ late = <<>> /\ <<>> \in Seq(Dialogs) /\ DOMAIN objects = Names
      BY <2>1, EmptySeq DEF TableInit, DialogInit
    <3>2. RunsOK(run) /\ \A h \in Runs : run[h].stage # "wait"
      BY <2>1, NoRunIsOK DEF TableInit, RunsOK
    <3>3. stack \o late = <<>> /\ DOMAIN <<>> = {}
      BY <3>1, ConcatEmptySeq
    <3> QED
      BY <3>1, <3>2, <3>3 DEF TableInv, AwaitedOnce
  <2> QED
    BY <2>1
<1>2. TableInv /\ [TableNext]_listVars => TableInv'
  BY TableStep
<1>3. TableInv => NoDialogLost
  BY AwaitedIsNotLost
<1>4. TableInv /\ [TableNext]_listVars
        => [\A n \in Names : objects[n] # 0 /\ objects'[n] = 0 =>
              Vanish(n) \/ \E h \in Runs : run[h].stage = "call" /\ n \in run[h].shown]_listVars
  BY TakesShown
<1> QED
  BY <1>1, <1>2, <1>3, <1>4, PTL DEF TableSpec, DeletesAsConfirmed, DeletesOnlyShown
=============================================================================
