----------------------------- MODULE MCWorkspace -----------------------------
(***************************************************************************)
(* What acts on the user's word or keeps it, side by side: a behaviour       *)
(* follows one of them.                                                    *)
(***************************************************************************)
EXTENDS PageTabs, NavStack, Panes, YamlEdit, TableView,
        CommandPalette, ImportDialog, LocalStores, Rollback, ColumnLayout

\* Three objects of one cluster: two rows, and one that no drag should move
MCPinnable == {p \in Refs : p.cluster = "a"}

\* The second has a container more
MCRolled == {[k \in TemplateKeys |-> 1], [k \in TemplateKeys |-> IF k = "image" THEN 1 ELSE Absent]}

VARIABLE part   \* the component this behaviour is about

allVars == <<part, tabVars, navVars, paneVars, yamlVars, listVars, paletteVars, startVars,
             pinVars, settingsVars, rollbackVars, columnVars>>

Parts == {"tabs", "arrows", "panes", "yaml", "list", "palette", "import", "pins",
          "settings", "rollback", "columns"}

AnyInit ==
    /\ part \in Parts
    /\ TabInit /\ NavInit /\ PaneInit /\ YamlInit /\ TableInit /\ PaletteInit
    /\ StartInit /\ FavInit /\ SettingsInit /\ RollbackInit /\ ColumnInit

AnyNext ==
    \/ /\ part = "tabs" /\ TabNext
       /\ UNCHANGED <<part, navVars, paneVars, yamlVars, listVars, paletteVars, startVars,
                      pinVars, settingsVars, rollbackVars, columnVars>>
    \/ /\ part = "arrows" /\ NavNext
       /\ UNCHANGED <<part, tabVars, paneVars, yamlVars, listVars, paletteVars, startVars,
                      pinVars, settingsVars, rollbackVars, columnVars>>
    \/ /\ part = "panes" /\ PaneNext
       /\ UNCHANGED <<part, tabVars, navVars, yamlVars, listVars, paletteVars, startVars,
                      pinVars, settingsVars, rollbackVars, columnVars>>
    \/ /\ part = "yaml" /\ YamlNext
       /\ UNCHANGED <<part, tabVars, navVars, paneVars, listVars, paletteVars, startVars,
                      pinVars, settingsVars, rollbackVars, columnVars>>
    \/ /\ part = "list" /\ TableNext
       /\ UNCHANGED <<part, tabVars, navVars, paneVars, yamlVars, paletteVars, startVars,
                      pinVars, settingsVars, rollbackVars, columnVars>>
    \/ /\ part = "palette" /\ PaletteNext
       /\ UNCHANGED <<part, tabVars, navVars, paneVars, yamlVars, listVars, startVars,
                      pinVars, settingsVars, rollbackVars, columnVars>>
    \/ /\ part = "import" /\ StartNext
       /\ UNCHANGED <<part, tabVars, navVars, paneVars, yamlVars, listVars, paletteVars,
                      pinVars, settingsVars, rollbackVars, columnVars>>
    \/ /\ part = "pins" /\ FavNext
       /\ UNCHANGED <<part, tabVars, navVars, paneVars, yamlVars, listVars, paletteVars,
                      startVars, settingsVars, rollbackVars, columnVars>>
    \/ /\ part = "settings" /\ SettingsNext
       /\ UNCHANGED <<part, tabVars, navVars, paneVars, yamlVars, listVars, paletteVars,
                      startVars, pinVars, rollbackVars, columnVars>>
    \/ /\ part = "rollback" /\ RollbackNext
       /\ UNCHANGED <<part, tabVars, navVars, paneVars, yamlVars, listVars, paletteVars,
                      startVars, pinVars, settingsVars, columnVars>>
    \/ /\ part = "columns" /\ ColumnNext
       /\ UNCHANGED <<part, tabVars, navVars, paneVars, yamlVars, listVars, paletteVars,
                      startVars, pinVars, settingsVars, rollbackVars>>

AnySpec == AnyInit /\ [][AnyNext]_allVars
=============================================================================
