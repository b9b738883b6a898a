-------------------------------- MODULE EditMode --------------------------------
(***************************************************************************)
(* Edit mode as a whole (editor/SiteEditMode.vue): the editor of the page   *)
(* on screen beside the panels with the tree of pages and the menu.  They   *)
(* share the store, where each writes objects of its own.                   *)
(***************************************************************************)
EXTENDS PageEditor, SitePanels

EditModeSpec == EditorSpec /\ PanelSpec

(* What is not called dirty is what the store has, in the editor of a page  *)
(* (load, change, undo and redo of pageEditor.js) and in the menu panel     *)
(* (SiteMenuPanel.vue, 269-359).                                           *)
CleanWorkIsStored == CleanIsStored /\ CleanMenuIsStored
=============================================================================
