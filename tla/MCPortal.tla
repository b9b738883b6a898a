-------------------------------- MODULE MCPortal --------------------------------
(***************************************************************************)
(* Screens of the site, on small instances: the editor of a page, the      *)
(* panels with the tree of pages and the menu, a timed test, a page with    *)
(* the rows of collections, and the form of an action.  They share no state *)
(* but the store, where each writes objects of its own, so a behaviour runs *)
(* one of them, in the way its scenario names.                             *)
(***************************************************************************)
EXTENDS EditMode, TimedTask, CollectionPage, StepForm, TLC

CONSTANT Scenarios

VARIABLE scenario

vars == <<pageVars, panelVars, testVars, collectionVars, formVars, scenario>>

MCAddress == "a" :> "/a" @@ "/a/" :> "/a" @@ "b" :> "/b"
MCSize == [k \in Keys |-> [w |-> 4, h |-> 1]]
MCSpots == {<<2, 1>>}
MCSteps == <<{"who"}, {"kin"}, {"what", "papers"}>>

(* The same questions on one page, where one file is too large, of an      *)
(* action with a confirmation of its own.                                  *)
OnePage == INSTANCE StepForm WITH
  Steps <- <<{"who", "kin", "what", "papers"}>>, HasReview <- FALSE, TooLarge <- {"f2"},
  HasConfirmation <- TRUE

(* A grid with one widget, wider than the columns, beside areas the editor  *)
(* does not show; and a page written as text.                              *)
MCWidget == [id |-> <<CHOOSE k \in Keys : TRUE, 1>>,
             cell |-> [x |-> 0, y |-> 0, w |-> 5, h |-> 1], prop |-> 0]
MCBodies == {[kind |-> "grid", main |-> <<MCWidget>>, kept |-> {"menu"}],
             [kind |-> "markdown", main |-> <<>>, kept |-> {}]}

FirstEditor == CHOOSE e \in Editors : TRUE

MCInit ==
  /\ EditorInit /\ PanelInit /\ TestInit /\ CollectionInit /\ FormInit
  /\ scenario \in Scenarios
  /\ scenario # "one" => stored.page.body.kind = "grid"
  /\ \E i \in PageIds : site[i] = Unused
  /\ (scenario = "calm pages") = (sole # NoOne)
  /\ scenario \notin {"pages", "calm pages"} => \A i \in PageIds : site[i] = Unused

(* Every operation of one author; bound: one write.                        *)
Alone ==
  /\ \/ Change(FirstEditor)
     \/ \E id \in Ids(editor[FirstEditor].widgets) : Select(FirstEditor, id)
     \/ SaveDraft(FirstEditor) \/ Publish(FirstEditor) \/ Discard(FirstEditor)
     \/ \E body \in FirstBodies : Restore(FirstEditor, body)
     \/ Checked(FirstEditor) \/ Put(FirstEditor) \/ Reload(FirstEditor) \/ Loaded(FirstEditor)
  /\ writes' <= 1

(* Two authors, who change the fields of the one widget; bound: two edits.  *)
Together ==
  /\ \E e \in Editors :
       \/ \E value \in Props : SetProp(e, value)
       \/ \E id \in Ids(editor[e].widgets) : Select(e, id)
       \/ Undo(e)
       \/ SaveDraft(e) \/ Publish(e) \/ Discard(e)
       \/ Checked(e) \/ Put(e) \/ Reload(e) \/ Loaded(e)
  /\ edits' <= 2

(* Requests that fail; bound: two writes.                                  *)
FailingPages == PagesNext /\ sends' <= 2

(* Bound: three reads under way.                                           *)
RowsOnScreen == CollectionNext /\ Cardinality(reads') <= 3

MCNext ==
  /\ \/ /\ UNCHANGED <<panelVars, testVars, collectionVars, formVars>>
        /\ \/ scenario = "one" /\ Alone
           \/ scenario = "two" /\ Together
     \/ /\ UNCHANGED <<pageVars, testVars, collectionVars, formVars>>
        /\ \/ scenario = "pages" /\ FailingPages
           \/ scenario = "calm pages" /\ PagesNext
           \/ scenario = "menu" /\ MenuNext
     \/ scenario = "test" /\ TestNext /\ UNCHANGED <<pageVars, panelVars, collectionVars, formVars>>
     \/ scenario = "rows" /\ RowsOnScreen /\ UNCHANGED <<pageVars, panelVars, testVars, formVars>>
     \/ /\ UNCHANGED <<pageVars, panelVars, testVars, collectionVars>>
        /\ \/ scenario = "form" /\ FormNext
           \/ scenario = "one page" /\ OnePage!FormNext
  /\ UNCHANGED scenario

MCSpec == MCInit /\ [][MCNext]_vars
=============================================================================
