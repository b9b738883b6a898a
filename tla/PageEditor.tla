------------------------------ MODULE PageEditor ------------------------------
(***************************************************************************)
(* One page and the people who edit it: the editor's state and its undo     *)
(* history (editor/pageEditor.js, editor/editHistory.js), and the loading   *)
(* and version-checked saving beneath it (editor/pageSaver.js).  The store  *)
(* is external: a write moves the page's version, and refuses one whose     *)
(* If-Match is another version.  The first load may fail, which leaves an   *)
(* empty page without a version, and that can be saved all the same.        *)
(*                                                                         *)
(* While a save is checked and written the canvas stays open for edits;     *)
(* while the page is loaded it is not there.                               *)
(***************************************************************************)
EXTENDS GridModel, EditHistory

CONSTANTS
  Editors,
  Props,       \* values a widget's field can have
  Spots,       \* where a widget can be dropped or moved, inside the columns or not
  FirstBodies, \* bodies the page may have at first
  MaxEdits,    \* bound: changes, by all
  MaxWrites,   \* bound: pages sent to the store
  MayFail      \* whether requests fail and answers get lost

ASSUME PageEditorAssumption ==
  /\ 0 \in Props /\ Props \subseteq Nat /\ Spots \subseteq Int \X Int
  /\ MaxEdits \in Nat /\ MaxWrites \in Nat /\ MayFail \in BOOLEAN

(* The widgets of a page lie in cells of whole numbers, and each has an id   *)
(* of its own: nothing takes a second one away.                            *)
ASSUME FirstBodiesAssumption ==
  \A body \in FirstBodies :
    /\ body = [kind |-> body.kind, main |-> body.main, kept |-> body.kept]
    /\ body.kind \in {"grid", "markdown"} /\ body.main \in Seq(Widgets)
    /\ \A i, j \in DOMAIN body.main : body.main[i].id = body.main[j].id => i = j

VARIABLES
  stored,   \* the store: the page and its version
  editor,   \* per author: what createPageEditor() keeps
  call,     \* per author: the request under way, what it sends and on which version
  edits,    \* changes made so far
  writes    \* pages sent so far

pageVars == <<stored, editor, call, edits, writes>>

NoId == <<"none", 0>>
NoCall == [phase |-> "no", payload |-> {}, body |-> NoBody, base |-> 0]
Loading(e) == call[e].phase \in {"load", "reload"}
Saving(e) == call[e].phase \in {"check", "put", "reload"}

(* What load() keeps of a page it read.                                    *)
Opened(ed, s) ==
  LET body == ReadBody(s.page) IN
  [page |-> s.page, version |-> s.version, kind |-> body.kind, widgets |-> body.widgets,
   selected |-> IF ed.selected \in Ids(body.widgets) THEN ed.selected ELSE NoId,
   dirty |-> FALSE, error |-> "no", history |-> NoHistory]

(* An editor before its first load: an empty page, and no version.         *)
NoVersion == 0
Unopened ==
  [page |-> [body |-> NoBody, draft |-> NoBody], version |-> NoVersion, kind |-> "grid",
   widgets |-> <<>>, selected |-> NoId, dirty |-> FALSE, error |-> "no",
   history |-> NoHistory]

EditorInit ==
  /\ stored \in {[page |-> [body |-> body, draft |-> NoBody], version |-> 1] : body \in FirstBodies}
  /\ editor = [e \in Editors |-> Unopened]
  /\ call = [e \in Editors |-> [NoCall EXCEPT !.phase = "load"]]
  /\ edits = 0 /\ writes = 0

-----------------------------------------------------------------------------

(* change(): the canvas before it is recorded, under the change's key.     *)
Changed(ed, widgets, selected, key) ==
  [ed EXCEPT !.history = Record(@, [widgets |-> ed.widgets, selected |-> ed.selected], key),
             !.widgets = widgets, !.selected = selected, !.dirty = TRUE]

Edited(e, ed) ==
  /\ edits < MaxEdits
  /\ edits' = edits + 1
  /\ editor' = [editor EXCEPT ![e] = ed]
  /\ UNCHANGED <<stored, call, writes>>

OnCanvas(e) == ~Loading(e) /\ editor[e].kind = "grid"

Select(e, id) ==
  /\ OnCanvas(e) /\ id \in Ids(editor[e].widgets) \ {editor[e].selected}
  /\ editor' = [editor EXCEPT ![e].selected = id]
  /\ UNCHANGED <<stored, call, edits, writes>>

Add(e, key) ==
  /\ OnCanvas(e)
  /\ Edited(e, LET ed == editor[e] IN
       Changed(ed, AddWidget(ed.widgets, key), NextWidgetId(ed.widgets, key), NoKey))

Drop(e, key, spot) ==
  /\ OnCanvas(e)
  /\ Edited(e, LET ed == editor[e] IN
       Changed(ed, AddWidgetAt(ed.widgets, key, spot[1], spot[2]),
               NextWidgetId(ed.widgets, key), NoKey))

RemoveOne(e, id) ==
  /\ OnCanvas(e) /\ id \in Ids(editor[e].widgets)
  /\ Edited(e, LET ed == editor[e] IN
       Changed(ed, RemoveWidget(ed.widgets, id),
               IF ed.selected = id THEN NoId ELSE ed.selected, NoKey))

Move(e, id, spot) ==
  /\ OnCanvas(e)
  /\ ApplyLayout(editor[e].widgets, id, spot[1], spot[2]) # editor[e].widgets
  /\ Edited(e, LET ed == editor[e] IN
       Changed(ed, ApplyLayout(ed.widgets, id, spot[1], spot[2]), ed.selected, NoKey))

(* setProp() and replaceProps() change the selected widget, each under a    *)
(* key of its own.                                                         *)
SetProp(e, value) ==
  /\ OnCanvas(e) /\ editor[e].selected # NoId
  /\ Edited(e, LET ed == editor[e] IN
       Changed(ed, SetWidgetProp(ed.widgets, ed.selected, value), ed.selected,
               <<"prop", ed.selected>>))

ReplaceProps(e, value) ==
  /\ OnCanvas(e) /\ editor[e].selected # NoId
  /\ Edited(e, LET ed == editor[e] IN
       Changed(ed, SetWidgetProp(ed.widgets, ed.selected, value), ed.selected,
               <<"form", ed.selected>>))

(* Mutant: what is undone to the first canvas counts as saved.             *)
SteppedClean(ed, canvas, history) ==
  [ed EXCEPT !.widgets = canvas.widgets, !.selected = canvas.selected,
             !.dirty = CanUndo(history), !.history = history]

Stepped(ed, canvas, history) ==
  [ed EXCEPT !.history = history, !.widgets = canvas.widgets, !.selected = canvas.selected,
             !.dirty = TRUE]

Shown(ed) == [widgets |-> ed.widgets, selected |-> ed.selected]

Undo(e) ==
  LET ed == editor[e] IN
  /\ OnCanvas(e) /\ CanUndo(ed.history)
  /\ editor' = [editor EXCEPT ![e] =
       Stepped(ed, Top(ed.history.past), Undone(ed.history, Shown(ed)))]
  /\ UNCHANGED <<stored, call, edits, writes>>

Redo(e) ==
  LET ed == editor[e] IN
  /\ OnCanvas(e) /\ CanRedo(ed.history)
  /\ editor' = [editor EXCEPT ![e] =
       Stepped(ed, Top(ed.history.future), Redone(ed.history, Shown(ed)))]
  /\ UNCHANGED <<stored, call, edits, writes>>

-----------------------------------------------------------------------------

(* write(): the payload is made at once.  save() reads the page again only  *)
(* for an editor that has a version.                                       *)
Write(e, payload, body) ==
  /\ call[e].phase = "no" /\ writes < MaxWrites
  /\ writes' = writes + 1
  /\ call' = [call EXCEPT ![e] =
       [phase |-> IF editor[e].version = NoVersion THEN "put" ELSE "check",
        payload |-> payload, body |-> body, base |-> editor[e].version]]
  /\ editor' = [editor EXCEPT ![e].error = "no"]
  /\ UNCHANGED <<stored, edits>>

Body(ed) == BodyFor(ed.page, ed.kind, ed.widgets)

SaveDraft(e) == LET body == Body(editor[e]) IN Write(e, DraftPayload(editor[e].page, body), body)
Publish(e) == LET body == Body(editor[e]) IN Write(e, PublishPayload(editor[e].page, body), body)
Discard(e) ==
  /\ editor[e].page.draft # NoBody
  /\ Write(e, DiscardPayload(editor[e].page), NoBody)

(* restore(): a version of the page's history becomes the draft.           *)
Restore(e, body) == Write(e, DraftPayload(editor[e].page, body), NoBody)

Ended(e, error) ==
  /\ call' = [call EXCEPT ![e] = NoCall]
  /\ editor' = [editor EXCEPT ![e].error = error]

(* save() reads the page again, and refuses when its version moved.        *)
Checked(e) ==
  /\ call[e].phase = "check"
  /\ \/ /\ stored.version = call[e].base
        /\ call' = [call EXCEPT ![e].phase = "put"]
        /\ UNCHANGED editor
     \/ stored.version # call[e].base /\ Ended(e, "conflict")
     \/ MayFail /\ Ended(e, "failed")
  /\ UNCHANGED <<stored, edits, writes>>

(* Mutant: a save sends no If-Match.                                       *)
AcceptsAnyVersion(s, c) == TRUE

(* save() sends the version it was made on as If-Match, when it has one.    *)
Accepts(s, c) == c.base \in {NoVersion, s.version}

(* The write itself: taken, refused with 409, failed, or taken with its     *)
(* answer lost.                                                            *)
Put(e) ==
  /\ call[e].phase = "put"
  /\ \/ /\ Accepts(stored, call[e])
        /\ stored' = [page |-> call[e].payload, version |-> stored.version + 1]
        /\ \/ call' = [call EXCEPT ![e].phase = "reload"] /\ UNCHANGED editor
           \/ MayFail /\ Ended(e, "failed")
     \/ ~Accepts(stored, call[e]) /\ Ended(e, "conflict") /\ UNCHANGED stored
     \/ MayFail /\ Ended(e, "failed") /\ UNCHANGED stored
  /\ UNCHANGED <<edits, writes>>

(* A conflict leaves the work on screen; the author may load the page anew. *)
Reload(e) ==
  /\ call[e].phase = "no" /\ editor[e].error = "conflict"
  /\ call' = [call EXCEPT ![e].phase = "load"]
  /\ editor' = [editor EXCEPT ![e].error = "no"]
  /\ UNCHANGED <<stored, edits, writes>>

Loaded(e) ==
  /\ Loading(e)
  /\ \/ /\ editor' = [editor EXCEPT ![e] = Opened(@, stored)]
        /\ call' = [call EXCEPT ![e] = NoCall]
     \/ MayFail /\ Ended(e, "unread")
  /\ UNCHANGED <<stored, edits, writes>>

Change(e) ==
  \/ \E key \in Keys : Add(e, key) \/ \E spot \in Spots : Drop(e, key, spot)
  \/ \E id \in Ids(editor[e].widgets) : RemoveOne(e, id) \/ \E spot \in Spots : Move(e, id, spot)
  \/ \E value \in Props : SetProp(e, value) \/ ReplaceProps(e, value)
  \/ Undo(e) \/ Redo(e)

EditorNext ==
  \E e \in Editors :
    \/ Change(e) \/ \E id \in Ids(editor[e].widgets) : Select(e, id)
    \/ SaveDraft(e) \/ Publish(e) \/ Discard(e) \/ \E body \in FirstBodies : Restore(e, body)
    \/ Checked(e) \/ Put(e) \/ Reload(e) \/ Loaded(e)

EditorSpec == EditorInit /\ [][EditorNext]_pageVars

-----------------------------------------------------------------------------

(* Every variable has its type, apart from the widgets themselves.         *)
EditorTypeOK ==
  /\ stored.version \in Nat \ {0}
  /\ edits \in 0..MaxEdits /\ writes \in 0..MaxWrites
  /\ \A e \in Editors :
       /\ editor[e].version \in Nat
       /\ editor[e].dirty \in BOOLEAN
       /\ editor[e].error \in {"no", "conflict", "failed", "unread"}
       /\ call[e].phase \in {"no", "load", "check", "put", "reload"}

(* Whoever's page is written had the version it replaces on screen when     *)
(* they saved, unless no load of theirs was ever answered: who once saw the *)
(* page overwrites nothing they never saw (save, 82-103).                   *)
NoUnseenOverwrite ==
  [][stored' # stored =>
       \E e \in Editors :
         call[e].phase = "put" /\ editor[e].version \in {stored.version, NoVersion}]_pageVars


(* A page that is not called dirty is what the store has of that version    *)
(* (load, change, undo and redo of pageEditor.js).                         *)
CleanIsStored ==
  \A e \in Editors :
    ~editor[e].dirty /\ editor[e].version = stored.version =>
      /\ editor[e].page = stored.page
      /\ editor[e].widgets = ReadBody(stored.page).widgets

(* Undo, redo and every change move each author along one line of          *)
(* canvases, over any number of saves (editHistory.js).                    *)
Timeline(e) ==
  INSTANCE EditTimeline WITH
    Kept <- Limit,
    line <- [i \in DOMAIN editor[e].history.past |-> editor[e].history.past[i].widgets]
              \o <<editor[e].widgets>>
              \o Reverse([i \in DOMAIN editor[e].history.future |->
                            editor[e].history.future[i].widgets]),
    at <- Len(editor[e].history.past) + 1

HistoryIsATimeline ==
  /\ \A e \in Editors : Timeline(e)!Init
  /\ [][\A e \in Editors : [Timeline(e)!Next]_(Timeline(e)!vars)]_pageVars

(* No canvas of the line, the one on screen included, has two widgets of    *)
(* one id or selects one that is not there (nextWidgetId; removeWidget and  *)
(* the snapshots of pageEditor.js).                                        *)
Sound(canvas) ==
  /\ Cardinality(Ids(canvas.widgets)) = Len(canvas.widgets)
  /\ canvas.selected \in Ids(canvas.widgets) \cup {NoId}

CanvasesAreSound ==
  \A e \in Editors :
    /\ Sound(Shown(editor[e]))
    /\ \A i \in DOMAIN editor[e].history.past : Sound(editor[e].history.past[i])
    /\ \A i \in DOMAIN editor[e].history.future : Sound(editor[e].history.future[i])

(* The load that follows a save shows the canvas the author had, drawn as   *)
(* the site draws it: only what was changed while the save was under way is *)
(* lost (write, 398-423; bodyFor, readBody of pageBody.js).                 *)
SavedIsShown ==
  [][\A e \in Editors :
       /\ call[e].phase = "reload" /\ call'[e].phase = "no" /\ editor'[e].error = "no"
       /\ call[e].body = Body(editor[e]) /\ stored.version = call[e].base + 1
       => editor'[e].widgets = Normalised(editor[e].widgets)]_pageVars
=============================================================================
