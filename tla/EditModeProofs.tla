----------------------------- MODULE EditModeProofs -----------------------------
(***************************************************************************)
(* The page editor, for any authors, grid, length of the history and number *)
(* of edits and saves.  Nobody's save overwrites a page its author never    *)
(* saw, and a page that is not called dirty is what the store has: the      *)
(* store's version only grows, no editor is ahead of it, and a save that is *)
(* under way is based on the version its editor still shows, for only the   *)
(* load that ends it changes that version.  Every canvas of the history is  *)
(* sound, what is saved is shown, and undo and redo move along one line:    *)
(* no operation on the widgets gives two of them one id, a save sends the   *)
(* body it was made of, and both stacks together hold at most Limit steps.  *)
(*                                                                         *)
(* And the panels beside it, for any pages, menus and managers.  A menu     *)
(* that is not called dirty is the stored one, for no list is ahead of the  *)
(* store.  With one manager whose lists are answered, what is sent was      *)
(* judged on the pages as they are; then no set of pages ever hangs on      *)
(* itself alone: in such a set after a move, the pages that are not below   *)
(* the one moved would have been one before.                               *)
(***************************************************************************)
EXTENDS EditMode, FiniteSetTheorems, SequenceTheorems, WellFoundedInduction, TLAPS

(* The records, whatever is in the fields the argument does not look at.    *)
IsEditor(ed) ==
  \E page, version, kind, widgets, selected, dirty, error, history :
    ed = [page |-> page, version |-> version, kind |-> kind, widgets |-> widgets,
          selected |-> selected, dirty |-> dirty, error |-> error, history |-> history]

IsCall(c) ==
  \E phase, payload, body, base :
    c = [phase |-> phase, payload |-> payload, body |-> body, base |-> base]

Clean(ed, s) ==
  ~ed.dirty /\ ed.version = s.version =>
    /\ ed.page = s.page
    /\ ed.widgets = ReadBody(s.page).widgets

(* One author, against the store.                                          *)
AuthorOk(ed, c, s) ==
  /\ IsEditor(ed) /\ IsCall(c)
  /\ ed.version \in Nat /\ ed.version <= s.version
  /\ ed.dirty \in BOOLEAN
  /\ ed.error \in {"no", "conflict", "failed", "unread"}
  /\ c.phase \in {"no", "load", "check", "put", "reload"}
  /\ c.phase \in {"check", "put"} => c.base = ed.version
  /\ Clean(ed, s)

EditorInv ==
  /\ stored.version \in Nat \ {0}
  /\ edits \in 0..MaxEdits /\ writes \in 0..MaxWrites
  /\ editor = [e \in Editors |-> editor[e]] /\ call = [e \in Editors |-> call[e]]
  /\ \A e \in Editors : AuthorOk(editor[e], call[e], stored)

-----------------------------------------------------------------------------
(* What an author's step makes of one editor and its call.                 *)

LEMMA OpenedIsOk ==
  ASSUME NEW ed, NEW s, s.version \in Nat \ {0}
  PROVE  AuthorOk(Opened(ed, s), NoCall, s)
<1> DEFINE body == ReadBody(s.page)
           selected == IF ed.selected \in Ids(body.widgets) THEN ed.selected ELSE NoId
           u == [page |-> s.page, version |-> s.version, kind |-> body.kind,
                 widgets |-> body.widgets, selected |-> selected,
                 dirty |-> FALSE, error |-> "no", history |-> NoHistory]
<1>1. Opened(ed, s) = u
  BY DEF Opened
<1> HIDE DEF selected
<1>2. IsEditor(u)
  BY DEF IsEditor
<1>3. IsCall(NoCall)
  BY DEF IsCall, NoCall
<1>4. Clean(u, s)
  BY DEF Clean
<1>5. NoCall.phase = "no"
  BY DEF NoCall
<1> QED BY <1>1, <1>2, <1>3, <1>4, <1>5 DEF AuthorOk

(* Before its first load an editor shows no version of the page.           *)
LEMMA UnopenedIsOk ==
  ASSUME NEW s, s.version \in Nat \ {0}
  PROVE  AuthorOk(Unopened, [NoCall EXCEPT !.phase = "load"], s)
<1> DEFINE c == [NoCall EXCEPT !.phase = "load"]
<1>1. IsEditor(Unopened)
  BY DEF IsEditor, Unopened
<1>2. c = [phase |-> "load", payload |-> {}, body |-> NoBody, base |-> 0]
  BY DEF NoCall
<1> HIDE DEF c
<1>a. IsCall([phase |-> "load", payload |-> {}, body |-> NoBody, base |-> 0])
  BY DEF IsCall
<1>b. c.phase = "load"
  BY <1>2
<1>3. IsCall(c) /\ c.phase = "load"
  BY <1>2, <1>a, <1>b
<1>4. Unopened.version = 0 /\ Unopened.dirty = FALSE /\ Unopened.error = "no"
  BY DEF Unopened, NoVersion
<1>5. AuthorOk(Unopened, c, s)
  <2>1. /\ Unopened.version \in Nat /\ Unopened.version <= s.version
        /\ Unopened.version # s.version
    BY <1>4
  <2>2. /\ Unopened.dirty \in BOOLEAN
        /\ Unopened.error \in {"no", "conflict", "failed", "unread"}
        /\ c.phase \in {"no", "load", "check", "put", "reload"}
        /\ ~(c.phase \in {"check", "put"})
    BY <1>b, <1>4
  <2>3. Clean(Unopened, s)
    BY <2>1 DEF Clean
  <2> QED BY <1>1, <1>3, <2>1, <2>2, <2>3 DEF AuthorOk
<1> QED BY <1>5 DEF c

LEMMA RecordIsEditor ==
  ASSUME NEW page, NEW version, NEW kind, NEW widgets, NEW selected, NEW dirty, NEW error,
         NEW history
  PROVE  IsEditor([page |-> page, version |-> version, kind |-> kind, widgets |-> widgets,
                   selected |-> selected, dirty |-> dirty, error |-> error,
                   history |-> history])
BY DEF IsEditor

(* A change of the canvas, undo and redo: what matters is that it is dirty. *)
LEMMA DirtyIsOk ==
  ASSUME NEW ed, NEW c, NEW s, AuthorOk(ed, c, s), NEW widgets, NEW selected, NEW history
  PROVE  AuthorOk([ed EXCEPT !.history = history, !.widgets = widgets,
                             !.selected = selected, !.dirty = TRUE], c, s)
<1> DEFINE u == [ed EXCEPT !.history = history, !.widgets = widgets,
                           !.selected = selected, !.dirty = TRUE]
<1>a. PICK page, version, kind, widgets0, selected0, dirty, error0, history0 :
        ed = [page |-> page, version |-> version, kind |-> kind, widgets |-> widgets0,
              selected |-> selected0, dirty |-> dirty, error |-> error0, history |-> history0]
  BY DEF AuthorOk, IsEditor
<1>b. u = [page |-> page, version |-> version, kind |-> kind, widgets |-> widgets,
           selected |-> selected, dirty |-> TRUE, error |-> error0, history |-> history]
  <2> DEFINE w == [ed EXCEPT !.history = history]
             v == [w EXCEPT !.widgets = widgets]
  <2>0. w = [page |-> page, version |-> version, kind |-> kind, widgets |-> widgets0,
             selected |-> selected0, dirty |-> dirty, error |-> error0, history |-> history]
    BY <1>a
  <2> HIDE DEF w
  <2>1. v = [page |-> page, version |-> version, kind |-> kind, widgets |-> widgets,
             selected |-> selected0, dirty |-> dirty, error |-> error0, history |-> history]
    BY <2>0
  <2>2. u = [v EXCEPT !.selected = selected, !.dirty = TRUE]
    BY DEF w
  <2> HIDE DEF u, v
  <2> QED BY <2>1, <2>2
<1>c. IsEditor(u)
  BY <1>b, RecordIsEditor
<1>1. IsEditor(u) /\ u.version = ed.version /\ u.dirty = TRUE /\ u.error = ed.error
  BY <1>a, <1>b, <1>c
<1> HIDE DEF u
<1>2. AuthorOk(u, c, s)
  BY <1>1 DEF AuthorOk, Clean
<1> QED BY <1>2 DEF u

LEMMA SelectedIsOk ==
  ASSUME NEW ed, NEW c, NEW s, AuthorOk(ed, c, s), NEW selected
  PROVE  AuthorOk([ed EXCEPT !.selected = selected], c, s)
<1> DEFINE u == [ed EXCEPT !.selected = selected]
<1>a. PICK page, version, kind, widgets0, selected0, dirty, error0, history0 :
        ed = [page |-> page, version |-> version, kind |-> kind, widgets |-> widgets0,
              selected |-> selected0, dirty |-> dirty, error |-> error0, history |-> history0]
  BY DEF AuthorOk, IsEditor
<1>b. u = [page |-> page, version |-> version, kind |-> kind, widgets |-> widgets0,
           selected |-> selected, dirty |-> dirty, error |-> error0, history |-> history0]
  BY <1>a
<1>c. IsEditor(u)
  BY <1>b, RecordIsEditor
<1>1. /\ IsEditor(u) /\ u.version = ed.version /\ u.dirty = ed.dirty /\ u.error = ed.error
      /\ u.page = ed.page /\ u.widgets = ed.widgets
  BY <1>a, <1>b, <1>c
<1> HIDE DEF u
<1>2. AuthorOk(u, c, s)
  BY <1>1 DEF AuthorOk, Clean
<1> QED BY <1>2 DEF u

(* A request starts, goes on or ends, with or without an error.            *)
LEMMA CalledIsOk ==
  ASSUME NEW ed, NEW c, NEW s, AuthorOk(ed, c, s), NEW d, IsCall(d),
         d.phase \in {"no", "load", "check", "put", "reload"},
         d.phase \in {"check", "put"} => d.base = ed.version,
         NEW error \in {"no", "conflict", "failed", "unread"}
  PROVE  AuthorOk([ed EXCEPT !.error = error], d, s)
<1> DEFINE u == [ed EXCEPT !.error = error]
<1>a. PICK page, version, kind, widgets0, selected0, dirty, error0, history0 :
        ed = [page |-> page, version |-> version, kind |-> kind, widgets |-> widgets0,
              selected |-> selected0, dirty |-> dirty, error |-> error0, history |-> history0]
  BY DEF AuthorOk, IsEditor
<1>b. u = [page |-> page, version |-> version, kind |-> kind, widgets |-> widgets0,
           selected |-> selected0, dirty |-> dirty, error |-> error, history |-> history0]
  BY <1>a
<1>c. IsEditor(u)
  BY <1>b, RecordIsEditor
<1>1. /\ IsEditor(u) /\ u.version = ed.version /\ u.dirty = ed.dirty /\ u.error = error
      /\ u.page = ed.page /\ u.widgets = ed.widgets
  BY <1>a, <1>b, <1>c
<1> HIDE DEF u
<1>2. AuthorOk(u, d, s)
  BY <1>1 DEF AuthorOk, Clean
<1> QED BY <1>2 DEF u

LEMMA PhaseOfCall ==
  ASSUME NEW c, IsCall(c), NEW phase
  PROVE  LET d == [c EXCEPT !.phase = phase]
         IN IsCall(d) /\ d.phase = phase /\ d.base = c.base
<1> DEFINE d == [c EXCEPT !.phase = phase]
<1>1. PICK phase0, payload, body, base :
        c = [phase |-> phase0, payload |-> payload, body |-> body, base |-> base]
  BY DEF IsCall
<1>2. d = [phase |-> phase, payload |-> payload, body |-> body, base |-> base]
  BY <1>1
<1>3. IsCall(d)
  BY <1>2 DEF IsCall
<1> QED BY <1>1, <1>2, <1>3

(* A page is written: no editor shows the new version.                     *)
LEMMA WrittenIsOk ==
  ASSUME NEW ed, NEW c, NEW s, AuthorOk(ed, c, s), s.version \in Nat \ {0},
         NEW t, t.version = s.version + 1
  PROVE  AuthorOk(ed, c, t)
BY DEF AuthorOk, Clean

-----------------------------------------------------------------------------

LEMMA StepOfOne ==
  ASSUME EditorInv, NEW e \in Editors, NEW ed, NEW c,
         stored'.version \in Nat \ {0},
         \A f \in Editors : AuthorOk(editor[f], call[f], stored'),
         edits' \in 0..MaxEdits, writes' \in 0..MaxWrites,
         editor' = [editor EXCEPT ![e] = ed], call' = [call EXCEPT ![e] = c],
         AuthorOk(ed, c, stored')
  PROVE  EditorInv'
<1>1. editor' = [f \in Editors |-> editor'[f]] /\ call' = [f \in Editors |-> call'[f]]
  BY DEF EditorInv
<1>2. ASSUME NEW f \in Editors
      PROVE  AuthorOk(editor'[f], call'[f], stored')
  BY DEF EditorInv
<1> QED BY <1>1, <1>2 DEF EditorInv

LEMMA EditorInitInv == EditorInit => EditorInv
<1> SUFFICES ASSUME EditorInit PROVE EditorInv
  OBVIOUS
<1>1. PICK body \in FirstBodies :
        stored = [page |-> [body |-> body, draft |-> NoBody], version |-> 1]
  BY DEF EditorInit
<1>2. stored.version \in Nat \ {0}
  BY <1>1
<1>3. /\ editor = [e \in Editors |-> Unopened]
      /\ call = [e \in Editors |-> [NoCall EXCEPT !.phase = "load"]]
  BY DEF EditorInit
<1>4. \A e \in Editors : AuthorOk(editor[e], call[e], stored)
  BY <1>2, <1>3, UnopenedIsOk
<1>5. edits \in 0..MaxEdits /\ writes \in 0..MaxWrites
  BY PageEditorAssumption DEF EditorInit
<1>6. editor = [e \in Editors |-> editor[e]] /\ call = [e \in Editors |-> call[e]]
  BY <1>3
<1> QED BY <1>2, <1>4, <1>5, <1>6 DEF EditorInv

(* An author alone steps, and the store stays.                             *)
LEMMA AuthorStep ==
  ASSUME EditorInv, NEW e \in Editors, NEW ed, NEW c, stored' = stored,
         edits' \in 0..MaxEdits, writes' \in 0..MaxWrites,
         editor' = [editor EXCEPT ![e] = ed], call' = [call EXCEPT ![e] = c],
         AuthorOk(ed, c, stored)
  PROVE  EditorInv'
<1>1. stored'.version \in Nat \ {0} /\ \A f \in Editors : AuthorOk(editor[f], call[f], stored')
  BY DEF EditorInv
<1> QED BY <1>1, StepOfOne

(* Only the canvas of one author changes.                                  *)
LEMMA CanvasStep ==
  ASSUME EditorInv, NEW e \in Editors, NEW ed, stored' = stored,
         edits' \in 0..MaxEdits, writes' \in 0..MaxWrites,
         editor' = [editor EXCEPT ![e] = ed], call' = call, AuthorOk(ed, call[e], stored)
  PROVE  EditorInv'
<1>1. call' = [call EXCEPT ![e] = call[e]]
  BY DEF EditorInv
<1> QED BY <1>1, AuthorStep

LEMMA EditedStep ==
  ASSUME EditorInv, NEW e \in Editors, NEW widgets, NEW selected, NEW key,
         Edited(e, Changed(editor[e], widgets, selected, key))
  PROVE  EditorInv'
<1> DEFINE ed == editor[e]
           history == Record(ed.history, [widgets |-> ed.widgets, selected |-> ed.selected], key)
<1>1. /\ editor' = [editor EXCEPT ![e] = Changed(ed, widgets, selected, key)]
      /\ stored' = stored /\ call' = call /\ writes' = writes
      /\ edits < MaxEdits /\ edits' = edits + 1
  BY DEF Edited
<1>2. edits' \in 0..MaxEdits /\ writes' \in 0..MaxWrites
  BY <1>1, PageEditorAssumption DEF EditorInv
<1>3. Changed(ed, widgets, selected, key) =
        [ed EXCEPT !.history = history, !.widgets = widgets, !.selected = selected,
                   !.dirty = TRUE]
  BY DEF Changed
<1>4. AuthorOk(ed, call[e], stored)
  BY DEF EditorInv
<1> HIDE DEF ed, history
<1>4a. AuthorOk([ed EXCEPT !.history = history, !.widgets = widgets, !.selected = selected,
                           !.dirty = TRUE], call[e], stored)
  BY <1>4, DirtyIsOk
<1>5. AuthorOk(Changed(ed, widgets, selected, key), call[e], stored)
  BY <1>3, <1>4a
<1> QED BY <1>1, <1>2, <1>5, CanvasStep DEF ed

LEMMA SteppedStep ==
  ASSUME EditorInv, NEW e \in Editors, NEW canvas, NEW history,
         editor' = [editor EXCEPT ![e] = Stepped(editor[e], canvas, history)],
         stored' = stored, call' = call, edits' = edits, writes' = writes
  PROVE  EditorInv'
<1>1. AuthorOk(Stepped(editor[e], canvas, history), call[e], stored)
  <2> DEFINE ed == editor[e]
  <2>1. AuthorOk(ed, call[e], stored)
    BY DEF EditorInv
  <2>2. Stepped(ed, canvas, history) =
          [ed EXCEPT !.history = history, !.widgets = canvas.widgets,
                     !.selected = canvas.selected, !.dirty = TRUE]
    BY DEF Stepped
  <2> HIDE DEF ed
  <2>2a. AuthorOk([ed EXCEPT !.history = history, !.widgets = canvas.widgets,
                             !.selected = canvas.selected, !.dirty = TRUE], call[e], stored)
    BY <2>1, DirtyIsOk
  <2>3. AuthorOk(Stepped(ed, canvas, history), call[e], stored)
    BY <2>2, <2>2a
  <2> QED BY <2>3 DEF ed
<1>2. edits' \in 0..MaxEdits /\ writes' \in 0..MaxWrites
  BY DEF EditorInv
<1> QED BY <1>1, <1>2, CanvasStep

LEMMA ChangeStep ==
  ASSUME EditorInv, NEW e \in Editors, Change(e)
  PROVE  EditorInv'
<1>1. CASE \E key \in Keys : Add(e, key) \/ \E spot \in Spots : Drop(e, key, spot)
  BY <1>1, EditedStep DEF Add, Drop
<1>2. CASE \E id \in Ids(editor[e].widgets) :
             RemoveOne(e, id) \/ \E spot \in Spots : Move(e, id, spot)
  BY <1>2, EditedStep DEF RemoveOne, Move
<1>3. CASE \E value \in Props : SetProp(e, value) \/ ReplaceProps(e, value)
  BY <1>3, EditedStep DEF SetProp, ReplaceProps
<1>4. CASE Undo(e)
  BY <1>4, SteppedStep DEF Undo
<1>5. CASE Redo(e)
  BY <1>5, SteppedStep DEF Redo
<1> QED BY <1>1, <1>2, <1>3, <1>4, <1>5 DEF Change

LEMMA WriteStep ==
  ASSUME EditorInv, NEW e \in Editors, NEW payload, NEW body, Write(e, payload, body)
  PROVE  EditorInv'
<1> DEFINE phase == IF editor[e].version = NoVersion THEN "put" ELSE "check"
           c == [phase |-> phase, payload |-> payload, body |-> body,
                 base |-> editor[e].version]
<1>1. /\ editor' = [editor EXCEPT ![e] = [editor[e] EXCEPT !.error = "no"]]
      /\ call' = [call EXCEPT ![e] = c] /\ stored' = stored /\ edits' = edits
      /\ writes < MaxWrites /\ writes' = writes + 1
  BY DEF Write
<1>2. edits' \in 0..MaxEdits /\ writes' \in 0..MaxWrites
  BY <1>1, PageEditorAssumption DEF EditorInv
<1>3. AuthorOk(editor[e], call[e], stored)
  BY DEF EditorInv
<1>4. IsCall(c) /\ c.phase \in {"check", "put"} /\ c.base = editor[e].version
  BY DEF IsCall
<1> HIDE DEF c
<1>5. AuthorOk([editor[e] EXCEPT !.error = "no"], c, stored)
  BY <1>3, <1>4, CalledIsOk
<1> QED BY <1>1, <1>2, <1>5, AuthorStep

LEMMA EndedStep ==
  ASSUME EditorInv, NEW e \in Editors, NEW error \in {"no", "conflict", "failed", "unread"},
         Ended(e, error), stored'.version \in Nat \ {0},
         \A f \in Editors : AuthorOk(editor[f], call[f], stored'),
         edits' = edits, writes' = writes
  PROVE  EditorInv'
<1>1. /\ editor' = [editor EXCEPT ![e] = [editor[e] EXCEPT !.error = error]]
      /\ call' = [call EXCEPT ![e] = NoCall]
  BY DEF Ended
<1>2. edits' \in 0..MaxEdits /\ writes' \in 0..MaxWrites
  BY DEF EditorInv
<1>3. IsCall(NoCall) /\ NoCall.phase = "no"
  BY DEF IsCall, NoCall
<1>4. AuthorOk([editor[e] EXCEPT !.error = error], NoCall, stored')
  BY <1>3, CalledIsOk
<1> QED BY <1>1, <1>2, <1>4, StepOfOne

(* A request goes on to its next phase, and the editor stays.              *)
LEMMA PhaseStep ==
  ASSUME EditorInv, NEW e \in Editors, NEW phase \in {"load", "put", "reload"},
         phase = "put" => call[e].phase = "check",
         editor' = editor, call' = [call EXCEPT ![e].phase = phase],
         stored'.version \in Nat \ {0},
         \A f \in Editors : AuthorOk(editor[f], call[f], stored'),
         edits' = edits, writes' = writes
  PROVE  EditorInv'
<1> DEFINE d == [call[e] EXCEPT !.phase = phase]
<1>1. AuthorOk(editor[e], call[e], stored')
  OBVIOUS
<1>2. IsCall(d) /\ d.phase = phase /\ d.base = call[e].base
  BY <1>1, PhaseOfCall DEF AuthorOk
<1>3. call' = [call EXCEPT ![e] = d] /\ editor' = [editor EXCEPT ![e] = editor[e]]
  BY DEF EditorInv
<1> HIDE DEF d
<1>4. AuthorOk(editor[e], d, stored')
  BY <1>1, <1>2 DEF AuthorOk
<1>5. edits' \in 0..MaxEdits /\ writes' \in 0..MaxWrites
  BY DEF EditorInv
<1> QED BY <1>3, <1>4, <1>5, StepOfOne

LEMMA StoreStays ==
  ASSUME EditorInv, stored' = stored
  PROVE  /\ stored'.version \in Nat \ {0}
         /\ \A f \in Editors : AuthorOk(editor[f], call[f], stored')
BY DEF EditorInv

LEMMA CheckedStep ==
  ASSUME EditorInv, NEW e \in Editors, Checked(e)
  PROVE  EditorInv'
<1>1. call[e].phase = "check" /\ stored' = stored /\ edits' = edits /\ writes' = writes
  BY DEF Checked
<1>2. CASE call' = [call EXCEPT ![e].phase = "put"] /\ UNCHANGED editor
  BY <1>1, <1>2, StoreStays, PhaseStep
<1>3. CASE Ended(e, "conflict")
  BY <1>1, <1>3, StoreStays, EndedStep
<1>4. CASE Ended(e, "failed")
  BY <1>1, <1>4, StoreStays, EndedStep
<1> QED BY <1>2, <1>3, <1>4 DEF Checked

LEMMA PutStep ==
  ASSUME EditorInv, NEW e \in Editors, Put(e)
  PROVE  EditorInv'
<1>1. call[e].phase = "put" /\ edits' = edits /\ writes' = writes
  BY DEF Put
<1>2. CASE /\ stored' = [page |-> call[e].payload, version |-> stored.version + 1]
           /\ \/ call' = [call EXCEPT ![e].phase = "reload"] /\ UNCHANGED editor
              \/ Ended(e, "failed")
  <2>1. stored'.version = stored.version + 1 /\ stored.version \in Nat \ {0}
    BY <1>2 DEF EditorInv
  <2>2. \A f \in Editors : AuthorOk(editor[f], call[f], stored')
    BY <2>1, WrittenIsOk DEF EditorInv
  <2>3. stored'.version \in Nat \ {0}
    BY <2>1
  <2> QED BY <1>1, <1>2, <2>2, <2>3, PhaseStep, EndedStep
<1>3. CASE stored' = stored /\ \E error \in {"conflict", "failed"} : Ended(e, error)
  BY <1>1, <1>3, StoreStays, EndedStep
<1> QED BY <1>2, <1>3 DEF Put

LEMMA ReloadStep ==
  ASSUME EditorInv, NEW e \in Editors, Reload(e)
  PROVE  EditorInv'
<1> DEFINE d == [call[e] EXCEPT !.phase = "load"]
<1>1. /\ call' = [call EXCEPT ![e] = d]
      /\ editor' = [editor EXCEPT ![e] = [editor[e] EXCEPT !.error = "no"]]
      /\ stored' = stored /\ edits' = edits /\ writes' = writes
  BY DEF Reload
<1>2. AuthorOk(editor[e], call[e], stored)
  BY DEF EditorInv
<1>3. IsCall(d) /\ d.phase = "load"
  BY <1>2, PhaseOfCall DEF AuthorOk
<1> HIDE DEF d
<1>4. AuthorOk([editor[e] EXCEPT !.error = "no"], d, stored)
  BY <1>2, <1>3, CalledIsOk
<1>5. edits' \in 0..MaxEdits /\ writes' \in 0..MaxWrites
  BY <1>1 DEF EditorInv
<1> QED BY <1>1, <1>4, <1>5, AuthorStep

LEMMA LoadedStep ==
  ASSUME EditorInv, NEW e \in Editors, Loaded(e)
  PROVE  EditorInv'
<1>1. stored' = stored /\ edits' = edits /\ writes' = writes
  BY DEF Loaded
<1>2. CASE /\ editor' = [editor EXCEPT ![e] = Opened(editor[e], stored)]
           /\ call' = [call EXCEPT ![e] = NoCall]
  <2>1. AuthorOk(Opened(editor[e], stored), NoCall, stored)
    BY OpenedIsOk DEF EditorInv
  <2>2. edits' \in 0..MaxEdits /\ writes' \in 0..MaxWrites
    BY <1>1 DEF EditorInv
  <2> QED BY <1>1, <1>2, <2>1, <2>2, AuthorStep
<1>3. CASE Ended(e, "unread")
  BY <1>1, <1>3, StoreStays, EndedStep
<1> QED BY <1>2, <1>3 DEF Loaded

LEMMA SelectStep ==
  ASSUME EditorInv, NEW e \in Editors, NEW id, Select(e, id)
  PROVE  EditorInv'
<1>1. /\ editor' = [editor EXCEPT ![e] = [editor[e] EXCEPT !.selected = id]]
      /\ stored' = stored /\ call' = call /\ edits' = edits /\ writes' = writes
  BY DEF Select
<1>2. AuthorOk([editor[e] EXCEPT !.selected = id], call[e], stored)
  BY SelectedIsOk DEF EditorInv
<1>3. edits' \in 0..MaxEdits /\ writes' \in 0..MaxWrites
  BY <1>1 DEF EditorInv
<1> QED BY <1>1, <1>2, <1>3, CanvasStep

LEMMA EditorStepInv == EditorInv /\ [EditorNext]_pageVars => EditorInv'
<1> SUFFICES ASSUME EditorInv, [EditorNext]_pageVars PROVE EditorInv'
  OBVIOUS
<1>1. ASSUME NEW e \in Editors, Change(e)
      PROVE  EditorInv'
  BY <1>1, ChangeStep
<1>2. ASSUME NEW e \in Editors, NEW id, Select(e, id)
      PROVE  EditorInv'
  BY <1>2, SelectStep
<1>3. ASSUME NEW e \in Editors,
             SaveDraft(e) \/ Publish(e) \/ Discard(e) \/ \E body \in FirstBodies : Restore(e, body)
      PROVE  EditorInv'
  BY <1>3, WriteStep DEF SaveDraft, Publish, Discard, Restore
<1>4. ASSUME NEW e \in Editors, Checked(e) \/ Put(e) \/ Reload(e) \/ Loaded(e)
      PROVE  EditorInv'
  BY <1>4, CheckedStep, PutStep, ReloadStep, LoadedStep
<1>5. CASE UNCHANGED pageVars
  BY <1>5 DEF pageVars, EditorInv
<1> QED BY <1>1, <1>2, <1>3, <1>4, <1>5 DEF EditorNext

THEOREM EditorInvariant == EditorSpec => []EditorInv
BY EditorInitInv, EditorStepInv, PTL DEF EditorSpec

(* Every variable of the page editor keeps its type, apart from the widgets *)
(* themselves (pageEditor.js, pageSaver.js).                               *)
THEOREM EditorTypeCorrect == EditorSpec => []EditorTypeOK
<1>1. EditorInv => EditorTypeOK
  BY DEF EditorInv, AuthorOk, EditorTypeOK
<1> QED BY <1>1, EditorInvariant, PTL

(* Whoever's page is written had the version it replaces on screen when     *)
(* they saved, unless no load of theirs was ever answered (save of          *)
(* pageSaver.js, write of pageEditor.js).                                  *)
THEOREM NoSaveIsUnseen == EditorSpec => NoUnseenOverwrite
<1> DEFINE Seen == stored' # stored =>
              \E e \in Editors :
                call[e].phase = "put" /\ editor[e].version \in {stored.version, NoVersion}
<1>1. EditorInv /\ [EditorNext]_pageVars => [Seen]_pageVars
  <2> SUFFICES ASSUME EditorInv, EditorNext, stored' # stored
               PROVE  \E e \in Editors :
                        call[e].phase = "put" /\ editor[e].version \in {stored.version, NoVersion}
    BY DEF pageVars
  <2>1. PICK e \in Editors : Put(e) /\ Accepts(stored, call[e])
    <3> PICK e \in Editors :
          \/ Change(e) \/ \E id \in Ids(editor[e].widgets) : Select(e, id)
          \/ SaveDraft(e) \/ Publish(e) \/ Discard(e) \/ \E body \in FirstBodies : Restore(e, body)
          \/ Checked(e) \/ Put(e) \/ Reload(e) \/ Loaded(e)
      BY DEF EditorNext
    <3>1. ~Change(e)
      BY DEF Change, Add, Drop, RemoveOne, Move, SetProp, ReplaceProps, Edited, Undo, Redo
    <3>2. ~\E id \in Ids(editor[e].widgets) : Select(e, id)
      BY DEF Select
    <3>3. ~(SaveDraft(e) \/ Publish(e) \/ Discard(e) \/ \E body \in FirstBodies : Restore(e, body))
      BY DEF SaveDraft, Publish, Discard, Restore, Write
    <3>4. ~Checked(e) /\ ~Reload(e) /\ ~Loaded(e)
      BY DEF Checked, Reload, Loaded
    <3> QED BY <3>1, <3>2, <3>3, <3>4 DEF Put
  <2>2. AuthorOk(editor[e], call[e], stored)
    BY DEF EditorInv
  <2> QED BY <2>1, <2>2 DEF Put, Accepts, AuthorOk
<1> QED BY <1>1, EditorInvariant, PTL DEF EditorSpec, NoUnseenOverwrite

(* A page that is not called dirty is what the store has of that version    *)
(* (load, change, undo and redo of pageEditor.js).                         *)
THEOREM CleanPagesAreStored == EditorSpec => []CleanIsStored
<1>1. EditorInv => CleanIsStored
  BY DEF EditorInv, AuthorOk, Clean, CleanIsStored
<1> QED BY <1>1, EditorInvariant, PTL
-----------------------------------------------------------------------------

LEMMA Least ==
  ASSUME NEW S, S \subseteq Nat, S # {}
  PROVE  \E m \in S : \A n \in S : m <= n
<1>1. IsWellFoundedOn(OpToRel(<, Nat), Nat)
  BY NatLessThanWellFounded
<1>2. PICK m \in S : \A n \in S : <<n, m>> \notin OpToRel(<, Nat)
  BY <1>1, WFMin
<1>3. ASSUME NEW n \in S PROVE ~(n < m)
  BY <1>2 DEF OpToRel
<1> QED BY <1>3

(* No two widgets have one id.                                             *)
OwnIds(widgets) ==
  \A i, j \in DOMAIN widgets : widgets[i].id = widgets[j].id => i = j

LEMMA IdsAreFinite ==
  ASSUME NEW widgets \in Seq(Widgets)
  PROVE  /\ IsFiniteSet(Ids(widgets)) /\ Cardinality(Ids(widgets)) <= Len(widgets)
         /\ Cardinality(Ids(widgets)) \in Nat
         /\ OwnIds(widgets) => Cardinality(Ids(widgets)) = Len(widgets)
<1> DEFINE n == Len(widgets)
           f == [i \in 1..n |-> widgets[i].id]
<1>1. n \in Nat /\ DOMAIN widgets = 1..n
  OBVIOUS
<1>2. IsFiniteSet(1..n) /\ Cardinality(1..n) = n
  BY <1>1, FS_Interval
<1>3. f \in Surjection(1..n, Ids(widgets))
  BY <1>1 DEF Surjection, Ids
<1>4. /\ IsFiniteSet(Ids(widgets)) /\ Cardinality(Ids(widgets)) <= Cardinality(1..n)
      /\ Cardinality(Ids(widgets)) = Cardinality(1..n) <=> f \in Injection(1..n, Ids(widgets))
  BY <1>2, <1>3, FS_Surjection
<1>5. Cardinality(Ids(widgets)) \in Nat
  BY <1>4, FS_CardinalityType
<1>6. OwnIds(widgets) => f \in Injection(1..n, Ids(widgets))
  <2>1. f \in [1..n -> Ids(widgets)]
    BY <1>1 DEF Ids
  <2>2. OwnIds(widgets) => \A i, j \in 1..n : f[i] = f[j] => i = j
    BY <1>1 DEF OwnIds
  <2> HIDE DEF f, n
  <2> SUFFICES ASSUME OwnIds(widgets) PROVE f \in Injection(1..n, Ids(widgets))
    OBVIOUS
  <2>3. \A i, j \in 1..n : f[i] = f[j] => i = j
    BY <2>2
  <2> QED BY <2>1, <2>3 DEF Injection, IsInjective
<1> QED BY <1>2, <1>4, <1>5, <1>6

(* There is a number of the kind that no widget has, so there is a first.   *)
LEMMA NextIdIsFree ==
  ASSUME NEW widgets \in Seq(Widgets), NEW key \in Keys
  PROVE  /\ NextWidgetId(widgets, key) \in Keys \X (Nat \ {0})
         /\ NextWidgetId(widgets, key) \notin Ids(widgets)
<1> DEFINE n == Len(widgets)
           Spare == {m \in 1..n + 1 : <<key, m>> \notin Ids(widgets)}
           First(m) == /\ <<key, m>> \notin Ids(widgets)
                       /\ \A k \in 1..m - 1 : <<key, k>> \in Ids(widgets)
           found == CHOOSE m \in 1..n + 1 : First(m)
<1>1. n \in Nat /\ IsFiniteSet(1..n + 1) /\ Cardinality(1..n + 1) = n + 1
  BY FS_Interval
<1>2. Spare # {}
  <2> SUFFICES ASSUME Spare = {} PROVE FALSE
    OBVIOUS
  <2> DEFINE f == [m \in 1..n + 1 |-> <<key, m>>]
  <2>1. f \in [1..n + 1 -> Ids(widgets)]
    OBVIOUS
  <2>2. PICK x, y \in 1..n + 1 : x # y /\ f[x] = f[y]
    <3> HIDE DEF f, n
    <3>1. Cardinality(Ids(widgets)) < Cardinality(1..n + 1)
      BY <1>1, IdsAreFinite DEF n
    <3> QED BY <1>1, <2>1, <3>1, IdsAreFinite, FS_PigeonHole
  <2> QED BY <2>2
<1>3. PICK m \in Spare : \A k \in Spare : m <= k
  <2>1. Spare \subseteq Nat
    BY <1>1
  <2> HIDE DEF Spare
  <2> QED BY <1>2, <2>1, Least
<1>4. First(m) /\ m \in 1..n + 1
  BY <1>1, <1>3
<1>5. found \in 1..n + 1 /\ First(found)
  BY <1>4
<1>6. NextWidgetId(widgets, key) = <<key, found>>
  BY DEF NextWidgetId
<1> HIDE DEF found
<1> QED BY <1>1, <1>5, <1>6

LEMMA BottomIsWhole ==
  ASSUME NEW widgets \in Seq(Widgets)
  PROVE  Bottom(widgets) \in Int
<1> DEFINE n == Len(widgets)
           Low(i) == widgets[i].cell.y + widgets[i].cell.h
           Upto(k) == {0} \cup {Low(i) : i \in 1..k}
           Bad == {k \in 0..n : ~\E x \in Upto(k) : \A y \in Upto(k) : x >= y}
<1>1. n \in Nat /\ DOMAIN widgets = 1..n
  OBVIOUS
<1>2. \A i \in 1..n : Low(i) \in Int
  <2> TAKE i \in 1..n
  <2>1. widgets[i] \in Widgets
    OBVIOUS
  <2>2. widgets[i].cell \in [x : Int, y : Int, w : Int, h : Int]
    BY <2>1 DEF Widgets
  <2> QED BY <2>2
<1> HIDE DEF Low
<1>3. Bad = {}
  <2> SUFFICES ASSUME Bad # {} PROVE FALSE
    OBVIOUS
  <2>1. PICK k \in Bad : \A j \in Bad : k <= j
    <3>1. Bad \subseteq Nat
      BY <1>1
    <3> HIDE DEF Bad
    <3> QED BY <3>1, Least
  <2>2. k \in 1..n
    <3>1. Upto(0) = {0}
      OBVIOUS
    <3> QED BY <1>1, <2>1, <3>1
  <2>3. k - 1 \in 0..n /\ k - 1 \notin Bad
    <3> HIDE DEF Bad
    <3> QED BY <1>1, <2>1, <2>2
  <2>4. PICK x \in Upto(k - 1) : \A y \in Upto(k - 1) : x >= y
    BY <2>3
  <2>5. Upto(k) = Upto(k - 1) \cup {Low(k)} /\ Upto(k) \subseteq Int
    BY <1>1, <1>2, <2>2
  <2>6. \E z \in Upto(k) : \A y \in Upto(k) : z >= y
    <3> HIDE DEF Upto
    <3>1. x \in Int /\ Low(k) \in Int
      BY <2>4, <2>5
    <3>2. CASE x >= Low(k)
      BY <2>4, <2>5, <3>1, <3>2
    <3>3. CASE Low(k) > x
      <4>1. \A y \in Upto(k) : Low(k) >= y
        BY <2>4, <2>5, <3>1, <3>3
      <4> QED BY <2>5, <4>1
    <3> QED BY <3>1, <3>2, <3>3
  <2> QED BY <2>1, <2>6
<1>4. \E x \in Upto(n) : \A y \in Upto(n) : x >= y
  BY <1>1, <1>3
<1>5. Upto(n) \subseteq Int
  BY <1>2
<1>6. Bottom(widgets) = Max(Upto(n))
  BY <1>1 DEF Bottom, Low
<1> HIDE DEF Upto
<1>7. Max(Upto(n)) \in Upto(n)
  BY <1>4 DEF Max
<1> QED BY <1>5, <1>6, <1>7

(* A widget added has an id of its own.                                    *)
LEMMA NewIsOwn ==
  ASSUME NEW widgets \in Seq(Widgets), OwnIds(widgets), NEW key \in Keys,
         NEW cell \in [x : Int, y : Int, w : Int, h : Int]
  PROVE  /\ New(widgets, key, cell) \in Seq(Widgets) /\ OwnIds(New(widgets, key, cell))
         /\ NextWidgetId(widgets, key) \in Ids(New(widgets, key, cell))
         /\ NextWidgetId(widgets, key) \in Keys \X (Nat \ {0})
<1> DEFINE id == NextWidgetId(widgets, key)
           w == [id |-> id, cell |-> cell, prop |-> 0]
           u == Append(widgets, w)
<1>1. id \in Keys \X (Nat \ {0}) /\ id \notin Ids(widgets)
  BY NextIdIsFree
<1> HIDE DEF id
<1>2. w \in Widgets
  BY <1>1 DEF Widgets
<1>3. w.id = id
  OBVIOUS
<1> HIDE DEF w
<1>4. /\ u \in Seq(Widgets) /\ Len(u) = Len(widgets) + 1 /\ DOMAIN u = 1..Len(widgets) + 1
      /\ DOMAIN widgets = 1..Len(widgets) /\ Len(widgets) \in Nat
      /\ \A i \in 1..Len(widgets) : u[i] = widgets[i]
      /\ u[Len(widgets) + 1] = w
  BY <1>2
<1> HIDE DEF u
<1>5. OwnIds(u)
  BY <1>1, <1>3, <1>4 DEF OwnIds, Ids
<1>6. id \in Ids(u)
  BY <1>3, <1>4 DEF Ids
<1>7. New(widgets, key, cell) = u
  BY DEF New, u, w, id
<1> QED BY <1>1, <1>4, <1>5, <1>6, <1>7 DEF id

LEMMA AddedIsOwn ==
  ASSUME NEW widgets \in Seq(Widgets), OwnIds(widgets), NEW key \in Keys,
         NEW x \in Int, NEW y \in Int,
         NEW added \in {AddWidget(widgets, key), AddWidgetAt(widgets, key, x, y)}
  PROVE  /\ added \in Seq(Widgets) /\ OwnIds(added)
         /\ NextWidgetId(widgets, key) \in Ids(added)
         /\ NextWidgetId(widgets, key) \in Keys \X (Nat \ {0})
<1>1. Size[key].w \in Nat /\ Size[key].h \in Nat /\ GridColumns \in Nat
  BY GridModelAssumption
<1>2. Bottom(widgets) \in Int
  BY BottomIsWhole
<1>3. [x |-> 0, y |-> Bottom(widgets), w |-> AtMost(Size[key].w, GridColumns),
       h |-> Size[key].h] \in [x : Int, y : Int, w : Int, h : Int]
  BY <1>1, <1>2 DEF AtMost
<1>4. LET width == AtMost(Size[key].w, GridColumns)
      IN  [x |-> AtMost(AtLeast(x, 0), GridColumns - width), y |-> AtLeast(y, 0),
           w |-> width, h |-> Size[key].h] \in [x : Int, y : Int, w : Int, h : Int]
  BY <1>1 DEF AtMost, AtLeast
<1> QED BY <1>3, <1>4, NewIsOwn DEF AddWidget, AddWidgetAt

(* What is left when one widget is taken away.                             *)
LEMMA RemovedIsOwn ==
  ASSUME NEW widgets \in Seq(Widgets), OwnIds(widgets), NEW id
  PROVE  /\ RemoveWidget(widgets, id) \in Seq(Widgets) /\ OwnIds(RemoveWidget(widgets, id))
         /\ Ids(RemoveWidget(widgets, id)) = Ids(widgets) \ {id}
<1> DEFINE n == Len(widgets)
           Step(g, k) == IF k = 0 THEN <<>>
                         ELSE IF widgets[k].id = id THEN g[k - 1]
                         ELSE Append(g[k - 1], widgets[k])
           left == CHOOSE g : g = [k \in 0..n |-> Step(g, k)]
<1>1. n \in Nat /\ DOMAIN widgets = 1..n /\ \A k \in 1..n : widgets[k] \in Widgets
  OBVIOUS
<1>2. \E g : g = [k \in 0..n |-> Step(g, k)]
  <2> DEFINE Defined(m) == \E g \in [0..m -> Seq(Widgets)] : \A k \in 0..m : g[k] = Step(g, k)
             Bad == {m \in 0..n : ~Defined(m)}
  <2>1. Bad = {}
    <3> SUFFICES ASSUME Bad # {} PROVE FALSE
      OBVIOUS
    <3>1. PICK m \in Bad : \A j \in Bad : m <= j
      <4>1. Bad \subseteq Nat
        BY <1>1
      <4> HIDE DEF Bad
      <4> QED BY <4>1, Least
    <3>2. CASE m = 0
      <4> DEFINE g == [k \in 0..0 |-> <<>>]
      <4>1. g \in [0..0 -> Seq(Widgets)]
        OBVIOUS
      <4>2. \A k \in 0..0 : g[k] = Step(g, k)
        OBVIOUS
      <4> QED BY <3>1, <3>2, <4>1, <4>2
    <3>3. CASE m # 0
      <4>1. m \in 1..n /\ m - 1 \in 0..n /\ m - 1 \notin Bad
        <5>1. m \in 0..n
          BY <3>1
        <5> HIDE DEF Bad
        <5> QED BY <1>1, <3>1, <3>3, <5>1
      <4>2. PICK g \in [0..m - 1 -> Seq(Widgets)] : \A k \in 0..m - 1 : g[k] = Step(g, k)
        BY <4>1
      <4> DEFINE h == [k \in 0..m |-> IF k = m THEN Step(g, m) ELSE g[k]]
      <4>3. Step(g, m) \in Seq(Widgets)
        BY <1>1, <4>1, <4>2
      <4>4. h \in [0..m -> Seq(Widgets)]
        <5> HIDE DEF Step
        <5> QED BY <4>1, <4>2, <4>3
      <4>5. \A k \in 0..m - 1 : h[k] = g[k]
        BY <4>1
      <4>6. \A k \in 0..m : Step(h, k) = Step(g, k)
        BY <4>1, <4>5
      <4>7. \A k \in 0..m : h[k] = Step(h, k)
        <5>1. \A k \in 0..m : h[k] = Step(g, k)
          <6> HIDE DEF Step
          <6> QED BY <4>1, <4>2
        <5> HIDE DEF Step, h
        <5> QED BY <4>6, <5>1
      <4> HIDE DEF h
      <4>8. Defined(m)
        BY <4>4, <4>7
      <4> QED BY <3>1, <4>8
    <3> QED BY <3>2, <3>3
  <2>2. Defined(n)
    BY <1>1, <2>1
  <2>3. PICK g \in [0..n -> Seq(Widgets)] : \A k \in 0..n : g[k] = Step(g, k)
    BY <2>2
  <2> HIDE DEF Step
  <2>4. g = [k \in 0..n |-> Step(g, k)]
    BY <2>3
  <2> QED BY <2>4
<1>3. left = [k \in 0..n |-> Step(left, k)]
  <2> HIDE DEF Step
  <2> QED BY <1>2
<1>4. RemoveWidget(widgets, id) = left[n]
  BY DEF RemoveWidget
<1> HIDE DEF left
<1>5. left[0] = <<>> /\ \A k \in 1..n : left[k] = Step(left, k)
  <2>1. \A k \in 0..n : left[k] = Step(left, k)
    <3> HIDE DEF Step
    <3> QED BY <1>3
  <2>2. 0 \in 0..n /\ 1..n \subseteq 0..n
    BY <1>1
  <2>3. Step(left, 0) = <<>>
    OBVIOUS
  <2> HIDE DEF Step
  <2> QED BY <2>1, <2>2, <2>3
<1> DEFINE Among(k) == {widgets[i].id : i \in 1..k} \ {id}
           Ok(k) == left[k] \in Seq(Widgets) /\ OwnIds(left[k]) /\ Ids(left[k]) = Among(k)
           Bad == {k \in 0..n : ~Ok(k)}
<1>6. Bad = {}
  <2> SUFFICES ASSUME Bad # {} PROVE FALSE
    OBVIOUS
  <2>1. PICK k \in Bad : \A j \in Bad : k <= j
    <3>1. Bad \subseteq Nat
      BY <1>1
    <3> HIDE DEF Bad
    <3> QED BY <3>1, Least
  <2>2. CASE k = 0
    <3>1. <<>> \in Seq(Widgets) /\ OwnIds(<<>>) /\ Ids(<<>>) = {}
      BY DEF OwnIds, Ids
    <3>2. Among(0) = {}
      OBVIOUS
    <3> QED BY <1>5, <2>1, <2>2, <3>1, <3>2
  <2>3. CASE k # 0
    <3>1. k \in 1..n /\ k - 1 \in 0..n /\ Ok(k - 1)
      <4>1. k \in 0..n
        BY <2>1
      <4>2. k \in 1..n /\ k - 1 \in 0..n /\ k - 1 \notin Bad
        <5> HIDE DEF Bad
        <5> QED BY <1>1, <2>1, <2>3, <4>1
      <4> HIDE DEF Ok
      <4> QED BY <4>2
    <3>2. {widgets[i].id : i \in 1..k} = {widgets[i].id : i \in 1..k - 1} \cup {widgets[k].id}
      BY <1>1, <3>1
    <3>3. CASE widgets[k].id = id
      <4>1. left[k] = left[k - 1]
        BY <1>5, <3>1, <3>3
      <4>2. Among(k) = Among(k - 1)
        BY <3>2, <3>3
      <4> QED BY <2>1, <3>1, <4>1, <4>2
    <3>4. CASE widgets[k].id # id
      <4> DEFINE s == left[k - 1]
                 u == Append(s, widgets[k])
      <4>1. left[k] = u
        <5>1. k # 0
          BY <1>1, <3>1
        <5> QED BY <1>5, <3>1, <3>4, <5>1
      <4>2. Among(k) = Among(k - 1) \cup {widgets[k].id}
        BY <3>2, <3>4
      <4>3. widgets[k].id \notin Ids(s)
        BY <1>1, <3>1 DEF OwnIds
      <4>4. s \in Seq(Widgets) /\ OwnIds(s) /\ Ids(s) = Among(k - 1)
        BY <3>1
      <4> HIDE DEF s
      <4>5. /\ u \in Seq(Widgets) /\ DOMAIN u = 1..Len(s) + 1 /\ DOMAIN s = 1..Len(s)
            /\ Len(s) \in Nat /\ u[Len(s) + 1] = widgets[k]
            /\ \A i \in 1..Len(s) : u[i] = s[i]
        BY <1>1, <3>1, <4>4
      <4> HIDE DEF u, Among
      <4>6. OwnIds(u)
        BY <4>3, <4>4, <4>5 DEF OwnIds, Ids
      <4>7. Ids(u) = Ids(s) \cup {widgets[k].id}
        BY <4>5 DEF Ids
      <4> QED BY <2>1, <4>1, <4>2, <4>4, <4>5, <4>6, <4>7
    <3> QED BY <3>3, <3>4
  <2> QED BY <2>2, <2>3
<1>7. Ok(n)
  <2> HIDE DEF Ok
  <2> QED BY <1>1, <1>6
<1>8. Among(n) = Ids(widgets) \ {id}
  BY <1>1 DEF Ids
<1> QED BY <1>4, <1>7, <1>8

(* Widgets changed in place keep their ids.                                *)
LEMMA SameIds ==
  ASSUME NEW widgets \in Seq(Widgets), NEW u \in [DOMAIN widgets -> Widgets],
         \A i \in DOMAIN widgets : u[i].id = widgets[i].id
  PROVE  /\ u \in Seq(Widgets) /\ Len(u) = Len(widgets) /\ Ids(u) = Ids(widgets)
         /\ OwnIds(widgets) => OwnIds(u)
<1>1. DOMAIN widgets = 1..Len(widgets) /\ Len(widgets) \in Nat /\ DOMAIN u = DOMAIN widgets
  OBVIOUS
<1>2. u \in Seq(Widgets) /\ Len(u) = Len(widgets)
  BY <1>1
<1> QED BY <1>1, <1>2 DEF Ids, OwnIds

LEMMA MovedIsOwn ==
  ASSUME NEW widgets \in Seq(Widgets), NEW id, NEW x \in Int, NEW y \in Int
  PROVE  LET u == ApplyLayout(widgets, id, x, y)
         IN  u \in Seq(Widgets) /\ Ids(u) = Ids(widgets) /\ (OwnIds(widgets) => OwnIds(u))
<1> DEFINE Moved(w) == [w EXCEPT !.cell.x = x, !.cell.y = y]
           u == [i \in DOMAIN widgets |-> IF widgets[i].id = id THEN Moved(widgets[i])
                                          ELSE widgets[i]]
<1>1. \A w \in Widgets : Moved(w) \in Widgets /\ Moved(w).id = w.id
  <2> TAKE w \in Widgets
  <2> DEFINE there == [w.cell EXCEPT !.x = x]
             cell == [there EXCEPT !.y = y]
  <2>1. w.cell \in [x : Int, y : Int, w : Int, h : Int]
    BY DEF Widgets
  <2>2. cell \in [x : Int, y : Int, w : Int, h : Int] /\ there \in [x : Int, y : Int, w : Int, h : Int]
    BY <2>1
  <2>3. Moved(w) = [w EXCEPT !.cell = cell]
    <3> DEFINE v == [w EXCEPT !.cell = there]
    <3>1. v \in Widgets /\ v.cell = there /\ v = [w EXCEPT !.cell.x = x]
      BY <2>2 DEF Widgets
    <3>2. Moved(w) = [v EXCEPT !.cell = [v.cell EXCEPT !.y = y]]
      BY <3>1
    <3> HIDE DEF v, there, Moved
    <3>3. Moved(w) = [v EXCEPT !.cell = cell]
      BY <3>1, <3>2
    <3> HIDE DEF cell
    <3> QED BY <2>2, <3>1, <3>3 DEF v, Widgets
  <2> HIDE DEF cell, Moved
  <2> QED BY <2>2, <2>3 DEF Widgets
<1> HIDE DEF Moved
<1>2. \A i \in DOMAIN widgets : widgets[i] \in Widgets
  OBVIOUS
<1>3. u \in [DOMAIN widgets -> Widgets] /\ \A i \in DOMAIN widgets : u[i].id = widgets[i].id
  BY <1>1, <1>2
<1>4. ApplyLayout(widgets, id, x, y) = u
  BY DEF ApplyLayout, With, Moved
<1> HIDE DEF u
<1> QED BY <1>3, <1>4, SameIds

LEMMA FilledIsOwn ==
  ASSUME NEW widgets \in Seq(Widgets), NEW id, NEW value \in Nat
  PROVE  LET u == SetWidgetProp(widgets, id, value)
         IN  u \in Seq(Widgets) /\ Ids(u) = Ids(widgets) /\ (OwnIds(widgets) => OwnIds(u))
<1> DEFINE u == [i \in DOMAIN widgets |-> IF widgets[i].id = id
                                          THEN [widgets[i] EXCEPT !.prop = value]
                                          ELSE widgets[i]]
<1>1. \A w \in Widgets : [w EXCEPT !.prop = value] \in Widgets
                         /\ [w EXCEPT !.prop = value].id = w.id
  BY DEF Widgets
<1>2. \A i \in DOMAIN widgets : widgets[i] \in Widgets
  OBVIOUS
<1>3. u \in [DOMAIN widgets -> Widgets] /\ \A i \in DOMAIN widgets : u[i].id = widgets[i].id
  BY <1>1, <1>2
<1>4. SetWidgetProp(widgets, id, value) = u
  BY DEF SetWidgetProp, With
<1> HIDE DEF u
<1> QED BY <1>3, <1>4, SameIds

(* The cell drawn is drawn as itself, so what is stored is read back as it  *)
(* was shown.                                                              *)
LEMMA CellOfCell ==
  ASSUME NEW c \in [x : Int, y : Int, w : Int, h : Int]
  PROVE  CellOf(c) \in [x : Int, y : Int, w : Int, h : Int] /\ CellOf(CellOf(c)) = CellOf(c)
<1>1. GridColumns \in Nat \ {0} /\ c.x \in Int /\ c.y \in Int /\ c.w \in Int /\ c.h \in Int
  BY GridModelAssumption
<1> DEFINE x == AtLeast(0, AtMost(GridColumns - 1, c.x))
           y == AtLeast(0, c.y)
           w == AtLeast(1, AtMost(GridColumns - x, c.w))
           h == AtLeast(1, c.h)
<1>2. CellOf(c) = [x |-> x, y |-> y, w |-> w, h |-> h]
  BY DEF CellOf
<1>3. x \in 0..GridColumns - 1 /\ y \in Nat /\ h \in Nat \ {0}
  BY <1>1 DEF AtLeast, AtMost
<1> HIDE DEF x, y, h
<1>4. w \in 1..GridColumns - x
  BY <1>1, <1>3 DEF AtLeast, AtMost
<1> HIDE DEF w
<1>5. AtLeast(0, AtMost(GridColumns - 1, x)) = x /\ AtLeast(0, y) = y /\ AtLeast(1, h) = h
  BY <1>1, <1>3 DEF AtLeast, AtMost
<1>6. AtLeast(1, AtMost(GridColumns - x, w)) = w
  BY <1>1, <1>3, <1>4 DEF AtLeast, AtMost
<1>7. CellOf([x |-> x, y |-> y, w |-> w, h |-> h]) = [x |-> x, y |-> y, w |-> w, h |-> h]
  BY <1>5, <1>6 DEF CellOf
<1> QED BY <1>1, <1>2, <1>3, <1>4, <1>7

LEMMA DrawnIsOwn ==
  ASSUME NEW widgets \in Seq(Widgets)
  PROVE  LET u == Normalised(widgets)
         IN  /\ Stored(widgets) = u /\ Normalised(u) = u
             /\ u \in Seq(Widgets) /\ Ids(u) = Ids(widgets) /\ (OwnIds(widgets) => OwnIds(u))
<1> DEFINE Drawn(w) == [w EXCEPT !.cell = CellOf(w.cell)]
           u == [i \in DOMAIN widgets |-> Drawn(widgets[i])]
<1>1. \A w \in Widgets : Drawn(w) \in Widgets /\ Drawn(w).id = w.id /\ Drawn(Drawn(w)) = Drawn(w)
  <2> TAKE w \in Widgets
  <2> DEFINE cell == CellOf(w.cell)
  <2>1. w.cell \in [x : Int, y : Int, w : Int, h : Int]
    BY DEF Widgets
  <2>2. cell \in [x : Int, y : Int, w : Int, h : Int] /\ CellOf(cell) = cell
    BY <2>1, CellOfCell
  <2> HIDE DEF cell
  <2>3. [w EXCEPT !.cell = cell] \in Widgets /\ [w EXCEPT !.cell = cell].id = w.id
        /\ [w EXCEPT !.cell = cell].cell = cell
    BY <2>2 DEF Widgets
  <2>4. Drawn([w EXCEPT !.cell = cell]) = [w EXCEPT !.cell = cell]
    BY <2>2, <2>3
  <2>5. Drawn(w) = [w EXCEPT !.cell = cell]
    BY DEF cell
  <2> HIDE DEF Drawn
  <2> QED BY <2>3, <2>4, <2>5
<1>2. Normalised(widgets) = u /\ Stored(widgets) = u
      /\ Normalised(u) = [i \in DOMAIN u |-> Drawn(u[i])]
  BY DEF Normalised, Stored
<1> HIDE DEF Drawn
<1>3. \A i \in DOMAIN widgets : widgets[i] \in Widgets
  OBVIOUS
<1>4. u \in [DOMAIN widgets -> Widgets] /\ \A i \in DOMAIN widgets : u[i].id = widgets[i].id
  BY <1>1, <1>3
<1>5. \A i \in DOMAIN widgets : Drawn(u[i]) = u[i]
  BY <1>1, <1>3
<1> HIDE DEF u
<1>6. [i \in DOMAIN u |-> Drawn(u[i])] = u
  BY <1>4, <1>5
<1> QED BY <1>2, <1>4, <1>6, SameIds

-----------------------------------------------------------------------------
WidgetIds == Keys \X (Nat \ {0})

Canvases == [widgets : Seq(Widgets), selected : WidgetIds \cup {NoId}]

Whole(canvas) ==
  /\ canvas \in Canvases
  /\ OwnIds(canvas.widgets) /\ canvas.selected \in Ids(canvas.widgets) \cup {NoId}

LastKeys == {NoKey} \cup ({"prop", "form"} \X WidgetIds)
Histories == [past : Seq(Canvases), future : Seq(Canvases), lastKey : LastKeys]

WholeHistory(h) ==
  /\ h \in Histories /\ Len(h.past) + Len(h.future) <= Limit
  /\ \A i \in DOMAIN h.past : Whole(h.past[i])
  /\ \A i \in DOMAIN h.future : Whole(h.future[i])

LEMMA NoHistoryIsWhole == WholeHistory(NoHistory)
<1>1. <<>> \in Seq(Canvases) /\ Len(<<>>) = 0 /\ DOMAIN <<>> = {}
  OBVIOUS
<1>2. NoHistory \in Histories /\ NoHistory.past = <<>> /\ NoHistory.future = <<>>
  BY <1>1 DEF NoHistory, Histories, LastKeys
<1> QED BY <1>1, <1>2, EditHistoryAssumption DEF WholeHistory

LEMMA PartOf ==
  ASSUME NEW S, NEW s \in Seq(S), NEW m \in Nat \ {0}, NEW n \in Nat, n <= Len(s), m <= n + 1
  PROVE  /\ SubSeq(s, m, n) \in Seq(S) /\ Len(SubSeq(s, m, n)) = n - m + 1
         /\ \A i \in 1..n - m + 1 : SubSeq(s, m, n)[i] = s[m + i - 1]
<1>1. \A i \in m..n : s[i] \in S
  OBVIOUS
<1>2. m \in Int /\ n \in Int
  OBVIOUS
<1>3. /\ SubSeq(s, m, n) \in Seq(S)
      /\ Len(SubSeq(s, m, n)) = IF m <= n THEN n - m + 1 ELSE 0
      /\ \A i \in 1..n - m + 1 : SubSeq(s, m, n)[i] = s[m + i - 1]
  BY <1>1, <1>2, SubSeqProperties
<1> QED BY <1>3

(* The line behind the canvas, once it is recorded there.                  *)
LEMMA NewestOf ==
  ASSUME NEW s \in Seq(Canvases), Len(s) <= Limit, NEW c \in Canvases
  PROVE  LET t == Newest(Append(s, c))
             d == Len(s) + 1 - Len(t)
         IN  /\ t \in Seq(Canvases) /\ d \in 0..1
             /\ Len(t) = IF Len(s) < Limit THEN Len(s) + 1 ELSE Limit
             /\ \A i \in 1..Len(t) : t[i] = IF i + d <= Len(s) THEN s[i + d] ELSE c
<1> DEFINE a == Append(s, c)
           n == Len(s)
<1>1. /\ n \in Nat /\ Limit \in Nat \ {0} /\ a \in Seq(Canvases) /\ Len(a) = n + 1
      /\ DOMAIN a = 1..n + 1
      /\ \A i \in 1..n + 1 : a[i] = IF i <= n THEN s[i] ELSE c
  BY EditHistoryAssumption
<1>a. \A i \in 1..n + 1 : a[i] \in Canvases
  BY <1>1
<1>2. CASE n < Limit
  <2>1. Newest(a) = a
    BY <1>1, <1>2 DEF Newest
  <2> HIDE DEF a
  <2> QED BY <1>1, <1>2, <2>1 DEF a
<1>3. CASE n = Limit
  <2> DEFINE t == SubSeq(a, 2, n + 1)
  <2>1. Newest(a) = t
    BY <1>1, <1>3 DEF Newest
  <2> HIDE DEF a, n
  <2>4. /\ t \in Seq(Canvases) /\ Len(t) = n + 1 - 2 + 1
        /\ \A i \in 1..n + 1 - 2 + 1 : t[i] = a[2 + i - 1]
    <3>1. 2 \in Nat \ {0} /\ n + 1 \in Nat /\ n + 1 <= Len(a) /\ 2 <= n + 1 + 1
      BY <1>1
    <3> QED BY <1>1, <3>1, PartOf
  <2> HIDE DEF t
  <2>5. Len(t) = n /\ \A i \in 1..n : t[i] = IF i + 1 <= n THEN s[i + 1] ELSE c
    BY <1>1, <2>4
  <2> QED BY <1>1, <1>3, <2>1, <2>4, <2>5 DEF a, n
<1> QED BY <1>1, <1>2, <1>3

LEMMA RecordIsWhole ==
  ASSUME NEW h, WholeHistory(h), NEW c, Whole(c), NEW key \in LastKeys
  PROVE  WholeHistory(Record(h, c, key))
<1> DEFINE s == h.past
           t == Newest(Append(s, c))
<1>1. /\ s \in Seq(Canvases) /\ Len(s) \in Nat /\ Len(s) <= Limit /\ Limit \in Nat
      /\ h \in Histories /\ <<>> \in Seq(Canvases) /\ Len(<<>>) = 0 /\ DOMAIN <<>> = {}
      /\ DOMAIN s = 1..Len(s) /\ h.future \in Seq(Canvases) /\ Len(h.future) \in Nat
      /\ \A i \in 1..Len(s) : Whole(s[i])
  BY EditHistoryAssumption DEF WholeHistory, Histories
<1>2. CASE Coalesces(h, key)
  <2>1. Record(h, c, key) = [h EXCEPT !.future = <<>>]
    BY <1>2 DEF Record
  <2>2. [h EXCEPT !.future = <<>>] \in Histories
        /\ [h EXCEPT !.future = <<>>].past = s /\ [h EXCEPT !.future = <<>>].future = <<>>
    BY <1>1 DEF Histories
  <2> QED BY <1>1, <2>1, <2>2 DEF WholeHistory
<1>3. CASE ~Coalesces(h, key)
  <2>1. /\ t \in Seq(Canvases) /\ Len(s) + 1 - Len(t) \in 0..1 /\ Len(t) <= Limit
        /\ \A i \in 1..Len(t) : \/ t[i] = c
                                \/ \E j \in 1..Len(s) : t[i] = s[j]
    <3>1. c \in Canvases
      BY DEF Whole
    <3>2. LET d == Len(s) + 1 - Len(t)
          IN  /\ t \in Seq(Canvases) /\ d \in 0..1
              /\ Len(t) = IF Len(s) < Limit THEN Len(s) + 1 ELSE Limit
              /\ \A i \in 1..Len(t) : t[i] = IF i + d <= Len(s) THEN s[i + d] ELSE c
      BY <1>1, <3>1, NewestOf
    <3> HIDE DEF t, s
    <3> DEFINE d == Len(s) + 1 - Len(t)
    <3>3. d \in 0..1 /\ Len(t) <= Limit /\ t \in Seq(Canvases)
      BY <1>1, <3>2
    <3>4. \A i \in 1..Len(t) : t[i] = IF i + d <= Len(s) THEN s[i + d] ELSE c
      BY <3>2
    <3>5. \A i \in 1..Len(t) : i + d <= Len(s) => i + d \in 1..Len(s)
      BY <1>1, <3>3
    <3>6. \A i \in 1..Len(t) : t[i] = c \/ \E j \in 1..Len(s) : t[i] = s[j]
      <4> HIDE DEF d
      <4> QED BY <3>4, <3>5
    <3> QED BY <3>3, <3>6
  <2>2. Record(h, c, key) = [past |-> t, future |-> <<>>, lastKey |-> key]
    BY <1>3 DEF Record
  <2> HIDE DEF t, s
  <2>3. \A i \in DOMAIN t : Whole(t[i])
    BY <1>1, <2>1
  <2>4. [past |-> t, future |-> <<>>, lastKey |-> key] \in Histories
    BY <1>1, <2>1 DEF Histories
  <2>5. Len(t) + Len(<<>>) <= Limit
    BY <1>1, <2>1
  <2> QED BY <1>1, <2>2, <2>3, <2>4, <2>5 DEF WholeHistory
<1> QED BY <1>2, <1>3

(* What is popped from one end and pushed to the other.                    *)
LEMMA PoppedIsWhole ==
  ASSUME NEW s \in Seq(Canvases), s # <<>>, \A i \in DOMAIN s : Whole(s[i])
  PROVE  /\ Pop(s) \in Seq(Canvases) /\ Len(Pop(s)) = Len(s) - 1 /\ Len(s) \in Nat \ {0}
         /\ \A i \in 1..Len(s) - 1 : Pop(s)[i] = s[i]
         /\ \A i \in DOMAIN Pop(s) : Whole(Pop(s)[i])
         /\ Whole(Top(s))
<1> DEFINE n == Len(s)
           t == SubSeq(s, 1, n - 1)
<1>1. n \in Nat \ {0} /\ DOMAIN s = 1..n /\ \A i \in 1..n : s[i] \in Canvases
  OBVIOUS
<1>2. n = Len(s)
  OBVIOUS
<1> HIDE DEF n
<1>3. /\ t \in Seq(Canvases) /\ Len(t) = n - 1 - 1 + 1
      /\ \A i \in 1..n - 1 - 1 + 1 : t[i] = s[1 + i - 1]
  <2>1. 1 \in Nat \ {0} /\ n - 1 \in Nat /\ n - 1 <= Len(s) /\ 1 <= n - 1 + 1
    BY <1>1, <1>2
  <2> QED BY <2>1, PartOf
<1> HIDE DEF t
<1>4. Len(t) = n - 1 /\ \A i \in 1..n - 1 : t[i] = s[i]
  BY <1>1, <1>3
<1>5. DOMAIN t = 1..n - 1
  BY <1>3, <1>4
<1>7. \A i \in 1..n - 1 : Whole(s[i])
  BY <1>1
<1>8. Whole(s[n])
  BY <1>1
<1>6. Pop(s) = t /\ Top(s) = s[n]
  BY DEF Pop, Top, t, n
<1> QED BY <1>1, <1>3, <1>4, <1>5, <1>6, <1>7, <1>8 DEF n

LEMMA PushedIsWhole ==
  ASSUME NEW s \in Seq(Canvases), \A i \in DOMAIN s : Whole(s[i]), NEW c, Whole(c)
  PROVE  /\ Append(s, c) \in Seq(Canvases) /\ Len(Append(s, c)) = Len(s) + 1
         /\ \A i \in DOMAIN Append(s, c) : Whole(Append(s, c)[i])
<1>1. c \in Canvases
  BY DEF Whole
<1>2. /\ Append(s, c) \in Seq(Canvases) /\ Len(Append(s, c)) = Len(s) + 1
      /\ Len(s) \in Nat /\ DOMAIN s = 1..Len(s)
      /\ DOMAIN Append(s, c) = 1..Len(s) + 1
      /\ \A i \in 1..Len(s) + 1 : Append(s, c)[i] = IF i <= Len(s) THEN s[i] ELSE c
  BY <1>1
<1> QED BY <1>2

LEMMA UndoneIsWhole ==
  ASSUME NEW h, WholeHistory(h), CanUndo(h), NEW c, Whole(c)
  PROVE  WholeHistory(Undone(h, c)) /\ Whole(Top(h.past))
<1>1. /\ h.past \in Seq(Canvases) /\ h.future \in Seq(Canvases) /\ h.past # <<>>
      /\ Len(h.past) + Len(h.future) <= Limit /\ Len(h.future) \in Nat
      /\ \A i \in DOMAIN h.past : Whole(h.past[i])
      /\ \A i \in DOMAIN h.future : Whole(h.future[i])
  BY DEF WholeHistory, Histories, CanUndo
<1> DEFINE s == Pop(h.past)
           t == Append(h.future, c)
<1>2. /\ s \in Seq(Canvases) /\ Len(s) = Len(h.past) - 1 /\ Len(h.past) \in Nat
      /\ \A i \in DOMAIN s : Whole(s[i])
      /\ Whole(Top(h.past))
  BY <1>1, PoppedIsWhole
<1>3. /\ t \in Seq(Canvases) /\ Len(t) = Len(h.future) + 1
      /\ \A i \in DOMAIN t : Whole(t[i])
  BY <1>1, PushedIsWhole
<1>4. Undone(h, c) = [past |-> s, future |-> t, lastKey |-> NoKey]
  BY DEF Undone
<1> HIDE DEF s, t
<1>5. Undone(h, c) \in Histories
  BY <1>2, <1>3, <1>4 DEF Histories, LastKeys
<1>6. Len(s) + Len(t) <= Limit /\ Len(t) + Len(s) <= Limit
  <2> DEFINE a == Len(h.past)
             b == Len(h.future)
             m == Len(s)
             n == Len(t)
  <2>1. a \in Nat /\ b \in Nat
    BY <1>1, <1>2
  <2>2. m = a - 1 /\ n = b + 1
    BY <1>2, <1>3
  <2>3. a + b <= Limit
    BY <1>1
  <2> HIDE DEF a, b, m, n
  <2>4. m + n <= Limit /\ n + m <= Limit
    BY <2>1, <2>2, <2>3, EditHistoryAssumption
  <2> QED BY <2>4 DEF m, n
<1>7. Undone(h, c).past = s /\ Undone(h, c).future = t
  BY <1>4
<1> QED BY <1>2, <1>3, <1>5, <1>6, <1>7 DEF WholeHistory

LEMMA RedoneIsWhole ==
  ASSUME NEW h, WholeHistory(h), CanRedo(h), NEW c, Whole(c)
  PROVE  WholeHistory(Redone(h, c)) /\ Whole(Top(h.future))
<1>1. /\ h.past \in Seq(Canvases) /\ h.future \in Seq(Canvases) /\ h.future # <<>>
      /\ Len(h.past) + Len(h.future) <= Limit /\ Len(h.past) \in Nat
      /\ \A i \in DOMAIN h.past : Whole(h.past[i])
      /\ \A i \in DOMAIN h.future : Whole(h.future[i])
  BY DEF WholeHistory, Histories, CanRedo
<1> DEFINE s == Pop(h.future)
           t == Append(h.past, c)
<1>2. /\ s \in Seq(Canvases) /\ Len(s) = Len(h.future) - 1 /\ Len(h.future) \in Nat
      /\ \A i \in DOMAIN s : Whole(s[i])
      /\ Whole(Top(h.future))
  BY <1>1, PoppedIsWhole
<1>3. /\ t \in Seq(Canvases) /\ Len(t) = Len(h.past) + 1
      /\ \A i \in DOMAIN t : Whole(t[i])
  BY <1>1, PushedIsWhole
<1>4. Redone(h, c) = [past |-> t, future |-> s, lastKey |-> NoKey]
  BY DEF Redone
<1> HIDE DEF s, t
<1>5. Redone(h, c) \in Histories
  BY <1>2, <1>3, <1>4 DEF Histories, LastKeys
<1>6. Len(s) + Len(t) <= Limit /\ Len(t) + Len(s) <= Limit
  <2> DEFINE a == Len(h.future)
             b == Len(h.past)
             m == Len(s)
             n == Len(t)
  <2>1. a \in Nat /\ b \in Nat
    BY <1>1, <1>2
  <2>2. m = a - 1 /\ n = b + 1
    BY <1>2, <1>3
  <2>3. b + a <= Limit
    BY <1>1
  <2> HIDE DEF a, b, m, n
  <2>4. m + n <= Limit /\ n + m <= Limit
    BY <2>1, <2>2, <2>3, EditHistoryAssumption
  <2> QED BY <2>4 DEF m, n
<1>7. Redone(h, c).past = t /\ Redone(h, c).future = s
  BY <1>4
<1> QED BY <1>2, <1>3, <1>5, <1>6, <1>7 DEF WholeHistory

-----------------------------------------------------------------------------
Areas == {{}} \cup {body.kept : body \in FirstBodies}
Bodies == [kind : {"grid", "markdown"}, main : Seq(Widgets), kept : Areas]
PageShapes == [body : Bodies \cup {NoBody}, draft : Bodies \cup {NoBody}]

WholePage(page) ==
  page \in PageShapes /\ OwnIds(page.body.main) /\ OwnIds(page.draft.main)

LEMMA FirstBodyIsWhole ==
  ASSUME NEW body \in FirstBodies
  PROVE  body \in Bodies /\ OwnIds(body.main)
BY FirstBodiesAssumption DEF Bodies, Areas, OwnIds

LEMMA NoBodyFacts == NoBody \notin Bodies /\ OwnIds(NoBody.main)
BY DEF NoBody, Bodies, OwnIds

LEMMA SourceIsWhole ==
  ASSUME NEW page, WholePage(page)
  PROVE  /\ SourceBodyOf(page) \in Bodies \cup {NoBody}
         /\ OwnIds(SourceBodyOf(page).main)
BY NoBodyFacts DEF WholePage, PageShapes, SourceBodyOf

LEMMA ReadIsWhole ==
  ASSUME NEW page, WholePage(page)
  PROVE  LET body == ReadBody(page)
         IN  /\ body.kind \in {"grid", "markdown"}
             /\ body.widgets \in Seq(Widgets) /\ OwnIds(body.widgets)
             /\ body.kind = "markdown" => body.widgets = <<>>
<1> DEFINE source == SourceBodyOf(page)
<1>1. source \in Bodies \cup {NoBody} /\ OwnIds(source.main)
  BY SourceIsWhole
<1> HIDE DEF source
<1>2. source.main \in Seq(Widgets)
  <2>1. CASE source \in Bodies
    BY <2>1 DEF Bodies
  <2>2. CASE source = NoBody
    <3>1. source.main = <<>>
      BY <2>2 DEF NoBody
    <3> HIDE DEF NoBody
    <3> QED BY <3>1
  <2> QED BY <1>1, <2>1, <2>2
<1>3. Normalised(source.main) \in Seq(Widgets) /\ OwnIds(Normalised(source.main))
  BY <1>1, <1>2, DrawnIsOwn
<1>4. <<>> \in Seq(Widgets) /\ OwnIds(<<>>)
  BY DEF OwnIds
<1>5. /\ ReadBody(page).kind = IF source.kind = "markdown" THEN "markdown" ELSE "grid"
      /\ ReadBody(page).widgets = IF source.kind = "markdown" THEN <<>>
                                  ELSE Normalised(source.main)
  BY DEF ReadBody, source
<1> QED BY <1>2, <1>3, <1>4, <1>5 DEF source

LEMMA BodyIsWhole ==
  ASSUME NEW page, WholePage(page), NEW kind \in {"grid", "markdown"},
         NEW widgets \in Seq(Widgets), OwnIds(widgets)
  PROVE  /\ BodyFor(page, kind, widgets) \in Bodies
         /\ OwnIds(BodyFor(page, kind, widgets).main)
<1>1. SourceBodyOf(page) \in Bodies \cup {NoBody}
  BY SourceIsWhole
<1>2. Stored(widgets) \in Seq(Widgets) /\ OwnIds(Stored(widgets))
  BY DrawnIsOwn
<1>3. CASE kind = "markdown"
  <2>1. BodyFor(page, kind, widgets) = [kind |-> "markdown", main |-> <<>>, kept |-> {}]
    BY <1>3 DEF BodyFor
  <2>2. <<>> \in Seq(Widgets) /\ {} \in Areas /\ OwnIds(<<>>)
    BY DEF Areas, OwnIds
  <2>3. [kind |-> "markdown", main |-> <<>>, kept |-> {}] \in Bodies
    BY <2>2 DEF Bodies
  <2> QED BY <2>1, <2>2, <2>3
<1>4. CASE kind = "grid"
  <2>1. BodyFor(page, kind, widgets) =
          [kind |-> "grid", main |-> Stored(widgets), kept |-> SourceBodyOf(page).kept]
    BY <1>4 DEF BodyFor
  <2>2. SourceBodyOf(page).kept \in Areas
    BY <1>1 DEF Bodies, NoBody, Areas
  <2>3. [kind |-> "grid", main |-> Stored(widgets), kept |-> SourceBodyOf(page).kept] \in Bodies
    BY <1>2, <2>2 DEF Bodies
  <2> QED BY <1>2, <2>1, <2>3
<1> QED BY <1>3, <1>4

(* A page as it is sent, and the body that is read back from it.           *)
LEMMA PayloadsAreWhole ==
  ASSUME NEW page, WholePage(page)
  PROVE  /\ \A body \in Bodies : OwnIds(body.main) =>
              /\ WholePage(DraftPayload(page, body)) /\ WholePage(PublishPayload(page, body))
              /\ SourceBodyOf(DraftPayload(page, body)) = body
              /\ SourceBodyOf(PublishPayload(page, body)) = body
         /\ WholePage(DiscardPayload(page))
<1>1. \A body \in Bodies : OwnIds(body.main) =>
        /\ WholePage(DraftPayload(page, body)) /\ SourceBodyOf(DraftPayload(page, body)) = body
  BY NoBodyFacts DEF WholePage, PageShapes, DraftPayload, SourceBodyOf
<1>2. \A body \in Bodies : OwnIds(body.main) =>
        /\ WholePage(PublishPayload(page, body))
        /\ SourceBodyOf(PublishPayload(page, body)) = body
  <2> SUFFICES ASSUME NEW body \in Bodies, OwnIds(body.main)
               PROVE  /\ WholePage(PublishPayload(page, body))
                      /\ SourceBodyOf(PublishPayload(page, body)) = body
    OBVIOUS
  <2>1. /\ PublishPayload(page, body) \in PageShapes
        /\ PublishPayload(page, body).body = body /\ PublishPayload(page, body).draft = NoBody
    BY DEF WholePage, PageShapes, PublishPayload
  <2> QED BY <2>1, NoBodyFacts DEF WholePage, SourceBodyOf
<1>3. WholePage(DiscardPayload(page))
  <2>1. /\ DiscardPayload(page) \in PageShapes
        /\ DiscardPayload(page).body = page.body /\ DiscardPayload(page).draft = NoBody
    BY DEF WholePage, PageShapes, DiscardPayload
  <2> QED BY <2>1, NoBodyFacts DEF WholePage
<1> QED BY <1>1, <1>2, <1>3

-----------------------------------------------------------------------------
EditorRecords ==
  [page : PageShapes, version : Nat, kind : {"grid", "markdown"}, widgets : Seq(Widgets),
   selected : WidgetIds \cup {NoId}, dirty : BOOLEAN,
   error : {"no", "conflict", "failed", "unread"}, history : Histories]

CallRecords ==
  [phase : {"no", "load", "check", "put", "reload"}, payload : PageShapes \cup {{}},
   body : Bodies \cup {NoBody}, base : Nat]

WholeEditor(ed) ==
  /\ ed \in EditorRecords /\ WholePage(ed.page)
  /\ OwnIds(ed.widgets) /\ ed.selected \in Ids(ed.widgets) \cup {NoId}
  /\ WholeHistory(ed.history)
  /\ ed.kind = "markdown" => ed.widgets = <<>>

(* A save under way sends a page whose body is the one it was made of, and  *)
(* the store has that page when its version is the next one.               *)
WholeCall(c, s) ==
  /\ c \in CallRecords
  /\ c.phase \in {"check", "put", "reload"} =>
       /\ WholePage(c.payload)
       /\ c.body # NoBody => SourceBodyOf(c.payload) = c.body
  /\ c.phase = "reload" =>
       /\ s.version >= c.base + 1
       /\ s.version = c.base + 1 => s.page = c.payload

CanvasInv ==
  /\ stored \in [page : PageShapes, version : Nat \ {0}] /\ WholePage(stored.page)
  /\ editor \in [Editors -> EditorRecords] /\ call \in [Editors -> CallRecords]
  /\ \A e \in Editors : WholeEditor(editor[e]) /\ WholeCall(call[e], stored)

LEMMA IdsAreTyped ==
  ASSUME NEW widgets \in Seq(Widgets)
  PROVE  Ids(widgets) \subseteq WidgetIds
<1> SUFFICES ASSUME NEW i \in DOMAIN widgets PROVE widgets[i].id \in WidgetIds
  BY DEF Ids
<1>1. widgets[i] \in Widgets
  OBVIOUS
<1> QED BY <1>1 DEF Widgets, WidgetIds

LEMMA OpenedIsWhole ==
  ASSUME NEW ed, NEW s \in [page : PageShapes, version : Nat \ {0}], WholePage(s.page)
  PROVE  WholeEditor(Opened(ed, s))
<1> DEFINE body == ReadBody(s.page)
           selected == IF ed.selected \in Ids(body.widgets) THEN ed.selected ELSE NoId
           u == [page |-> s.page, version |-> s.version, kind |-> body.kind,
                 widgets |-> body.widgets, selected |-> selected,
                 dirty |-> FALSE, error |-> "no", history |-> NoHistory]
<1>1. Opened(ed, s) = u
  BY DEF Opened
<1>2. /\ body.kind \in {"grid", "markdown"}
      /\ body.widgets \in Seq(Widgets) /\ OwnIds(body.widgets)
      /\ body.kind = "markdown" => body.widgets = <<>>
  BY ReadIsWhole
<1> HIDE DEF body
<1>3. Ids(body.widgets) \subseteq WidgetIds
  BY <1>2, IdsAreTyped
<1>4. selected \in WidgetIds \cup {NoId} /\ selected \in Ids(body.widgets) \cup {NoId}
  BY <1>3
<1>5. NoHistory \in Histories /\ WholeHistory(NoHistory)
  BY NoHistoryIsWhole DEF WholeHistory
<1>6. FALSE \in BOOLEAN /\ s.version \in Nat \ {0} /\ s.page \in PageShapes
  OBVIOUS
<1> HIDE DEF selected
<1>7. u \in EditorRecords
  BY <1>2, <1>4, <1>5, <1>6 DEF EditorRecords
<1>8. /\ u.page = s.page /\ u.kind = body.kind /\ u.widgets = body.widgets
      /\ u.selected = selected /\ u.history = NoHistory
  OBVIOUS
<1> HIDE DEF u
<1>9. WholeEditor(u)
  BY <1>2, <1>4, <1>5, <1>7, <1>8 DEF WholeEditor
<1> QED BY <1>1, <1>9

LEMMA UnopenedIsWhole == WholeEditor(Unopened)
<1> DEFINE page == [body |-> NoBody, draft |-> NoBody]
           u == [page |-> page, version |-> 0, kind |-> "grid", widgets |-> <<>>,
                 selected |-> NoId, dirty |-> FALSE, error |-> "no", history |-> NoHistory]
<1>1. Unopened = u
  BY DEF Unopened, NoVersion
<1>2. page \in PageShapes /\ WholePage(page)
  BY NoBodyFacts DEF PageShapes, WholePage
<1>3. NoHistory \in Histories /\ WholeHistory(NoHistory)
  BY NoHistoryIsWhole DEF WholeHistory
<1>4. <<>> \in Seq(Widgets) /\ OwnIds(<<>>)
  BY DEF OwnIds
<1> HIDE DEF page
<1>5. u \in EditorRecords
  BY <1>2, <1>3, <1>4 DEF EditorRecords
<1>6. /\ u.page = page /\ u.kind = "grid" /\ u.widgets = <<>> /\ u.selected = NoId
      /\ u.history = NoHistory
  OBVIOUS
<1> HIDE DEF u
<1> QED BY <1>1, <1>2, <1>3, <1>4, <1>5, <1>6 DEF WholeEditor

(* Another canvas and history, of a grid.                                  *)
LEMMA CanvasIsWhole ==
  ASSUME NEW ed, WholeEditor(ed), ed.kind = "grid", NEW widgets \in Seq(Widgets),
         OwnIds(widgets), NEW selected \in Ids(widgets) \cup {NoId},
         NEW history, WholeHistory(history)
  PROVE  WholeEditor([ed EXCEPT !.history = history, !.widgets = widgets,
                                !.selected = selected, !.dirty = TRUE])
<1> DEFINE u == [ed EXCEPT !.history = history, !.widgets = widgets,
                           !.selected = selected, !.dirty = TRUE]
<1>1. Ids(widgets) \subseteq WidgetIds
  BY IdsAreTyped
<1>2. history \in Histories /\ TRUE \in BOOLEAN /\ selected \in WidgetIds \cup {NoId}
  BY <1>1 DEF WholeHistory
<1>3. ed \in EditorRecords
  BY DEF WholeEditor
<1>4. u \in EditorRecords
  BY <1>2, <1>3 DEF EditorRecords
<1>5. /\ u.page = ed.page /\ u.kind = ed.kind /\ u.widgets = widgets
      /\ u.selected = selected /\ u.history = history
  BY <1>3 DEF EditorRecords
<1> HIDE DEF u
<1>6. WholeEditor(u)
  BY <1>4, <1>5 DEF WholeEditor
<1> QED BY <1>6 DEF u

LEMMA ChangedIsWhole ==
  ASSUME NEW ed, WholeEditor(ed), ed.kind = "grid", NEW widgets \in Seq(Widgets),
         OwnIds(widgets), NEW selected \in Ids(widgets) \cup {NoId}, NEW key \in LastKeys
  PROVE  WholeEditor(Changed(ed, widgets, selected, key))
<1> DEFINE canvas == [widgets |-> ed.widgets, selected |-> ed.selected]
           history == Record(ed.history, canvas, key)
<1>1. Whole(canvas)
  BY DEF WholeEditor, EditorRecords, Whole, Canvases
<1> HIDE DEF canvas
<1>2. WholeHistory(history)
  BY <1>1, RecordIsWhole DEF WholeEditor
<1> HIDE DEF history
<1>3. Changed(ed, widgets, selected, key) =
        [ed EXCEPT !.history = history, !.widgets = widgets, !.selected = selected,
                   !.dirty = TRUE]
  BY DEF Changed, history, canvas
<1>4. WholeEditor([ed EXCEPT !.history = history, !.widgets = widgets, !.selected = selected,
                             !.dirty = TRUE])
  BY <1>2, CanvasIsWhole
<1> QED BY <1>3, <1>4

LEMMA SteppedIsWhole ==
  ASSUME NEW ed, WholeEditor(ed), ed.kind = "grid", NEW canvas, Whole(canvas),
         NEW history, WholeHistory(history)
  PROVE  WholeEditor(Stepped(ed, canvas, history))
<1>1. /\ canvas.widgets \in Seq(Widgets) /\ OwnIds(canvas.widgets)
      /\ canvas.selected \in Ids(canvas.widgets) \cup {NoId}
  BY DEF Whole, Canvases
<1>2. Stepped(ed, canvas, history) =
        [ed EXCEPT !.history = history, !.widgets = canvas.widgets,
                   !.selected = canvas.selected, !.dirty = TRUE]
  BY DEF Stepped
<1>3. WholeEditor([ed EXCEPT !.history = history, !.widgets = canvas.widgets,
                             !.selected = canvas.selected, !.dirty = TRUE])
  BY <1>1, CanvasIsWhole
<1> QED BY <1>2, <1>3

LEMMA SelectedIsWhole ==
  ASSUME NEW ed, WholeEditor(ed), NEW selected \in Ids(ed.widgets)
  PROVE  WholeEditor([ed EXCEPT !.selected = selected])
<1> DEFINE u == [ed EXCEPT !.selected = selected]
<1>1. ed \in EditorRecords /\ selected \in WidgetIds
  <2>1. ed \in EditorRecords /\ ed.widgets \in Seq(Widgets)
    BY DEF WholeEditor, EditorRecords
  <2> QED BY <2>1, IdsAreTyped
<1>2. u \in EditorRecords
  BY <1>1 DEF EditorRecords
<1>3. /\ u.page = ed.page /\ u.kind = ed.kind /\ u.widgets = ed.widgets
      /\ u.selected = selected /\ u.history = ed.history
  BY <1>1 DEF EditorRecords
<1> HIDE DEF u
<1>4. WholeEditor(u)
  BY <1>2, <1>3 DEF WholeEditor
<1> QED BY <1>4 DEF u

LEMMA ErrorIsWhole ==
  ASSUME NEW ed, WholeEditor(ed), NEW error \in {"no", "conflict", "failed", "unread"}
  PROVE  WholeEditor([ed EXCEPT !.error = error])
<1> DEFINE u == [ed EXCEPT !.error = error]
<1>1. ed \in EditorRecords
  BY DEF WholeEditor
<1>2. u \in EditorRecords
  BY <1>1 DEF EditorRecords
<1>3. /\ u.page = ed.page /\ u.kind = ed.kind /\ u.widgets = ed.widgets
      /\ u.selected = ed.selected /\ u.history = ed.history
  BY <1>1 DEF EditorRecords
<1> HIDE DEF u
<1>4. WholeEditor(u)
  BY <1>2, <1>3 DEF WholeEditor
<1> QED BY <1>4 DEF u

LEMMA NoCallIsWhole == ASSUME NEW s PROVE WholeCall(NoCall, s)
<1>1. NoCall \in CallRecords /\ NoCall.phase = "no"
  BY DEF NoCall, CallRecords
<1> QED BY <1>1 DEF WholeCall

LEMMA PhaseIsWhole ==
  ASSUME NEW c, NEW s, WholeCall(c, s), NEW t, NEW phase \in {"load", "put", "reload"},
         phase = "put" => c.phase \in {"check", "put"},
         phase = "reload" =>
           /\ c.phase \in {"check", "put"} /\ t.page = c.payload
           /\ t.version \in Nat /\ t.version >= c.base + 1
  PROVE  WholeCall([c EXCEPT !.phase = phase], t)
<1> DEFINE d == [c EXCEPT !.phase = phase]
<1>1. c \in CallRecords
  BY DEF WholeCall
<1>2. /\ d \in CallRecords /\ d.phase = phase /\ d.payload = c.payload /\ d.body = c.body
      /\ d.base = c.base /\ c.base \in Nat
  BY <1>1 DEF CallRecords
<1> HIDE DEF d
<1>3. WholeCall(d, t)
  BY <1>2 DEF WholeCall
<1> QED BY <1>3 DEF d

-----------------------------------------------------------------------------
(* Every step, on the canvases.                                            *)

StoredIsWhole(s) == s \in [page : PageShapes, version : Nat \ {0}] /\ WholePage(s.page)

LEMMA CanvasOfOne ==
  ASSUME CanvasInv, NEW e \in Editors, NEW ed, NEW c, StoredIsWhole(stored'),
         editor' = [editor EXCEPT ![e] = ed], call' = [call EXCEPT ![e] = c],
         WholeEditor(ed), WholeCall(c, stored'),
         \A f \in Editors : WholeCall(call[f], stored')
  PROVE  CanvasInv'
<1>1. ed \in EditorRecords /\ c \in CallRecords
  BY DEF WholeEditor, WholeCall
<1>2. /\ editor' \in [Editors -> EditorRecords] /\ call' \in [Editors -> CallRecords]
      /\ editor'[e] = ed /\ call'[e] = c
      /\ \A f \in Editors \ {e} : editor'[f] = editor[f] /\ call'[f] = call[f]
  BY <1>1 DEF CanvasInv
<1>3. \A f \in Editors : WholeEditor(editor'[f]) /\ WholeCall(call'[f], stored')
  BY <1>2 DEF CanvasInv
<1> QED BY <1>2, <1>3 DEF CanvasInv, StoredIsWhole

LEMMA StoreStaysWhole ==
  ASSUME CanvasInv, stored' = stored
  PROVE  StoredIsWhole(stored') /\ \A f \in Editors : WholeCall(call[f], stored')
BY DEF CanvasInv, StoredIsWhole

(* Only one author's canvas changes.                                       *)
LEMMA CanvasOnly ==
  ASSUME CanvasInv, NEW e \in Editors, NEW ed, WholeEditor(ed), stored' = stored,
         editor' = [editor EXCEPT ![e] = ed], call' = call
  PROVE  CanvasInv'
<1>1. call' = [call EXCEPT ![e] = call[e]]
  BY DEF CanvasInv
<1> QED BY <1>1, StoreStaysWhole, CanvasOfOne

LEMMA CanvasInit == EditorInit => CanvasInv
<1> SUFFICES ASSUME EditorInit PROVE CanvasInv
  OBVIOUS
<1>1. PICK body \in FirstBodies :
        stored = [page |-> [body |-> body, draft |-> NoBody], version |-> 1]
  BY DEF EditorInit
<1>2. StoredIsWhole(stored)
  <2>1. body \in Bodies /\ OwnIds(body.main)
    BY FirstBodyIsWhole
  <2>2. stored.page \in PageShapes /\ WholePage(stored.page)
    BY <1>1, <2>1, NoBodyFacts DEF PageShapes, WholePage
  <2> QED BY <1>1, <2>2 DEF StoredIsWhole
<1> DEFINE c == [NoCall EXCEPT !.phase = "load"]
<1>3. editor = [e \in Editors |-> Unopened] /\ call = [e \in Editors |-> c]
  BY DEF EditorInit
<1>c. c = [phase |-> "load", payload |-> {}, body |-> NoBody, base |-> 0]
  BY DEF NoCall
<1>d. c \in CallRecords /\ c.phase = "load"
  BY <1>c DEF CallRecords
<1> HIDE DEF c
<1>4. WholeEditor(Unopened) /\ WholeCall(c, stored)
  BY <1>d, UnopenedIsWhole DEF WholeCall
<1>5. Unopened \in EditorRecords /\ c \in CallRecords
  BY <1>4 DEF WholeEditor, WholeCall
<1>6. /\ editor \in [Editors -> EditorRecords] /\ call \in [Editors -> CallRecords]
      /\ \A e \in Editors : WholeEditor(editor[e]) /\ WholeCall(call[e], stored)
  BY <1>3, <1>4, <1>5
<1> QED BY <1>2, <1>6 DEF CanvasInv, StoredIsWhole

LEMMA ChangedCanvas ==
  ASSUME CanvasInv, NEW e \in Editors, OnCanvas(e), NEW widgets \in Seq(Widgets),
         OwnIds(widgets), NEW selected \in Ids(widgets) \cup {NoId}, NEW key \in LastKeys,
         Edited(e, Changed(editor[e], widgets, selected, key))
  PROVE  CanvasInv'
<1>1. WholeEditor(editor[e]) /\ editor[e].kind = "grid"
  BY DEF CanvasInv, OnCanvas
<1>2. WholeEditor(Changed(editor[e], widgets, selected, key))
  BY <1>1, ChangedIsWhole
<1>3. /\ editor' = [editor EXCEPT ![e] = Changed(editor[e], widgets, selected, key)]
      /\ stored' = stored /\ call' = call
  BY DEF Edited
<1> QED BY <1>2, <1>3, CanvasOnly

LEMMA SteppedCanvas ==
  ASSUME CanvasInv, NEW e \in Editors, OnCanvas(e), NEW canvas, Whole(canvas),
         NEW history, WholeHistory(history),
         editor' = [editor EXCEPT ![e] = Stepped(editor[e], canvas, history)],
         stored' = stored, call' = call
  PROVE  CanvasInv'
<1>1. WholeEditor(editor[e]) /\ editor[e].kind = "grid"
  BY DEF CanvasInv, OnCanvas
<1>2. WholeEditor(Stepped(editor[e], canvas, history))
  BY <1>1, SteppedIsWhole
<1> QED BY <1>2, CanvasOnly

LEMMA ShownIsWhole ==
  ASSUME NEW ed, WholeEditor(ed)
  PROVE  Whole(Shown(ed)) /\ ed.widgets \in Seq(Widgets) /\ ed.selected \in WidgetIds \cup {NoId}
BY DEF WholeEditor, EditorRecords, Whole, Canvases, Shown

LEMMA ChangeCanvas ==
  ASSUME CanvasInv, NEW e \in Editors, Change(e)
  PROVE  CanvasInv'
<1> DEFINE ed == editor[e]
<1>1. /\ WholeEditor(ed) /\ OwnIds(ed.widgets) /\ ed.widgets \in Seq(Widgets)
      /\ ed.selected \in Ids(ed.widgets) \cup {NoId} /\ WholeHistory(ed.history)
      /\ Whole(Shown(ed)) /\ ed.selected \in WidgetIds \cup {NoId}
  <2>1. WholeEditor(ed)
    BY DEF CanvasInv
  <2> QED BY <2>1, ShownIsWhole DEF WholeEditor
<1>2. NoKey \in LastKeys
  BY DEF LastKeys
<1>3. ASSUME NEW key \in Keys, Add(e, key)
      PROVE  CanvasInv'
  <2>1. /\ AddWidget(ed.widgets, key) \in Seq(Widgets) /\ OwnIds(AddWidget(ed.widgets, key))
        /\ NextWidgetId(ed.widgets, key) \in Ids(AddWidget(ed.widgets, key))
    BY <1>1, AddedIsOwn, 0 \in Int
  <2> QED BY <1>2, <1>3, <2>1, ChangedCanvas DEF Add
<1>4. ASSUME NEW key \in Keys, NEW spot \in Spots, Drop(e, key, spot)
      PROVE  CanvasInv'
  <2>1. spot[1] \in Int /\ spot[2] \in Int
    BY PageEditorAssumption
  <2> DEFINE added == AddWidgetAt(ed.widgets, key, spot[1], spot[2])
  <2>2. /\ added \in Seq(Widgets) /\ OwnIds(added)
        /\ NextWidgetId(ed.widgets, key) \in Ids(added)
    BY <1>1, <2>1, AddedIsOwn
  <2> QED BY <1>2, <1>4, <2>2, ChangedCanvas DEF Drop
<1>5. ASSUME NEW id \in Ids(ed.widgets), RemoveOne(e, id)
      PROVE  CanvasInv'
  <2> DEFINE left == RemoveWidget(ed.widgets, id)
             selected == IF ed.selected = id THEN NoId ELSE ed.selected
  <2>1. left \in Seq(Widgets) /\ OwnIds(left) /\ Ids(left) = Ids(ed.widgets) \ {id}
    BY <1>1, RemovedIsOwn
  <2>2. OnCanvas(e) /\ Edited(e, Changed(ed, left, selected, NoKey))
    BY <1>5 DEF RemoveOne
  <2> HIDE DEF left
  <2>3. selected \in Ids(left) \cup {NoId}
    BY <1>1, <2>1
  <2> HIDE DEF selected
  <2> QED BY <1>2, <2>1, <2>2, <2>3, ChangedCanvas
<1>6. ASSUME NEW id \in Ids(ed.widgets), NEW spot \in Spots, Move(e, id, spot)
      PROVE  CanvasInv'
  <2>1. spot[1] \in Int /\ spot[2] \in Int
    BY PageEditorAssumption
  <2> DEFINE moved == ApplyLayout(ed.widgets, id, spot[1], spot[2])
  <2>2. moved \in Seq(Widgets) /\ OwnIds(moved) /\ Ids(moved) = Ids(ed.widgets)
    BY <1>1, <2>1, MovedIsOwn
  <2>3. OnCanvas(e) /\ Edited(e, Changed(ed, moved, ed.selected, NoKey))
    BY <1>6 DEF Move
  <2> HIDE DEF moved
  <2> QED BY <1>1, <1>2, <2>2, <2>3, ChangedCanvas
<1>7. ASSUME NEW value \in Props, SetProp(e, value) \/ ReplaceProps(e, value)
      PROVE  CanvasInv'
  <2> DEFINE filled == SetWidgetProp(ed.widgets, ed.selected, value)
  <2>1. value \in Nat
    BY PageEditorAssumption
  <2>2. filled \in Seq(Widgets) /\ OwnIds(filled) /\ Ids(filled) = Ids(ed.widgets)
    BY <1>1, <2>1, FilledIsOwn
  <2>3. /\ OnCanvas(e) /\ ed.selected # NoId
        /\ \/ Edited(e, Changed(ed, filled, ed.selected, <<"prop", ed.selected>>))
           \/ Edited(e, Changed(ed, filled, ed.selected, <<"form", ed.selected>>))
    BY <1>7 DEF SetProp, ReplaceProps
  <2>4. <<"prop", ed.selected>> \in LastKeys /\ <<"form", ed.selected>> \in LastKeys
    BY <1>1, <2>3 DEF LastKeys
  <2> HIDE DEF filled
  <2> QED BY <1>1, <2>2, <2>3, <2>4, ChangedCanvas
<1>8. CASE Undo(e)
  <2>1. /\ OnCanvas(e) /\ CanUndo(ed.history)
        /\ editor' = [editor EXCEPT ![e] =
             Stepped(ed, Top(ed.history.past), Undone(ed.history, Shown(ed)))]
        /\ stored' = stored /\ call' = call
    BY <1>8 DEF Undo
  <2>2. WholeHistory(Undone(ed.history, Shown(ed))) /\ Whole(Top(ed.history.past))
    BY <1>1, <2>1, UndoneIsWhole
  <2> QED BY <2>1, <2>2, SteppedCanvas
<1>9. CASE Redo(e)
  <2>1. /\ OnCanvas(e) /\ CanRedo(ed.history)
        /\ editor' = [editor EXCEPT ![e] =
             Stepped(ed, Top(ed.history.future), Redone(ed.history, Shown(ed)))]
        /\ stored' = stored /\ call' = call
    BY <1>9 DEF Redo
  <2>2. WholeHistory(Redone(ed.history, Shown(ed))) /\ Whole(Top(ed.history.future))
    BY <1>1, <2>1, RedoneIsWhole
  <2> QED BY <2>1, <2>2, SteppedCanvas
<1> QED BY <1>3, <1>4, <1>5, <1>6, <1>7, <1>8, <1>9 DEF Change

LEMMA SelectCanvas ==
  ASSUME CanvasInv, NEW e \in Editors, NEW id, Select(e, id)
  PROVE  CanvasInv'
<1>1. /\ id \in Ids(editor[e].widgets) /\ stored' = stored /\ call' = call
      /\ editor' = [editor EXCEPT ![e] = [editor[e] EXCEPT !.selected = id]]
  BY DEF Select
<1>2. WholeEditor([editor[e] EXCEPT !.selected = id])
  BY <1>1, SelectedIsWhole DEF CanvasInv
<1> QED BY <1>1, <1>2, CanvasOnly

(* A save begins: the page to send is the body's.                          *)
LEMMA WriteCanvas ==
  ASSUME CanvasInv, NEW e \in Editors, NEW payload, NEW body, Write(e, payload, body),
         WholePage(payload), body \in Bodies \cup {NoBody},
         body # NoBody => SourceBodyOf(payload) = body
  PROVE  CanvasInv'
<1> DEFINE phase == IF editor[e].version = NoVersion THEN "put" ELSE "check"
           c == [phase |-> phase, payload |-> payload, body |-> body,
                 base |-> editor[e].version]
<1>1. /\ editor' = [editor EXCEPT ![e] = [editor[e] EXCEPT !.error = "no"]]
      /\ call' = [call EXCEPT ![e] = c] /\ stored' = stored
  BY DEF Write
<1>2. WholeEditor(editor[e])
  BY DEF CanvasInv
<1>3. editor[e].version \in Nat /\ payload \in PageShapes
  BY <1>2 DEF WholeEditor, EditorRecords, WholePage
<1>4. /\ c \in CallRecords /\ c.phase \in {"check", "put"}
      /\ c.payload = payload /\ c.body = body
  BY <1>3 DEF CallRecords
<1> HIDE DEF c
<1>5. WholeCall(c, stored')
  BY <1>4 DEF WholeCall
<1>6. WholeEditor([editor[e] EXCEPT !.error = "no"])
  BY <1>2, ErrorIsWhole
<1> QED BY <1>1, <1>5, <1>6, StoreStaysWhole, CanvasOfOne

LEMMA BodyOfEditor ==
  ASSUME NEW ed, WholeEditor(ed)
  PROVE  /\ Body(ed) \in Bodies /\ OwnIds(Body(ed).main) /\ Body(ed) # NoBody
         /\ WholePage(ed.page)
<1>1. /\ WholePage(ed.page) /\ ed.kind \in {"grid", "markdown"}
      /\ ed.widgets \in Seq(Widgets) /\ OwnIds(ed.widgets)
  BY DEF WholeEditor, EditorRecords
<1> QED BY <1>1, BodyIsWhole, NoBodyFacts DEF Body

LEMMA SendCanvas ==
  ASSUME CanvasInv, NEW e \in Editors,
         \/ SaveDraft(e) \/ Publish(e) \/ Discard(e)
         \/ \E body \in FirstBodies : Restore(e, body)
  PROVE  CanvasInv'
<1>1. WholeEditor(editor[e])
  BY DEF CanvasInv
<1> DEFINE page == editor[e].page
           body == Body(editor[e])
<1>2. body \in Bodies /\ OwnIds(body.main) /\ WholePage(page)
  BY <1>1, BodyOfEditor
<1>3. CASE SaveDraft(e)
  <2>1. Write(e, DraftPayload(page, body), body)
    BY <1>3 DEF SaveDraft
  <2> QED BY <1>2, <2>1, PayloadsAreWhole, WriteCanvas
<1>4. CASE Publish(e)
  <2>1. Write(e, PublishPayload(page, body), body)
    BY <1>4 DEF Publish
  <2> QED BY <1>2, <2>1, PayloadsAreWhole, WriteCanvas
<1>5. CASE Discard(e)
  <2>1. Write(e, DiscardPayload(page), NoBody)
    BY <1>5 DEF Discard
  <2> QED BY <1>2, <2>1, PayloadsAreWhole, WriteCanvas
<1>6. ASSUME NEW other \in FirstBodies, Restore(e, other)
      PROVE  CanvasInv'
  <2>1. Write(e, DraftPayload(page, other), NoBody)
    BY <1>6 DEF Restore
  <2>2. WholePage(DraftPayload(page, other))
    BY <1>2, FirstBodyIsWhole, PayloadsAreWhole
  <2> QED BY <2>1, <2>2, WriteCanvas
<1> QED BY <1>3, <1>4, <1>5, <1>6

LEMMA EndedCanvas ==
  ASSUME CanvasInv, NEW e \in Editors, NEW error \in {"no", "conflict", "failed", "unread"},
         Ended(e, error), StoredIsWhole(stored'),
         \A f \in Editors : WholeCall(call[f], stored')
  PROVE  CanvasInv'
<1>1. /\ editor' = [editor EXCEPT ![e] = [editor[e] EXCEPT !.error = error]]
      /\ call' = [call EXCEPT ![e] = NoCall]
  BY DEF Ended
<1>2. WholeEditor([editor[e] EXCEPT !.error = error])
  BY ErrorIsWhole DEF CanvasInv
<1>3. WholeCall(NoCall, stored')
  BY NoCallIsWhole
<1> QED BY <1>1, <1>2, <1>3, CanvasOfOne

LEMMA PhaseCanvas ==
  ASSUME CanvasInv, NEW e \in Editors, NEW phase,
         editor' = editor, call' = [call EXCEPT ![e].phase = phase],
         WholeCall([call[e] EXCEPT !.phase = phase], stored'), StoredIsWhole(stored'),
         \A f \in Editors : WholeCall(call[f], stored')
  PROVE  CanvasInv'
<1>1. /\ editor' = [editor EXCEPT ![e] = editor[e]]
      /\ call' = [call EXCEPT ![e] = [call[e] EXCEPT !.phase = phase]]
  BY DEF CanvasInv
<1>2. WholeEditor(editor[e])
  BY DEF CanvasInv
<1> QED BY <1>1, <1>2, CanvasOfOne

LEMMA CheckedCanvas ==
  ASSUME CanvasInv, NEW e \in Editors, Checked(e)
  PROVE  CanvasInv'
<1>1. call[e].phase = "check" /\ stored' = stored
  BY DEF Checked
<1>2. CASE call' = [call EXCEPT ![e].phase = "put"] /\ UNCHANGED editor
  <2>1. WholeCall(call[e], stored)
    BY DEF CanvasInv
  <2>2. WholeCall([call[e] EXCEPT !.phase = "put"], stored')
    BY <1>1, <2>1, PhaseIsWhole
  <2> QED BY <1>1, <1>2, <2>2, StoreStaysWhole, PhaseCanvas
<1>3. CASE Ended(e, "conflict") \/ Ended(e, "failed")
  BY <1>1, <1>3, StoreStaysWhole, EndedCanvas
<1> QED BY <1>2, <1>3 DEF Checked

(* A write taken moves the version past whatever any other reload waits for. *)
LEMMA PutCanvas ==
  ASSUME CanvasInv, NEW e \in Editors, Put(e)
  PROVE  CanvasInv'
<1>1. call[e].phase = "put"
  BY DEF Put
<1>2. CASE /\ Accepts(stored, call[e])
           /\ stored' = [page |-> call[e].payload, version |-> stored.version + 1]
           /\ \/ call' = [call EXCEPT ![e].phase = "reload"] /\ UNCHANGED editor
              \/ Ended(e, "failed")
  <2>1. WholePage(call[e].payload) /\ WholeCall(call[e], stored)
    BY <1>1 DEF CanvasInv, WholeCall
  <2>2. /\ stored.version \in Nat \ {0} /\ stored'.version = stored.version + 1
        /\ stored'.page = call[e].payload /\ call[e].base \in {0, stored.version}
    BY <1>2 DEF CanvasInv, Accepts, NoVersion
  <2>3. StoredIsWhole(stored')
    BY <1>2, <2>1, <2>2 DEF StoredIsWhole, WholePage
  <2>4. ASSUME NEW f \in Editors PROVE WholeCall(call[f], stored')
    <3>1. WholeCall(call[f], stored) /\ call[f].base \in Nat
      BY DEF CanvasInv, WholeCall, CallRecords
    <3>2. call[f].phase = "reload" =>
            stored'.version >= call[f].base + 1 /\ stored'.version # call[f].base + 1
      BY <2>2, <3>1 DEF WholeCall
    <3> QED BY <3>1, <3>2 DEF WholeCall
  <2>5. WholeCall([call[e] EXCEPT !.phase = "reload"], stored')
    <3>1. stored'.version \in Nat /\ stored'.version >= call[e].base + 1
      BY <2>2
    <3> QED BY <3>1, <1>1, <2>1, <2>2, PhaseIsWhole
  <2> QED BY <1>2, <2>3, <2>4, <2>5, PhaseCanvas, EndedCanvas
<1>3. CASE stored' = stored /\ \E error \in {"conflict", "failed"} : Ended(e, error)
  BY <1>3, StoreStaysWhole, EndedCanvas
<1> QED BY <1>2, <1>3 DEF Put

LEMMA ReloadCanvas ==
  ASSUME CanvasInv, NEW e \in Editors, Reload(e)
  PROVE  CanvasInv'
<1>1. /\ call' = [call EXCEPT ![e] = [call[e] EXCEPT !.phase = "load"]]
      /\ editor' = [editor EXCEPT ![e] = [editor[e] EXCEPT !.error = "no"]]
      /\ stored' = stored
  BY DEF Reload
<1>2. WholeEditor(editor[e]) /\ WholeCall(call[e], stored)
  BY DEF CanvasInv
<1>3. WholeCall([call[e] EXCEPT !.phase = "load"], stored')
  BY <1>2, PhaseIsWhole
<1>4. WholeEditor([editor[e] EXCEPT !.error = "no"])
  BY <1>2, ErrorIsWhole
<1> QED BY <1>1, <1>3, <1>4, StoreStaysWhole, CanvasOfOne

LEMMA LoadedCanvas ==
  ASSUME CanvasInv, NEW e \in Editors, Loaded(e)
  PROVE  CanvasInv'
<1>1. stored' = stored
  BY DEF Loaded
<1>2. CASE /\ editor' = [editor EXCEPT ![e] = Opened(editor[e], stored)]
           /\ call' = [call EXCEPT ![e] = NoCall]
  <2>1. WholeEditor(Opened(editor[e], stored)) /\ WholeCall(NoCall, stored')
    BY OpenedIsWhole, NoCallIsWhole DEF CanvasInv
  <2> QED BY <1>1, <1>2, <2>1, StoreStaysWhole, CanvasOfOne
<1>3. CASE Ended(e, "unread")
  BY <1>1, <1>3, StoreStaysWhole, EndedCanvas
<1> QED BY <1>2, <1>3 DEF Loaded

LEMMA CanvasStepInv == CanvasInv /\ [EditorNext]_pageVars => CanvasInv'
<1> SUFFICES ASSUME CanvasInv, [EditorNext]_pageVars PROVE CanvasInv'
  OBVIOUS
<1>1. ASSUME NEW e \in Editors, Change(e)
      PROVE  CanvasInv'
  BY <1>1, ChangeCanvas
<1>2. ASSUME NEW e \in Editors, NEW id, Select(e, id)
      PROVE  CanvasInv'
  BY <1>2, SelectCanvas
<1>3. ASSUME NEW e \in Editors,
             \/ SaveDraft(e) \/ Publish(e) \/ Discard(e)
             \/ \E body \in FirstBodies : Restore(e, body)
      PROVE  CanvasInv'
  BY <1>3, SendCanvas
<1>4. ASSUME NEW e \in Editors, Checked(e) \/ Put(e) \/ Reload(e) \/ Loaded(e)
      PROVE  CanvasInv'
  BY <1>4, CheckedCanvas, PutCanvas, ReloadCanvas, LoadedCanvas
<1>5. CASE UNCHANGED pageVars
  BY <1>5 DEF pageVars, CanvasInv
<1> QED BY <1>1, <1>2, <1>3, <1>4, <1>5 DEF EditorNext

LEMMA CanvasInvariant == EditorSpec => []CanvasInv
BY CanvasInit, CanvasStepInv, PTL DEF EditorSpec

(* No canvas of an author's line, the one on screen included, has two       *)
(* widgets of one id or selects one that is not there (nextWidgetId;        *)
(* removeWidget and the snapshots of pageEditor.js).                       *)
THEOREM CanvasesStaySound == EditorSpec => []CanvasesAreSound
<1>1. ASSUME NEW canvas, Whole(canvas) PROVE Sound(canvas)
  BY <1>1, IdsAreFinite DEF Whole, Canvases, Sound
<1>2. CanvasInv => CanvasesAreSound
  <2> SUFFICES ASSUME CanvasInv, NEW e \in Editors
               PROVE  /\ Sound(Shown(editor[e]))
                      /\ \A i \in DOMAIN editor[e].history.past : Sound(editor[e].history.past[i])
                      /\ \A i \in DOMAIN editor[e].history.future :
                           Sound(editor[e].history.future[i])
    BY DEF CanvasesAreSound
  <2>1. WholeEditor(editor[e])
    BY DEF CanvasInv
  <2>2. Whole(Shown(editor[e])) /\ WholeHistory(editor[e].history)
    BY <2>1, ShownIsWhole DEF WholeEditor
  <2> QED BY <1>1, <2>2 DEF WholeHistory
<1> QED BY <1>2, CanvasInvariant, PTL

(* The load that follows a save shows the canvas the author had, drawn as   *)
(* the site draws it (write of pageEditor.js; bodyFor, readBody of          *)
(* pageBody.js).                                                           *)
THEOREM SavesAreShown == EditorSpec => SavedIsShown
<1> DEFINE Shows(e) ==
      /\ call[e].phase = "reload" /\ call'[e].phase = "no" /\ editor'[e].error = "no"
      /\ call[e].body = Body(editor[e]) /\ stored.version = call[e].base + 1
      => editor'[e].widgets = Normalised(editor[e].widgets)
<1>1. CanvasInv /\ [EditorNext]_pageVars => [\A e \in Editors : Shows(e)]_pageVars
  <2> SUFFICES ASSUME CanvasInv, EditorNext, NEW e \in Editors,
                      call[e].phase = "reload", call'[e].phase = "no", editor'[e].error = "no",
                      call[e].body = Body(editor[e]), stored.version = call[e].base + 1
               PROVE  editor'[e].widgets = Normalised(editor[e].widgets)
    OBVIOUS
  <2> DEFINE ed == editor[e]
  <2>1. /\ WholeEditor(ed) /\ WholeCall(call[e], stored) /\ WholePage(stored.page)
        /\ editor \in [Editors -> EditorRecords] /\ call \in [Editors -> CallRecords]
    BY DEF CanvasInv
  <2>2. editor' = [editor EXCEPT ![e] = Opened(ed, stored)]
    <3> PICK f \in Editors :
          \/ Change(f) \/ \E id \in Ids(editor[f].widgets) : Select(f, id)
          \/ SaveDraft(f) \/ Publish(f) \/ Discard(f) \/ \E body \in FirstBodies : Restore(f, body)
          \/ Checked(f) \/ Put(f) \/ Reload(f) \/ Loaded(f)
      BY DEF EditorNext
    <3>1. call' # call
      OBVIOUS
    <3>2. ~Change(f) /\ ~\E id \in Ids(editor[f].widgets) : Select(f, id)
      BY <3>1 DEF Change, Add, Drop, RemoveOne, Move, SetProp, ReplaceProps, Edited, Undo, Redo,
                  Select
    <3>3. ~(SaveDraft(f) \/ Publish(f) \/ Discard(f) \/ \E body \in FirstBodies : Restore(f, body))
      <4>1. ASSUME NEW payload, NEW body, Write(f, payload, body) PROVE FALSE
        BY <2>1, <4>1 DEF Write
      <4> QED BY <4>1 DEF SaveDraft, Publish, Discard, Restore
    <3>4. f = e
      BY <2>1, <3>2, <3>3 DEF Checked, Put, Reload, Loaded, Ended
    <3>5. ~Checked(f) /\ ~Put(f) /\ ~Reload(f)
      BY <3>4 DEF Checked, Put, Reload
    <3>6. ~Ended(e, "unread")
      BY <2>1 DEF Ended, EditorRecords
    <3> QED BY <3>2, <3>3, <3>4, <3>5, <3>6 DEF Loaded
  <2>3. editor'[e].widgets = ReadBody(stored.page).widgets
    BY <2>1, <2>2 DEF Opened
  <2>4. SourceBodyOf(stored.page) = Body(ed)
    BY <2>1, BodyOfEditor DEF WholeCall
  <2>5. ed.widgets \in Seq(Widgets) /\ ed.kind \in {"grid", "markdown"}
    BY <2>1 DEF WholeEditor, EditorRecords
  <2>6. CASE ed.kind = "grid"
    <3>1. Body(ed).kind = "grid" /\ Body(ed).main = Stored(ed.widgets)
      BY <2>6 DEF Body, BodyFor
    <3>2. ReadBody(stored.page).widgets = Normalised(Stored(ed.widgets))
      BY <2>4, <3>1 DEF ReadBody
    <3>3. Normalised(Stored(ed.widgets)) = Normalised(ed.widgets)
      BY <2>5, DrawnIsOwn
    <3> QED BY <2>3, <3>2, <3>3
  <2>7. CASE ed.kind = "markdown"
    <3>1. Body(ed).kind = "markdown" /\ ed.widgets = <<>>
      BY <2>1, <2>7 DEF Body, BodyFor, WholeEditor
    <3>2. ReadBody(stored.page).widgets = <<>>
      BY <2>4, <3>1 DEF ReadBody
    <3>3. Normalised(<<>>) = <<>>
      BY DEF Normalised
    <3> QED BY <2>3, <3>1, <3>2, <3>3
  <2> QED BY <2>5, <2>6, <2>7
<1> QED BY <1>1, CanvasInvariant, PTL DEF EditorSpec, SavedIsShown

-----------------------------------------------------------------------------
(* The line of canvases of an author, and where the author stands.         *)

Line(ed) ==
  [i \in DOMAIN ed.history.past |-> ed.history.past[i].widgets]
    \o <<ed.widgets>>
    \o Reverse([i \in DOMAIN ed.history.future |-> ed.history.future[i].widgets])
At(ed) == Len(ed.history.past) + 1
Drawings == Seq(Widgets)

LEMMA WidgetsOf ==
  ASSUME NEW s \in Seq(Canvases)
  PROVE  LET t == [i \in DOMAIN s |-> s[i].widgets]
         IN  /\ t \in Seq(Drawings) /\ Len(t) = Len(s) /\ \A i \in 1..Len(s) : t[i] = s[i].widgets
             /\ Reverse(t) \in Seq(Drawings) /\ Len(Reverse(t)) = Len(s)
             /\ \A i \in 1..Len(s) : Reverse(t)[i] = s[Len(s) - i + 1].widgets
<1> DEFINE t == [i \in DOMAIN s |-> s[i].widgets]
           n == Len(s)
<1>1. n \in Nat /\ DOMAIN s = 1..n /\ \A i \in 1..n : s[i] \in Canvases
  OBVIOUS
<1>2. \A i \in 1..n : s[i].widgets \in Drawings
  BY <1>1 DEF Canvases, Drawings
<1>3. t \in [1..n -> Drawings] /\ \A i \in 1..n : t[i] = s[i].widgets
  BY <1>1, <1>2
<1> HIDE DEF t, n
<1>4. t \in Seq(Drawings) /\ Len(t) = n /\ DOMAIN t = 1..n
  BY <1>1, <1>3
<1> DEFINE r == [i \in 1..n |-> t[n - i + 1]]
<1>5. Reverse(t) = r
  BY <1>4 DEF Reverse
<1>6. \A i \in 1..n : n - i + 1 \in 1..n
  BY <1>1
<1>7. r \in [1..n -> Drawings] /\ \A i \in 1..n : r[i] = t[n - i + 1]
  BY <1>1, <1>3, <1>6
<1> HIDE DEF r
<1>8. r \in Seq(Drawings) /\ Len(r) = n
  BY <1>1, <1>7
<1>9. \A i \in 1..n : r[i] = s[n - i + 1].widgets
  BY <1>3, <1>6, <1>7
<1> QED BY <1>3, <1>4, <1>5, <1>8, <1>9 DEF t, n

LEMMA LineOf ==
  ASSUME NEW ed, WholeEditor(ed)
  PROVE  LET past == ed.history.past
             future == ed.history.future
             p == Len(past)
             f == Len(future)
         IN  /\ past \in Seq(Canvases) /\ future \in Seq(Canvases)
             /\ p \in Nat /\ f \in Nat /\ p + f <= Limit /\ p <= Limit
             /\ Line(ed) \in Seq(Drawings) /\ Len(Line(ed)) = p + 1 + f
             /\ \A i \in 1..p : Line(ed)[i] = past[i].widgets
             /\ Line(ed)[p + 1] = ed.widgets
             /\ \A i \in 1..f : Line(ed)[p + 1 + i] = future[f - i + 1].widgets
<1> DEFINE past == ed.history.past
           future == ed.history.future
           p == Len(past)
           f == Len(future)
           P == [i \in DOMAIN past |-> past[i].widgets]
           F == [i \in DOMAIN future |-> future[i].widgets]
           R == Reverse(F)
           M == <<ed.widgets>>
<1>1. past \in Seq(Canvases) /\ future \in Seq(Canvases) /\ p + f <= Limit
  BY DEF WholeEditor, WholeHistory, Histories
<1>2a. p \in Nat /\ f \in Nat
  BY <1>1
<1>3. P \in Seq(Drawings) /\ Len(P) = p /\ \A i \in 1..p : P[i] = past[i].widgets
  BY <1>1, WidgetsOf
<1>4. R \in Seq(Drawings) /\ Len(R) = f /\ \A i \in 1..f : R[i] = future[f - i + 1].widgets
  BY <1>1, WidgetsOf
<1>5. M \in Seq(Drawings) /\ Len(M) = 1 /\ M[1] = ed.widgets
  BY DEF WholeEditor, EditorRecords, Drawings
<1>6. Line(ed) = (P \o M) \o R
  BY DEF Line
<1> HIDE DEF P, R, M, p, f, past, future
<1>2. p <= Limit
  BY <1>1, <1>2a, EditHistoryAssumption
<1> DEFINE PM == P \o M
<1>7. /\ PM \in Seq(Drawings) /\ Len(PM) = p + 1
      /\ \A i \in 1..p + 1 : PM[i] = IF i <= p THEN P[i] ELSE M[i - p]
  <2>1. /\ PM \in Seq(Drawings) /\ Len(PM) = Len(P) + Len(M)
        /\ \A i \in 1..Len(P) + Len(M) : PM[i] = IF i <= Len(P) THEN P[i] ELSE M[i - Len(P)]
    BY <1>3, <1>5, ConcatProperties
  <2> QED BY <2>1, <1>3, <1>5
<1>6a. Line(ed) = PM \o R
  BY <1>6
<1> HIDE DEF PM
<1>8. /\ Line(ed) \in Seq(Drawings) /\ Len(Line(ed)) = p + 1 + f
      /\ \A i \in 1..p + 1 + f : Line(ed)[i] = IF i <= p + 1 THEN PM[i] ELSE R[i - (p + 1)]
  <2>1. /\ PM \o R \in Seq(Drawings) /\ Len(PM \o R) = Len(PM) + Len(R)
        /\ \A i \in 1..Len(PM) + Len(R) :
             (PM \o R)[i] = IF i <= Len(PM) THEN PM[i] ELSE R[i - Len(PM)]
    BY <1>4, <1>7, ConcatProperties
  <2> QED BY <1>4, <1>6a, <1>7, <2>1
<1>9. \A i \in 1..p : Line(ed)[i] = past[i].widgets
  <2> TAKE i \in 1..p
  <2>1. i \in 1..p + 1 + f /\ i \in 1..p + 1 /\ i <= p /\ i <= p + 1
    BY <1>2a
  <2>2. Line(ed)[i] = PM[i] /\ PM[i] = P[i]
    BY <1>7, <1>8, <2>1
  <2> QED BY <1>3, <2>2
<1>10. Line(ed)[p + 1] = ed.widgets
  <2>1. p + 1 \in 1..p + 1 + f /\ p + 1 \in 1..p + 1 /\ p + 1 - p = 1 /\ ~(p + 1 <= p)
    BY <1>2a
  <2> DEFINE j == p + 1
  <2>2. j \in 1..j + f /\ j \in 1..j /\ j <= j /\ j - p = 1 /\ ~(j <= p)
    BY <1>2a, <2>1
  <2>3. /\ \A i \in 1..j : PM[i] = IF i <= p THEN P[i] ELSE M[i - p]
        /\ \A i \in 1..j + f : Line(ed)[i] = IF i <= j THEN PM[i] ELSE R[i - j]
    BY <1>7, <1>8
  <2> HIDE DEF j
  <2>4. Line(ed)[j] = PM[j] /\ PM[j] = M[j - p]
    BY <2>2, <2>3
  <2> QED BY <1>5, <2>2, <2>4 DEF j
<1>11. \A i \in 1..f : Line(ed)[p + 1 + i] = future[f - i + 1].widgets
  <2> TAKE i \in 1..f
  <2>1. p + 1 + i \in 1..p + 1 + f /\ ~(p + 1 + i <= p + 1) /\ p + 1 + i - (p + 1) = i
    BY <1>2a
  <2> DEFINE j == p + 1 + i
  <2>1a. j \in 1..p + 1 + f /\ ~(j <= p + 1) /\ j - (p + 1) = i
    BY <1>2a, <2>1
  <2> HIDE DEF j
  <2>2. Line(ed)[j] = R[j - (p + 1)] /\ j - (p + 1) = i
    BY <1>8, <2>1a
  <2> QED BY <1>4, <2>2 DEF j
<1> QED BY <1>1, <1>2, <1>2a, <1>8, <1>9, <1>10, <1>11 DEF past, future, p, f

LEMMA LengthOf ==
  ASSUME NEW ed, WholeEditor(ed)
  PROVE  /\ Len(ed.history.past) \in Nat /\ Len(ed.history.future) \in Nat
         /\ Len(Line(ed)) = Len(ed.history.past) + 1 + Len(ed.history.future)
         /\ Len(ed.history.past) = 0 /\ Len(ed.history.future) = 0 =>
              Len(Line(ed)) = 1 /\ At(ed) = 1
<1>1. /\ Len(ed.history.past) \in Nat /\ Len(ed.history.future) \in Nat
      /\ Len(Line(ed)) = Len(ed.history.past) + 1 + Len(ed.history.future)
  BY LineOf
<1> DEFINE p == Len(ed.history.past)
           f == Len(ed.history.future)
           n == Len(Line(ed))
<1>2. p \in Nat /\ f \in Nat /\ n = p + 1 + f /\ At(ed) = p + 1
  BY <1>1 DEF At
<1> HIDE DEF p, f, n
<1>3. p = 0 /\ f = 0 => n = 1 /\ At(ed) = 1
  BY <1>2
<1> QED BY <1>1, <1>3 DEF p, f, n

(* An author stands one canvas behind another on the same line.            *)
LEMMA BehindIsSameLine ==
  ASSUME NEW a, WholeEditor(a), NEW b, WholeEditor(b),
         Len(a.history.past) = Len(b.history.past) + 1,
         Len(b.history.future) = Len(a.history.future) + 1,
         \A i \in 1..Len(b.history.past) :
           b.history.past[i].widgets = a.history.past[i].widgets,
         b.widgets = a.history.past[Len(a.history.past)].widgets,
         \A i \in 1..Len(a.history.future) :
           b.history.future[i].widgets = a.history.future[i].widgets,
         b.history.future[Len(b.history.future)].widgets = a.widgets
  PROVE  Line(a) = Line(b) /\ At(a) > 1 /\ At(b) = At(a) - 1
<1> DEFINE p == Len(b.history.past)
           f == Len(a.history.future)
           q == Len(a.history.past)
           g == Len(b.history.future)
           s == Line(a)
           t == Line(b)
<1>a. /\ \A i \in 1..q : s[i] = a.history.past[i].widgets
      /\ s[q + 1] = a.widgets
      /\ \A i \in 1..f : s[q + 1 + i] = a.history.future[f - i + 1].widgets
  BY LineOf
<1>b. /\ \A i \in 1..p : t[i] = b.history.past[i].widgets
      /\ t[p + 1] = b.widgets
      /\ \A i \in 1..g : t[p + 1 + i] = b.history.future[g - i + 1].widgets
  BY LineOf
<1>c. q = p + 1 /\ g = f + 1
  OBVIOUS
<1>1. /\ p \in Nat /\ f \in Nat /\ s \in Seq(Drawings) /\ t \in Seq(Drawings)
      /\ Len(s) = p + 1 + 1 + f /\ Len(t) = p + 1 + (f + 1)
  BY LineOf
<1>4. /\ \A i \in 1..p : b.history.past[i].widgets = a.history.past[i].widgets
      /\ b.widgets = a.history.past[p + 1].widgets
      /\ \A i \in 1..f : b.history.future[i].widgets = a.history.future[i].widgets
      /\ b.history.future[f + 1].widgets = a.widgets
  BY <1>c
<1>5. At(a) = p + 1 + 1 /\ At(b) = p + 1
  BY DEF At
<1> HIDE DEF p, f, q, g, s, t
<1>2. /\ \A i \in 1..p + 1 : s[i] = a.history.past[i].widgets
      /\ s[p + 1 + 1] = a.widgets
      /\ \A i \in 1..f : s[p + 1 + 1 + i] = a.history.future[f - i + 1].widgets
  BY <1>a, <1>c
<1>3. /\ \A i \in 1..p : t[i] = b.history.past[i].widgets
      /\ t[p + 1] = b.widgets
      /\ \A i \in 1..f + 1 : t[p + 1 + i] = b.history.future[f + 1 - i + 1].widgets
  <2> SUFFICES ASSUME NEW i \in 1..f + 1
               PROVE  t[p + 1 + i] = b.history.future[f + 1 - i + 1].widgets
    BY <1>b
  <2>1. f + 1 - i + 1 = g - i + 1 /\ i \in 1..g
    BY <1>1, <1>c
  <2> QED BY <1>b, <2>1
<1>6. \A i \in 1..p : s[i] = t[i]
  BY <1>1, <1>2, <1>3, <1>4
<1>7. s[p + 1] = t[p + 1]
  <2>1. p + 1 \in 1..p + 1
    BY <1>1
  <2> QED BY <1>2, <1>3, <1>4, <2>1
<1>8. s[p + 2] = t[p + 2]
  <2>1. s[p + 2] = a.widgets
    BY <1>1, <1>2
  <2>2. 1 \in 1..f + 1 /\ p + 1 + 1 = p + 2 /\ f + 1 - 1 + 1 = f + 1
    BY <1>1
  <2>3. t[p + 1 + 1] = b.history.future[f + 1 - 1 + 1].widgets
    BY <1>3, <2>2
  <2> QED BY <1>4, <2>1, <2>2, <2>3
<1>9. \A i \in 1..f : s[p + 2 + i] = t[p + 2 + i]
  <2> TAKE i \in 1..f
  <2>1. /\ i + 1 \in 1..f + 1 /\ p + 1 + (i + 1) = p + 2 + i /\ p + 1 + 1 + i = p + 2 + i
        /\ f + 1 - (i + 1) + 1 = f - i + 1 /\ f - i + 1 \in 1..f
    BY <1>1
  <2>2. s[p + 1 + 1 + i] = a.history.future[f - i + 1].widgets
    BY <1>2
  <2>3. t[p + 1 + (i + 1)] = b.history.future[f + 1 - (i + 1) + 1].widgets
    BY <1>3, <2>1
  <2> QED BY <1>4, <2>1, <2>2, <2>3
<1>10. \A i \in 1..Len(s) : s[i] = t[i]
  <2> TAKE i \in 1..Len(s)
  <2>1. i \in 1..p \/ i = p + 1 \/ i = p + 2 \/ (i - (p + 2) \in 1..f /\ p + 2 + (i - (p + 2)) = i)
    BY <1>1
  <2> QED BY <1>6, <1>7, <1>8, <1>9, <2>1
<1>11. Len(s) = Len(t)
  BY <1>1
<1>12. s = t
  BY <1>1, <1>10, <1>11, SeqEqual
<1> QED BY <1>1, <1>5, <1>12 DEF s, t

LEMMA UndoneLine ==
  ASSUME NEW ed, WholeEditor(ed), CanUndo(ed.history), NEW u, WholeEditor(u),
         u = Stepped(ed, Top(ed.history.past), Undone(ed.history, Shown(ed)))
  PROVE  Line(u) = Line(ed) /\ At(ed) > 1 /\ At(u) = At(ed) - 1
<1> DEFINE past == ed.history.past
           future == ed.history.future
<1>1. /\ past \in Seq(Canvases) /\ future \in Seq(Canvases) /\ past # <<>>
      /\ \A i \in DOMAIN past : Whole(past[i])
  BY DEF WholeEditor, WholeHistory, Histories, CanUndo
<1>2. /\ u.widgets = past[Len(past)].widgets
      /\ u.history.past = Pop(past) /\ u.history.future = Append(future, Shown(ed))
  BY DEF Stepped, Undone, Top, WholeEditor, EditorRecords
<1>3. /\ Len(Pop(past)) = Len(past) - 1 /\ Len(past) \in Nat \ {0}
      /\ \A i \in 1..Len(past) - 1 : Pop(past)[i] = past[i]
  BY <1>1, PoppedIsWhole
<1>4. Shown(ed) \in Canvases /\ Shown(ed).widgets = ed.widgets
  BY ShownIsWhole DEF Whole, Shown
<1>5. /\ Len(Append(future, Shown(ed))) = Len(future) + 1
      /\ \A i \in 1..Len(future) : Append(future, Shown(ed))[i] = future[i]
      /\ Append(future, Shown(ed))[Len(future) + 1] = Shown(ed)
  BY <1>1, <1>4
<1> HIDE DEF past, future
<1>6. /\ Len(past) = Len(u.history.past) + 1
      /\ Len(u.history.future) = Len(future) + 1
      /\ \A i \in 1..Len(u.history.past) : u.history.past[i].widgets = past[i].widgets
      /\ \A i \in 1..Len(future) : u.history.future[i].widgets = future[i].widgets
      /\ u.history.future[Len(u.history.future)].widgets = ed.widgets
  BY <1>2, <1>3, <1>4, <1>5
<1> QED BY <1>2, <1>6, BehindIsSameLine DEF past, future

LEMMA RedoneLine ==
  ASSUME NEW ed, WholeEditor(ed), CanRedo(ed.history), NEW u, WholeEditor(u),
         u = Stepped(ed, Top(ed.history.future), Redone(ed.history, Shown(ed)))
  PROVE  Line(u) = Line(ed) /\ At(u) > 1 /\ At(ed) = At(u) - 1
<1> DEFINE past == ed.history.past
           future == ed.history.future
<1>1. /\ past \in Seq(Canvases) /\ future \in Seq(Canvases) /\ future # <<>>
      /\ \A i \in DOMAIN future : Whole(future[i])
  BY DEF WholeEditor, WholeHistory, Histories, CanRedo
<1>2. /\ u.widgets = future[Len(future)].widgets
      /\ u.history.future = Pop(future) /\ u.history.past = Append(past, Shown(ed))
  BY DEF Stepped, Redone, Top, WholeEditor, EditorRecords
<1>3. /\ Len(Pop(future)) = Len(future) - 1 /\ Len(future) \in Nat \ {0}
      /\ \A i \in 1..Len(future) - 1 : Pop(future)[i] = future[i]
  BY <1>1, PoppedIsWhole
<1>4. Shown(ed) \in Canvases /\ Shown(ed).widgets = ed.widgets
  BY ShownIsWhole DEF Whole, Shown
<1>5. /\ Len(Append(past, Shown(ed))) = Len(past) + 1
      /\ \A i \in 1..Len(past) : Append(past, Shown(ed))[i] = past[i]
      /\ Append(past, Shown(ed))[Len(past) + 1] = Shown(ed)
  BY <1>1, <1>4
<1> HIDE DEF past, future
<1>6. /\ Len(u.history.past) = Len(past) + 1
      /\ Len(future) = Len(u.history.future) + 1
      /\ \A i \in 1..Len(past) : past[i].widgets = u.history.past[i].widgets
      /\ ed.widgets = u.history.past[Len(u.history.past)].widgets
      /\ \A i \in 1..Len(u.history.future) : future[i].widgets = u.history.future[i].widgets
  BY <1>2, <1>3, <1>4, <1>5
<1> QED BY <1>2, <1>6, BehindIsSameLine DEF past, future

(* A change keeps the line up to the canvas, or up to the one before it     *)
(* when it is part of the step before.                                     *)
LEMMA ChangedLine ==
  ASSUME NEW ed, WholeEditor(ed), NEW key \in LastKeys,
         NEW u, WholeEditor(u), u.history = Record(ed.history, Shown(ed), key)
  PROVE  LET kept == Append(SubSeq(Line(ed), 1, At(ed)), u.widgets)
         IN  \/ /\ At(ed) > 1 /\ At(u) = At(ed) /\ Line(u)[At(u)] = u.widgets
                /\ Line(u) = Append(SubSeq(Line(ed), 1, At(ed) - 1), u.widgets)
             \/ /\ At(u) = Len(Line(u)) /\ Line(u)[At(u)] = u.widgets
                /\ Line(u) = IF Len(kept) > Limit + 1 THEN Tail(kept) ELSE kept
<1> DEFINE past == ed.history.past
           after == u.history.past
           p == Len(past)
           n == Len(after)
           line == Line(ed)
           new == Line(u)
<1>1. /\ past \in Seq(Canvases) /\ p \in Nat /\ p <= Limit
      /\ line \in Seq(Drawings) /\ Len(line) >= p + 1 /\ Len(line) \in Nat
      /\ \A i \in 1..p : line[i] = past[i].widgets
      /\ line[p + 1] = ed.widgets /\ At(ed) = p + 1
  <2>1. Len(line) = p + 1 + Len(ed.history.future) /\ Len(ed.history.future) \in Nat
    BY LineOf
  <2>2. /\ past \in Seq(Canvases) /\ p \in Nat /\ p <= Limit
        /\ line \in Seq(Drawings)
        /\ \A i \in 1..p : line[i] = past[i].widgets
        /\ line[p + 1] = ed.widgets /\ At(ed) = p + 1
    BY LineOf DEF At
  <2> HIDE DEF p, line
  <2>3. Len(line) >= p + 1 /\ Len(line) \in Nat
    <3> DEFINE f == Len(ed.history.future)
    <3>1. Len(line) = p + 1 + f /\ f \in Nat /\ p \in Nat
      BY <2>1, <2>2
    <3> HIDE DEF f
    <3> QED BY <3>1
  <2> QED BY <2>2, <2>3
<1>3. u.history.future = <<>>
  BY DEF Record, WholeEditor, WholeHistory, Histories
<1>4. /\ new \in Seq(Drawings) /\ Len(new) = n + 1 /\ n \in Nat /\ n <= Limit
      /\ \A i \in 1..n : new[i] = after[i].widgets
      /\ new[n + 1] = u.widgets /\ At(u) = n + 1
  <2>1. Len(new) = n + 1 + Len(u.history.future) /\ Len(u.history.future) = 0
    BY <1>3, LineOf
  <2>2. /\ new \in Seq(Drawings) /\ n \in Nat /\ n <= Limit
        /\ \A i \in 1..n : new[i] = after[i].widgets
        /\ new[n + 1] = u.widgets /\ At(u) = n + 1
    BY LineOf DEF At
  <2> HIDE DEF n, new
  <2> QED BY <2>1, <2>2
<1>5. u.widgets \in Drawings /\ Shown(ed) \in Canvases /\ Shown(ed).widgets = ed.widgets
  BY ShownIsWhole DEF Whole, Shown, Drawings
<1>6. CASE Coalesces(ed.history, key)
  <2>1. after = past /\ past # <<>>
    BY <1>6 DEF Record, Coalesces, WholeEditor, WholeHistory, Histories
  <2>2. n = p /\ p > 0
    BY <1>1, <2>1
  <2> DEFINE s == SubSeq(line, 1, p)
             t == Append(s, u.widgets)
  <2> HIDE DEF past, after, p, n, line, new
  <2>3. s \in Seq(Drawings) /\ Len(s) = p - 1 + 1 /\ \A i \in 1..p - 1 + 1 : s[i] = line[1 + i - 1]
    <3>1. 1 \in Nat \ {0} /\ p <= Len(line) /\ 1 <= p + 1
      BY <1>1
    <3> QED BY <1>1, <3>1, PartOf
  <2>4. Len(s) = p /\ \A i \in 1..p : s[i] = line[i]
    BY <1>1, <2>3
  <2> HIDE DEF s
  <2>5. t \in Seq(Drawings) /\ Len(t) = p + 1 /\ t[p + 1] = u.widgets /\ \A i \in 1..p : t[i] = s[i]
    BY <1>1, <1>5, <2>3, <2>4
  <2> HIDE DEF t
  <2>6. ASSUME NEW i \in 1..p + 1 PROVE new[i] = t[i]
    <3>1. CASE i = p + 1
      BY <1>4, <2>2, <2>5, <3>1
    <3>2. CASE i \in 1..p
      BY <1>1, <1>4, <2>1, <2>2, <2>4, <2>5, <3>2
    <3> QED BY <1>1, <3>1, <3>2
  <2>7. new = t
    BY <1>1, <1>4, <2>2, <2>5, <2>6, SeqEqual
  <2>8. At(ed) > 1 /\ At(u) = At(ed) /\ new[At(u)] = u.widgets /\ At(ed) - 1 = p
    BY <1>1, <1>4, <2>2
  <2> QED BY <2>7, <2>8 DEF t, s, line, new
<1>7. CASE ~Coalesces(ed.history, key)
  <2> DEFINE d == p + 1 - n
             s == SubSeq(line, 1, p + 1)
             t == Append(s, u.widgets)
  <2>1. after = Newest(Append(past, Shown(ed)))
    BY <1>7 DEF Record
  <2> HIDE DEF past, after
  <2>2. /\ d \in 0..1 /\ n = IF p < Limit THEN p + 1 ELSE Limit
        /\ \A i \in 1..n : after[i] = IF i + d <= p THEN past[i + d] ELSE Shown(ed)
    BY <1>1, <1>5, <2>1, NewestOf
  <2> HIDE DEF past, after, p, n, d, line, new
  <2>3. s \in Seq(Drawings) /\ Len(s) = p + 1 - 1 + 1 /\ \A i \in 1..p + 1 - 1 + 1 : s[i] = line[1 + i - 1]
    <3>1. 1 \in Nat \ {0} /\ p + 1 \in Nat /\ p + 1 <= Len(line) /\ 1 <= p + 1 + 1
      BY <1>1
    <3> QED BY <1>1, <3>1, PartOf
  <2>4. Len(s) = p + 1 /\ \A i \in 1..p + 1 : s[i] = line[i]
    BY <1>1, <2>3
  <2> HIDE DEF s
  <2>5. /\ t \in Seq(Drawings) /\ Len(t) = p + 2 /\ t[p + 2] = u.widgets
        /\ \A i \in 1..p + 1 : t[i] = s[i]
    BY <1>1, <1>5, <2>3, <2>4
  <2> HIDE DEF t
  <2>6. d = p + 1 - n /\ Limit \in Nat \ {0}
    BY EditHistoryAssumption DEF d
  <2>7. \A i \in 1..n + 1 : new[i] = t[i + d]
    <3> TAKE i \in 1..n + 1
    <3>1. CASE i = n + 1
      BY <1>1, <1>4, <2>2, <2>5, <2>6, <3>1
    <3>2. CASE i \in 1..n /\ i + d <= p
      <4>1. new[i] = past[i + d].widgets
        BY <1>4, <2>2, <3>2
      <4>2. i + d \in 1..p /\ i + d \in 1..p + 1
        BY <1>1, <1>4, <2>2, <3>2
      <4> QED BY <1>1, <2>4, <2>5, <4>1, <4>2
    <3>3. CASE i \in 1..n /\ ~(i + d <= p)
      <4>1. new[i] = ed.widgets
        BY <1>4, <1>5, <2>2, <3>3
      <4>2. i + d = p + 1 /\ p + 1 \in 1..p + 1
        BY <1>1, <1>4, <2>2, <2>6, <3>3
      <4> QED BY <1>1, <2>4, <2>5, <4>1, <4>2
    <3> QED BY <1>4, <3>1, <3>2, <3>3
  <2>8. CASE p < Limit
    <3>1. d = 0 /\ n = p + 1 /\ ~(Len(t) > Limit + 1)
      BY <1>1, <2>2, <2>5, <2>6, <2>8
    <3>2. \A i \in 1..n + 1 : new[i] = t[i]
      BY <1>4, <2>7, <3>1
    <3>3. new = t
      BY <1>1, <1>4, <2>5, <3>1, <3>2, SeqEqual
    <3> QED BY <1>1, <1>4, <3>1, <3>3 DEF t, s, line, new
  <2>9. CASE ~(p < Limit)
    <3>1. d = 1 /\ n = p /\ Len(t) > Limit + 1
      BY <1>1, <2>2, <2>5, <2>6, <2>9
    <3>2. /\ Tail(t) \in Seq(Drawings) /\ Len(Tail(t)) = p + 1
          /\ \A i \in 1..p + 1 : Tail(t)[i] = t[i + 1]
      BY <1>1, <2>5
    <3>3. \A i \in 1..n + 1 : new[i] = Tail(t)[i]
      BY <1>4, <2>7, <3>1, <3>2
    <3>4. new = Tail(t)
      BY <1>1, <1>4, <3>1, <3>2, <3>3, SeqEqual
    <3> QED BY <1>1, <1>4, <3>1, <3>4 DEF t, s, line, new
  <2> QED BY <2>8, <2>9
<1> QED BY <1>6, <1>7

-----------------------------------------------------------------------------
(* What a step does to one author's editor.                                *)

EditorMoves(ed, u) ==
  \/ u.history = ed.history /\ u.widgets = ed.widgets
  \/ \E key \in LastKeys : u.history = Record(ed.history, Shown(ed), key)
  \/ /\ CanUndo(ed.history)
     /\ u = Stepped(ed, Top(ed.history.past), Undone(ed.history, Shown(ed)))
  \/ /\ CanRedo(ed.history)
     /\ u = Stepped(ed, Top(ed.history.future), Redone(ed.history, Shown(ed)))
  \/ u.history = NoHistory

LEMMA ChangedMoves ==
  ASSUME CanvasInv, NEW e \in Editors, NEW widgets, NEW selected, NEW key \in LastKeys,
         Edited(e, Changed(editor[e], widgets, selected, key))
  PROVE  \A f \in Editors : EditorMoves(editor[f], editor'[f])
<1> DEFINE ed == editor[e]
<1>1. /\ ed \in EditorRecords /\ editor \in [Editors -> EditorRecords]
      /\ editor' = [editor EXCEPT ![e] = Changed(ed, widgets, selected, key)]
  BY DEF CanvasInv, Edited
<1>2. Changed(ed, widgets, selected, key).history = Record(ed.history, Shown(ed), key)
  BY <1>1 DEF Changed, Shown, EditorRecords
<1> HIDE DEF ed
<1>3. EditorMoves(ed, Changed(ed, widgets, selected, key))
  BY <1>2 DEF EditorMoves
<1>4. \A f \in Editors \ {e} : editor'[f] = editor[f]
  BY <1>1
<1> QED BY <1>1, <1>3, <1>4 DEF EditorMoves, ed

LEMMA ErrorMoves ==
  ASSUME CanvasInv, NEW e \in Editors, NEW error,
         editor' = [editor EXCEPT ![e].error = error]
  PROVE  \A f \in Editors : EditorMoves(editor[f], editor'[f])
<1>1. editor \in [Editors -> EditorRecords]
  BY DEF CanvasInv
<1>2. \A f \in Editors : editor'[f].history = editor[f].history
                        /\ editor'[f].widgets = editor[f].widgets
  BY <1>1 DEF EditorRecords
<1> QED BY <1>2 DEF EditorMoves

LEMMA StepMoves ==
  ASSUME CanvasInv, [EditorNext]_pageVars
  PROVE  \A f \in Editors : EditorMoves(editor[f], editor'[f])
<1>a. editor \in [Editors -> EditorRecords]
  BY DEF CanvasInv
<1>1. ASSUME NEW e \in Editors, Change(e)
      PROVE  \A f \in Editors : EditorMoves(editor[f], editor'[f])
  <2>1. CASE Undo(e)
    BY <1>a, <2>1 DEF Undo, EditorMoves
  <2>2. CASE Redo(e)
    BY <1>a, <2>2 DEF Redo, EditorMoves
  <2>3. NoKey \in LastKeys
    BY DEF LastKeys
  <2>4. CASE \E key \in Keys : Add(e, key) \/ \E spot \in Spots : Drop(e, key, spot)
    BY <2>3, <2>4, ChangedMoves DEF Add, Drop
  <2>5. CASE \E id \in Ids(editor[e].widgets) :
               RemoveOne(e, id) \/ \E spot \in Spots : Move(e, id, spot)
    BY <2>3, <2>5, ChangedMoves DEF RemoveOne, Move
  <2>6. CASE \E value \in Props : SetProp(e, value) \/ ReplaceProps(e, value)
    <3>1. editor[e].selected # NoId
      BY <2>6 DEF SetProp, ReplaceProps
    <3>2. WholeEditor(editor[e])
      BY DEF CanvasInv
    <3>3. <<"prop", editor[e].selected>> \in LastKeys /\ <<"form", editor[e].selected>> \in LastKeys
      BY <3>1, <3>2, ShownIsWhole DEF LastKeys
    <3> QED BY <2>6, <3>3, ChangedMoves DEF SetProp, ReplaceProps
  <2> QED BY <1>1, <2>1, <2>2, <2>4, <2>5, <2>6 DEF Change
<1>2. ASSUME NEW e \in Editors, NEW id, Select(e, id)
      PROVE  \A f \in Editors : EditorMoves(editor[f], editor'[f])
  <2>1. \A f \in Editors : editor'[f].history = editor[f].history
                          /\ editor'[f].widgets = editor[f].widgets
    BY <1>2, <1>a DEF Select, EditorRecords
  <2> QED BY <2>1 DEF EditorMoves
<1>3. ASSUME NEW e \in Editors,
             \/ SaveDraft(e) \/ Publish(e) \/ Discard(e)
             \/ \E body \in FirstBodies : Restore(e, body)
      PROVE  \A f \in Editors : EditorMoves(editor[f], editor'[f])
  <2>1. ASSUME NEW payload, NEW body, Write(e, payload, body)
        PROVE  \A f \in Editors : EditorMoves(editor[f], editor'[f])
    BY <2>1, ErrorMoves DEF Write
  <2> QED BY <1>3, <2>1 DEF SaveDraft, Publish, Discard, Restore
<1>4. ASSUME editor' = editor
      PROVE  \A f \in Editors : EditorMoves(editor[f], editor'[f])
  BY <1>4 DEF EditorMoves
<1>5. ASSUME NEW e \in Editors, NEW error, Ended(e, error)
      PROVE  \A f \in Editors : EditorMoves(editor[f], editor'[f])
  BY <1>5, ErrorMoves DEF Ended
<1>6. ASSUME NEW e \in Editors, Checked(e) \/ Put(e) \/ Reload(e)
      PROVE  \A f \in Editors : EditorMoves(editor[f], editor'[f])
  BY <1>4, <1>5, <1>6, ErrorMoves DEF Checked, Put, Reload
<1>7. ASSUME NEW e \in Editors, Loaded(e)
      PROVE  \A f \in Editors : EditorMoves(editor[f], editor'[f])
  <2>1. CASE editor' = [editor EXCEPT ![e] = Opened(editor[e], stored)]
    <3>1. Opened(editor[e], stored).history = NoHistory
      BY DEF Opened
    <3> QED BY <1>a, <2>1, <3>1 DEF EditorMoves
  <2>2. CASE Ended(e, "unread")
    BY <1>5, <2>2
  <2> QED BY <1>7, <2>1, <2>2 DEF Loaded
<1> QED BY <1>1, <1>2, <1>3, <1>4, <1>6, <1>7 DEF EditorNext, pageVars

(* Undo, redo and every change move each author along one line of canvases, *)
(* over any number of saves (editHistory.js).                              *)
THEOREM CanvasesLieOnALine == EditorSpec => HistoryIsATimeline
<1> DEFINE Moves == \A e \in Editors : [Timeline(e)!Next]_(Timeline(e)!vars)
<1>1. EditorInit => \A e \in Editors : Timeline(e)!Init
  <2> SUFFICES ASSUME EditorInit, NEW e \in Editors
               PROVE  Timeline(e)!Init
    OBVIOUS
  <2>1. CanvasInv /\ editor[e].history = NoHistory
    BY CanvasInit DEF EditorInit, Unopened
  <2>2. WholeEditor(editor[e]) /\ Len(editor[e].history.past) = 0 /\ Len(editor[e].history.future) = 0
    BY <2>1 DEF CanvasInv, NoHistory
  <2>3. Len(Line(editor[e])) = 1 /\ At(editor[e]) = 1
    BY <2>2, LengthOf
  <2> QED BY <2>3 DEF Line, At, Timeline!Init
<1>2. CanvasInv /\ CanvasInv' /\ [EditorNext]_pageVars => [Moves]_pageVars
  <2> SUFFICES ASSUME CanvasInv, CanvasInv', [EditorNext]_pageVars, NEW e \in Editors
               PROVE  [Timeline(e)!Next]_(Timeline(e)!vars)
    OBVIOUS
  <2> DEFINE ed == editor[e]
             u == editor'[e]
  <2>1. WholeEditor(ed) /\ WholeEditor(u) /\ EditorMoves(ed, u)
    BY StepMoves DEF CanvasInv
  <2>a. Line(ed)' = Line(u) /\ At(ed)' = At(u)
    BY DEF Line, At
  <2>2. CASE u.history = ed.history /\ u.widgets = ed.widgets
    <3>1. Line(u) = Line(ed) /\ At(u) = At(ed)
      BY <2>2 DEF Line, At
    <3> QED BY <3>1 DEF Line, At, Timeline!vars
  <2>3. CASE \E key \in LastKeys : u.history = Record(ed.history, Shown(ed), key)
    <3> DEFINE canvas == Line(u)[At(u)]
               kept == Append(SubSeq(Line(ed), 1, At(ed)), canvas)
    <3>1. \/ /\ At(ed) > 1 /\ At(u) = At(ed)
             /\ Line(u) = Append(SubSeq(Line(ed), 1, At(ed) - 1), canvas)
          \/ /\ At(u) = Len(Line(u))
             /\ Line(u) = IF Len(kept) > Limit + 1 THEN Tail(kept) ELSE kept
      <4> PICK key \in LastKeys : u.history = Record(ed.history, Shown(ed), key)
        BY <2>3
      <4>1. /\ WholeEditor(ed) /\ WholeEditor(u)
        BY <2>1
      <4> HIDE DEF ed, u
      <4>2. Line(u)[At(u)] = u.widgets
        BY <4>1, ChangedLine
      <4> QED BY <4>1, <4>2, ChangedLine
    <3>2. CASE /\ At(ed) > 1 /\ At(u) = At(ed)
               /\ Line(u) = Append(SubSeq(Line(ed), 1, At(ed) - 1), canvas)
      BY <3>2 DEF Line, At, Timeline!Next, Timeline!Amend, Timeline!Until
    <3>3. CASE /\ At(u) = Len(Line(u))
               /\ Line(u) = IF Len(kept) > Limit + 1 THEN Tail(kept) ELSE kept
      BY <3>3 DEF Line, At, Timeline!Next, Timeline!Change, Timeline!Until, Timeline!Latest
    <3> QED BY <3>1, <3>2, <3>3
  <2>4. CASE /\ CanUndo(ed.history)
             /\ u = Stepped(ed, Top(ed.history.past), Undone(ed.history, Shown(ed)))
    <3>1. Line(u) = Line(ed) /\ At(ed) > 1 /\ At(u) = At(ed) - 1
      BY <2>1, <2>4, UndoneLine
    <3> QED BY <3>1 DEF Line, At, Timeline!Next, Timeline!Back
  <2>5. CASE /\ CanRedo(ed.history)
             /\ u = Stepped(ed, Top(ed.history.future), Redone(ed.history, Shown(ed)))
    <3>1. Line(u) = Line(ed) /\ At(u) > 1 /\ At(ed) = At(u) - 1
      BY <2>1, <2>5, RedoneLine
    <3>2. At(u) <= Len(Line(u)) /\ At(u) \in Nat
      <4>1. /\ Len(u.history.past) \in Nat /\ Len(u.history.future) \in Nat
            /\ Len(Line(u)) = Len(u.history.past) + 1 + Len(u.history.future)
        BY <2>1, LengthOf
      <4> DEFINE p == Len(u.history.past)
                 f == Len(u.history.future)
      <4>2. p \in Nat /\ f \in Nat /\ Len(Line(u)) = p + 1 + f /\ At(u) = p + 1
        BY <4>1 DEF At
      <4> HIDE DEF p, f, u
      <4> QED BY <4>2
    <3>3. At(ed) < Len(Line(ed)) /\ At(u) = At(ed) + 1
      BY <3>1, <3>2
    <3> QED BY <3>1, <3>3 DEF Line, At, Timeline!Next, Timeline!Forward
  <2>6. CASE u.history = NoHistory
    <3>1. Len(u.history.past) = 0 /\ Len(u.history.future) = 0
      BY <2>6 DEF NoHistory
    <3>2. Len(Line(u)) = 1 /\ At(u) = 1
      BY <2>1, <3>1, LengthOf
    <3> QED BY <3>2 DEF Line, At, Timeline!Next, Timeline!Restart
  <2> QED BY <2>1, <2>2, <2>3, <2>4, <2>5, <2>6 DEF EditorMoves
<1> QED BY <1>1, <1>2, CanvasInvariant, PTL DEF EditorSpec, HistoryIsATimeline

-----------------------------------------------------------------------------

(* The panels: what their variables can be.                                *)
Addresses == {Address[route] : route \in TypedRoutes}
PageRecords == [status : {"draft", "published"}, route : Addresses, parent : PageIds \cup {Root},
                title : {0, 1}, version : Nat]
Listings == UNION {[ids -> PageRecords] : ids \in SUBSET PageIds}
PanelRecords == [pages : Listings, confirming : PageIds \cup {Root}, busy : BOOLEAN,
                 loading : BOOLEAN, asked : SUBSET {"mounted", "written"}]
Writes == {NoRequest} \cup [kind : {"check", "put"}, page : PageIds, payload : PageRecords]
            \cup [kind : {"delete"}, page : PageIds] \cup [kind : {"post"}, payload : PageRecords]
MenuLists == [known : BOOLEAN, items : Seq(MenuNames), version : Nat, dirty : BOOLEAN,
              loading : BOOLEAN]
MenuSaves == {NoRequest} \cup [kind : {"check", "put", "load"}, items : Seq(MenuNames), base : Nat]

PagesTypeOK ==
  /\ site \in [PageIds -> PageRecords \cup {Gone, Unused}]
  /\ panel \in [Managers -> PanelRecords] /\ request \in [Managers -> Writes]
MenuTypeOK ==
  /\ menu \in [items : Seq(MenuNames), version : Nat]
  /\ list \in [Managers -> MenuLists] /\ saving \in [Managers -> MenuSaves]
PanelTypeOK ==
  PagesTypeOK /\ MenuTypeOK /\ sends \in 0..MaxSends /\ sole \in Managers \cup {NoOne}

LEMMA UnlistedIsListing == Unlisted \in Listings
<1>1. DOMAIN Unlisted = {} BY DEF Unlisted
<1>2. Unlisted = [x \in {} |-> x] BY <1>1 DEF Unlisted
<1> QED BY <1>1, <1>2 DEF Listings

LEMMA PageFacts ==
  ASSUME NEW page \in PageRecords \cup {Gone, Unused}
  PROVE  IsPage(page) <=> page \in PageRecords
BY DEF PageRecords, IsPage, Gone, Unused

LEMMA TreeIsListed == ASSUME NEW pages PROVE PageTree(pages) \subseteq DOMAIN pages
BY DEF PageTree, Beneath

LEMMA PanelInitTypes == PanelInit => PanelTypeOK
<1> SUFFICES ASSUME PanelInit PROVE PanelTypeOK OBVIOUS
<1>1. site \in [PageIds -> PageRecords \cup {Gone, Unused}]
  <2> DEFINE Firsts == [status : {"draft", "published"}, route : {Address[r] : r \in TypedRoutes},
                        parent : {Root}, title : {0}, version : {1}]
  <2>1. site \in [PageIds -> {Unused} \cup Firsts] BY DEF PanelInit, FirstPages
  <2>2. Firsts \subseteq PageRecords BY DEF PageRecords, Addresses
  <2> HIDE DEF Firsts
  <2> QED BY <2>1, <2>2
<1>2. panel \in [Managers -> PanelRecords]
  BY UnlistedIsListing DEF PanelInit, PanelRecords
<1>3. request \in [Managers -> Writes] BY DEF PanelInit, Writes
<1>4. menu \in [items : Seq(MenuNames), version : Nat] BY DEF PanelInit
<1>5. list \in [Managers -> MenuLists] BY DEF PanelInit, MenuLists
<1>6. saving \in [Managers -> MenuSaves] BY DEF PanelInit, MenuSaves
<1>7. sends \in 0..MaxSends /\ sole \in Managers \cup {NoOne} BY SitePanelsAssumption DEF PanelInit
<1> QED BY <1>1, <1>2, <1>3, <1>4, <1>5, <1>6, <1>7 DEF PanelTypeOK, PagesTypeOK, MenuTypeOK

LEMMA ListAnsweredTypes ==
  ASSUME PagesTypeOK, NEW m \in Managers, NEW why, ListAnswered(m, why)
  PROVE  PagesTypeOK'
<1> DEFINE fresh == [i \in {j \in PageIds : IsPage(site[j])} |-> site[i]]
           answered == [panel[m] EXCEPT !.loading = FALSE, !.asked = @ \ {why},
                                        !.busy = @ /\ why = "mounted"]
<1>1. panel[m] \in PanelRecords BY DEF PagesTypeOK
<1>2. (panel[m].busy /\ why = "mounted") \in BOOLEAN BY Zenon
<1>3. answered \in PanelRecords BY <1>1, <1>2 DEF PanelRecords
<1>4. fresh \in Listings
  <2> DEFINE there == {j \in PageIds : IsPage(site[j])}
  <2>1. \A i \in there : site[i] \in PageRecords BY PageFacts DEF PagesTypeOK
  <2>2. there \in SUBSET PageIds OBVIOUS
  <2> HIDE DEF there
  <2>3. [i \in there |-> site[i]] \in [there -> PageRecords] BY <2>1
  <2>4. [i \in there |-> site[i]] \in Listings BY <2>2, <2>3, Zenon DEF Listings
  <2> QED BY <2>4 DEF there
<1>5. panel' = [panel EXCEPT ![m] = [answered EXCEPT !.pages = fresh]]
      \/ panel' = [panel EXCEPT ![m] = answered]
  BY DEF ListAnswered
<1>6. UNCHANGED <<site, request>> BY DEF ListAnswered
<1> HIDE DEF fresh, answered
<1>7. [answered EXCEPT !.pages = fresh] \in PanelRecords BY <1>3, <1>4 DEF PanelRecords
<1>8. panel' \in [Managers -> PanelRecords] BY <1>3, <1>5, <1>7 DEF PagesTypeOK
<1> QED BY <1>6, <1>8 DEF PagesTypeOK

LEMMA SendTypes ==
  ASSUME PagesTypeOK, NEW m \in Managers, NEW write \in Writes, Send(m, write)
  PROVE  PagesTypeOK'
<1> DEFINE busy == [panel[m] EXCEPT !.busy = TRUE,
                      !.confirming = IF write.kind = "delete" THEN Root ELSE @]
<1>1. panel[m] \in PanelRecords BY DEF PagesTypeOK
<1>2. busy \in PanelRecords BY <1>1 DEF PanelRecords
<1>3. panel' = [panel EXCEPT ![m] = busy] BY <1>1 DEF Send, PanelRecords
<1>4. request' = [request EXCEPT ![m] = write] /\ UNCHANGED site BY DEF Send
<1> HIDE DEF busy
<1> QED BY <1>2, <1>3, <1>4 DEF PagesTypeOK

LEMMA RowIsPage ==
  ASSUME PagesTypeOK, NEW m \in Managers, NEW id \in PageTree(panel[m].pages)
  PROVE  id \in PageIds /\ id \in DOMAIN panel[m].pages /\ panel[m].pages[id] \in PageRecords
<1>1. panel[m].pages \in Listings BY DEF PagesTypeOK, PanelRecords
<1>2. PICK ids \in SUBSET PageIds : panel[m].pages \in [ids -> PageRecords] BY <1>1 DEF Listings
<1> QED BY <1>2, TreeIsListed

LEMMA AskTypes ==
  ASSUME PagesTypeOK, NEW m \in Managers, NEW id \in PageIds \cup {Root},
         panel' = [panel EXCEPT ![m].confirming = id], UNCHANGED <<site, request>>
  PROVE  PagesTypeOK'
<1>1. panel[m] \in PanelRecords BY DEF PagesTypeOK
<1>2. [panel[m] EXCEPT !.confirming = id] \in PanelRecords BY <1>1 DEF PanelRecords
<1> QED BY <1>2 DEF PagesTypeOK

LEMMA FinishTypes ==
  ASSUME PagesTypeOK, NEW m \in Managers, NEW again \in BOOLEAN, Finish(m, again)
  PROVE  panel' \in [Managers -> PanelRecords] /\ request' \in [Managers -> Writes]
<1> DEFINE done == [panel[m] EXCEPT !.busy = again, !.loading = @ \/ again,
                      !.asked = IF again THEN @ \cup {"written"} ELSE @]
<1>1. panel[m] \in PanelRecords BY DEF PagesTypeOK
<1>2. (panel[m].loading \/ again) \in BOOLEAN BY Zenon
<1>3. done \in PanelRecords BY <1>1, <1>2 DEF PanelRecords
<1>4. panel' = [panel EXCEPT ![m] = done] BY <1>1 DEF Finish, PanelRecords
<1>5. request' = [request EXCEPT ![m] = NoRequest] BY DEF Finish
<1>6. NoRequest \in Writes BY DEF Writes
<1> HIDE DEF done
<1> QED BY <1>3, <1>4, <1>5, <1>6 DEF PagesTypeOK

LEMMA WriteKinds ==
  ASSUME NEW write \in Writes
  PROVE  /\ write.kind \in {"check", "put"} =>
              write \in [kind : {"check", "put"}, page : PageIds, payload : PageRecords]
         /\ write.kind = "delete" => write \in [kind : {"delete"}, page : PageIds]
         /\ write.kind = "post" => write \in [kind : {"post"}, payload : PageRecords]
BY DEF Writes, NoRequest

LEMMA AnsweredTypes ==
  ASSUME PagesTypeOK, NEW m \in Managers,
         CheckAnswered(m) \/ PutAnswered(m) \/ DeleteAnswered(m) \/ CreateAnswered(m)
  PROVE  PagesTypeOK'
<1>0. request[m] \in Writes BY DEF PagesTypeOK
<1>1. CASE CheckAnswered(m)
  <2>1. UNCHANGED site BY <1>1 DEF CheckAnswered
  <2>2. CASE request' = [request EXCEPT ![m].kind = "put"] /\ UNCHANGED panel
    <3>1. [request[m] EXCEPT !.kind = "put"] \in Writes BY <1>0, <1>1, WriteKinds DEF CheckAnswered, Writes
    <3> QED BY <2>1, <2>2, <3>1 DEF PagesTypeOK
  <2>3. CASE Finish(m, TRUE) \/ Finish(m, FALSE) BY <2>1, <2>3, FinishTypes DEF PagesTypeOK
  <2> QED BY <1>1, <2>2, <2>3 DEF CheckAnswered
<1>2. CASE PutAnswered(m)
  <2>1. request[m].page \in PageIds /\ request[m].payload \in PageRecords
    BY <1>0, <1>2, WriteKinds DEF PutAnswered
  <2>2. Finish(m, TRUE) \/ Finish(m, FALSE) BY <1>2 DEF PutAnswered
  <2>3. panel' \in [Managers -> PanelRecords] /\ request' \in [Managers -> Writes] BY <2>2, FinishTypes
  <2>4. [request[m].payload EXCEPT !.version = @ + 1] \in PageRecords BY <2>1 DEF PageRecords
  <2>5. site' = site \/ site' = [site EXCEPT ![request[m].page] =
                                  [request[m].payload EXCEPT !.version = @ + 1]]
    BY <1>2 DEF PutAnswered
  <2> QED BY <2>1, <2>3, <2>4, <2>5 DEF PagesTypeOK
<1>3. CASE DeleteAnswered(m)
  <2>1. request[m].page \in PageIds BY <1>0, <1>3, WriteKinds DEF DeleteAnswered
  <2>2. (site[request[m].page] # Gone) \in BOOLEAN OBVIOUS
  <2>3. panel' \in [Managers -> PanelRecords] /\ request' \in [Managers -> Writes]
    BY <1>3, <2>2, FinishTypes DEF DeleteAnswered
  <2> QED BY <1>3, <2>1, <2>3 DEF DeleteAnswered, PagesTypeOK
<1>4. CASE CreateAnswered(m)
  <2>1. request[m].payload \in PageRecords BY <1>0, <1>4, WriteKinds DEF CreateAnswered
  <2>2. panel' \in [Managers -> PanelRecords] /\ request' \in [Managers -> Writes]
    BY <1>4, FinishTypes DEF CreateAnswered
  <2> QED BY <1>4, <2>1, <2>2 DEF CreateAnswered, PagesTypeOK
<1> QED BY <1>1, <1>2, <1>3, <1>4

LEMMA PagesStepTypes ==
  ASSUME PagesTypeOK, NEW m \in Managers, PagesStep(m)
  PROVE  PagesTypeOK'
<1> DEFINE Listing == panel[m].pages
<1>1. Rows(m) \subseteq PageTree(Listing) BY DEF Rows
<1>2. ASSUME NEW why \in panel[m].asked, ListAnswered(m, why) PROVE PagesTypeOK'
  BY <1>2, ListAnsweredTypes
<1>3. CASE CheckAnswered(m) \/ PutAnswered(m) \/ DeleteAnswered(m) \/ CreateAnswered(m)
  BY <1>3, AnsweredTypes
<1>4. CASE CancelRemove(m) BY <1>4, AskTypes DEF CancelRemove
<1>5. ASSUME NEW id \in Rows(m),
             \/ Rename(m, id) \/ AskRemove(m, id) \/ RemovePage(m, id)
             \/ \E parent \in (Rows(m) \ {id}) \cup {Root} : MovePage(m, id, parent)
      PROVE  PagesTypeOK'
  <2>1. id \in PageIds /\ Listing[id] \in PageRecords BY <1>1, RowIsPage
  <2>2. CASE Rename(m, id)
    <3>1. [Listing[id] EXCEPT !.title = 1 - @] \in PageRecords BY <2>1 DEF PageRecords
    <3>2. [kind |-> "check", page |-> id, payload |-> [Listing[id] EXCEPT !.title = 1 - @]] \in Writes
      BY <2>1, <3>1 DEF Writes
    <3> QED BY <2>2, <3>2, SendTypes DEF Rename
  <2>3. CASE AskRemove(m, id) BY <2>1, <2>3, AskTypes DEF AskRemove
  <2>4. CASE RemovePage(m, id)
    <3>1. [kind |-> "delete", page |-> id] \in Writes BY <2>1 DEF Writes
    <3> QED BY <2>4, <3>1, SendTypes DEF RemovePage
  <2>5. ASSUME NEW parent \in (Rows(m) \ {id}) \cup {Root}, MovePage(m, id, parent) PROVE PagesTypeOK'
    <3>0. parent \in PageIds \cup {Root} BY <1>1, RowIsPage
    <3>1. [Listing[id] EXCEPT !.parent = parent] \in PageRecords BY <2>1, <3>0 DEF PageRecords
    <3>2. [kind |-> "check", page |-> id, payload |-> [Listing[id] EXCEPT !.parent = parent]] \in Writes
      BY <2>1, <3>1 DEF Writes
    <3> QED BY <2>5, <3>2, SendTypes DEF MovePage
  <2> QED BY <1>5, <2>2, <2>3, <2>4, <2>5
<1>6. ASSUME NEW route \in TypedRoutes, NEW parent \in PageTree(Listing) \cup {Root},
             Create(m, route, parent)
      PROVE  PagesTypeOK'
  <2>1. parent \in PageIds \cup {Root} BY RowIsPage
  <2>2. Page("draft", Address[route], parent) \in PageRecords BY <2>1 DEF Page, PageRecords, Addresses
  <2>3. [kind |-> "post", payload |-> Page("draft", Address[route], parent)] \in Writes
    BY <2>2 DEF Writes
  <2> QED BY <1>6, <2>3, SendTypes DEF Create
<1> QED BY <1>2, <1>3, <1>4, <1>5, <1>6 DEF PagesStep

LEMMA SwapIsSeq ==
  ASSUME NEW S, NEW s \in Seq(S), NEW i \in 1..Len(s), i > 1
  PROVE  [s EXCEPT ![i - 1] = s[i], ![i] = s[i - 1]] \in Seq(S)
<1>1. s \in [1..Len(s) -> S] /\ i - 1 \in 1..Len(s) /\ Len(s) \in Nat OBVIOUS
<1>2. [s EXCEPT ![i - 1] = s[i], ![i] = s[i - 1]] \in [1..Len(s) -> S] BY <1>1
<1> QED BY <1>1, <1>2, SeqDef

LEMMA RemoveAtIsSeq ==
  ASSUME NEW S, NEW s \in Seq(S), NEW i \in 1..Len(s)
  PROVE  RemoveAt(s, i) \in Seq(S)
<1>1. SubSeq(s, 1, i - 1) \in Seq(S) BY SubSeqProperties
<1>2. SubSeq(s, i + 1, Len(s)) \in Seq(S) BY SubSeqProperties
<1> QED BY <1>1, <1>2 DEF RemoveAt

(* What a change of the menu's items does, and that it keeps their type.   *)
LEMMA ItemsChanged ==
  ASSUME MenuTypeOK, NEW m \in Managers,
         \/ \E name \in MenuNames : AddItem(m, name)
         \/ \E i \in DOMAIN list[m].items :
              \/ RaiseItem(m, i) \/ RemoveItem(m, i) \/ \E name \in MenuNames : RenameItem(m, i, name)
  PROVE  \E items \in Seq(MenuNames) : Apply(m, items)
<1> DEFINE Items == list[m].items
<1>1. Items \in Seq(MenuNames) BY DEF MenuTypeOK, MenuLists
<1>2. DOMAIN Items = 1..Len(Items) BY <1>1
<1>3. ASSUME NEW name \in MenuNames, AddItem(m, name) PROVE \E items \in Seq(MenuNames) : Apply(m, items)
  <2>1. Append(Items, name) \in Seq(MenuNames) BY <1>1
  <2> QED BY <1>3, <2>1 DEF AddItem
<1>4. ASSUME NEW i \in DOMAIN Items, RaiseItem(m, i) PROVE \E items \in Seq(MenuNames) : Apply(m, items)
  <2>1. [Items EXCEPT ![i - 1] = Items[i], ![i] = Items[i - 1]] \in Seq(MenuNames)
    BY <1>1, <1>2, <1>4, SwapIsSeq DEF RaiseItem
  <2> QED BY <1>4, <2>1 DEF RaiseItem
<1>5. ASSUME NEW i \in DOMAIN Items, RemoveItem(m, i) PROVE \E items \in Seq(MenuNames) : Apply(m, items)
  BY <1>1, <1>2, <1>5, RemoveAtIsSeq DEF RemoveItem
<1>6. ASSUME NEW i \in DOMAIN Items, NEW name \in MenuNames, RenameItem(m, i, name)
      PROVE \E items \in Seq(MenuNames) : Apply(m, items)
  <2>1. [Items EXCEPT ![i] = name] \in Seq(MenuNames) BY <1>1, <1>2
  <2> QED BY <1>6, <2>1 DEF RenameItem
<1> QED BY <1>3, <1>4, <1>5, <1>6

(* No list is ahead of the store, and one of its version is the stored one  *)
(* or dirty.                                                               *)
CleanList(l, kept) ==
  l.known => /\ l.version <= kept.version
             /\ l.version = kept.version /\ ~l.dirty => l.items = kept.items

MenuInv == MenuTypeOK /\ \A m \in Managers : CleanList(list[m], menu)

LEMMA ListOfOne ==
  ASSUME MenuInv, NEW m \in Managers, NEW l \in MenuLists, CleanList(l, menu),
         list' = [list EXCEPT ![m] = l], NEW s \in MenuSaves, saving' = [saving EXCEPT ![m] = s],
         UNCHANGED menu
  PROVE  MenuInv'
BY DEF MenuInv, MenuTypeOK

LEMMA MenuStepInv ==
  ASSUME MenuInv, MenuNext
  PROVE  MenuInv'
<1> USE DEF MenuInv
<1>1. PICK m \in Managers :
        \/ MenuLoaded(m) \/ SaveMenu(m) \/ MenuChecked(m) \/ MenuPut(m)
        \/ \E name \in MenuNames : AddItem(m, name)
        \/ \E i \in DOMAIN list[m].items :
             \/ RaiseItem(m, i) \/ RemoveItem(m, i) \/ \E name \in MenuNames : RenameItem(m, i, name)
  BY DEF MenuNext
<1>2. list[m] \in MenuLists /\ saving[m] \in MenuSaves /\ CleanList(list[m], menu)
      /\ menu \in [items : Seq(MenuNames), version : Nat]
  BY DEF MenuTypeOK
<1>3. NoRequest \in MenuSaves BY DEF MenuSaves
<1>4. CASE MenuLoaded(m)
  <2>1. Picked(TRUE) \in MenuLists /\ CleanList(Picked(TRUE), menu)
    BY <1>2 DEF Picked, MenuLists, CleanList
  <2>2. [list[m] EXCEPT !.loading = FALSE] \in MenuLists
        /\ CleanList([list[m] EXCEPT !.loading = FALSE], menu)
    BY <1>2 DEF MenuLists, CleanList
  <2>3. list' = [list EXCEPT ![m] = Picked(TRUE)] \/ list' = [list EXCEPT ![m] = [list[m] EXCEPT !.loading = FALSE]]
    BY <1>4 DEF MenuLoaded
  <2> QED BY <1>3, <1>4, <2>1, <2>2, <2>3, ListOfOne DEF MenuLoaded
<1>5. CASE SaveMenu(m)
  <2>1. [kind |-> "check", items |-> list[m].items, base |-> list[m].version] \in MenuSaves
    BY <1>2 DEF MenuLists, MenuSaves
  <2> QED BY <1>5, <2>1 DEF SaveMenu, MenuTypeOK
<1>6. CASE MenuChecked(m)
  <2>1. [saving[m] EXCEPT !.kind = "put"] \in MenuSaves BY <1>2, <1>6 DEF MenuSaves, MenuChecked, NoRequest
  <2> QED BY <1>3, <1>6, <2>1 DEF MenuChecked, MenuRefused, MenuTypeOK
<1>7. CASE MenuPut(m)
  <2>1. saving[m] \in [kind : {"check", "put", "load"}, items : Seq(MenuNames), base : Nat]
    BY <1>2, <1>7 DEF MenuPut, MenuSaves, NoRequest
  <2>2. [saving[m] EXCEPT !.kind = "load"] \in MenuSaves BY <2>1 DEF MenuSaves
  <2>3. saving' \in [Managers -> MenuSaves] BY <1>3, <1>7, <2>2 DEF MenuPut, MenuRefused, MenuTypeOK
  <2>4. list' = list \/ list' = [list EXCEPT ![m] = [list[m] EXCEPT !.loading = TRUE]]
    BY <1>7 DEF MenuPut, MenuRefused
  <2>5. [list[m] EXCEPT !.loading = TRUE] \in MenuLists BY <1>2 DEF MenuLists
  <2>6. list' \in [Managers -> MenuLists] BY <2>4, <2>5 DEF MenuTypeOK
  <2>7. \A n \in Managers : list'[n].known = list[n].known /\ list'[n].version = list[n].version
                            /\ list'[n].dirty = list[n].dirty /\ list'[n].items = list[n].items
    BY <1>2, <2>4 DEF MenuTypeOK, MenuLists
  <2>8. menu' = menu \/ menu' = [items |-> saving[m].items, version |-> menu.version + 1]
    BY <1>7 DEF MenuPut
  <2>9. menu' \in [items : Seq(MenuNames), version : Nat] BY <1>2, <2>1, <2>8
  <2>10. \A n \in Managers : CleanList(list'[n], menu')
    <3>1. SUFFICES ASSUME NEW n \in Managers PROVE CleanList(list'[n], menu') OBVIOUS
    <3>2. CleanList(list[n], menu) /\ list[n].version \in Nat BY DEF MenuTypeOK, MenuLists
    <3> QED BY <1>2, <2>7, <2>8, <3>2 DEF CleanList
  <2> QED BY <2>3, <2>6, <2>9, <2>10 DEF MenuTypeOK
<1>8. CASE \/ \E name \in MenuNames : AddItem(m, name)
           \/ \E i \in DOMAIN list[m].items :
                \/ RaiseItem(m, i) \/ RemoveItem(m, i) \/ \E name \in MenuNames : RenameItem(m, i, name)
  <2>1. PICK items \in Seq(MenuNames) : Apply(m, items) BY <1>8, ItemsChanged
  <2> DEFINE l == [list[m] EXCEPT !.items = items, !.dirty = TRUE]
  <2>2. l \in MenuLists /\ CleanList(l, menu) BY <1>2 DEF MenuLists, CleanList
  <2>3. list' = [list EXCEPT ![m] = l] /\ UNCHANGED <<menu, saving>> BY <2>1, <1>2 DEF Apply, MenuLists
  <2> HIDE DEF l
  <2> QED BY <2>2, <2>3 DEF MenuTypeOK
<1> QED BY <1>1, <1>4, <1>5, <1>6, <1>7, <1>8

PanelInv == PanelTypeOK /\ MenuInv

LEMMA PanelInitInv == PanelInit => PanelInv
<1> SUFFICES ASSUME PanelInit PROVE PanelInv OBVIOUS
<1>1. PanelTypeOK BY PanelInitTypes
<1>2. \A m \in Managers : CleanList(list[m], menu) BY DEF PanelInit, CleanList
<1> QED BY <1>1, <1>2 DEF PanelInv, PanelTypeOK, MenuInv

LEMMA BudgetStep ==
  ASSUME sends \in 0..MaxSends, sole \in Managers \cup {NoOne}, PanelNext
  PROVE  sends' \in 0..MaxSends /\ sole' = sole
<1>1. MaxSends \in Nat BY SitePanelsAssumption
<1>2. CASE PagesNext
  <2>1. PICK m \in Managers : PagesStep(m) BY <1>2 DEF PagesNext
  <2>2. sole' = sole /\ (sends' = sends \/ (sends < MaxSends /\ sends' = sends + 1))
    BY <2>1 DEF PagesStep, ListAnswered, CheckAnswered, PutAnswered, DeleteAnswered, CreateAnswered,
         CancelRemove, Rename, AskRemove, RemovePage, MovePage, Create, Send
  <2> QED BY <1>1, <2>2
<1>3. CASE MenuNext
  <2>2. sole' = sole /\ (sends' = sends \/ (sends < MaxSends /\ sends' = sends + 1))
    BY <1>3 DEF MenuNext, MenuLoaded, SaveMenu, MenuChecked, MenuPut, AddItem, RaiseItem, RemoveItem,
         RenameItem, Apply
  <2> QED BY <1>1, <2>2
<1> QED BY <1>2, <1>3 DEF PanelNext

LEMMA PanelStepInv == PanelInv /\ [PanelNext]_panelVars => PanelInv'
<1> SUFFICES ASSUME PanelInv, [PanelNext]_panelVars PROVE PanelInv' OBVIOUS
<1>1. CASE UNCHANGED panelVars
  BY <1>1 DEF panelVars, PanelInv, PanelTypeOK, PagesTypeOK, MenuTypeOK, MenuInv
<1>2. CASE PanelNext
  <2>1. sends' \in 0..MaxSends /\ sole' \in Managers \cup {NoOne}
    BY <1>2, BudgetStep DEF PanelInv, PanelTypeOK
  <2>2. CASE PagesNext
    <3>1. PICK m \in Managers : PagesStep(m) BY <2>2 DEF PagesNext
    <3>2. PagesTypeOK' BY <3>1, PagesStepTypes DEF PanelInv, PanelTypeOK
    <3>3. UNCHANGED menuVars
      BY <3>1 DEF PagesStep, ListAnswered, CheckAnswered, PutAnswered, DeleteAnswered, CreateAnswered,
           CancelRemove, Rename, AskRemove, RemovePage, MovePage, Create, Send
    <3>4. MenuInv' BY <3>3 DEF menuVars, PanelInv, MenuInv, MenuTypeOK
    <3> QED BY <2>1, <3>2, <3>4 DEF PanelInv, PanelTypeOK, MenuInv
  <2>3. CASE MenuNext
    <3>1. MenuInv' BY <2>3, MenuStepInv DEF PanelInv
    <3>2. UNCHANGED pagesVars
      BY <2>3 DEF MenuNext, MenuLoaded, SaveMenu, MenuChecked, MenuPut, AddItem, RaiseItem, RemoveItem,
         RenameItem, Apply
    <3>3. PagesTypeOK' BY <3>2 DEF pagesVars, PanelInv, PanelTypeOK, PagesTypeOK
    <3> QED BY <2>1, <3>1, <3>3 DEF PanelInv, PanelTypeOK, MenuInv
  <2> QED BY <1>2, <2>2, <2>3 DEF PanelNext
<1> QED BY <1>1, <1>2

LEMMA PanelInvariant == PanelSpec => []PanelInv
BY PanelInitInv, PanelStepInv, PTL DEF PanelSpec

There(s) == {i \in PageIds : IsPage(s[i])}
Listing(s) == [i \in There(s) |-> s[i]]

(* No set of pages hangs on itself alone, no page hangs on an id the store   *)
(* may still give, and no address is given twice.                          *)
SoundSite(s) ==
  /\ \A i \in There(s) : s[i].parent \in PageIds => s[s[i].parent] # Unused
  /\ \A ids \in SUBSET There(s) : ids # {} => \E i \in ids : s[i].parent \notin ids
  /\ \A i, j \in There(s) : i # j => s[i].route # s[j].route

(* A page as it may be put in the place of another: of the same version and *)
(* address, and hung no lower than that one.                               *)
Revises(page, id, s) ==
  /\ id \in There(s) /\ page.version = s[id].version /\ page.route = s[id].route
  /\ \/ page.parent = s[id].parent
     \/ page.parent \in (There(s) \cup {Root}) \ SubtreeIds(id, Listing(s))

(* A page as it may be new.                                                *)
Joins(page, s) ==
  page.parent \in There(s) \cup {Root} /\ \A i \in There(s) : s[i].route # page.route

Apt(write, s) ==
  /\ write.kind \in {"check", "put"} => Revises(write.payload, write.page, s)
  /\ write.kind = "delete" => write.page \in There(s)
  /\ write.kind = "post" => Joins(write.payload, s)

CalmInv ==
  sole # NoOne =>
    /\ SoundSite(site) /\ Apt(request[sole], site)
    /\ panel[sole].asked = {} => panel[sole].pages = Listing(site)
    /\ request[sole] # NoRequest => panel[sole].asked = {}

LEMMA BeneathIsClosed ==
  ASSUME NEW top, NEW pages
  PROVE  top \subseteq Beneath(top, pages) /\ Closed(Beneath(top, pages), pages)
BY DEF Beneath, Closed

LEMMA ThereAreRecords ==
  ASSUME NEW s \in [PageIds -> PageRecords \cup {Gone, Unused}], NEW i \in PageIds
  PROVE  i \in There(s) <=> s[i] \in PageRecords
BY PageFacts DEF There

(* From the top all pages are found: those that are not hang on each other. *)
LEMMA SoundIsListed ==
  ASSUME NEW s \in [PageIds -> PageRecords \cup {Gone, Unused}], SoundSite(s)
  PROVE  There(s) \subseteq PageTree(Listing(s))
<1> DEFINE pages == Listing(s)
           tree == PageTree(pages)
           lost == There(s) \ tree
           roots == {p \in DOMAIN pages : pages[p].parent \notin DOMAIN pages}
<1>1. DOMAIN pages = There(s) /\ \A i \in There(s) : pages[i] = s[i] BY DEF Listing
<1>2. roots \subseteq tree /\ Closed(tree, pages) BY BeneathIsClosed DEF PageTree
<1> SUFFICES ASSUME lost # {} PROVE FALSE OBVIOUS
<1>3. lost \in SUBSET There(s) OBVIOUS
<1> HIDE DEF tree, pages
<1>4. PICK i \in lost : s[i].parent \notin lost BY <1>3, Zenon DEF SoundSite
<1>5. CASE s[i].parent \notin There(s) BY <1>1, <1>2, <1>4, <1>5
<1>6. CASE s[i].parent \in tree BY <1>1, <1>2, <1>4, <1>6 DEF Closed
<1> QED BY <1>4, <1>5, <1>6

LEMMA RevisedIsSound ==
  ASSUME NEW s \in [PageIds -> PageRecords \cup {Gone, Unused}], SoundSite(s),
         NEW id \in PageIds, NEW page \in PageRecords, Revises(page, id, s),
         NEW t, t = [s EXCEPT ![id] = [page EXCEPT !.version = @ + 1]]
  PROVE  SoundSite(t)
<1> DEFINE next == [page EXCEPT !.version = @ + 1]
<1>1. next \in PageRecords /\ next.parent = page.parent /\ next.route = page.route BY DEF PageRecords
<1>2. id \in There(s) BY DEF Revises
<1>3. t \in [PageIds -> PageRecords \cup {Gone, Unused}] /\ t[id] = next
      /\ \A i \in PageIds \ {id} : t[i] = s[i]
  BY <1>1
<1> HIDE DEF next
<1>4. There(t) = There(s)
  <2>1. \A i \in PageIds : i \in There(t) <=> i \in There(s) BY <1>1, <1>2, <1>3, ThereAreRecords
  <2> QED BY <2>1 DEF There
<1>5. \A i \in There(s) : t[i].route = s[i].route BY <1>1, <1>3 DEF Revises, There
<1>6. \A i \in PageIds : t[i] = Unused <=> s[i] = Unused
  BY <1>1, <1>2, <1>3, ThereAreRecords DEF There, IsPage
<1>7. \A i \in There(t) : t[i].parent \in PageIds => t[t[i].parent] # Unused
  <2>1. SUFFICES ASSUME NEW i \in There(s), t[i].parent \in PageIds PROVE s[t[i].parent] # Unused
    BY <1>4, <1>6
  <2>2. CASE t[i].parent = s[i].parent BY <2>1, <2>2 DEF SoundSite
  <2>3. CASE t[i].parent # s[i].parent
    <3>1. i = id BY <1>3, <2>3 DEF There
    <3>2. t[i].parent \in There(s) \cup {Root} BY <1>1, <1>3, <2>3, <3>1 DEF Revises
    <3> QED BY <2>1, <3>2, SitePanelsAssumption DEF There, IsPage
  <2> QED BY <2>2, <2>3
<1>8. ASSUME NEW ids \in SUBSET There(s), ids # {} PROVE \E i \in ids : t[i].parent \notin ids
  <2> SUFFICES ASSUME \A i \in ids : t[i].parent \in ids PROVE FALSE OBVIOUS
  <2>0. \A some \in SUBSET There(s) : some # {} => \E i \in some : s[i].parent \notin some
    BY Zenon DEF SoundSite
  <2>1. \A i \in ids \ {id} : t[i].parent = s[i].parent BY <1>3 DEF There
  <2>2. CASE id \notin ids \/ page.parent = s[id].parent
    <3>1. \A i \in ids : s[i].parent \in ids BY <1>1, <1>3, <2>1, <2>2
    <3> QED BY <1>8, <2>0, <3>1
  <2>3. CASE id \in ids /\ page.parent # s[id].parent
    <3> DEFINE low == SubtreeIds(id, Listing(s))
               rest == ids \ low
    <3>1. id \in low /\ Closed(low, Listing(s)) BY BeneathIsClosed DEF SubtreeIds
    <3>2. \A i \in There(s) : s[i].parent \in low => i \in low BY <3>1 DEF Closed, Listing
    <3>3. page.parent \notin low BY <2>3 DEF Revises
    <3> HIDE DEF low
    <3>4. page.parent \in rest BY <1>1, <1>3, <2>3, <3>3
    <3>5. \A i \in rest : s[i].parent \in rest BY <2>1, <3>1, <3>2
    <3>6. rest \in SUBSET There(s) OBVIOUS
    <3> QED BY <2>0, <3>4, <3>5, <3>6
  <2> QED BY <2>2, <2>3
<1>9. \A i, j \in There(t) : i # j => t[i].route # t[j].route BY <1>4, <1>5 DEF SoundSite
<1>10. \A ids \in SUBSET There(t) : ids # {} => \E i \in ids : t[i].parent \notin ids BY <1>4, <1>8
<1> QED BY <1>7, <1>9, <1>10 DEF SoundSite

LEMMA DeletedIsSound ==
  ASSUME NEW s \in [PageIds -> PageRecords \cup {Gone, Unused}], SoundSite(s),
         NEW id \in PageIds, NEW t, t = [s EXCEPT ![id] = Gone]
  PROVE  SoundSite(t)
<1>1. There(t) \subseteq There(s) /\ \A i \in There(t) : t[i] = s[i] BY DEF There, IsPage
<1>2. \A i \in PageIds : s[i] # Unused => t[i] # Unused
  <2>1. Gone # Unused BY DEF Gone, Unused
  <2> QED BY <2>1
<1>3. \A i \in There(t) : t[i].parent \in PageIds => t[t[i].parent] # Unused
  <2>1. \A i \in There(s) : s[i].parent \in PageIds => s[s[i].parent] # Unused BY DEF SoundSite
  <2> QED BY <1>1, <1>2, <2>1
<1>4. \A ids \in SUBSET There(t) : ids # {} => \E i \in ids : t[i].parent \notin ids
  <2>1. SUFFICES ASSUME NEW ids \in SUBSET There(t), ids # {} PROVE \E i \in ids : t[i].parent \notin ids
    OBVIOUS
  <2>2. ids \in SUBSET There(s) BY <1>1
  <2>3. \A some \in SUBSET There(s) : some # {} => \E i \in some : s[i].parent \notin some
    BY Zenon DEF SoundSite
  <2>4. \E i \in ids : s[i].parent \notin ids BY <2>1, <2>2, <2>3
  <2>5. \A i \in ids : t[i] = s[i] BY <1>1
  <2> QED BY <2>4, <2>5, Zenon
<1>5. \A i, j \in There(t) : i # j => t[i].route # t[j].route
  <2>1. SUFFICES ASSUME NEW i \in There(t), NEW j \in There(t), i # j PROVE t[i].route # t[j].route
    OBVIOUS
  <2>2. i \in There(s) /\ j \in There(s) /\ t[i] = s[i] /\ t[j] = s[j] BY <1>1
  <2>3. s[i].route # s[j].route BY <2>1, <2>2 DEF SoundSite
  <2> QED BY <2>2, <2>3
<1> QED BY <1>3, <1>4, <1>5 DEF SoundSite

LEMMA JoinedIsSound ==
  ASSUME NEW s \in [PageIds -> PageRecords \cup {Gone, Unused}], SoundSite(s),
         NEW id \in PageIds, s[id] = Unused, NEW page \in PageRecords, Joins(page, s),
         NEW t, t = [s EXCEPT ![id] = page]
  PROVE  SoundSite(t)
<1>1. id \notin There(s) BY DEF There, IsPage
<1>2. t[id] = page /\ \A i \in There(s) : t[i] = s[i] BY <1>1 DEF There
<1>3. There(t) = There(s) \cup {id}
  <2>1. t \in [PageIds -> PageRecords \cup {Gone, Unused}] OBVIOUS
  <2>2. \A i \in PageIds : i \in There(t) <=> i \in There(s) \cup {id} BY <2>1, ThereAreRecords
  <2> QED BY <2>2 DEF There
<1>4. page.parent \in There(s) \cup {Root} BY DEF Joins
<1>5. \A i \in There(s) : s[i].parent # id BY DEF SoundSite
<1>6. \A i \in There(t) : t[i].parent \in PageIds => t[t[i].parent] # Unused
  <2>1. \A i \in PageIds : s[i] # Unused => t[i] # Unused OBVIOUS
  <2>2. page.parent \in PageIds => s[page.parent] # Unused
    BY <1>4, SitePanelsAssumption DEF There, IsPage
  <2> QED BY <1>2, <1>3, <2>1, <2>2 DEF SoundSite
<1>7. ASSUME NEW ids \in SUBSET There(t), ids # {} PROVE \E i \in ids : t[i].parent \notin ids
  <2> SUFFICES ASSUME \A i \in ids : t[i].parent \in ids PROVE FALSE OBVIOUS
  <2> DEFINE rest == ids \ {id}
  <2>1. rest \in SUBSET There(s) BY <1>3
  <2>2. \A i \in rest : s[i].parent \in rest BY <1>2, <1>5, <2>1
  <2>3. rest # {}
    <3>1. CASE id \in ids
      <4>1. page.parent \in ids BY <1>2, <3>1
      <4>2. page.parent # Root BY <1>3, <4>1, SitePanelsAssumption DEF There
      <4>3. page.parent # id BY <1>1, <1>4, <4>2
      <4> QED BY <4>1, <4>3
    <3>2. CASE id \notin ids BY <1>7, <3>2
    <3> QED BY <3>1, <3>2
  <2> HIDE DEF rest
  <2>4. \E i \in rest : s[i].parent \notin rest BY <2>1, <2>3 DEF SoundSite
  <2> QED BY <2>2, <2>4
<1>8. \A i, j \in There(t) : i # j => t[i].route # t[j].route BY <1>2, <1>3 DEF SoundSite, Joins
<1> QED BY <1>6, <1>7, <1>8 DEF SoundSite

LEMMA SoundInit == PanelInit => CalmInv
<1> SUFFICES ASSUME PanelInit, sole # NoOne PROVE CalmInv BY DEF CalmInv
<1>1. PanelTypeOK BY PanelInitTypes
<1>2. \A i \in There(site) : site[i].parent = Root BY DEF PanelInit, FirstPages, There, IsPage
<1>3. \A i, j \in There(site) : i # j => site[i].route # site[j].route
  BY DEF PanelInit, FirstPages, There
<1>4. Root \notin There(site) BY SitePanelsAssumption DEF There
<1>5. SoundSite(site) BY <1>2, <1>3, <1>4, SitePanelsAssumption DEF SoundSite
<1>6. sole \in Managers BY DEF PanelInit
<1>7. request[sole] = NoRequest /\ panel[sole].asked # {} BY <1>6 DEF PanelInit
<1> QED BY <1>5, <1>7 DEF CalmInv, Apt, NoRequest

(* What a manager who is alone sends is apt: the list is the site's.        *)
LEMMA SendIsApt ==
  ASSUME PanelTypeOK, CalmInv, sole # NoOne, PagesStep(sole),
         request'[sole] = NoRequest \/ panel[sole].asked = {},
         \/ \E id \in Rows(sole) :
              \/ Rename(sole, id) \/ RemovePage(sole, id)
              \/ \E parent \in (Rows(sole) \ {id}) \cup {Root} : MovePage(sole, id, parent)
         \/ \E route \in TypedRoutes, parent \in PageTree(panel[sole].pages) \cup {Root} :
              Create(sole, route, parent)
  PROVE  /\ request'[sole] # NoRequest /\ Apt(request'[sole], site) /\ panel[sole].asked = {}
         /\ UNCHANGED site /\ panel'[sole].asked = panel[sole].asked
         /\ panel'[sole].pages = panel[sole].pages
<1> DEFINE pages == panel[sole].pages
           Sent(write) == Send(sole, write) /\ Apt(write, site) /\ write.kind # "no"
<1>0. sole \in Managers /\ PagesTypeOK BY DEF PanelTypeOK
<1>1. panel[sole] \in PanelRecords /\ request[sole] \in Writes /\ DOMAIN request = Managers
      /\ DOMAIN panel = Managers
  BY <1>0 DEF PagesTypeOK
<1>2. ASSUME NEW write, Send(sole, write), write.kind # "no"
      PROVE  /\ request'[sole] = write /\ write # NoRequest /\ panel[sole].asked = {}
             /\ UNCHANGED site /\ panel'[sole].asked = panel[sole].asked /\ panel'[sole].pages = pages
  <2>1. request'[sole] = write /\ UNCHANGED site BY <1>0, <1>1, <1>2 DEF Send
  <2>2. write # NoRequest BY <1>2 DEF NoRequest
  <2> DEFINE busy == [panel[sole] EXCEPT !.busy = TRUE,
                        !.confirming = IF write.kind = "delete" THEN Root ELSE @]
  <2>3. panel' = [panel EXCEPT ![sole] = busy] BY <1>0, <1>1, <1>2 DEF Send, PanelRecords
  <2>4. busy.asked = panel[sole].asked /\ busy.pages = pages BY <1>1 DEF PanelRecords
  <2> HIDE DEF busy
  <2>5. panel'[sole].asked = panel[sole].asked /\ panel'[sole].pages = pages
    BY <1>0, <1>1, <2>3, <2>4
  <2>6. panel[sole].asked = {} BY <2>1, <2>2
  <2> QED BY <2>1, <2>2, <2>5, <2>6
<1>3. \E write : Send(sole, write) /\ write.kind # "no"
  <2> DEFINE check(id, page) == [kind |-> "check", page |-> id, payload |-> page]
             delete(id) == [kind |-> "delete", page |-> id]
             post(page) == [kind |-> "post", payload |-> page]
  <2>1. /\ \A id, page : check(id, page).kind = "check"
        /\ \A id : delete(id).kind = "delete" /\ \A page : post(page).kind = "post"
    OBVIOUS
  <2>2. \/ \E id, page : Send(sole, check(id, page))
        \/ \E id : Send(sole, delete(id)) \/ \E page : Send(sole, post(page))
    BY DEF Rename, RemovePage, MovePage, Create
  <2> HIDE DEF check, delete, post
  <2> QED BY <2>1, <2>2
<1>4. pages = Listing(site) BY <1>2, <1>3 DEF CalmInv
<1>5. DOMAIN pages = There(site) /\ \A i \in There(site) : pages[i] = site[i] /\ pages[i] \in PageRecords
  BY <1>0, <1>4, ThereAreRecords DEF Listing, PagesTypeOK, There
<1>6. Rows(sole) \subseteq There(site) /\ PageTree(pages) \subseteq There(site) BY <1>5, TreeIsListed DEF Rows
<1> HIDE DEF pages
<1>7. ASSUME NEW id \in Rows(sole), Rename(sole, id) PROVE \E write : Sent(write)
  <2> DEFINE page == [pages[id] EXCEPT !.title = 1 - @]
             write == [kind |-> "check", page |-> id, payload |-> page]
  <2>1. page.version = site[id].version /\ page.route = site[id].route /\ page.parent = site[id].parent
    BY <1>5, <1>6 DEF PageRecords
  <2>2. Send(sole, write) BY <1>7 DEF Rename, pages
  <2> HIDE DEF page
  <2>3. Apt(write, site) BY <1>6, <2>1 DEF Apt, Revises
  <2> QED BY <2>2, <2>3
<1>8. ASSUME NEW id \in Rows(sole), RemovePage(sole, id) PROVE \E write : Sent(write)
  <2> DEFINE write == [kind |-> "delete", page |-> id]
  <2>1. Apt(write, site) BY <1>6 DEF Apt
  <2>2. Send(sole, write) BY <1>8 DEF RemovePage
  <2> QED BY <2>1, <2>2
<1>9. ASSUME NEW id \in Rows(sole), NEW parent \in (Rows(sole) \ {id}) \cup {Root}, MovePage(sole, id, parent)
      PROVE \E write : Sent(write)
  <2> DEFINE page == [pages[id] EXCEPT !.parent = parent]
             write == [kind |-> "check", page |-> id, payload |-> page]
  <2>1. page.version = site[id].version /\ page.route = site[id].route /\ page.parent = parent
    BY <1>5, <1>6 DEF PageRecords
  <2>2. Send(sole, write) /\ parent \notin SubtreeIds(id, Listing(site)) BY <1>4, <1>9 DEF MovePage, pages
  <2> HIDE DEF page
  <2>3. Apt(write, site) BY <1>6, <2>1, <2>2 DEF Apt, Revises
  <2> QED BY <2>2, <2>3
<1>10. ASSUME NEW route \in TypedRoutes, NEW parent \in PageTree(pages) \cup {Root}, Create(sole, route, parent)
       PROVE \E write : Sent(write)
  <2> DEFINE page == Page("draft", Address[route], parent)
             write == [kind |-> "post", payload |-> page]
  <2>1. page.route = Address[route] /\ page.parent = parent BY DEF Page
  <2>2. Send(sole, write) /\ Free(sole, Address[route]) BY <1>10 DEF Create
  <2>3. \A i \in There(site) : site[i].route # Address[route] BY <1>5, <2>2 DEF Free, Listed, pages
  <2> HIDE DEF page
  <2>4. Apt(write, site) BY <1>6, <2>1, <2>3 DEF Apt, Joins
  <2> QED BY <2>2, <2>4
<1>11. PICK write : Sent(write) BY <1>7, <1>8, <1>9, <1>10 DEF pages
<1> QED BY <1>2, <1>11 DEF pages

LEMMA CalmStep ==
  ASSUME PanelTypeOK, CalmInv, PagesNext
  PROVE  CalmInv'
<1> SUFFICES ASSUME sole' # NoOne PROVE CalmInv' BY DEF CalmInv
<1>0. sole' = sole /\ sole # NoOne /\ sole \in Managers /\ PagesTypeOK
  BY BudgetStep DEF PanelTypeOK, PanelNext
<1>1. PagesStep(sole) /\ (request'[sole] = NoRequest \/ panel[sole].asked = {})
  BY <1>0 DEF PagesNext
<1>2. panel[sole] \in PanelRecords /\ request[sole] \in Writes /\ DOMAIN request = Managers
      /\ DOMAIN panel = Managers /\ site \in [PageIds -> PageRecords \cup {Gone, Unused}]
  BY <1>0 DEF PagesTypeOK
<1>3. SoundSite(site) /\ Apt(request[sole], site)
      /\ (panel[sole].asked = {} => panel[sole].pages = Listing(site))
      /\ (request[sole] # NoRequest => panel[sole].asked = {})
  BY <1>0 DEF CalmInv
<1>4. ~Fails BY <1>0 DEF Fails
<1> DEFINE Goal == /\ SoundSite(site') /\ Apt(request'[sole], site')
                   /\ (panel'[sole].asked = {} => panel'[sole].pages = Listing(site'))
                   /\ (request'[sole] # NoRequest => panel'[sole].asked = {})
<1> SUFFICES Goal BY <1>0 DEF CalmInv
<1>5. ASSUME NEW why \in panel[sole].asked, ListAnswered(sole, why) PROVE Goal
  <2>1. request[sole] = NoRequest /\ request' = request /\ site' = site
    BY <1>3, <1>5 DEF ListAnswered
  <2>2. panel'[sole].pages = Listing(site)
    BY <1>0, <1>2, <1>4, <1>5 DEF ListAnswered, Listing, There, PanelRecords
  <2> QED BY <1>3, <2>1, <2>2
<1>6. CASE \/ \E id \in Rows(sole) :
                \/ Rename(sole, id) \/ RemovePage(sole, id)
                \/ \E parent \in (Rows(sole) \ {id}) \cup {Root} : MovePage(sole, id, parent)
           \/ \E route \in TypedRoutes, parent \in PageTree(panel[sole].pages) \cup {Root} :
                Create(sole, route, parent)
  BY <1>0, <1>1, <1>3, <1>6, SendIsApt
<1>7. CASE CancelRemove(sole) \/ \E id \in Rows(sole) : AskRemove(sole, id)
  <2>1. PICK id : panel' = [panel EXCEPT ![sole].confirming = id] /\ UNCHANGED <<site, request>>
    BY <1>7 DEF CancelRemove, AskRemove
  <2>2. panel'[sole].asked = panel[sole].asked /\ panel'[sole].pages = panel[sole].pages
    BY <1>0, <1>2, <2>1 DEF PanelRecords
  <2> QED BY <1>3, <2>1, <2>2
<1>8. ASSUME Finish(sole, TRUE), SoundSite(site') PROVE Goal
  <2>1. request'[sole] = NoRequest BY <1>0, <1>2, <1>8 DEF Finish
  <2>2. panel'[sole].asked # {} BY <1>0, <1>2, <1>8 DEF Finish, PanelRecords
  <2> QED BY <1>8, <2>1, <2>2 DEF Apt, NoRequest
<1>9. CASE CheckAnswered(sole)
  <2>1. request[sole].page \in There(site) BY <1>3, <1>9 DEF CheckAnswered, Apt, Revises
  <2>2. site[request[sole].page] # Gone BY <2>1 DEF There, IsPage
  <2>3. site' = site BY <1>9 DEF CheckAnswered
  <2>4. CASE request' = [request EXCEPT ![sole].kind = "put"] /\ UNCHANGED panel
    <3>1. request[sole] \in [kind : {"check", "put"}, page : PageIds, payload : PageRecords]
      BY <1>2, <1>9, WriteKinds DEF CheckAnswered
    <3>2. request'[sole] = [request[sole] EXCEPT !.kind = "put"] BY <1>0, <1>2, <2>4
    <3>3. request'[sole].kind = "put" /\ request'[sole].page = request[sole].page
          /\ request'[sole].payload = request[sole].payload
      BY <3>1, <3>2
    <3>4. Apt(request'[sole], site) BY <1>3, <1>9, <3>3 DEF Apt, CheckAnswered
    <3>5. panel[sole].asked = {} BY <1>3, <1>9 DEF CheckAnswered, NoRequest
    <3> QED BY <1>3, <2>3, <2>4, <3>4, <3>5
  <2>5. CASE Finish(sole, TRUE) BY <1>3, <1>8, <2>3, <2>5
  <2> QED BY <1>4, <1>9, <2>2, <2>4, <2>5 DEF CheckAnswered
<1>10. CASE PutAnswered(sole)
  <2>1. request[sole].page \in PageIds /\ request[sole].payload \in PageRecords
    BY <1>2, <1>10, WriteKinds DEF PutAnswered
  <2>2. Revises(request[sole].payload, request[sole].page, site) BY <1>3, <1>10 DEF PutAnswered, Apt
  <2>3. site[request[sole].page] # Gone BY <2>2 DEF Revises, There, IsPage
  <2>4. Finish(sole, TRUE) BY <1>4, <1>10, <2>3 DEF PutAnswered
  <2>5. \/ site' = site
        \/ site' = [site EXCEPT ![request[sole].page] = [request[sole].payload EXCEPT !.version = @ + 1]]
    BY <1>10 DEF PutAnswered
  <2>6. SoundSite(site') BY <1>2, <1>3, <2>1, <2>2, <2>5, RevisedIsSound
  <2> QED BY <1>8, <2>4, <2>6
<1>11. CASE DeleteAnswered(sole)
  <2>1. request[sole].page \in There(site) BY <1>3, <1>11 DEF DeleteAnswered, Apt
  <2>2. site[request[sole].page] # Gone /\ request[sole].page \in PageIds BY <2>1 DEF There, IsPage
  <2>3. site' = [site EXCEPT ![request[sole].page] = Gone] /\ Finish(sole, site[request[sole].page] # Gone)
    BY <1>4, <1>11 DEF DeleteAnswered
  <2>4. (site[request[sole].page] # Gone) = TRUE BY <2>2
  <2>5. Finish(sole, TRUE) BY <2>3, <2>4
  <2>6. SoundSite(site') BY <1>2, <1>3, <2>2, <2>3, DeletedIsSound
  <2> QED BY <1>8, <2>5, <2>6
<1>12. CASE CreateAnswered(sole)
  <2>1. request[sole].payload \in PageRecords BY <1>2, <1>12, WriteKinds DEF CreateAnswered
  <2>2. Joins(request[sole].payload, site) BY <1>3, <1>12 DEF CreateAnswered, Apt
  <2>3. Finish(sole, TRUE) BY <1>4, <1>12 DEF CreateAnswered
  <2>4. PICK id \in {i \in PageIds : site[i] = Unused} : site' = [site EXCEPT ![id] = request[sole].payload]
    BY <1>4, <1>12 DEF CreateAnswered
  <2>5. SoundSite(site') BY <1>2, <1>3, <2>1, <2>2, <2>4, JoinedIsSound
  <2> QED BY <1>8, <2>3, <2>5
<1> QED BY <1>1, <1>5, <1>6, <1>7, <1>9, <1>10, <1>11, <1>12 DEF PagesStep

LEMMA CalmInvariant == PanelSpec => []CalmInv
<1>1. PanelTypeOK /\ CalmInv /\ [PanelNext]_panelVars => CalmInv'
  <2> SUFFICES ASSUME PanelTypeOK, CalmInv, [PanelNext]_panelVars PROVE CalmInv' OBVIOUS
  <2>1. CASE PagesNext BY <2>1, CalmStep
  <2>2. CASE MenuNext
    <3>1. UNCHANGED <<site, panel, request, sole>>
      BY <2>2 DEF MenuNext, MenuLoaded, SaveMenu, MenuChecked, MenuPut, AddItem, RaiseItem, RemoveItem,
         RenameItem, Apply, pagesVars
    <3> QED BY <3>1 DEF CalmInv
  <2>3. CASE UNCHANGED panelVars BY <2>3 DEF CalmInv, panelVars
  <2> QED BY <2>1, <2>2, <2>3 DEF PanelNext
<1>2. PanelInv => PanelTypeOK BY DEF PanelInv
<1> QED BY <1>1, <1>2, SoundInit, PanelInvariant, PTL DEF PanelSpec

(* Every page is found from the top and no two have one address, for any    *)
(* pages, while one manager changes them whose lists are answered.          *)
THEOREM PageTreeStaysSound == PanelSpec => []PageTreeIsSoundCalm
<1>1. PanelTypeOK /\ CalmInv => PageTreeIsSoundCalm
  <2> SUFFICES ASSUME PanelTypeOK, CalmInv, sole # NoOne PROVE EveryPageIsListed /\ RoutesAreUnique
    BY DEF PageTreeIsSoundCalm
  <2>1. site \in [PageIds -> PageRecords \cup {Gone, Unused}] /\ SoundSite(site)
    BY DEF PanelTypeOK, PagesTypeOK, CalmInv
  <2>2. Pages = There(site) /\ [p \in Pages |-> site[p]] = Listing(site) BY DEF Pages, There, Listing
  <2>3. EveryPageIsListed BY <2>1, <2>2, SoundIsListed DEF EveryPageIsListed
  <2>4. RoutesAreUnique BY <2>1, <2>2 DEF RoutesAreUnique, SoundSite
  <2> QED BY <2>3, <2>4
<1>2. PanelInv => PanelTypeOK BY DEF PanelInv
<1> QED BY <1>1, <1>2, CalmInvariant, PanelInvariant, PTL

(* Every variable of the two panels keeps its type.                        *)
THEOREM PanelTypeCorrect == PanelSpec => []PanelTypeOK
<1>1. PanelInv => PanelTypeOK BY DEF PanelInv
<1> QED BY <1>1, PanelInvariant, PTL

LEMMA CleanMenusAreStored == PanelSpec => []CleanMenuIsStored
<1>1. PanelInv => CleanMenuIsStored BY DEF PanelInv, MenuInv, CleanList, CleanMenuIsStored
<1> QED BY <1>1, PanelInvariant, PTL

(* What edit mode does not call dirty is what the store has, for any        *)
(* authors and managers, pages and menus, edits and writes.                *)
THEOREM CleanWorkStaysStored == EditModeSpec => []CleanWorkIsStored
BY CleanPagesAreStored, CleanMenusAreStored, PTL DEF EditModeSpec, CleanWorkIsStored
=============================================================================
