------------------------------- MODULE GridModel -------------------------------
(***************************************************************************)
(* The widget grid of a page as the editor changes it: where a widget may   *)
(* lie, what an edit returns, and what is stored and read back             *)
(* (editor/geometry.js, editor/gridModel.js, editor/pageBody.js).           *)
(***************************************************************************)
EXTENDS Integers, Sequences, SequencesExt, FiniteSetsExt

CONSTANTS
  GridColumns,  \* GRID_COLUMNS
  Keys,         \* widget kinds
  Size          \* [Keys -> [w, h]]: defaultSizeFor(), as wide as the author wrote it

ASSUME GridModelAssumption ==
  /\ GridColumns \in Nat \ {0}
  /\ Size \in [Keys -> [w : Nat \ {0}, h : Nat \ {0}]]

AtLeast(a, b) == IF a >= b THEN a ELSE b
AtMost(a, b) == IF a <= b THEN a ELSE b

(* cellOf(): the cell a widget is drawn in, inside the columns.            *)
CellOf(c) ==
  LET x == AtLeast(0, AtMost(GridColumns - 1, c.x)) IN
  [x |-> x, y |-> AtLeast(0, c.y),
   w |-> AtLeast(1, AtMost(GridColumns - x, c.w)), h |-> AtLeast(1, c.h)]

(* A widget has a kind and a number of its own among the widgets of it.     *)
Widgets == [id : Keys \X (Nat \ {0}), cell : [x : Int, y : Int, w : Int, h : Int], prop : Nat]

Ids(widgets) == {widgets[i].id : i \in DOMAIN widgets}

(* Mutant: the number after as many as there are of the kind.              *)
NextWidgetIdCounting(widgets, key) ==
  <<key, Cardinality({id \in Ids(widgets) : id[1] = key}) + 1>>

(* The first number of the kind that no widget has.                        *)
NextWidgetId(widgets, key) ==
  LET n == CHOOSE n \in 1..Len(widgets) + 1 :
             /\ <<key, n>> \notin Ids(widgets)
             /\ \A m \in 1..n - 1 : <<key, m>> \in Ids(widgets)
  IN <<key, n>>

Bottom(widgets) ==
  Max({0} \cup {widgets[i].cell.y + widgets[i].cell.h : i \in DOMAIN widgets})

New(widgets, key, cell) ==
  Append(widgets, [id |-> NextWidgetId(widgets, key), cell |-> cell, prop |-> 0])

AddWidget(widgets, key) ==
  New(widgets, key, [x |-> 0, y |-> Bottom(widgets),
                     w |-> AtMost(Size[key].w, GridColumns), h |-> Size[key].h])

(* addWidgetAt() a drop: the whole widget stays inside the columns.        *)
AddWidgetAt(widgets, key, x, y) ==
  LET width == AtMost(Size[key].w, GridColumns) IN
  New(widgets, key, [x |-> AtMost(AtLeast(x, 0), GridColumns - width), y |-> AtLeast(y, 0),
                     w |-> width, h |-> Size[key].h])

RemoveWidget(widgets, id) ==
  LET left[n \in 0..Len(widgets)] ==
        IF n = 0 THEN <<>>
        ELSE IF widgets[n].id = id THEN left[n - 1]
        ELSE Append(left[n - 1], widgets[n])
  IN left[Len(widgets)]

With(widgets, id, Change(_)) ==
  [i \in DOMAIN widgets |-> IF widgets[i].id = id THEN Change(widgets[i]) ELSE widgets[i]]

(* applyLayout() with one moved widget; nothing changes for one not there.  *)
ApplyLayout(widgets, id, x, y) ==
  With(widgets, id, LAMBDA w : [w EXCEPT !.cell.x = x, !.cell.y = y])

SetWidgetProp(widgets, id, value) ==
  With(widgets, id, LAMBDA w : [w EXCEPT !.prop = value])

(* storedWidget() writes, and normaliseWidgets() reads, the cell drawn.     *)
Stored(widgets) == [i \in DOMAIN widgets |-> [widgets[i] EXCEPT !.cell = CellOf(@)]]
Normalised(widgets) == [i \in DOMAIN widgets |-> [widgets[i] EXCEPT !.cell = CellOf(@)]]

(***************************************************************************)
(* A body: its kind, the widgets of the main area, and those of the other   *)
(* areas, which the editor never shows.  A page: its published body, and    *)
(* its draft or NoBody.                                                     *)
(***************************************************************************)
NoBody == [kind |-> "none", main |-> <<>>, kept |-> {}]
SourceBodyOf(page) == IF page.draft # NoBody THEN page.draft ELSE page.body

ReadBody(page) ==
  LET body == SourceBodyOf(page) IN
  IF body.kind = "markdown" THEN [kind |-> "markdown", widgets |-> <<>>]
  ELSE [kind |-> "grid", widgets |-> Normalised(body.main)]

(* bodyFor(): the text alone, or the main area as edited, beside everything *)
(* else the source body holds.                                             *)
BodyFor(page, kind, widgets) ==
  IF kind = "markdown" THEN [kind |-> "markdown", main |-> <<>>, kept |-> {}]
  ELSE [kind |-> "grid", main |-> Stored(widgets), kept |-> SourceBodyOf(page).kept]

(* Mutant: publishing leaves the draft where it is.                        *)
PublishPayloadKeepingDraft(page, body) == [page EXCEPT !.body = body]

DraftPayload(page, body) == [page EXCEPT !.draft = body]
PublishPayload(page, body) == [page EXCEPT !.body = body, !.draft = NoBody]
DiscardPayload(page) == [page EXCEPT !.draft = NoBody]
=============================================================================
