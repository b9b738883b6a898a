------------------------------ MODULE EditHistory ------------------------------
(***************************************************************************)
(* The undo and redo stacks of the page editor (editor/editHistory.js): a   *)
(* history is what came before the canvas, what was undone, last first, and *)
(* the key of the last recorded change.                                    *)
(***************************************************************************)
EXTENDS Integers, Sequences

CONSTANT Limit  \* HISTORY_LIMIT: the steps kept

ASSUME EditHistoryAssumption == Limit \in Nat \ {0}

NoKey == "no key"
NoHistory == [past |-> <<>>, future |-> <<>>, lastKey |-> NoKey]

CanUndo(h) == h.past # <<>>
CanRedo(h) == h.future # <<>>

Top(s) == s[Len(s)]
Pop(s) == SubSeq(s, 1, Len(s) - 1)
Newest(s) == IF Len(s) > Limit THEN SubSeq(s, Len(s) - Limit + 1, Len(s)) ELSE s

(* A change under the key of the change before it is part of that step.    *)
Coalesces(h, key) == key # NoKey /\ key = h.lastKey /\ h.past # <<>>

(* Mutant: a change keeps what was undone before it.                       *)
RecordKeepingFuture(h, snapshot, key) ==
  IF Coalesces(h, key) THEN h
  ELSE [h EXCEPT !.past = Newest(Append(@, snapshot)), !.lastKey = key]

Record(h, snapshot, key) ==
  IF Coalesces(h, key) THEN [h EXCEPT !.future = <<>>]
  ELSE [past |-> Newest(Append(h.past, snapshot)), future |-> <<>>, lastKey |-> key]

(* undo() and redo() hand back the top of one stack and move the canvas to  *)
(* the other.                                                              *)
Undone(h, canvas) ==
  [past |-> Pop(h.past), future |-> Append(h.future, canvas), lastKey |-> NoKey]
Redone(h, canvas) ==
  [past |-> Append(h.past, canvas), future |-> Pop(h.future), lastKey |-> NoKey]
=============================================================================
