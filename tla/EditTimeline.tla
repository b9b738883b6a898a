----------------------------- MODULE EditTimeline -----------------------------
(***************************************************************************)
(* What undo and redo promise an author: the canvases of this sitting lie   *)
(* on a line, the author stands at one of them, and a change drops what was *)
(* ahead.  Only Kept canvases behind the author are remembered.             *)
(***************************************************************************)
EXTENDS Integers, Sequences

CONSTANT Kept

VARIABLES line, at

vars == <<line, at>>

Until(i) == SubSeq(line, 1, i)
Latest(s) == IF Len(s) > Kept + 1 THEN Tail(s) ELSE s

Init == Len(line) = 1 /\ at = 1

(* A change: a new canvas ahead, or another canvas in the place of this one. *)
Change == \E canvas \in {line'[at']} :
  /\ line' = Latest(Append(Until(at), canvas))
  /\ at' = Len(line')

Amend == \E canvas \in {line'[at']} :
  /\ at > 1
  /\ line' = Append(Until(at - 1), canvas)
  /\ UNCHANGED at

Back == at > 1 /\ at' = at - 1 /\ UNCHANGED line
Forward == at < Len(line) /\ at' = at + 1 /\ UNCHANGED line
Restart == Len(line') = 1 /\ at' = 1

Next == Change \/ Amend \/ Back \/ Forward \/ Restart

Spec == Init /\ [][Next]_vars
=============================================================================
