------------------------------- MODULE Outbox -------------------------------
(***************************************************************************)
(* What a delivery job promises about the items of its queue.  An item     *)
(* that was accepted is worked on while it waits, possibly more than once. *)
(* It is called delivered only after work was done for it, it may be given *)
(* up, and it never leaves an end state.  Settles says that an item does   *)
(* not wait for ever; each job says for which of its items.                *)
(***************************************************************************)
EXTENDS Naturals

CONSTANT Item

VARIABLES
  status,  \* "none", "waiting", "delivered" or "failed"
  done     \* how often the work of the item was done

vars == <<status, done>>

Init ==
  /\ status = [i \in Item |-> "none"]
  /\ done = [i \in Item |-> 0]

Move(i, from, to) ==
  /\ status[i] = from
  /\ status' = [status EXCEPT ![i] = to]
  /\ UNCHANGED done

Accept(i) == Move(i, "none", "waiting")

Work(i) ==
  /\ status[i] = "waiting"
  /\ done' = [done EXCEPT ![i] = @ + 1]
  /\ UNCHANGED status

Deliver(i) == done[i] > 0 /\ Move(i, "waiting", "delivered")

GiveUp(i) == Move(i, "waiting", "failed")

Next == \E i \in Item : Accept(i) \/ Work(i) \/ Deliver(i) \/ GiveUp(i)

SafetySpec == Init /\ [][Next]_vars

Settles(i) == WF_vars(Deliver(i) \/ GiveUp(i))
=============================================================================
