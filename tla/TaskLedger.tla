----------------------------- MODULE TaskLedger -----------------------------
(***************************************************************************)
(* The rows of openregister's delivery ledger a task delivery run meets,   *)
(* and the bounds of the model.                                            *)
(***************************************************************************)
EXTENDS Integers, FiniteSets

CONSTANTS
  Row,         \* ledger rows
  None,        \* no row, and no push
  BatchLimit,  \* PortalTaskDeliveryJob::BATCH_LIMIT
  MaxTrouble   \* bound: deaths, blind reads and refused ledger writes

ASSUME TaskDeliveryConstants ==
  /\ None \notin Row
  /\ BatchLimit \in Nat \ {0}
  /\ MaxTrouble \in Nat
=============================================================================
