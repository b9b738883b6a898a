----------------------------- MODULE Deliveries -----------------------------
(***************************************************************************)
(* The three background jobs that deliver what was queued.  They share no  *)
(* state; what they promise is the same.                                   *)
(***************************************************************************)
EXTENDS TaskDelivery, IntakeDelivery, QuietPush

(* Each job on its own, beside the others.                                 *)
DeliveriesSafetySpec == TaskSafetySpec /\ IntakeSafetySpec /\ PushSafetySpec

(* What is done twice needs the trouble that explains it, or a row that    *)
(* cannot be written to.  A resident is told again only for runs that were *)
(* cut off, and gets a message again only if a probe failed too            *)
(* (settleRow, deliverInbox); a second case of one submission needs a run  *)
(* that could not say it made the first (PortalIntakeDeliveryJob,          *)
(* 111-154), a second push one that could not mark the first               *)
(* (PendingPushService, 187-221).                                          *)
RepeatsNeedTrouble == RepeatsBounded /\ CasesBounded /\ PushesBounded

(* Each of the three jobs implements Outbox: nothing is called delivered   *)
(* that was not, what is settled stays settled, and what can be settled    *)
(* does not wait for ever, unless the rows that cannot fill whole batches  *)
(* (PendingPushService, 117-221; PortalTaskDeliveryJob, 211-291;           *)
(* PortalIntakeDeliveryJob, 95-99).                                        *)
EverythingIsSettled == PushesAreSettled /\ TasksAreSettled /\ SubmissionsAreSettled
=============================================================================
