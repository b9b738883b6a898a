---------------------------- MODULE TaskDelivery ----------------------------
(***************************************************************************)
(* PortalTaskDeliveryJob: every few minutes it takes pending rows from     *)
(* openregister's delivery ledger, writes a message into the resident's    *)
(* inbox or sends a mail, and settles the row.  The worker may die between *)
(* any two steps, a read may come back empty because it failed, and a      *)
(* write to the ledger may be refused.                                     *)
(*                                                                         *)
(* The scheduler reserves the job's one row, so one worker runs it.  A     *)
(* party, a kind or a channel the job does not know is one channel here,   *)
(* "unusable": each fails the row before anything is sent.  A row that is  *)
(* no object is "opaque".  A row without a readable uuid is anonymous: the *)
(* job works on it and can never say what became of it.                    *)
(***************************************************************************)
EXTENDS TaskLedger

VARIABLES
  ledger,    \* per row: "none", "pending", "delivered", "failed"
  channel,   \* fixed at the start: per row, where it is to go
  anonymous, \* fixed at the start: the rows without a uuid
  told,      \* per row: inbox messages that carry its uuid, or mails sent
  batch,     \* the rows this run has left
  worker,    \* what the worker is doing, and whether it sent for this row
  setbacks,  \* troubles so far
  blind,     \* history, per row: probes that saw nothing because they failed
  cut        \* history, per row: runs that sent and left it pending

taskVars == <<ledger, channel, anonymous, told, batch, worker, setbacks, blind, cut>>

Channel == {"portal-inbox", "mail", "unusable", "opaque"}
LedgerStatus == {"none", "pending", "delivered", "failed"}
TaskPhase == {"idle", "next", "probe", "write", "mail", "settle", "fail"}
NoTask == [phase |-> "idle", row |-> None, sent |-> FALSE]
TaskJob == [phase : TaskPhase, row : Row \cup {None}, sent : BOOLEAN]

TaskTypeOK ==
  /\ ledger \in [Row -> LedgerStatus]
  /\ channel \in [Row -> Channel]
  /\ anonymous \subseteq Row
  /\ told \in [Row -> Nat]
  /\ batch \subseteq Row
  /\ worker \in TaskJob
  /\ setbacks \in 0..MaxTrouble
  /\ blind \in [Row -> Nat]
  /\ cut \in [Row -> Nat]

TaskInit ==
  /\ ledger = [r \in Row |-> "none"]
  /\ channel \in [Row -> Channel]
  /\ anonymous \in SUBSET Row
  /\ told = [r \in Row |-> 0]
  /\ batch = {}
  /\ worker = NoTask
  /\ setbacks = 0
  /\ blind = [r \in Row |-> 0]
  /\ cut = [r \in Row |-> 0]

(* What no run settles.                                                    *)
StuckRows == anonymous \cup {r \in Row : channel[r] = "opaque"}

PendingRows == {r \in Row : ledger[r] = "pending"}
RaiseTask(f, r, n) == [f EXCEPT ![r] = @ + n]
Setback == setbacks < MaxTrouble /\ setbacks' = setbacks + 1
TaskAt(phase, r) == worker.phase = phase /\ worker.row = r
TaskGo(phase, r, s) == worker' = [phase |-> phase, row |-> r, sent |-> s]

(* The row stays pending; if this run sent for it, the next run will not   *)
(* know.                                                                   *)
LeavePending(r) == cut' = IF worker.sent THEN RaiseTask(cut, r, 1) ELSE cut

(* Without a uuid there is no row to write to.                             *)
ComesBack(r) ==
  /\ r \in anonymous
  /\ TaskGo("next", None, FALSE)
  /\ LeavePending(r)
  /\ UNCHANGED <<ledger, setbacks>>

-----------------------------------------------------------------------------

(* The workflow engine records that a party must be told something.        *)
Enqueue(r) ==
  /\ ledger[r] = "none"
  /\ ledger' = [ledger EXCEPT ![r] = "pending"]
  /\ UNCHANGED <<channel, anonymous, told, batch, worker, setbacks, blind, cut>>

(* pending(BATCH_LIMIT): some of the pending rows.  A ledger that is away  *)
(* or refuses the read ends the run before it began.                       *)
TaskRun ==
  /\ worker = NoTask
  /\ \E rows \in SUBSET PendingRows :
       /\ rows # {}
       /\ Cardinality(rows) <= BatchLimit
       /\ rows # PendingRows => Cardinality(rows) = BatchLimit
       /\ batch' = rows
  /\ TaskGo("next", None, FALSE)
  /\ UNCHANGED <<ledger, channel, anonymous, told, setbacks, blind, cut>>

(* Mutant: a row the job does not know is passed over, not failed.         *)
TakeRowSkipping(r) ==
  /\ TaskAt("next", None)
  /\ r \in batch
  /\ batch' = batch \ {r}
  /\ CASE channel[r] = "portal-inbox" -> TaskGo("probe", r, FALSE)
       [] channel[r] = "mail" -> TaskGo("mail", r, FALSE)
       [] OTHER -> UNCHANGED worker
  /\ UNCHANGED <<ledger, channel, anonymous, told, setbacks, blind, cut>>

TakeRow(r) ==
  /\ TaskAt("next", None)
  /\ r \in batch
  /\ batch' = batch \ {r}
  /\ CASE channel[r] = "portal-inbox" -> TaskGo("probe", r, FALSE)
       [] channel[r] = "mail" -> TaskGo("mail", r, FALSE)
       [] channel[r] = "unusable" -> TaskGo("fail", r, FALSE)
       [] channel[r] = "opaque" -> UNCHANGED worker
  /\ UNCHANGED <<ledger, channel, anonymous, told, setbacks, blind, cut>>

EndTaskRun ==
  /\ TaskAt("next", None)
  /\ batch = {}
  /\ worker' = NoTask
  /\ UNCHANGED <<ledger, channel, anonymous, told, batch, setbacks, blind, cut>>

(* Mutant: no look for a message of an earlier run.                        *)
ProbeNever(r) ==
  /\ TaskAt("probe", r)
  /\ TaskGo("write", r, FALSE)
  /\ UNCHANGED <<ledger, channel, anonymous, told, batch, setbacks, blind, cut>>

(* The reader answers a failed read as an empty collection, so the probe   *)
(* may miss a message that is there.  One that asks for no uuid may find   *)
(* any message, or none.                                                   *)
Probe(r) ==
  /\ TaskAt("probe", r)
  /\ \/ /\ told[r] > 0 \/ r \in anonymous
        /\ TaskGo("settle", r, FALSE)
        /\ UNCHANGED <<setbacks, blind>>
     \/ told[r] = 0 /\ TaskGo("write", r, FALSE) /\ UNCHANGED <<setbacks, blind>>
     \/ /\ told[r] > 0
        /\ IF r \in anonymous THEN UNCHANGED setbacks ELSE Setback
        /\ blind' = RaiseTask(blind, r, 1)
        /\ TaskGo("write", r, FALSE)
  /\ UNCHANGED <<ledger, channel, anonymous, told, batch, cut>>

(* A write that throws may have stored the message all the same.           *)
WriteMessage(r) ==
  /\ TaskAt("write", r)
  /\ \/ told' = RaiseTask(told, r, 1) /\ TaskGo("settle", r, TRUE)
     \/ \E n \in {0, 1} : told' = RaiseTask(told, r, n) /\ TaskGo("fail", r, n = 1)
  /\ UNCHANGED <<ledger, channel, anonymous, batch, setbacks, blind, cut>>

(* An account that is missing, cannot be read or has no valid address, and *)
(* a mailer that throws or names failed recipients, fail the row; the last *)
(* two may come after the mail left.                                       *)
SendMail(r) ==
  /\ TaskAt("mail", r)
  /\ \/ told' = RaiseTask(told, r, 1) /\ TaskGo("settle", r, TRUE)
     \/ \E n \in {0, 1} : told' = RaiseTask(told, r, n) /\ TaskGo("fail", r, n = 1)
  /\ UNCHANGED <<ledger, channel, anonymous, batch, setbacks, blind, cut>>

(* markDelivered; when it throws the row is marked failed instead.         *)
SettleRow(r) ==
  /\ TaskAt("settle", r)
  /\ \/ /\ r \notin anonymous
        /\ ledger' = [ledger EXCEPT ![r] = "delivered"]
        /\ TaskGo("next", None, FALSE)
        /\ UNCHANGED <<setbacks, cut>>
     \/ /\ r \notin anonymous
        /\ Setback
        /\ TaskGo("fail", r, worker.sent)
        /\ UNCHANGED <<ledger, cut>>
     \/ ComesBack(r)
  /\ UNCHANGED <<channel, anonymous, told, batch, blind>>

(* markFailed; when that throws too, the row stays pending.                *)
FailRow(r) ==
  /\ TaskAt("fail", r)
  /\ \/ /\ r \notin anonymous
        /\ ledger' = [ledger EXCEPT ![r] = "failed"]
        /\ TaskGo("next", None, FALSE)
        /\ UNCHANGED <<setbacks, cut>>
     \/ /\ r \notin anonymous
        /\ Setback
        /\ TaskGo("next", None, FALSE)
        /\ LeavePending(r)
        /\ UNCHANGED ledger
     \/ ComesBack(r)
  /\ UNCHANGED <<channel, anonymous, told, batch, blind>>

(* The worker dies; the scheduler runs the job again later.                *)
WorkerDies ==
  /\ worker.phase # "idle"
  /\ Setback
  /\ worker' = NoTask
  /\ batch' = {}
  /\ IF worker.row = None THEN UNCHANGED cut ELSE LeavePending(worker.row)
  /\ UNCHANGED <<ledger, channel, anonymous, told, blind>>

HandleRow(r) == TakeRow(r) \/ Probe(r) \/ WriteMessage(r) \/ SendMail(r) \/ SettleRow(r) \/ FailRow(r)

TaskStep == TaskRun \/ EndTaskRun \/ \E r \in Row : HandleRow(r)

TaskNext == (\E r \in Row : Enqueue(r)) \/ TaskStep \/ WorkerDies

TaskSafetySpec == TaskInit /\ [][TaskNext]_taskVars

(* The scheduler starts the job again and again, and a worker that is not  *)
(* killed goes on.                                                         *)
TaskFairness == WF_taskVars(TaskStep)

TaskSpec == TaskSafetySpec /\ TaskFairness

-----------------------------------------------------------------------------

(* The job's header: "healed by finding that message and settling, never   *)
(* by writing a second".  As the code is, a resident gets something twice  *)
(* only for a run that sent and then left the row pending, and a message   *)
(* twice only if moreover a probe found nothing; for a row with a uuid     *)
(* each of these takes a trouble (run, 247-291; deliverInbox, 307-343).    *)
RepeatsBounded ==
  \A r \in Row :
    /\ told[r] <= 1 + cut[r]
    /\ channel[r] = "portal-inbox" => told[r] <= 1 + blind[r]
    /\ r \notin anonymous => cut[r] <= setbacks /\ blind[r] <= setbacks

(* Header of the job: every row settles as delivered or failed.            *)
TaskPromise == INSTANCE Outbox WITH
  Item <- Row,
  status <- [r \in Row |-> IF ledger[r] = "pending" THEN "waiting" ELSE ledger[r]],
  done <- told

(* The job implements the promise of an outbox, its safety and, as long as *)
(* the rows it cannot settle do not fill a batch, that no other row stays  *)
(* pending for ever (run, 225-232; settleRow, 247-291).                    *)
TasksAreSettled ==
  /\ TaskPromise!SafetySpec
  /\ \A r \in Row :
       r \notin StuckRows /\ Cardinality(StuckRows) < BatchLimit => TaskPromise!Settles(r)
=============================================================================
