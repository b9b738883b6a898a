--------------------------- MODULE BackgroundProofs ---------------------------
(***************************************************************************)
(* What the background jobs do for any rows, submissions, pushes and rules, *)
(* any limit and any number of troubles.                                   *)
(*                                                                         *)
(* TaskDelivery, IntakeDelivery and QuietPush each implement Outbox, and   *)
(* what is done twice is bounded.  RepeatsBounded is not inductive:        *)
(* whether a row may be sent for again depends on what the worker knows of *)
(* it.  WorkerInv says what each phase knows, CountInv that a pending row  *)
(* was sent for once per run that was cut off, plus once if this run sent, *)
(* TroubleInv that only a trouble cuts a run off or blinds a probe, unless *)
(* the row has no uuid.  ClerkInv, MadeInv and MishapInv say the same of   *)
(* the intake, SaveInv and PushedInv of the pushes, where CallerInv        *)
(* carries what a request met from its first look at the quiet hours to    *)
(* its second.                                                             *)
(*                                                                         *)
(* Of the notification e-mails: the alternative-contact flag has a cause,   *)
(* however jobs overlap, fail or die, as no row and no count a worker has   *)
(* read is above the failures there were.                                  *)
(***************************************************************************)
EXTENDS NotificationDispatch, Deliveries, TLAPS

WorkerInv ==
  /\ worker.phase \in {"idle", "next"} <=> worker.row = None
  /\ worker.row = None => ~worker.sent
  /\ batch \subseteq PendingRows
  /\ worker.row # None => ledger[worker.row] = "pending" /\ worker.row \notin batch
  /\ worker.phase \in {"probe", "write"} => channel[worker.row] = "portal-inbox"
  /\ worker.phase \in {"probe", "write", "mail"} => ~worker.sent
  /\ worker.phase = "write" => told[worker.row] <= blind[worker.row]
  /\ worker.phase = "mail" => channel[worker.row] = "mail"
  /\ worker.phase = "settle" => told[worker.row] > 0 \/ worker.row \in anonymous

ThisRun(r) == IF worker.row = r /\ worker.sent THEN 1 ELSE 0

CountInv ==
  \A r \in Row :
    /\ ledger[r] \in {"none", "pending"} => told[r] = cut[r] + ThisRun(r)
    /\ told[r] <= 1 + cut[r]
    /\ channel[r] = "portal-inbox" => told[r] <= 1 + blind[r]

TaskInv == TaskTypeOK /\ WorkerInv /\ CountInv

(* A row that can be written to is cut off, or probed in vain, only by     *)
(* trouble.                                                                *)
TroubleInv == \A r \in Row : r \notin anonymous => cut[r] <= setbacks /\ blind[r] <= setbacks

-----------------------------------------------------------------------------

(* One more trouble is still within the bound.                             *)
LEMMA SetbackTyped ==
  ASSUME TaskTypeOK, Setback
  PROVE  setbacks' \in 0..MaxTrouble
  BY TaskDeliveryConstants DEF TaskTypeOK, Setback

-----------------------------------------------------------------------------

LEMMA EnqueueKeeps ==
  ASSUME TaskInv, NEW r \in Row, Enqueue(r)
  PROVE  TaskInv'
<1>1. TaskTypeOK'
  BY TaskDeliveryConstants DEF TaskInv, TaskTypeOK, LedgerStatus, Enqueue
<1>2. WorkerInv'
  BY TaskDeliveryConstants DEF TaskInv, TaskTypeOK, WorkerInv, PendingRows, Enqueue
<1>3. CountInv'
  BY TaskDeliveryConstants DEF TaskInv, TaskTypeOK, WorkerInv, CountInv, ThisRun, Enqueue
<1> QED
  BY <1>1, <1>2, <1>3 DEF TaskInv

LEMMA TaskRunKeeps ==
  ASSUME TaskInv, TaskRun
  PROVE  TaskInv'
<1>1. TaskTypeOK'
  BY TaskDeliveryConstants DEF TaskInv, TaskTypeOK, TaskJob, TaskPhase, TaskGo, TaskAt, NoTask, PendingRows, TaskRun
<1>2. WorkerInv'
  BY TaskDeliveryConstants DEF TaskInv, TaskTypeOK, WorkerInv, TaskJob, TaskPhase, TaskGo, TaskAt, NoTask, PendingRows, TaskRun
<1>3. CountInv'
  BY TaskDeliveryConstants DEF TaskInv, TaskTypeOK, WorkerInv, CountInv, ThisRun, TaskGo, NoTask, TaskRun
<1> QED
  BY <1>1, <1>2, <1>3 DEF TaskInv

LEMMA EndTaskRunKeeps ==
  ASSUME TaskInv, EndTaskRun
  PROVE  TaskInv'
<1>1. TaskTypeOK'
  BY TaskDeliveryConstants DEF TaskInv, TaskTypeOK, TaskJob, TaskPhase, TaskGo, TaskAt, NoTask, EndTaskRun
<1>2. WorkerInv'
  BY TaskDeliveryConstants DEF TaskInv, TaskTypeOK, WorkerInv, TaskJob, TaskPhase, TaskGo, TaskAt, NoTask, PendingRows, EndTaskRun
<1>3. CountInv'
  BY TaskDeliveryConstants DEF TaskInv, TaskTypeOK, WorkerInv, CountInv, ThisRun, TaskAt, NoTask, EndTaskRun
<1> QED
  BY <1>1, <1>2, <1>3 DEF TaskInv

LEMMA TakeRowKeeps ==
  ASSUME TaskInv, NEW r \in Row, TakeRow(r)
  PROVE  TaskInv'
<1>1. /\ worker.phase = "next" /\ worker.row = None /\ ~worker.sent
      /\ r \in batch /\ r # None /\ ledger[r] = "pending" /\ batch' = batch \ {r}
      /\ UNCHANGED <<ledger, channel, anonymous, told, setbacks, blind, cut>>
  BY TaskDeliveryConstants DEF TaskInv, WorkerInv, PendingRows, TakeRow, TaskAt
<1>2. \/ channel[r] = "portal-inbox" /\ TaskGo("probe", r, FALSE)
      \/ channel[r] = "mail" /\ TaskGo("mail", r, FALSE)
      \/ TaskGo("fail", r, FALSE)
      \/ UNCHANGED worker
  <2>1. channel[r] \in Channel
    BY DEF TaskInv, TaskTypeOK
  <2> QED
    BY <2>1 DEF Channel, TakeRow
<1>3. TaskTypeOK'
  <2>1. \A p \in TaskPhase : [phase |-> p, row |-> r, sent |-> FALSE] \in TaskJob
    BY DEF TaskJob
  <2>2. {"probe", "mail", "fail"} \subseteq TaskPhase /\ worker \in TaskJob
    BY DEF TaskPhase, TaskInv, TaskTypeOK
  <2>3. worker' \in TaskJob
    BY <1>2, <2>1, <2>2 DEF TaskGo
  <2> QED
    BY <1>1, <2>3 DEF TaskInv, TaskTypeOK
<1>4. WorkerInv'
  BY <1>1, <1>2 DEF TaskInv, WorkerInv, PendingRows, TaskGo
<1>5. CountInv'
  BY <1>1, <1>2 DEF TaskInv, TaskTypeOK, CountInv, ThisRun, TaskGo
<1> QED
  BY <1>3, <1>4, <1>5 DEF TaskInv

LEMMA ProbeKeeps ==
  ASSUME TaskInv, NEW r \in Row, Probe(r)
  PROVE  TaskInv'
<1>1. TaskAt("probe", r) /\ r # None /\ channel[r] = "portal-inbox" /\ ~worker.sent
      /\ ledger[r] = "pending" /\ r \notin batch
  BY TaskDeliveryConstants DEF TaskInv, WorkerInv, Probe, TaskAt
<1>2. CASE (told[r] > 0 \/ r \in anonymous) /\ TaskGo("settle", r, FALSE) /\ UNCHANGED <<setbacks, blind>>
  <2>1. TaskTypeOK'
    BY <1>2 DEF TaskInv, TaskTypeOK, TaskJob, TaskPhase, TaskGo, Probe
  <2>2. WorkerInv'
    BY <1>1, <1>2 DEF TaskInv, WorkerInv, PendingRows, TaskGo, Probe
  <2>3. CountInv'
    BY <1>1, <1>2 DEF TaskInv, CountInv, ThisRun, TaskGo, TaskAt, Probe
  <2> QED
    BY <2>1, <2>2, <2>3 DEF TaskInv
<1>3. CASE told[r] = 0 /\ TaskGo("write", r, FALSE) /\ UNCHANGED <<setbacks, blind>>
  <2>1. TaskTypeOK'
    BY <1>3 DEF TaskInv, TaskTypeOK, TaskJob, TaskPhase, TaskGo, Probe
  <2>2. WorkerInv'
    BY <1>1, <1>3 DEF TaskInv, TaskTypeOK, WorkerInv, PendingRows, TaskGo, Probe
  <2>3. CountInv'
    BY <1>1, <1>3 DEF TaskInv, CountInv, ThisRun, TaskGo, TaskAt, Probe
  <2> QED
    BY <2>1, <2>2, <2>3 DEF TaskInv
<1>4. CASE /\ Setback \/ UNCHANGED setbacks
           /\ blind' = RaiseTask(blind, r, 1)
           /\ TaskGo("write", r, FALSE)
  <2>0. blind \in [Row -> Nat] /\ blind' = RaiseTask(blind, r, 1)
    BY <1>4 DEF TaskInv, TaskTypeOK
  <2>1. /\ blind' \in [Row -> Nat]
        /\ \A q \in Row : blind'[q] = IF q = r THEN blind[q] + 1 ELSE blind[q]
    BY <2>0 DEF RaiseTask
  <2>2. TaskTypeOK'
    BY <1>4, <2>1, SetbackTyped DEF TaskInv, TaskTypeOK, TaskJob, TaskPhase, TaskGo, Probe
  <2>3. told[r] <= 1 + blind[r]
    BY <1>1 DEF TaskInv, CountInv
  <2>4. WorkerInv'
    BY <1>1, <1>4, <2>1, <2>3 DEF TaskInv, TaskTypeOK, WorkerInv, PendingRows, TaskGo, Probe
  <2>5. CountInv'
    BY <1>1, <1>4, <2>1 DEF TaskInv, TaskTypeOK, CountInv, ThisRun, TaskGo, TaskAt, Probe
  <2> QED
    BY <2>2, <2>4, <2>5 DEF TaskInv
<1> QED
  BY <1>2, <1>3, <1>4 DEF Probe

(* A message or a mail leaves, or nothing does, whatever is said of it.    *)
LEMMA SendingKeeps ==
  ASSUME TaskInv, NEW r \in Row, TaskAt("write", r) \/ TaskAt("mail", r),
         \/ told' = RaiseTask(told, r, 1) /\ (TaskGo("settle", r, TRUE) \/ TaskGo("fail", r, TRUE))
         \/ told' = RaiseTask(told, r, 0) /\ TaskGo("fail", r, FALSE),
         UNCHANGED <<ledger, channel, anonymous, batch, setbacks, blind, cut>>
  PROVE  TaskInv'
<1>1. r # None /\ worker.row = r /\ ~worker.sent /\ ledger[r] = "pending" /\ r \notin batch
  BY TaskDeliveryConstants DEF TaskInv, WorkerInv, TaskAt
<1>2. told[r] = cut[r]
  BY <1>1 DEF TaskInv, TaskTypeOK, CountInv, ThisRun
<1>3. channel[r] = "portal-inbox" => told[r] <= blind[r]
  BY DEF TaskInv, WorkerInv, TaskAt
<1>4. told[r] \in Nat /\ cut[r] \in Nat /\ blind[r] \in Nat
  BY DEF TaskInv, TaskTypeOK
<1>5. CASE told' = RaiseTask(told, r, 1) /\ (TaskGo("settle", r, TRUE) \/ TaskGo("fail", r, TRUE))
  <2>0. told \in [Row -> Nat] /\ told' = RaiseTask(told, r, 1)
    BY <1>5 DEF TaskInv, TaskTypeOK
  <2>1. /\ told' \in [Row -> Nat]
        /\ \A q \in Row : told'[q] = IF q = r THEN told[q] + 1 ELSE told[q]
    BY <2>0 DEF RaiseTask
  <2>2. TaskTypeOK'
    <3>1. worker' \in TaskJob
      <4>1. \A p \in TaskPhase : [phase |-> p, row |-> r, sent |-> TRUE] \in TaskJob
        BY DEF TaskJob
      <4>2. "settle" \in TaskPhase /\ "fail" \in TaskPhase
        BY DEF TaskPhase
      <4> QED
        BY <1>5, <4>1, <4>2 DEF TaskGo
    <3> QED
      BY <2>1, <3>1 DEF TaskInv, TaskTypeOK
  <2>3. WorkerInv'
    BY <1>1, <1>4, <1>5, <2>1 DEF TaskInv, WorkerInv, PendingRows, TaskGo
  <2>4. CountInv'
    BY <1>1, <1>2, <1>3, <1>4, <1>5, <2>1 DEF TaskInv, TaskTypeOK, CountInv, ThisRun, TaskGo
  <2> QED
    BY <2>2, <2>3, <2>4 DEF TaskInv
<1>6. CASE told' = RaiseTask(told, r, 0) /\ TaskGo("fail", r, FALSE)
  <2>0. told \in [Row -> Nat] /\ told' = RaiseTask(told, r, 0)
    BY <1>6 DEF TaskInv, TaskTypeOK
  <2>1. /\ told' \in [Row -> Nat]
        /\ \A q \in Row : told'[q] = told[q]
    BY <2>0 DEF RaiseTask
  <2>2. TaskTypeOK'
    <3>1. worker' \in TaskJob
      BY <1>6 DEF TaskJob, TaskPhase, TaskGo
    <3> QED
      BY <2>1, <3>1 DEF TaskInv, TaskTypeOK
  <2>3. WorkerInv'
    BY <1>1, <1>6, <2>1 DEF TaskInv, WorkerInv, PendingRows, TaskGo
  <2>4. CountInv'
    BY <1>1, <1>2, <1>4, <1>6, <2>1 DEF TaskInv, TaskTypeOK, CountInv, ThisRun, TaskGo
  <2> QED
    BY <2>2, <2>3, <2>4 DEF TaskInv
<1> QED
  BY <1>5, <1>6

(* Both ways of sending are of that form.                                  *)
LEMMA WriteMessageKeeps ==
  ASSUME TaskInv, NEW r \in Row, WriteMessage(r)
  PROVE  TaskInv'
<1>1. \/ told' = RaiseTask(told, r, 1) /\ (TaskGo("settle", r, TRUE) \/ TaskGo("fail", r, TRUE))
      \/ told' = RaiseTask(told, r, 0) /\ TaskGo("fail", r, FALSE)
  BY DEF WriteMessage, TaskGo
<1> QED
  BY <1>1, SendingKeeps DEF WriteMessage

LEMMA SendMailKeeps ==
  ASSUME TaskInv, NEW r \in Row, SendMail(r)
  PROVE  TaskInv'
<1>1. \/ told' = RaiseTask(told, r, 1) /\ (TaskGo("settle", r, TRUE) \/ TaskGo("fail", r, TRUE))
      \/ told' = RaiseTask(told, r, 0) /\ TaskGo("fail", r, FALSE)
  BY DEF SendMail, TaskGo
<1> QED
  BY <1>1, SendingKeeps DEF SendMail

(* What a row that stays pending leaves behind, when its job is over.      *)
LEMMA LeavingKeeps ==
  ASSUME TaskInv, NEW r \in Row, worker.row = r, LeavePending(r),
         worker'.row = None, ~worker'.sent, UNCHANGED <<ledger, channel, told, blind>>
  PROVE  /\ cut' \in [Row -> Nat]
         /\ CountInv'
<1>1. CASE worker.sent
  <2>1. /\ cut' \in [Row -> Nat]
        /\ \A q \in Row : cut'[q] = IF q = r THEN cut[q] + 1 ELSE cut[q]
    BY <1>1 DEF TaskInv, TaskTypeOK, LeavePending, RaiseTask
  <2> QED
    BY <1>1, <2>1, TaskDeliveryConstants DEF TaskInv, TaskTypeOK, CountInv, ThisRun
<1>2. CASE ~worker.sent
  <2>1. cut' = cut
    BY <1>2 DEF LeavePending
  <2> QED
    BY <1>2, <2>1, TaskDeliveryConstants DEF TaskInv, TaskTypeOK, CountInv, ThisRun
<1> QED
  BY <1>1, <1>2

(* Without a uuid the row is left as it is.                                *)
LEMMA ComingBackKeeps ==
  ASSUME TaskInv, NEW r \in Row, worker.row = r, r # None, r \notin batch, ComesBack(r),
         UNCHANGED <<channel, anonymous, told, batch, blind>>
  PROVE  TaskInv'
<1>1. worker'.row = None /\ ~worker'.sent /\ worker'.phase = "next" /\ worker' \in TaskJob
  BY DEF ComesBack, TaskGo, TaskJob, TaskPhase
<1>2. UNCHANGED <<ledger, setbacks>>
  BY DEF ComesBack
<1>3. cut' \in [Row -> Nat] /\ CountInv'
  BY <1>1, <1>2, LeavingKeeps DEF ComesBack
<1>4. TaskTypeOK'
  BY <1>1, <1>2, <1>3 DEF TaskInv, TaskTypeOK
<1>5. WorkerInv'
  BY <1>1, <1>2 DEF TaskInv, WorkerInv, PendingRows
<1> QED
  BY <1>3, <1>4, <1>5 DEF TaskInv

LEMMA SettleRowKeeps ==
  ASSUME TaskInv, NEW r \in Row, SettleRow(r)
  PROVE  TaskInv'
<1>1. r # None /\ worker.row = r /\ r \notin batch /\ worker.phase = "settle"
  BY TaskDeliveryConstants DEF TaskInv, WorkerInv, SettleRow, TaskAt
<1>2. CASE ComesBack(r)
  BY <1>1, <1>2, ComingBackKeeps DEF SettleRow
<1>3. CASE \/ /\ ledger' = [ledger EXCEPT ![r] = "delivered"]
              /\ TaskGo("next", None, FALSE)
              /\ UNCHANGED <<setbacks, cut>>
           \/ /\ Setback
              /\ TaskGo("fail", r, worker.sent)
              /\ UNCHANGED <<ledger, cut>>
  <2>0. UNCHANGED <<channel, anonymous, told, batch, blind>>
    BY DEF SettleRow
  <2>1. TaskTypeOK'
    <3>1. worker' \in TaskJob
      <4>1. worker.sent \in BOOLEAN
        BY DEF TaskInv, TaskTypeOK, TaskJob
      <4>2. \A p \in TaskPhase, x \in BOOLEAN, q \in Row \cup {None} :
              [phase |-> p, row |-> q, sent |-> x] \in TaskJob
        BY DEF TaskJob
      <4>3. "next" \in TaskPhase /\ "fail" \in TaskPhase
        BY DEF TaskPhase
      <4> QED
        BY <1>3, <4>1, <4>2, <4>3 DEF TaskGo
    <3>2. ledger' \in [Row -> LedgerStatus] /\ setbacks' \in 0..MaxTrouble
      BY <1>3, SetbackTyped DEF TaskInv, TaskTypeOK, LedgerStatus
    <3> QED
      BY <1>3, <2>0, <3>1, <3>2 DEF TaskInv, TaskTypeOK
  <2>2. WorkerInv'
    BY <1>1, <1>3, <2>0, TaskDeliveryConstants
       DEF TaskInv, TaskTypeOK, TaskJob, WorkerInv, PendingRows, TaskGo
  <2>3. CountInv'
    BY <1>1, <1>3, <2>0, TaskDeliveryConstants
       DEF TaskInv, TaskTypeOK, TaskJob, LedgerStatus, CountInv, ThisRun, WorkerInv, TaskGo
  <2> QED
    BY <2>1, <2>2, <2>3 DEF TaskInv
<1> QED
  BY <1>2, <1>3 DEF SettleRow

LEMMA FailRowKeeps ==
  ASSUME TaskInv, NEW r \in Row, FailRow(r)
  PROVE  TaskInv'
<1>1. r # None /\ worker.row = r /\ r \notin batch
  BY TaskDeliveryConstants DEF TaskInv, WorkerInv, FailRow, TaskAt
<1>2. worker'.row = None /\ ~worker'.sent /\ worker'.phase = "next" /\ worker' \in TaskJob
  <2>1. TaskGo("next", None, FALSE)
    BY DEF FailRow, ComesBack
  <2> QED
    BY <2>1 DEF TaskGo, TaskJob, TaskPhase
<1>3. CASE ledger' = [ledger EXCEPT ![r] = "failed"] /\ UNCHANGED <<setbacks, cut>>
  <2>1. TaskTypeOK'
    BY <1>2, <1>3 DEF TaskInv, TaskTypeOK, LedgerStatus, FailRow
  <2>2. WorkerInv'
    BY <1>1, <1>2, <1>3 DEF TaskInv, TaskTypeOK, WorkerInv, PendingRows, FailRow
  <2>3. CountInv'
    BY <1>1, <1>2, <1>3, TaskDeliveryConstants DEF TaskInv, TaskTypeOK, CountInv, ThisRun, FailRow
  <2> QED
    BY <2>1, <2>2, <2>3 DEF TaskInv
<1>4. CASE Setback /\ LeavePending(r) /\ UNCHANGED ledger
  <2>1. cut' \in [Row -> Nat] /\ CountInv'
    BY <1>1, <1>2, <1>4, LeavingKeeps DEF FailRow
  <2>2. TaskTypeOK'
    BY <1>2, <1>4, <2>1, SetbackTyped DEF TaskInv, TaskTypeOK, FailRow
  <2>3. WorkerInv'
    BY <1>2, <1>4 DEF TaskInv, WorkerInv, PendingRows, FailRow
  <2> QED
    BY <2>1, <2>2, <2>3 DEF TaskInv
<1>5. CASE ComesBack(r)
  BY <1>1, <1>5, ComingBackKeeps DEF FailRow
<1> QED
  BY <1>3, <1>4, <1>5 DEF FailRow

LEMMA WorkerDiesKeeps ==
  ASSUME TaskInv, WorkerDies
  PROVE  TaskInv'
<1>1. worker'.row = None /\ ~worker'.sent /\ worker'.phase = "idle" /\ worker' \in TaskJob
  BY DEF WorkerDies, NoTask, TaskJob, TaskPhase
<1>2. cut' \in [Row -> Nat] /\ CountInv'
  <2>1. CASE worker.row = None
    BY <1>1, <2>1, TaskDeliveryConstants DEF TaskInv, TaskTypeOK, WorkerInv, CountInv, ThisRun, WorkerDies
  <2>2. CASE worker.row # None
    <3>1. worker.row \in Row /\ LeavePending(worker.row)
      BY <2>2 DEF TaskInv, TaskTypeOK, TaskJob, WorkerDies
    <3> QED
      BY <1>1, <3>1, LeavingKeeps DEF WorkerDies
  <2> QED
    BY <2>1, <2>2
<1>3. TaskTypeOK'
  BY <1>1, <1>2, SetbackTyped DEF TaskInv, TaskTypeOK, WorkerDies
<1>4. WorkerInv'
  BY <1>1 DEF WorkerInv, PendingRows, WorkerDies
<1> QED
  BY <1>2, <1>3, <1>4 DEF TaskInv

-----------------------------------------------------------------------------

LEMMA TasksKeep == TaskSafetySpec => []TaskInv
<1>1. TaskInit => TaskInv
  BY TaskDeliveryConstants DEF TaskInit, TaskInv, TaskTypeOK, WorkerInv, CountInv, ThisRun, PendingRows,
       NoTask, TaskJob, TaskPhase, LedgerStatus
<1>2. ASSUME TaskInv, [TaskNext]_taskVars
      PROVE  TaskInv'
  <2>1. CASE TaskNext
    BY <1>2, <2>1, EnqueueKeeps, TaskRunKeeps, EndTaskRunKeeps, TakeRowKeeps, ProbeKeeps,
       WriteMessageKeeps, SendMailKeeps, SettleRowKeeps, FailRowKeeps, WorkerDiesKeeps
       DEF TaskNext, TaskStep, HandleRow
  <2>2. CASE UNCHANGED taskVars
    BY <1>2, <2>2 DEF taskVars, TaskInv, TaskTypeOK, WorkerInv, CountInv, ThisRun, PendingRows
  <2> QED
    BY <1>2, <2>1, <2>2
<1> QED
  BY <1>1, <1>2, PTL DEF TaskSafetySpec

(* Only a trouble, or a row without a uuid, leaves a run that nobody knows *)
(* of or a probe that saw nothing.                                         *)
LEMMA LeavingIsTrouble ==
  ASSUME TaskTypeOK, TroubleInv, NEW r \in Row, LeavePending(r),
         Setback \/ (r \in anonymous /\ UNCHANGED setbacks), UNCHANGED <<anonymous, blind>>
  PROVE  TroubleInv'
<1>1. \A q \in Row : cut'[q] = IF q = r /\ worker.sent THEN cut[q] + 1 ELSE cut[q]
  BY DEF TaskTypeOK, LeavePending, RaiseTask
<1> QED
  BY <1>1 DEF TaskTypeOK, TroubleInv, Setback

LEMMA TroubleKeeps ==
  ASSUME TaskTypeOK, TroubleInv, TaskNext
  PROVE  TroubleInv'
<1>0. ASSUME UNCHANGED <<anonymous, cut, blind>>, Setback \/ UNCHANGED setbacks
      PROVE  TroubleInv'
  BY <1>0 DEF TaskTypeOK, TroubleInv, Setback
<1>1. CASE (\E r \in Row : Enqueue(r)) \/ TaskRun \/ EndTaskRun
  BY <1>0, <1>1 DEF Enqueue, TaskRun, EndTaskRun
<1>2. CASE WorkerDies
  <2>1. CASE worker.row = None
    BY <1>0, <1>2, <2>1 DEF WorkerDies
  <2>2. CASE worker.row # None
    <3>1. worker.row \in Row
      BY <2>2 DEF TaskTypeOK, TaskJob
    <3> QED
      BY <1>2, <2>2, <3>1, LeavingIsTrouble DEF WorkerDies
  <2> QED
    BY <2>1, <2>2
<1>3. ASSUME NEW r \in Row, TakeRow(r) \/ WriteMessage(r) \/ SendMail(r)
      PROVE  TroubleInv'
  BY <1>0, <1>3 DEF TakeRow, WriteMessage, SendMail
<1>4. ASSUME NEW r \in Row, Probe(r)
      PROVE  TroubleInv'
  <2>1. CASE UNCHANGED <<setbacks, blind>>
    BY <1>0, <1>4, <2>1 DEF Probe
  <2>2. CASE /\ IF r \in anonymous THEN UNCHANGED setbacks ELSE Setback
             /\ blind' = RaiseTask(blind, r, 1)
    <3>1. \A q \in Row : blind'[q] = IF q = r THEN blind[q] + 1 ELSE blind[q]
      BY <2>2 DEF TaskTypeOK, RaiseTask
    <3> QED
      BY <1>4, <2>2, <3>1 DEF TaskTypeOK, TroubleInv, Setback, Probe
  <2> QED
    BY <1>4, <2>1, <2>2 DEF Probe
<1>5. ASSUME NEW r \in Row, SettleRow(r) \/ FailRow(r)
      PROVE  TroubleInv'
  <2>1. CASE UNCHANGED cut
    BY <1>0, <1>5, <2>1 DEF SettleRow, FailRow, ComesBack
  <2>2. CASE LeavePending(r)
    BY <1>0, <1>5, <2>2, LeavingIsTrouble DEF SettleRow, FailRow, ComesBack
  <2> QED
    BY <1>5, <2>1, <2>2 DEF SettleRow, FailRow, ComesBack
<1> QED
  BY <1>1, <1>2, <1>3, <1>4, <1>5 DEF TaskNext, TaskStep, HandleRow

LEMMA TroublesKeep == TaskSafetySpec => []TroubleInv
<1>1. TaskInit => TroubleInv
  BY DEF TaskInit, TroubleInv
<1>2. TaskTypeOK /\ TroubleInv /\ [TaskNext]_taskVars => TroubleInv'
  BY TroubleKeeps DEF taskVars, TroubleInv
<1>3. TaskInv => TaskTypeOK
  BY DEF TaskInv
<1> QED
  BY <1>1, <1>2, <1>3, TasksKeep, PTL DEF TaskSafetySpec

(* Every variable keeps its type, for any rows, batches and troubles.      *)
THEOREM TasksTypeCorrect == TaskSafetySpec => []TaskTypeOK
  BY TasksKeep, PTL DEF TaskInv

(* What PortalTaskDeliveryJob sends for a row is bounded by the runs that  *)
(* were cut off and, for a message, by the probes that saw nothing, and    *)
(* these by the troubles there were, unless the row has no uuid            *)
(* (settleRow, 247-291; deliverInbox, 307-343).                            *)
THEOREM RepeatsAreBounded == TaskSafetySpec => []RepeatsBounded
<1>1. TaskInv /\ TroubleInv => RepeatsBounded
  BY DEF TaskInv, CountInv, TroubleInv, RepeatsBounded
<1> QED
  BY <1>1, TasksKeep, TroublesKeep, PTL

-----------------------------------------------------------------------------

(* The status an outbox shows for the ledger.                              *)
TasksShown == [q \in Row |-> IF ledger[q] = "pending" THEN "waiting" ELSE ledger[q]]

(* A row whose status moves is a move of the outbox.                       *)
LEMMA MovingShowsTask ==
  ASSUME TaskTypeOK, NEW r \in Row, NEW to \in LedgerStatus,
         ledger' = [ledger EXCEPT ![r] = to]
  PROVE  TasksShown' = [TasksShown EXCEPT ![r] = IF to = "pending" THEN "waiting" ELSE to]
  BY DEF TaskTypeOK, TasksShown

LEMMA StandingShowsTask ==
  ASSUME UNCHANGED <<ledger, told>>
  PROVE  UNCHANGED TaskPromise!vars
  BY DEF TaskPromise!vars

LEMMA EnqueueAccepts ==
  ASSUME TaskTypeOK, NEW r \in Row, Enqueue(r)
  PROVE  TaskPromise!Accept(r)
<1>1. TasksShown' = [TasksShown EXCEPT ![r] = "waiting"]
  BY MovingShowsTask DEF Enqueue, LedgerStatus
<1>2. TasksShown[r] = "none"
  BY DEF TasksShown, Enqueue
<1> QED
  BY <1>1, <1>2 DEF TaskPromise!Accept, TaskPromise!Move, TasksShown, Enqueue

(* Sending is work on a row that waits; not sending changes nothing.       *)
LEMMA SendingWorks ==
  ASSUME TaskInv, NEW r \in Row, TaskAt("write", r) \/ TaskAt("mail", r),
         NEW n \in {0, 1}, told' = RaiseTask(told, r, n), UNCHANGED ledger
  PROVE  TaskPromise!Work(r) \/ UNCHANGED TaskPromise!vars
<1>1. ledger[r] = "pending"
  BY TaskDeliveryConstants DEF TaskInv, WorkerInv, TaskAt
<1>2. CASE n = 1
  BY <1>1, <1>2 DEF TaskPromise!Work, RaiseTask
<1>3. CASE n = 0
  <2>1. told' = told
    BY <1>3 DEF TaskInv, TaskTypeOK, RaiseTask
  <2> QED
    BY <2>1, StandingShowsTask
<1> QED
  BY <1>2, <1>3

LEMMA SettleDelivers ==
  ASSUME TaskInv, NEW r \in Row, SettleRow(r)
  PROVE  TaskPromise!Deliver(r) \/ UNCHANGED TaskPromise!vars
<1>1. ledger[r] = "pending" /\ (r \in anonymous \/ told[r] > 0)
  BY TaskDeliveryConstants DEF TaskInv, WorkerInv, SettleRow, TaskAt
<1>2. CASE r \notin anonymous /\ ledger' = [ledger EXCEPT ![r] = "delivered"]
  <2>1. TasksShown' = [TasksShown EXCEPT ![r] = "delivered"]
    BY <1>2, MovingShowsTask DEF TaskInv, LedgerStatus
  <2>2. TasksShown[r] = "waiting"
    BY <1>1 DEF TasksShown
  <2> QED
    BY <1>1, <1>2, <2>1, <2>2 DEF TaskPromise!Deliver, TaskPromise!Move, TasksShown, SettleRow
<1>3. CASE UNCHANGED ledger
  BY <1>3, StandingShowsTask DEF SettleRow
<1> QED
  BY <1>2, <1>3 DEF SettleRow, ComesBack

LEMMA FailGivesUp ==
  ASSUME TaskInv, NEW r \in Row, FailRow(r)
  PROVE  TaskPromise!GiveUp(r) \/ UNCHANGED TaskPromise!vars
<1>1. ledger[r] = "pending"
  BY TaskDeliveryConstants DEF TaskInv, WorkerInv, FailRow, TaskAt
<1>2. CASE ledger' = [ledger EXCEPT ![r] = "failed"]
  <2>1. TasksShown' = [TasksShown EXCEPT ![r] = "failed"]
    BY <1>2, MovingShowsTask DEF TaskInv, LedgerStatus
  <2>2. TasksShown[r] = "waiting"
    BY <1>1 DEF TasksShown
  <2> QED
    BY <2>1, <2>2 DEF TaskPromise!GiveUp, TaskPromise!Move, TasksShown, FailRow
<1>3. CASE UNCHANGED ledger
  BY <1>3, StandingShowsTask DEF FailRow
<1> QED
  BY <1>2, <1>3 DEF FailRow, ComesBack

LEMMA TaskStepMaps ==
  ASSUME TaskInv, TaskNext
  PROVE  [TaskPromise!Next]_(TaskPromise!vars)
<1>1. CASE \E r \in Row : Enqueue(r)
  BY <1>1, EnqueueAccepts DEF TaskInv, TaskPromise!Next
<1>2. CASE TaskRun \/ EndTaskRun \/ WorkerDies
  BY <1>2, StandingShowsTask DEF TaskRun, EndTaskRun, WorkerDies
<1>3. ASSUME NEW r \in Row, HandleRow(r)
      PROVE  [TaskPromise!Next]_(TaskPromise!vars)
  <2>1. CASE TakeRow(r) \/ Probe(r)
    BY <2>1, StandingShowsTask DEF TakeRow, Probe
  <2>2. CASE WriteMessage(r) \/ SendMail(r)
    <3>1. /\ TaskAt("write", r) \/ TaskAt("mail", r)
          /\ \E n \in {0, 1} : told' = RaiseTask(told, r, n)
          /\ UNCHANGED ledger
      BY <2>2 DEF WriteMessage, SendMail
    <3> QED
      BY <3>1, SendingWorks DEF TaskPromise!Next
  <2>3. CASE SettleRow(r)
    BY <2>3, SettleDelivers DEF TaskPromise!Next
  <2>4. CASE FailRow(r)
    BY <2>4, FailGivesUp DEF TaskPromise!Next
  <2> QED
    BY <1>3, <2>1, <2>2, <2>3, <2>4 DEF HandleRow
<1> QED
  BY <1>1, <1>2, <1>3 DEF TaskNext, TaskStep

(* PortalTaskDeliveryJob implements an outbox, whatever dies or is         *)
(* refused: a row is called delivered only after something was sent for    *)
(* it, and a row that was settled stays so (settleRow, 247-291).           *)
THEOREM TasksImplementOutbox == TaskSafetySpec => TaskPromise!SafetySpec
<1>1. TaskInit => TaskPromise!Init
  BY DEF TaskInit, TaskPromise!Init
<1>2. TaskInv /\ [TaskNext]_taskVars => [TaskPromise!Next]_(TaskPromise!vars)
  BY TaskStepMaps, StandingShowsTask DEF taskVars
<1> QED
  BY <1>1, <1>2, TasksKeep, PTL DEF TaskSafetySpec, TaskPromise!SafetySpec

-----------------------------------------------------------------------------
(* IntakeDelivery                                                          *)

ClerkJob == [phase : ClerkPhase, submission : Submission \cup {NoSubmission}, made : BOOLEAN]

ClerkInv ==
  /\ clerk.phase \in {"idle", "next"} <=> clerk.submission = NoSubmission
  /\ clerk.submission = NoSubmission => ~clerk.made
  /\ queue \subseteq QueuedSubmissions
  /\ clerk.submission # NoSubmission => state[clerk.submission] = "queued" /\ clerk.submission \notin queue
  /\ clerk.phase \in {"binding", "case", "woo"} => ~clerk.made
  /\ clerk.phase = "register" => clerk.made

ThisClerk(s) == IF clerk.submission = s /\ clerk.made THEN 1 ELSE 0

MadeInv ==
  \A s \in Submission :
    /\ state[s] \in {"none", "queued"} => made[s] = doubled[s] + ThisClerk(s)
    /\ made[s] <= 1 + doubled[s]

IntakeInv == IntakeTypeOK /\ ClerkInv /\ MadeInv

LEMMA MishapTyped ==
  ASSUME IntakeTypeOK, Mishap
  PROVE  mishaps' \in 0..MaxMishaps
  BY IntakeConstants DEF IntakeTypeOK, Mishap

LEMMA AcceptKeeps ==
  ASSUME IntakeInv, NEW s \in Submission, AcceptSubmission(s)
  PROVE  IntakeInv'
<1>1. IntakeTypeOK'
  BY DEF IntakeInv, IntakeTypeOK, AcceptSubmission
<1>2. ClerkInv'
  BY DEF IntakeInv, IntakeTypeOK, ClerkInv, QueuedSubmissions, AcceptSubmission
<1>3. MadeInv'
  BY DEF IntakeInv, IntakeTypeOK, MadeInv, ThisClerk, AcceptSubmission
<1> QED
  BY <1>1, <1>2, <1>3 DEF IntakeInv

(* A run begins, ends or takes its next submission, and nothing is made.   *)
LEMMA TurningKeeps ==
  ASSUME IntakeInv, clerk.submission = NoSubmission,
         clerk' \in ClerkJob, ~clerk'.made,
         clerk'.phase \in {"idle", "next", "binding"},
         clerk'.phase = "binding" <=> clerk'.submission # NoSubmission,
         clerk'.submission # NoSubmission =>
           state[clerk'.submission] = "queued" /\ clerk'.submission \notin queue',
         queue' \subseteq QueuedSubmissions,
         UNCHANGED <<state, idless, made, mishaps, doubled>>
  PROVE  IntakeInv'
<1>1. IntakeTypeOK'
  BY DEF IntakeInv, IntakeTypeOK, ClerkJob, QueuedSubmissions
<1>2. ClerkInv'
  BY DEF IntakeInv, ClerkInv, QueuedSubmissions
<1>3. MadeInv'
  BY DEF IntakeInv, ClerkInv, MadeInv, ThisClerk
<1> QED
  BY <1>1, <1>2, <1>3 DEF IntakeInv

LEMMA IntakeRunKeeps ==
  ASSUME IntakeInv, IntakeRun
  PROVE  IntakeInv'
<1>1. clerk.submission = NoSubmission
  BY DEF IntakeRun, Resting
<1>2. clerk' \in ClerkJob /\ clerk'.phase = "next" /\ clerk'.submission = NoSubmission /\ ~clerk'.made
  BY DEF IntakeRun, ClerkGo, ClerkJob, ClerkPhase
<1>3. queue' \subseteq QueuedSubmissions
  BY DEF IntakeRun
<1> QED
  BY <1>1, <1>2, <1>3, TurningKeeps DEF IntakeRun

LEMMA EndIntakeRunKeeps ==
  ASSUME IntakeInv, EndIntakeRun
  PROVE  IntakeInv'
<1>1. clerk.submission = NoSubmission
  BY DEF EndIntakeRun, ClerkAt
<1>2. clerk' \in ClerkJob /\ clerk'.phase = "idle" /\ clerk'.submission = NoSubmission /\ ~clerk'.made
  BY DEF EndIntakeRun, Resting, ClerkJob, ClerkPhase
<1>3. queue' \subseteq QueuedSubmissions
  BY DEF EndIntakeRun
<1> QED
  BY <1>1, <1>2, <1>3, TurningKeeps DEF EndIntakeRun

LEMMA TakeSubmissionKeeps ==
  ASSUME IntakeInv, NEW s \in Submission, TakeSubmission(s)
  PROVE  IntakeInv'
<1>1. clerk.submission = NoSubmission
  BY DEF TakeSubmission, ClerkAt
<1>2. clerk' \in ClerkJob /\ clerk'.phase = "binding" /\ clerk'.submission = s /\ ~clerk'.made
  BY DEF TakeSubmission, ClerkGo, ClerkJob, ClerkPhase
<1>3. queue' \subseteq QueuedSubmissions /\ s \notin queue' /\ state[s] = "queued" /\ s # NoSubmission
  BY IntakeConstants DEF TakeSubmission, IntakeInv, ClerkInv, QueuedSubmissions
<1> QED
  BY <1>1, <1>2, <1>3, TurningKeeps DEF TakeSubmission

(* What is known while a submission is being worked on.                    *)
LEMMA AtWork ==
  ASSUME IntakeInv, NEW s \in Submission, NEW p, ClerkAt(p, s)
  PROVE  /\ s # NoSubmission /\ state[s] = "queued" /\ s \notin queue
         /\ p \notin {"idle", "next"}
         /\ p \in {"binding", "case", "woo"} => ~clerk.made /\ made[s] = doubled[s]
         /\ made[s] \in Nat /\ doubled[s] \in Nat
<1>1. s # NoSubmission /\ clerk.phase = p /\ clerk.submission = s
  BY IntakeConstants DEF ClerkAt
<1>2. made[s] \in Nat /\ doubled[s] \in Nat
  BY DEF IntakeInv, IntakeTypeOK
<1>3. state[s] = "queued" /\ s \notin queue /\ p \notin {"idle", "next"}
  BY <1>1 DEF IntakeInv, ClerkInv
<1>4. p \in {"binding", "case", "woo"} => ~clerk.made
  BY <1>1 DEF IntakeInv, ClerkInv
<1>5. ~clerk.made => made[s] = doubled[s]
  BY <1>2, <1>3 DEF IntakeInv, MadeInv, ThisClerk
<1> QED
  BY <1>1, <1>2, <1>3, <1>4, <1>5

(* A case is made, or none is, and the clerk knows which.                  *)
LEMMA MakingKeeps ==
  ASSUME IntakeInv, NEW s \in Submission, NEW p \in {"binding", "case", "woo"}, ClerkAt(p, s),
         NEW n \in {0, 1}, NEW q \in {"case", "woo", "fail", "register"},
         q = "register" => n = 1,
         q \in {"case", "woo"} => n = 0,
         clerk' \in ClerkJob, clerk'.phase = q, clerk'.submission = s,
         clerk'.made <=> n = 1,
         made' = RaiseCase(made, s, n),
         UNCHANGED <<state, idless, queue, mishaps, doubled>>
  PROVE  IntakeInv'
<1>1. /\ s # NoSubmission /\ state[s] = "queued" /\ s \notin queue /\ ~clerk.made
      /\ made[s] = doubled[s] /\ made[s] \in Nat /\ doubled[s] \in Nat
      /\ clerk.submission = s
  BY AtWork DEF ClerkAt
<1>3. made \in [Submission -> Nat]
  BY DEF IntakeInv, IntakeTypeOK
<1>4. /\ made' \in [Submission -> Nat]
      /\ \A t \in Submission : made'[t] = IF t = s THEN made[t] + n ELSE made[t]
  BY <1>3 DEF RaiseCase
<1>5. IntakeTypeOK'
  BY <1>4 DEF IntakeInv, IntakeTypeOK, ClerkJob
<1>6. ClerkInv'
  BY <1>1 DEF IntakeInv, ClerkInv, QueuedSubmissions
<1>7. MadeInv'
  <2> SUFFICES ASSUME NEW t \in Submission
               PROVE  /\ state[t] \in {"none", "queued"} =>
                           made'[t] = doubled[t] + (IF clerk'.submission = t /\ clerk'.made THEN 1 ELSE 0)
                      /\ made'[t] <= 1 + doubled[t]
    BY DEF MadeInv, ThisClerk
  <2>1. CASE t = s
    BY <1>1, <1>4, <2>1
  <2>2. CASE t # s
    <3>1. made'[t] = made[t]
      BY <1>4, <2>2
    <3>2. state[t] \in {"none", "queued"} => made[t] = doubled[t] + 0
      BY <1>1, <2>2 DEF IntakeInv, MadeInv, ThisClerk
    <3>3. made[t] <= 1 + doubled[t]
      BY DEF IntakeInv, MadeInv
    <3> QED
      BY <2>2, <3>1, <3>2, <3>3
  <2> QED
    BY <2>1, <2>2
<1> QED
  BY <1>5, <1>6, <1>7 DEF IntakeInv

LEMMA ReadBindingKeeps ==
  ASSUME IntakeInv, NEW s \in Submission, ReadBinding(s)
  PROVE  IntakeInv'
<1>1. ClerkAt("binding", s) /\ UNCHANGED <<state, idless, made, queue, mishaps, doubled>>
  BY DEF ReadBinding
<1>2. PICK way \in {"case", "woo", "fail"} : ClerkGo(way, s, FALSE)
  BY DEF ReadBinding
<1>3. clerk' \in ClerkJob /\ clerk'.phase = way /\ clerk'.submission = s /\ ~clerk'.made
  BY <1>2 DEF ClerkGo, ClerkJob, ClerkPhase
<1>4. made' = RaiseCase(made, s, 0)
  BY <1>1 DEF IntakeInv, IntakeTypeOK, RaiseCase
<1> QED
  BY <1>1, <1>3, <1>4, MakingKeeps

(* Both ways of making a case are of one form.                             *)
LEMMA CreateOrWooKeeps ==
  ASSUME IntakeInv, NEW s \in Submission, CreateCase(s) \/ DeliverWoo(s)
  PROVE  IntakeInv'
<1>1. PICK p \in {"case", "woo"} : ClerkAt(p, s)
  BY DEF CreateCase, DeliverWoo
<1>2. UNCHANGED <<state, idless, queue, mishaps, doubled>>
  BY DEF CreateCase, DeliverWoo
<1>3. CASE made' = RaiseCase(made, s, 1) /\ ClerkGo("register", s, TRUE)
  <2>1. clerk' \in ClerkJob /\ clerk'.phase = "register" /\ clerk'.submission = s /\ clerk'.made
    BY <1>3 DEF ClerkGo, ClerkJob, ClerkPhase
  <2> QED
    BY <1>1, <1>2, <1>3, <2>1, MakingKeeps
<1>4. ASSUME NEW n \in {0, 1}, made' = RaiseCase(made, s, n), ClerkGo("fail", s, n = 1)
      PROVE  IntakeInv'
  <2>1. clerk' \in ClerkJob /\ clerk'.phase = "fail" /\ clerk'.submission = s
    BY <1>4 DEF ClerkGo, ClerkJob, ClerkPhase
  <2>2. clerk'.made <=> n = 1
    BY <1>4 DEF ClerkGo
  <2> QED
    BY <1>1, <1>2, <1>4, <2>1, <2>2, MakingKeeps
<1> QED
  BY <1>3, <1>4 DEF CreateCase, DeliverWoo

(* What a submission that stays queued leaves behind when its run is over. *)
LEMMA LeavingQueuedKeeps ==
  ASSUME IntakeInv, NEW s \in Submission, clerk.submission = s, LeaveQueued(s),
         clerk'.submission = NoSubmission, ~clerk'.made, UNCHANGED <<state, made>>
  PROVE  doubled' \in [Submission -> Nat] /\ MadeInv'
<1>1. /\ doubled' \in [Submission -> Nat]
      /\ \A t \in Submission :
           doubled'[t] = IF t = s /\ clerk.made THEN doubled[t] + 1 ELSE doubled[t]
  BY DEF IntakeInv, IntakeTypeOK, LeaveQueued, RaiseCase
<1> QED
  BY <1>1, IntakeConstants DEF IntakeInv, IntakeTypeOK, MadeInv, ThisClerk

LEMMA MarkKeeps ==
  ASSUME IntakeInv, NEW s \in Submission, NEW p \in {"register", "fail"},
         NEW to \in {"registered", "failed"}, Mark(s, p, to)
  PROVE  IntakeInv'
<1>1. ClerkAt(p, s) /\ clerk.submission = s /\ s # NoSubmission /\ s \notin queue
  BY AtWork DEF Mark, ClerkAt
<1>2. clerk' \in ClerkJob /\ clerk'.phase = "next" /\ clerk'.submission = NoSubmission /\ ~clerk'.made
  BY DEF Mark, ClerkGo, ClerkJob, ClerkPhase
<1>3. UNCHANGED <<idless, made, queue>>
  BY DEF Mark
<1>4. CASE state' = [state EXCEPT ![s] = to] /\ UNCHANGED <<mishaps, doubled>>
  <2>1. /\ state' \in [Submission -> {"none", "queued", "registered", "failed"}]
        /\ \A t \in Submission : state'[t] = IF t = s THEN to ELSE state[t]
    BY <1>4 DEF IntakeInv, IntakeTypeOK
  <2>2. IntakeTypeOK'
    BY <1>2, <1>3, <1>4, <2>1 DEF IntakeInv, IntakeTypeOK, ClerkJob
  <2>3. ClerkInv'
    BY <1>1, <1>2, <1>3, <2>1 DEF IntakeInv, ClerkInv, QueuedSubmissions
  <2>4. MadeInv'
    BY <1>1, <1>2, <1>3, <1>4, <2>1, IntakeConstants DEF IntakeInv, MadeInv, ThisClerk
  <2> QED
    BY <2>2, <2>3, <2>4 DEF IntakeInv
<1>5. CASE (Mishap \/ UNCHANGED mishaps) /\ LeaveQueued(s) /\ UNCHANGED state
  <2>1. doubled' \in [Submission -> Nat] /\ MadeInv'
    BY <1>1, <1>2, <1>3, <1>5, LeavingQueuedKeeps
  <2>2. IntakeTypeOK'
    BY <1>2, <1>3, <1>5, <2>1, MishapTyped DEF IntakeInv, IntakeTypeOK, ClerkJob
  <2>3. ClerkInv'
    BY <1>2, <1>3, <1>5 DEF IntakeInv, ClerkInv, QueuedSubmissions
  <2> QED
    BY <2>1, <2>2, <2>3 DEF IntakeInv
<1> QED
  BY <1>4, <1>5 DEF Mark

LEMMA ClerkDiesKeeps ==
  ASSUME IntakeInv, ClerkDies
  PROVE  IntakeInv'
<1>1. clerk' \in ClerkJob /\ clerk'.phase = "idle" /\ clerk'.submission = NoSubmission /\ ~clerk'.made
  BY DEF ClerkDies, Resting, ClerkJob, ClerkPhase
<1>2. doubled' \in [Submission -> Nat] /\ MadeInv'
  <2>1. CASE clerk.submission = NoSubmission
    BY <1>1, <2>1 DEF IntakeInv, IntakeTypeOK, ClerkInv, MadeInv, ThisClerk, ClerkDies
  <2>2. CASE clerk.submission # NoSubmission
    <3>1. clerk.submission \in Submission /\ LeaveQueued(clerk.submission)
      BY <2>2 DEF IntakeInv, IntakeTypeOK, ClerkDies
    <3> QED
      BY <1>1, <3>1, LeavingQueuedKeeps DEF ClerkDies
  <2> QED
    BY <2>1, <2>2
<1>3. IntakeTypeOK'
  BY <1>1, <1>2, MishapTyped DEF IntakeInv, IntakeTypeOK, ClerkJob, ClerkDies
<1>4. ClerkInv'
  BY <1>1 DEF ClerkInv, QueuedSubmissions, ClerkDies
<1> QED
  BY <1>2, <1>3, <1>4 DEF IntakeInv

LEMMA IntakeKeeps == IntakeSafetySpec => []IntakeInv
<1>1. IntakeInit => IntakeInv
  BY IntakeConstants DEF IntakeInit, IntakeInv, IntakeTypeOK, ClerkInv, MadeInv, ThisClerk,
       QueuedSubmissions, Resting, ClerkPhase
<1>2. ASSUME IntakeInv, [IntakeNext]_intakeVars
      PROVE  IntakeInv'
  <2>1. CASE \E s \in Submission : AcceptSubmission(s)
    BY <1>2, <2>1, AcceptKeeps
  <2>2. CASE IntakeRun \/ EndIntakeRun \/ ClerkDies
    BY <1>2, <2>2, IntakeRunKeeps, EndIntakeRunKeeps, ClerkDiesKeeps
  <2>3. ASSUME NEW s \in Submission,
               TakeSubmission(s) \/ ReadBinding(s) \/ CreateCase(s) \/ DeliverWoo(s)
        PROVE  IntakeInv'
    BY <1>2, <2>3, TakeSubmissionKeeps, ReadBindingKeeps, CreateOrWooKeeps
  <2>4. ASSUME NEW s \in Submission, MarkRegistered(s) \/ MarkFailed(s)
        PROVE  IntakeInv'
    BY <1>2, <2>4, MarkKeeps DEF MarkRegistered, MarkFailed
  <2>5. CASE UNCHANGED intakeVars
    BY <1>2, <2>5 DEF intakeVars, IntakeInv, IntakeTypeOK, ClerkInv, MadeInv, ThisClerk, QueuedSubmissions
  <2> QED
    BY <1>2, <2>1, <2>2, <2>3, <2>4, <2>5 DEF IntakeNext, IntakeStep
<1> QED
  BY <1>1, <1>2, PTL DEF IntakeSafetySpec

(* Every variable of the intake delivery keeps its type.                   *)
THEOREM IntakeTypeCorrect == IntakeSafetySpec => []IntakeTypeOK
  BY IntakeKeeps, PTL DEF IntakeInv

(* A submission with an id is left queued by a run that made its case only *)
(* by trouble.                                                             *)
MishapInv == \A s \in Submission : s \notin idless => doubled[s] <= mishaps

LEMMA LeavingIsMishap ==
  ASSUME IntakeTypeOK, MishapInv, NEW s \in Submission, LeaveQueued(s),
         Mishap \/ (s \in idless /\ UNCHANGED mishaps), UNCHANGED idless
  PROVE  MishapInv'
<1>1. \A t \in Submission : doubled'[t] = IF t = s /\ clerk.made THEN doubled[t] + 1 ELSE doubled[t]
  BY DEF IntakeTypeOK, LeaveQueued, RaiseCase
<1> QED
  BY <1>1 DEF IntakeTypeOK, MishapInv, Mishap

LEMMA MishapKeeps ==
  ASSUME IntakeTypeOK, MishapInv, IntakeNext
  PROVE  MishapInv'
<1>0. ASSUME UNCHANGED <<idless, doubled>>, Mishap \/ UNCHANGED mishaps
      PROVE  MishapInv'
  BY <1>0 DEF IntakeTypeOK, MishapInv, Mishap
<1>1. CASE (\E s \in Submission : AcceptSubmission(s)) \/ IntakeRun \/ EndIntakeRun
  BY <1>0, <1>1 DEF AcceptSubmission, IntakeRun, EndIntakeRun
<1>2. CASE ClerkDies
  <2>1. CASE clerk.submission = NoSubmission
    BY <1>0, <1>2, <2>1 DEF ClerkDies
  <2>2. CASE clerk.submission # NoSubmission
    <3>1. clerk.submission \in Submission
      BY <2>2 DEF IntakeTypeOK
    <3> QED
      BY <1>2, <2>2, <3>1, LeavingIsMishap DEF ClerkDies
  <2> QED
    BY <2>1, <2>2
<1>3. ASSUME NEW s \in Submission, TakeSubmission(s) \/ ReadBinding(s) \/ CreateCase(s) \/ DeliverWoo(s)
      PROVE  MishapInv'
  BY <1>0, <1>3 DEF TakeSubmission, ReadBinding, CreateCase, DeliverWoo
<1>4. ASSUME NEW s \in Submission, NEW p, NEW to, Mark(s, p, to)
      PROVE  MishapInv'
  BY <1>0, <1>4, LeavingIsMishap DEF Mark
<1> QED
  BY <1>1, <1>2, <1>3, <1>4 DEF IntakeNext, IntakeStep, MarkRegistered, MarkFailed

LEMMA MishapsKeep == IntakeSafetySpec => []MishapInv
<1>1. IntakeInit => MishapInv
  BY DEF IntakeInit, MishapInv
<1>2. IntakeTypeOK /\ MishapInv /\ [IntakeNext]_intakeVars => MishapInv'
  BY MishapKeeps DEF intakeVars, MishapInv
<1> QED
  BY <1>1, <1>2, IntakeTypeCorrect, PTL DEF IntakeSafetySpec

(* More than one case is made of a submission only by runs that made one   *)
(* and left it queued, which for one with an id takes a trouble            *)
(* (PortalIntakeDeliveryJob::deliver, 111-154).                            *)
THEOREM CasesAreBounded == IntakeSafetySpec => []CasesBounded
<1>1. IntakeInv /\ MishapInv => CasesBounded
  BY DEF IntakeInv, MadeInv, MishapInv, CasesBounded
<1> QED
  BY <1>1, IntakeKeeps, MishapsKeep, PTL

-----------------------------------------------------------------------------

(* The status an outbox shows for the submissions.                         *)
IntakeShown == [q \in Submission |->
  CASE state[q] = "queued" -> "waiting"
    [] state[q] = "registered" -> "delivered"
    [] OTHER -> state[q]]

LEMMA StandingShowsIntake ==
  ASSUME UNCHANGED <<state, made>>
  PROVE  UNCHANGED IntakePromise!vars
  BY DEF IntakePromise!vars

LEMMA AcceptAccepts ==
  ASSUME IntakeTypeOK, NEW s \in Submission, AcceptSubmission(s)
  PROVE  IntakePromise!Accept(s)
<1>1. IntakeShown' = [IntakeShown EXCEPT ![s] = "waiting"]
  BY DEF IntakeTypeOK, IntakeShown, AcceptSubmission
<1>2. IntakeShown[s] = "none"
  BY DEF IntakeShown, AcceptSubmission
<1> QED
  BY <1>1, <1>2 DEF IntakePromise!Accept, IntakePromise!Move, IntakeShown, AcceptSubmission

(* Making a case is work on a submission that waits.                       *)
LEMMA MakingWorks ==
  ASSUME IntakeInv, NEW s \in Submission, ClerkAt("case", s) \/ ClerkAt("woo", s),
         NEW n \in {0, 1}, made' = RaiseCase(made, s, n), UNCHANGED state
  PROVE  IntakePromise!Work(s) \/ UNCHANGED IntakePromise!vars
<1>1. state[s] = "queued"
  BY AtWork
<1>2. CASE n = 1
  BY <1>1, <1>2 DEF IntakePromise!Work, RaiseCase
<1>3. CASE n = 0
  <2>1. made' = made
    BY <1>3 DEF IntakeInv, IntakeTypeOK, RaiseCase
  <2> QED
    BY <2>1, StandingShowsIntake
<1> QED
  BY <1>2, <1>3

LEMMA RegisterDelivers ==
  ASSUME IntakeInv, NEW s \in Submission, MarkRegistered(s)
  PROVE  IntakePromise!Deliver(s) \/ UNCHANGED IntakePromise!vars
<1>1. ClerkAt("register", s)
  BY DEF MarkRegistered, Mark
<1>2. state[s] = "queued" /\ made[s] \in Nat /\ doubled[s] \in Nat
  BY <1>1, AtWork
<1>3. clerk.submission = s /\ clerk.made
  BY <1>1 DEF ClerkAt, IntakeInv, ClerkInv
<1>4. made[s] > 0
  BY <1>2, <1>3 DEF IntakeInv, MadeInv, ThisClerk
<1>5. CASE state' = [state EXCEPT ![s] = "registered"]
  <2>1. IntakeShown' = [IntakeShown EXCEPT ![s] = "delivered"]
    BY <1>5 DEF IntakeInv, IntakeTypeOK, IntakeShown
  <2>2. IntakeShown[s] = "waiting"
    BY <1>2 DEF IntakeShown
  <2>3. UNCHANGED made
    BY DEF MarkRegistered, Mark
  <2> QED
    BY <1>4, <2>1, <2>2, <2>3 DEF IntakePromise!Deliver, IntakePromise!Move, IntakeShown
<1>6. CASE UNCHANGED state
  BY <1>6, StandingShowsIntake DEF MarkRegistered, Mark
<1> QED
  BY <1>5, <1>6 DEF MarkRegistered, Mark

LEMMA FailedGivesUp ==
  ASSUME IntakeInv, NEW s \in Submission, MarkFailed(s)
  PROVE  IntakePromise!GiveUp(s) \/ UNCHANGED IntakePromise!vars
<1>1. ClerkAt("fail", s)
  BY DEF MarkFailed, Mark
<1>2. state[s] = "queued"
  BY <1>1, AtWork
<1>3. CASE state' = [state EXCEPT ![s] = "failed"]
  <2>1. IntakeShown' = [IntakeShown EXCEPT ![s] = "failed"]
    BY <1>3 DEF IntakeInv, IntakeTypeOK, IntakeShown
  <2>2. IntakeShown[s] = "waiting"
    BY <1>2 DEF IntakeShown
  <2>3. UNCHANGED made
    BY DEF MarkFailed, Mark
  <2> QED
    BY <2>1, <2>2, <2>3 DEF IntakePromise!GiveUp, IntakePromise!Move, IntakeShown
<1>4. CASE UNCHANGED state
  BY <1>4, StandingShowsIntake DEF MarkFailed, Mark
<1> QED
  BY <1>3, <1>4 DEF MarkFailed, Mark

LEMMA IntakeStepMaps ==
  ASSUME IntakeInv, IntakeNext
  PROVE  [IntakePromise!Next]_(IntakePromise!vars)
<1>1. CASE \E s \in Submission : AcceptSubmission(s)
  BY <1>1, AcceptAccepts DEF IntakeInv, IntakePromise!Next
<1>2. CASE IntakeRun \/ EndIntakeRun \/ ClerkDies
  BY <1>2, StandingShowsIntake DEF IntakeRun, EndIntakeRun, ClerkDies
<1>3. ASSUME NEW s \in Submission, TakeSubmission(s) \/ ReadBinding(s)
      PROVE  [IntakePromise!Next]_(IntakePromise!vars)
  BY <1>3, StandingShowsIntake DEF TakeSubmission, ReadBinding
<1>4. ASSUME NEW s \in Submission, CreateCase(s) \/ DeliverWoo(s)
      PROVE  [IntakePromise!Next]_(IntakePromise!vars)
  <2>1. /\ ClerkAt("case", s) \/ ClerkAt("woo", s)
        /\ \E n \in {0, 1} : made' = RaiseCase(made, s, n)
        /\ UNCHANGED state
    BY <1>4 DEF CreateCase, DeliverWoo
  <2> QED
    BY <2>1, MakingWorks DEF IntakePromise!Next
<1>5. ASSUME NEW s \in Submission, MarkRegistered(s) \/ MarkFailed(s)
      PROVE  [IntakePromise!Next]_(IntakePromise!vars)
  BY <1>5, RegisterDelivers, FailedGivesUp DEF IntakePromise!Next
<1> QED
  BY <1>1, <1>2, <1>3, <1>4, <1>5 DEF IntakeNext, IntakeStep

(* The intake delivery implements an outbox, whatever dies or is refused:  *)
(* nothing is called registered for which nothing was made, and what is    *)
(* settled stays so (PortalIntakeQueue's header; deliver, 111-154).        *)
THEOREM IntakeImplementsOutbox == IntakeSafetySpec => IntakePromise!SafetySpec
<1>1. IntakeInit => IntakePromise!Init
  BY DEF IntakeInit, IntakePromise!Init
<1>2. IntakeInv /\ [IntakeNext]_intakeVars => [IntakePromise!Next]_(IntakePromise!vars)
  BY IntakeStepMaps, StandingShowsIntake DEF intakeVars
<1> QED
  BY <1>1, <1>2, IntakeKeeps, PTL DEF IntakeSafetySpec, IntakePromise!SafetySpec

-----------------------------------------------------------------------------
(* QuietPush: the arithmetic of days and quiet hours                       *)

LEMMA DivisionParts ==
  ASSUME NEW t \in Int, NEW d \in Int, d > 0
  PROVE  t % d = t - d * (t \div d)
  OBVIOUS

(* The hours before the day of an hour, and the hour of the day.           *)
DayStart(t) == Day * (t \div Day)
Clock(t) == t % Day

LEMMA DayParts ==
  ASSUME NEW t \in Nat
  PROVE  /\ Clock(t) \in 0..(Day - 1)
         /\ t \div Day \in Nat
         /\ DayStart(t) \in Nat
         /\ t = DayStart(t) + Clock(t)
<1>1. Clock(t) \in 0..(Day - 1)
  BY PushConstants DEF Clock
<1>2. t \div Day \in Nat
  BY PushConstants
<1>3. DayStart(t) \in Nat
  BY <1>2, PushConstants DEF DayStart
<1>4. Clock(t) = t - DayStart(t)
  BY DivisionParts, PushConstants DEF DayStart, Clock
<1> QED
  BY <1>1, <1>2, <1>3, <1>4, PushConstants

LEMMA DaysApart ==
  ASSUME NEW a \in Int, NEW b \in Int, a > b
  PROVE  /\ Day * a \in Int /\ Day * b \in Int
         /\ Day * a >= Day * b + Day
<1>1. a - b >= 1
  OBVIOUS
<1>2. Day * (a - b) >= Day
  BY <1>1, PushConstants
<1>3. Day * (a - b) = Day * a - Day * b
  BY PushConstants
<1>4. Day * a \in Int /\ Day * b \in Int
  BY PushConstants
<1> QED
  BY <1>2, <1>3, <1>4, PushConstants

(* An hour has one day and one hour of the day.                            *)
LEMMA OneClock ==
  ASSUME NEW q \in Nat, NEW r \in 0..(Day - 1), NEW t \in Nat, t = Day * q + r
  PROVE  Clock(t) = r
<1>1. Clock(t) \in 0..(Day - 1) /\ t \div Day \in Nat /\ DayStart(t) \in Nat /\ t = DayStart(t) + Clock(t)
  BY DayParts
<1>2. Day * q \in Int
  BY PushConstants
<1>3. ~(q > t \div Day)
  <2> SUFFICES ASSUME q > t \div Day PROVE FALSE
    OBVIOUS
  <2>1. Day * q >= DayStart(t) + Day
    BY <1>1, DaysApart DEF DayStart
  <2> QED
    BY <2>1, <1>1, <1>2, PushConstants
<1>4. ~(q < t \div Day)
  <2> SUFFICES ASSUME q < t \div Day PROVE FALSE
    OBVIOUS
  <2>1. DayStart(t) >= Day * q + Day
    BY <1>1, DaysApart DEF DayStart
  <2> QED
    BY <2>1, <1>1, <1>2, PushConstants
<1>5. q = t \div Day
  BY <1>1, <1>3, <1>4
<1>6. DayStart(t) = Day * q
  BY <1>5 DEF DayStart
<1> QED
  BY <1>1, <1>2, <1>6, PushConstants

(* The hours of the day t falls on, and of the next.                       *)
LEMMA ClockOf ==
  ASSUME NEW t \in Nat, NEW u \in Nat, NEW x \in 0..(Day - 1), t - Clock(t) + x = u \/ t - Clock(t) + Day + x = u
  PROVE  Clock(u) = x
<1> DEFINE q == t \div Day
<1>1. Clock(t) \in 0..(Day - 1) /\ q \in Nat /\ DayStart(t) \in Nat /\ t = DayStart(t) + Clock(t)
  BY DayParts
<1>2. DayStart(t) = Day * q
  BY DEF DayStart
<1>3. u = DayStart(t) + x \/ u = DayStart(t) + Day + x
  <2>1. t - Clock(t) = DayStart(t)
    BY <1>1, PushConstants
  <2> QED
    BY <2>1
<1> HIDE DEF q
<1>4. Day * (q + 1) = Day * q + Day
  BY <1>1, PushConstants
<1>5. CASE u = DayStart(t) + x
  BY <1>1, <1>2, <1>5, OneClock
<1>6. CASE u = DayStart(t) + Day + x
  <2>1. u = Day * (q + 1) + x
    BY <1>2, <1>4, <1>6
  <2>2. q + 1 \in Nat
    BY <1>1
  <2> QED
    BY <2>1, <2>2, OneClock
<1> QED
  BY <1>3, <1>5, <1>6

(* Quiet hours end within a day, are quiet till then and not after.        *)
LEMMA WindowEndsQuiet ==
  ASSUME NEW w \in Window, NEW t \in Nat, Quiet(w, t)
  PROVE  /\ WindowEnd(w, t) > t
         /\ ~Quiet(w, WindowEnd(w, t))
         /\ \A u \in t..(WindowEnd(w, t) - 1) : Quiet(w, u)
<1> DEFINE c == Clock(t)
           e == WindowEnd(w, t)
<1>1. c \in 0..(Day - 1) /\ c <= t
  BY DayParts, PushConstants
<1>2. w.start \in 0..(Day - 1) /\ w.end \in 0..(Day - 1)
  BY DEF Window, Hour
<1>3. \/ e = t - c + w.end /\ w.end > c
      \/ e = t - c + Day + w.end /\ w.end <= c
  BY <1>1, <1>2, PushConstants DEF WindowEnd, Clock
<1>4. e \in Nat /\ e > t
  BY <1>1, <1>2, <1>3, PushConstants
<1>5. Clock(e) = w.end
  <2> HIDE DEF e
  <2> QED
    BY <1>2, <1>3, <1>4, ClockOf
<1>6. ~Quiet(w, e)
  BY <1>2, <1>5 DEF Quiet, Clock
<1>7. ASSUME NEW u \in t..(e - 1)
      PROVE  Quiet(w, u)
  <2> HIDE DEF c, e
  <2>1. u \in Nat /\ t - c + Day > t
    BY <1>1, <1>4, <1>7, PushConstants
  <2>2. CASE u < t - c + Day
    <3> DEFINE x == u - (t - c)
    <3>1. x \in 0..(Day - 1) /\ x >= c
      BY <1>1, <1>4, <1>7, <2>2, PushConstants
    <3>2. t - Clock(t) + x = u
      BY <1>1, <2>1 DEF c
    <3>3. Clock(u) = x
      <4> HIDE DEF x
      <4> QED
        BY <3>1, <3>2, <2>1, ClockOf
    <3>4. w.end > c => x < w.end
      BY <1>1, <1>2, <1>3, <1>4, <1>7
    <3> QED
      BY <1>1, <1>2, <1>3, <3>1, <3>3, <3>4 DEF Quiet, Clock, c
  <2>3. CASE u >= t - c + Day
    <3> DEFINE x == u - (t - c) - Day
    <3>1. e = t - c + Day + w.end /\ w.end <= c
      BY <1>1, <1>2, <1>3, <1>4, <1>7, <2>3, PushConstants
    <3>2. x \in 0..(Day - 1) /\ x < w.end
      BY <1>1, <1>2, <1>4, <1>7, <2>3, <3>1, PushConstants
    <3>3. t - Clock(t) + Day + x = u
      BY <1>1, <2>1, PushConstants DEF c
    <3>4. Clock(u) = x
      <4> HIDE DEF x
      <4> QED
        BY <3>2, <3>3, <2>1, ClockOf
    <3>5. w.start > w.end
      BY <1>1, <1>2, <3>1, <3>2 DEF Quiet, Clock, c
    <3> QED
      BY <1>2, <3>2, <3>4, <3>5 DEF Quiet, Clock
  <2> QED
    BY <1>1, <2>1, <2>2, <2>3, PushConstants
<1> QED
  BY <1>4, <1>6, <1>7

(* A push is queued till some time within a day after the last look.       *)
LEMMA WindowEndTyped ==
  ASSUME NEW w \in Window, NEW t \in 0..LastHour
  PROVE  WindowEnd(w, t) \in 0..(LastHour + Day)
<1>1. Clock(t) \in 0..(Day - 1) /\ DayStart(t) \in Nat /\ t = DayStart(t) + Clock(t)
  BY DayParts, PushConstants
<1>2. w.end \in 0..(Day - 1)
  BY DEF Window, Hour
<1> QED
  BY <1>1, <1>2, PushConstants DEF WindowEnd, Clock

-----------------------------------------------------------------------------
(* QuietPush                                                               *)

PushRow == [status : {"none", "asked", "queued", "delivered"}, due : 0..(LastHour + Day)]
PusherJob == [phase : {"idle", "page", "row", "save"}, at : 0..LastHour,
              left : SUBSET Push, seen : SUBSET Push, more : BOOLEAN, push : Push \cup {NoPush}]

(* A request that met quiet hours has no row yet, and while looks are      *)
(* steady it met what there is to see now.                                 *)
CallerInv ==
  caller # NoPush =>
    /\ pending[caller].status = "asked"
    /\ steady => found[caller] = [at |-> hour, window |-> window] /\ Quiet(window, hour)

(* The push that is about to be marked was sent, and was not marked yet.   *)
SaveInv ==
  pusher.phase = "save" =>
    /\ pusher.push \in Push
    /\ pending[pusher.push].status = "queued"
    /\ pushed[pusher.push] > 0

DeferInv ==
  steady => \A m \in PendingPushes :
    /\ Quiet(found[m].window, found[m].at)
    /\ pending[m].due = WindowEnd(found[m].window, found[m].at)

PushInv == PushTypeOK /\ CallerInv /\ SaveInv /\ DeferInv

LEMMA HiccupTyped ==
  ASSUME PushTypeOK, Hiccup \/ UNCHANGED hiccups
  PROVE  hiccups' \in 0..MaxHiccups
  BY PushConstants DEF PushTypeOK, Hiccup

LEMMA PusherTyped ==
  ASSUME PushTypeOK
  PROVE  /\ pusher \in PusherJob /\ NoRun \in PusherJob /\ NoRun.phase = "idle"
         /\ \A m \in Push : AfterRow(m) \in PusherJob /\ AfterRow(m).phase # "save"
<1>1. pusher \in PusherJob
  BY DEF PushTypeOK, PusherJob
<1>2. NoRun \in PusherJob /\ NoRun.phase = "idle"
  BY PushConstants DEF NoRun, PusherJob
<1>3. ASSUME NEW m \in Push
      PROVE  AfterRow(m) \in PusherJob /\ AfterRow(m).phase # "save"
  BY <1>1, <1>2 DEF AfterRow, PusherJob
<1> QED
  BY <1>1, <1>2, <1>3

(* The job goes on, and touches no row.                                    *)
LEMMA RunningKeeps ==
  ASSUME PushInv, pusher' \in PusherJob, pusher'.phase # "save", Hiccup \/ UNCHANGED hiccups,
         unmarked' \in [Push -> Nat],
         UNCHANGED <<hour, window, pending, pushed, caller, found, steady, undated, unnamed, delivers>>
  PROVE  PushInv'
<1>1. PushTypeOK'
  BY HiccupTyped DEF PushInv, PushTypeOK, PusherJob
<1>2. CallerInv' /\ SaveInv' /\ DeferInv'
  BY DEF PushInv, CallerInv, SaveInv, DeferInv, PendingPushes
<1> QED
  BY <1>1, <1>2 DEF PushInv

LEMMA PushRunKeeps ==
  ASSUME PushInv, PushRun,
         UNCHANGED <<steady, undated, unnamed, delivers>>
  PROVE  PushInv'
<1>1. pusher' \in PusherJob /\ pusher'.phase # "save"
  BY PusherTyped DEF PushInv, PushTypeOK, PushRun, PusherJob, NoRun
<1> QED
  BY <1>1, RunningKeeps DEF PushRun, PushInv, PushTypeOK

LEMMA ReadPageKeeps ==
  ASSUME PushInv, ReadPage,
         UNCHANGED <<steady, undated, unnamed, delivers>>
  PROVE  PushInv'
<1>1. CASE pusher' = NoRun
  BY <1>1, PusherTyped, RunningKeeps DEF PushInv, PushTypeOK, ReadPage
<1>2. ASSUME NEW rows \in SUBSET (PendingPushes \ pusher.seen), UNCHANGED hiccups,
             pusher' = [pusher EXCEPT !.phase = "row", !.left = rows, !.seen = @ \cup rows,
                                      !.more = Cardinality(rows) = Page]
      PROVE  PushInv'
  <2>1. pusher \in PusherJob /\ rows \in SUBSET Push
    BY PusherTyped DEF PushInv, PendingPushes
  <2> DEFINE full == Cardinality(rows) = Page
  <2>2. full \in BOOLEAN /\ pusher.seen \cup rows \in SUBSET Push
    BY <2>1 DEF PusherJob
  <2>3. pusher' = [pusher EXCEPT !.phase = "row", !.left = rows, !.seen = pusher.seen \cup rows, !.more = full]
    BY <1>2
  <2> HIDE DEF full
  <2>4. pusher' \in PusherJob /\ pusher'.phase = "row"
    BY <2>1, <2>2, <2>3 DEF PusherJob
  <2> QED
    BY <1>2, <2>4, RunningKeeps DEF ReadPage, PushInv, PushTypeOK
<1> QED
  BY <1>1, <1>2 DEF ReadPage

(* A count that was raised is a count.                                     *)
LEMMA RaisedPush ==
  ASSUME NEW f \in [Push -> Nat], NEW m \in Push
  PROVE  /\ RaisePush(f, m) \in [Push -> Nat]
         /\ \A p \in Push : RaisePush(f, m)[p] = IF p = m THEN f[p] + 1 ELSE f[p]
  BY DEF RaisePush

LEMMA DeliverIfDueKeeps ==
  ASSUME PushInv, NEW m \in Push, DeliverIfDue(m),
         UNCHANGED <<steady, undated, unnamed, delivers>>
  PROVE  PushInv'
<1>0. unmarked \in [Push -> Nat] /\ pushed \in [Push -> Nat]
  BY DEF PushInv, PushTypeOK
<1>1. CASE pusher' = AfterRow(m) /\ UNCHANGED <<pushed, unmarked>> /\ (Hiccup \/ UNCHANGED hiccups)
  BY <1>0, <1>1, PusherTyped, RunningKeeps DEF PushInv, DeliverIfDue
<1>2. CASE /\ Due(m)
           /\ pushed' = RaisePush(pushed, m)
           /\ \/ pusher' = AfterRow(m) /\ unmarked' = RaisePush(unmarked, m)
              \/ pusher' = [pusher EXCEPT !.phase = "save", !.push = m] /\ UNCHANGED unmarked
           /\ UNCHANGED hiccups
  <2>0. UNCHANGED <<hour, window, pending, caller, found>>
    BY DEF DeliverIfDue
  <2>1. /\ pusher' \in PusherJob
        /\ pusher'.phase = "save" => pusher'.push = m
    BY <1>2, PusherTyped DEF PushInv, PusherJob
  <2>2. /\ pushed' \in [Push -> Nat]
        /\ pushed'[m] > 0
        /\ unmarked' \in [Push -> Nat]
    BY <1>0, <1>2, RaisedPush
  <2>3. PushTypeOK'
    BY <1>2, <2>0, <2>1, <2>2 DEF PushInv, PushTypeOK, PusherJob
  <2>4. SaveInv'
    BY <1>2, <2>0, <2>1, <2>2 DEF SaveInv, Due
  <2>5. CallerInv' /\ DeferInv'
    BY <2>0 DEF PushInv, CallerInv, DeferInv, PendingPushes
  <2> QED
    BY <2>3, <2>4, <2>5 DEF PushInv
<1> QED
  BY <1>1, <1>2 DEF DeliverIfDue

LEMMA MarkDeliveredKeeps ==
  ASSUME PushInv, MarkDelivered,
         UNCHANGED <<steady, undated, unnamed, delivers>>
  PROVE  PushInv'
<1> DEFINE m == pusher.push
<1>1. m \in Push /\ pending[m].status = "queued"
  BY DEF PushInv, SaveInv, MarkDelivered
<1>2. pusher' \in PusherJob /\ pusher'.phase # "save"
  BY <1>1, PusherTyped DEF PushInv, MarkDelivered
<1>3. CASE UNCHANGED pending /\ Hiccup /\ unmarked' = RaisePush(unmarked, m)
  <2>1. unmarked' \in [Push -> Nat]
    BY <1>1, <1>3, RaisedPush DEF PushInv, PushTypeOK
  <2> QED
    BY <1>2, <1>3, <2>1, RunningKeeps DEF MarkDelivered
<1>4. CASE pending' = [pending EXCEPT ![m].status = "delivered"] /\ UNCHANGED <<hiccups, unmarked>>
  <2>1. pending \in [Push -> PushRow]
    BY DEF PushInv, PushTypeOK, PushRow
  <2>2. /\ pending' \in [Push -> PushRow]
        /\ \A p \in Push : pending'[p].due = pending[p].due
        /\ \A p \in Push : p # m => pending'[p] = pending[p]
        /\ pending'[m].status = "delivered"
    BY <1>1, <1>4, <2>1 DEF PushRow
  <2>3. PushTypeOK'
    BY <1>2, <1>4, <2>2 DEF PushInv, PushTypeOK, PushRow, PusherJob, MarkDelivered
  <2>4. CallerInv'
    <3>1. caller # NoPush => caller # m /\ caller \in Push
      BY <1>1 DEF PushInv, PushTypeOK, CallerInv
    <3> QED
      BY <2>2, <3>1 DEF PushInv, CallerInv, MarkDelivered
  <2>5. SaveInv'
    BY <1>2 DEF SaveInv
  <2>6. DeferInv'
    <3>1. PendingPushes' = PendingPushes
      BY <1>1, <2>2 DEF PendingPushes
    <3>2. \A p \in PendingPushes : p \in Push
      BY DEF PendingPushes
    <3> QED
      BY <2>2, <3>1, <3>2 DEF PushInv, DeferInv, MarkDelivered
  <2> QED
    BY <2>3, <2>4, <2>5, <2>6 DEF PushInv
<1> QED
  BY <1>3, <1>4 DEF MarkDelivered

LEMMA PusherDiesKeeps ==
  ASSUME PushInv, PusherDies,
         UNCHANGED <<steady, undated, unnamed, delivers>>
  PROVE  PushInv'
<1>1. unmarked' \in [Push -> Nat]
  BY RaisedPush DEF PushInv, PushTypeOK, SaveInv, PusherDies
<1>2. pusher' \in PusherJob /\ pusher'.phase # "save"
  BY PusherTyped DEF PushInv, PusherDies
<1> QED
  BY <1>1, <1>2, RunningKeeps DEF PusherDies

LEMMA SetWindowKeeps ==
  ASSUME PushInv, NEW w \in Window, SetWindow(w),
         UNCHANGED <<steady, undated, unnamed, delivers>>
  PROVE  PushInv'
<1>1. PushTypeOK'
  BY DEF PushInv, PushTypeOK, SetWindow
<1>2. CallerInv' /\ SaveInv' /\ DeferInv'
  BY DEF PushInv, CallerInv, SaveInv, DeferInv, PendingPushes, SetWindow
<1> QED
  BY <1>1, <1>2 DEF PushInv

LEMMA HourPassesKeeps ==
  ASSUME PushInv, HourPasses,
         UNCHANGED <<steady, undated, unnamed, delivers>>
  PROVE  PushInv'
<1>1. PushTypeOK'
  BY PushConstants DEF PushInv, PushTypeOK, HourPasses
<1>2. CallerInv' /\ SaveInv' /\ DeferInv'
  BY DEF PushInv, CallerInv, SaveInv, DeferInv, PendingPushes, HourPasses
<1> QED
  BY <1>1, <1>2 DEF PushInv

(* A push that is asked for has no row, and had none.                      *)
LEMMA DeliverPushKeeps ==
  ASSUME PushInv, NEW m \in Push, DeliverPush(m),
         UNCHANGED <<steady, undated, unnamed, delivers>>
  PROVE  PushInv'
<1>1. pending \in [Push -> PushRow] /\ found \in [Push -> Look] /\ hour \in 0..LastHour
  BY DEF PushInv, PushTypeOK, PushRow
<1>2. /\ pending' \in [Push -> PushRow]
      /\ \A p \in Push : p # m => pending'[p] = pending[p]
      /\ pending'[m].status = "asked"
  BY <1>1 DEF PushRow, DeliverPush
<1>3. PendingPushes' = PendingPushes /\ m \notin PendingPushes
  BY <1>2 DEF PendingPushes, DeliverPush
<1>4. SaveInv'
  BY <1>2 DEF PushInv, SaveInv, DeliverPush
<1>5. CASE UNCHANGED <<caller, found, hiccups>>
  <2>1. PushTypeOK'
    BY <1>2, <1>5 DEF PushInv, PushTypeOK, PushRow, DeliverPush
  <2>2. CallerInv'
    BY <1>5 DEF CallerInv, DeliverPush
  <2>3. DeferInv'
    <3>1. \A p \in PendingPushes : p \in Push /\ p # m
      BY <1>3 DEF PendingPushes
    <3> QED
      BY <1>2, <1>3, <1>5, <3>1 DEF PushInv, DeferInv
  <2> QED
    BY <1>4, <2>1, <2>2, <2>3 DEF PushInv
<1>6. ASSUME NEW w \in Window, Resolve(w), Quiet(w, hour), caller' = m,
             found' = [found EXCEPT ![m] = [at |-> hour, window |-> w]]
      PROVE  PushInv'
  <2>1. [at |-> hour, window |-> w] \in Look
    BY <1>1 DEF Look
  <2>2. /\ found' \in [Push -> Look]
        /\ \A p \in Push : p # m => found'[p] = found[p]
        /\ found'[m] = [at |-> hour, window |-> w]
    BY <1>1, <1>6, <2>1
  <2>3. PushTypeOK'
    <3>1. hiccups' \in 0..MaxHiccups
      BY <1>6, HiccupTyped DEF PushInv, Resolve
    <3> QED
      BY <1>2, <1>6, <2>2, <3>1 DEF PushInv, PushTypeOK, PushRow, DeliverPush
  <2>4. CallerInv'
    <3>1. steady => w = window
      BY <1>6 DEF Resolve
    <3> QED
      BY <1>2, <1>6, <2>2, <3>1 DEF CallerInv, DeliverPush
  <2>5. DeferInv'
    <3>1. \A p \in PendingPushes : p \in Push /\ p # m
      BY <1>3 DEF PendingPushes
    <3> QED
      BY <1>2, <1>3, <2>2, <3>1 DEF PushInv, DeferInv
  <2> QED
    BY <1>4, <2>3, <2>4, <2>5 DEF PushInv
<1> QED
  BY <1>5, <1>6 DEF DeliverPush

LEMMA QueuePushKeeps ==
  ASSUME PushInv, QueuePush,
         UNCHANGED <<steady, undated, unnamed, delivers>>
  PROVE  PushInv'
<1>1. caller \in Push /\ pending[caller].status = "asked" /\ caller' = NoPush
  BY DEF PushInv, PushTypeOK, CallerInv, QueuePush
<1>2. pending \in [Push -> PushRow] /\ hour \in 0..LastHour
  BY DEF PushInv, PushTypeOK, PushRow
<1>3. CallerInv'
  BY <1>1 DEF CallerInv
<1>4. CASE UNCHANGED pending /\ Hiccup
  <2>1. PushTypeOK'
    BY <1>1, <1>4, HiccupTyped DEF PushInv, PushTypeOK, QueuePush
  <2>2. SaveInv' /\ DeferInv'
    BY <1>4 DEF PushInv, SaveInv, DeferInv, PendingPushes, QueuePush
  <2> QED
    BY <1>3, <2>1, <2>2 DEF PushInv
<1>5. ASSUME NEW w \in Window, Resolve(w),
             pending' = [pending EXCEPT ![caller] = [status |-> "queued", due |-> WindowEnd(w, hour)]]
      PROVE  PushInv'
  <2>1. [status |-> "queued", due |-> WindowEnd(w, hour)] \in PushRow
    BY <1>2, WindowEndTyped DEF PushRow
  <2>2. /\ pending' \in [Push -> PushRow]
        /\ \A p \in Push : p # caller => pending'[p] = pending[p]
        /\ pending'[caller] = [status |-> "queued", due |-> WindowEnd(w, hour)]
    BY <1>1, <1>2, <1>5, <2>1
  <2>3. PushTypeOK'
    <3>1. hiccups' \in 0..MaxHiccups
      BY <1>5, HiccupTyped DEF PushInv, Resolve
    <3> QED
      BY <1>1, <2>2, <3>1 DEF PushInv, PushTypeOK, PushRow, QueuePush
  <2>4. SaveInv'
    <3>1. pusher.phase = "save" => pusher.push # caller
      BY <1>1 DEF PushInv, SaveInv
    <3> QED
      BY <2>2, <3>1 DEF PushInv, SaveInv, QueuePush
  <2>5. DeferInv'
    <3>1. PendingPushes' = PendingPushes \cup {caller}
      BY <1>1, <2>2 DEF PendingPushes
    <3>2. steady => /\ w = window
                    /\ found[caller] = [at |-> hour, window |-> window]
                    /\ Quiet(window, hour)
      BY <1>1, <1>5, PushConstants DEF PushInv, CallerInv, Resolve
    <3>3. steady => /\ Quiet(found[caller].window, found[caller].at)
                    /\ pending'[caller].due = WindowEnd(found[caller].window, found[caller].at)
      BY <2>2, <3>2
    <3>4. \A p \in PendingPushes : p \in Push /\ p # caller
      BY <1>1 DEF PendingPushes
    <3> QED
      BY <2>2, <3>1, <3>3, <3>4 DEF PushInv, DeferInv, QueuePush
  <2> QED
    BY <1>3, <2>3, <2>4, <2>5 DEF PushInv
<1> QED
  BY <1>4, <1>5 DEF QueuePush

LEMMA PushesKeep == PushSafetySpec => []PushInv
<1>1. PushInit => PushInv
  <2> SUFFICES ASSUME PushInit PROVE PushInv
    OBVIOUS
  <2>1. NoPending \in PushRow
    BY PushConstants DEF NoPending, PushRow
  <2>2. NoRun \in PusherJob /\ NoRun.phase = "idle"
    BY PushConstants DEF NoRun, PusherJob
  <2>3. [at |-> 0, window |-> window] \in Look
    BY PushConstants DEF PushInit, Look
  <2>4. PushTypeOK
    BY <2>1, <2>2, <2>3, PushConstants DEF PushInit, PushTypeOK, PushRow, PusherJob
  <2>5. CallerInv /\ SaveInv /\ DeferInv
    BY <2>2 DEF PushInit, CallerInv, SaveInv, DeferInv, PendingPushes, NoPending
  <2> QED
    BY <2>4, <2>5 DEF PushInv
<1>2. ASSUME PushInv, [PushNext]_pushVars
      PROVE  PushInv'
  <2>1. CASE PushNext
    BY <1>2, <2>1, SetWindowKeeps, DeliverPushKeeps, QueuePushKeeps, PushRunKeeps, ReadPageKeeps,
       DeliverIfDueKeeps, MarkDeliveredKeeps, PusherDiesKeeps, HourPassesKeeps DEF PushNext, PushAct, PushStep, pushFixed
  <2>2. CASE UNCHANGED pushVars
    BY <1>2, <2>2 DEF pushVars, pushFixed, PushInv, PushTypeOK, CallerInv, SaveInv, DeferInv, PendingPushes
  <2> QED
    BY <1>2, <2>1, <2>2
<1> QED
  BY <1>1, <1>2, PTL DEF PushSafetySpec

(* A push was sent once for every run that did not mark it, and once more  *)
(* if it is about to be marked or was.                                     *)
ThisPush(m) == IF pusher.phase = "save" /\ pusher.push = m THEN 1 ELSE 0

PushedInv ==
  \A m \in Push :
    /\ pending[m].status # "delivered" => pushed[m] = unmarked[m] + ThisPush(m)
    /\ pushed[m] <= 1 + unmarked[m]
    /\ m \notin unnamed => unmarked[m] <= hiccups

(* Where nothing is sent, a run that ends without a mark counts.           *)
LEMMA RowDoneKeeps ==
  ASSUME PushInv, PushedInv, pusher'.phase # "save",
         IF pusher.phase = "save" THEN Hiccup /\ unmarked' = RaisePush(unmarked, pusher.push)
         ELSE UNCHANGED unmarked /\ (Hiccup \/ UNCHANGED hiccups),
         UNCHANGED <<pending, pushed, unnamed>>
  PROVE  PushedInv'
<1>1. unmarked \in [Push -> Nat] /\ pushed \in [Push -> Nat] /\ hiccups \in Nat
  BY DEF PushInv, PushTypeOK
<1>2. CASE pusher.phase # "save"
  BY <1>1, <1>2 DEF PushedInv, ThisPush, Hiccup
<1>3. CASE pusher.phase = "save"
  <2>1. pusher.push \in Push
    BY <1>3 DEF PushInv, SaveInv
  <2>2. \A p \in Push : unmarked'[p] = IF p = pusher.push THEN unmarked[p] + 1 ELSE unmarked[p]
    BY <1>1, <1>3, <2>1, RaisedPush
  <2> QED
    BY <1>1, <1>3, <2>1, <2>2 DEF PushedInv, ThisPush, Hiccup
<1> QED
  BY <1>2, <1>3

LEMMA PushedKeeps ==
  ASSUME PushInv, PushedInv, PushNext
  PROVE  PushedInv'
<1>0. UNCHANGED unnamed
  BY DEF PushNext, pushFixed
<1>1. unmarked \in [Push -> Nat] /\ pushed \in [Push -> Nat] /\ hiccups \in Nat
      /\ pending \in [Push -> PushRow]
  BY DEF PushInv, PushTypeOK, PushRow
<1>2. \A m \in Push : AfterRow(m).phase # "save"
  BY PusherTyped DEF PushInv
<1>3. ASSUME UNCHANGED <<pushed, unmarked, pusher>>, Hiccup \/ UNCHANGED hiccups,
             \A m \in Push : pending'[m].status # "delivered" => pending[m].status # "delivered"
      PROVE  PushedInv'
  BY <1>0, <1>1, <1>3 DEF PushedInv, ThisPush, Hiccup
<1>4. CASE (\E w \in Window : SetWindow(w)) \/ HourPasses
  BY <1>3, <1>4 DEF SetWindow, HourPasses
<1>5. ASSUME NEW m \in Push, DeliverPush(m)
      PROVE  PushedInv'
  BY <1>1, <1>3, <1>5 DEF DeliverPush, Resolve, PushRow
<1>6. CASE QueuePush
  <2>1. pending[caller].status = "asked" /\ caller \in Push
    BY <1>6 DEF PushInv, PushTypeOK, CallerInv, QueuePush
  <2> QED
    BY <1>1, <1>3, <1>6, <2>1 DEF QueuePush, Resolve
<1>7. CASE PushRun
  <2>1. pusher.phase # "save" /\ pusher'.phase # "save"
    BY <1>7 DEF PushRun, NoRun
  <2> QED
    BY <1>0, <1>7, <2>1, RowDoneKeeps DEF PushRun
<1>8. CASE ReadPage
  <2>1. pusher.phase # "save"
    BY <1>8 DEF ReadPage
  <2>2. pusher'.phase # "save"
    <3>1. CASE pusher' = NoRun
      BY <3>1 DEF NoRun
    <3>2. ASSUME NEW rows,
                 pusher' = [pusher EXCEPT !.phase = "row", !.left = rows, !.seen = @ \cup rows,
                                          !.more = Cardinality(rows) = Page]
          PROVE  pusher'.phase # "save"
      <4> DEFINE full == Cardinality(rows) = Page
      <4>1. pusher' = [pusher EXCEPT !.phase = "row", !.left = rows, !.seen = pusher.seen \cup rows,
                                     !.more = full]
        BY <3>2
      <4> HIDE DEF full
      <4>2. pusher \in PusherJob
        BY PusherTyped DEF PushInv
      <4> QED
        BY <4>1, <4>2 DEF PusherJob
    <3> QED
      BY <1>8, <3>1, <3>2 DEF ReadPage
  <2> QED
    BY <1>0, <1>8, <2>1, <2>2, RowDoneKeeps DEF ReadPage
<1>9. CASE PusherDies
  <2>1. pusher'.phase # "save"
    BY <1>9 DEF PusherDies, NoRun
  <2> QED
    BY <1>0, <1>9, <2>1, RowDoneKeeps DEF PusherDies
<1>10. ASSUME NEW m \in Push, DeliverIfDue(m)
       PROVE  PushedInv'
  <2>0. pusher.phase = "row" /\ UNCHANGED pending
    BY <1>10 DEF DeliverIfDue
  <2>1. CASE pusher' = AfterRow(m) /\ UNCHANGED <<pushed, unmarked>> /\ (Hiccup \/ UNCHANGED hiccups)
    BY <1>0, <1>2, <2>0, <2>1, RowDoneKeeps
  <2>2. CASE /\ Due(m)
             /\ pushed' = RaisePush(pushed, m)
             /\ IF m \in unnamed
                THEN pusher' = AfterRow(m) /\ unmarked' = RaisePush(unmarked, m)
                ELSE pusher' = [pusher EXCEPT !.phase = "save", !.push = m] /\ UNCHANGED unmarked
             /\ UNCHANGED hiccups
    <3>1. \A p \in Push : pushed'[p] = IF p = m THEN pushed[p] + 1 ELSE pushed[p]
      BY <1>1, <2>2, RaisedPush
    <3>2. \A p \in Push : unmarked'[p] = IF p = m /\ m \in unnamed THEN unmarked[p] + 1 ELSE unmarked[p]
      BY <1>1, <2>2, RaisedPush
    <3>3. m \notin unnamed => pusher'.phase = "save" /\ pusher'.push = m
      BY <2>2 DEF PushInv, PushTypeOK
    <3>4. m \in unnamed => pusher'.phase # "save"
      BY <1>2, <2>2
    <3>5. pending[m].status = "queued"
      BY <2>2 DEF Due
    <3>6. pushed[m] = unmarked[m]
      BY <1>1, <2>0, <3>5 DEF PushedInv, ThisPush
    <3>7. ASSUME NEW p \in Push
          PROVE  /\ pending'[p].status # "delivered" => pushed'[p] = unmarked'[p] + ThisPush(p)'
                 /\ pushed'[p] <= 1 + unmarked'[p]
                 /\ p \notin unnamed' => unmarked'[p] <= hiccups'
      <4>1. CASE p = m
        BY <1>0, <1>1, <2>0, <2>2, <3>1, <3>2, <3>3, <3>4, <3>6, <4>1 DEF PushedInv, ThisPush
      <4>2. CASE p # m
        BY <1>0, <1>1, <2>0, <2>2, <3>1, <3>2, <3>3, <3>4, <4>2 DEF PushedInv, ThisPush
      <4> QED
        BY <4>1, <4>2
    <3> QED
      BY <3>7 DEF PushedInv
  <2> QED
    BY <1>10, <2>1, <2>2 DEF DeliverIfDue
<1>11. CASE MarkDelivered
  <2>1. pusher.phase = "save" /\ pusher.push \in Push /\ UNCHANGED pushed
    BY <1>11 DEF PushInv, SaveInv, MarkDelivered
  <2>2. pusher'.phase # "save"
    BY <1>2, <1>11, <2>1 DEF MarkDelivered
  <2>3. CASE Hiccup /\ unmarked' = RaisePush(unmarked, pusher.push) /\ UNCHANGED pending
    BY <1>0, <2>1, <2>2, <2>3, RowDoneKeeps
  <2>4. CASE pending' = [pending EXCEPT ![pusher.push].status = "delivered"] /\ UNCHANGED <<hiccups, unmarked>>
    <3>1. \A p \in Push : pending'[p].status = IF p = pusher.push THEN "delivered" ELSE pending[p].status
      BY <1>1, <2>1, <2>4 DEF PushRow
    <3> QED
      BY <1>0, <1>1, <2>1, <2>2, <2>4, <3>1 DEF PushedInv, ThisPush
  <2> QED
    BY <1>11, <2>3, <2>4 DEF MarkDelivered
<1> QED
  BY <1>4, <1>5, <1>6, <1>7, <1>8, <1>9, <1>10, <1>11 DEF PushNext, PushAct, PushStep

(* A deferred push is sent again only for runs that sent it and did not    *)
(* mark it, which for a row with an id takes a trouble                     *)
(* (PendingPushService::deliverIfDue, 187-221).                            *)
THEOREM PushesAreBounded == PushSafetySpec => []PushesBounded
<1>1. PushInit => PushedInv
  BY DEF PushInit, PushedInv, ThisPush, NoRun
<1>2. PushInv /\ PushedInv /\ [PushNext]_pushVars => PushedInv'
  BY PushedKeeps DEF pushVars, pushFixed, PushedInv, ThisPush
<1>3. PushedInv => PushesBounded
  BY DEF PushedInv, PushesBounded
<1> QED
  BY <1>1, <1>2, <1>3, PushesKeep, PTL DEF PushSafetySpec

(* Whatever the three jobs meet, what they do twice is explained by the    *)
(* troubles they had, unless a row cannot be written to.                   *)
THEOREM RepeatsAreExplained == DeliveriesSafetySpec => []RepeatsNeedTrouble
<1>1. RepeatsBounded /\ CasesBounded /\ PushesBounded => RepeatsNeedTrouble
  BY DEF RepeatsNeedTrouble
<1> QED
  BY <1>1, RepeatsAreBounded, CasesAreBounded, PushesAreBounded, PTL DEF DeliveriesSafetySpec

(* Every variable of the deferred pushes keeps its type.                   *)
THEOREM PushTypeCorrect == PushSafetySpec => []PushTypeOK
  BY PushesKeep, PTL DEF PushInv

(* A deferred push is due when the quiet hours it met end, for days of any *)
(* length and any quiet hours, past midnight or not (QuietHoursPolicy,     *)
(* 188-224; PushDeliveryService, 71-91).                                   *)
THEOREM QuietHoursAreKept == PushSafetySpec => []DeferredToWindowEnd
<1>1. ASSUME PushInv
      PROVE  DeferredToWindowEnd
  <2> SUFFICES ASSUME steady, NEW m \in PendingPushes
               PROVE  /\ pending[m].due > found[m].at
                      /\ ~Quiet(found[m].window, pending[m].due)
                      /\ \A t \in found[m].at..(pending[m].due - 1) : Quiet(found[m].window, t)
    BY DEF DeferredToWindowEnd
  <2>1. found[m] \in Look
    BY <1>1 DEF PushInv, PushTypeOK, PendingPushes
  <2>2. found[m].at \in Nat /\ found[m].window \in Window
    BY <2>1, PushConstants DEF Look
  <2>3. /\ Quiet(found[m].window, found[m].at)
        /\ pending[m].due = WindowEnd(found[m].window, found[m].at)
    BY <1>1 DEF PushInv, DeferInv
  <2> QED
    BY <2>2, <2>3, WindowEndsQuiet
<1> QED
  BY <1>1, PushesKeep, PTL

-----------------------------------------------------------------------------

(* The status an outbox shows for the pushes.                              *)
PushesShown == [m \in Push |->
  CASE pending[m].status = "queued" -> "waiting"
    [] pending[m].status = "delivered" -> "delivered"
    [] OTHER -> "none"]

LEMMA StandingShowsPush ==
  ASSUME UNCHANGED <<pending, pushed>>
  PROVE  UNCHANGED PushPromise!vars
  BY DEF PushPromise!vars

(* An outbox does not see that a push was asked for.                       *)
LEMMA AskingHides ==
  ASSUME PushInv, NEW m \in Push, DeliverPush(m)
  PROVE  UNCHANGED PushPromise!vars
<1>1. pending \in [Push -> PushRow]
  BY DEF PushInv, PushTypeOK, PushRow
<1>2. \A p \in Push : pending'[p].status = IF p = m THEN "asked" ELSE pending[p].status
  BY <1>1 DEF PushRow, DeliverPush
<1>3. PushesShown' = PushesShown
  BY <1>2 DEF PushesShown, DeliverPush
<1> QED
  BY <1>3 DEF PushPromise!vars, PushesShown, DeliverPush

LEMMA QueueAccepts ==
  ASSUME PushInv, NEW m \in Push, caller = m, QueuePush
  PROVE  PushPromise!Accept(m) \/ UNCHANGED PushPromise!vars
<1>1. pending[m].status = "asked" /\ pending \in [Push -> PushRow]
  BY DEF PushInv, PushTypeOK, PushRow, CallerInv, QueuePush
<1>2. CASE UNCHANGED pending
  BY <1>2, StandingShowsPush DEF QueuePush
<1>3. CASE \E w \in Window : pending' = [pending EXCEPT ![m] = [status |-> "queued", due |-> WindowEnd(w, hour)]]
  <2>1. \A p \in Push : pending'[p].status = IF p = m THEN "queued" ELSE pending[p].status
    BY <1>1, <1>3
  <2>2. PushesShown' = [PushesShown EXCEPT ![m] = "waiting"]
    BY <1>1, <2>1 DEF PushesShown
  <2>3. PushesShown[m] = "none"
    BY <1>1 DEF PushesShown
  <2> QED
    BY <2>2, <2>3 DEF PushPromise!Accept, PushPromise!Move, PushesShown, QueuePush
<1> QED
  BY <1>2, <1>3 DEF QueuePush

LEMMA PushingWorks ==
  ASSUME PushInv, NEW m \in Push, DeliverIfDue(m)
  PROVE  PushPromise!Work(m) \/ UNCHANGED PushPromise!vars
<1>1. CASE UNCHANGED pushed
  BY <1>1, StandingShowsPush DEF DeliverIfDue
<1>2. CASE Due(m) /\ pushed' = RaisePush(pushed, m)
  BY <1>2 DEF PushPromise!Work, Due, RaisePush, DeliverIfDue
<1> QED
  BY <1>1, <1>2 DEF DeliverIfDue

LEMMA MarkingDelivers ==
  ASSUME PushInv, NEW m \in Push, pusher.push = m, MarkDelivered
  PROVE  PushPromise!Deliver(m) \/ UNCHANGED PushPromise!vars
<1>1. pending[m].status = "queued" /\ pushed[m] > 0 /\ pending \in [Push -> PushRow]
  BY DEF PushInv, PushTypeOK, PushRow, SaveInv, MarkDelivered
<1>2. CASE UNCHANGED pending
  BY <1>2, StandingShowsPush DEF MarkDelivered
<1>3. CASE pending' = [pending EXCEPT ![m].status = "delivered"]
  <2>1. \A p \in Push : pending'[p].status = IF p = m THEN "delivered" ELSE pending[p].status
    BY <1>1, <1>3 DEF PushRow
  <2>2. PushesShown' = [PushesShown EXCEPT ![m] = "delivered"]
    BY <1>1, <2>1 DEF PushesShown
  <2>3. PushesShown[m] = "waiting"
    BY <1>1 DEF PushesShown
  <2> QED
    BY <1>1, <2>2, <2>3 DEF PushPromise!Deliver, PushPromise!Move, PushesShown, MarkDelivered
<1> QED
  BY <1>2, <1>3 DEF MarkDelivered

LEMMA PushStepMaps ==
  ASSUME PushInv, PushNext
  PROVE  [PushPromise!Next]_(PushPromise!vars)
<1>1. CASE (\E w \in Window : SetWindow(w)) \/ HourPasses \/ PushRun \/ ReadPage \/ PusherDies
  BY <1>1, StandingShowsPush DEF SetWindow, HourPasses, PushRun, ReadPage, PusherDies
<1>2. CASE \E m \in Push : DeliverPush(m)
  BY <1>2, AskingHides
<1>3. CASE QueuePush
  <2>1. PICK m \in Push : caller = m
    BY <1>3 DEF PushInv, PushTypeOK, QueuePush
  <2> QED
    BY <1>3, <2>1, QueueAccepts DEF PushPromise!Next
<1>4. CASE \E m \in Push : DeliverIfDue(m)
  BY <1>4, PushingWorks DEF PushPromise!Next
<1>5. CASE MarkDelivered
  <2>1. PICK m \in Push : pusher.push = m
    BY <1>5 DEF PushInv, SaveInv, MarkDelivered
  <2> QED
    BY <1>5, <2>1, MarkingDelivers DEF PushPromise!Next
<1> QED
  BY <1>1, <1>2, <1>3, <1>4, <1>5 DEF PushNext, PushAct, PushStep

(* The deferred pushes implement an outbox: a push is called delivered     *)
(* only after it was sent, and stays so (PendingPushService, 117-221).     *)
THEOREM PushesImplementOutbox == PushSafetySpec => PushPromise!SafetySpec
<1>1. PushInit => PushPromise!Init
  BY DEF PushInit, PushPromise!Init, NoPending
<1>2. PushInv /\ [PushNext]_pushVars => [PushPromise!Next]_(PushPromise!vars)
  BY PushStepMaps, StandingShowsPush DEF pushVars
<1> QED
  BY <1>1, <1>2, PushesKeep, PTL DEF PushSafetySpec, PushPromise!SafetySpec
-----------------------------------------------------------------------------
(* The notification e-mails.                                               *)

Job == [phase : Phase, rule : Rule \cup {NoRule}, flagged : BOOLEAN,
        previous : Nat, sent : BOOLEAN]

(* No row, and no count a worker has read, is above the failures there     *)
(* were: before the mail the count is at most what failed already, and     *)
(* after a mail that failed this failure is counted too.                   *)
RowsCounted(rows, count) == \A i \in 1..Len(rows) : rows[i].attempts <= count[rows[i].rule]
HasRule(q) == q.phase # "idle" => q.rule \in Rule
ReadCounted(q, count) == q.phase = "send" => q.previous <= count[q.rule]
FailureCounted(q, count) ==
  q.phase \in {"record", "flag"} /\ ~q.sent => q.previous + 1 <= count[q.rule]

Sound(q, count) == HasRule(q) /\ ReadCounted(q, count) /\ FailureCounted(q, count)

IInv ==
  /\ TypeOK
  /\ RowsCounted(log, failures)
  /\ \A p \in Process : Sound(proc[p], failures)
  /\ FlagHasCause

-----------------------------------------------------------------------------

LEMMA IdleIsSound == Idle \in Job /\ \A count : Sound(Idle, count)
  BY DEF Idle, Job, Phase, Sound, HasRule, ReadCounted, FailureCounted

(* The step of one worker that mails nothing, adds nothing to the log and  *)
(* leaves the flag.                                                        *)
LEMMA StepOfOne ==
  ASSUME IInv, NEW p \in Process, NEW q \in Job, Sound(q, failures), Become(p, q),
         jobs' \subseteq Rule, UNCHANGED <<now, log, flag, dispatched, failures>>
  PROVE  IInv'
<1>1. TypeOK'
  BY DEF IInv, TypeOK, Become, Job
<1>2. \A r \in Process : Sound(proc'[r], failures)
  BY DEF IInv, TypeOK, Become
<1>3. \A r \in Process : Sound(proc'[r], failures')
  BY <1>2
<1> QED BY <1>1, <1>3 DEF IInv, RowsCounted, FlagHasCause

(* A row whose count is covered keeps the log covered.                     *)
LEMMA AppendCounted ==
  ASSUME TypeOK, RowsCounted(log, failures), NEW r \in Rule,
         NEW way \in {"email", "push"}, NEW status \in Status, NEW n \in Nat,
         n <= failures[r], Append1(r, way, status, n)
  PROVE  log' \in Seq(Attempt) /\ RowsCounted(log', failures)
<1> DEFINE row == [rule |-> r, channel |-> way, status |-> status, attempts |-> n, at |-> now]
<1>1. row \in Attempt /\ log \in Seq(Attempt) /\ log' = Append(log, row)
  BY DEF TypeOK, Attempt, Append1
<1>2. row.attempts <= failures[row.rule]
  OBVIOUS
<1> HIDE DEF row
<1>3. log' \in Seq(Attempt) /\ Len(log') = Len(log) + 1 /\ log'[Len(log) + 1] = row
  BY <1>1
<1>4. \A i \in 1..Len(log) : log'[i] = log[i]
  BY <1>1
<1>5. ASSUME NEW i \in 1..Len(log') PROVE log'[i].attempts <= failures[log'[i].rule]
  <2>1. CASE i \in 1..Len(log)
    BY <1>4, <2>1 DEF RowsCounted
  <2>2. CASE i = Len(log) + 1
    BY <1>2, <1>3, <2>2
  <2> QED BY <1>1, <1>3, <2>1, <2>2
<1> QED BY <1>3, <1>5 DEF RowsCounted

(* A count read off covered rows is covered.                               *)
LEMMA StreakCounted ==
  ASSUME TypeOK, RowsCounted(log, failures), NEW r \in Rule,
         NEW rows \in SUBSET (1..Len(log)), NEW n \in Streak(rows, r)
  PROVE  n \in Nat /\ n <= failures[r]
<1>1. failures[r] \in Nat
  BY DEF TypeOK
<1>2. CASE n = 0
  BY <1>1, <1>2
<1>3. CASE \E i \in rows : log[i].rule = r /\ n = log[i].attempts
  <2>1. PICK i \in rows : log[i].rule = r /\ n = log[i].attempts
    BY <1>3
  <2>2. log[i] \in Attempt /\ i \in 1..Len(log)
    BY DEF TypeOK
  <2> QED BY <2>1, <2>2 DEF Attempt, RowsCounted
<1> QED BY <1>2, <1>3 DEF Streak

-----------------------------------------------------------------------------

LEMMA InitHolds == Init => IInv
<1> SUFFICES ASSUME Init PROVE IInv
  OBVIOUS
<1>1. TypeOK
  <2>1. proc \in [Process -> Job]
    BY IdleIsSound DEF Init
  <2>2. log \in Seq(Attempt)
    BY DEF Init
  <2>3. now \in 0..MaxTime /\ dispatched \in 0..MaxDispatches
    BY DispatchConstants DEF Init
  <2>5. jobs \subseteq Rule /\ flag \in BOOLEAN
    BY DEF Init
  <2>4. failures \in [Rule -> Nat]
    BY DEF Init
  <2> QED BY <2>1, <2>2, <2>3, <2>4, <2>5 DEF TypeOK, Job
<1>2. \A p \in Process : Sound(proc[p], failures)
  BY IdleIsSound DEF Init
<1> QED BY <1>1, <1>2 DEF IInv, Init, RowsCounted, FlagHasCause

LEMMA DispatchKeeps == ASSUME IInv, NEW r \in Rule, Dispatch(r) PROVE IInv'
<1>1. TypeOK'
  BY DispatchConstants DEF IInv, TypeOK, Dispatch
<1> QED BY <1>1 DEF IInv, Dispatch, RowsCounted, FlagHasCause

LEMMA TakeKeeps == ASSUME IInv, NEW p \in Process, NEW r \in Rule, Take(p, r) PROVE IInv'
<1> DEFINE q == [Idle EXCEPT !.phase = "account", !.rule = r]
<1>1. q \in Job /\ Sound(q, failures)
  BY DEF Idle, Job, Phase, Sound, HasRule, ReadCounted, FailureCounted
<1>2. jobs' \subseteq Rule
  BY DEF IInv, TypeOK, Take
<1> QED BY <1>1, <1>2, StepOfOne DEF Take

(* Moving on to a phase before the mail knows no more than a rule.         *)
LEMMA MovesOn ==
  ASSUME IInv, NEW p \in Process, proc[p].phase # "idle", NEW phase \in {"push", "streak"},
         NEW up \in BOOLEAN
  PROVE  /\ [proc[p] EXCEPT !.phase = phase, !.flagged = up] \in Job
         /\ Sound([proc[p] EXCEPT !.phase = phase, !.flagged = up], failures)
         /\ [proc[p] EXCEPT !.phase = phase] \in Job
         /\ Sound([proc[p] EXCEPT !.phase = phase], failures)
<1>1. proc[p] \in Job /\ Sound(proc[p], failures)
  BY DEF IInv, TypeOK, Job
<1> QED BY <1>1 DEF Job, Phase, Sound, HasRule, ReadCounted, FailureCounted

LEMMA ReadAccountKeeps == ASSUME IInv, NEW p \in Process, ReadAccount(p) PROVE IInv'
<1>1. jobs' \subseteq Rule /\ flag \in BOOLEAN /\ proc[p].phase # "idle"
  BY DEF IInv, TypeOK, ReadAccount
<1>2. CASE Become(p, Idle)
  BY <1>1, <1>2, IdleIsSound, StepOfOne DEF ReadAccount
<1>3. CASE \E next \in {"push", "streak"} :
             Become(p, [proc[p] EXCEPT !.phase = next, !.flagged = flag])
  <2>1. PICK next \in {"push", "streak"} :
               Become(p, [proc[p] EXCEPT !.phase = next, !.flagged = flag])
    BY <1>3
  <2> QED BY <1>1, <2>1, MovesOn, StepOfOne DEF ReadAccount
<1> QED BY <1>2, <1>3 DEF ReadAccount

(* The step of one worker that may also have added a covered row.          *)
LEMMA LoggingStep ==
  ASSUME IInv, NEW p \in Process, NEW q \in Job, Sound(q, failures), Become(p, q),
         log' \in Seq(Attempt), RowsCounted(log', failures),
         UNCHANGED <<now, jobs, flag, dispatched, failures>>
  PROVE  IInv'
<1>1. TypeOK'
  BY DEF IInv, TypeOK, Become, Job
<1>2. \A r \in Process : Sound(proc'[r], failures)
  BY DEF IInv, TypeOK, Become
<1>3. \A r \in Process : Sound(proc'[r], failures')
  BY <1>2
<1> QED BY <1>1, <1>3 DEF IInv, RowsCounted, FlagHasCause

LEMMA SendPushKeeps == ASSUME IInv, NEW p \in Process, SendPush(p) PROVE IInv'
<1>1. proc[p].phase # "idle" /\ proc[p].rule \in Rule
  BY DEF SendPush, IInv, Sound, HasRule
<1>2. log' \in Seq(Attempt) /\ RowsCounted(log', failures)
  <2>1. CASE UNCHANGED log
    BY <2>1 DEF IInv, TypeOK, RowsCounted
  <2>2. CASE \E status \in Status : Append1(proc[p].rule, "push", status, 0)
    <3>1. PICK status \in Status : Append1(proc[p].rule, "push", status, 0)
      BY <2>2
    <3>2. 0 <= failures[proc[p].rule]
      BY <1>1 DEF IInv, TypeOK
    <3> QED BY <1>1, <3>1, <3>2, AppendCounted DEF IInv
  <2> QED BY <2>1, <2>2 DEF SendPush
<1>3. CASE Become(p, Idle)
  BY <1>2, <1>3, IdleIsSound, LoggingStep DEF SendPush
<1>4. CASE Go(p, "streak")
  BY <1>1, <1>2, <1>4, MovesOn, LoggingStep DEF SendPush, Go
<1> QED BY <1>3, <1>4 DEF SendPush

LEMMA ReadStreakKeeps == ASSUME IInv, NEW p \in Process, ReadStreak(p) PROVE IInv'
<1>1. proc[p].rule \in Rule /\ proc[p] \in Job /\ failures[proc[p].rule] \in Nat
  BY DEF ReadStreak, IInv, TypeOK, Job, Sound, HasRule
<1>2. PICK n \in Nat : /\ n <= failures[proc[p].rule]
                       /\ Become(p, [proc[p] EXCEPT !.phase = "send", !.previous = n])
  <2>1. CASE Become(p, [proc[p] EXCEPT !.phase = "send", !.previous = 0])
    <3>1. 0 \in Nat /\ 0 <= failures[proc[p].rule]
      BY <1>1
    <3> QED BY <2>1, <3>1
  <2>2. CASE \E rows \in Reads : \E n \in Streak(rows, proc[p].rule) :
               Become(p, [proc[p] EXCEPT !.phase = "send", !.previous = n])
    <3>0. PICK rows \in Reads : \E n \in Streak(rows, proc[p].rule) :
                 Become(p, [proc[p] EXCEPT !.phase = "send", !.previous = n])
      BY <2>2
    <3>1. PICK n \in Streak(rows, proc[p].rule) :
                 Become(p, [proc[p] EXCEPT !.phase = "send", !.previous = n])
      BY <3>0
    <3>2. rows \in SUBSET (1..Len(log))
      BY DEF Reads
    <3>3. n \in Nat /\ n <= failures[proc[p].rule]
      BY <1>1, <3>2, StreakCounted DEF IInv
    <3> QED BY <3>1, <3>3
  <2> QED BY <2>1, <2>2 DEF ReadStreak
<1> DEFINE q == [proc[p] EXCEPT !.phase = "send", !.previous = n]
<1>3. q \in Job /\ Sound(q, failures)
  BY <1>1, <1>2 DEF Job, Phase, Sound, HasRule, ReadCounted, FailureCounted
<1>4. jobs' \subseteq Rule
  BY DEF ReadStreak, IInv, TypeOK
<1> QED BY <1>2, <1>3, <1>4, StepOfOne DEF ReadStreak

(* The counts only grow, so what was covered stays covered.                *)
LEMMA SendEmailKeeps == ASSUME IInv, NEW p \in Process, SendEmail(p) PROVE IInv'
<1> DEFINE r == proc[p].rule
<1>1. PICK sent \in BOOLEAN :
        /\ Become(p, [proc[p] EXCEPT !.phase = "record", !.sent = sent])
        /\ failures' = IF sent THEN failures ELSE [failures EXCEPT ![r] = @ + 1]
  BY DEF SendEmail
<1> DEFINE q == [proc[p] EXCEPT !.phase = "record", !.sent = sent]
<1>2. /\ r \in Rule /\ proc[p] \in Job /\ proc[p].previous <= failures[r]
      /\ failures \in [Rule -> Nat]
  BY DEF SendEmail, IInv, TypeOK, Job, Sound, HasRule, ReadCounted
<1>3. /\ failures' \in [Rule -> Nat]
      /\ \A s \in Rule : failures[s] <= failures'[s]
      /\ ~sent => failures'[r] = failures[r] + 1
  BY <1>1, <1>2
<1>4. q \in Job /\ proc' = [proc EXCEPT ![p] = q]
  BY <1>1, <1>2 DEF Job, Phase, Become
<1>5. TypeOK'
  <2>1. proc' \in [Process -> Job]
    BY <1>4 DEF IInv, TypeOK, Job
  <2> QED BY <1>3, <2>1 DEF IInv, TypeOK, Job, SendEmail
<1>6. RowsCounted(log', failures')
  <2>1. ASSUME NEW i \in 1..Len(log) PROVE log[i].attempts <= failures'[log[i].rule]
    <3>1. log[i] \in Attempt
      BY DEF IInv, TypeOK
    <3>2. /\ log[i].rule \in Rule /\ log[i].attempts \in Nat
          /\ log[i].attempts <= failures[log[i].rule]
      BY <3>1 DEF IInv, RowsCounted, Attempt
    <3> QED BY <1>2, <1>3, <3>2
  <2> QED BY <2>1 DEF RowsCounted, SendEmail
<1>7. \A s \in Process : Sound(proc'[s], failures')
  <2>1. Sound(q, failures')
    BY <1>2, <1>3, <1>4 DEF Job, Sound, HasRule, ReadCounted, FailureCounted
  <2>2. ASSUME NEW s \in Process PROVE Sound(proc[s], failures')
    <3>1. proc[s] \in Job /\ Sound(proc[s], failures)
      BY DEF IInv, TypeOK, Job
    <3>2. HasRule(proc[s])
      BY <3>1 DEF Sound
    <3>3. ReadCounted(proc[s], failures')
      BY <1>2, <1>3, <3>1 DEF Job, Sound, HasRule, ReadCounted
    <3>4. FailureCounted(proc[s], failures')
      BY <1>2, <1>3, <3>1 DEF Job, Sound, HasRule, FailureCounted
    <3> QED BY <3>2, <3>3, <3>4 DEF Sound
  <2> QED BY <1>4, <2>1, <2>2 DEF IInv, TypeOK
<1>8. FlagHasCause'
  BY <1>2, <1>3, DispatchConstants DEF SendEmail, IInv, FlagHasCause
<1> QED BY <1>5, <1>6, <1>7, <1>8 DEF IInv

LEMMA RecordAttemptKeeps == ASSUME IInv, NEW p \in Process, RecordAttempt(p) PROVE IInv'
<1> DEFINE q == proc[p]
<1>1. /\ q \in Job /\ q.rule \in Rule /\ Sound(q, failures) /\ q.phase = "record"
      /\ failures[q.rule] \in Nat
  BY DEF RecordAttempt, IInv, TypeOK, Job, Sound, HasRule
<1>2. Attempts(q) \in Nat /\ Attempts(q) <= failures[q.rule]
  BY <1>1 DEF Attempts, Job, Sound, FailureCounted
<1>3. log' \in Seq(Attempt) /\ RowsCounted(log', failures)
  <2>1. CASE UNCHANGED log
    BY <2>1 DEF IInv, TypeOK, RowsCounted
  <2>2. CASE Append1(q.rule, "email", IF q.sent THEN "sent" ELSE "failed", Attempts(q))
    BY <1>1, <1>2, <2>2, AppendCounted DEF IInv, Status
  <2> QED BY <2>1, <2>2 DEF RecordAttempt
<1>4. CASE Become(p, Idle)
  BY <1>3, <1>4, IdleIsSound, LoggingStep DEF RecordAttempt
<1>5. CASE Go(p, "flag")
  <2>1. [q EXCEPT !.phase = "flag"] \in Job /\ Sound([q EXCEPT !.phase = "flag"], failures)
    BY <1>1 DEF Job, Phase, Sound, HasRule, ReadCounted, FailureCounted
  <2> QED BY <1>3, <1>5, <2>1, LoggingStep DEF RecordAttempt, Go
<1> QED BY <1>4, <1>5 DEF RecordAttempt

(* The flag goes up only for a worker whose count has reached the          *)
(* threshold, and that count is covered by failures.                       *)
LEMMA FlagKeeps ==
  ASSUME IInv, NEW p \in Process, FlagNeedsAlternativeContact(p) PROVE IInv'
<1> DEFINE q == proc[p]
<1>1. /\ q \in Job /\ q.rule \in Rule /\ Sound(q, failures) /\ q.phase = "flag"
      /\ failures[q.rule] \in Nat
  BY DEF FlagNeedsAlternativeContact, IInv, TypeOK, Job, Sound, HasRule
<1>2. Flags(q) => failures[q.rule] >= Threshold
  BY <1>1, DispatchConstants DEF Flags, Attempts, Job, Sound, FailureCounted
<1>3. FlagHasCause'
  BY <1>1, <1>2 DEF FlagNeedsAlternativeContact, IInv, FlagHasCause
<1>4. TypeOK'
  BY IdleIsSound DEF FlagNeedsAlternativeContact, IInv, TypeOK, Become, Job, Flags
<1>5. \A r \in Process : Sound(proc'[r], failures')
  BY IdleIsSound DEF FlagNeedsAlternativeContact, IInv, TypeOK, Become
<1> QED BY <1>3, <1>4, <1>5 DEF FlagNeedsAlternativeContact, IInv, RowsCounted

LEMMA TickKeeps == ASSUME IInv, Tick PROVE IInv'
<1>1. TypeOK'
  BY DispatchConstants DEF IInv, TypeOK, Tick
<1> QED BY <1>1 DEF IInv, Tick, RowsCounted, FlagHasCause

LEMMA StepKeeps == IInv /\ [Next]_vars => IInv'
<1> SUFFICES ASSUME IInv, [Next]_vars PROVE IInv'
  OBVIOUS
<1>1. ASSUME NEW r \in Rule, Dispatch(r) PROVE IInv'
  BY <1>1, DispatchKeeps
<1>2. ASSUME NEW p \in Process, NEW r \in Rule, Take(p, r) PROVE IInv'
  BY <1>2, TakeKeeps
<1>3. ASSUME NEW p \in Process, ReadAccount(p) PROVE IInv'
  BY <1>3, ReadAccountKeeps
<1>4. ASSUME NEW p \in Process, SendPush(p) PROVE IInv'
  BY <1>4, SendPushKeeps
<1>5. ASSUME NEW p \in Process, ReadStreak(p) PROVE IInv'
  BY <1>5, ReadStreakKeeps
<1>6. ASSUME NEW p \in Process, SendEmail(p) PROVE IInv'
  BY <1>6, SendEmailKeeps
<1>7. ASSUME NEW p \in Process, RecordAttempt(p) PROVE IInv'
  BY <1>7, RecordAttemptKeeps
<1>8. ASSUME NEW p \in Process, FlagNeedsAlternativeContact(p) PROVE IInv'
  BY <1>8, FlagKeeps
<1>9. ASSUME NEW p \in Process, Die(p) PROVE IInv'
  <2>1. jobs' \subseteq Rule
    BY <1>9 DEF Die, IInv, TypeOK
  <2> QED BY <1>9, <2>1, IdleIsSound, StepOfOne DEF Die
<1>10. CASE UNCHANGED vars
  BY <1>10 DEF IInv, TypeOK, RowsCounted, FlagHasCause, vars
<1> QED BY <1>1, <1>2, <1>3, <1>4, <1>5, <1>6, <1>7, <1>8, <1>9, <1>10, TickKeeps DEF Next

LEMMA Invariance == Spec => []IInv
  BY InitHolds, StepKeeps, PTL DEF Spec

-----------------------------------------------------------------------------

(* Jobs, the attempt log and the flag keep their types (NotificationDis-   *)
(* patchJob, 202-319).                                                     *)
THEOREM DispatchTypeCorrect == Spec => []TypeOK
  BY Invariance, PTL DEF IInv

(* The account is never flagged before one rule failed Threshold times:    *)
(* no overlap, lost row or short read of the log counts a failure twice    *)
(* (emailAndRecord, 270-319; previousFailureStreak, 505-539).              *)
THEOREM FlagsHaveCause == Spec => []FlagHasCause
  BY Invariance, PTL DEF IInv
=============================================================================
