--------------------------- MODULE IntakeDelivery ---------------------------
(***************************************************************************)
(* Requests handed in through a form.  PortalIntakeQueue::accept records a *)
(* submission and answers with a reference at once; PortalIntakeDelivery-  *)
(* Job makes the case afterwards, or hands a Woo request to opencatalogi,  *)
(* and says on the submission what became of it.                           *)
(*                                                                         *)
(* What a form is bound to is read anew for every submission, may have     *)
(* been changed or withdrawn meanwhile, and looks withdrawn when the read  *)
(* fails; so it is open here.  The scheduler runs the job's one row in one *)
(* worker.  A submission row without an id can be read but not written to: *)
(* a case is made of it every run, and nothing says so.                    *)
(***************************************************************************)
EXTENDS Integers, FiniteSets

CONSTANTS
  Submission,
  NoSubmission,
  QueueLimit,  \* PortalIntakeDeliveryJob::BATCH
  MaxMishaps   \* bound: deaths and state writes that fail

ASSUME IntakeConstants ==
  /\ NoSubmission \notin Submission
  /\ QueueLimit \in Nat \ {0}
  /\ MaxMishaps \in Nat

VARIABLES
  state,    \* per submission: "none", "queued", "registered", "failed"
  idless,   \* fixed at the start: the submissions whose row carries no id
  made,     \* per submission: cases or Woo requests made from it
  queue,    \* the submissions this run has left
  clerk,    \* what the worker is doing, and whether it made something
  mishaps,  \* troubles so far
  doubled   \* history, per submission: runs that made and left it queued

intakeVars == <<state, idless, made, queue, clerk, mishaps, doubled>>

Resting == [phase |-> "idle", submission |-> NoSubmission, made |-> FALSE]
ClerkPhase == {"idle", "next", "binding", "case", "woo", "register", "fail"}

IntakeTypeOK ==
  /\ state \in [Submission -> {"none", "queued", "registered", "failed"}]
  /\ idless \subseteq Submission
  /\ made \in [Submission -> Nat]
  /\ queue \subseteq Submission
  /\ clerk \in [phase : ClerkPhase, submission : Submission \cup {NoSubmission}, made : BOOLEAN]
  /\ mishaps \in 0..MaxMishaps
  /\ doubled \in [Submission -> Nat]

IntakeInit ==
  /\ state = [s \in Submission |-> "none"]
  /\ idless \in SUBSET Submission
  /\ made = [s \in Submission |-> 0]
  /\ queue = {}
  /\ clerk = Resting
  /\ mishaps = 0
  /\ doubled = [s \in Submission |-> 0]

QueuedSubmissions == {s \in Submission : state[s] = "queued"}
RaiseCase(f, s, n) == [f EXCEPT ![s] = @ + n]
Mishap == mishaps < MaxMishaps /\ mishaps' = mishaps + 1
ClerkAt(phase, s) == clerk.phase = phase /\ clerk.submission = s
ClerkGo(phase, s, m) == clerk' = [phase |-> phase, submission |-> s, made |-> m]
LeaveQueued(s) == doubled' = IF clerk.made THEN RaiseCase(doubled, s, 1) ELSE doubled

-----------------------------------------------------------------------------

(* The citizen gets a reference only when the row was written.             *)
AcceptSubmission(s) ==
  /\ state[s] = "none"
  /\ state' = [state EXCEPT ![s] = "queued"]
  /\ UNCHANGED <<idless, made, queue, clerk, mishaps, doubled>>

(* A read that fails answers an empty queue: the run has nothing to do.    *)
IntakeRun ==
  /\ clerk = Resting
  /\ \E some \in SUBSET QueuedSubmissions :
       /\ some # {}
       /\ Cardinality(some) <= QueueLimit
       /\ some # QueuedSubmissions => Cardinality(some) = QueueLimit
       /\ queue' = some
  /\ ClerkGo("next", NoSubmission, FALSE)
  /\ UNCHANGED <<state, idless, made, mishaps, doubled>>

EndIntakeRun ==
  /\ ClerkAt("next", NoSubmission)
  /\ queue = {}
  /\ clerk' = Resting
  /\ UNCHANGED <<state, idless, made, queue, mishaps, doubled>>

TakeSubmission(s) ==
  /\ ClerkAt("next", NoSubmission)
  /\ s \in queue
  /\ queue' = queue \ {s}
  /\ ClerkGo("binding", s, FALSE)
  /\ UNCHANGED <<state, idless, made, mishaps, doubled>>

(* A form that is not published, or names no register, fails.              *)
ReadBinding(s) ==
  /\ ClerkAt("binding", s)
  /\ \E way \in {"case", "woo", "fail"} : ClerkGo(way, s, FALSE)
  /\ UNCHANGED <<state, idless, made, queue, mishaps, doubled>>

(* A create that throws may have stored the case all the same.             *)
CreateCase(s) ==
  /\ ClerkAt("case", s)
  /\ \/ made' = RaiseCase(made, s, 1) /\ ClerkGo("register", s, TRUE)
     \/ \E n \in {0, 1} : made' = RaiseCase(made, s, n) /\ ClerkGo("fail", s, n = 1)
  /\ UNCHANGED <<state, idless, queue, mishaps, doubled>>

(* Only an armed term with a date registers the request: one that was      *)
(* stored without a term fails, as do a refusal and an app that is away.   *)
DeliverWoo(s) ==
  /\ ClerkAt("woo", s)
  /\ \/ made' = RaiseCase(made, s, 1) /\ ClerkGo("register", s, TRUE)
     \/ \E n \in {0, 1} : made' = RaiseCase(made, s, n) /\ ClerkGo("fail", s, n = 1)
  /\ UNCHANGED <<state, idless, queue, mishaps, doubled>>

(* markRegistered and markFailed answer whether they wrote; the job does   *)
(* not look.  Without an id nothing is written.                            *)
Mark(s, phase, to) ==
  /\ ClerkAt(phase, s)
  /\ ClerkGo("next", NoSubmission, FALSE)
  /\ \/ s \notin idless /\ state' = [state EXCEPT ![s] = to] /\ UNCHANGED <<mishaps, doubled>>
     \/ s \notin idless /\ Mishap /\ LeaveQueued(s) /\ UNCHANGED state
     \/ s \in idless /\ LeaveQueued(s) /\ UNCHANGED <<state, mishaps>>
  /\ UNCHANGED <<idless, made, queue>>

MarkRegistered(s) == Mark(s, "register", "registered")

MarkFailed(s) == Mark(s, "fail", "failed")

ClerkDies ==
  /\ clerk.phase # "idle"
  /\ Mishap
  /\ clerk' = Resting
  /\ queue' = {}
  /\ IF clerk.submission = NoSubmission THEN UNCHANGED doubled ELSE LeaveQueued(clerk.submission)
  /\ UNCHANGED <<state, idless, made>>

IntakeStep ==
  \/ IntakeRun
  \/ EndIntakeRun
  \/ \E s \in Submission :
       \/ TakeSubmission(s) \/ ReadBinding(s) \/ CreateCase(s)
       \/ DeliverWoo(s) \/ MarkRegistered(s) \/ MarkFailed(s)

IntakeNext == (\E s \in Submission : AcceptSubmission(s)) \/ IntakeStep \/ ClerkDies

IntakeSafetySpec == IntakeInit /\ [][IntakeNext]_intakeVars

(* The scheduler starts the job again and again, and a worker that is not  *)
(* killed goes on.                                                         *)
IntakeFairness == WF_intakeVars(IntakeStep)

IntakeSpec == IntakeSafetySpec /\ IntakeFairness

-----------------------------------------------------------------------------

(* A second case is made of one submission only after a run that made one  *)
(* and could not say so, and if the row has an id, that takes a trouble    *)
(* (deliver, 111-154; the result of markRegistered is not looked at).      *)
CasesBounded ==
  \A s \in Submission :
    /\ made[s] <= 1 + doubled[s]
    /\ s \notin idless => doubled[s] <= mishaps

(* PortalIntakeQueue's header: "nothing here ever states that a case       *)
(* exists before one does".                                                *)
IntakePromise == INSTANCE Outbox WITH
  Item <- Submission,
  status <- [s \in Submission |->
               CASE state[s] = "queued" -> "waiting"
                 [] state[s] = "registered" -> "delivered"
                 [] OTHER -> state[s]],
  done <- made

(* And as long as the submissions without an id do not fill a batch, no    *)
(* other one is left queued for ever (run, 95-99).                         *)
SubmissionsAreSettled ==
  /\ IntakePromise!SafetySpec
  /\ \A s \in Submission :
       s \notin idless /\ Cardinality(idless) < QueueLimit => IntakePromise!Settles(s)
=============================================================================
