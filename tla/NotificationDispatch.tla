------------------------ MODULE NotificationDispatch ------------------------
(***************************************************************************)
(* Telling one resident by e-mail that something happened.  Notification-  *)
(* DispatchService puts a job on Nextcloud's list; NotificationDispatchJob *)
(* takes it off, mails, adds a row to an append-only log and raises or     *)
(* clears needsAlternativeContact on the account.  How many attempts       *)
(* failed in a row is not kept anywhere: each job reads it off the log.    *)
(*                                                                         *)
(* Several cron workers may run jobs at once, and a worker may die.  The   *)
(* list holds a job once per argument.  The log is read in whatever order  *)
(* the store has, at most ReadLimit rows of it, and rows are told apart by *)
(* a time in whole seconds.                                                *)
(***************************************************************************)
EXTENDS Integers, Sequences, FiniteSets

CONSTANTS
  Rule,           \* rule keys, each with the record it is about
  Process,        \* cron workers
  NoRule,
  Threshold,      \* failureThreshold()
  ReadLimit,      \* rows previousFailureStreak() reads
  PushAvailable,  \* whether a push transport is installed
  MaxDispatches,  \* bound: triggers
  MaxTime,        \* bound: the clock
  MayFail         \* whether reads and writes fail and workers die

ASSUME DispatchConstants ==
  /\ NoRule \notin Rule
  /\ Threshold \in Nat \ {0}
  /\ ReadLimit \in Nat \ {0}
  /\ PushAvailable \in BOOLEAN
  /\ MaxDispatches \in Nat
  /\ MaxTime \in Nat
  /\ MayFail \in BOOLEAN

VARIABLES
  now,         \* seconds
  jobs,        \* the rules that have a job on the list
  log,         \* the portalNotification rows, oldest first
  flag,        \* needsAlternativeContact on the account
  proc,        \* what each worker is doing
  dispatched,  \* triggers so far
  failures     \* history, per rule: attempts that failed

vars == <<now, jobs, log, flag, proc, dispatched, failures>>

Phase == {"idle", "account", "push", "streak", "send", "record", "flag"}
Status == {"sent", "failed"}
Idle == [phase |-> "idle", rule |-> NoRule, flagged |-> FALSE, previous |-> 0, sent |-> FALSE]
Attempt == [rule : Rule, channel : {"email", "push"}, status : Status, attempts : Nat, at : Nat]

TypeOK ==
  /\ now \in 0..MaxTime
  /\ jobs \subseteq Rule
  /\ log \in Seq(Attempt)
  /\ flag \in BOOLEAN
  /\ proc \in [Process -> [phase : Phase, rule : Rule \cup {NoRule}, flagged : BOOLEAN,
                           previous : Nat, sent : BOOLEAN]]
  /\ dispatched \in 0..MaxDispatches
  /\ failures \in [Rule -> Nat]

Init ==
  /\ now = 0
  /\ jobs = {}
  /\ log = <<>>
  /\ flag = FALSE
  /\ proc = [p \in Process |-> Idle]
  /\ dispatched = 0
  /\ failures = [r \in Rule |-> 0]

Become(p, state) == proc' = [proc EXCEPT ![p] = state]
Go(p, phase) == Become(p, [proc[p] EXCEPT !.phase = phase])

(* The rows a read brings back: all of them, or ReadLimit of them.         *)
Reads ==
  {rows \in SUBSET (1..Len(log)) :
     Cardinality(rows) = IF Len(log) < ReadLimit THEN Len(log) ELSE ReadLimit}

Append1(r, channel, status, attempts) ==
  log' = Append(log, [rule |-> r, channel |-> channel, status |-> status,
                      attempts |-> attempts, at |-> now])

-----------------------------------------------------------------------------

(* A trigger whose rule the contribution declares.                         *)
Dispatch(r) ==
  /\ dispatched < MaxDispatches
  /\ dispatched' = dispatched + 1
  /\ jobs' = jobs \cup {r}
  /\ UNCHANGED <<now, log, flag, proc, failures>>

(* A queued job leaves the list before it runs, so a worker that dies      *)
(* loses it.                                                               *)
Take(p, r) ==
  /\ proc[p] = Idle
  /\ r \in jobs
  /\ jobs' = jobs \ {r}
  /\ Become(p, [Idle EXCEPT !.phase = "account", !.rule = r])
  /\ UNCHANGED <<now, log, flag, dispatched, failures>>

(* The account may be gone, or the resident may have switched a channel    *)
(* off: then nothing is sent on it and nothing is logged.                  *)
ReadAccount(p) ==
  /\ proc[p].phase = "account"
  /\ \/ Become(p, Idle)
     \/ \E next \in {"push", "streak"} :
          /\ next = "push" => PushAvailable
          /\ Become(p, [proc[p] EXCEPT !.phase = next, !.flagged = flag])
  /\ UNCHANGED <<now, jobs, log, flag, dispatched, failures>>

(* Only a resident with a device gets one.  It is logged with no count,    *)
(* and e-mail may be switched off.                                         *)
SendPush(p) ==
  /\ proc[p].phase = "push"
  /\ \/ \E status \in Status : Append1(proc[p].rule, "push", status, 0)
     \/ UNCHANGED log
  /\ \/ Go(p, "streak")
     \/ Become(p, Idle)
  /\ UNCHANGED <<now, jobs, flag, dispatched, failures>>

(* Mutant: the failures of every rule count together.                      *)
StreakOfAnyRule(rows, r) ==
  LET mine == {i \in rows : log[i].channel = "email"}
      latest == {i \in mine : \A j \in mine : log[j].at <= log[i].at} IN
  IF mine = {} THEN {0}
  ELSE {IF log[i].status = "sent" THEN 0 ELSE log[i].attempts : i \in latest}

(* The count on the latest row of this rule's mails; rows of one second    *)
(* come in any order.                                                      *)
Streak(rows, r) ==
  LET mine == {i \in rows : log[i].rule = r /\ log[i].channel = "email"}
      latest == {i \in mine : \A j \in mine : log[j].at <= log[i].at} IN
  IF mine = {} THEN {0}
  ELSE {IF log[i].status = "sent" THEN 0 ELSE log[i].attempts : i \in latest}

ReadStreak(p) ==
  LET q == proc[p] IN
  /\ q.phase = "streak"
  /\ \/ \E rows \in Reads : \E n \in Streak(rows, q.rule) :
          Become(p, [q EXCEPT !.phase = "send", !.previous = n])
     \/ MayFail /\ Become(p, [q EXCEPT !.phase = "send", !.previous = 0])
  /\ UNCHANGED <<now, jobs, log, flag, dispatched, failures>>

(* No address, one that is not valid, and a mailer that refuses all fail.  *)
SendEmail(p) ==
  LET r == proc[p].rule IN
  /\ proc[p].phase = "send"
  /\ \E sent \in BOOLEAN :
       /\ Become(p, [proc[p] EXCEPT !.phase = "record", !.sent = sent])
       /\ failures' = IF sent THEN failures ELSE [failures EXCEPT ![r] = @ + 1]
  /\ UNCHANGED <<now, jobs, log, flag, dispatched>>

Attempts(q) == IF q.sent THEN 0 ELSE q.previous + 1

Flags(q) == ~q.sent /\ Attempts(q) >= Threshold
Clears(q) == q.sent /\ q.flagged

(* A row that could not be written is only warned about.                   *)
RecordAttempt(p) ==
  LET q == proc[p] IN
  /\ q.phase = "record"
  /\ \/ Append1(q.rule, "email", IF q.sent THEN "sent" ELSE "failed", Attempts(q))
     \/ MayFail /\ UNCHANGED log
  /\ IF Flags(q) \/ Clears(q) THEN Go(p, "flag") ELSE Become(p, Idle)
  /\ UNCHANGED <<now, jobs, flag, dispatched, failures>>

FlagNeedsAlternativeContact(p) ==
  /\ proc[p].phase = "flag"
  /\ \/ flag' = Flags(proc[p])
     \/ MayFail /\ UNCHANGED flag
  /\ Become(p, Idle)
  /\ UNCHANGED <<now, jobs, log, dispatched, failures>>

Die(p) ==
  /\ MayFail
  /\ proc[p].phase # "idle"
  /\ Become(p, Idle)
  /\ UNCHANGED <<now, jobs, log, flag, dispatched, failures>>

Tick ==
  /\ now < MaxTime
  /\ now' = now + 1
  /\ UNCHANGED <<jobs, log, flag, proc, dispatched, failures>>

Next ==
  \/ \E r \in Rule : Dispatch(r)
  \/ \E p \in Process :
       \/ \E r \in Rule : Take(p, r)
       \/ ReadAccount(p) \/ SendPush(p) \/ ReadStreak(p) \/ SendEmail(p)
       \/ RecordAttempt(p) \/ FlagNeedsAlternativeContact(p) \/ Die(p)
  \/ Tick

Spec == Init /\ [][Next]_vars

-----------------------------------------------------------------------------

(* The account is never flagged before one rule failed Threshold times,    *)
(* however jobs overlap, die or misread the log (emailAndRecord, 270-319;  *)
(* previousFailureStreak, 505-539).                                        *)
FlagHasCause == flag => \E r \in Rule : failures[r] >= Threshold

=============================================================================
