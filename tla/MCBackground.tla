---------------------------- MODULE MCBackground ----------------------------
(***************************************************************************)
(* Small instances of the background jobs for TLC: the notification mails, *)
(* the deferred pushes, the task delivery and the intake delivery.  They   *)
(* share no state, so a behaviour runs one of them, in the way its         *)
(* scenario names.                                                         *)
(***************************************************************************)
EXTENDS NotificationDispatch, Deliveries, TLC

CONSTANTS
  ParallelTime,  \* bound: the clock, where mails overlap
  LastChange,    \* bound: the last hour at which quiet hours may change
  MaxStuck,      \* bound: rows, submissions and pushes that cannot be settled
  MaxRepeats,    \* bound: what is done for a row that cannot be written to
  Scenarios

VARIABLE scenario

(* Nothing fails but the mails, and the log is shorter than one read.      *)
Settled == INSTANCE NotificationDispatch WITH
  MayFail <- FALSE, ReadLimit <- 2 * MaxDispatches

(* Everything may fail; pushes, which nothing but the log remembers, are   *)
(* left to the other scenario.                                             *)
Overlapping == INSTANCE NotificationDispatch WITH PushAvailable <- FALSE

mailVars == vars
mcVars == <<vars, pushVars, taskVars, intakeVars, scenario>>

(* Bounds: quiet hours past midnight, inside a day, and none.              *)
SomeWindows == {DefaultWindow, [start |-> 0, end |-> 2], [start |-> 1, end |-> 1]}

APushScenario == scenario \in {"changing", "steady"}

(* Which of the rows or pushes cannot be settled makes no difference.      *)
SomeRow == CHOOSE r \in Row : TRUE
SomePush == CHOOSE m \in Push : TRUE

MCInit ==
  /\ Init
  /\ PushInit
  /\ TaskInit
  /\ IntakeInit
  /\ scenario \in Scenarios
  /\ window \in SomeWindows
  /\ scenario # "steady" => window = DefaultWindow
  /\ steady = (scenario # "changing")
  /\ Cardinality(StuckRows) <= MaxStuck /\ StuckRows \subseteq {SomeRow}
  /\ \A r \in anonymous : channel[r] # "opaque"
  /\ Cardinality(idless) <= MaxStuck
  /\ Cardinality(undated) + Cardinality(unnamed) + (IF delivers THEN 0 ELSE 1) <= MaxStuck
  /\ undated \cup unnamed \subseteq {SomePush}
  /\ scenario # "tasks" => channel = [r \in Row |-> "unusable"] /\ anonymous = {}
  /\ scenario # "intake" => idless = {}
  /\ scenario # "steady" => undated = {} /\ unnamed = {} /\ delivers

(* One job at a time, and a second between two mails.                      *)
Serial ==
  /\ \A p, q \in Process : proc[p] # Idle /\ proc[q] # Idle => p = q
  /\ \A i, j \in 1..Len(log) :
       i < j /\ log[i].channel = "email" /\ log[j].channel = "email" => log[i].at < log[j].at

(* Bounds: quiet hours change only while a request is between its two      *)
(* looks, where it matters, and requests are early.                        *)
EarlyChanges ==
  /\ window' # window => caller # NoPush /\ window' \in SomeWindows
  /\ caller' # NoPush => hour' <= LastChange

(* Bound: what comes back every run is refused after MaxRepeats times.     *)
FewRepeats ==
  /\ \A r \in anonymous : told'[r] <= MaxRepeats /\ blind'[r] <= MaxRepeats
  /\ \A s \in idless : made'[s] <= MaxRepeats
  /\ \A m \in unnamed : pushed'[m] <= MaxRepeats

MailNext ==
  /\ \/ scenario = "parallel" /\ Overlapping!Next /\ now' <= ParallelTime
     \/ scenario = "serial" /\ Settled!Next /\ Serial'
  /\ UNCHANGED <<pushVars, taskVars, intakeVars, scenario>>

OnlyPushes == UNCHANGED <<mailVars, taskVars, intakeVars, scenario>>
OnlyTasks == UNCHANGED <<mailVars, pushVars, intakeVars, scenario>>
OnlyIntake == UNCHANGED <<mailVars, pushVars, taskVars, scenario>>

MCNext ==
  \/ MailNext
  \/ APushScenario /\ PushNext /\ FewRepeats /\ (scenario = "changing" => EarlyChanges) /\ OnlyPushes
  \/ scenario = "tasks" /\ TaskNext /\ FewRepeats /\ OnlyTasks
  \/ scenario = "intake" /\ IntakeNext /\ FewRepeats /\ OnlyIntake

(* The components' own fairness, each in its scenario.                     *)
Fairness ==
  /\ WF_mcVars(scenario = "tasks" /\ TaskStep /\ FewRepeats /\ OnlyTasks)
  /\ WF_mcVars(scenario = "intake" /\ IntakeStep /\ FewRepeats /\ OnlyIntake)
  /\ WF_mcVars(APushScenario /\ QueuePush /\ UNCHANGED pushFixed /\ OnlyPushes)
  /\ WF_mcVars(APushScenario /\ PushStep /\ FewRepeats /\ UNCHANGED pushFixed /\ OnlyPushes)
  /\ WF_mcVars(APushScenario /\ HourPasses /\ UNCHANGED pushFixed /\ OnlyPushes
                 /\ (scenario = "changing" => EarlyChanges))

MCSpec == MCInit /\ [][MCNext]_mcVars /\ Fairness
=============================================================================
