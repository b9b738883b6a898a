\* Two rules, two workers, a threshold of two; two pushes over nine hours of three-hour days;
\* three ledger rows, two submissions, batches of two, troubles at any step.
SPECIFICATION MCSpec
CONSTANTS
  Rule = {r1, r2}
  Process = {p1, p2}
  NoRule = NoRule
  Threshold = 2
  ReadLimit = 2
  PushAvailable = TRUE
  MaxDispatches = 3
  MaxTime = 2
  MayFail = TRUE
  ParallelTime = 1
  Push = {m1, m2}
  NoPush = NoPush
  Day = 3
  Page = 1
  DefaultStart = 2
  DefaultEnd = 1
  LastHour = 9
  MaxHiccups = 1
  LastChange = 1
  MaxStuck = 1
  MaxRepeats = 2
  Scenarios = {"parallel", "serial", "changing", "steady", "tasks", "intake"}
  Row = {t1, t2, t3}
  None = None
  BatchLimit = 2
  MaxTrouble = 2
  Submission = {s1, s2}
  NoSubmission = NoSubmission
  QueueLimit = 2
  MaxMishaps = 3
CHECK_DEADLOCK FALSE
INVARIANTS
  FlagHasCause DeferredToWindowEnd RepeatsNeedTrouble
PROPERTIES
  EverythingIsSettled
