------------------------------- MODULE TimedTask -------------------------------
(***************************************************************************)
(* A pupil takes a timed test: the question screen                          *)
(* (components/timed-task/TimedTaskView.vue), the queue that saves its      *)
(* answers one request at a time and the handing in (shared/timedTask.js).  *)
(* The leaf app, which keeps the attempt, is external: it takes answers     *)
(* while the attempt is open and refuses them with 409 afterwards.          *)
(*                                                                         *)
(* What the queue does between two requests is one step of the browser; a   *)
(* save and the hand-in are requests of their own, which may be lost, or    *)
(* their answers.  Which waiting question is sent first is left open.       *)
(***************************************************************************)
EXTENDS Integers, Sequences, SequencesExt

CONSTANTS
  Questions,
  Answers,    \* what a pupil can answer
  NoAnswer,   \* neither a question nor an answer
  Ordered,    \* the questions that ask for an order
  GivenOrder, \* the order their choices are given in
  MaxAnswers  \* bound: answers given

ASSUME TimedTaskAssumption ==
  /\ NoAnswer \notin Questions \cup Answers /\ MaxAnswers \in Nat
  /\ Ordered \subseteq Questions /\ GivenOrder \in Answers

VARIABLES
  attempt,  \* the leaf app: whether the attempt is open, and the answers it has
  test,     \* the screen and its queue
  given     \* answers given so far

testVars == <<attempt, test, given>>

Idle == [question |-> NoAnswer, answer |-> NoAnswer, told |-> "idle"]

(* What a question starts with: the answer the app has, else the given     *)
(* order, which is on screen as an answer and was never sent.              *)
InitialResponse(q, saved) ==
  IF saved # NoAnswer THEN saved ELSE IF q \in Ordered THEN GivenOrder ELSE NoAnswer

(* A screen and a queue over the answers the attempt has.                  *)
Fresh(on, saved) ==
  [on |-> on, answers |-> [q \in Questions |-> InitialResponse(q, saved[q])],
   submitting |-> FALSE, notice |-> "no", waiting |-> {}, unsaved |-> {}, failed |-> {},
   closed |-> FALSE, sending |-> Idle,
   waits |-> <<>>,       \* the flushes that wait for the queue, in the order they came
   retrying |-> "no",    \* the flush whose retry is under way
   handIn |-> "no", allSaved |-> FALSE,
   touched |-> {},       \* history: what the pupil answered on this screen
   late |-> {}]          \* history: what was answered while the hand-in was under way

Blank == [q \in Questions |-> NoAnswer]

TestInit ==
  /\ attempt = [open |-> TRUE, saved |-> Blank]
  /\ test = Fresh(FALSE, Blank)
  /\ given = 0

-----------------------------------------------------------------------------
(* What the queue does in one step, as the set of its outcomes.            *)

Running(t) == t.sending.told # "idle"

(* run(): the next question is sent, with its latest answer.               *)
Runs(t) ==
  IF t.closed \/ t.waiting = {} THEN {[t EXCEPT !.sending = Idle]}
  ELSE {[t EXCEPT !.sending = [question |-> q, answer |-> t.answers[q], told |-> "nothing"],
                  !.waiting = @ \ {q}] : q \in t.waiting}

(* set()                                                                   *)
Sets(t, q, a) ==
  LET s == [t EXCEPT !.answers[q] = a, !.waiting = @ \cup {q}, !.unsaved = @ \cup {q},
                     !.failed = @ \ {q}] IN
  IF Running(s) \/ s.closed THEN {s} ELSE Runs(s)

Retries(t) == Runs([t EXCEPT !.waiting = @ \cup t.failed, !.failed = {}])

(* Mutant: everything is saved when nothing failed.                        *)
FlushedUnlessFailed(t, who) ==
  IF who = "hand" THEN [t EXCEPT !.handIn = "sent", !.allSaved = (t.failed = {})] ELSE t

(* A flush ends; the hand-in is sent after its own.                        *)
Flushed(t, who) ==
  IF who = "hand" THEN [t EXCEPT !.handIn = "sent", !.allSaved = (t.unsaved = {})] ELSE t

(* Mutant: a flush does not wait for the request under way.                *)
FlushesAtOnce(t, who) ==
  IF ~t.closed /\ t.failed # {} THEN Retries([t EXCEPT !.retrying = who]) ELSE {Flushed(t, who)}

(* flush(): wait for the queue, then retry what failed.                    *)
Flushes(t, who) ==
  IF Running(t) THEN {[t EXCEPT !.waits = IF Contains(@, who) THEN @ ELSE Append(@, who)]}
  ELSE IF ~t.closed /\ t.failed # {} THEN Retries([t EXCEPT !.retrying = who])
  ELSE {Flushed(t, who)}

(* The queue fell silent: the flush whose retry this was ends, the first of *)
(* those that waited retries what failed, and the others find nothing left  *)
(* to retry and end.                                                       *)
Resumes(t) ==
  LET retry == ~t.closed /\ t.failed # {} /\ t.waits # <<>>
      next == IF retry THEN Head(t.waits) ELSE "no"
      handEnds == t.retrying = "hand" \/ (Contains(t.waits, "hand") /\ next # "hand")
      ended == Flushed([t EXCEPT !.waits = <<>>, !.retrying = next],
                       IF handEnds THEN "hand" ELSE "go")
  IN IF Running(t) THEN {t} ELSE IF retry THEN Retries(ended) ELSE {ended}

(* Mutant: an acknowledgement counts whatever was answered since.          *)
NotedWhatever(t) ==
  LET q == t.sending.question IN
  [t EXCEPT !.closed = @ \/ t.sending.told = "closed",
            !.unsaved = IF t.sending.told = "saved" THEN @ \ {q} ELSE @,
            !.failed = IF t.sending.told = "saved" THEN @ \ {q} ELSE @ \cup {q}]

(* The answer to a save counts unless the question was answered again.     *)
Noted(t) ==
  LET q == t.sending.question IN
  [t EXCEPT !.closed = @ \/ t.sending.told = "closed",
            !.unsaved = IF q \notin t.waiting /\ t.sending.told = "saved" THEN @ \ {q} ELSE @,
            !.failed = IF q \in t.waiting THEN @
                       ELSE IF t.sending.told = "saved" THEN @ \ {q} ELSE @ \cup {q}]

(* handIn(), once per attempt; and the watcher that hands a closed one in.  *)
HandsIn(t) ==
  IF t.submitting \/ ~t.on THEN {t} ELSE Flushes([t EXCEPT !.submitting = TRUE], "hand")

Watched(t) == IF t.closed THEN HandsIn(t) ELSE {t}

-----------------------------------------------------------------------------

(* The test is started, or gone on with.  Bound: not while a request of the *)
(* queue before is under way.                                              *)
StartTest ==
  /\ ~test.on /\ ~Running(test) /\ attempt.open
  /\ test' = Fresh(TRUE, attempt.saved)
  /\ UNCHANGED <<attempt, given>>

(* The histories of an answer.                                             *)
Marked(t, q) ==
  [t EXCEPT !.touched = @ \cup {q}, !.late = IF t.handIn = "no" THEN @ ELSE @ \cup {q}]

GiveAnswer(q, a) ==
  /\ test.on /\ a # test.answers[q] /\ given < MaxAnswers
  /\ given' = given + 1
  /\ \E t \in Sets(test, q, a) : test' \in Watched(Marked(t, q))
  /\ UNCHANGED attempt

GoToQuestion ==
  /\ test.on
  /\ test' \in Flushes(test, "go")
  /\ UNCHANGED <<attempt, given>>

(* The pupil says so, or the countdown reaches zero.                       *)
HandInTest ==
  /\ test.on
  /\ test' \in HandsIn(test)
  /\ UNCHANGED <<attempt, given>>

(* A save reaches the app, or is lost, or its answer is.                   *)
SaveArrives ==
  /\ test.sending.told = "nothing"
  /\ \/ /\ attempt.open
        /\ attempt' = [attempt EXCEPT !.saved[test.sending.question] = test.sending.answer]
        /\ \E told \in {"saved", "failed"} : test' = [test EXCEPT !.sending.told = told]
     \/ /\ ~attempt.open
        /\ test' = [test EXCEPT !.sending.told = "closed"]
        /\ UNCHANGED attempt
     \/ test' = [test EXCEPT !.sending.told = "failed"] /\ UNCHANGED attempt
  /\ UNCHANGED given

SaveAnswered ==
  /\ test.sending.told \in {"saved", "closed", "failed"}
  /\ \E ran \in Runs(Noted(test)) : \E resumed \in Resumes(ran) : test' \in Watched(resumed)
  /\ UNCHANGED <<attempt, given>>

(* The hand-in closes the attempt, or is lost.                             *)
HandInArrives ==
  /\ test.handIn = "sent"
  /\ \/ attempt' = [attempt EXCEPT !.open = FALSE]
     \/ UNCHANGED attempt
  /\ test' = [test EXCEPT !.handIn = "answered"]
  /\ UNCHANGED given

(* The screen goes by whether all was saved; what the hand-in itself was    *)
(* answered is not looked at.                                              *)
HandInAnswered ==
  /\ test.handIn = "answered"
  /\ test' = [test EXCEPT !.on = FALSE, !.handIn = "no",
                !.notice = IF test.allSaved THEN "handed in" ELSE "not all saved"]
  /\ UNCHANGED <<attempt, given>>

(* The deadline passes at the app, or another tab hands in.                *)
ClosedByApp ==
  /\ attempt.open
  /\ attempt' = [attempt EXCEPT !.open = FALSE]
  /\ UNCHANGED <<test, given>>

TestNext ==
  \/ StartTest \/ GoToQuestion \/ HandInTest
  \/ \E q \in Questions, a \in Answers : GiveAnswer(q, a)
  \/ SaveArrives \/ SaveAnswered \/ HandInArrives \/ HandInAnswered \/ ClosedByApp

TestSpec == TestInit /\ [][TestNext]_testVars

-----------------------------------------------------------------------------

(* Every variable has its type.                                            *)
TestTypeOK ==
  /\ attempt.open \in BOOLEAN /\ given \in 0..MaxAnswers
  /\ attempt.saved \in [Questions -> Answers \cup {NoAnswer}]
  /\ test.answers \in [Questions -> Answers \cup {NoAnswer}]
  /\ test.waiting \subseteq Questions /\ test.unsaved \subseteq Questions
  /\ test.failed \subseteq Questions /\ test.late \subseteq Questions
  /\ test.touched \subseteq Questions
  /\ test.sending.question \in Questions \cup {NoAnswer}
  /\ test.sending.answer \in Answers \cup {NoAnswer}
  /\ test.sending.told \in {"idle", "nothing", "saved", "closed", "failed"}

(* Shown in the order it was given, untouched: it counts as answered and is *)
(* called saved, and the app has no answer (initialResponse, isAnswered).   *)
AsGiven(q) == q \in Ordered \ test.touched /\ attempt.saved[q] = NoAnswer

(* A question the screen calls saved has its latest answer at the app, over *)
(* any order of answers, acknowledgements, retries and lost requests, but   *)
(* for an order the pupil left as it was given (createSaveQueue, 198-206,   *)
(* and initialResponse).                                                   *)
SavedIsStored ==
  \A q \in Questions \ test.unsaved : attempt.saved[q] = test.answers[q] \/ AsGiven(q)

(* Told that the test is handed in, the pupil has every answer at the app,  *)
(* but those given after the hand-in was sent and the orders left as given  *)
(* (submitAttempt).                                                        *)
HandedInIsWhole ==
  test.notice = "handed in" =>
    \A q \in Questions \ test.late : attempt.saved[q] = test.answers[q] \/ AsGiven(q)

(* A save is under way beside the hand-in only when it was answered after   *)
(* it, or when moving to another question took the retry.                   *)
HandInWaits ==
  test.handIn # "no" /\ Running(test) =>
    test.sending.question \in test.late \/ test.retrying = "go"
=============================================================================
