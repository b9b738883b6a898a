----------------------------- MODULE ScreensProofs -----------------------------
(***************************************************************************)
(* Proofs about the screens of the site that hold work of their own: the    *)
(* timed test, the collection page and the form of an action.               *)
(***************************************************************************)
EXTENDS TimedTask, CollectionPage, StepForm, WellFoundedInduction, TLAPS

-----------------------------------------------------------------------------
(* What a pupil is told of a timed test is so, for any questions, answers   *)
(* and number of them.  The argument: a question that is not called unsaved *)
(* is neither waiting, nor failed, nor under way, so nothing that is still  *)
(* to happen can give the app another answer to it; and the question under  *)
(* way, unless it was answered again, is sent with its latest answer.       *)

Given == [Questions -> Answers \cup {NoAnswer}]

Tests == [on : BOOLEAN, answers : Given, submitting : BOOLEAN,
          notice : {"no", "handed in", "not all saved"},
          waiting : SUBSET Questions, unsaved : SUBSET Questions, failed : SUBSET Questions,
          closed : BOOLEAN,
          sending : [question : Questions \cup {NoAnswer}, answer : Answers \cup {NoAnswer},
                     told : {"idle", "nothing", "saved", "closed", "failed"}],
          waits : Seq({"hand", "go"}), retrying : {"no", "hand", "go"},
          handIn : {"no", "sent", "answered"}, allSaved : BOOLEAN,
          touched : SUBSET Questions, late : SUBSET Questions]

(* The part of the invariant that holds at every point of a step.          *)
Core(t, saved) ==
  /\ t \in Tests
  /\ t.waiting \subseteq t.unsaved /\ t.failed \subseteq t.unsaved
  /\ t.unsaved \subseteq t.touched
  /\ \A q \in Questions \ t.unsaved : saved[q] = t.answers[q]
                                     \/ (q \in Ordered \ t.touched /\ saved[q] = NoAnswer)
  /\ t.handIn # "no" /\ t.allSaved => t.unsaved \subseteq t.late
  /\ t.notice = "handed in" => ~t.on /\ t.unsaved \subseteq t.late

(* What is under way.                                                      *)
Sends(t, saved) ==
  t.sending.told # "idle" =>
    /\ t.sending.question \in t.unsaved
    /\ t.sending.question \notin t.waiting =>
         t.sending.answer = t.answers[t.sending.question]
    /\ t.sending.told = "saved" => saved[t.sending.question] = t.sending.answer

Sound(t, saved) == Core(t, saved) /\ Sends(t, saved)

TestInv ==
  /\ attempt \in [open : BOOLEAN, saved : Given]
  /\ given \in 0..MaxAnswers
  /\ Sound(test, attempt.saved)

-----------------------------------------------------------------------------
(* Each thing the queue does keeps the invariant.                          *)

LEMMA FreshIsSound ==
  ASSUME NEW on \in BOOLEAN, NEW saved \in Given
  PROVE  Sound(Fresh(on, saved), saved)
<1>0. \A q \in Questions : InitialResponse(q, saved[q]) \in Answers \cup {NoAnswer}
  BY TimedTaskAssumption DEF InitialResponse, Given
<1>1. Fresh(on, saved) \in Tests
  <2>1. [q \in Questions |-> InitialResponse(q, saved[q])] \in Given
    BY <1>0 DEF Given
  <2>2. <<>> \in Seq({"hand", "go"})
    OBVIOUS
  <2> QED BY <2>1, <2>2 DEF Fresh, Tests, Idle
<1>2. Core(Fresh(on, saved), saved)
  BY <1>1 DEF Fresh, Core, InitialResponse
<1>3. Sends(Fresh(on, saved), saved)
  BY DEF Fresh, Sends, Idle
<1> QED BY <1>2, <1>3 DEF Sound

LEMMA RunsAreSound ==
  ASSUME NEW saved \in Given, NEW t, Core(t, saved), NEW u \in Runs(t)
  PROVE  Sound(u, saved)
<1>1. CASE u = [t EXCEPT !.sending = Idle]
  <2>1. u \in Tests
    BY <1>1 DEF Core, Tests, Idle
  <2>2. Core(u, saved)
    BY <1>1, <2>1 DEF Core, Tests
  <2>3. u.sending.told = "idle"
    BY <1>1 DEF Core, Tests, Idle
  <2> QED BY <2>2, <2>3 DEF Sound, Sends
<1>2. ASSUME NEW q \in t.waiting,
             u = [t EXCEPT !.sending = [question |-> q, answer |-> t.answers[q],
                                        told |-> "nothing"],
                           !.waiting = @ \ {q}]
      PROVE  Sound(u, saved)
  <2>1. q \in Questions /\ t.answers[q] \in Answers \cup {NoAnswer}
    BY <1>2 DEF Core, Tests, Given
  <2>2. u \in Tests
    BY <1>2, <2>1 DEF Core, Tests
  <2>3. Core(u, saved)
    BY <1>2, <2>2 DEF Core, Tests
  <2>4. Sends(u, saved)
    BY <1>2, <2>1 DEF Core, Tests, Sends
  <2> QED BY <2>3, <2>4 DEF Sound
<1>3. u = [t EXCEPT !.sending = Idle] \/ \E q \in t.waiting :
        u = [t EXCEPT !.sending = [question |-> q, answer |-> t.answers[q],
                                   told |-> "nothing"],
                      !.waiting = @ \ {q}]
  BY DEF Runs
<1> QED BY <1>1, <1>2, <1>3

LEMMA RetriesAreSound ==
  ASSUME NEW saved \in Given, NEW t, Core(t, saved), NEW u \in Retries(t)
  PROVE  Sound(u, saved)
<1> DEFINE w == [t EXCEPT !.waiting = @ \cup t.failed, !.failed = {}]
<1>1. w \in Tests
  BY DEF Core, Tests
<1>2. Core(w, saved)
  BY <1>1 DEF Core, Tests
<1> QED BY <1>2, RunsAreSound DEF Retries

LEMMA FlushedIsSound ==
  ASSUME NEW saved \in Given, NEW t, NEW who \in {"hand", "go"}, Core(t, saved)
  PROVE  /\ Core(Flushed(t, who), saved)
         /\ Sends(t, saved) => Sends(Flushed(t, who), saved)
<1> DEFINE w == [t EXCEPT !.handIn = "sent", !.allSaved = (t.unsaved = {})]
<1>1. w \in Tests
  BY DEF Core, Tests
<1>2. Core(w, saved)
  BY <1>1 DEF Core, Tests
<1>3. Sends(t, saved) => Sends(w, saved)
  BY DEF Core, Tests, Sends
<1> QED BY <1>2, <1>3 DEF Flushed

LEMMA FlushesAreSound ==
  ASSUME NEW saved \in Given, NEW t, NEW who \in {"hand", "go"}, Sound(t, saved),
         NEW u \in Flushes(t, who)
  PROVE  Sound(u, saved)
<1> USE DEF Sound
<1>1. CASE Running(t)
  <2> PICK waits \in Seq({"hand", "go"}) : u = [t EXCEPT !.waits = waits]
    <3>1. t.waits \in Seq({"hand", "go"})
      BY DEF Core, Tests
    <3>2. Append(t.waits, who) \in Seq({"hand", "go"})
      BY <3>1
    <3>3. u = [t EXCEPT !.waits = IF Contains(@, who) THEN @ ELSE Append(@, who)]
      BY <1>1 DEF Flushes
    <3> QED BY <3>1, <3>2, <3>3
  <2>1. u \in Tests
    BY DEF Core, Tests
  <2>2. Core(u, saved)
    BY <2>1 DEF Core, Tests
  <2>3. Sends(u, saved)
    BY DEF Core, Tests, Sends
  <2> QED BY <2>2, <2>3
<1>2. CASE ~Running(t) /\ ~t.closed /\ t.failed # {}
  <2> DEFINE w == [t EXCEPT !.retrying = who]
  <2>1. w \in Tests
    BY DEF Core, Tests
  <2>2. Core(w, saved)
    BY <2>1 DEF Core, Tests
  <2>3. u \in Retries(w)
    BY <1>2 DEF Flushes
  <2> QED BY <2>2, <2>3, RetriesAreSound
<1>3. CASE ~Running(t) /\ ~(~t.closed /\ t.failed # {})
  <2>1. u = Flushed(t, who)
    BY <1>3 DEF Flushes
  <2> QED BY <2>1, FlushedIsSound
<1> QED BY <1>1, <1>2, <1>3

LEMMA ResumesAreSound ==
  ASSUME NEW saved \in Given, NEW t, Sound(t, saved), NEW u \in Resumes(t)
  PROVE  Sound(u, saved)
<1> DEFINE retry == ~t.closed /\ t.failed # {} /\ t.waits # <<>>
           next == IF retry THEN Head(t.waits) ELSE "no"
           handEnds == t.retrying = "hand" \/ (Contains(t.waits, "hand") /\ next # "hand")
           w == [t EXCEPT !.waits = <<>>, !.retrying = next]
           who == IF handEnds THEN "hand" ELSE "go"
           ended == Flushed(w, who)
<1>0. t.waits \in Seq({"hand", "go"})
  BY DEF Sound, Core, Tests
<1>1. next \in {"no", "hand", "go"}
  BY <1>0
<1> HIDE DEF next
<1>2. w \in Tests
  <2>1. <<>> \in Seq({"hand", "go"})
    OBVIOUS
  <2> QED BY <1>1, <2>1 DEF Sound, Core, Tests
<1>3. Sound(w, saved)
  BY <1>2 DEF Sound, Core, Sends, Tests
<1>4. who \in {"hand", "go"}
  OBVIOUS
<1> HIDE DEF w, who
<1>5. Sound(ended, saved)
  BY <1>3, <1>4, FlushedIsSound DEF Sound
<1>6. u = t \/ u \in Retries(ended) \/ u = ended
  BY DEF Resumes, next, w, who
<1> QED BY <1>5, <1>6, RetriesAreSound DEF Sound

LEMMA HandsInIsSound ==
  ASSUME NEW saved \in Given, NEW t, Sound(t, saved), NEW u \in HandsIn(t)
  PROVE  Sound(u, saved)
<1> DEFINE w == [t EXCEPT !.submitting = TRUE]
<1>1. w \in Tests
  BY DEF Sound, Core, Tests
<1>2. Sound(w, saved)
  BY <1>1 DEF Sound, Core, Sends, Tests
<1>3. u = t \/ u \in Flushes(w, "hand")
  BY DEF HandsIn
<1> QED BY <1>2, <1>3, FlushesAreSound

LEMMA WatchedIsSound ==
  ASSUME NEW saved \in Given, NEW t, Sound(t, saved), NEW u \in Watched(t)
  PROVE  Sound(u, saved)
BY HandsInIsSound DEF Watched

(* An acknowledgement, before the next question is sent.                   *)
LEMMA NotedIsSound ==
  ASSUME NEW saved \in Given, NEW t, Sound(t, saved), t.sending.told # "idle"
  PROVE  Core(Noted(t), saved)
<1> DEFINE u == Noted(t)
<1> DEFINE q == t.sending.question
           closed == t.closed \/ t.sending.told = "closed"
           unsaved == IF q \notin t.waiting /\ t.sending.told = "saved"
                      THEN t.unsaved \ {q} ELSE t.unsaved
           failed == IF q \in t.waiting THEN t.failed
                     ELSE IF t.sending.told = "saved" THEN t.failed \ {q}
                     ELSE t.failed \cup {q}
<1>1. u \in Tests
  <2>1. q \in t.unsaved
    BY DEF Sound, Sends
  <2>2. t.closed \in BOOLEAN /\ closed \in BOOLEAN
    BY DEF Sound, Core, Tests
  <2>3. unsaved \in SUBSET Questions /\ failed \in SUBSET Questions
    BY <2>1 DEF Sound, Core, Tests
  <2>4. u = [t EXCEPT !.closed = closed, !.unsaved = unsaved, !.failed = failed]
    BY DEF Noted, Sound, Core, Tests
  <2> HIDE DEF u, closed, unsaved, failed
  <2> QED BY <2>2, <2>3, <2>4 DEF Sound, Core, Tests
<1>2. /\ u.waiting = t.waiting /\ u.answers = t.answers /\ u.late = t.late
      /\ u.touched = t.touched
      /\ u.handIn = t.handIn /\ u.allSaved = t.allSaved /\ u.notice = t.notice
      /\ u.on = t.on
      /\ u.unsaved = IF t.sending.question \notin t.waiting /\ t.sending.told = "saved"
                     THEN t.unsaved \ {t.sending.question} ELSE t.unsaved
      /\ u.failed = IF t.sending.question \in t.waiting THEN t.failed
                    ELSE IF t.sending.told = "saved" THEN t.failed \ {t.sending.question}
                    ELSE t.failed \cup {t.sending.question}
  BY DEF Sound, Core, Noted, Tests
<1> HIDE DEF u
<1>3. u.waiting \subseteq u.unsaved /\ u.failed \subseteq u.unsaved
  BY <1>2 DEF Sound, Core, Sends
<1>4. \A p \in Questions \ u.unsaved :
        saved[p] = u.answers[p] \/ (p \in Ordered \ u.touched /\ saved[p] = NoAnswer)
  BY <1>2 DEF Sound, Core, Sends
<1>5. u.unsaved \subseteq t.unsaved
  BY <1>2
<1> QED BY <1>1, <1>2, <1>3, <1>4, <1>5 DEF Core, Sound, u

(* An answer, kept by the screen and queued.                               *)
LEMMA AnsweredIsSound ==
  ASSUME NEW saved \in Given, NEW t, Sound(t, saved), t.on,
         NEW q \in Questions, NEW a \in Answers, NEW s \in Sets(t, q, a)
  PROVE  Sound(Marked(s, q), saved)
<1> DEFINE w == [t EXCEPT !.answers[q] = a, !.waiting = @ \cup {q},
                          !.unsaved = @ \cup {q}, !.failed = @ \ {q}]
           v == Marked(w, q)
           u == Marked(s, q)
<1>1. w \in Tests
  BY DEF Sound, Core, Tests, Given
<1>2. /\ w.on = t.on /\ w.notice = t.notice /\ w.late = t.late /\ w.handIn = t.handIn
      /\ w.allSaved = t.allSaved /\ w.sending = t.sending
      /\ w.waiting = t.waiting \cup {q} /\ w.unsaved = t.unsaved \cup {q}
      /\ w.failed = t.failed \ {q} /\ w.answers = [t.answers EXCEPT ![q] = a]
      /\ w.closed = t.closed /\ w.touched = t.touched
  BY DEF Sound, Core, Tests
<1>a. t.answers \in Given
  BY DEF Sound, Core, Tests
<1>3. s = w \/ s \in Runs(w)
  BY DEF Sets
<1> HIDE DEF w
<1>4. v \in Tests
  BY <1>1 DEF Tests, Marked
<1>5. /\ v.touched = t.touched \cup {q} /\ v.on = t.on /\ v.notice = t.notice /\ v.handIn = t.handIn
      /\ v.late = IF t.handIn = "no" THEN t.late ELSE t.late \cup {q}
      /\ v.allSaved = t.allSaved /\ v.sending = t.sending
      /\ v.waiting = t.waiting \cup {q} /\ v.unsaved = t.unsaved \cup {q}
      /\ v.failed = t.failed \ {q} /\ v.answers = [t.answers EXCEPT ![q] = a]
      /\ v.closed = t.closed
  BY <1>1, <1>2 DEF Tests, Marked
<1> HIDE DEF v
<1>6. Core(v, saved)
  <2>1. /\ v.waiting \subseteq v.unsaved /\ v.failed \subseteq v.unsaved
        /\ v.unsaved \subseteq v.touched
    BY <1>5 DEF Sound, Core
  <2>2. \A p \in Questions \ v.unsaved :
          saved[p] = v.answers[p] \/ (p \in Ordered \ v.touched /\ saved[p] = NoAnswer)
    BY <1>5, <1>a DEF Sound, Core, Given
  <2>3. v.handIn # "no" /\ v.allSaved => v.unsaved \subseteq v.late
    BY <1>5 DEF Sound, Core
  <2>4. v.notice # "handed in"
    BY <1>5 DEF Sound, Core
  <2> QED BY <1>4, <2>1, <2>2, <2>3, <2>4 DEF Core
<1>7. Sends(v, saved)
  BY <1>5, <1>a DEF Sound, Sends, Given
<1>8. CASE s = w
  BY <1>6, <1>7, <1>8 DEF Sound, v
<1>9. CASE s \in Runs(w)
  <2>1. u \in Runs(v)
    <3>1. CASE v.closed \/ v.waiting = {}
      <4>1. s = [w EXCEPT !.sending = Idle]
        BY <3>1, <1>2, <1>5, <1>9 DEF Runs
      <4>2. u = [v EXCEPT !.sending = Idle]
        BY <4>1, <1>1 DEF v, Tests, Marked
      <4> QED BY <4>2, <3>1 DEF Runs
    <3>2. CASE ~(v.closed \/ v.waiting = {})
      <4>1. PICK p \in w.waiting :
              s = [w EXCEPT !.sending = [question |-> p, answer |-> w.answers[p],
                                         told |-> "nothing"],
                            !.waiting = @ \ {p}]
        BY <3>2, <1>2, <1>5, <1>9 DEF Runs
      <4>2. u = [v EXCEPT !.sending = [question |-> p, answer |-> v.answers[p],
                                       told |-> "nothing"],
                          !.waiting = @ \ {p}]
        BY <4>1, <1>1, <1>2, <1>5 DEF v, Tests, Marked
      <4>3. p \in v.waiting
        BY <1>2, <1>5
      <4> QED BY <4>2, <4>3, <3>2 DEF Runs
    <3> QED BY <3>1, <3>2
  <2> HIDE DEF u
  <2>2. Sound(u, saved)
    BY <2>1, <1>6, RunsAreSound
  <2> QED BY <2>2 DEF u
<1> QED BY <1>3, <1>8, <1>9

-----------------------------------------------------------------------------
(* The invariant, over the steps of the specification.                     *)

LEMMA TestInitInv == TestInit => TestInv
<1> SUFFICES ASSUME TestInit PROVE TestInv
  OBVIOUS
<1>1. Blank \in Given /\ FALSE \in BOOLEAN
  BY DEF Blank, Given
<1>2. attempt.saved = Blank /\ attempt \in [open : BOOLEAN, saved : Given]
  BY <1>1 DEF TestInit
<1>3. given \in 0..MaxAnswers
  BY TimedTaskAssumption DEF TestInit
<1>4. Sound(test, Blank)
  BY <1>1, FreshIsSound DEF TestInit
<1> QED BY <1>2, <1>3, <1>4 DEF TestInv

LEMMA TestStepInv == TestInv /\ [TestNext]_testVars => TestInv'
<1> SUFFICES ASSUME TestInv, [TestNext]_testVars PROVE TestInv'
  OBVIOUS
<1>1. /\ attempt \in [open : BOOLEAN, saved : Given] /\ attempt.saved \in Given
      /\ given \in 0..MaxAnswers /\ Sound(test, attempt.saved) /\ test \in Tests
  BY DEF TestInv, Sound, Core
<1>a. ASSUME attempt' = attempt, given' \in 0..MaxAnswers, Sound(test', attempt.saved)
      PROVE  TestInv'
  BY <1>1, <1>a DEF TestInv
<1>2. CASE StartTest
  <2>1. test' = Fresh(TRUE, attempt.saved) /\ attempt' = attempt /\ given' = given
    BY <1>2 DEF StartTest
  <2>2. Sound(test', attempt.saved)
    BY <1>1, <2>1, FreshIsSound
  <2> QED BY <2>1, <2>2, <1>1, <1>a
<1>3. CASE GoToQuestion
  <2>1. test' \in Flushes(test, "go") /\ attempt' = attempt /\ given' = given
    BY <1>3 DEF GoToQuestion
  <2>2. Sound(test', attempt.saved)
    BY <1>1, <2>1, FlushesAreSound
  <2> QED BY <2>1, <2>2, <1>1, <1>a
<1>4. CASE HandInTest
  <2>1. test' \in HandsIn(test) /\ attempt' = attempt /\ given' = given
    BY <1>4 DEF HandInTest
  <2>2. Sound(test', attempt.saved)
    BY <1>1, <2>1, HandsInIsSound
  <2> QED BY <2>1, <2>2, <1>1, <1>a
<1>5. ASSUME NEW q \in Questions, NEW a \in Answers, GiveAnswer(q, a)
      PROVE  TestInv'
  <2>1. PICK s \in Sets(test, q, a) :
          test' \in Watched(Marked(s, q))
    BY <1>5 DEF GiveAnswer
  <2>2. test.on /\ attempt' = attempt /\ given' \in 0..MaxAnswers
    BY <1>5, <1>1, TimedTaskAssumption DEF GiveAnswer
  <2>3. Sound(Marked(s, q), attempt.saved)
    BY <2>2, <1>1, AnsweredIsSound
  <2>4. Sound(test', attempt.saved)
    BY <2>1, <2>3, <1>1, WatchedIsSound
  <2> QED BY <2>2, <2>4, <1>a
<1>6. CASE SaveArrives
  <2> DEFINE q == test.sending.question
  <2>1. /\ test.sending.told = "nothing" /\ given' = given
        /\ test.sending \in [question : Questions \cup {NoAnswer},
                             answer : Answers \cup {NoAnswer},
                             told : {"idle", "nothing", "saved", "closed", "failed"}]
    BY <1>1, <1>6 DEF SaveArrives, Tests
  <2>2. PICK told \in {"saved", "closed", "failed"} :
          /\ test' = [test EXCEPT !.sending.told = told]
          /\ \/ attempt' = [attempt EXCEPT !.saved[q] = test.sending.answer]
             \/ attempt' = attempt /\ told # "saved"
    BY <1>6 DEF SaveArrives
  <2>3. q \in test.unsaved /\ q \in Questions
    BY <2>1, <1>1 DEF Sound, Sends, Tests
  <2>4. test' = [test EXCEPT !.sending = [test.sending EXCEPT !.told = told]]
    BY <2>2, <1>1 DEF Tests
  <2>5. test' \in Tests
    <3> DEFINE now == [test.sending EXCEPT !.told = told]
    <3>1. now \in [question : Questions \cup {NoAnswer}, answer : Answers \cup {NoAnswer},
                   told : {"idle", "nothing", "saved", "closed", "failed"}]
      BY <2>1
    <3> HIDE DEF now
    <3>2. [test EXCEPT !.sending = now] \in Tests
      BY <3>1, <1>1 DEF Tests
    <3> QED BY <2>4, <3>2 DEF now
  <2>6. /\ test'.sending = [test.sending EXCEPT !.told = told]
        /\ test'.answers = test.answers /\ test'.waiting = test.waiting
        /\ test'.unsaved = test.unsaved /\ test'.failed = test.failed
        /\ test'.handIn = test.handIn /\ test'.allSaved = test.allSaved
        /\ test'.late = test.late /\ test'.touched = test.touched
        /\ test'.notice = test.notice /\ test'.on = test.on
    BY <2>4, <1>1 DEF Tests
  <2>7. /\ attempt' \in [open : BOOLEAN, saved : Given] /\ attempt'.saved \in Given
        /\ \A p \in Questions \ {q} : attempt'.saved[p] = attempt.saved[p]
        /\ told = "saved" => attempt'.saved[q] = test.sending.answer
    <3>1. test.sending.answer \in Answers \cup {NoAnswer}
      BY <2>1
    <3>2. CASE attempt' = [attempt EXCEPT !.saved[q] = test.sending.answer]
      <4>1. attempt'.saved = [attempt.saved EXCEPT ![q] = test.sending.answer]
            /\ attempt'.open = attempt.open
        BY <3>2, <1>1
      <4>2. attempt' = [attempt EXCEPT !.saved = attempt'.saved]
        BY <3>2, <4>1, <1>1
      <4>3. attempt'.saved \in Given
        BY <4>1, <3>1, <1>1 DEF Given
      <4> QED BY <4>1, <4>2, <4>3, <2>3, <1>1 DEF Given
    <3>3. CASE attempt' = attempt /\ told # "saved"
      BY <3>3, <1>1
    <3> QED BY <2>2, <3>2, <3>3
  <2>8. Core(test', attempt'.saved)
    <3>1. \A p \in Questions \ test'.unsaved :
            \/ attempt'.saved[p] = test'.answers[p]
            \/ p \in Ordered \ test'.touched /\ attempt'.saved[p] = NoAnswer
      <4> TAKE p \in Questions \ test'.unsaved
      <4>1. p \in Questions \ test.unsaved /\ p # q
        BY <2>3, <2>6
      <4>2. \/ attempt.saved[p] = test.answers[p]
            \/ p \in Ordered \ test.touched /\ attempt.saved[p] = NoAnswer
        BY <4>1, <1>1 DEF Sound, Core
      <4>3. attempt'.saved[p] = attempt.saved[p]
        BY <4>1, <2>7
      <4> QED BY <4>2, <4>3, <2>6
    <3> QED BY <3>1, <2>5, <2>6, <1>1 DEF Sound, Core
  <2>9. Sends(test', attempt'.saved)
    <3>1. /\ test'.sending.question = q /\ test'.sending.answer = test.sending.answer
          /\ test'.sending.told = told
      BY <2>1, <2>6
    <3> QED BY <3>1, <2>1, <2>6, <2>7, <1>1 DEF Sound, Sends
  <2> QED BY <2>1, <2>7, <2>8, <2>9, <1>1 DEF TestInv, Sound
<1>7. CASE SaveAnswered
  <2>a. PICK ran \in Runs(Noted(test)) : \E u \in Resumes(ran) : test' \in Watched(u)
    BY <1>7 DEF SaveAnswered
  <2>1. PICK resumed \in Resumes(ran) : test' \in Watched(resumed)
    BY <2>a
  <2>2. test.sending.told # "idle" /\ attempt' = attempt /\ given' = given
    BY <1>7 DEF SaveAnswered
  <2>3. Core(Noted(test), attempt.saved)
    BY <2>2, <1>1, NotedIsSound
  <2>4. Sound(ran, attempt.saved)
    BY <2>1, <2>3, <1>1, RunsAreSound
  <2>5. Sound(resumed, attempt.saved)
    BY <2>1, <2>4, <1>1, ResumesAreSound
  <2>6. Sound(test', attempt.saved)
    BY <2>1, <2>5, <1>1, WatchedIsSound
  <2> QED BY <2>2, <2>6, <1>1, <1>a
<1>8. CASE HandInArrives
  <2>1. /\ test' = [test EXCEPT !.handIn = "answered"] /\ test.handIn = "sent"
        /\ given' = given
        /\ attempt' = [attempt EXCEPT !.open = FALSE] \/ attempt' = attempt
    BY <1>8 DEF HandInArrives
  <2>2. attempt' \in [open : BOOLEAN, saved : Given] /\ attempt'.saved = attempt.saved
    BY <2>1, <1>1
  <2>3. test' \in Tests
    BY <2>1, <1>1 DEF Tests
  <2>4. Sound(test', attempt.saved)
    BY <2>1, <2>3, <1>1 DEF Sound, Core, Sends, Tests
  <2> QED BY <2>1, <2>2, <2>4, <1>1 DEF TestInv
<1>9. CASE HandInAnswered
  <2>1. /\ test' = [test EXCEPT !.on = FALSE, !.handIn = "no",
                       !.notice = IF test.allSaved THEN "handed in" ELSE "not all saved"]
        /\ test.handIn = "answered" /\ given' = given /\ attempt' = attempt
    BY <1>9 DEF HandInAnswered
  <2>2. test' \in Tests
    BY <2>1, <1>1 DEF Tests
  <2>3. Sound(test', attempt.saved)
    BY <2>1, <2>2, <1>1 DEF Sound, Core, Sends, Tests
  <2> QED BY <2>1, <2>3, <1>1, <1>a
<1>10. CASE ClosedByApp
  <2>1. attempt' = [attempt EXCEPT !.open = FALSE] /\ test' = test /\ given' = given
    BY <1>10 DEF ClosedByApp
  <2>2. attempt' \in [open : BOOLEAN, saved : Given] /\ attempt'.saved = attempt.saved
    BY <2>1, <1>1
  <2> QED BY <2>1, <2>2, <1>1 DEF TestInv
<1>11. CASE UNCHANGED testVars
  BY <1>11, <1>1, <1>a DEF testVars
<1> QED
  BY <1>2, <1>3, <1>4, <1>5, <1>6, <1>7, <1>8, <1>9, <1>10, <1>11 DEF TestNext

THEOREM TestInvariant == TestSpec => []TestInv
BY TestInitInv, TestStepInv, PTL DEF TestSpec

(* Every variable of the timed test keeps its type (TimedTaskView.vue,      *)
(* timedTask.js).                                                          *)
THEOREM TestTypeCorrect == TestSpec => []TestTypeOK
<1>1. TestInv => TestTypeOK
  <2> SUFFICES ASSUME TestInv PROVE TestTypeOK
    OBVIOUS
  <2>1. attempt \in [open : BOOLEAN, saved : Given] /\ given \in 0..MaxAnswers
    BY DEF TestInv
  <2>2. test \in Tests
    BY DEF TestInv, Sound, Core
  <2> QED BY <2>1, <2>2 DEF TestTypeOK, Tests, Given
<1> QED BY <1>1, TestInvariant, PTL

(* A question the screen calls saved has its latest answer at the app, over *)
(* any order of answers, acknowledgements, retries and lost requests        *)
(* but for an order the pupil left as it was given (createSaveQueue and     *)
(* initialResponse of timedTask.js).                                       *)
THEOREM SavedAnswersAreStored == TestSpec => []SavedIsStored
<1>1. TestInv => SavedIsStored
  BY DEF TestInv, Sound, Core, SavedIsStored, AsGiven
<1> QED BY <1>1, TestInvariant, PTL

(* Who is told that the test is handed in has every answer at the app, but  *)
(* those given after the hand-in was sent and the orders left as given      *)
(* (submitAttempt, handIn, initialResponse).                               *)
THEOREM HandedInTestsAreWhole == TestSpec => []HandedInIsWhole
<1>1. TestInv => HandedInIsWhole
  BY DEF TestInv, Sound, Core, HandedInIsWhole, AsGiven
<1> QED BY <1>1, TestInvariant, PTL

-----------------------------------------------------------------------------
(* The hand-in waits for the queue.  It is asked for once, and until it is  *)
(* sent it is one of the flushes that wait or the one whose retry is under  *)
(* way; it is sent when the queue is silent, so what is still to be sent    *)
(* then was answered since, unless moving to another question retries what  *)
(* failed.                                                                 *)

HandWaits(t) == Contains(t.waits, "hand")

HandOnce(t) ==
  /\ HandWaits(t) \/ t.retrying = "hand" => t.submitting /\ t.handIn = "no"
  /\ ~(HandWaits(t) /\ t.retrying = "hand")
  /\ t.handIn # "no" => t.submitting

(* What is left to be sent once the hand-in is under way.                  *)
LeftIsLate(t) == t.handIn # "no" /\ t.retrying # "go" => t.waiting \subseteq t.late

(* Between two steps of the queue, and when all its flushes have ended too. *)
InOrder(t) ==
  /\ HandOnce(t)
  /\ Running(t) => ~t.closed /\ LeftIsLate(t)
  /\ ~Running(t) => t.closed \/ t.waiting = {}
  /\ t.handIn # "no" /\ Running(t) /\ t.retrying # "go" => t.sending.question \in t.late

Settled(t) == InOrder(t) /\ (~Running(t) => t.retrying = "no" /\ t.waits = <<>>)

LEMMA FreshIsSettled ==
  ASSUME NEW on \in BOOLEAN, NEW saved \in Given
  PROVE  Settled(Fresh(on, saved))
<1>1. ~Contains(<<>>, "hand")
  BY DEF Contains
<1> QED
  BY <1>1 DEF Fresh, Idle, Settled, InOrder, HandOnce, HandWaits, Running

LEMMA RunsInOrder ==
  ASSUME NEW t \in Tests, HandOnce(t), LeftIsLate(t), NEW u \in Runs(t)
  PROVE  /\ InOrder(u) /\ u.waits = t.waits /\ u.retrying = t.retrying
         /\ ~t.closed /\ t.waiting # {} => Running(u)
<1>1. CASE u = [t EXCEPT !.sending = Idle] /\ (t.closed \/ t.waiting = {})
  <2>1. /\ u.waits = t.waits /\ u.retrying = t.retrying /\ u.submitting = t.submitting
        /\ u.handIn = t.handIn /\ u.closed = t.closed /\ u.waiting = t.waiting
        /\ u.sending.told = "idle"
    BY <1>1 DEF Tests, Idle
  <2> QED BY <1>1, <2>1 DEF InOrder, HandOnce, HandWaits, Running
<1>2. ASSUME NEW q \in t.waiting, ~t.closed,
             u = [t EXCEPT !.sending = [question |-> q, answer |-> t.answers[q],
                                        told |-> "nothing"],
                           !.waiting = @ \ {q}]
      PROVE  /\ InOrder(u) /\ u.waits = t.waits /\ u.retrying = t.retrying /\ Running(u)
  <2>1. /\ u.waits = t.waits /\ u.retrying = t.retrying /\ u.submitting = t.submitting
        /\ u.handIn = t.handIn /\ u.closed = t.closed /\ u.waiting = t.waiting \ {q}
        /\ u.late = t.late /\ u.sending.question = q /\ u.sending.told = "nothing"
    BY <1>2 DEF Tests
  <2> QED BY <1>2, <2>1 DEF InOrder, HandOnce, HandWaits, LeftIsLate, Running
<1> QED BY <1>1, <1>2 DEF Runs

LEMMA RetriesSettled ==
  ASSUME NEW t \in Tests, HandOnce(t), t.handIn = "no" \/ t.retrying = "go",
         ~t.closed, t.failed # {}, NEW u \in Retries(t)
  PROVE  Settled(u)
<1> DEFINE w == [t EXCEPT !.waiting = @ \cup t.failed, !.failed = {}]
<1>1. w \in Tests
  BY DEF Tests
<1>2. /\ w.waits = t.waits /\ w.retrying = t.retrying /\ w.submitting = t.submitting
      /\ w.handIn = t.handIn /\ w.closed = t.closed /\ w.waiting # {}
  BY DEF Tests
<1>3. u \in Runs(w)
  BY DEF Retries
<1> HIDE DEF w
<1>4. HandOnce(w) /\ LeftIsLate(w)
  BY <1>2 DEF HandOnce, HandWaits, LeftIsLate
<1> QED BY <1>1, <1>2, <1>3, <1>4, RunsInOrder DEF Settled

LEMMA FlushesSettled ==
  ASSUME NEW t \in Tests, Settled(t), NEW who \in {"hand", "go"},
         who = "hand" => /\ t.submitting /\ t.handIn = "no"
                         /\ ~HandWaits(t) /\ t.retrying # "hand",
         NEW u \in Flushes(t, who)
  PROVE  Settled(u)
<1>1. CASE Running(t)
  <2>1. t.waits \in Seq({"hand", "go"})
    BY DEF Tests
  <2>2. PICK waits \in Seq({"hand", "go"}) :
          /\ u = [t EXCEPT !.waits = waits]
          /\ Contains(waits, "hand") => HandWaits(t) \/ who = "hand"
    <3>1. u = [t EXCEPT !.waits = IF Contains(@, who) THEN @ ELSE Append(@, who)]
      BY <1>1 DEF Flushes
    <3>2. CASE Contains(t.waits, who)
      BY <2>1, <3>1, <3>2 DEF HandWaits
    <3>3. CASE ~Contains(t.waits, who)
      <4>1. Append(t.waits, who) \in Seq({"hand", "go"})
        BY <2>1
      <4>2. Contains(Append(t.waits, who), "hand") => HandWaits(t) \/ who = "hand"
        BY <2>1 DEF Contains, HandWaits
      <4> QED BY <3>1, <3>3, <4>1, <4>2
    <3> QED BY <3>2, <3>3
  <2>3. /\ u.waits = waits /\ u.retrying = t.retrying /\ u.submitting = t.submitting
        /\ u.handIn = t.handIn /\ u.closed = t.closed /\ u.waiting = t.waiting
        /\ u.late = t.late /\ u.sending = t.sending
    BY <2>2 DEF Tests
  <2> QED
    BY <1>1, <2>2, <2>3 DEF Settled, InOrder, HandOnce, HandWaits, LeftIsLate, Running
<1>2. CASE ~Running(t) /\ ~t.closed /\ t.failed # {}
  <2> DEFINE w == [t EXCEPT !.retrying = who]
  <2>1. w \in Tests
    BY DEF Tests
  <2>2. /\ w.waits = t.waits /\ w.retrying = who /\ w.submitting = t.submitting
        /\ w.handIn = t.handIn /\ w.closed = t.closed /\ w.failed = t.failed
    BY DEF Tests
  <2>3. u \in Retries(w)
    BY <1>2 DEF Flushes
  <2> HIDE DEF w
  <2>4. HandOnce(w)
    BY <1>2, <2>2 DEF Settled, InOrder, HandOnce, HandWaits, Contains
  <2> QED BY <1>2, <2>1, <2>2, <2>3, <2>4, RetriesSettled
<1>3. CASE ~Running(t) /\ ~(~t.closed /\ t.failed # {})
  <2>1. u = t \/ (who = "hand" /\ u = [t EXCEPT !.handIn = "sent",
                                                !.allSaved = (t.unsaved = {})])
    BY <1>3 DEF Flushes, Flushed
  <2>2. u = t \/ (/\ who = "hand" /\ u.handIn = "sent" /\ u.waits = t.waits
                  /\ u.retrying = t.retrying /\ u.submitting = t.submitting
                  /\ u.closed = t.closed /\ u.waiting = t.waiting /\ u.sending = t.sending)
    BY <2>1 DEF Tests
  <2> QED BY <1>3, <2>2 DEF Settled, InOrder, HandOnce, HandWaits, Contains, Running
<1> QED BY <1>1, <1>2, <1>3

LEMMA ResumesSettled ==
  ASSUME NEW saved \in Given, NEW t, Sound(t, saved), InOrder(t), NEW u \in Resumes(t)
  PROVE  Settled(u)
<1> DEFINE retry == ~t.closed /\ t.failed # {} /\ t.waits # <<>>
           next == IF retry THEN Head(t.waits) ELSE "no"
           handEnds == t.retrying = "hand" \/ (Contains(t.waits, "hand") /\ next # "hand")
           w == [t EXCEPT !.waits = <<>>, !.retrying = next]
           who == IF handEnds THEN "hand" ELSE "go"
           ended == Flushed(w, who)
<1>1. CASE Running(t)
  BY <1>1 DEF Resumes, Settled
<1>2. CASE ~Running(t)
  <2>1. t \in Tests /\ t.waits \in Seq({"hand", "go"})
    BY DEF Sound, Core, Tests
  <2>2. next \in {"no", "hand", "go"} /\ (next = "hand" => retry /\ HandWaits(t))
    BY <2>1 DEF HandWaits, Contains
  <2>3. next # "no" <=> retry
    BY <2>1
  <2>4. w \in Tests
    <3> HIDE DEF next
    <3>1. <<>> \in Seq({"hand", "go"})
      OBVIOUS
    <3> QED BY <2>1, <2>2, <3>1 DEF Tests
  <2>5. /\ w.waits = <<>> /\ w.retrying = next /\ w.submitting = t.submitting
        /\ w.handIn = t.handIn /\ w.closed = t.closed /\ w.waiting = t.waiting
        /\ w.failed = t.failed /\ w.unsaved = t.unsaved /\ w.sending = t.sending
    BY <2>1 DEF Tests
  <2>6. next = "hand" => ~handEnds /\ t.submitting /\ t.handIn = "no"
    BY <2>2 DEF InOrder, HandOnce, HandWaits
  <2>7. handEnds => t.submitting
    BY DEF InOrder, HandOnce, HandWaits
  <2> HIDE DEF next, w
  <2>8. /\ ended \in Tests /\ ended.waits = <<>> /\ ended.retrying = next
        /\ ended.submitting = t.submitting /\ ended.closed = t.closed
        /\ ended.waiting = t.waiting /\ ended.failed = t.failed
        /\ ended.sending = t.sending
        /\ ended.handIn = IF handEnds THEN "sent" ELSE t.handIn
    <3> HIDE DEF handEnds
    <3>1. CASE handEnds
      <4>1. ended = [w EXCEPT !.handIn = "sent", !.allSaved = (w.unsaved = {})]
        BY <3>1 DEF Flushed
      <4>2. (w.unsaved = {}) \in BOOLEAN
        OBVIOUS
      <4> HIDE DEF ended
      <4> QED BY <2>4, <2>5, <3>1, <4>1, <4>2 DEF Tests
    <3>2. CASE ~handEnds
      <4>1. ended = w
        BY <3>2 DEF Flushed
      <4> HIDE DEF ended
      <4> QED BY <2>4, <2>5, <3>2, <4>1
    <3> QED BY <3>1, <3>2
  <2>9. HandOnce(ended)
    <3>1. ~HandWaits(ended)
      BY <2>8 DEF HandWaits, Contains
    <3>2. t.handIn # "no" => t.submitting
      BY DEF InOrder, HandOnce
    <3> QED BY <2>6, <2>7, <2>8, <3>1, <3>2 DEF HandOnce
  <2>10. CASE retry
    <3>1. u \in Retries(ended)
      BY <1>2, <2>10 DEF Resumes, next, w
    <3>2. ended.handIn = "no" \/ ended.retrying = "go"
      BY <2>2, <2>3, <2>6, <2>8, <2>10
    <3> QED BY <2>8, <2>9, <2>10, <3>1, <3>2, RetriesSettled
  <2>11. CASE ~retry
    <3>1. u = ended
      BY <1>2, <2>11 DEF Resumes, next, w
    <3>2. ended.retrying = "no"
      BY <2>3, <2>8, <2>11, <2>2
    <3>3. ~Running(ended) /\ (ended.closed \/ ended.waiting = {})
      BY <1>2, <2>8 DEF InOrder, Running
    <3> QED BY <2>8, <2>9, <3>1, <3>2, <3>3 DEF Settled, InOrder
  <2> QED BY <2>10, <2>11
<1> QED BY <1>1, <1>2

LEMMA HandsInSettled ==
  ASSUME NEW t \in Tests, Settled(t), NEW u \in HandsIn(t)
  PROVE  Settled(u)
<1> DEFINE w == [t EXCEPT !.submitting = TRUE]
<1>1. w \in Tests
  BY DEF Tests
<1>2. CASE u = t
  BY <1>2
<1>3. CASE ~t.submitting /\ u \in Flushes(w, "hand")
  <2>1. t.handIn = "no" /\ ~HandWaits(t) /\ t.retrying # "hand"
    BY <1>3 DEF Settled, InOrder, HandOnce
  <2>2. /\ w.waits = t.waits /\ w.retrying = t.retrying /\ w.submitting
        /\ w.handIn = t.handIn /\ w.closed = t.closed /\ w.waiting = t.waiting
        /\ w.sending = t.sending
    BY DEF Tests
  <2> HIDE DEF w
  <2>3. Settled(w)
    BY <2>1, <2>2 DEF Settled, InOrder, HandOnce, HandWaits, LeftIsLate, Running
  <2>4. ~HandWaits(w)
    BY <2>1, <2>2 DEF HandWaits
  <2> QED BY <1>1, <1>3, <2>1, <2>2, <2>3, <2>4, FlushesSettled
<1> QED BY <1>2, <1>3 DEF HandsIn

LEMMA WatchedSettled ==
  ASSUME NEW t \in Tests, Settled(t), NEW u \in Watched(t)
  PROVE  Settled(u)
BY HandsInSettled DEF Watched

(* An acknowledgement leaves to be sent what it found, and the question     *)
(* answered again among it.                                                *)
LEMMA NotedInOrder ==
  ASSUME NEW saved \in Given, NEW t, Sound(t, saved), Settled(t), Running(t)
  PROVE  Noted(t) \in Tests /\ HandOnce(Noted(t)) /\ LeftIsLate(Noted(t))
<1> DEFINE u == Noted(t)
<1>1. u \in Tests
  BY NotedIsSound DEF Running, Core
<1>2. /\ u.waits = t.waits /\ u.retrying = t.retrying /\ u.submitting = t.submitting
      /\ u.handIn = t.handIn /\ u.waiting = t.waiting /\ u.late = t.late
  BY DEF Noted, Sound, Core, Tests
<1> HIDE DEF u
<1> QED
  BY <1>1, <1>2 DEF Settled, InOrder, HandOnce, HandWaits, LeftIsLate, u

LEMMA AnsweredIsSettled ==
  ASSUME NEW saved \in Given, NEW t, Sound(t, saved), Settled(t),
         NEW q \in Questions, NEW a \in Answers, NEW s \in Sets(t, q, a)
  PROVE  Settled(Marked(s, q))
<1> DEFINE w == [t EXCEPT !.answers[q] = a, !.waiting = @ \cup {q},
                          !.unsaved = @ \cup {q}, !.failed = @ \ {q}]
           u == Marked(s, q)
<1>1. t \in Tests /\ w \in Tests
  BY DEF Sound, Core, Tests, Given
<1>2. /\ w.waits = t.waits /\ w.retrying = t.retrying /\ w.submitting = t.submitting
      /\ w.handIn = t.handIn /\ w.closed = t.closed /\ w.waiting = t.waiting \cup {q}
      /\ w.late = t.late /\ w.sending = t.sending
  BY <1>1 DEF Tests
<1>3. \/ s = w /\ (Running(w) \/ w.closed)
      \/ s \in Runs(w) /\ ~Running(w) /\ ~w.closed
  BY DEF Sets
<1> HIDE DEF w
<1>4. CASE s = w /\ (Running(w) \/ w.closed)
  <2>1. /\ u.waits = t.waits /\ u.retrying = t.retrying /\ u.submitting = t.submitting
        /\ u.handIn = t.handIn /\ u.closed = t.closed /\ u.waiting = t.waiting \cup {q}
        /\ u.late = IF t.handIn = "no" THEN t.late ELSE t.late \cup {q}
        /\ u.sending = t.sending
    BY <1>1, <1>2, <1>4 DEF Tests, Marked
  <2> HIDE DEF u
  <2>2. Running(t) \/ t.closed
    BY <1>2, <1>4 DEF Running
  <2>3. Settled(u)
    BY <2>1, <2>2 DEF Settled, InOrder, HandOnce, HandWaits, LeftIsLate, Running
  <2> QED BY <2>3 DEF u
<1>5. CASE s \in Runs(w) /\ ~Running(w) /\ ~w.closed
  <2>1. ~Running(t) /\ ~t.closed /\ t.waiting = {} /\ t.retrying = "no" /\ t.waits = <<>>
    BY <1>2, <1>5 DEF Settled, InOrder, Running
  <2>a. w.waiting = {q} /\ ~(w.closed \/ w.waiting = {})
    BY <1>2, <1>5, <2>1
  <2>2. s = [w EXCEPT !.sending = [question |-> q, answer |-> w.answers[q],
                                   told |-> "nothing"],
                      !.waiting = @ \ {q}]
    BY <1>5, <2>a DEF Runs
  <2>3. /\ u.waits = t.waits /\ u.retrying = t.retrying /\ u.submitting = t.submitting
        /\ u.handIn = t.handIn /\ u.closed = t.closed /\ u.waiting = {}
        /\ u.late = IF t.handIn = "no" THEN t.late ELSE t.late \cup {q}
        /\ u.sending.question = q /\ u.sending.told = "nothing"
    BY <1>1, <1>2, <2>1, <2>2 DEF Tests, Marked
  <2> HIDE DEF u
  <2>4. Settled(u)
    BY <2>1, <2>3 DEF Settled, InOrder, HandOnce, HandWaits, LeftIsLate, Running
  <2> QED BY <2>4 DEF u
<1> QED BY <1>3, <1>4, <1>5

LEMMA TestStepSettled ==
  TestInv /\ Settled(test) /\ [TestNext]_testVars => Settled(test)'
<1> SUFFICES ASSUME TestInv, Settled(test), [TestNext]_testVars PROVE Settled(test')
  OBVIOUS
<1>1. attempt.saved \in Given /\ Sound(test, attempt.saved) /\ test \in Tests
  BY DEF TestInv, Sound, Core
<1>2. CASE StartTest
  BY <1>1, <1>2, FreshIsSettled DEF StartTest
<1>3. CASE GoToQuestion
  BY <1>1, <1>3, FlushesSettled DEF GoToQuestion
<1>4. CASE HandInTest
  BY <1>1, <1>4, HandsInSettled DEF HandInTest
<1>5. ASSUME NEW q \in Questions, NEW a \in Answers, GiveAnswer(q, a)
      PROVE  Settled(test')
  <2>1. PICK s \in Sets(test, q, a) :
          test' \in Watched(Marked(s, q))
    BY <1>5 DEF GiveAnswer
  <2> DEFINE t == Marked(s, q)
  <2>2. Sound(t, attempt.saved)
    BY <1>1, <1>5, AnsweredIsSound DEF GiveAnswer
  <2>3. Settled(t)
    BY <1>1, AnsweredIsSettled
  <2>4. t \in Tests
    BY <2>2 DEF Sound, Core
  <2> HIDE DEF t
  <2> QED BY <2>1, <2>3, <2>4, WatchedSettled DEF t
<1>6. CASE SaveArrives
  <2>1. PICK told \in {"saved", "closed", "failed"} :
          test' = [test EXCEPT !.sending.told = told] /\ test.sending.told = "nothing"
    BY <1>6 DEF SaveArrives
  <2>2. /\ test'.waits = test.waits /\ test'.retrying = test.retrying
        /\ test'.submitting = test.submitting /\ test'.handIn = test.handIn
        /\ test'.closed = test.closed /\ test'.waiting = test.waiting
        /\ test'.late = test.late /\ test'.sending.told = told
        /\ test'.sending.question = test.sending.question
    BY <1>1, <2>1 DEF Tests
  <2> QED BY <2>1, <2>2 DEF Settled, InOrder, HandOnce, HandWaits, LeftIsLate, Running
<1>7. CASE SaveAnswered
  <2>1. PICK ran \in Runs(Noted(test)) : \E u \in Resumes(ran) : test' \in Watched(u)
    BY <1>7 DEF SaveAnswered
  <2>2. PICK resumed \in Resumes(ran) : test' \in Watched(resumed)
    BY <2>1
  <2>3. Running(test) /\ test.sending.told # "idle"
    BY <1>7 DEF SaveAnswered, Running
  <2>4. Noted(test) \in Tests /\ HandOnce(Noted(test)) /\ LeftIsLate(Noted(test))
    BY <1>1, <2>3, NotedInOrder
  <2>5. Sound(ran, attempt.saved)
    BY <1>1, <2>3, NotedIsSound, RunsAreSound
  <2>6. InOrder(ran)
    BY <2>4, RunsInOrder
  <2>7. Settled(resumed)
    BY <1>1, <2>5, <2>6, ResumesSettled
  <2>8. resumed \in Tests
    BY <1>1, <2>5, ResumesAreSound DEF Sound, Core
  <2> QED BY <2>2, <2>7, <2>8, WatchedSettled
<1>8. CASE HandInArrives
  <2>1. test' = [test EXCEPT !.handIn = "answered"] /\ test.handIn = "sent"
    BY <1>8 DEF HandInArrives
  <2>2. /\ test'.waits = test.waits /\ test'.retrying = test.retrying
        /\ test'.submitting = test.submitting /\ test'.handIn = "answered"
        /\ test'.closed = test.closed /\ test'.waiting = test.waiting
        /\ test'.late = test.late /\ test'.sending = test.sending
    BY <1>1, <2>1 DEF Tests
  <2> QED BY <2>1, <2>2 DEF Settled, InOrder, HandOnce, HandWaits, LeftIsLate, Running
<1>9. CASE HandInAnswered
  <2>1. /\ test' = [test EXCEPT !.on = FALSE, !.handIn = "no",
                       !.notice = IF test.allSaved THEN "handed in" ELSE "not all saved"]
        /\ test.handIn = "answered"
    BY <1>9 DEF HandInAnswered
  <2>2. /\ test'.waits = test.waits /\ test'.retrying = test.retrying
        /\ test'.submitting = test.submitting /\ test'.handIn = "no"
        /\ test'.closed = test.closed /\ test'.waiting = test.waiting
        /\ test'.late = test.late /\ test'.sending = test.sending
    BY <1>1, <2>1 DEF Tests
  <2> QED BY <2>1, <2>2 DEF Settled, InOrder, HandOnce, HandWaits, LeftIsLate, Running
<1>10. CASE ClosedByApp \/ UNCHANGED testVars
  BY <1>10 DEF ClosedByApp, testVars
<1> QED
  BY <1>2, <1>3, <1>4, <1>5, <1>6, <1>7, <1>8, <1>9, <1>10 DEF TestNext

(* A save is under way beside the hand-in only when it was answered after   *)
(* it, or when moving to another question took the retry (flush, handIn,    *)
(* createSaveQueue).                                                       *)
THEOREM HandInsWaitForSaves == TestSpec => []HandInWaits
<1>1. TestInit => Settled(test)
  <2>1. Blank \in Given /\ FALSE \in BOOLEAN
    BY DEF Blank, Given
  <2> QED BY <2>1, FreshIsSettled DEF TestInit
<1>2. Settled(test) => HandInWaits
  BY DEF Settled, InOrder, HandInWaits
<1>3. TestInit => TestInv
  BY TestInitInv
<1> QED BY <1>1, <1>2, TestInvariant, TestStepSettled, PTL DEF TestSpec

-----------------------------------------------------------------------------
(* A collection page shows what its own writes need, for any collections,   *)
(* rows and number of them: the latest read of a collection was asked after *)
(* the last write that was answered, so it shows it, or it is unanswered,   *)
(* or it failed and the page says so.                                       *)

(* What a read that is still the latest will show has the writes the page   *)
(* owes this resident; so has the table, unless it loads or failed.         *)
Rows == [loading : BOOLEAN, failed : BOOLEAN, shows : Nat]
Numbers == Nat \cup {Unanswered, Failed}

CollectionTyped ==
  /\ written \in Nat
  /\ table \in [Collections -> Rows]
  /\ turn \in [Collections -> Nat]
  /\ own \in [Collections -> Nat]
  /\ reads \in SUBSET [of : Collections, turn : Nat, shows : Numbers]
  /\ acts \in SUBSET [as : Kinds, number : Numbers]

ReadsShowOwn ==
  \A r \in reads :
    /\ r.turn <= turn[r.of]
    /\ IsLatest(r) => r.shows \in {Unanswered, Failed} \/ r.shows >= own[r.of]

CollectionInv ==
  /\ CollectionTyped
  /\ \A c \in Collections : own[c] <= written
  /\ \A w \in acts : w.number <= written
  /\ ReadsShowOwn
  /\ OwnWritesShow

LEMMA CollectionInitInv == CollectionInit => CollectionInv
BY DEF CollectionInit, CollectionInv, CollectionTyped, ReadsShowOwn, OwnWritesShow, Rows, Numbers

(* Whatever is loaded again, what is owed may rise by as much as is written. *)
LEMMA LoadKeepsInv ==
  ASSUME CollectionInv, NEW cs \in SUBSET Collections, Load(cs),
         written' = written,
         acts' \subseteq acts,
         own' \in [Collections -> Nat],
         \A c \in Collections : own'[c] <= written /\ (c \notin cs => own'[c] = own[c])
  PROVE  CollectionInv'
<1> USE DEF CollectionInv
<1>1. CollectionTyped'
  <2>1. turn' \in [Collections -> Nat]
    <3>1. turn' = [c \in Collections |-> IF c \in cs THEN turn[c] + 1 ELSE turn[c]]
      BY DEF Load
    <3>2. \A c \in Collections : turn[c] \in Nat /\ turn[c] + 1 \in Nat
      BY DEF CollectionTyped
    <3> QED BY <3>1, <3>2
  <2>2. \A c \in cs : [of |-> c, turn |-> turn[c] + 1, shows |-> Unanswered]
                        \in [of : Collections, turn : Nat, shows : Numbers]
    BY DEF CollectionTyped, Numbers
  <2>3. reads' \in SUBSET [of : Collections, turn : Nat, shows : Numbers]
    <3>1. reads' = reads \cup {[of |-> c, turn |-> turn[c] + 1, shows |-> Unanswered] : c \in cs}
      BY DEF Load
    <3> QED BY <2>2, <3>1 DEF CollectionTyped
  <2>4. table' \in [Collections -> Rows]
    <3>1. table' = [c \in Collections |->
            IF c \in cs THEN [table[c] EXCEPT !.loading = TRUE, !.failed = FALSE] ELSE table[c]]
      BY DEF Load
    <3>2. \A c \in Collections :
            [table[c] EXCEPT !.loading = TRUE, !.failed = FALSE] \in Rows /\ table[c] \in Rows
      BY DEF CollectionTyped, Rows
    <3> QED BY <3>1, <3>2
  <2> QED BY <2>1, <2>3, <2>4 DEF CollectionTyped
<1>2. ReadsShowOwn'
  <2> SUFFICES ASSUME NEW r \in reads'
               PROVE  /\ r.turn <= turn'[r.of]
                      /\ r.turn = turn'[r.of] =>
                           r.shows \in {Unanswered, Failed} \/ r.shows >= own'[r.of]
    BY DEF ReadsShowOwn, IsLatest
  <2>1. CASE r \in reads
    <3>1. r.of \in Collections /\ r.turn \in Nat /\ turn[r.of] \in Nat
      BY <2>1 DEF CollectionTyped
    <3>2. turn'[r.of] = IF r.of \in cs THEN turn[r.of] + 1 ELSE turn[r.of]
      BY <3>1 DEF Load
    <3>3. r.turn <= turn[r.of]
      BY <2>1 DEF ReadsShowOwn
    <3> QED BY <2>1, <3>1, <3>2, <3>3 DEF ReadsShowOwn, IsLatest
  <2>2. ASSUME NEW c \in cs, r = [of |-> c, turn |-> turn[c] + 1, shows |-> Unanswered]
        PROVE  r.turn <= turn'[r.of] /\ r.shows = Unanswered
    <3>1. turn'[c] = turn[c] + 1 /\ turn[c] \in Nat
      BY DEF Load, CollectionTyped
    <3> QED BY <2>2, <3>1
  <2> QED BY <2>1, <2>2 DEF Load
<1>3. OwnWritesShow'
  BY DEF Load, OwnWritesShow, CollectionTyped, Rows
<1> QED BY <1>1, <1>2, <1>3 DEF CollectionTyped

LEMMA CollectionStepInv == CollectionInv /\ [CollectionNext]_collectionVars => CollectionInv'
<1> SUFFICES ASSUME CollectionInv, [CollectionNext]_collectionVars PROVE CollectionInv'
  OBVIOUS
<1> USE DEF CollectionInv
<1>1. CASE LoadPage
  BY <1>1, LoadKeepsInv DEF LoadPage, CollectionTyped
<1>2. CASE OtherWrites
  <2>1. CollectionTyped'
    BY <1>2 DEF OtherWrites, CollectionTyped
  <2>2. ReadsShowOwn' /\ OwnWritesShow'
    BY <1>2 DEF OtherWrites, ReadsShowOwn, OwnWritesShow, IsLatest
  <2>3. \A w \in acts : w.number \in Int
    BY DEF CollectionTyped, Numbers, Unanswered, Failed
  <2> QED BY <1>2, <2>1, <2>2, <2>3 DEF OtherWrites, CollectionTyped
<1>3. ASSUME NEW r \in reads, ReadReached(r) PROVE CollectionInv'
  <2> PICK shows \in {written, Failed} :
        reads' = (reads \ {r}) \cup {[r EXCEPT !.shows = shows]}
    BY <1>3 DEF ReadReached
  <2> DEFINE s == [r EXCEPT !.shows = shows]
  <2>1. s \in [of : Collections, turn : Nat, shows : Numbers] /\ s.of = r.of /\ s.turn = r.turn
        /\ s.shows = shows
    BY DEF CollectionTyped, Numbers
  <2>2. CollectionTyped'
    BY <1>3, <2>1 DEF ReadReached, CollectionTyped
  <2>3. ReadsShowOwn'
    BY <1>3, <2>1 DEF ReadReached, ReadsShowOwn, IsLatest, CollectionTyped
  <2> QED BY <1>3, <2>2, <2>3 DEF ReadReached, OwnWritesShow
<1>4. ASSUME NEW r \in reads, ReadAnswered(r) PROVE CollectionInv'
  <2>1. r.of \in Collections /\ r.shows \in Numbers
    BY DEF CollectionTyped
  <2>2. table' \in [Collections -> Rows]
    BY <1>4, <2>1 DEF ReadAnswered, CollectionTyped, Rows, Numbers
  <2>3. OwnWritesShow'
    BY <1>4, <2>1 DEF ReadAnswered, CollectionTyped, Rows, Numbers, OwnWritesShow, ReadsShowOwn
  <2> QED BY <1>4, <2>2, <2>3 DEF ReadAnswered, CollectionTyped, ReadsShowOwn, IsLatest
<1>5. ASSUME NEW k \in Kinds, StartWrite(k) PROVE CollectionInv'
  <2>1. CollectionTyped'
    BY <1>5 DEF StartWrite, CollectionTyped, Numbers
  <2>2. \A w \in acts' : w.number <= written
    BY <1>5 DEF StartWrite, Unanswered, CollectionTyped
  <2> QED BY <1>5, <2>1, <2>2 DEF StartWrite, ReadsShowOwn, IsLatest, OwnWritesShow
<1>6. ASSUME NEW w \in acts, WriteReached(w) PROVE CollectionInv'
  <2> PICK number \in {written + 1, Failed} :
        /\ acts' = (acts \ {w}) \cup {[w EXCEPT !.number = number]}
        /\ number = Failed \/ written' = written + 1
    BY <1>6 DEF WriteReached
  <2>1. written' \in Nat /\ written <= written'
    BY <1>6 DEF WriteReached, CollectionTyped
  <2>2. [w EXCEPT !.number = number] \in [as : Kinds, number : Numbers]
        /\ [w EXCEPT !.number = number].number = number
    BY DEF CollectionTyped, Numbers
  <2>3. CollectionTyped'
    BY <1>6, <2>1, <2>2 DEF WriteReached, CollectionTyped
  <2>4. \A v \in acts : v.number \in Int
    BY DEF CollectionTyped, Numbers, Unanswered, Failed
  <2>5. \A v \in acts' : v.number <= written'
    BY <2>1, <2>2, <2>4 DEF CollectionTyped, Failed
  <2>6. \A c \in Collections : own'[c] <= written'
    BY <1>6, <2>1 DEF WriteReached, CollectionTyped
  <2> QED BY <1>6, <2>3, <2>5, <2>6 DEF WriteReached, ReadsShowOwn, IsLatest, OwnWritesShow
<1>7. ASSUME NEW w \in acts, WriteAnswered(w) PROVE CollectionInv'
  <2>1. LoadsAgain(w) \in SUBSET Collections
    BY DEF CollectionTyped, LoadsAgain, Kinds
  <2>2. w.number <= written /\ w.number \in Int
    BY DEF CollectionTyped, Numbers, Unanswered, Failed
  <2>3. own' \in [Collections -> Nat]
    BY <1>7, <2>2 DEF WriteAnswered, CollectionTyped
  <2>4. \A c \in Collections :
          own'[c] <= written /\ (c \notin LoadsAgain(w) => own'[c] = own[c])
    BY <1>7, <2>2 DEF WriteAnswered, CollectionTyped
  <2> QED BY <1>7, <2>1, <2>3, <2>4, LoadKeepsInv DEF WriteAnswered
<1>8. CASE UNCHANGED collectionVars
  BY <1>8 DEF collectionVars, CollectionTyped, ReadsShowOwn, IsLatest, OwnWritesShow
<1> QED BY <1>1, <1>2, <1>3, <1>4, <1>5, <1>6, <1>7, <1>8 DEF CollectionNext

(* A table that is neither loading nor failed shows every write of this     *)
(* resident that it was loaded again after, for any collections and any     *)
(* order of reads, writes and answers.                                      *)
THEOREM OwnWritesAreShown == CollectionSpec => []OwnWritesShow
<1>1. CollectionInv => OwnWritesShow
  BY DEF CollectionInv
<1> QED BY <1>1, CollectionInitInv, CollectionStepInv, PTL DEF CollectionSpec

-----------------------------------------------------------------------------
(* The form of an action, for any steps, fields, files and answers: what is *)
(* missing lies ahead of the open step, or on it when the way goes back to  *)
(* the review; and what was picked for the last record the form was told of *)
(* is in it, under way or offered again.                                    *)

Values == [Fields -> Replies \cup {""}]
Pendings == [id : Nat, files : SUBSET Files]
Forms == [values : Values, files : SUBSET Files, step : 1..Review, back : BOOLEAN,
          errors : SUBSET Fields, pending : Pendings,
          confirmed : BOOLEAN,
          surprised : BOOLEAN]
Records == [values : Values, picked : SUBSET Files, files : SUBSET Files, told : BOOLEAN]
Postings ==
  {NothingPosted, [kind |-> "unanswered"]}
    \cup [kind : {"record"}, values : Values, files : SUBSET Files]
    \cup [kind : {"files"}, id : Nat, left : SUBSET Files, failed : SUBSET Files, retry : BOOLEAN]

FormTyped == form \in Forms /\ records \in Seq(Records) /\ posting \in Postings /\ loaded \in BOOLEAN

(* A question that still has to be answered lies ahead; on the way back to  *)
(* the review it is on the step that is open.                              *)
Missing(f) == Wrong(f.values, f.files) \ Hidden

AnswersAhead(f) ==
  /\ f.step = Review => ~f.back
  /\ \A field \in Missing(f) :
       IF f.back THEN field \in FieldsOf(f.step)
       ELSE \E s \in 1..Len(Steps) : f.step <= s /\ field \in Steps[s]

ReviewInv == HasReview /\ ~form.surprised => AnswersAhead(form)

(* What was picked for the last record the form was told of is in it, under *)
(* way or offered again; what is retried is what is offered.               *)
LastTold(m, rs) == m \in DOMAIN rs /\ rs[m].told /\ \A s \in DOMAIN rs : rs[s].told => m >= s

Kept(m, rs, p, pending) ==
  rs[m].picked \subseteq
    rs[m].files
      \cup (IF p.kind = "files" /\ p.id = m THEN p.left \cup p.failed ELSE {})
      \cup (IF pending.id = m THEN pending.files ELSE {})

Uploads(rs, p, pending) ==
  p.kind = "files" =>
    IF p.retry
    THEN /\ pending # NothingPending /\ p.id = pending.id
         /\ pending.files \subseteq rs[p.id].files \cup p.left \cup p.failed
    ELSE LastTold(p.id, rs) /\ rs[p.id].picked \subseteq rs[p.id].files \cup p.left \cup p.failed

FilesSound(rs, p, pending) ==
  /\ (\E s \in DOMAIN rs : rs[s].told) => \E m \in DOMAIN rs : LastTold(m, rs) /\ Kept(m, rs, p, pending)
  /\ pending = NothingPending \/ (pending.id \in DOMAIN rs /\ rs[pending.id].told)
  /\ Uploads(rs, p, pending)

FormInv == FormTyped /\ ReviewInv /\ FilesSound(records, posting, form.pending)

-----------------------------------------------------------------------------

LEMMA Least ==
  ASSUME NEW S, S \subseteq Nat, S # {}
  PROVE  \E m \in S : \A n \in S : m <= n
<1>1. IsWellFoundedOn(OpToRel(<, Nat), Nat)
  BY NatLessThanWellFounded
<1>2. PICK m \in S : \A n \in S : <<n, m>> \notin OpToRel(<, Nat)
  BY <1>1, WFMin
<1>3. ASSUME NEW n \in S PROVE ~(n < m)
  BY <1>2 DEF OpToRel
<1> QED BY <1>3

LEMMA StepsTyped ==
  /\ Len(Steps) \in Nat \ {0} /\ Review \in Nat /\ Review = Len(Steps) + 1
  /\ \A s \in 1..Len(Steps) : Steps[s] \subseteq Fields
  /\ \A field \in Fields : \E s \in 1..Len(Steps) : field \in Steps[s]
<1>1. Steps \in Seq(SUBSET Fields) /\ Steps # <<>>
  BY StepFormAssumption
<1>2. Range(Steps) = {Steps[s] : s \in 1..Len(Steps)}
  BY <1>1 DEF Range
<1> QED BY <1>1, <1>2 DEF Review, Fields

LEMMA FieldsTyped == ASSUME NEW step PROVE step \in 1..Review => FieldsOf(step) \subseteq Fields
BY StepsTyped DEF FieldsOf

LEMMA ForwardTyped ==
  ASSUME HasReview, NEW from \in 1..Len(Steps)
  PROVE  /\ StepForward(from) \in 1..Review
         /\ \A s \in from + 1 .. Len(Steps) : Asked(Steps[s]) # {} => StepForward(from) <= s
<1>1. Ahead(from) \subseteq Nat /\ Review \in Ahead(from)
  BY StepsTyped DEF Ahead, Shows
<1>2. \E m \in Ahead(from) : \A t \in Ahead(from) : m <= t
  BY <1>1, Least
<1>3. StepForward(from) \in Ahead(from) /\ \A t \in Ahead(from) : StepForward(from) <= t
  BY <1>1, <1>2 DEF StepForward
<1>4. \A s \in from + 1 .. Len(Steps) : Asked(Steps[s]) # {} => s \in Ahead(from)
  BY StepsTyped DEF Ahead, Shows, FieldsOf
<1> QED BY <1>3, <1>4, StepsTyped DEF Ahead

LEMMA BackTyped ==
  ASSUME NEW from \in 1..Review
  PROVE  StepBack(from) \in 1..from
<1>1. CASE Behind(from) = {}
  BY <1>1, StepsTyped DEF StepBack
<1>2. CASE Behind(from) # {}
  <2> DEFINE S == {from - t : t \in Behind(from)}
  <2>1. Behind(from) \subseteq 1..from /\ S \subseteq Nat /\ S # {}
    BY <1>2, StepsTyped DEF Behind
  <2>2. PICK m \in S : \A n \in S : m <= n
    BY <2>1, Least
  <2>3. PICK s \in Behind(from) : m = from - s
    OBVIOUS
  <2>4. \A t \in Behind(from) : s >= t
    <3> SUFFICES ASSUME NEW t \in Behind(from) PROVE s >= t
      OBVIOUS
    <3>1. from - t \in S
      OBVIOUS
    <3>2. from - s <= from - t
      BY <2>2, <2>3, <3>1
    <3>3. from \in Int /\ s \in Int /\ t \in Int
      BY <2>1, StepsTyped
    <3> QED BY <3>2, <3>3
  <2>5. StepBack(from) \in Behind(from)
    BY <1>2, <2>4 DEF StepBack
  <2> QED BY <2>1, <2>5
<1> QED BY <1>1, <1>2

LEMMA ChosenTyped ==
  ASSUME NEW values \in Values, NEW options
  PROVE  /\ Chosen(values, options) \in Values
         /\ \A field \in Fields : Chosen(values, options)[field] = "" => values[field] = ""
<1>1. (CHOOSE a \in Replies : TRUE) \in Replies
  BY StepFormAssumption
<1> QED BY <1>1, StepFormAssumption DEF Chosen, Values

LEMMA StartTyped == ASSUME NEW options PROVE StartValues(options) \in Values
<1>1. [f \in Fields |-> ""] \in Values
  BY DEF Values
<1> QED BY <1>1, ChosenTyped DEF StartValues

LEMMA WrongTyped == ASSUME NEW values, NEW files PROVE Wrong(values, files) \subseteq Fields
BY StepFormAssumption DEF Wrong

(* A form that names errors stays a form, and keeps what it was asked for.  *)
LEMMA WithErrorsTyped ==
  ASSUME NEW f \in Forms, NEW errors \in SUBSET Fields
  PROVE  LET g == WithErrors(f, errors) IN
         /\ g \in Forms
         /\ g.values = f.values /\ g.files = f.files /\ g.pending = f.pending
         /\ g.surprised = f.surprised
         /\ \/ g.step = f.step /\ g.back = f.back
            \/ HasReview /\ g.step \in 1..Len(Steps) /\ g.back
<1> DEFINE steps == {s \in 1..Len(Steps) : Steps[s] \cap errors # {}}
           at == CHOOSE s \in steps : \A t \in steps : s <= t
<1>1. CASE ~HasReview \/ steps = {}
  <2>1. WithErrors(f, errors) = [f EXCEPT !.errors = errors]
    BY <1>1 DEF WithErrors
  <2> QED BY <2>1 DEF Forms
<1>2. CASE ~(~HasReview \/ steps = {})
  <2>1. WithErrors(f, errors) = [f EXCEPT !.step = at, !.back = TRUE, !.errors = errors \cap Steps[at]]
    BY <1>2 DEF WithErrors
  <2>2. steps \subseteq Nat
    BY StepsTyped
  <2>3. at \in steps
    BY <1>2, <2>2, Least
  <2>4. at \in 1..Len(Steps) /\ at \in 1..Review
    BY <2>3, StepsTyped
  <2> HIDE DEF at
  <2> QED BY <1>2, <2>1, <2>4 DEF Forms
<1> QED BY <1>1, <1>2

LEMMA FinishedTyped ==
  ASSUME form \in Forms, NEW id \in Nat, NEW failed \in SUBSET Files
  PROVE  LET g == Finished(id, failed) IN
         /\ g \in Forms
         /\ g.pending = IF failed = {} THEN NothingPending ELSE [id |-> id, files |-> failed]
         /\ g.step = 1 /\ g.back = form.back
         /\ g.surprised = (form.surprised \/ ~OnReview)
<1> DEFINE pending == IF failed = {} THEN NothingPending ELSE [id |-> id, files |-> failed]
           r == Reported(form, id, failed)
           anew == [r EXCEPT !.values = StartValues(loaded), !.files = {}, !.step = 1,
                             !.surprised = @ \/ ~OnReview,
                             !.confirmed = HasConfirmation /\ failed = {}]
<1>1. pending \in Pendings
  BY DEF NothingPending, Pendings
<1>2. r = [form EXCEPT !.pending = pending]
  BY DEF Reported
<1>3. r \in Forms /\ r.pending = pending /\ r.back = form.back /\ r.surprised = form.surprised
  BY <1>1, <1>2 DEF Forms
<1>4. StartValues(loaded) \in Values /\ 1 \in 1..Review /\ OnReview \in BOOLEAN
  BY StartTyped, StepsTyped DEF OnReview
<1> HIDE DEF r
<1>5. /\ anew \in Forms /\ anew.pending = pending /\ anew.back = form.back /\ anew.step = 1
      /\ anew.surprised = (form.surprised \/ ~OnReview)
  BY <1>3, <1>4 DEF Forms
<1>6. Finished(id, failed) = anew
  BY DEF Finished, r
<1> QED BY <1>5, <1>6 DEF pending

LEMMA FormInitInv == FormInit => FormInv
<1> SUFFICES ASSUME FormInit PROVE FormInv
  OBVIOUS
<1>1. FormTyped
  <2>1. StartValues(FALSE) \in Values
    BY StartTyped
  <2>6. 1 \in 1..Review
    BY StepsTyped
  <2>2. NothingPending \in Pendings
    BY DEF NothingPending, Pendings
  <2>4. form \in Forms
    BY <2>1, <2>2, <2>6 DEF FormInit, Forms
  <2>5. posting \in Postings
    BY DEF FormInit, Postings
  <2>7. records \in Seq(Records)
    BY DEF FormInit
  <2>8. loaded \in BOOLEAN
    BY DEF FormInit
  <2> QED BY <2>4, <2>5, <2>7, <2>8 DEF FormTyped
<1>2. ReviewInv
  <2>1. form.step = 1 /\ form.back = FALSE
    BY DEF FormInit
  <2>2. Missing(form) \subseteq Fields
    BY WrongTyped DEF Missing
  <2> QED BY <2>1, <2>2, StepsTyped DEF ReviewInv, AnswersAhead
<1>3. FilesSound(records, posting, form.pending)
  BY DEF FormInit, FilesSound, Uploads, NothingPosted
<1> QED BY <1>1, <1>2, <1>3 DEF FormInv

(* Filling in, picking and moving about leave records and uploads alone.    *)
LEMMA ScreenKeepsInv ==
  ASSUME FormInv, form' \in Forms, form'.pending = form.pending,
         UNCHANGED <<posting, records>>, loaded' \in BOOLEAN, ReviewInv'
  PROVE  FormInv'
BY DEF FormInv, FormTyped

(* What is filled in on the open step changes what is missing there only.   *)
LEMMA FillingKeepsReview ==
  ASSUME FormInv, form' \in Forms, form'.step = form.step, form'.back = form.back,
         form'.surprised = form.surprised, form.step # Review,
         Missing(form)' \subseteq Missing(form) \cup FieldsOf(form.step)
  PROVE  ReviewInv'
<1> SUFFICES ASSUME HasReview, ~form.surprised PROVE AnswersAhead(form)'
  BY DEF ReviewInv
<1>1. AnswersAhead(form)
  BY DEF FormInv, ReviewInv
<1>2. form.step \in 1..Len(Steps) /\ FieldsOf(form.step) = Steps[form.step]
  <2>1. form.step \in 1..Review
    BY DEF FormInv, FormTyped, Forms
  <2> QED BY <2>1, StepsTyped DEF FieldsOf
<1>3. \A field \in Missing(form)' :
        IF form'.back THEN field \in FieldsOf(form'.step)
        ELSE \E s \in 1..Len(Steps) : form'.step <= s /\ field \in Steps[s]
  <2> SUFFICES ASSUME NEW field \in Missing(form)'
               PROVE  IF form.back THEN field \in FieldsOf(form.step)
                      ELSE \E s \in 1..Len(Steps) : form.step <= s /\ field \in Steps[s]
    OBVIOUS
  <2>1. CASE field \in FieldsOf(form.step)
    BY <1>2, <2>1
  <2>2. CASE field \in Missing(form)
    BY <1>1, <2>2 DEF AnswersAhead
  <2> QED BY <2>1, <2>2
<1> QED BY <1>1, <1>3 DEF AnswersAhead, FieldsOf

LEMMA FillInKeepsInv ==
  ASSUME FormInv, NEW field \in Fields, NEW value \in Replies \cup {""}, FillIn(field, value)
  PROVE  FormInv'
<1>1. form \in Forms /\ field \in FieldsOf(form.step)
  BY DEF FormInv, FormTyped, FillIn, Asked
<1>2. form' = [form EXCEPT !.values[field] = value]
  BY DEF FillIn
<1>3. form.step # Review
  BY <1>1 DEF FieldsOf
<1>4. /\ form' \in Forms /\ form'.files = form.files /\ form'.pending = form.pending
      /\ form'.step = form.step /\ form'.back = form.back /\ form'.surprised = form.surprised
      /\ form'.values = [form.values EXCEPT ![field] = value]
  BY <1>1, <1>2 DEF Forms, Values
<1>5. Missing(form)' \subseteq Missing(form) \cup {field}
  BY <1>1, <1>4, StepFormAssumption DEF Missing, Wrong, Forms, Values
<1>6. ReviewInv'
  BY <1>1, <1>3, <1>4, <1>5, FillingKeepsReview
<1> QED BY <1>4, <1>6, ScreenKeepsInv DEF FillIn, FormInv, FormTyped

LEMMA PickKeepsInv ==
  ASSUME FormInv, NEW files \in SUBSET Files, Pick(files)
  PROVE  FormInv'
<1>1. form \in Forms /\ Papers \in FieldsOf(form.step)
  BY DEF FormInv, FormTyped, Pick, Asked
<1>2. form' = [form EXCEPT !.files = files]
  BY DEF Pick
<1>3. form.step # Review
  BY <1>1 DEF FieldsOf
<1>4. /\ form' \in Forms /\ form'.values = form.values /\ form'.pending = form.pending
      /\ form'.step = form.step /\ form'.back = form.back /\ form'.surprised = form.surprised
  BY <1>1, <1>2 DEF Forms
<1>5. Missing(form)' \subseteq Missing(form) \cup {Papers}
  BY <1>4 DEF Missing, Wrong
<1>6. ReviewInv'
  BY <1>1, <1>3, <1>4, <1>5, FillingKeepsReview
<1> QED BY <1>4, <1>6, ScreenKeepsInv DEF Pick, FormInv, FormTyped

LEMMA OptionsKeepInv == ASSUME FormInv, OptionsArrive PROVE FormInv'
<1>1. form \in Forms /\ form.values \in Values
  BY DEF FormInv, FormTyped, Forms
<1>2. form' = [form EXCEPT !.values = Chosen(form.values, TRUE)]
  BY DEF OptionsArrive
<1>3. /\ form' \in Forms /\ form'.files = form.files /\ form'.pending = form.pending
      /\ form'.step = form.step /\ form'.back = form.back /\ form'.surprised = form.surprised
      /\ form'.values = Chosen(form.values, TRUE)
  BY <1>1, <1>2, ChosenTyped DEF Forms
<1>4. Missing(form)' \subseteq Missing(form)
  <2>1. \A field \in Fields : form'.values[field] = "" => form.values[field] = ""
    BY <1>1, <1>3, ChosenTyped
  <2> QED BY <1>3, <2>1, StepFormAssumption DEF Missing, Wrong
<1>5. ReviewInv'
  BY <1>3, <1>4 DEF FormInv, ReviewInv, AnswersAhead, FieldsOf
<1> QED BY <1>3, <1>5, ScreenKeepsInv DEF OptionsArrive, FormInv, FormTyped

LEMMA NextStepKeepsInv == ASSUME FormInv, NextStep PROVE FormInv'
<1> DEFINE wrong == Wrong(form.values, form.files) \cap Asked(FieldsOf(form.step))
           target == IF form.back THEN Review ELSE StepForward(form.step)
<1>1. form \in Forms /\ HasReview /\ form.step \in 1..Len(Steps) /\ form.step \in 1..Review
  <2>1. form \in Forms /\ form.step \in 1..Review
    BY DEF FormInv, FormTyped, Forms
  <2>2. HasReview /\ form.step # Review
    BY DEF NextStep, OnReview
  <2> QED BY <2>1, <2>2, StepsTyped
<1>2. wrong \subseteq Fields /\ target \in 1..Review
  BY <1>1, WrongTyped, ForwardTyped, StepsTyped
<1>3. CASE wrong # {}
  <2>1. form' = [form EXCEPT !.errors = wrong]
    BY <1>3 DEF NextStep
  <2>2. /\ form' \in Forms /\ form'.values = form.values /\ form'.files = form.files
        /\ form'.pending = form.pending /\ form'.step = form.step /\ form'.back = form.back
        /\ form'.surprised = form.surprised
    BY <1>1, <1>2, <2>1 DEF Forms
  <2>3. ReviewInv'
    BY <2>2 DEF FormInv, ReviewInv, AnswersAhead, Missing, FieldsOf
  <2> QED BY <2>2, <2>3, ScreenKeepsInv DEF NextStep, FormInv, FormTyped
<1>4. CASE wrong = {}
  <2>1. form' = [form EXCEPT !.errors = {}, !.back = FALSE, !.step = target]
    BY <1>1, <1>4 DEF NextStep, Forms
  <2> HIDE DEF target
  <2>2. /\ form' \in Forms /\ form'.values = form.values /\ form'.files = form.files
        /\ form'.pending = form.pending /\ form'.step = target /\ form'.back = FALSE
        /\ form'.surprised = form.surprised
    BY <1>1, <1>2, <2>1 DEF Forms
  <2>3. ReviewInv'
    <3> SUFFICES ASSUME HasReview, ~form.surprised, NEW field \in Missing(form)
                 PROVE  \E s \in 1..Len(Steps) : target <= s /\ field \in Steps[s]
      BY <2>2 DEF ReviewInv, AnswersAhead, Missing
    <3>1. field \notin Asked(FieldsOf(form.step)) /\ field \notin Hidden
      BY <1>4 DEF Missing
    <3>2. field \notin FieldsOf(form.step) /\ AnswersAhead(form)
      BY <3>1 DEF Asked, FormInv, ReviewInv
    <3>3. ~form.back
      BY <3>2 DEF AnswersAhead
    <3>4. PICK s \in 1..Len(Steps) : form.step <= s /\ field \in Steps[s]
      BY <3>2, <3>3 DEF AnswersAhead
    <3>5. s # form.step
      BY <1>1, <3>2, <3>4, StepsTyped DEF FieldsOf
    <3>6. s \in form.step + 1 .. Len(Steps) /\ Asked(Steps[s]) # {}
      BY <1>1, <3>1, <3>4, <3>5, StepsTyped DEF Asked
    <3>7. StepForward(form.step) <= s
      BY <1>1, <3>6, ForwardTyped
    <3> QED BY <3>3, <3>4, <3>7 DEF target
  <2> QED BY <2>2, <2>3, ScreenKeepsInv DEF NextStep, FormInv, FormTyped
<1> QED BY <1>3, <1>4

LEMMA PreviousStepKeepsInv == ASSUME FormInv, PreviousStep PROVE FormInv'
<1> DEFINE target == StepBack(form.step)
<1>1. form \in Forms /\ form.step \in 1..Review /\ form.step > 1
  BY DEF FormInv, FormTyped, PreviousStep, Forms
<1>2. target \in 1..form.step /\ target \in 1..Review
  BY <1>1, BackTyped, StepsTyped
<1>3. form' = [form EXCEPT !.errors = {}, !.back = FALSE, !.step = target]
  BY DEF PreviousStep
<1> HIDE DEF target
<1>4. /\ form' \in Forms /\ form'.values = form.values /\ form'.files = form.files
      /\ form'.pending = form.pending /\ form'.step = target /\ form'.back = FALSE
      /\ form'.surprised = form.surprised
  BY <1>1, <1>2, <1>3 DEF Forms
<1>5. ReviewInv'
  <2> SUFFICES ASSUME HasReview, ~form.surprised, NEW field \in Missing(form)
               PROVE  \E s \in 1..Len(Steps) : target <= s /\ field \in Steps[s]
    BY <1>4 DEF ReviewInv, AnswersAhead, Missing
  <2>1. AnswersAhead(form)
    BY DEF FormInv, ReviewInv
  <2>2. \E s \in 1..Len(Steps) : form.step <= s /\ field \in Steps[s]
    <3>1. CASE form.back
      <4>1. form.step # Review /\ field \in FieldsOf(form.step)
        BY <2>1, <3>1 DEF AnswersAhead
      <4> QED BY <1>1, <4>1, StepsTyped DEF FieldsOf
    <3>2. CASE ~form.back
      BY <2>1, <3>2 DEF AnswersAhead
    <3> QED BY <3>1, <3>2
  <2> QED BY <1>1, <1>2, <2>2, StepsTyped
<1> QED BY <1>4, <1>5, ScreenKeepsInv DEF PreviousStep, FormInv, FormTyped

LEMMA EditStepKeepsInv ==
  ASSUME FormInv, NEW step \in 1..Len(Steps), EditStep(step)
  PROVE  FormInv'
<1>1. form \in Forms /\ HasReview /\ form.step = Review /\ step \in 1..Review /\ step # Review
  BY StepsTyped DEF FormInv, FormTyped, EditStep, OnReview
<1>2. form' = [form EXCEPT !.errors = {}, !.back = TRUE, !.step = step]
  BY DEF EditStep
<1>3. /\ form' \in Forms /\ form'.values = form.values /\ form'.files = form.files
      /\ form'.pending = form.pending /\ form'.step = step /\ form'.surprised = form.surprised
  BY <1>1, <1>2 DEF Forms
<1>4. ReviewInv'
  <2>1. ~form.surprised => Missing(form) = {}
    BY <1>1, StepsTyped DEF FormInv, ReviewInv, AnswersAhead
  <2> QED BY <1>1, <1>3, <2>1 DEF ReviewInv, AnswersAhead, Missing
<1> QED BY <1>3, <1>4, ScreenKeepsInv DEF EditStep, FormInv, FormTyped

(* Nothing is missing on the review, so what leaves it in any way keeps to  *)
(* what is owed.                                                           *)
LEMMA ReviewHasNothingMissing ==
  ASSUME FormInv, HasReview, OnReview, ~form.surprised
  PROVE  Missing(form) = {} /\ ~form.back
BY StepsTyped DEF FormInv, ReviewInv, AnswersAhead, OnReview

LEMMA SubmitKeepsInv == ASSUME FormInv, Submit PROVE FormInv'
<1> DEFINE wrong == Wrong(form.values, form.files) \ Hidden
<1>1. form \in Forms /\ posting = NothingPosted /\ posting \in Postings
  <2>1. form \in Forms /\ posting \in Postings
    BY DEF FormInv, FormTyped
  <2>2. posting.kind = "nothing"
    BY DEF Submit, Submitting
  <2> QED BY <2>1, <2>2 DEF Postings, NothingPosted
<1>2. wrong = Missing(form) /\ wrong \in SUBSET Fields
  BY WrongTyped DEF Missing
<1>3. CASE wrong # {}
  <2>1. form' = WithErrors(form, wrong) /\ UNCHANGED <<posting, records, loaded>>
    BY <1>3 DEF Submit
  <2>2. form' \in Forms /\ form'.pending = form.pending /\ form'.surprised = form.surprised
    BY <1>1, <1>2, <2>1, WithErrorsTyped
  <2>3. HasReview => form.surprised
    BY <1>2, <1>3, ReviewHasNothingMissing DEF Submit
  <2>4. ReviewInv'
    BY <2>2, <2>3 DEF ReviewInv
  <2> QED BY <2>1, <2>2, <2>4, ScreenKeepsInv DEF FormInv, FormTyped
<1>4. CASE wrong = {}
  <2>1. form' = [form EXCEPT !.errors = {}] /\ UNCHANGED <<records, loaded>>
    BY <1>4 DEF Submit
  <2>2. /\ form' \in Forms /\ form'.values = form.values /\ form'.files = form.files
        /\ form'.pending = form.pending /\ form'.step = form.step /\ form'.back = form.back
        /\ form'.surprised = form.surprised
    BY <1>1, <2>1 DEF Forms
  <2>3. ReviewInv'
    BY <2>2 DEF FormInv, ReviewInv, AnswersAhead, Missing, FieldsOf
  <2>4. \/ posting' = NothingPosted
        \/ posting' = [kind |-> "record", values |-> form.values, files |-> form.files]
    BY <1>4 DEF Submit
  <2>5. form.values \in Values /\ form.files \in SUBSET Files
    BY <1>1 DEF Forms
  <2>6. posting' \in Postings /\ posting'.kind # "files"
    BY <2>4, <2>5 DEF Postings, NothingPosted
  <2>7. FilesSound(records, posting, form.pending)'
    BY <1>1, <2>1, <2>2, <2>6 DEF FormInv, FilesSound, Uploads, LastTold, Kept, NothingPosted
  <2> QED BY <2>1, <2>2, <2>3, <2>6, <2>7 DEF FormInv, FormTyped
<1> QED BY <1>3, <1>4

(* A new form that starts when the send is answered on the review.          *)
LEMMA FinishedKeepsReview ==
  ASSUME FormInv, NEW id \in Nat, NEW failed \in SUBSET Files, form' = Finished(id, failed)
  PROVE  ReviewInv'
<1>1. form \in Forms /\ OnReview \in BOOLEAN
  BY DEF FormInv, FormTyped, OnReview
<1>2. /\ form'.step = 1 /\ form'.back = form.back
      /\ form'.surprised = (form.surprised \/ ~OnReview)
  BY <1>1, FinishedTyped
<1> SUFFICES ASSUME HasReview, ~form.surprised, OnReview PROVE AnswersAhead(form)'
  BY <1>2 DEF ReviewInv
<1>3. ~form'.back
  BY <1>2, ReviewHasNothingMissing
<1>4. Missing(form)' \subseteq Fields
  BY WrongTyped DEF Missing
<1>5. 1 # Review
  BY StepsTyped
<1>6. \A field \in Missing(form)' : \E s \in 1..Len(Steps) : 1 <= s /\ field \in Steps[s]
  BY <1>4, StepsTyped
<1> QED BY <1>2, <1>3, <1>5, <1>6 DEF AnswersAhead

(* A record the form was not told of changes nothing that is owed.          *)
LEMMA SilentRecord ==
  ASSUME NEW rs \in Seq(Records), NEW r \in Records, ~r.told, NEW p, NEW pending,
         FilesSound(rs, p, pending), p.kind # "files"
  PROVE  FilesSound(Append(rs, r), p, pending)
<1> DEFINE new == Append(rs, r)
<1>1. /\ DOMAIN rs \subseteq DOMAIN new
      /\ \A s \in DOMAIN rs : new[s] = rs[s]
      /\ \A s \in DOMAIN new \ DOMAIN rs : new[s] = r
  OBVIOUS
<1> HIDE DEF new
<1>2. ASSUME \E s \in DOMAIN new : new[s].told
      PROVE  \E m \in DOMAIN new : LastTold(m, new) /\ Kept(m, new, p, pending)
  <2>1. \E s \in DOMAIN rs : rs[s].told
    BY <1>1, <1>2
  <2>2. PICK m \in DOMAIN rs : LastTold(m, rs) /\ Kept(m, rs, p, pending)
    BY <2>1 DEF FilesSound
  <2>3. LastTold(m, new)
    BY <1>1, <2>2 DEF LastTold
  <2>4. Kept(m, new, p, pending)
    BY <1>1, <2>2 DEF Kept
  <2> QED BY <1>1, <2>3, <2>4
<1>3. pending = NothingPending \/ (pending.id \in DOMAIN new /\ new[pending.id].told)
  BY <1>1 DEF FilesSound
<1> QED BY <1>2, <1>3 DEF FilesSound, Uploads, new

LEMMA RecordAnsweredKeepsInv == ASSUME FormInv, RecordAnswered PROVE FormInv'
<1> DEFINE record(told) ==
             [values |-> posting.values, picked |-> posting.files, files |-> {}, told |-> told]
           here == Len(records) + 1
<1>1. /\ form \in Forms /\ records \in Seq(Records) /\ loaded \in BOOLEAN
      /\ posting \in Postings /\ posting.kind = "record"
  BY DEF FormInv, FormTyped, RecordAnswered
<1>2. posting.values \in Values /\ posting.files \in SUBSET Files
  BY <1>1 DEF Postings, NothingPosted
<1>3. \A told \in BOOLEAN : record(told) \in Records
  BY <1>2 DEF Records
<1>4. loaded' = loaded
  BY DEF RecordAnswered
<1>5. FilesSound(records, posting, form.pending)
  BY DEF FormInv
<1>6. ASSUME NEW told \in BOOLEAN, records' = Append(records, record(told))
      PROVE  /\ records' \in Seq(Records) /\ Len(records') = here /\ here \in Nat
             /\ here \in DOMAIN records' /\ records'[here] = record(told)
             /\ DOMAIN records' = 1..here
  BY <1>1, <1>3, <1>6
<1>7. ASSUME records' = Append(records, record(TRUE)) PROVE LastTold(here, records')
  BY <1>6, <1>7 DEF LastTold
<1> HIDE DEF here
<1>8. CASE /\ records' = Append(records, record(TRUE)) /\ posting.files = {}
           /\ form' = Finished(Len(records'), {}) /\ posting' = NothingPosted
  <2>1. /\ records' \in Seq(Records) /\ Len(records') = here /\ here \in Nat
        /\ here \in DOMAIN records' /\ records'[here] = record(TRUE)
    BY <1>6, <1>8
  <2>2. form' \in Forms /\ form'.pending = NothingPending
    BY <1>1, <1>8, <2>1, FinishedTyped
  <2>3. ReviewInv'
    BY <1>8, <2>1, FinishedKeepsReview
  <2>4. posting' \in Postings /\ posting'.kind # "files"
    BY <1>8 DEF Postings, NothingPosted
  <2>5. Kept(here, records', posting', form'.pending)
    BY <1>8, <2>1 DEF Kept
  <2>6. FilesSound(records, posting, form.pending)'
    BY <1>7, <1>8, <2>1, <2>2, <2>4, <2>5 DEF FilesSound, Uploads
  <2> QED BY <1>1, <1>4, <2>1, <2>2, <2>3, <2>4, <2>6 DEF FormInv, FormTyped
<1>9. CASE /\ records' = Append(records, record(TRUE)) /\ posting.files # {}
           /\ posting' = [kind |-> "files", id |-> Len(records'), left |-> posting.files,
                          failed |-> {}, retry |-> FALSE]
           /\ UNCHANGED form
  <2>1. /\ records' \in Seq(Records) /\ Len(records') = here /\ here \in Nat
        /\ here \in DOMAIN records' /\ records'[here] = record(TRUE)
        /\ DOMAIN records' = 1..here
    BY <1>6, <1>9
  <2>2. ReviewInv'
    BY <1>9 DEF FormInv, ReviewInv, AnswersAhead, Missing, FieldsOf
  <2>3. /\ posting' \in Postings /\ posting'.kind = "files" /\ posting'.id = here
        /\ posting'.left = posting.files /\ ~posting'.retry
    BY <1>2, <1>9, <2>1 DEF Postings
  <2>4. Kept(here, records', posting', form'.pending)
    BY <2>1, <2>3 DEF Kept
  <2>5. Uploads(records', posting', form'.pending)
    BY <1>7, <1>9, <2>1, <2>3 DEF Uploads
  <2>6. \/ form'.pending = NothingPending
        \/ form'.pending.id \in DOMAIN records' /\ records'[form'.pending.id].told
    BY <1>1, <1>5, <1>9 DEF FilesSound
  <2>7. FilesSound(records, posting, form.pending)'
    BY <1>7, <1>9, <2>1, <2>4, <2>5, <2>6 DEF FilesSound
  <2> QED BY <1>1, <1>4, <1>9, <2>1, <2>2, <2>3, <2>7 DEF FormInv, FormTyped
<1>10. CASE /\ records' \in {records, Append(records, record(FALSE))}
            /\ \/ \E errors \in SUBSET Fields :
                    /\ posting' = NothingPosted
                    /\ form' = IF errors = {} THEN form
                               ELSE [WithErrors(form, errors) EXCEPT !.surprised = @ \/ ~OnReview]
               \/ posting' = [kind |-> "unanswered"] /\ UNCHANGED form
  <2>1. posting' \in Postings /\ posting'.kind # "files"
    BY <1>10 DEF Postings, NothingPosted
  <2>2. records' \in Seq(Records)
    BY <1>1, <1>6, <1>10
  <2>3. /\ form' \in Forms /\ form'.pending = form.pending
        /\ \/ form' = form
           \/ /\ form'.surprised = (form.surprised \/ ~OnReview)
              /\ form'.values = form.values /\ form'.files = form.files
              /\ \/ form'.step = form.step /\ form'.back = form.back
                 \/ HasReview /\ form'.step \in 1..Len(Steps) /\ form'.back
    <3>1. CASE form' = form
      BY <1>1, <3>1
    <3>2. CASE \E errors \in SUBSET Fields :
                  form' = [WithErrors(form, errors) EXCEPT !.surprised = @ \/ ~OnReview]
      <4>1. PICK errors \in SUBSET Fields :
              form' = [WithErrors(form, errors) EXCEPT !.surprised = @ \/ ~OnReview]
        BY <3>2 DEF Asked
      <4> DEFINE g == WithErrors(form, errors)
      <4>2. /\ g \in Forms
            /\ g.values = form.values /\ g.files = form.files /\ g.pending = form.pending
            /\ g.surprised = form.surprised
            /\ \/ g.step = form.step /\ g.back = form.back
               \/ HasReview /\ g.step \in 1..Len(Steps) /\ g.back
        BY <1>1, WithErrorsTyped
      <4>3. OnReview \in BOOLEAN
        BY DEF OnReview
      <4> HIDE DEF g
      <4>4. form' = [g EXCEPT !.surprised = @ \/ ~OnReview]
        BY <4>1 DEF g
      <4> QED BY <4>2, <4>3, <4>4 DEF Forms
    <3> QED BY <1>10, <3>1, <3>2
  <2>4. ReviewInv'
    <3>1. CASE form' = form
      BY <3>1 DEF FormInv, ReviewInv, AnswersAhead, Missing, FieldsOf
    <3>2. CASE form' # form
      <4> SUFFICES ASSUME HasReview, ~form'.surprised PROVE AnswersAhead(form)'
        BY DEF ReviewInv
      <4>1. Missing(form) = {} /\ ~form.back
        BY <2>3, <3>2, ReviewHasNothingMissing
      <4>2. Missing(form)' = {}
        BY <2>3, <3>2, <4>1 DEF Missing
      <4>3. form'.step = Review => ~form'.back
        BY <2>3, <3>2, <4>1, StepsTyped
      <4> QED BY <4>2, <4>3 DEF AnswersAhead
    <3> QED BY <3>1, <3>2
  <2>5. FilesSound(records', posting, form.pending)
    BY <1>1, <1>3, <1>5, <1>10, SilentRecord
  <2>6. FilesSound(records', posting', form'.pending)
    BY <1>1, <2>1, <2>3, <2>5 DEF FilesSound, Uploads, Kept
  <2> QED BY <1>1, <1>4, <2>1, <2>2, <2>3, <2>4, <2>6 DEF FormInv, FormTyped
<1> QED BY <1>8, <1>9, <1>10 DEF RecordAnswered

LEMMA RetryFailedKeepsInv == ASSUME FormInv, RetryFailed PROVE FormInv'
<1>1. /\ form \in Forms /\ form.pending \in Pendings /\ posting.kind = "nothing"
      /\ form.pending # NothingPending /\ UNCHANGED <<form, records, loaded>>
  BY DEF FormInv, FormTyped, Forms, RetryFailed, Submitting
<1>2. posting' = [kind |-> "files", id |-> form.pending.id, left |-> form.pending.files,
                  failed |-> {}, retry |-> TRUE]
  BY DEF RetryFailed
<1>3. form.pending.id \in Nat /\ form.pending.files \in SUBSET Files
  BY <1>1 DEF Pendings
<1>4. posting' \in Postings
  BY <1>2, <1>3 DEF Postings
<1>5. ReviewInv'
  BY <1>1 DEF FormInv, ReviewInv, AnswersAhead, Missing, FieldsOf
<1>6. Uploads(records, posting', form.pending)
  BY <1>1, <1>2 DEF Uploads
<1>7. \A m : Kept(m, records, posting, form.pending) => Kept(m, records, posting', form.pending)
  BY <1>1 DEF Kept
<1>8. FilesSound(records, posting', form.pending)
  BY <1>6, <1>7 DEF FormInv, FilesSound
<1> QED BY <1>1, <1>4, <1>5, <1>8 DEF FormInv, FormTyped

(* What is owed after one file is answered, the uploads going on or done.   *)
LEMMA FileAnsweredKeepsInv ==
  ASSUME FormInv, NEW file \in Files, FileAnswered(file)
  PROVE  FormInv'
<1>1. /\ form \in Forms /\ records \in Seq(Records) /\ posting \in Postings
      /\ posting.kind = "files" /\ loaded' = loaded
      /\ FilesSound(records, posting, form.pending)
  BY DEF FormInv, FormTyped, FileAnswered
<1>2. /\ posting.id \in Nat /\ posting.left \in SUBSET Files /\ posting.failed \in SUBSET Files
      /\ posting.retry \in BOOLEAN
      /\ posting \in [kind : {"files"}, id : Nat, left : SUBSET Files, failed : SUBSET Files,
                      retry : BOOLEAN]
  BY <1>1 DEF Postings, NothingPosted
<1> DEFINE left == posting.left \ {file}
           id == posting.id
<1>3. PICK stored \in BOOLEAN, told \in BOOLEAN :
        LET failed == IF told THEN posting.failed ELSE posting.failed \cup {file} IN
        /\ told => stored
        /\ records' = [records EXCEPT ![posting.id].files = IF stored THEN @ \cup {file} ELSE @]
        /\ IF UploadsGoOn(left, failed)
           THEN posting' = [posting EXCEPT !.left = left, !.failed = failed] /\ UNCHANGED form
           ELSE /\ posting' = NothingPosted
                /\ form' = IF posting.retry THEN Reported(form, posting.id, failed)
                           ELSE Finished(posting.id, failed)
  BY DEF FileAnswered
<1> DEFINE failed == IF told THEN posting.failed ELSE posting.failed \cup {file}
           offered == IF failed = {} THEN NothingPending ELSE [id |-> id, files |-> failed]
<1>4. failed \in SUBSET Files /\ left \in SUBSET Files
  BY <1>2
<1>5. id \in DOMAIN records
  <2>1. CASE posting.retry
    BY <1>1, <2>1 DEF FilesSound, Uploads
  <2>2. CASE ~posting.retry
    BY <1>1, <2>2 DEF FilesSound, Uploads, LastTold
  <2> QED BY <2>1, <2>2
<1>6. records[id] \in Records
  BY <1>1, <1>5
<1>7. /\ records' \in Seq(Records) /\ DOMAIN records' = DOMAIN records
      /\ \A m \in DOMAIN records : m # id => records'[m] = records[m]
      /\ records'[id].told = records[id].told /\ records'[id].picked = records[id].picked
      /\ records[id].files \subseteq records'[id].files
      /\ told => file \in records'[id].files
  <2> DEFINE r == [records[id] EXCEPT !.files = IF stored THEN @ \cup {file} ELSE @]
  <2>1. records' = [records EXCEPT ![id] = r]
    BY <1>3
  <2>2. /\ r \in Records /\ r.told = records[id].told /\ r.picked = records[id].picked
        /\ records[id].files \subseteq r.files
        /\ told => file \in r.files
    BY <1>3, <1>6 DEF Records
  <2> HIDE DEF r, id
  <2>3. records' \in Seq(Records) /\ DOMAIN records' = DOMAIN records
    BY <1>1, <1>5, <2>1, <2>2
  <2>4. records'[id] = r
    BY <1>1, <1>5, <2>1
  <2>5. \A m \in DOMAIN records : m # id => records'[m] = records[m]
    BY <1>1, <1>5, <2>1
  <2>6. /\ records'[id].told = records[id].told /\ records'[id].picked = records[id].picked
        /\ records[id].files \subseteq records'[id].files
    BY <2>2, <2>4
  <2>7. told => file \in records'[id].files
    BY <2>2, <2>4
  <2> QED BY <2>3, <2>5, <2>6, <2>7
<1>8. \A m : LastTold(m, records) <=> LastTold(m, records')
  <2>1. \A m \in DOMAIN records : records'[m].told = records[m].told
    BY <1>7
  <2> QED BY <1>7, <2>1 DEF LastTold
<1>9. records[id].files \cup posting.left \cup posting.failed
        \subseteq records'[id].files \cup left \cup failed
  BY <1>7
<1>10. \A m \in DOMAIN records : records[m].files \subseteq records'[m].files
                               /\ records'[m].picked = records[m].picked
                               /\ records'[m].told = records[m].told
  BY <1>7
<1> HIDE DEF left, failed, offered, id
<1>11. CASE /\ left # {} /\ posting' = [posting EXCEPT !.left = left, !.failed = failed]
            /\ UNCHANGED form
  <2>1. /\ posting' \in Postings /\ posting'.kind = "files" /\ posting'.id = id
        /\ posting'.left = left /\ posting'.failed = failed /\ posting'.retry = posting.retry
    BY <1>2, <1>4, <1>11 DEF Postings, id
  <2>2. ReviewInv'
    BY <1>11 DEF FormInv, ReviewInv, AnswersAhead, Missing, FieldsOf
  <2>3. \A m \in DOMAIN records :
          Kept(m, records, posting, form.pending) => Kept(m, records', posting', form.pending)
    <3> SUFFICES ASSUME NEW m \in DOMAIN records, Kept(m, records, posting, form.pending)
                 PROVE  Kept(m, records', posting', form.pending)
      OBVIOUS
    <3>1. CASE m = id
      BY <1>1, <1>7, <1>9, <2>1, <3>1 DEF Kept, id
    <3>2. CASE m # id
      BY <1>10, <2>1, <3>2 DEF Kept, id
    <3> QED BY <3>1, <3>2
  <2>4. Uploads(records', posting', form.pending)
    BY <1>1, <1>7, <1>8, <1>9, <2>1 DEF FilesSound, Uploads, id
  <2>5. FilesSound(records', posting', form.pending)
    BY <1>1, <1>7, <1>8, <1>10, <2>3, <2>4 DEF FilesSound
  <2> QED BY <1>1, <1>7, <1>11, <2>1, <2>2, <2>5 DEF FormInv, FormTyped
<1>12. CASE /\ left = {} /\ posting' = NothingPosted
            /\ form' = IF posting.retry THEN Reported(form, id, failed) ELSE Finished(id, failed)
  <2>1. posting' \in Postings /\ posting'.kind # "files"
    BY <1>12 DEF Postings, NothingPosted
  <2>2. id \in Nat
    BY <1>2 DEF id
  <2>3. /\ offered \in Pendings /\ offered.files = failed
        /\ failed # {} => offered.id = id
    BY <1>4, <2>2 DEF offered, Pendings, NothingPending
  <2>4. form' \in Forms /\ form'.pending = offered /\ ReviewInv'
    <3>1. CASE posting.retry
      <4>1. form' = [form EXCEPT !.pending = offered]
        BY <1>12, <3>1 DEF Reported, offered
      <4>2. /\ form' \in Forms /\ form'.pending = offered /\ form'.values = form.values
            /\ form'.files = form.files /\ form'.step = form.step /\ form'.back = form.back
            /\ form'.surprised = form.surprised
        BY <1>1, <2>3, <4>1 DEF Forms
      <4>3. ReviewInv'
        BY <4>2 DEF FormInv, ReviewInv, AnswersAhead, Missing, FieldsOf
      <4> QED BY <4>2, <4>3
    <3>2. CASE ~posting.retry
      BY <1>1, <1>4, <1>12, <2>2, <3>2, FinishedTyped, FinishedKeepsReview DEF offered
    <3> QED BY <3>1, <3>2
  <2>5. /\ posting.retry => id = form.pending.id
        /\ posting.retry => form.pending.files \subseteq records'[id].files \cup failed
        /\ ~posting.retry => LastTold(id, records') /\ Kept(id, records', posting', form'.pending)
    <3>1. posting.retry => /\ id = form.pending.id
                           /\ form.pending.files \subseteq
                                records[id].files \cup posting.left \cup posting.failed
      BY <1>1 DEF FilesSound, Uploads, id
    <3>2. ~posting.retry => /\ LastTold(id, records)
                            /\ records[id].picked \subseteq
                                 records[id].files \cup posting.left \cup posting.failed
      BY <1>1 DEF FilesSound, Uploads, id
    <3>3. ~posting.retry => records'[id].picked \subseteq records'[id].files \cup failed
      BY <1>7, <1>9, <1>12, <3>2
    <3>4. posting.retry => form.pending.files \subseteq records'[id].files \cup failed
      BY <1>9, <1>12, <3>1
    <3>5. ~posting.retry => Kept(id, records', posting', form'.pending)
      BY <2>3, <2>4, <3>3 DEF Kept
    <3> QED BY <1>8, <3>1, <3>2, <3>4, <3>5
  <2>6. ASSUME \E s \in DOMAIN records' : records'[s].told
        PROVE  \E m \in DOMAIN records' :
                 LastTold(m, records') /\ Kept(m, records', posting', form'.pending)
    <3>1. CASE ~posting.retry
      BY <1>5, <1>7, <2>5, <3>1
    <3>2. CASE posting.retry
      <4>1. \E s \in DOMAIN records : records[s].told
        BY <1>7, <1>10, <2>6
      <4>2. PICK m \in DOMAIN records :
              LastTold(m, records) /\ Kept(m, records, posting, form.pending)
        BY <1>1, <4>1 DEF FilesSound
      <4>3. Kept(m, records', posting', form'.pending)
        <5>1. CASE m = id
          <6>1. records[id].picked \subseteq
                  records[id].files \cup posting.left \cup posting.failed \cup form.pending.files
            BY <1>1, <4>2, <5>1 DEF Kept, id
          <6>2. records'[id].picked \subseteq records'[id].files \cup failed
            BY <1>7, <1>9, <1>12, <2>5, <3>2, <6>1
          <6> QED BY <2>3, <2>4, <5>1, <6>2 DEF Kept
        <5>2. CASE m # id
          <6>1. records[m].picked \subseteq records[m].files
            BY <1>1, <2>5, <3>2, <4>2, <5>2 DEF Kept, id
          <6> QED BY <1>10, <6>1 DEF Kept
        <5> QED BY <5>1, <5>2
      <4> QED BY <1>7, <1>8, <4>2, <4>3
    <3> QED BY <3>1, <3>2
  <2>7. form'.pending = NothingPending \/ (form'.pending.id \in DOMAIN records'
                                          /\ records'[form'.pending.id].told)
    <3>1. CASE failed = {}
      BY <2>4, <3>1 DEF offered
    <3>2. CASE failed # {}
      <4>1. records[id].told
        <5>1. CASE posting.retry
          BY <1>1, <2>5, <5>1 DEF FilesSound, Uploads
        <5>2. CASE ~posting.retry
          BY <1>8, <2>5, <5>2 DEF LastTold
        <5> QED BY <5>1, <5>2
      <4>2. form'.pending.id = id
        BY <2>3, <2>4, <3>2
      <4> QED BY <1>5, <1>7, <4>1, <4>2
    <3> QED BY <3>1, <3>2
  <2>8. FilesSound(records, posting, form.pending)'
    BY <2>1, <2>6, <2>7 DEF FilesSound, Uploads
  <2> QED BY <1>1, <1>7, <2>1, <2>4, <2>8 DEF FormInv, FormTyped
<1> QED BY <1>3, <1>11, <1>12 DEF UploadsGoOn, left, failed, id

LEMMA FormStepInv == FormInv /\ [FormNext]_formVars => FormInv'
<1> SUFFICES ASSUME FormInv, [FormNext]_formVars PROVE FormInv'
  OBVIOUS
<1>1. ASSUME NEW field \in Fields, NEW a \in Replies \cup {""}, FillIn(field, a) PROVE FormInv'
  BY <1>1, FillInKeepsInv
<1>2. ASSUME NEW files \in SUBSET Files, Pick(files) PROVE FormInv'
  BY <1>2, PickKeepsInv
<1>3. CASE OptionsArrive
  BY <1>3, OptionsKeepInv
<1>4. CASE NextStep
  BY <1>4, NextStepKeepsInv
<1>5. CASE PreviousStep
  BY <1>5, PreviousStepKeepsInv
<1>6. ASSUME NEW step \in 1..Len(Steps), EditStep(step) PROVE FormInv'
  BY <1>6, EditStepKeepsInv
<1>7. CASE Submit
  BY <1>7, SubmitKeepsInv
<1>8. CASE RecordAnswered
  BY <1>8, RecordAnsweredKeepsInv
<1>9. CASE RetryFailed
  BY <1>9, RetryFailedKeepsInv
<1>10. ASSUME NEW file \in Files, FileAnswered(file) PROVE FormInv'
  BY <1>10, FileAnsweredKeepsInv
<1>11. CASE UNCHANGED formVars
  BY <1>11 DEF formVars, FormInv, FormTyped, ReviewInv, AnswersAhead, Missing, FieldsOf
<1> QED BY <1>1, <1>2, <1>3, <1>4, <1>5, <1>6, <1>7, <1>8, <1>9, <1>10, <1>11 DEF FormNext

(* The form of an action never asks for its review before every question    *)
(* that must be answered is, while no send is answered on an open step      *)
(* (nextStep, previousStep, showErrors of stepFlow.js).                     *)
THEOREM ReviewIsAlwaysComplete == FormSpec => []ReviewIsComplete
<1>1. FormInv => ReviewIsComplete
  BY ReviewHasNothingMissing DEF ReviewIsComplete, Missing, OnReview
<1> QED BY <1>1, FormInitInv, FormStepInv, PTL DEF FormSpec

(* Every file picked for the last record the form was told of is in it,     *)
(* under way or offered again (uploadFiles, reportFailed, retryFailed).     *)
THEOREM NoFileIsForgotten == FormSpec => []FilesAreAccountedFor
<1>1. FormInv => FilesAreAccountedFor
  <2> SUFFICES ASSUME FormInv PROVE FilesAreAccountedFor
    OBVIOUS
  <2> DEFINE told == {r \in DOMAIN records : records[r].told}
             last == CHOOSE r \in told : \A s \in told : r >= s
  <2>1. CASE told = {}
    BY <2>1 DEF FilesAreAccountedFor
  <2>2. CASE told # {}
    <3>1. PICK m \in DOMAIN records :
            LastTold(m, records) /\ Kept(m, records, posting, form.pending)
      BY <2>2 DEF FormInv, FilesSound
    <3>2. m \in told /\ \A s \in told : m >= s
      BY <3>1 DEF LastTold
    <3>3. last \in told /\ \A s \in told : last >= s
      BY <3>2
    <3>4. told \subseteq Nat
      BY DEF FormInv, FormTyped
    <3>5. last = m
      BY <3>2, <3>3, <3>4
    <3> HIDE DEF last
    <3>6. records[last].picked \subseteq records[last].files
            \cup (IF posting.kind = "files" /\ posting.id = last
                  THEN posting.left \cup posting.failed ELSE {})
            \cup (IF form.pending.id = last THEN form.pending.files ELSE {})
      BY <3>1, <3>5 DEF Kept
    <3> QED BY <3>6 DEF FilesAreAccountedFor, last
  <2> QED BY <2>1, <2>2
<1> QED BY <1>1, FormInitInv, FormStepInv, PTL DEF FormSpec
=============================================================================
