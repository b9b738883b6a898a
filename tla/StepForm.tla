-------------------------------- MODULE StepForm --------------------------------
(***************************************************************************)
(* The form of an action (site/components/c/SchemaForm.vue): filled in one  *)
(* step at a time with a review at the end (forms/stepFlow.js), or on one   *)
(* page; sent; and its files uploaded one by one into the record that was   *)
(* made of it (shared/fileFieldSubmit.js).  The portal API is external.     *)
(*                                                                         *)
(* While a form is sent, its step can still be changed and filled in.  A    *)
(* form without steps is one step without a review here.                    *)
(***************************************************************************)
EXTENDS Integers, Sequences, FiniteSets, SequencesExt

CONSTANTS
  Steps,           \* the fields of each step, the review not counted
  HasReview,       \* whether the form runs in steps
  Papers,          \* the field that takes files
  Required,        \* the fields that must be filled in
  Hidden,          \* the fields the action does not show
  OnlyOption,      \* the required selects whose one option comes with the options
  HasConfirmation, \* whether the action words its own confirmation
  Replies,         \* what a field can be answered
  Files,           \* what can be picked
  TooLarge,        \* the files over the limit
  MaxTrials        \* bound: presses of the send button and of the retry

Fields == UNION Range(Steps)

ASSUME StepFormAssumption ==
  /\ Steps \in Seq(SUBSET Fields) /\ Steps # <<>> /\ HasReview \in BOOLEAN /\ HasConfirmation \in BOOLEAN
  /\ ~HasReview => Len(Steps) = 1
  /\ Required \cup Hidden \cup OnlyOption \subseteq Fields
  /\ Papers \notin OnlyOption
  /\ Replies # {} /\ "" \notin Replies /\ TooLarge \subseteq Files
  /\ MaxTrials \in Nat

VARIABLES
  form,     \* the form on screen
  posting,  \* what of it is under way: nothing, a record, or its files
  records,  \* the app's records, and what the form was told of each
  loaded,   \* whether the options have come
  trials    \* presses so far

formVars == <<form, posting, records, loaded, trials>>

Review == Len(Steps) + 1
NothingPosted == [kind |-> "nothing"]
NothingPending == [id |-> 0, files |-> {}]

-----------------------------------------------------------------------------
(* What the form shows and checks.                                         *)

Asked(fields) == fields \ Hidden
OnReview == HasReview /\ form.step = Review
FieldsOf(step) == IF step = Review THEN {} ELSE Steps[step]
Submitting == posting.kind # "nothing"

(* fieldErrors(): the required fields that are empty.                      *)
Wrong(values, files) ==
  {f \in Required : IF f = Papers THEN files = {} ELSE values[f] = ""}

(* emptyValues() and withSingleOptions(): the one option of a required      *)
(* select is chosen unless there is an answer.                              *)
Chosen(values, options) ==
  [f \in Fields |-> IF options /\ f \in OnlyOption /\ values[f] = ""
                    THEN CHOOSE a \in Replies : TRUE ELSE values[f]]
StartValues(options) == Chosen([f \in Fields |-> ""], options)

(* stepTo(): the next step in a direction that shows a field, or where one is. *)
Shows(step) == step = Review \/ Asked(FieldsOf(step)) # {}
Ahead(from) == {s \in from + 1 .. (IF HasReview THEN Review ELSE 1) : Shows(s)}
Behind(from) == {s \in 1 .. from - 1 : Shows(s)}
StepForward(from) ==
  IF Ahead(from) = {} THEN from ELSE CHOOSE s \in Ahead(from) : \A t \in Ahead(from) : s <= t
StepBack(from) ==
  IF Behind(from) = {} THEN from ELSE CHOOSE s \in Behind(from) : \A t \in Behind(from) : s >= t

FormInit ==
  /\ form = [values |-> StartValues(FALSE), files |-> {}, step |-> 1, back |-> FALSE,
             errors |-> {}, pending |-> NothingPending, confirmed |-> FALSE,
             surprised |-> FALSE]   \* history: a send was answered while a step was open
  /\ posting = NothingPosted
  /\ records = <<>>
  /\ loaded = FALSE
  /\ trials = 0

Open == ~form.confirmed

-----------------------------------------------------------------------------
(* Filling in (SchemaField, stepFlow).                                     *)

FillIn(field, value) ==
  /\ Open /\ field \in Asked(FieldsOf(form.step)) \ {Papers}
  /\ form' = [form EXCEPT !.values[field] = value]
  /\ UNCHANGED <<posting, records, loaded, trials>>

Pick(files) ==
  /\ Open /\ Papers \in Asked(FieldsOf(form.step))
  /\ form' = [form EXCEPT !.files = files]
  /\ UNCHANGED <<posting, records, loaded, trials>>

(* loadOptions()                                                           *)
OptionsArrive ==
  /\ ~loaded
  /\ loaded' = TRUE
  /\ form' = [form EXCEPT !.values = Chosen(@, TRUE)]
  /\ UNCHANGED <<posting, records, trials>>

NextStep ==
  LET wrong == Wrong(form.values, form.files) \cap Asked(FieldsOf(form.step)) IN
  /\ Open /\ HasReview /\ ~OnReview
  /\ form' = IF wrong # {} THEN [form EXCEPT !.errors = wrong]
             ELSE [form EXCEPT !.errors = {}, !.back = FALSE,
                     !.step = IF form.back THEN Review ELSE StepForward(@)]
  /\ UNCHANGED <<posting, records, loaded, trials>>

(* Mutant: the way back to the review stays open.                          *)
PreviousStepKeepingReview ==
  /\ Open /\ HasReview /\ form.step > 1 /\ ~Submitting
  /\ form' = [form EXCEPT !.errors = {}, !.step = StepBack(@)]
  /\ UNCHANGED <<posting, records, loaded, trials>>

PreviousStep ==
  /\ Open /\ HasReview /\ form.step > 1 /\ ~Submitting
  /\ form' = [form EXCEPT !.errors = {}, !.back = FALSE, !.step = StepBack(@)]
  /\ UNCHANGED <<posting, records, loaded, trials>>

(* The review lists the steps with a shown field.                          *)
EditStep(step) ==
  /\ Open /\ OnReview /\ Asked(FieldsOf(step)) # {}
  /\ form' = [form EXCEPT !.errors = {}, !.back = TRUE, !.step = step]
  /\ UNCHANGED <<posting, records, loaded, trials>>

-----------------------------------------------------------------------------
(* Sending.                                                                *)

(* showErrors(): the first step with one of them opens.                    *)
WithErrors(f, errors) ==
  LET steps == {s \in 1..Len(Steps) : Steps[s] \cap errors # {}}
      at == CHOOSE s \in steps : \A t \in steps : s <= t
  IN IF ~HasReview \/ steps = {} THEN [f EXCEPT !.errors = errors]
     ELSE [f EXCEPT !.step = at, !.back = TRUE, !.errors = errors \cap Steps[at]]

(* submit(), until the request                                             *)
Submit ==
  LET wrong == Wrong(form.values, form.files) \ Hidden IN
  /\ Open /\ ~Submitting /\ (HasReview => OnReview) /\ trials < MaxTrials
  /\ trials' = trials + 1
  /\ IF wrong # {} THEN form' = WithErrors(form, wrong) /\ UNCHANGED posting
     ELSE /\ form' = [form EXCEPT !.errors = {}]
          /\ posting' = IF form.files \cap TooLarge # {} THEN NothingPosted
                        ELSE [kind |-> "record", values |-> form.values, files |-> form.files]
  /\ UNCHANGED <<records, loaded>>

(* reportFailed()                                                          *)
Reported(f, id, failed) ==
  [f EXCEPT !.pending = IF failed = {} THEN NothingPending ELSE [id |-> id, files |-> failed]]

(* submit(), after the last answer: the form starts anew, or gives way to   *)
(* the action's own confirmation.                                          *)
Finished(id, failed) ==
  [Reported(form, id, failed) EXCEPT
     !.values = StartValues(loaded), !.files = {}, !.step = 1,
     !.surprised = @ \/ ~OnReview, !.confirmed = HasConfirmation /\ failed = {}]

(* The app made the record, and its files come next; or it says it did not, *)
(* naming fields or not, whatever it stored; or the browser got no answer,  *)
(* and the form waits for ever.                                             *)
RecordAnswered ==
  LET NewRecord(told) ==
        [values |-> posting.values, picked |-> posting.files, files |-> {}, told |-> told] IN
  /\ posting.kind = "record"
  /\ \/ /\ records' = Append(records, NewRecord(TRUE))
        /\ IF posting.files = {}
           THEN form' = Finished(Len(records'), {}) /\ posting' = NothingPosted
           ELSE /\ posting' = [kind |-> "files", id |-> Len(records'), left |-> posting.files,
                               failed |-> {}, retry |-> FALSE]
                /\ UNCHANGED form
     \/ /\ records' \in {records, Append(records, NewRecord(FALSE))}
        /\ \/ \E errors \in SUBSET Fields :
                /\ posting' = NothingPosted
                /\ form' = IF errors = {} THEN form
                           ELSE [WithErrors(form, errors) EXCEPT !.surprised = @ \/ ~OnReview]
           \/ posting' = [kind |-> "unanswered"] /\ UNCHANGED form
  /\ UNCHANGED <<loaded, trials>>

(* Mutant: the first file that fails ends the uploads.                     *)
UploadsGoOnUntilFailure(left, failed) == left # {} /\ failed = {}

(* uploadFiles(): every file is tried.                                     *)
UploadsGoOn(left, failed) == left # {}

(* retryFailed()                                                           *)
RetryFailed ==
  /\ Open /\ ~Submitting /\ form.pending # NothingPending /\ trials < MaxTrials
  /\ trials' = trials + 1
  /\ posting' = [kind |-> "files", id |-> form.pending.id, left |-> form.pending.files,
                 failed |-> {}, retry |-> TRUE]
  /\ UNCHANGED <<form, records, loaded>>

(* One upload is answered: the file is in the record, or it is not said to be. *)
FileAnswered(file) ==
  LET left == posting.left \ {file} IN
  /\ posting.kind = "files" /\ file \in posting.left
  /\ \E stored, told \in BOOLEAN :
       LET failed == IF told THEN posting.failed ELSE posting.failed \cup {file} IN
       /\ told => stored
       /\ records' = [records EXCEPT ![posting.id].files = IF stored THEN @ \cup {file} ELSE @]
       /\ IF UploadsGoOn(left, failed)
          THEN posting' = [posting EXCEPT !.left = left, !.failed = failed] /\ UNCHANGED form
          ELSE /\ posting' = NothingPosted
               /\ form' = IF posting.retry THEN Reported(form, posting.id, failed)
                          ELSE Finished(posting.id, failed)
  /\ UNCHANGED <<loaded, trials>>

FormNext ==
  \/ \E f \in Fields, a \in Replies \cup {""} : FillIn(f, a)
  \/ \E files \in SUBSET Files : Pick(files)
  \/ OptionsArrive \/ NextStep \/ PreviousStep
  \/ \E s \in 1..Len(Steps) : EditStep(s)
  \/ Submit \/ RecordAnswered \/ RetryFailed
  \/ \E file \in Files : FileAnswered(file)

FormSpec == FormInit /\ [][FormNext]_formVars

-----------------------------------------------------------------------------

(* On the review every question that must be answered is, whatever was      *)
(* changed, skipped or refused on the way there, until a send is answered   *)
(* while one of the steps is open: the refusal, or the form that starts     *)
(* anew, then has a way back to the review past what was changed            *)
(* (nextStep, previousStep, showErrors of stepFlow.js; submit, 706-721).    *)
ReviewIsComplete ==
  OnReview /\ ~form.surprised => Wrong(form.values, form.files) \subseteq Hidden

(* Of the last record the form was told of, each file that was picked for   *)
(* it is in the record, under way or offered again, however often uploads   *)
(* fail; the next record takes the offer of the one before (reportFailed;   *)
(* retryFailed; uploadFiles).                                               *)
FilesAreAccountedFor ==
  LET told == {r \in DOMAIN records : records[r].told}
      last == CHOOSE r \in told : \A s \in told : r >= s
      underWay == IF posting.kind = "files" /\ posting.id = last
                  THEN posting.left \cup posting.failed ELSE {}
      offered == IF form.pending.id = last THEN form.pending.files ELSE {}
  IN told # {} => records[last].picked \subseteq records[last].files \cup underWay \cup offered
=============================================================================
