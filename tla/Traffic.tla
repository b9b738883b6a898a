-------------------------------- MODULE Traffic --------------------------------
(***************************************************************************)
(* What a page tells the traffic collector: the client that queues and      *)
(* posts events (traffic/client.js) and the recorder of a visit it may load *)
(* (traffic/recorder.js), in one tab, over several page loads and visits.   *)
(* The collector is external.                                              *)
(***************************************************************************)
EXTENDS Integers, Sequences

CONSTANTS
  Places,       \* addresses within the site
  PreConsent,   \* events measured before consent
  FlushAt,      \* FLUSH_AT: events that post at once
  FlushBytes,   \* FLUSH_AT_BYTES
  MaxChunk,     \* MAX_CHUNK_BYTES, the largest event that is kept
  MaxTotal,     \* MAX_TOTAL_BYTES
  MaxEvents,    \* bound: events the client records
  MaxSessions,  \* bound: sessions, so page loads and consents that start one
  MaxPushes     \* bound: events the recorder sees

ASSUME TrafficAssumption ==
  /\ {FlushAt, FlushBytes, MaxChunk, MaxTotal} \subseteq Nat \ {0}
  /\ {MaxEvents, MaxSessions, MaxPushes} \subseteq Nat

NoSession == 0
Nowhere == "nowhere"

VARIABLES
  settings,  \* the portal's: whether consent is required, an identity kept, visits recorded
  browser,   \* storage: the session kept, its next number, sessions made so far
  client,    \* the client of this page load
  recorder,  \* the recorder of this page load
  told,      \* history: per session the last number recorded, events so far
  pushes     \* history: events the recorder saw

trafficVars == <<settings, browser, client, recorder, told, pushes>>

NoClient ==
  [phase |-> "asking", consent |-> FALSE, disabled |-> FALSE, session |-> NoSession, number |-> 0,
   queue |-> <<>>, timer |-> FALSE, place |-> Nowhere, form |-> "untouched", recorderAsked |-> FALSE]
NoRecorder == [phase |-> "no", bytes |-> 0, total |-> 0, timer |-> FALSE, snapshot |-> FALSE]
NothingKept == [session |-> NoSession, number |-> 0]

TrafficInit ==
  /\ settings \in [consentRequired : BOOLEAN, persist : BOOLEAN, record : BOOLEAN]
  /\ browser = [kept |-> NothingKept, made |-> 0]
  /\ client = NoClient
  /\ recorder = NoRecorder
  /\ told = [last |-> [s \in 1..MaxSessions |-> -1], count |-> 0, rising |-> TRUE]
  /\ pushes = 0

-----------------------------------------------------------------------------

(* The handlers below call one another; each is a function of the world: the *)
(* client, the browser and what was told.                                  *)
World == [c |-> client, b |-> browser, h |-> told]
Becomes(w) == client' = w.c /\ browser' = w.b /\ told' = w.h

(* allowedEvent() and mayPersist() of helpers.js.                          *)
AllowedEvent(c, name) == settings.consentRequired /\ ~c.consent => name \in PreConsent
MayPersist(c) == settings.persist /\ (settings.consentRequired => c.consent)

Flush(w) == [w EXCEPT !.c.timer = FALSE, !.c.queue = <<>>]

(* Mutant: the number is not kept for the next page.                       *)
PersistSequenceNever(kept, c) == kept

(* Mutant: the number is kept without an identity too.                     *)
PersistSequenceAlways(kept, c) == [kept EXCEPT !.number = c.number + 1]

(* persistSequence(): the browser keeps the session's next number.         *)
PersistSequence(kept, c) ==
  IF c.session = NoSession THEN kept ELSE [kept EXCEPT !.number = c.number + 1]

Rises(h, c) == c.session = NoSession \/ h.last[c.session] < c.number

(* record(): an event goes on the queue under its session's next number.    *)
Record(w, name) ==
  LET c == w.c
      queued ==
        [c |-> [c EXCEPT !.number = @ + 1,
                         !.queue = Append(@, [name |-> name, session |-> c.session])],
         b |-> [w.b EXCEPT !.kept = PersistSequence(@, c)],
         h |-> [w.h EXCEPT
                  !.count = @ + 1, !.rising = @ /\ Rises(w.h, c),
                  !.last = [s \in DOMAIN @ |-> IF s = c.session THEN c.number ELSE @[s]]]]
  IN IF c.disabled \/ ~AllowedEvent(c, name) \/ w.h.count >= MaxEvents THEN w
     ELSE IF Len(queued.c.queue) >= FlushAt THEN Flush(queued)
     ELSE [queued EXCEPT !.c.timer = TRUE]

(* restoreIdentity(): the session of this tab, or a new one.               *)
RestoreIdentity(w) ==
  IF ~MayPersist(w.c) THEN w
  ELSE IF w.b.kept.session # NoSession
    THEN [w EXCEPT !.c.session = w.b.kept.session, !.c.number = w.b.kept.number]
    ELSE IF w.b.made = MaxSessions THEN w
    ELSE LET s == w.b.made + 1 IN
         Record([w EXCEPT !.b = [kept |-> [session |-> s, number |-> 0], made |-> s],
                          !.c.session = s, !.c.number = 0], "session_start")

ForgetIdentity(w) == [w EXCEPT !.c.session = NoSession, !.b.kept = NothingKept]

(* loadRecorder(): once, when the visit may be recorded.                    *)
LoadRecorder(w) ==
  IF ~w.c.disabled /\ settings.record /\ (settings.consentRequired => w.c.consent)
  THEN [w EXCEPT !.c.recorderAsked = TRUE] ELSE w

(* pageView(): reported once per address; what was typed into forms of the  *)
(* page before is dropped.                                                 *)
PageView(w, place) ==
  IF place = w.c.place THEN w
  ELSE Record([w EXCEPT !.c.place = place, !.c.form = "untouched"], "page_view")

AbandonForms(w) ==
  IF w.c.form = "started" THEN Record([w EXCEPT !.c.form = "untouched"], "form_abandon")
  ELSE w

-----------------------------------------------------------------------------

Running == client.phase = "running"

(* The portal's answer: start(), or nothing when it measures nothing.      *)
Start ==
  /\ client.phase = "asking"
  /\ \E place \in Places :
       LET answered == [World EXCEPT !.c.phase = "running", !.c.consent = ~settings.consentRequired]
       IN Becomes(PageView(LoadRecorder(RestoreIdentity(answered)), place))
  /\ UNCHANGED <<settings, recorder, pushes>>

StartFails ==
  /\ client.phase = "asking"
  /\ client' = [client EXCEPT !.phase = "off"]
  /\ UNCHANGED <<settings, browser, recorder, told, pushes>>

Consent(granted) ==
  /\ Running
  /\ LET w == [World EXCEPT !.c.consent = granted] IN
     Becomes(IF granted THEN LoadRecorder(RestoreIdentity(w)) ELSE ForgetIdentity(w))
  /\ UNCHANGED <<settings, recorder, pushes>>

RecordingStopped(r) == [r EXCEPT !.phase = "stopped", !.bytes = 0]

Disable ==
  /\ Running
  /\ Becomes(ForgetIdentity([World EXCEPT !.c.disabled = TRUE, !.c.queue = <<>>]))
  /\ recorder' = IF recorder.phase = "on" THEN RecordingStopped(recorder) ELSE recorder
  /\ UNCHANGED <<settings, pushes>>

(* pushState, replaceState and popstate.                                   *)
Navigate(place) ==
  /\ Running /\ place # client.place
  /\ Becomes(PageView(World, place))
  /\ UNCHANGED <<settings, recorder, pushes>>

OnFocusIn ==
  /\ Running /\ client.form # "started"
  /\ Becomes(Record([World EXCEPT !.c.form = "started"], "form_start"))
  /\ UNCHANGED <<settings, recorder, pushes>>

OnSubmit ==
  /\ Running
  /\ Becomes(Flush(Record([World EXCEPT !.c.form = "untouched"], "form_submit")))
  /\ UNCHANGED <<settings, recorder, pushes>>

(* The timer of the queue, and the tab going out of sight.                 *)
FlushTimer ==
  /\ Running /\ client.timer
  /\ Becomes(Flush(World))
  /\ UNCHANGED <<settings, recorder, pushes>>

-----------------------------------------------------------------------------

(* The recorder's script arrives.                                          *)
StartRecorder ==
  /\ Running /\ client.recorderAsked /\ recorder.phase = "no" /\ client.consent
  /\ recorder' = [NoRecorder EXCEPT !.phase = "on", !.bytes = 1, !.timer = TRUE]
  /\ UNCHANGED <<settings, browser, client, told, pushes>>

(* flush(): nothing to post arms no timer.                                 *)
Posted(r) ==
  IF r.bytes = 0 THEN [r EXCEPT !.timer = FALSE]
  ELSE LET after == [r EXCEPT !.total = @ + r.bytes, !.bytes = 0, !.timer = FALSE] IN
       IF after.total >= MaxTotal THEN RecordingStopped(after) ELSE [after EXCEPT !.timer = TRUE]

(* push(): an event too large for the collector ends the recording.        *)
Pushed(r, size) ==
  IF r.phase # "on" THEN r
  ELSE IF size > MaxChunk THEN RecordingStopped(r)
  ELSE LET queued == [r EXCEPT !.bytes = @ + size] IN
       IF queued.bytes >= FlushBytes THEN Posted(queued) ELSE queued

Moves(r) ==
  /\ recorder' = r
  /\ UNCHANGED <<settings, browser, client, told, pushes>>

Push(size) ==
  /\ Running /\ recorder.phase = "on" /\ pushes < MaxPushes
  /\ recorder' = Pushed(recorder, size)
  /\ pushes' = pushes + 1
  /\ UNCHANGED <<settings, browser, client, told>>

(* A change of the page earns one snapshot, later.                         *)
ScheduleSnapshot == Running /\ recorder.phase = "on" /\ ~recorder.snapshot
                    /\ Moves([recorder EXCEPT !.snapshot = TRUE])

Snapshot(size) ==
  /\ Running /\ recorder.snapshot /\ pushes < MaxPushes
  /\ recorder' = Pushed([recorder EXCEPT !.snapshot = FALSE], size)
  /\ pushes' = pushes + 1
  /\ UNCHANGED <<settings, browser, client, told>>

PostTimer == Running /\ recorder.timer /\ Moves(Posted(recorder))

-----------------------------------------------------------------------------

(* The tab is hidden: both post what they have.                            *)
Hide ==
  /\ Running
  /\ Becomes(Flush(World))
  /\ recorder' = IF recorder.phase = "on" THEN Posted(recorder) ELSE recorder
  /\ UNCHANGED <<settings, pushes>>

(* The page goes: abandoned forms, a last post, and the next page starts    *)
(* with what the browser keeps.  A tab that is killed skips all that.       *)
Leave(killed) ==
  /\ client.phase # "asking"
  /\ LET w == IF killed \/ ~Running THEN World ELSE Flush(AbandonForms(World)) IN
     Becomes([w EXCEPT !.c = NoClient])
  /\ recorder' = NoRecorder
  /\ UNCHANGED <<settings, pushes>>

TrafficNext ==
  \/ Start \/ StartFails \/ Disable \/ OnFocusIn \/ OnSubmit \/ FlushTimer
  \/ \E granted \in BOOLEAN : Consent(granted)
  \/ \E place \in Places : Navigate(place)
  \/ StartRecorder \/ ScheduleSnapshot \/ PostTimer \/ Hide
  \/ \E size \in 1..MaxChunk + 1 : Push(size) \/ Snapshot(size)
  \/ \E killed \in BOOLEAN : Leave(killed)

TrafficSpec == TrafficInit /\ [][TrafficNext]_trafficVars

-----------------------------------------------------------------------------

(* Within a session numbers only rise, over page loads, killed tabs and     *)
(* consent given and withdrawn (record, restoreIdentity, persistSequence).  *)
NumbersRise == told.rising

(* Nothing is written to a browser that keeps nothing, unless the portal    *)
(* keeps identities and consent, where it is required, stands               *)
(* (restoreIdentity, forgetIdentity, record).                              *)
NothingIsKeptUnasked ==
  [][browser.kept = NothingKept /\ browser'.kept # NothingKept => MayPersist(client')]_trafficVars
=============================================================================
