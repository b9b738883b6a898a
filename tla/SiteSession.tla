------------------------------ MODULE SiteSession ------------------------------
(***************************************************************************)
(* One tab of the public site and the session it carries: the bearer in    *)
(* sessionStorage, the idle trackers that refresh it and end it, signing   *)
(* in, signing out, narrowing to a branch, and the resident's data the     *)
(* shell reads (site/App.vue, site/lib/authApi.js, site/lib/idleTracker.js, *)
(* shared/idleSession.js).  The edge is the bearers it still honours;      *)
(* PortalSession models it in full.                                        *)
(*                                                                         *)
(* A request is "sent", then "answered" with what the edge did, then taken *)
(* in by the code after its await, or is lost on the way there or back.    *)
(* The clock counts minutes.  What a sign-out leaves depends on what was    *)
(* under way; "inTurn" says of a behaviour that every request finds the one *)
(* before answered, and so does the timer that ends the session.           *)
(***************************************************************************)
EXTENDS Integers, FiniteSets

CONSTANTS
  Resident,     \* who may sign in on this device
  Bearers,      \* bound: bearers the edge mints
  Trackers,     \* bound: idle trackers made while one page is open
  MaxTime,      \* bound: the clock
  IdleTimeout,  \* session_idle_timeout
  HardLife,     \* session_max_lifetime
  DevSignIn,    \* the edge accepts the dev login, which stays on the page
  Silent        \* the organisation turned silent sign-in on

ASSUME SiteSessionAssumption ==
  /\ Bearers \in Nat \ {0} /\ Trackers \in Nat \ {0}
  /\ MaxTime \in Nat /\ IdleTimeout \in Nat \ {0} /\ HardLife \in Nat \ {0}
  /\ DevSignIn \in BOOLEAN /\ Silent \in BOOLEAN

VARIABLES
  now,         \* minutes
  minted,      \* bearers minted so far
  bearer,      \* per minted bearer: whose it is, when it ends, and its cap
  live,        \* the bearers the edge honours until they expire
  stored,      \* sessionStorage: the tab's bearer, or None
  secret,      \* sessionStorage: the secret of an opened invitation is kept
  triedSilent, \* sessionStorage: a silent sign-in was tried
  page,        \* "opening" or "minted" until fetchSession answers, "open", "away" at the provider
  signinFailed, \* the page was opened by a failed sign-in
  session,     \* App.session: whose, or Nobody
  times,       \* App.idleTimes: until when, and the cap
  warning,     \* App.idleWarning
  idleOut,     \* App.idleSignedOut
  current,     \* App.idleTracker, or None
  made,        \* trackers made on this page
  tracker,     \* each tracker's own variables
  refresh,     \* each tracker's request under way
  exit,        \* the sign-out under way
  narrow,      \* the branch choice under way
  load,        \* loadAccount under way
  claim,       \* the kept invitation's redemption is under way
  account, rows, mandates, \* whose contributions, rows and mandates the shell holds
  signedOut,   \* history: how the last session ended, until the next sign-in
  inTurn       \* requests do not overlap; fixed

edge == <<now, minted, bearer, live>>
store == <<stored, secret, triedSilent>>
idle == <<times, warning, idleOut, current, made, tracker>>
held == <<account, rows, mandates>>
calls == <<refresh, exit, narrow, load, claim>>
sessionVars == <<edge, store, page, signinFailed, session, idle, calls, held, signedOut, inTurn>>

None == 0
Nobody == "nobody"
Bearer == 1..Bearers
Tracker == 1..Trackers
NoTimes == [until |-> 0, cap |-> 0]
Quiet == [phase |-> "no", with |-> None, got |-> None]
Phase == {"no", "sent", "answered"}
Call == [phase : Phase, with : Bearer \cup {None}, got : Bearer \cup {None}]
NoLoad == [phase |-> "no", who |-> Nobody]
Resting == [times |-> NoTimes, warned |-> FALSE, refreshed |-> 0, warnAt |-> -1, endAt |-> -1,
            listens |-> FALSE]

Earlier(a, b) == IF a <= b THEN a ELSE b
Later(a, b) == IF a >= b THEN a ELSE b

(* What the edge does with a bearer.                                       *)
Honoured(b) == b # None /\ b \in live /\ now <= bearer[b].until
Whose(b) == IF Honoured(b) THEN bearer[b].who ELSE Nobody
TimesOf(b) == [until |-> bearer[b].until, cap |-> bearer[b].cap]

Issue(who, cap) ==
  /\ minted < Bearers
  /\ minted' = minted + 1
  /\ bearer' = [bearer EXCEPT ![minted + 1] =
                  [who |-> who, until |-> Earlier(now + IdleTimeout, cap), cap |-> cap]]

(* A rotation: the new bearer lives one window, never past the cap, and   *)
(* the old one dies.                                                       *)
Rotated(b) == Issue(bearer[b].who, bearer[b].cap) /\ live' = (live \ {b}) \cup {minted + 1}

(* The tab opens on the site, or on a sign-in that comes back to it.        *)
TabInit ==
  /\ now = 0 /\ minted = 0 /\ live = {}
  /\ bearer = [b \in Bearer |-> [who |-> Nobody, until |-> 0, cap |-> 0]]
  /\ stored = None /\ secret \in BOOLEAN /\ triedSilent = FALSE
  /\ page \in {"opening", "away"} /\ signinFailed = FALSE /\ session = Nobody
  /\ times = NoTimes /\ warning = FALSE /\ idleOut = FALSE
  /\ current = None /\ made = 0 /\ tracker = [t \in Tracker |-> Resting]
  /\ refresh = [t \in Tracker |-> Quiet]
  /\ exit = Quiet /\ narrow = Quiet
  /\ load = NoLoad /\ claim = FALSE
  /\ account = Nobody /\ rows = Nobody /\ mandates = Nobody
  /\ signedOut = "no"
  /\ inTurn \in BOOLEAN

----------------------------------------------------------------------------
(* The idle tracker.                                                       *)

WarningLead == IF IdleTimeout < 5 THEN (IdleTimeout * 2 + 2) \div 5 ELSE 2

ScheduledKeepingEnd(k, shown) ==
  [k EXCEPT !.times = shown, !.warned = FALSE, !.warnAt = Later(now, shown.until - WarningLead),
            !.endAt = IF @ >= 0 THEN @ ELSE Later(now, shown.until)]

(* schedule(): every timer of the tracker is set anew.                     *)
Scheduled(k, shown) ==
  [k EXCEPT !.times = shown, !.warned = FALSE,
            !.warnAt = Later(now, shown.until - WarningLead), !.endAt = Later(now, shown.until)]

Started(shown) ==
  [Scheduled(Resting, shown) EXCEPT !.refreshed = now, !.listens = TRUE]

Stopped(k) ==
  [k EXCEPT !.times = NoTimes, !.warnAt = -1, !.endAt = -1, !.listens = FALSE]

StopCurrent == [t \in Tracker |-> IF t = current THEN Stopped(tracker[t]) ELSE tracker[t]]

ShouldRefresh(k) ==
  /\ k.times # NoTimes
  /\ now > k.refreshed
  /\ now < k.times.cap
  /\ 2 * (k.times.until - now) < IdleTimeout

CanExtend == now < times.cap

(* extend(): one refresh at a time, sent only with a bearer at hand.       *)
Extend(t) ==
  /\ refresh[t].phase = "no"
  /\ stored # None
  /\ refresh' = [refresh EXCEPT ![t] = [Quiet EXCEPT !.phase = "sent", !.with = stored]]

(* A key, a pointer or a touch: also the press that signs out.             *)
Activity(t) ==
  /\ tracker[t].listens /\ ~tracker[t].warned /\ ShouldRefresh(tracker[t])
  /\ Extend(t)
  /\ UNCHANGED <<edge, store, page, signinFailed, session, idle, exit, narrow, load, claim, held, signedOut>>

DialogShown == session # Nobody /\ warning /\ times # NoTimes

StaySignedIn ==
  /\ DialogShown /\ CanExtend /\ current # None
  /\ Extend(current)
  /\ UNCHANGED <<edge, store, page, signinFailed, session, idle, exit, narrow, load, claim, held, signedOut>>

(* The edge rotates a bearer it honours before the cap, refuses another, or *)
(* the call or its answer is lost.                                         *)
RefreshServed(t) ==
  /\ refresh[t].phase = "sent"
  /\ LET b == refresh[t].with IN
       \/ /\ Honoured(b) /\ now < bearer[b].cap /\ Rotated(b)
          /\ \E got \in {minted + 1, None} :
               refresh' = [refresh EXCEPT ![t].phase = "answered", ![t].got = got]
       \/ /\ refresh' = [refresh EXCEPT ![t].phase = "answered"]
          /\ UNCHANGED <<minted, bearer, live>>
  /\ UNCHANGED <<now, store, page, signinFailed, session, idle, exit, narrow, load, claim, held, signedOut>>

RefreshTakenUnstored(t) ==
  /\ refresh[t].phase = "answered"
  /\ refresh' = [refresh EXCEPT ![t] = Quiet]
  /\ LET b == refresh[t].got IN
       IF b = None
       THEN UNCHANGED <<stored, tracker, times, warning>>
       ELSE /\ stored' = stored
            /\ tracker' = [tracker EXCEPT ![t] = [Scheduled(@, TimesOf(b)) EXCEPT !.refreshed = now]]
            /\ times' = TimesOf(b)
            /\ warning' = FALSE
  /\ UNCHANGED <<edge, secret, triedSilent, page, signinFailed, session, idleOut, current, made,
                 exit, narrow, load, claim, held, signedOut>>

RefreshTakenStoppingOnRefusal(t) ==
  /\ refresh[t].phase = "answered"
  /\ refresh' = [refresh EXCEPT ![t] = Quiet]
  /\ LET b == refresh[t].got IN
       IF b = None
       THEN tracker' = [tracker EXCEPT ![t] = Stopped(@)] /\ UNCHANGED <<stored, times, warning>>
       ELSE /\ stored' = b
            /\ tracker' = [tracker EXCEPT ![t] = [Scheduled(@, TimesOf(b)) EXCEPT !.refreshed = now]]
            /\ times' = TimesOf(b)
            /\ warning' = FALSE
  /\ UNCHANGED <<edge, secret, triedSilent, page, signinFailed, session, idleOut, current, made,
                 exit, narrow, load, claim, held, signedOut>>

(* The rest of refreshSession() and of extend(): the new bearer is kept     *)
(* and the timers are set, whatever happened to the tracker meanwhile.     *)
RefreshTaken(t) ==
  /\ refresh[t].phase = "answered"
  /\ refresh' = [refresh EXCEPT ![t] = Quiet]
  /\ LET b == refresh[t].got IN
       IF b = None
       THEN UNCHANGED <<stored, tracker, times, warning>>
       ELSE /\ stored' = b
            /\ tracker' = [tracker EXCEPT ![t] = [Scheduled(@, TimesOf(b)) EXCEPT !.refreshed = now]]
            /\ times' = TimesOf(b)
            /\ warning' = FALSE
  /\ UNCHANGED <<edge, secret, triedSilent, page, signinFailed, session, idleOut, current, made,
                 exit, narrow, load, claim, held, signedOut>>

WarnTimer(t) ==
  /\ tracker[t].warnAt >= 0 /\ now >= tracker[t].warnAt
  /\ tracker' = [tracker EXCEPT ![t].warnAt = -1, ![t].warned = TRUE]
  /\ warning' = TRUE
  /\ UNCHANGED <<edge, store, page, signinFailed, session, times, idleOut, current, made, calls, held, signedOut>>

ForgetAccountNotMandates ==
  /\ account' = Nobody /\ rows' = Nobody /\ mandates' = mandates
  /\ secret' = FALSE

(* Everything the shell and the tab kept for the resident.                 *)
ForgetAccount ==
  /\ account' = Nobody /\ rows' = Nobody /\ mandates' = Nobody
  /\ secret' = FALSE

(* clearSessionToken(), endIdle(), session = null, forgetAccount().        *)
EndHere(how) ==
  /\ stored' = None
  /\ current' = None /\ times' = NoTimes /\ warning' = FALSE
  /\ session' = Nobody
  /\ ForgetAccount
  /\ signedOut' = how

(* onEnd: timers run in the order they are due, so the warning's ran first. *)
EndTimer(t) ==
  /\ tracker[t].endAt >= 0 /\ now >= tracker[t].endAt
  /\ ~(tracker[t].warnAt >= 0 /\ tracker[t].warnAt <= tracker[t].endAt)
  /\ EndHere("idle")
  /\ tracker' = [StopCurrent EXCEPT ![t].endAt = -1]
  /\ idleOut' = TRUE
  /\ UNCHANGED <<edge, triedSilent, page, signinFailed, made, calls>>

----------------------------------------------------------------------------
(* Signing out and narrowing to a branch.                                  *)

SignOut ==
  /\ page = "open" /\ session # Nobody /\ exit.phase = "no"
  /\ exit' = [Quiet EXCEPT !.phase = "sent", !.with = stored]
  /\ UNCHANGED <<edge, store, page, signinFailed, session, idle, refresh, narrow, load, claim, held, signedOut>>

(* The edge ends the session the bearer names; the call may be lost.       *)
SignOutServed ==
  /\ exit.phase = "sent"
  /\ live' \in {live \ {exit.with}, live}
  /\ exit' = [exit EXCEPT !.phase = "answered"]
  /\ UNCHANGED <<now, minted, bearer, store, page, signinFailed, session, idle, refresh, narrow, load,
                 claim, held, signedOut>>

(* The local state is cleared whatever the edge answered.                  *)
SignOutTaken ==
  /\ exit.phase = "answered"
  /\ exit' = Quiet
  /\ EndHere("asked")
  /\ tracker' = StopCurrent
  /\ UNCHANGED <<edge, triedSilent, page, signinFailed, idleOut, made, refresh, narrow, load, claim>>

ChooseBranch ==
  /\ page = "open" /\ session # Nobody /\ narrow.phase = "no"
  /\ narrow' = [Quiet EXCEPT !.phase = "sent", !.with = stored]
  /\ UNCHANGED <<edge, store, page, signinFailed, session, idle, refresh, exit, load, claim, held, signedOut>>

ChooseBranchServed ==
  /\ narrow.phase = "sent"
  /\ LET b == narrow.with IN
       \/ /\ Honoured(b) /\ Rotated(b)
          /\ narrow' = [narrow EXCEPT !.phase = "answered", !.got = minted + 1]
       \/ /\ narrow' = [narrow EXCEPT !.phase = "answered"]
          /\ UNCHANGED <<minted, bearer, live>>
  /\ UNCHANGED <<now, store, page, signinFailed, session, idle, refresh, exit, load, claim, held, signedOut>>

----------------------------------------------------------------------------
(* Opening and leaving the page.                                           *)

(* A fresh document: nothing the page held in memory survives.             *)
FreshPage(next) ==
  /\ page' = next /\ session' = Nobody
  /\ times' = NoTimes /\ warning' = FALSE /\ idleOut' = FALSE
  /\ current' = None /\ made' = 0 /\ tracker' = [t \in Tracker |-> Resting]
  /\ refresh' = [t \in Tracker |-> Quiet]
  /\ exit' = Quiet /\ narrow' = Quiet /\ load' = NoLoad /\ claim' = FALSE
  /\ account' = Nobody /\ rows' = Nobody /\ mandates' = Nobody

(* What the page had sent still reaches the edge, or never left.           *)
EdgeMayServe ==
  \/ UNCHANGED <<minted, bearer, live>>
  \/ exit.phase = "sent" /\ live' = live \ {exit.with} /\ UNCHANGED <<minted, bearer>>
  \/ \E t \in Tracker :
       refresh[t].phase = "sent" /\ Honoured(refresh[t].with) /\ Rotated(refresh[t].with)

(* Also the way back from the broker's own sign-out.                       *)
Reload ==
  /\ page = "open"
  /\ FreshPage("opening") /\ signinFailed' = FALSE
  /\ EdgeMayServe
  /\ UNCHANGED <<now, store, signedOut>>

(* chooseBranch() kept the new bearer, and the page opens again.           *)
ChooseBranchTaken ==
  /\ narrow.phase = "answered"
  /\ IF narrow.got = None
     THEN /\ narrow' = Quiet
          /\ UNCHANGED <<edge, stored, page, session, idle, refresh, exit, load, claim, held, signinFailed>>
     ELSE /\ stored' = narrow.got
          /\ FreshPage("opening") /\ signinFailed' = FALSE
          /\ EdgeMayServe /\ now' = now
  /\ UNCHANGED <<secret, triedSilent, signedOut>>

(* A link to the provider: the tab comes back with a bearer or a failure.  *)
GoSignIn ==
  /\ page = "open" /\ session = Nobody
  /\ FreshPage("away") /\ signinFailed' = FALSE
  /\ EdgeMayServe
  /\ UNCHANGED <<now, store, signedOut>>

Minted(r) ==
  /\ now + HardLife <= MaxTime
  /\ Issue(r, now + HardLife) /\ live' = live \cup {minted + 1}
  /\ stored' = minted + 1
  /\ signedOut' = "no"

ReturnSignedIn(r) ==
  /\ page = "away"
  /\ Minted(r)
  /\ FreshPage("opening")
  /\ UNCHANGED <<now, secret, triedSilent, signinFailed>>

ReturnRefused ==
  /\ page = "away"
  /\ FreshPage("opening") /\ signinFailed' = TRUE
  /\ UNCHANGED <<edge, store, signedOut>>

(* The dev login keeps the page: the bearer is stored, the session read.   *)
DevLogin(r) ==
  /\ DevSignIn /\ page = "open" /\ session = Nobody
  /\ Minted(r)
  /\ page' = "minted"
  /\ UNCHANGED <<now, secret, triedSilent, signinFailed, session, idle, calls, held>>

(* watchIdle() for the session just read.                                  *)
Watch(b) ==
  LET who == Whose(b) IN
  /\ session' = who
  /\ IF who = Nobody
     THEN tracker' = StopCurrent /\ UNCHANGED <<times, idleOut, current, made>>
     ELSE /\ made < Trackers
          /\ made' = made + 1 /\ current' = made + 1
          /\ tracker' = [StopCurrent EXCEPT ![made + 1] = Started(TimesOf(b))]
          /\ times' = TimesOf(b)
          /\ idleOut' = FALSE

(* trySilentSignIn(): recorded before it is made, and the tab leaves.      *)
TriesSilently == Silent /\ ~signinFailed /\ ~idleOut /\ ~triedSilent

(* The end of loadSite(): the resident's data, or a silent sign-in.         *)
GoOn(who) ==
  IF who # Nobody
  THEN load' = [phase |-> "lists", who |-> Whose(stored)] /\ UNCHANGED triedSilent /\ page' = "open"
  ELSE /\ load' = load
       /\ triedSilent' = (triedSilent \/ TriesSilently)
       /\ page' = IF TriesSilently THEN "away" ELSE "open"

(* fetchSession() answers, or fails and counts as signed out.  A kept       *)
(* invitation is redeemed first by a resident who is signed in.            *)
SessionRead ==
  /\ page = "opening"
  /\ \E b \in {stored, None} :
       /\ Watch(b)
       /\ claim' = (secret /\ Whose(b) # Nobody)
       /\ IF claim' THEN page' = "open" /\ UNCHANGED <<load, triedSilent>> ELSE GoOn(Whose(b))
  /\ UNCHANGED <<edge, stored, secret, signinFailed, warning, refresh, exit, narrow, held, signedOut>>

(* The answer that settles the invitation forgets its secret; one to try    *)
(* again, or none, keeps it.                                               *)
ClaimAnswered ==
  /\ claim
  /\ claim' = FALSE
  /\ secret' \in {secret, FALSE}
  /\ GoOn(session)
  /\ UNCHANGED <<edge, stored, signinFailed, session, idle, refresh, exit, narrow, held, signedOut>>

(* devLogin() after its mint: the session, the tracker, the data.           *)
DevSessionRead ==
  /\ page = "minted" /\ load.phase = "no"
  /\ page' = "open"
  /\ \E b \in {stored, None} :
       /\ Watch(b)
       /\ load' = IF Whose(b) # Nobody THEN [phase |-> "lists", who |-> Whose(stored)] ELSE load
  /\ UNCHANGED <<edge, store, signinFailed, warning, refresh, exit, narrow, claim, held, signedOut>>

----------------------------------------------------------------------------
(* loadAccount(): each answer is what the bearer stored when it was asked   *)
(* may read.                                                               *)

(* Asked again by a screen; bound: one at a time.                          *)
LoadAccount ==
  /\ page = "open" /\ session # Nobody /\ load.phase = "no" /\ ~claim
  /\ load' = [phase |-> "lists", who |-> Whose(stored)]
  /\ UNCHANGED <<edge, store, page, signinFailed, session, idle, refresh, exit, narrow, claim, held, signedOut>>

ListsAnswered ==
  /\ load.phase = "lists"
  /\ account' = load.who
  /\ load' = [phase |-> "rows", who |-> Whose(stored)]
  /\ UNCHANGED <<edge, store, page, signinFailed, session, idle, refresh, exit, narrow, claim, rows,
                 mandates, signedOut>>

(* The mandates are read only where the lists name "Mijn zaken".           *)
RowsAnswered ==
  /\ load.phase = "rows"
  /\ rows' = load.who
  /\ load' \in {[phase |-> "mandates", who |-> Whose(stored)], NoLoad}
  /\ UNCHANGED <<edge, store, page, signinFailed, session, idle, refresh, exit, narrow, claim, account,
                 mandates, signedOut>>

MandatesAnswered ==
  /\ load.phase = "mandates"
  /\ mandates' \in {load.who, mandates}
  /\ load' = NoLoad
  /\ UNCHANGED <<edge, store, page, signinFailed, session, idle, refresh, exit, narrow, claim, account, rows,
                 signedOut>>

(* No timer that is due is passed by, as a page in the foreground runs it.  *)
Tick ==
  /\ now < MaxTime
  /\ \A t \in Tracker :
       /\ tracker[t].warnAt >= 0 => tracker[t].warnAt > now
       /\ tracker[t].endAt >= 0 => tracker[t].endAt > now
  /\ now' = now + 1
  /\ UNCHANGED <<minted, bearer, live, store, page, signinFailed, session, idle, calls, held, signedOut>>

(* No request of the tab is under way.                                     *)
NothingSent ==
  /\ \A t \in Tracker : refresh[t].phase = "no"
  /\ exit.phase = "no" /\ narrow.phase = "no" /\ load.phase = "no" /\ ~claim

(* What starts a request, a page or an end, and what goes on by itself.     *)
Begins ==
  \/ \E t \in Tracker : Activity(t) \/ EndTimer(t)
  \/ StaySignedIn \/ SignOut \/ ChooseBranch \/ LoadAccount \/ Reload \/ GoSignIn
  \/ \E r \in Resident : DevLogin(r)

GoesOn ==
  \/ \E t \in Tracker : RefreshServed(t) \/ RefreshTaken(t) \/ WarnTimer(t)
  \/ SignOutServed \/ SignOutTaken \/ ChooseBranchServed \/ ChooseBranchTaken
  \/ ReturnRefused \/ SessionRead \/ ClaimAnswered \/ DevSessionRead
  \/ \E r \in Resident : ReturnSignedIn(r)
  \/ ListsAnswered \/ RowsAnswered \/ MandatesAnswered \/ Tick

TabNext ==
  /\ \/ (inTurn => NothingSent) /\ Begins
     \/ GoesOn
  /\ UNCHANGED inTurn

TabSpec == TabInit /\ [][TabNext]_sessionVars

----------------------------------------------------------------------------
(* Every variable has its type.                                            *)
SiteSessionTypeOK ==
  /\ now \in 0..MaxTime /\ minted \in 0..Bearers
  /\ bearer \in [Bearer -> [who : Resident \cup {Nobody}, until : Int, cap : Int]]
  /\ live \subseteq Bearer /\ stored \in Bearer \cup {None}
  /\ {secret, triedSilent, signinFailed, warning, idleOut, claim} \subseteq BOOLEAN
  /\ page \in {"opening", "minted", "open", "away"}
  /\ {session, account, rows, mandates} \subseteq Resident \cup {Nobody}
  /\ times \in [until : Int, cap : Int]
  /\ current \in Tracker \cup {None} /\ made \in 0..Trackers
  /\ tracker \in [Tracker -> [times : [until : Int, cap : Int], warned : BOOLEAN, refreshed : Int,
                              warnAt : Int, endAt : Int, listens : BOOLEAN]]
  /\ refresh \in [Tracker -> Call] /\ {exit, narrow} \subseteq Call
  /\ load \in [phase : {"no", "lists", "rows", "mandates"}, who : Resident \cup {Nobody}]
  /\ signedOut \in {"no", "asked", "idle"} /\ inTurn \in BOOLEAN

(* The dev login signs in again on the page of the session before, whose    *)
(* tracker and late refresh then still run.  The site never does.          *)
FirstOfItsPage == made <= 1

(* Nobody is signed out for inactivity who does not see the warning: the    *)
(* end timer of a rotated session is never the one of the session before.  *)
WarnedBeforeSignOut ==
  [][FirstOfItsPage /\ session # Nobody /\ idleOut' /\ ~idleOut => DialogShown]_sessionVars

(* The shell shows the resident, and counts down to the end, of the bearer  *)
(* the tab sends: whatever request of the tab comes back, and when.        *)
SessionIsTheStoredOne ==
  FirstOfItsPage /\ session # Nobody /\ times # NoTimes /\ stored # None =>
    /\ bearer[stored].who = session
    /\ times = TimesOf(stored)
    /\ \A t \in Tracker : tracker[t].listens => tracker[t].endAt <= times.until

(* After a sign-out, asked for or by inactivity, the tab holds no bearer    *)
(* the edge honours, no invitation, and nothing of the resident's.         *)
SignedOutLeavesNothing ==
  signedOut # "no" =>
    ~Honoured(stored) /\ ~secret /\ {account, rows, mandates} = {Nobody}

(* The same of requests that do not overlap (endIdle, forgetAccount).       *)
SignedOutLeavesNothingSerially == inTurn => SignedOutLeavesNothing

(* What the sign-out is for: "a sign-out that leaves a live token behind    *)
(* is the one failure mode that matters here".                             *)
SignOutLeavesNoLiveToken == signedOut = "asked" => ~Honoured(stored)

(* A tab left open is signed out in the end, and so is a busy one, at the   *)
(* cap: no refresh, lost, refused or answered, leaves it without a timer.  *)
OpenTabEnds == session # Nobody ~> session = Nobody

=============================================================================
