------------------------------ MODULE SiteProofs ------------------------------
(***************************************************************************)
(* Proofs about one tab of the site: its session, and its pages.            *)
(*                                                                         *)
(* The session, for any residents, bearers, timeouts and lost or late       *)
(* calls: on a page's first session only the current tracker runs; its      *)
(* timers count down to the end of the bearer the tab sends, which has not  *)
(* passed; and the answer it waits for is a bearer of the same resident     *)
(* that ends no earlier.  Where requests do not overlap, a session ends     *)
(* with none under way, so nothing can come back to it.                     *)
(*                                                                         *)
(* The pages, for any routes and publications: a patient visitor has one    *)
(* read under way, it is for the route, and when it has answered the screen *)
(* is the route's; then the editing context is; and after an editor left,   *)
(* every read is fresh.                                                    *)
(***************************************************************************)
EXTENDS SiteSession, SiteNavigation, TLAPS

Times == [until : Int, cap : Int]
TrackerState == [times : Times, warned : BOOLEAN, refreshed : Int, warnAt : Int, endAt : Int,
                 listens : BOOLEAN]
Calls == [phase : Phase, with : 0..minted, got : 0..minted]

EdgeTyped ==
  /\ minted \in 0..Bearers
  /\ bearer \in [Bearer -> [who : Resident \cup {Nobody}, until : Int, cap : Int]]

(* A bearer ends at its cap or one window from now, whichever is first.     *)
BearersSound ==
  \A b \in 1..minted :
    bearer[b].until <= bearer[b].cap /\ bearer[b].until <= now + IdleTimeout /\ bearer[b].cap > 0

TabTyped ==
  /\ now \in Nat /\ EdgeTyped
  /\ stored \in 0..minted
  /\ times \in Times /\ made \in Nat /\ current \in Tracker \cup {None}
  /\ tracker \in [Tracker -> TrackerState]
  /\ refresh \in [Tracker -> Calls] /\ narrow \in Calls

(* A page that had no session yet has no tracker at work.                   *)
Untouched ==
  made = 0 =>
    /\ session = Nobody /\ current = None
    /\ \A t \in Tracker : tracker[t] = Resting /\ refresh[t] = Quiet

Awaits(r) ==
  /\ r.phase # "no" => r.with = stored
  /\ r.phase = "sent" => r.got = None
  /\ r.phase = "answered" /\ r.got # None =>
       bearer[r.got].who = session /\ bearer[r.got].until >= times.until

CountsDown ==
  /\ current \in Tracker /\ stored # None
  /\ bearer[stored].who = session /\ times = TimesOf(stored)
  /\ now <= times.until /\ tracker[current].endAt = times.until
  /\ tracker[current].warnAt \in -1 .. times.until
  /\ tracker[current].warnAt = -1 => warning
  /\ Awaits(refresh[current])
  /\ \A t \in Tracker : t # current => tracker[t] = Resting /\ refresh[t] = Quiet

TabInv ==
  /\ TabTyped /\ BearersSound /\ Untouched
  /\ FirstOfItsPage /\ session # Nobody => CountsDown

-----------------------------------------------------------------------------
(* The edge mints bearers and changes none.                                *)
EdgeGrows ==
  /\ EdgeTyped' /\ BearersSound' /\ minted <= minted'
  /\ \A b \in 1..minted : bearer'[b] = bearer[b]

LEMMA Numbers ==
  /\ IdleTimeout \in Nat /\ WarningLead \in Nat /\ HardLife \in Nat \ {0}
  /\ Tracker \subseteq Nat \ {0} /\ None \notin Tracker /\ Bearer = 1..Bearers /\ Bearers \in Nat
<1>1. \A n \in Nat : n \div 5 \in Nat
  BY Z3
<1> QED BY <1>1, SiteSessionAssumption DEF WarningLead, Tracker, None, Bearer

LEMMA RestingTyped == Resting \in TrackerState /\ NoTimes \in Times
<1>1. NoTimes \in Times
  BY DEF NoTimes, Times
<1> QED BY <1>1 DEF Resting, TrackerState

LEMMA QuietTyped == ASSUME EdgeTyped PROVE Quiet \in Calls
BY Numbers DEF EdgeTyped, Quiet, Calls, Phase, None

LEMMA IssueGrows ==
  ASSUME TabInv, NEW who \in Resident \cup {Nobody}, NEW cap \in Int, cap > 0,
         Issue(who, cap), now' = now
  PROVE  /\ EdgeGrows /\ minted' = minted + 1
         /\ bearer'[minted'] = [who |-> who, until |-> Earlier(now + IdleTimeout, cap), cap |-> cap]
<1> DEFINE new == [who |-> who, until |-> Earlier(now + IdleTimeout, cap), cap |-> cap]
<1>1. /\ now \in Nat /\ minted \in 0..Bearers /\ minted < Bearers /\ minted' = minted + 1
      /\ bearer \in [Bearer -> [who : Resident \cup {Nobody}, until : Int, cap : Int]]
      /\ bearer' = [bearer EXCEPT ![minted + 1] = new]
  BY DEF TabInv, TabTyped, EdgeTyped, Issue
<1>2. new.until \in Int /\ new.until <= cap /\ new.until <= now + IdleTimeout
  BY <1>1, Numbers DEF Earlier
<1>3. new \in [who : Resident \cup {Nobody}, until : Int, cap : Int]
  BY <1>2
<1>4. minted' \in Bearer /\ minted' \in 0..Bearers
  BY <1>1, Numbers
<1>5. bearer' \in [Bearer -> [who : Resident \cup {Nobody}, until : Int, cap : Int]]
  BY <1>1, <1>3
<1>6. bearer'[minted'] = new /\ \A b \in 1..minted : bearer'[b] = bearer[b]
  BY <1>1, <1>4, Numbers
<1>7. BearersSound'
  <2> SUFFICES ASSUME NEW b \in 1..minted'
               PROVE  /\ bearer'[b].until <= bearer'[b].cap
                      /\ bearer'[b].until <= now + IdleTimeout /\ bearer'[b].cap > 0
    BY DEF BearersSound
  <2>1. CASE b = minted'
    BY <1>2, <1>6, <2>1
  <2>2. CASE b # minted'
    <3>1. b \in 1..minted
      BY <1>1, <2>2
    <3> QED BY <1>6, <3>1 DEF TabInv, BearersSound
  <2> QED BY <2>1, <2>2
<1> QED BY <1>1, <1>4, <1>5, <1>6, <1>7 DEF EdgeGrows, EdgeTyped

(* A rotated bearer is the same resident's and ends no earlier.             *)
LEMMA RotatedGrows ==
  ASSUME TabInv, NEW b \in 1..minted, Rotated(b), now' = now
  PROVE  /\ EdgeGrows /\ minted' = minted + 1
         /\ bearer'[minted'].who = bearer[b].who /\ bearer'[minted'].until >= bearer[b].until
<1>1. /\ bearer[b] \in [who : Resident \cup {Nobody}, until : Int, cap : Int]
      /\ now \in Nat
  BY Numbers DEF TabInv, TabTyped, EdgeTyped
<1>2. /\ bearer[b].until <= bearer[b].cap /\ bearer[b].until <= now + IdleTimeout
      /\ bearer[b].cap > 0
  BY DEF TabInv, BearersSound
<1>3. Issue(bearer[b].who, bearer[b].cap)
  BY DEF Rotated
<1>4. /\ EdgeGrows /\ minted' = minted + 1
      /\ bearer'[minted'] = [who |-> bearer[b].who,
                             until |-> Earlier(now + IdleTimeout, bearer[b].cap),
                             cap |-> bearer[b].cap]
  BY <1>1, <1>2, <1>3, IssueGrows
<1> QED BY <1>1, <1>2, <1>4, Numbers DEF Earlier

LEMMA SameEdge == ASSUME TabInv, UNCHANGED <<now, minted, bearer>> PROVE EdgeGrows
BY DEF TabInv, TabTyped, EdgeTyped, BearersSound, EdgeGrows

LEMMA CallsGrow == ASSUME TabInv, EdgeGrows PROVE Calls \subseteq Calls' /\ 0..minted \subseteq 0..minted'
<1>1. 0..minted \subseteq 0..minted'
  BY DEF TabInv, TabTyped, EdgeGrows, EdgeTyped
<1> QED BY <1>1 DEF Calls

-----------------------------------------------------------------------------
(* Whatever the edge does, a tab whose trackers, session and bearer stay as *)
(* they are keeps counting down.                                           *)
LEMMA EdgeKeepsTab ==
  ASSUME TabInv, EdgeGrows, narrow' \in Calls',
         UNCHANGED <<now, stored, session, times, warning, current, made, tracker, refresh>>
  PROVE  TabInv'
<1>1. TabTyped'
  BY CallsGrow DEF TabInv, TabTyped, EdgeGrows
<1>2. ASSUME CountsDown PROVE CountsDown'
  <2>1. stored \in 1..minted
    BY <1>2 DEF TabInv, TabTyped, CountsDown, None
  <2>2. bearer'[stored] = bearer[stored] /\ TimesOf(stored)' = TimesOf(stored)
    BY <2>1 DEF EdgeGrows, TimesOf
  <2>3. Awaits(refresh[current])'
    <3>1. refresh[current] \in Calls /\ Awaits(refresh[current])
      BY <1>2 DEF TabInv, TabTyped, CountsDown
    <3>2. refresh[current].got # None => refresh[current].got \in 1..minted
      BY <3>1 DEF Calls, None
    <3> QED BY <3>1, <3>2 DEF Awaits, EdgeGrows
  <2> QED BY <1>2, <2>2, <2>3 DEF CountsDown
<1>3. Untouched'
  BY DEF TabInv, Untouched
<1> QED BY <1>1, <1>2, <1>3 DEF TabInv, EdgeGrows, FirstOfItsPage

(* A page that shows nobody needs its types only, once it had a session.    *)
LEMMA NobodyKeepsTab ==
  ASSUME TabTyped', EdgeGrows, Untouched', session' = Nobody
  PROVE  TabInv'
BY DEF TabInv, EdgeGrows

(* A fresh document has no session yet.                                    *)
LEMMA FreshKeepsTab ==
  ASSUME TabInv, EdgeGrows, now' = now, stored' \in 0..minted', NEW next, FreshPage(next)
  PROVE  TabInv'
<1>1. EdgeTyped' /\ now \in Nat
  BY DEF EdgeGrows, TabInv, TabTyped
<1>2. Quiet \in Calls'
  BY <1>1, Numbers DEF EdgeTyped, Quiet, Calls, Phase, None
<1>3. /\ times' = NoTimes /\ made' = 0 /\ current' = None /\ session' = Nobody
      /\ tracker' = [t \in Tracker |-> Resting] /\ refresh' = [t \in Tracker |-> Quiet]
      /\ narrow' = Quiet
  BY DEF FreshPage
<1>4. TabTyped'
  BY <1>1, <1>2, <1>3, RestingTyped DEF TabTyped
<1>5. Untouched'
  BY <1>3 DEF Untouched
<1> QED BY <1>3, <1>4, <1>5, NobodyKeepsTab

LEMMA EdgeMayServeGrows == ASSUME TabInv, EdgeMayServe, now' = now PROVE EdgeGrows
<1>1. ASSUME NEW t \in Tracker, refresh[t].phase = "sent", Honoured(refresh[t].with),
             Rotated(refresh[t].with)
      PROVE  EdgeGrows
  <2>1. refresh[t].with \in 0..minted /\ refresh[t].with # None
    BY <1>1 DEF TabInv, TabTyped, Calls, Honoured
  <2>2. refresh[t].with \in 1..minted
    BY <2>1 DEF None
  <2> QED BY <1>1, <2>2, RotatedGrows
<1> QED BY <1>1, SameEdge DEF EdgeMayServe

LEMMA LeavingKeepsTab ==
  ASSUME TabInv, Reload \/ GoSignIn \/ ReturnRefused
  PROVE  TabInv'
<1>1. UNCHANGED <<now, stored>>
  BY DEF Reload, GoSignIn, ReturnRefused, edge, store
<1>2. EdgeGrows
  BY EdgeMayServeGrows, SameEdge DEF Reload, GoSignIn, ReturnRefused, edge
<1>3. stored' \in 0..minted'
  BY <1>1, <1>2, CallsGrow DEF TabInv, TabTyped
<1>4. \E next \in {"opening", "away"} : FreshPage(next)
  BY DEF Reload, GoSignIn, ReturnRefused
<1> QED BY <1>1, <1>2, <1>3, <1>4, FreshKeepsTab

LEMMA MintedGrows ==
  ASSUME TabInv, NEW r \in Resident, Minted(r), now' = now
  PROVE  EdgeGrows /\ stored' \in 0..minted'
<1>1. now + HardLife \in Int /\ now + HardLife > 0
  BY Numbers DEF TabInv, TabTyped
<1>2. EdgeGrows /\ minted' = minted + 1 /\ stored' = minted + 1
  BY <1>1, IssueGrows DEF Minted
<1> QED BY <1>2 DEF EdgeGrows, EdgeTyped

LEMMA ReturnSignedInKeepsTab ==
  ASSUME TabInv, NEW r \in Resident, ReturnSignedIn(r)
  PROVE  TabInv'
BY MintedGrows, FreshKeepsTab DEF ReturnSignedIn

LEMMA DevLoginKeepsTab == ASSUME TabInv, NEW r \in Resident, DevLogin(r) PROVE TabInv'
<1>1. EdgeGrows /\ stored' \in 0..minted'
  BY MintedGrows DEF DevLogin
<1>2. /\ session = Nobody
      /\ UNCHANGED <<now, session, times, current, made, tracker, refresh, narrow>>
  BY DEF DevLogin, idle, calls
<1>3. TabTyped'
  BY <1>1, <1>2, CallsGrow DEF TabInv, TabTyped, EdgeGrows
<1>4. Untouched'
  BY <1>2 DEF TabInv, Untouched
<1> QED BY <1>1, <1>2, <1>3, <1>4, NobodyKeepsTab

(* Requests and answers the countdown does not depend on.                   *)
LEMMA RequestsKeepTab ==
  ASSUME TabInv,
         \/ SignOut \/ SignOutServed \/ ChooseBranch \/ ClaimAnswered \/ LoadAccount
         \/ ListsAnswered \/ RowsAnswered \/ MandatesAnswered
  PROVE  TabInv'
<1>1. UNCHANGED <<now, minted, bearer, stored, session, times, warning, current, made, tracker, refresh>>
  BY DEF SignOut, SignOutServed, ChooseBranch, ClaimAnswered, LoadAccount, ListsAnswered,
         RowsAnswered, MandatesAnswered, edge, store, idle
<1>2. narrow' = narrow \/ narrow' = [Quiet EXCEPT !.phase = "sent", !.with = stored]
  BY DEF SignOut, SignOutServed, ChooseBranch, ClaimAnswered, LoadAccount, ListsAnswered,
         RowsAnswered, MandatesAnswered, calls
<1>3. EdgeGrows /\ Quiet \in Calls /\ stored \in 0..minted /\ narrow \in Calls
  BY <1>1, SameEdge, QuietTyped DEF TabInv, TabTyped
<1>4. narrow' \in Calls
  BY <1>2, <1>3 DEF Calls, Phase
<1> QED BY <1>1, <1>3, <1>4, EdgeKeepsTab, CallsGrow

LEMMA ChooseBranchServedKeepsTab == ASSUME TabInv, ChooseBranchServed PROVE TabInv'
<1>1. UNCHANGED <<now, stored, session, times, warning, current, made, tracker, refresh>>
  BY DEF ChooseBranchServed, store, idle
<1>2. narrow \in Calls /\ narrow.with \in 0..minted
  BY DEF TabInv, TabTyped, Calls
<1>3. CASE /\ Honoured(narrow.with) /\ Rotated(narrow.with)
           /\ narrow' = [narrow EXCEPT !.phase = "answered", !.got = minted + 1]
  <2>1. narrow.with \in 1..minted
    BY <1>2, <1>3 DEF Honoured, None
  <2>2. EdgeGrows /\ minted' = minted + 1
    BY <1>1, <1>3, <2>1, RotatedGrows
  <2>3. narrow \in Calls' /\ minted + 1 \in 0..minted'
    BY <1>2, <2>2, CallsGrow DEF TabInv, TabTyped, EdgeTyped
  <2>4. narrow' \in Calls'
    BY <1>3, <2>3 DEF Calls, Phase
  <2> QED BY <1>1, <2>2, <2>4, EdgeKeepsTab
<1>4. CASE /\ narrow' = [narrow EXCEPT !.phase = "answered"]
           /\ UNCHANGED <<minted, bearer, live>>
  <2>1. EdgeGrows
    BY <1>1, <1>4, SameEdge
  <2>2. narrow' \in Calls'
    BY <1>2, <1>4, <2>1, CallsGrow DEF Calls, Phase
  <2> QED BY <1>1, <2>1, <2>2, EdgeKeepsTab
<1> QED BY <1>3, <1>4 DEF ChooseBranchServed

LEMMA ChooseBranchTakenKeepsTab == ASSUME TabInv, ChooseBranchTaken PROVE TabInv'
<1>1. narrow \in Calls /\ EdgeTyped
  BY DEF TabInv, TabTyped
<1>2. CASE narrow.got = None
  <2>1. /\ UNCHANGED <<now, minted, bearer, stored, session, times, warning, current, made,
                       tracker, refresh>>
        /\ narrow' = Quiet
    BY <1>2 DEF ChooseBranchTaken, edge, idle
  <2>2. EdgeGrows /\ narrow' \in Calls'
    BY <1>1, <2>1, SameEdge, QuietTyped, CallsGrow
  <2> QED BY <2>1, <2>2, EdgeKeepsTab
<1>3. CASE narrow.got # None
  <2>1. stored' = narrow.got /\ FreshPage("opening") /\ now' = now /\ EdgeMayServe
    BY <1>3 DEF ChooseBranchTaken
  <2>2. EdgeGrows
    BY <2>1, EdgeMayServeGrows
  <2>3. stored' \in 0..minted'
    BY <1>1, <2>1, <2>2, CallsGrow DEF Calls
  <2> QED BY <2>1, <2>2, <2>3, FreshKeepsTab
<1> QED BY <1>2, <1>3

-----------------------------------------------------------------------------
(* The trackers.                                                           *)

(* The countdown is the current tracker's: another one is at rest.          *)
LEMMA TheCurrentOne ==
  ASSUME TabInv, FirstOfItsPage, NEW t \in Tracker, tracker[t] # Resting \/ refresh[t] # Quiet
  PROVE  made = 1 /\ (session # Nobody => t = current)
BY Numbers DEF TabInv, TabTyped, Untouched, CountsDown, FirstOfItsPage

LEMMA ExtendKeepsTab ==
  ASSUME TabInv, NEW t \in Tracker, Extend(t), tracker[t] # Resting \/ t = current,
         UNCHANGED <<edge, stored, session, idle, narrow>>
  PROVE  TabInv'
<1> DEFINE sent == [Quiet EXCEPT !.phase = "sent", !.with = stored]
<1>1. /\ UNCHANGED <<now, minted, bearer, stored, session, times, warning, current, made, tracker, narrow>>
      /\ refresh' = [refresh EXCEPT ![t] = sent] /\ stored # None
  BY DEF Extend, edge, idle
<1>2. sent \in Calls /\ sent.phase = "sent" /\ sent.with = stored /\ sent.got = None
  BY QuietTyped DEF TabInv, TabTyped, Calls, Phase, Quiet
<1> HIDE DEF sent
<1>3. TabTyped'
  BY <1>1, <1>2 DEF TabInv, TabTyped, EdgeTyped, Calls
<1>4. made # 0
  BY Numbers DEF TabInv, Untouched
<1>5. ASSUME FirstOfItsPage, session # Nobody PROVE CountsDown'
  <2>1. CountsDown /\ t = current
    BY <1>5, TheCurrentOne DEF TabInv
  <2>2. refresh'[t] = sent /\ \A u \in Tracker : u # t => refresh'[u] = refresh[u]
    BY <1>1 DEF TabInv, TabTyped
  <2>3. Awaits(refresh[current])'
    BY <1>1, <1>2, <2>1, <2>2 DEF Awaits
  <2>4. TimesOf(stored)' = TimesOf(stored)
    BY <1>1 DEF TimesOf
  <2>5. \A u \in Tracker : u # current' => tracker'[u] = Resting /\ refresh'[u] = Quiet
    BY <1>1, <2>1, <2>2 DEF CountsDown
  <2> QED BY <1>1, <2>1, <2>3, <2>4, <2>5 DEF CountsDown
<1>6. BearersSound' /\ Untouched'
  BY <1>1, <1>4 DEF TabInv, BearersSound, Untouched
<1> QED BY <1>1, <1>3, <1>5, <1>6 DEF TabInv, FirstOfItsPage

LEMMA ActivityKeepsTab ==
  ASSUME TabInv, NEW t \in Tracker, Activity(t) \/ (StaySignedIn /\ t = current)
  PROVE  TabInv'
<1>1. Extend(t) /\ UNCHANGED <<edge, stored, session, idle, narrow>>
  BY DEF Activity, StaySignedIn, store
<1>2. tracker[t] # Resting \/ t = current
  BY DEF Activity, Resting
<1> QED BY <1>1, <1>2, ExtendKeepsTab

LEMMA RefreshServedKeepsTab ==
  ASSUME TabInv, NEW t \in Tracker, RefreshServed(t)
  PROVE  TabInv'
<1> DEFINE b == refresh[t].with
<1>1. /\ UNCHANGED <<now, stored, session, times, warning, current, made, tracker, narrow>>
      /\ refresh[t] \in Calls /\ refresh[t].phase = "sent"
  BY DEF TabInv, TabTyped, RefreshServed, store, idle
<1>2. PICK got :
        /\ refresh' = [refresh EXCEPT ![t] = [refresh[t] EXCEPT !.phase = "answered", !.got = got]]
        /\ \/ /\ b # None /\ Rotated(b) /\ got \in {minted + 1, None}
           \/ got = refresh[t].got /\ UNCHANGED <<minted, bearer>>
  <2>1. CASE /\ Honoured(b) /\ now < bearer[b].cap /\ Rotated(b)
             /\ \E got \in {minted + 1, None} :
                  refresh' = [refresh EXCEPT ![t].phase = "answered", ![t].got = got]
    <3>1. PICK got \in {minted + 1, None} :
            refresh' = [refresh EXCEPT ![t].phase = "answered", ![t].got = got]
      BY <2>1
    <3>2. refresh' = [refresh EXCEPT ![t] = [refresh[t] EXCEPT !.phase = "answered", !.got = got]]
      BY <1>1, <3>1 DEF TabInv, TabTyped
    <3> QED BY <2>1, <3>1, <3>2 DEF Honoured
  <2>2. CASE /\ refresh' = [refresh EXCEPT ![t].phase = "answered"]
             /\ UNCHANGED <<minted, bearer, live>>
    <3>1. [refresh[t] EXCEPT !.phase = "answered"]
            = [refresh[t] EXCEPT !.phase = "answered", !.got = refresh[t].got]
      BY <1>1 DEF Calls
    <3> QED BY <2>2, <3>1
  <2> QED BY <2>1, <2>2 DEF RefreshServed
<1> DEFINE answer == [refresh[t] EXCEPT !.phase = "answered", !.got = got]
<1>3. /\ EdgeGrows /\ got \in 0..minted'
      /\ got # None => \/ got = refresh[t].got
                       \/ /\ b # None /\ bearer'[got].who = bearer[b].who
                          /\ bearer'[got].until >= bearer[b].until
  <2>1. CASE b # None /\ Rotated(b) /\ got \in {minted + 1, None}
    <3>1. b \in 1..minted
      BY <1>1, <2>1 DEF Calls, None
    <3>2. /\ EdgeGrows /\ minted' = minted + 1
          /\ bearer'[minted'].who = bearer[b].who /\ bearer'[minted'].until >= bearer[b].until
      BY <1>1, <2>1, <3>1, RotatedGrows
    <3>3. got \in 0..minted'
      BY <2>1, <3>2 DEF TabInv, TabTyped, EdgeTyped, None
    <3> QED BY <2>1, <3>2, <3>3
  <2>2. CASE got = refresh[t].got /\ UNCHANGED <<minted, bearer>>
    BY <1>1, <2>2, SameEdge DEF Calls
  <2> QED BY <1>2, <2>1, <2>2
<1>4. refresh[t] \in Calls' /\ answer \in Calls' /\ answer.with = b /\ answer.got = got
      /\ answer.phase = "answered"
  <2>1. refresh[t] \in Calls'
    BY <1>1, <1>3, CallsGrow
  <2> QED BY <1>3, <2>1 DEF Calls, Phase
<1>5. refresh'[t] = answer /\ \A u \in Tracker : u # t => refresh'[u] = refresh[u]
  BY <1>2 DEF TabInv, TabTyped
<1> HIDE DEF answer
<1>6. TabTyped'
  <2>1. refresh' = [refresh EXCEPT ![t] = answer]
    BY <1>2 DEF answer
  <2>2. refresh \in [Tracker -> Calls'] /\ narrow \in Calls' /\ stored \in 0..minted'
    BY <1>3, CallsGrow DEF TabInv, TabTyped
  <2>3. refresh' \in [Tracker -> Calls']
    BY <1>4, <2>1, <2>2
  <2> QED BY <1>1, <1>3, <2>2, <2>3 DEF TabInv, TabTyped, EdgeGrows
<1>7. refresh[t] # Quiet
  BY <1>1 DEF Quiet
<1>8. ASSUME FirstOfItsPage, session # Nobody PROVE CountsDown'
  <2>1. CountsDown /\ t = current
    BY <1>7, <1>8, TheCurrentOne DEF TabInv
  <2>2. stored \in 1..minted /\ b = stored
    BY <1>1, <2>1 DEF TabInv, TabTyped, CountsDown, Awaits, None
  <2>3. bearer'[stored] = bearer[stored] /\ TimesOf(stored)' = TimesOf(stored)
    BY <1>1, <1>3, <2>2 DEF EdgeGrows, TimesOf
  <2>4. times.until = bearer[b].until /\ bearer[b].who = session
    BY <2>1, <2>2 DEF CountsDown, TimesOf
  <2>5. got # None => bearer'[got].who = session /\ bearer'[got].until >= times.until
    <3>1. refresh[t].got = None
      BY <1>1, <2>1 DEF CountsDown, Awaits
    <3> QED BY <1>3, <2>4, <3>1
  <2>6. Awaits(refresh[current])'
    BY <1>1, <1>4, <1>5, <2>1, <2>2, <2>5 DEF Awaits
  <2> QED BY <1>1, <1>5, <2>1, <2>3, <2>6 DEF CountsDown
<1>9. Untouched'
  BY <1>1, <1>7, TheCurrentOne DEF TabInv, Untouched
<1> QED BY <1>1, <1>3, <1>6, <1>8, <1>9 DEF TabInv, EdgeGrows, FirstOfItsPage

(* Timers set anew: the warning comes no later than the end.                *)
LEMMA ScheduledTyped ==
  ASSUME now \in Nat, NEW k \in TrackerState, NEW given \in Times
  PROVE  LET j == Scheduled(k, given) IN
         /\ j \in TrackerState /\ j.warnAt >= 0 /\ j.endAt \in Nat
         /\ now <= given.until => j.endAt = given.until /\ j.warnAt \in -1 .. given.until
<1> DEFINE warn == Later(now, given.until - WarningLead)
           end == Later(now, given.until)
<1>1. given.until \in Int /\ WarningLead \in Nat
  BY Numbers DEF Times
<1>2. warn \in Nat /\ end \in Nat
  BY <1>1 DEF Later
<1>3. now <= given.until => end = given.until /\ warn <= given.until
  BY <1>1 DEF Later
<1> HIDE DEF warn, end
<1> DEFINE j == Scheduled(k, given)
<1>4. j = [k EXCEPT !.times = given, !.warned = FALSE, !.warnAt = warn, !.endAt = end]
  BY DEF Scheduled, warn, end
<1> HIDE DEF j
<1>6. warn \in Int /\ end \in Int
  BY <1>2
<1>5. j \in TrackerState /\ j.warnAt = warn /\ j.endAt = end
  BY <1>4, <1>6 DEF TrackerState
<1> USE DEF j
<1> QED BY <1>2, <1>3, <1>5, <1>1

LEMMA StoppedTyped == ASSUME TabTyped PROVE StopCurrent \in [Tracker -> TrackerState]
<1>1. ASSUME NEW k \in TrackerState PROVE Stopped(k) \in TrackerState
  <2>1. Stopped(k) = [k EXCEPT !.times = NoTimes, !.warnAt = -1, !.endAt = -1, !.listens = FALSE]
    BY DEF Stopped
  <2>2. NoTimes \in Times /\ -1 \in Int
    BY RestingTyped
  <2> QED BY <2>1, <2>2 DEF TrackerState
<1> QED BY <1>1 DEF StopCurrent, TabTyped

LEMMA RefreshTakenKeepsTab ==
  ASSUME TabInv, NEW t \in Tracker, RefreshTaken(t)
  PROVE  TabInv'
<1> DEFINE b == refresh[t].got
<1>1. /\ UNCHANGED <<now, minted, bearer, session, current, made, narrow>>
      /\ refresh' = [refresh EXCEPT ![t] = Quiet] /\ refresh[t].phase = "answered"
      /\ refresh[t] \in Calls
  BY DEF TabInv, TabTyped, RefreshTaken, edge
<1>2. EdgeTyped /\ now \in Nat /\ Quiet \in Calls /\ tracker[t] \in TrackerState
  BY QuietTyped DEF TabInv, TabTyped
<1>3. refresh[t] # Quiet
  BY <1>1 DEF Quiet
<1>4. refresh' \in [Tracker -> Calls] /\ refresh'[t] = Quiet
      /\ \A u \in Tracker : u # t => refresh'[u] = refresh[u]
  BY <1>1, <1>2 DEF TabInv, TabTyped
<1>5. Untouched' /\ BearersSound'
  BY <1>1, <1>3, TheCurrentOne DEF TabInv, Untouched, BearersSound
<1>6. CASE b = None
  <2>1. UNCHANGED <<stored, tracker, times, warning>>
    BY <1>6 DEF RefreshTaken
  <2>2. TabTyped'
    BY <1>1, <1>2, <1>4, <2>1 DEF TabInv, TabTyped, EdgeTyped, Calls
  <2>3. ASSUME FirstOfItsPage, session # Nobody PROVE CountsDown'
    <3>1. CountsDown /\ t = current
      BY <1>3, <2>3, TheCurrentOne DEF TabInv
    <3>2. Awaits(refresh[current])'
      BY <1>1, <1>4, <3>1 DEF Awaits, Quiet
    <3>3. TimesOf(stored)' = TimesOf(stored)
      BY <1>1, <2>1 DEF TimesOf
    <3> QED BY <1>1, <1>4, <2>1, <3>1, <3>2, <3>3 DEF CountsDown
  <2> QED BY <1>1, <1>5, <2>2, <2>3 DEF TabInv, FirstOfItsPage
<1>7. CASE b # None
  <2> DEFINE k == [Scheduled(tracker[t], TimesOf(b)) EXCEPT !.refreshed = now]
  <2>1. /\ stored' = b /\ times' = TimesOf(b) /\ warning' = FALSE
        /\ tracker' = [tracker EXCEPT ![t] = k]
    BY <1>7 DEF RefreshTaken, TabInv, TabTyped
  <2>2. b \in 1..minted /\ TimesOf(b) \in Times /\ TimesOf(b).until = bearer[b].until
    <3>1. b \in 1..minted
      BY <1>1, <1>7 DEF Calls, None
    <3>2. bearer[b] \in [who : Resident \cup {Nobody}, until : Int, cap : Int]
      BY <1>2, <3>1, Numbers DEF EdgeTyped
    <3> QED BY <3>1, <3>2 DEF TimesOf, Times
  <2>3. /\ k \in TrackerState /\ k.warnAt >= 0
        /\ now <= bearer[b].until => /\ k.endAt = bearer[b].until
                                    /\ k.warnAt \in -1 .. bearer[b].until
    <3> DEFINE j == Scheduled(tracker[t], TimesOf(b))
    <3>1. /\ j \in TrackerState /\ j.warnAt >= 0
          /\ now <= bearer[b].until => /\ j.endAt = bearer[b].until
                                      /\ j.warnAt \in -1 .. bearer[b].until
      BY <1>2, <2>2, ScheduledTyped
    <3> HIDE DEF j
    <3>2. k = [j EXCEPT !.refreshed = now]
      BY DEF j
    <3> QED BY <1>2, <3>1, <3>2 DEF TrackerState
  <2> HIDE DEF k
  <2>4. tracker' \in [Tracker -> TrackerState] /\ tracker'[t] = k
        /\ \A u \in Tracker : u # t => tracker'[u] = tracker[u]
    BY <2>1, <2>3 DEF TabInv, TabTyped
  <2>5. TabTyped'
    BY <1>1, <1>2, <1>4, <2>1, <2>2, <2>4 DEF TabInv, TabTyped, EdgeTyped, Calls
  <2>6. ASSUME FirstOfItsPage, session # Nobody PROVE CountsDown'
    <3>1. CountsDown /\ t = current
      BY <1>3, <2>6, TheCurrentOne DEF TabInv
    <3>2. bearer[b].who = session /\ now <= bearer[b].until
      <4>1. bearer[b].who = session /\ bearer[b].until >= times.until /\ now <= times.until
        BY <1>1, <1>7, <3>1 DEF CountsDown, Awaits
      <4>2. times.until \in Int /\ bearer[b].until \in Int
        BY <2>2 DEF TabInv, TabTyped, Times
      <4> QED BY <1>2, <4>1, <4>2
    <3>3. Awaits(refresh[current])'
      BY <1>1, <1>4, <3>1 DEF Awaits, Quiet
    <3>4. TimesOf(stored)' = TimesOf(b)
      BY <1>1, <2>1 DEF TimesOf
    <3>5. /\ tracker'[current'].endAt = times'.until
          /\ tracker'[current'].warnAt \in -1 .. times'.until /\ tracker'[current'].warnAt # -1
      BY <1>1, <2>1, <2>2, <2>3, <2>4, <3>1, <3>2
    <3>6. \A u \in Tracker : u # current' => tracker'[u] = Resting /\ refresh'[u] = Quiet
      BY <1>1, <1>4, <2>4, <3>1 DEF CountsDown
    <3> QED BY <1>1, <1>7, <2>1, <2>2, <3>1, <3>2, <3>3, <3>4, <3>5, <3>6 DEF CountsDown
  <2> QED BY <1>1, <1>5, <2>5, <2>6 DEF TabInv, FirstOfItsPage
<1> QED BY <1>6, <1>7

LEMMA WarnTimerKeepsTab ==
  ASSUME TabInv, NEW t \in Tracker, WarnTimer(t)
  PROVE  TabInv'
<1>1. /\ UNCHANGED <<now, minted, bearer, stored, session, times, current, made, refresh, narrow>>
      /\ warning' = TRUE /\ tracker[t].warnAt >= 0
      /\ tracker' = [tracker EXCEPT ![t] = [tracker[t] EXCEPT !.warnAt = -1, !.warned = TRUE]]
  BY DEF WarnTimer, edge, store, calls, TabInv, TabTyped
<1>2. tracker[t] \in TrackerState
  BY DEF TabInv, TabTyped
<1>3. tracker[t] # Resting
  BY <1>1 DEF Resting
<1> DEFINE k == [tracker[t] EXCEPT !.warnAt = -1, !.warned = TRUE]
<1>8. k \in TrackerState /\ k.warnAt = -1 /\ k.endAt = tracker[t].endAt
  <2>1. -1 \in Int
    OBVIOUS
  <2>2. ASSUME NEW j \in TrackerState
        PROVE  LET i == [j EXCEPT !.warnAt = -1, !.warned = TRUE] IN
               i \in TrackerState /\ i.warnAt = -1 /\ i.endAt = j.endAt
    BY <2>1 DEF TrackerState
  <2> QED BY <1>2, <2>2
<1> HIDE DEF k
<1>9. tracker' = [tracker EXCEPT ![t] = k]
  BY <1>1 DEF k
<1>4. /\ tracker' \in [Tracker -> TrackerState]
      /\ tracker'[t].warnAt = -1 /\ tracker'[t].endAt = tracker[t].endAt
      /\ \A u \in Tracker : u # t => tracker'[u] = tracker[u]
  BY <1>8, <1>9 DEF TabInv, TabTyped
<1>5. TabTyped'
  BY <1>1, <1>4 DEF TabInv, TabTyped, EdgeTyped, Calls
<1>6. Untouched' /\ BearersSound'
  BY <1>1, <1>3, TheCurrentOne DEF TabInv, Untouched, BearersSound
<1>7. ASSUME FirstOfItsPage, session # Nobody PROVE CountsDown'
  <2>1. CountsDown /\ t = current
    BY <1>3, <1>7, TheCurrentOne DEF TabInv
  <2>2. Awaits(refresh[current])' /\ TimesOf(stored)' = TimesOf(stored)
    BY <1>1, <2>1 DEF CountsDown, Awaits, TimesOf
  <2>3. times.until \in Int /\ now \in Nat
    BY DEF TabInv, TabTyped, Times
  <2>4. -1 \in -1 .. times.until
    BY <2>1, <2>3 DEF CountsDown
  <2> QED BY <1>1, <1>4, <2>1, <2>2, <2>4 DEF CountsDown
<1> QED BY <1>1, <1>5, <1>6, <1>7 DEF TabInv, FirstOfItsPage

(* A session that ends leaves nobody on the page.                           *)
LEMMA EndHereKeepsTab ==
  ASSUME TabInv, NEW how, EndHere(how), UNCHANGED <<edge, made, refresh, narrow>>,
         tracker' \in [Tracker -> TrackerState],
         made = 0 => tracker' = tracker
  PROVE  TabInv'
<1>1. /\ stored' = None /\ current' = None /\ times' = NoTimes /\ session' = Nobody
      /\ UNCHANGED <<now, minted, bearer>>
  BY DEF EndHere, edge
<1>2. EdgeGrows
  BY <1>1, SameEdge
<1>3. TabTyped'
  BY <1>1, RestingTyped, Numbers DEF TabInv, TabTyped, EdgeTyped, Calls, None
<1>4. Untouched'
  BY <1>1 DEF TabInv, Untouched
<1> QED BY <1>1, <1>2, <1>3, <1>4, NobodyKeepsTab

LEMMA SignOutTakenKeepsTab == ASSUME TabInv, SignOutTaken PROVE TabInv'
<1>1. EndHere("asked") /\ tracker' = StopCurrent /\ UNCHANGED <<edge, made, refresh, narrow>>
  BY DEF SignOutTaken
<1>2. made = 0 => tracker' = tracker
  <2>1. made = 0 => \A t \in Tracker : t # current
    BY Numbers DEF TabInv, Untouched
  <2> QED BY <1>1, <2>1 DEF StopCurrent, TabInv, TabTyped
<1> QED BY <1>1, <1>2, StoppedTyped, EndHereKeepsTab DEF TabInv

LEMMA EndTimerKeepsTab == ASSUME TabInv, NEW t \in Tracker, EndTimer(t) PROVE TabInv'
<1>1. EndHere("idle") /\ UNCHANGED <<edge, made, refresh, narrow>>
  BY DEF EndTimer, calls
<1>2. tracker[t] # Resting
  BY DEF EndTimer, Resting
<1>3. made # 0
  BY <1>2 DEF TabInv, Untouched
<1>4. tracker' \in [Tracker -> TrackerState]
  <2>1. tracker' = [StopCurrent EXCEPT ![t] = [StopCurrent[t] EXCEPT !.endAt = -1]]
    BY StoppedTyped DEF EndTimer, TabInv
  <2>2. StopCurrent \in [Tracker -> TrackerState]
    BY StoppedTyped DEF TabInv
  <2> HIDE DEF StopCurrent
  <2>3. [StopCurrent[t] EXCEPT !.endAt = -1] \in TrackerState
    BY <2>2 DEF TrackerState
  <2> QED BY <2>1, <2>2, <2>3
<1> QED BY <1>1, <1>3, <1>4, EndHereKeepsTab

(* The session that was just read: its tracker counts down to the end of    *)
(* the bearer that was read with, which the edge honoured.                  *)
LEMMA WatchKeepsTab ==
  ASSUME TabInv, NEW b \in {stored, None}, Watch(b),
         UNCHANGED <<edge, stored, warning, refresh, narrow>>
  PROVE  TabInv'
<1>1. UNCHANGED <<now, minted, bearer>> /\ session' = Whose(b)
  BY DEF edge, Watch
<1>2. EdgeGrows
  BY <1>1, SameEdge
<1>3. CASE Whose(b) = Nobody
  <2>1. tracker' = StopCurrent /\ UNCHANGED <<times, current, made>> /\ session' = Nobody
    BY <1>1, <1>3 DEF Watch
  <2>2. TabTyped'
    BY <1>1, <2>1, StoppedTyped DEF TabInv, TabTyped, EdgeTyped, Calls
  <2>3. Untouched'
    <3> SUFFICES ASSUME made = 0 PROVE tracker' = tracker
      BY <2>1 DEF TabInv, Untouched
    <3>1. \A t \in Tracker : t # current
      BY Numbers DEF TabInv, Untouched
    <3> QED BY <2>1, <3>1 DEF StopCurrent, TabInv, TabTyped
  <2> QED BY <1>2, <2>1, <2>2, <2>3, NobodyKeepsTab
<1>4. CASE Whose(b) # Nobody
  <2> DEFINE new == made + 1
             k == Started(TimesOf(b))
  <2>1. /\ made < Trackers /\ made' = new /\ current' = new /\ times' = TimesOf(b)
        /\ tracker' = [StopCurrent EXCEPT ![new] = k]
    BY <1>4 DEF Watch
  <2>2. Honoured(b) /\ Whose(b) = bearer[b].who
    BY <1>4 DEF Whose
  <2>3. b = stored /\ b \in 1..minted /\ now <= bearer[b].until
    BY <2>2 DEF Honoured, None, TabInv, TabTyped
  <2>4. TimesOf(b) \in Times /\ TimesOf(b).until = bearer[b].until
    <3>1. bearer[b] \in [who : Resident \cup {Nobody}, until : Int, cap : Int]
      BY <2>3, Numbers DEF TabInv, TabTyped, EdgeTyped
    <3> QED BY <3>1 DEF TimesOf, Times
  <2>5. new \in Tracker /\ new \in Nat /\ new # 0
    BY <2>1, SiteSessionAssumption DEF TabInv, TabTyped, Tracker
  <2>6. /\ k \in TrackerState /\ k.warnAt >= 0 /\ k.endAt = bearer[b].until
        /\ k.warnAt \in -1 .. bearer[b].until
    <3> DEFINE j == Scheduled(Resting, TimesOf(b))
    <3>1. now \in Nat
      BY DEF TabInv, TabTyped
    <3>2. /\ j \in TrackerState /\ j.warnAt >= 0 /\ j.endAt = bearer[b].until
          /\ j.warnAt \in -1 .. bearer[b].until
      BY <2>3, <2>4, <3>1, RestingTyped, ScheduledTyped
    <3> HIDE DEF j
    <3>3. k = [j EXCEPT !.refreshed = now, !.listens = TRUE]
      BY DEF Started, j
    <3>4. now \in Int /\ TRUE \in BOOLEAN
      BY <3>1
    <3> HIDE DEF k
    <3>5. k \in TrackerState
      BY <3>2, <3>3, <3>4 DEF TrackerState
    <3>6. k.warnAt = j.warnAt /\ k.endAt = j.endAt
      BY <3>2, <3>3 DEF TrackerState
    <3> QED BY <3>2, <3>5, <3>6
  <2> HIDE DEF k, new
  <2>7. /\ tracker' \in [Tracker -> TrackerState] /\ tracker'[new] = k
        /\ \A t \in Tracker : t # new => tracker'[t] = StopCurrent[t]
    <3>1. StopCurrent \in [Tracker -> TrackerState]
      BY StoppedTyped DEF TabInv
    <3> HIDE DEF StopCurrent
    <3> QED BY <2>1, <2>5, <2>6, <3>1
  <2>8. TabTyped'
    BY <1>1, <2>1, <2>4, <2>5, <2>7 DEF TabInv, TabTyped, EdgeTyped, Calls
  <2>9. ASSUME FirstOfItsPage' PROVE CountsDown'
    <3>1. made = 0
      BY <2>1, <2>9 DEF FirstOfItsPage, new, TabInv, TabTyped
    <3>2. current = None /\ \A t \in Tracker : tracker[t] = Resting /\ refresh[t] = Quiet
      BY <3>1 DEF TabInv, Untouched
    <3>3. \A t \in Tracker : t # new => tracker'[t] = Resting /\ refresh'[t] = Quiet
      BY <2>7, <3>2, Numbers DEF StopCurrent
    <3>4. Awaits(refresh[current])'
      BY <2>1, <2>5, <3>2 DEF Awaits, Quiet
    <3>5. TimesOf(stored)' = TimesOf(b) /\ stored' = b /\ session' = bearer[b].who /\ b # None
      BY <1>1, <2>2, <2>3, Numbers DEF TimesOf, None, TabInv, TabTyped, EdgeTyped
    <3>6. tracker'[current'].warnAt # -1
      BY <2>1, <2>6, <2>7
    <3> QED BY <1>1, <2>1, <2>3, <2>4, <2>5, <2>6, <2>7, <3>3, <3>4, <3>5, <3>6 DEF CountsDown
  <2>10. Untouched' /\ BearersSound'
    BY <1>1, <2>1, <2>5 DEF TabInv, BearersSound, Untouched
  <2> QED BY <2>8, <2>9, <2>10 DEF TabInv
<1> QED BY <1>3, <1>4

LEMMA SessionReadKeepsTab == ASSUME TabInv, SessionRead \/ DevSessionRead PROVE TabInv'
<1>1. PICK b \in {stored, None} : Watch(b)
  BY DEF SessionRead, DevSessionRead
<1>2. UNCHANGED <<edge, stored, warning, refresh, narrow>>
  BY DEF SessionRead, DevSessionRead, store
<1> QED BY <1>1, <1>2, WatchKeepsTab

(* Time passes no timer that is due, so not the end that is counted down to. *)
LEMMA TickKeepsTab == ASSUME TabInv, Tick PROVE TabInv'
<1>1. /\ now' = now + 1
      /\ UNCHANGED <<minted, bearer, stored, session, times, warning, current, made, tracker,
                     refresh, narrow>>
  BY DEF Tick, store, idle, calls
<1>2. now \in Nat /\ IdleTimeout \in Nat
  BY Numbers DEF TabInv, TabTyped
<1>3. TabTyped'
  BY <1>1, <1>2 DEF TabInv, TabTyped, EdgeTyped, Calls
<1>4. BearersSound'
  <2> SUFFICES ASSUME NEW b \in 1..minted
               PROVE  /\ bearer[b].until <= bearer[b].cap
                      /\ bearer[b].until <= now + 1 + IdleTimeout /\ bearer[b].cap > 0
    BY <1>1 DEF BearersSound
  <2>1. bearer[b].until \in Int
    BY Numbers DEF TabInv, TabTyped, EdgeTyped
  <2> QED BY <1>2, <2>1 DEF TabInv, BearersSound
<1>5. ASSUME FirstOfItsPage, session # Nobody PROVE CountsDown'
  <2>1. CountsDown
    BY <1>5 DEF TabInv
  <2>2. tracker[current].endAt >= 0 => tracker[current].endAt > now
    BY <2>1 DEF CountsDown, Tick
  <2>3. tracker[current].endAt = times.until /\ now <= times.until /\ times.until \in Int
    BY <2>1 DEF CountsDown, TabInv, TabTyped, Times
  <2>4. now' <= times.until
    BY <1>1, <1>2, <2>2, <2>3
  <2>5. Awaits(refresh[current])' /\ TimesOf(stored)' = TimesOf(stored)
    BY <1>1, <2>1 DEF CountsDown, Awaits, TimesOf
  <2> QED BY <1>1, <2>1, <2>4, <2>5 DEF CountsDown
<1>6. Untouched'
  BY <1>1 DEF TabInv, Untouched
<1> QED BY <1>1, <1>3, <1>4, <1>5, <1>6 DEF TabInv, FirstOfItsPage

LEMMA TabInitInv == TabInit => TabInv
<1> SUFFICES ASSUME TabInit PROVE TabInv
  OBVIOUS
<1>1. EdgeTyped /\ now \in Nat /\ minted = 0
  BY Numbers DEF TabInit, EdgeTyped
<1>2. Quiet \in Calls
  BY <1>1, QuietTyped
<1>3. TabTyped
  BY <1>1, <1>2, RestingTyped DEF TabInit, TabTyped, None
<1>4. BearersSound /\ Untouched
  BY <1>1 DEF TabInit, BearersSound, Untouched
<1> QED BY <1>3, <1>4 DEF TabInv, TabInit

LEMMA TabStepInv == TabInv /\ [TabNext]_sessionVars => TabInv'
<1> SUFFICES ASSUME TabInv, [TabNext]_sessionVars PROVE TabInv'
  OBVIOUS
<1>1. ASSUME NEW t \in Tracker, Activity(t) PROVE TabInv'
  BY <1>1, ActivityKeepsTab
<1>2. CASE StaySignedIn
  <2>1. current \in Tracker
    BY <1>2 DEF StaySignedIn, TabInv, TabTyped
  <2> QED BY <1>2, <2>1, ActivityKeepsTab
<1>3. ASSUME NEW t \in Tracker,
             RefreshServed(t) \/ RefreshTaken(t) \/ WarnTimer(t) \/ EndTimer(t)
      PROVE  TabInv'
  BY <1>3, RefreshServedKeepsTab, RefreshTakenKeepsTab, WarnTimerKeepsTab, EndTimerKeepsTab
<1>4. CASE \/ SignOut \/ SignOutServed \/ ChooseBranch \/ ClaimAnswered \/ LoadAccount
           \/ ListsAnswered \/ RowsAnswered \/ MandatesAnswered
  BY <1>4, RequestsKeepTab
<1>5. CASE SignOutTaken
  BY <1>5, SignOutTakenKeepsTab
<1>6. CASE ChooseBranchServed \/ ChooseBranchTaken
  BY <1>6, ChooseBranchServedKeepsTab, ChooseBranchTakenKeepsTab
<1>7. CASE Reload \/ GoSignIn \/ ReturnRefused
  BY <1>7, LeavingKeepsTab
<1>8. CASE SessionRead \/ DevSessionRead
  BY <1>8, SessionReadKeepsTab
<1>9. ASSUME NEW r \in Resident, ReturnSignedIn(r) \/ DevLogin(r) PROVE TabInv'
  BY <1>9, ReturnSignedInKeepsTab, DevLoginKeepsTab
<1>10. CASE Tick
  BY <1>10, TickKeepsTab
<1>11. CASE UNCHANGED sessionVars
  <2>1. UNCHANGED <<now, minted, bearer, stored, session, times, warning, current, made, tracker,
                    refresh, narrow>>
    BY <1>11 DEF sessionVars, edge, store, idle, calls
  <2>2. EdgeGrows /\ narrow' \in Calls'
    BY <2>1, SameEdge, CallsGrow DEF TabInv, TabTyped
  <2> QED BY <2>1, <2>2, EdgeKeepsTab
<1> QED
  BY <1>1, <1>2, <1>3, <1>4, <1>5, <1>6, <1>7, <1>8, <1>9, <1>10, <1>11
     DEF TabNext, Begins, GoesOn

(* The shell shows the resident of the bearer the tab sends, and counts     *)
(* down to its end, whatever request comes back and when.                   *)
THEOREM TheSessionShownIsTheStoredOne == TabSpec => []SessionIsTheStoredOne
<1>1. TabInv => SessionIsTheStoredOne
  <2> SUFFICES ASSUME TabInv, FirstOfItsPage, session # Nobody
               PROVE  /\ bearer[stored].who = session /\ times = TimesOf(stored)
                      /\ \A t \in Tracker : tracker[t].listens => tracker[t].endAt <= times.until
    BY DEF SessionIsTheStoredOne
  <2>1. CountsDown
    BY DEF TabInv
  <2>2. ASSUME NEW t \in Tracker, tracker[t].listens PROVE tracker[t].endAt <= times.until
    <3>1. t = current
      BY <2>1, <2>2 DEF CountsDown, Resting
    <3>2. times.until \in Int
      BY DEF TabInv, TabTyped, Times
    <3> QED BY <2>1, <3>1, <3>2 DEF CountsDown
  <2> QED BY <2>1, <2>2 DEF CountsDown
<1> QED BY <1>1, TabInitInv, TabStepInv, PTL DEF TabSpec

(* Nobody is signed out for inactivity who is not shown the warning: only   *)
(* a tracker's end timer does that, it is the current one's, and its        *)
(* warning's timer came first.                                             *)
THEOREM NobodyIsSignedOutUnwarned == TabSpec => WarnedBeforeSignOut
<1>1. TabInv /\ [TabNext]_sessionVars
        => [FirstOfItsPage /\ session # Nobody /\ idleOut' /\ ~idleOut => DialogShown]_sessionVars
  <2> SUFFICES ASSUME TabInv, TabNext, FirstOfItsPage, session # Nobody, idleOut', ~idleOut
               PROVE  DialogShown
    BY DEF sessionVars, idle
  <2>1. PICK t \in Tracker : EndTimer(t)
    <3>1. FreshPage("opening") \/ FreshPage("away") => ~idleOut'
      BY DEF FreshPage
    <3>2. \A b : Watch(b) => idleOut' = idleOut \/ idleOut' = FALSE
      BY DEF Watch
    <3> QED BY <3>1, <3>2 DEF TabNext, Begins, GoesOn, Activity, StaySignedIn, RefreshServed, RefreshTaken, WarnTimer,
         SignOut, SignOutServed, SignOutTaken, ChooseBranch, ChooseBranchServed, ChooseBranchTaken,
         Reload, GoSignIn, ReturnRefused, ReturnSignedIn, SessionRead, ClaimAnswered, DevSessionRead,
         DevLogin, LoadAccount, ListsAnswered, RowsAnswered, MandatesAnswered, Tick, idle
  <2>2. tracker[t] # Resting
    BY <2>1 DEF EndTimer, Resting
  <2>3. CountsDown /\ t = current
    BY <2>2, TheCurrentOne DEF TabInv
  <2>4. times.until \in Int /\ tracker[t].warnAt \in -1 .. times.until
        /\ tracker[t].endAt = times.until
    BY <2>3 DEF CountsDown, TabInv, TabTyped, Times
  <2>5. tracker[t].warnAt = -1
    BY <2>1, <2>4 DEF EndTimer
  <2>6. times # NoTimes
    <3>1. stored \in 1..minted /\ times = TimesOf(stored)
      BY <2>3 DEF CountsDown, TabInv, TabTyped, None
    <3>2. bearer[stored].cap > 0 /\ times.cap = bearer[stored].cap
      BY <3>1 DEF TabInv, BearersSound, TimesOf
    <3> QED BY <3>2 DEF NoTimes
  <2> QED BY <2>3, <2>5, <2>6 DEF CountsDown, DialogShown
<1> QED BY <1>1, TabInitInv, TabStepInv, PTL DEF TabSpec, WarnedBeforeSignOut

-----------------------------------------------------------------------------
(* Requests in turn.  No two are under way, a page that opens has none, and *)
(* a session that ended left nothing.                                      *)
NoRefresh == \A t \in Tracker : refresh[t].phase = "no"
OnlyTheCurrentListens == \A t \in Tracker : tracker[t].listens => t = current /\ session # Nobody
OpeningIsQuiet == page # "open" => NothingSent /\ session = Nobody
ExitIsAlone == exit.phase # "no" => NoRefresh /\ narrow.phase = "no" /\ load.phase = "no" /\ ~claim
ClaimIsAlone == claim => NoRefresh /\ exit.phase = "no" /\ narrow.phase = "no" /\ load.phase = "no"
NothingIsLeft ==
  signedOut # "no" =>
    /\ stored = None /\ session = Nobody /\ ~secret
    /\ account = Nobody /\ rows = Nobody /\ mandates = Nobody
    /\ NothingSent

TurnInv ==
  inTurn => OnlyTheCurrentListens /\ OpeningIsQuiet /\ ExitIsAlone /\ ClaimIsAlone /\ NothingIsLeft

LEMMA TurnInitInv == TabInit => TurnInv
BY DEF TabInit, TurnInv, OnlyTheCurrentListens, OpeningIsQuiet, ExitIsAlone, ClaimIsAlone,
   NothingIsLeft, NothingSent, NoRefresh, Quiet, NoLoad, Resting

(* What the handlers of several actions leave behind.                      *)
LEMMA FreshPageIsQuiet ==
  ASSUME NEW next, FreshPage(next)
  PROVE  /\ NothingSent' /\ session' = Nobody /\ account' = Nobody /\ rows' = Nobody /\ mandates' = Nobody
         /\ OnlyTheCurrentListens' /\ ExitIsAlone' /\ ClaimIsAlone'
<1>1. \A t \in Tracker : refresh'[t] = Quiet /\ tracker'[t] = Resting
  BY DEF FreshPage
<1>2. exit'.phase = "no" /\ narrow'.phase = "no" /\ load'.phase = "no" /\ ~claim'
  BY DEF FreshPage, Quiet, NoLoad
<1>3. session' = Nobody /\ account' = Nobody /\ rows' = Nobody /\ mandates' = Nobody
  BY DEF FreshPage
<1> QED BY <1>1, <1>2, <1>3
     DEF NothingSent, OnlyTheCurrentListens, ExitIsAlone, ClaimIsAlone, Quiet, Resting

LEMMA StoppedListensNot ==
  ASSUME TabInv, OnlyTheCurrentListens, NEW t \in Tracker
  PROVE  ~StopCurrent[t].listens
<1>1. tracker[t] \in TrackerState
  BY DEF TabInv, TabTyped
<1>2. Stopped(tracker[t]).listens = FALSE
  BY <1>1 DEF Stopped, TrackerState
<1> QED BY <1>2 DEF StopCurrent, OnlyTheCurrentListens

LEMMA WatchListens ==
  ASSUME TabInv, OnlyTheCurrentListens, NEW b, Watch(b)
  PROVE  OnlyTheCurrentListens'
<1>1. CASE Whose(b) = Nobody
  BY <1>1, StoppedListensNot DEF Watch, OnlyTheCurrentListens
<1>2. CASE Whose(b) # Nobody
  <2>1. \A t \in Tracker : t # current' => ~tracker'[t].listens
    BY <1>2, StoppedListensNot DEF Watch, StopCurrent
  <2> QED BY <1>2, <2>1 DEF Watch, OnlyTheCurrentListens
<1> QED BY <1>1, <1>2

LEMMA EndingLeavesNothing ==
  ASSUME TabInv, NEW how, EndHere(how), NothingSent', NEW t \in Tracker,
         OnlyTheCurrentListens, tracker' = StopCurrent \/ tracker' = [StopCurrent EXCEPT ![t].endAt = -1]
  PROVE  OnlyTheCurrentListens' /\ OpeningIsQuiet' /\ ExitIsAlone' /\ ClaimIsAlone' /\ NothingIsLeft'
<1>1. /\ stored' = None /\ session' = Nobody /\ ~secret'
      /\ account' = Nobody /\ rows' = Nobody /\ mandates' = Nobody
  BY DEF EndHere, ForgetAccount
<1>2. \A u \in Tracker : ~tracker'[u].listens
  <2> SUFFICES ASSUME NEW u \in Tracker PROVE ~tracker'[u].listens
    OBVIOUS
  <2>1. ~StopCurrent[u].listens
    BY StoppedListensNot
  <2>2. StopCurrent = [v \in Tracker |-> StopCurrent[v]]
    BY DEF StopCurrent
  <2>3. \A f : f = [v \in Tracker |-> f[v]] => [f EXCEPT ![t].endAt = -1][u].listens = f[u].listens
    OBVIOUS
  <2>4. [StopCurrent EXCEPT ![t].endAt = -1][u].listens = StopCurrent[u].listens
    BY <2>2, <2>3
  <2> QED BY <2>1, <2>4
<1> QED BY <1>1, <1>2 DEF OnlyTheCurrentListens, OpeningIsQuiet, ExitIsAlone, ClaimIsAlone, NothingIsLeft,
     NothingSent, NoRefresh

(* The step of a tab whose requests are in turn.                            *)
LEMMA BeginsInTurn ==
  ASSUME TabInv, TurnInv, inTurn, inTurn' = inTurn, NothingSent, Begins
  PROVE  TurnInv'
<1> USE DEF TurnInv
<1>1. ASSUME NEW t \in Tracker, Activity(t) PROVE TurnInv'
  <2>1. session # Nobody /\ page = "open" /\ signedOut = "no"
    BY <1>1 DEF Activity, OnlyTheCurrentListens, OpeningIsQuiet, NothingIsLeft
  <2> QED BY <1>1, <2>1 DEF Activity, Extend, idle, store, NothingSent, NoRefresh, OnlyTheCurrentListens,
       OpeningIsQuiet, ExitIsAlone, ClaimIsAlone, NothingIsLeft
<1>2. ASSUME NEW t \in Tracker, EndTimer(t) PROVE TurnInv'
  <2>1. NothingSent'
    BY <1>2 DEF EndTimer, calls, NothingSent
  <2> QED BY <1>2, <2>1, EndingLeavesNothing DEF EndTimer
<1>3. CASE StaySignedIn
  <2>1. session # Nobody /\ page = "open" /\ signedOut = "no"
    BY <1>3 DEF StaySignedIn, DialogShown, OpeningIsQuiet, NothingIsLeft
  <2> QED BY <1>3, <2>1 DEF StaySignedIn, Extend, idle, store, NothingSent, NoRefresh, OnlyTheCurrentListens,
       OpeningIsQuiet, ExitIsAlone, ClaimIsAlone, NothingIsLeft
<1>4. CASE SignOut \/ ChooseBranch \/ LoadAccount
  <2>1. session # Nobody /\ page = "open" /\ signedOut = "no"
    BY <1>4 DEF SignOut, ChooseBranch, LoadAccount, NothingIsLeft
  <2> QED BY <1>4, <2>1 DEF SignOut, ChooseBranch, LoadAccount, idle, store, NothingSent, NoRefresh,
       OnlyTheCurrentListens, OpeningIsQuiet, ExitIsAlone, ClaimIsAlone, NothingIsLeft
<1>5. CASE Reload \/ GoSignIn
  <2>1. \E next : FreshPage(next)
    BY <1>5 DEF Reload, GoSignIn
  <2>2. UNCHANGED <<stored, secret, signedOut>>
    BY <1>5 DEF Reload, GoSignIn, store
  <2> QED BY <2>1, <2>2, FreshPageIsQuiet DEF OpeningIsQuiet, NothingIsLeft
<1>6. ASSUME NEW r \in Resident, DevLogin(r) PROVE TurnInv'
  BY <1>6 DEF DevLogin, Minted, idle, calls, held, NothingSent, NoRefresh, OnlyTheCurrentListens,
     OpeningIsQuiet, ExitIsAlone, ClaimIsAlone, NothingIsLeft
<1> QED BY <1>1, <1>2, <1>3, <1>4, <1>5, <1>6 DEF Begins

LEMMA ReadInTurn ==
  ASSUME TabInv, TurnInv, inTurn, inTurn' = inTurn, SessionRead \/ DevSessionRead
  PROVE  TurnInv'
<1> USE DEF TurnInv
<1>1. PICK b \in {stored, None} : Watch(b)
  BY DEF SessionRead, DevSessionRead
<1>2. NothingSent /\ session = Nobody
  BY DEF SessionRead, DevSessionRead, OpeningIsQuiet
<1>3. OnlyTheCurrentListens'
  BY <1>1, WatchListens
<1>4. UNCHANGED <<stored, refresh, exit, narrow, account, rows, mandates, signedOut>>
  BY DEF SessionRead, DevSessionRead, store, held
<1>5. CASE SessionRead
  <2>0. PICK a \in {stored, None} :
          /\ Watch(a) /\ claim' = (secret /\ Whose(a) # Nobody)
          /\ IF claim' THEN page' = "open" /\ UNCHANGED <<load, triedSilent>> ELSE GoOn(Whose(a))
    BY <1>5 DEF SessionRead
  <2>1. session' = Whose(a) /\ secret' = secret
    BY <1>5, <2>0 DEF SessionRead, Watch
  <2>2. claim' => load' = load /\ page' = "open"
    BY <2>0
  <2>3. page' # "open" => session' = Nobody /\ load' = load /\ ~claim'
    BY <2>0, <2>1 DEF GoOn
  <2>4. signedOut # "no" => session' = Nobody /\ load' = load /\ ~claim'
    <3> SUFFICES ASSUME signedOut # "no" PROVE session' = Nobody /\ load' = load /\ ~claim'
      OBVIOUS
    <3>1. a = None
      BY DEF NothingIsLeft
    <3>2. Whose(a) = Nobody
      BY <3>1 DEF Whose, Honoured
    <3> QED BY <2>0, <2>1, <3>2 DEF GoOn
  <2> QED BY <1>2, <1>3, <1>4, <2>1, <2>2, <2>3, <2>4 DEF NothingSent, NoRefresh, OpeningIsQuiet, ExitIsAlone,
       ClaimIsAlone, NothingIsLeft
<1>6. CASE DevSessionRead
  <2>1. page' = "open" /\ claim' = claim /\ secret' = secret
    BY <1>6 DEF DevSessionRead, store
  <2>2. signedOut # "no" => session' = Nobody /\ load' = load
    <3> SUFFICES ASSUME signedOut # "no" PROVE session' = Nobody /\ load' = load
      OBVIOUS
    <3>1. PICK a \in {stored, None} :
            /\ Watch(a)
            /\ load' = IF Whose(a) # Nobody THEN [phase |-> "lists", who |-> Whose(stored)] ELSE load
      BY <1>6 DEF DevSessionRead
    <3>2. a = None
      BY DEF NothingIsLeft
    <3>3. Whose(a) = Nobody
      BY <3>2 DEF Whose, Honoured
    <3> QED BY <3>1, <3>3 DEF Watch
  <2> QED BY <1>2, <1>3, <1>4, <2>1, <2>2 DEF NothingSent, NoRefresh, OpeningIsQuiet, ExitIsAlone,
       ClaimIsAlone, NothingIsLeft
<1> QED BY <1>5, <1>6

LEMMA GoesOnInTurn ==
  ASSUME TabInv, TurnInv, inTurn, inTurn' = inTurn, GoesOn
  PROVE  TurnInv'
<1> USE DEF TurnInv
<1>0. /\ refresh \in [Tracker -> Calls] /\ tracker \in [Tracker -> TrackerState]
  BY DEF TabInv, TabTyped
<1>1. ASSUME NEW t \in Tracker, RefreshServed(t) PROVE TurnInv'
  <2>1. refresh[t].phase # "no" /\ UNCHANGED <<page, session, tracker, current, exit, narrow, load, claim, signedOut>>
    BY <1>1 DEF RefreshServed, idle
  <2>2. page = "open" /\ exit.phase = "no" /\ ~claim /\ signedOut = "no"
    BY <2>1 DEF OpeningIsQuiet, NothingSent, ExitIsAlone, ClaimIsAlone, NothingIsLeft, NoRefresh
  <2> QED BY <2>1, <2>2 DEF OnlyTheCurrentListens, OpeningIsQuiet, ExitIsAlone, ClaimIsAlone, NothingIsLeft
<1>2. ASSUME NEW t \in Tracker, RefreshTaken(t) PROVE TurnInv'
  <2>1. refresh[t].phase # "no" /\ UNCHANGED <<page, session, current, exit, narrow, load, claim, signedOut>>
    BY <1>2 DEF RefreshTaken
  <2>2. page = "open" /\ exit.phase = "no" /\ ~claim /\ signedOut = "no"
    BY <2>1 DEF OpeningIsQuiet, NothingSent, ExitIsAlone, ClaimIsAlone, NothingIsLeft, NoRefresh
  <2>3. \A u \in Tracker : tracker'[u].listens = tracker[u].listens
    <3>1. CASE tracker' = tracker
      BY <3>1
    <3>2. CASE tracker' # tracker
      <4> DEFINE k == [Scheduled(tracker[t], TimesOf(refresh[t].got)) EXCEPT !.refreshed = now]
      <4>1. tracker' = [tracker EXCEPT ![t] = k]
        BY <1>2, <3>2 DEF RefreshTaken
      <4>2. k.listens = tracker[t].listens
        BY <1>0 DEF Scheduled, TrackerState
      <4> HIDE DEF k
      <4> QED BY <1>0, <4>1, <4>2
    <3> QED BY <3>1, <3>2
  <2> QED BY <2>1, <2>2, <2>3 DEF OnlyTheCurrentListens, OpeningIsQuiet, ExitIsAlone, ClaimIsAlone, NothingIsLeft
<1>3. ASSUME NEW t \in Tracker, WarnTimer(t) PROVE TurnInv'
  <2>1. \A u \in Tracker : tracker'[u].listens = tracker[u].listens
    BY <1>0, <1>3 DEF WarnTimer, TrackerState
  <2> QED BY <1>3, <2>1 DEF WarnTimer, store, calls, held, OnlyTheCurrentListens, OpeningIsQuiet, ExitIsAlone,
       ClaimIsAlone, NothingIsLeft, NothingSent, NoRefresh
<1>4. CASE SignOutServed
  <2>1. exit.phase # "no" /\ UNCHANGED <<page, session, tracker, current, refresh, narrow, load, claim, signedOut>>
    BY <1>4 DEF SignOutServed, idle
  <2> QED BY <2>1 DEF OnlyTheCurrentListens, OpeningIsQuiet, ExitIsAlone, ClaimIsAlone, NothingIsLeft, NothingSent,
       NoRefresh
<1>5. CASE SignOutTaken
  <2>1. NothingSent'
    BY <1>5 DEF SignOutTaken, NothingSent, ExitIsAlone, NoRefresh, Quiet
  <2>2. PICK t \in Tracker : TRUE
    BY SiteSessionAssumption DEF Tracker
  <2> QED BY <1>5, <2>1, <2>2, EndingLeavesNothing DEF SignOutTaken
<1>6. CASE ChooseBranchServed
  <2>1. narrow.phase # "no" /\ UNCHANGED <<page, session, tracker, current, refresh, exit, load, claim, signedOut>>
    BY <1>6 DEF ChooseBranchServed, idle
  <2> QED BY <2>1 DEF OnlyTheCurrentListens, OpeningIsQuiet, ExitIsAlone, ClaimIsAlone, NothingIsLeft, NothingSent,
       NoRefresh
<1>7. CASE ChooseBranchTaken
  <2>1. narrow.phase # "no" /\ signedOut' = signedOut
    BY <1>7 DEF ChooseBranchTaken
  <2>2. page = "open" /\ exit.phase = "no" /\ ~claim /\ signedOut = "no"
    BY <2>1 DEF OpeningIsQuiet, NothingSent, ExitIsAlone, ClaimIsAlone, NothingIsLeft
  <2>3. CASE narrow.got = None
    BY <1>7, <2>1, <2>2, <2>3 DEF ChooseBranchTaken, idle, OnlyTheCurrentListens, OpeningIsQuiet, ExitIsAlone,
       ClaimIsAlone, NothingIsLeft
  <2>4. CASE narrow.got # None
    <3>1. FreshPage("opening")
      BY <1>7, <2>4 DEF ChooseBranchTaken
    <3> QED BY <2>1, <2>2, <3>1, FreshPageIsQuiet DEF OpeningIsQuiet, NothingIsLeft
  <2> QED BY <2>3, <2>4
<1>8. CASE ReturnRefused
  <2>1. FreshPage("opening") /\ UNCHANGED <<stored, secret, signedOut>>
    BY <1>8 DEF ReturnRefused, store
  <2> QED BY <2>1, FreshPageIsQuiet DEF OpeningIsQuiet, NothingIsLeft
<1>9. CASE SessionRead \/ DevSessionRead
  BY <1>9, ReadInTurn
<1>10. CASE ClaimAnswered
  <2>1. /\ claim /\ ~claim' /\ GoOn(session)
        /\ UNCHANGED <<session, tracker, current, refresh, exit, narrow, signedOut>>
    BY <1>10 DEF ClaimAnswered, idle
  <2>2. page' # "open" => session = Nobody /\ load' = load
    BY <2>1 DEF GoOn
  <2>3. signedOut = "no"
    BY <2>1 DEF NothingIsLeft, NothingSent
  <2> QED BY <2>1, <2>2, <2>3 DEF OnlyTheCurrentListens, OpeningIsQuiet, ExitIsAlone, ClaimIsAlone, NothingIsLeft,
       NothingSent, NoRefresh
<1>11. ASSUME NEW r \in Resident, ReturnSignedIn(r) PROVE TurnInv'
  <2>1. FreshPage("opening") /\ signedOut' = "no"
    BY <1>11 DEF ReturnSignedIn, Minted
  <2> QED BY <2>1, FreshPageIsQuiet DEF OpeningIsQuiet, NothingIsLeft
<1>12. CASE ListsAnswered \/ RowsAnswered \/ MandatesAnswered
  <2>1. load.phase # "no" /\ UNCHANGED <<page, session, tracker, current, refresh, exit, narrow, claim, signedOut>>
    BY <1>12 DEF ListsAnswered, RowsAnswered, MandatesAnswered, idle
  <2>2. page = "open" /\ exit.phase = "no" /\ ~claim /\ signedOut = "no"
    BY <2>1 DEF OpeningIsQuiet, NothingSent, ExitIsAlone, ClaimIsAlone, NothingIsLeft
  <2> QED BY <2>1, <2>2 DEF OnlyTheCurrentListens, OpeningIsQuiet, ExitIsAlone, ClaimIsAlone, NothingIsLeft
<1>13. CASE Tick
  BY <1>13 DEF Tick, store, idle, calls, held, OnlyTheCurrentListens, OpeningIsQuiet, ExitIsAlone, ClaimIsAlone,
     NothingIsLeft, NothingSent, NoRefresh
<1> QED BY <1>1, <1>2, <1>3, <1>4, <1>5, <1>6, <1>7, <1>8, <1>9, <1>10, <1>11, <1>12, <1>13 DEF GoesOn

LEMMA TurnStepInv == TabInv /\ TurnInv /\ [TabNext]_sessionVars => TurnInv'
<1> SUFFICES ASSUME TabInv, TurnInv, [TabNext]_sessionVars PROVE TurnInv'
  OBVIOUS
<1>1. CASE ~inTurn
  BY <1>1 DEF TurnInv, TabNext, sessionVars
<1>2. CASE inTurn /\ TabNext
  BY <1>2, BeginsInTurn, GoesOnInTurn DEF TabNext
<1>3. CASE UNCHANGED sessionVars
  BY <1>3 DEF sessionVars, store, idle, calls, held, TurnInv, OnlyTheCurrentListens, OpeningIsQuiet, ExitIsAlone,
     ClaimIsAlone, NothingIsLeft, NothingSent, NoRefresh
<1> QED BY <1>1, <1>2, <1>3

(* After a sign-out of a tab whose requests do not overlap, asked for or by *)
(* inactivity, it holds no bearer the edge honours, no invitation, and      *)
(* nothing of the resident's.                                              *)
THEOREM ASignOutLeavesNothing == TabSpec => []SignedOutLeavesNothingSerially
<1>1. TurnInv => SignedOutLeavesNothingSerially
  BY DEF TurnInv, NothingIsLeft, SignedOutLeavesNothingSerially, SignedOutLeavesNothing, Honoured
<1> QED BY <1>1, TabInitInv, TurnInitInv, TabStepInv, TurnStepInv, PTL DEF TabSpec

-----------------------------------------------------------------------------
(* The pages, of a patient visitor.                                        *)
ReadPhase == {"no", "page", "parent", "context", "shown"}

NavTyped ==
  /\ version \in [Pages -> 0..MaxVersion] /\ cached \in [Pages -> 0..MaxVersion]
  /\ route \in Routes /\ shown \in Page \cup {NoPage}
  /\ {routeParam, signInNeeded, denied, entering} \subseteq BOOLEAN
  /\ editing \in Pages \cup {NoRoute, NoContext} /\ mounted \in Pages \cup {NoRoute}
  /\ reads \in [Read -> [phase : ReadPhase, route : Routes \cup {NoRoute}, fresh : BOOLEAN]]
  /\ owed \in Page \cup {NoPage}

OneRead ==
  /\ \A i, j \in Read : reads[i].phase # "no" /\ reads[j].phase # "no" => i = j
  /\ \A i \in Read : reads[i].phase # "no" => reads[i].route = route /\ ~entering

(* The page, or its parent, is still to come.                              *)
Coming == {"page", "parent"}
ComesToTheRoute ==
  \A i \in Read :
    /\ reads[i].phase \in Coming =>
         /\ error = "none" /\ ~signInNeeded /\ ~routeParam /\ (owed # NoPage => reads[i].fresh)
         /\ route \notin AccountRoutes \cup SharedRoutes
    /\ reads[i].phase = "parent" => route \in Missing /\ ParentRoute[route] # NoRoute

AllCame == \A i \in Read : reads[i].phase \notin Coming
TheScreen ==
  error # "failed" =>
    IF route \in Pages THEN shown.of = route /\ error = "none" /\ ~routeParam
    ELSE /\ signInNeeded = (route \in Locked)
         /\ IF route \in Missing /\ ParentRoute[route] \in Pages
            THEN shown.of = ParentRoute[route] /\ routeParam
            ELSE shown = NoPage
WhatCameIsShown == AllCame => TheScreen

(* The context is asked for once the page came.                            *)
DoorFollows ==
  /\ AllCame /\ (\A i \in Read : reads[i].phase # "context") /\ route \in Pages => editing \in {route, NoContext}
  /\ route \in Pages => mounted \in {route, NoRoute}
  /\ denied => editing = NoContext /\ \A i \in Read : reads[i].phase # "context"

OwedIsShown ==
  owed # NoPage =>
    /\ owed.of \in Pages /\ owed.version <= version[owed.of]
    /\ AllCame /\ shown.of = owed.of => shown.version >= owed.version

NavInv ==
  /\ NavTyped
  /\ patient => OneRead /\ ComesToTheRoute /\ WhatCameIsShown /\ DoorFollows /\ OwedIsShown

LEMMA RoutesApart ==
  /\ NoRoute \notin Routes /\ NoContext \notin Routes /\ Home \in Pages /\ Home \in Routes
  /\ \A r \in Pages : r \in Routes /\ r \notin Locked /\ r \notin Missing
                      /\ r \notin AccountRoutes \cup SharedRoutes
  /\ \A r \in Locked : r \notin Missing /\ r \notin AccountRoutes \cup SharedRoutes
  /\ \A r \in Missing : r \notin AccountRoutes \cup SharedRoutes /\ r \in Routes
  /\ \A r \in Missing : ParentRoute[r] \in Pages \cup Missing \cup {NoRoute}
  /\ NoPage.of = NoRoute /\ NoPage \notin Page /\ 1 \in Read
BY SiteNavigationAssumption DEF Routes, NoPage, Page, Read

(* What a read may answer.                                                 *)
LEMMA Fetched ==
  ASSUME NavTyped, NEW r, NEW fresh, NEW answer \in FetchPage(r, fresh)
  PROVE  /\ answer.error = "none" =>
              /\ r \in Pages /\ answer.page \in Page /\ answer.page.of = r
              /\ answer.page.version \in 0..MaxVersion /\ (fresh => answer.page.version = version[r])
         /\ answer.error # "none" => answer.page = NoPage
         /\ answer.error \in {"none", "failed", "locked", "missing"}
         /\ r \in Pages => answer.error \in {"none", "failed"}
         /\ r \notin Pages /\ r \in Locked => answer.error \in {"locked", "failed"}
         /\ r \notin Pages /\ r \notin Locked => answer.error \in {"missing", "failed"}
<1>1. CASE r \in Pages
  <2>1. version[r] \in 0..MaxVersion /\ cached[r] \in 0..MaxVersion
    BY <1>1 DEF NavTyped
  <2>2. answer \in {Refused("failed"), Found(r, version[r])} \/ (~fresh /\ answer = Found(r, cached[r]))
    BY <1>1 DEF FetchPage
  <2> QED BY <1>1, <2>1, <2>2 DEF Refused, Found, Page
<1>2. CASE r \notin Pages
  BY <1>2 DEF FetchPage, Refused
<1> QED BY <1>1, <1>2

LEMMA CacheTyped ==
  ASSUME NavTyped, NEW r, NEW fresh, NEW answer \in FetchPage(r, fresh), Cache(answer)
  PROVE  cached' \in [Pages -> 0..MaxVersion]
<1>1. answer.error = "none" => answer.page.of \in Pages /\ answer.page.version \in 0..MaxVersion
  BY Fetched DEF Page
<1> QED BY <1>1 DEF NavTyped, Cache

(* A read takes another state, and no other does.                          *)
LEMMA ReadMoves ==
  ASSUME NavTyped, NEW i \in Read, NEW state, ReadBecomes(i, state),
         state \in [phase : ReadPhase, route : Routes \cup {NoRoute}, fresh : BOOLEAN]
  PROVE  /\ reads' \in [Read -> [phase : ReadPhase, route : Routes \cup {NoRoute}, fresh : BOOLEAN]]
         /\ reads'[i] = state /\ \A j \in Read : j # i => reads'[j] = reads[j]
BY DEF ReadBecomes, NavTyped

LEMMA NoReadTyped == NoRead \in [phase : ReadPhase, route : Routes \cup {NoRoute}, fresh : BOOLEAN]
BY DEF NoRead, ReadPhase

LEMMA NavInitInv == NavInit => NavInv
<1> SUFFICES ASSUME NavInit PROVE NavInv
  OBVIOUS
<1>1. /\ \A i \in Read : i # 1 => reads[i] = NoRead
      /\ reads[1] = [phase |-> "page", route |-> Home, fresh |-> FALSE]
  BY RoutesApart DEF NavInit
<1>2. NavTyped
  <2>1. [phase |-> "page", route |-> Home, fresh |-> FALSE]
          \in [phase : ReadPhase, route : Routes \cup {NoRoute}, fresh : BOOLEAN]
    BY RoutesApart DEF ReadPhase
  <2>2. reads \in [Read -> [phase : ReadPhase, route : Routes \cup {NoRoute}, fresh : BOOLEAN]]
    BY <2>1, NoReadTyped DEF NavInit
  <2>3. 0 \in 0..MaxVersion
    BY SiteNavigationAssumption
  <2> QED BY <2>2, <2>3, RoutesApart DEF NavInit, NavTyped
<1>3. OneRead /\ ComesToTheRoute /\ ~AllCame
  <2>1. NoRead.phase = "no"
    BY DEF NoRead
  <2> QED BY <1>1, <2>1, RoutesApart DEF NavInit, OneRead, ComesToTheRoute, AllCame, Coming
<1>4. DoorFollows /\ OwedIsShown
  BY <1>3 DEF NavInit, DoorFollows, OwedIsShown, WhatCameIsShown
<1> QED BY <1>2, <1>3, <1>4 DEF NavInv, WhatCameIsShown

(* A route is loaded by a patient visitor.                                 *)
LEMMA LoadStarts ==
  ASSUME NavTyped, NEW r \in Routes, NEW fresh \in BOOLEAN, StartLoad(r, fresh), route' = r
  PROVE  /\ reads' \in [Read -> [phase : ReadPhase, route : Routes \cup {NoRoute}, fresh : BOOLEAN]]
         /\ shown' \in Page \cup {NoPage} /\ {routeParam', signInNeeded'} \subseteq BOOLEAN
         /\ AllQuiet /\ ~entering /\ entering' = entering /\ (owed' # NoPage => fresh) =>
              /\ OneRead' /\ ComesToTheRoute' /\ WhatCameIsShown'
              /\ \A i \in Read : reads'[i].phase # "context"
              /\ AllCame' => r \notin Pages /\ shown' = NoPage
<1>1. CASE r \in AccountRoutes \cup SharedRoutes
  <2>1. reads' = reads /\ shown' = NoPage /\ error' = "none" /\ ~routeParam' /\ ~signInNeeded'
    BY <1>1 DEF StartLoad
  <2>2. r \notin Pages /\ r \notin Locked /\ r \notin Missing
    BY <1>1, RoutesApart
  <2>3. {routeParam', signInNeeded'} \subseteq BOOLEAN /\ signInNeeded' = FALSE
    BY DEF StartLoad
  <2> QED BY <2>1, <2>2, <2>3 DEF NavTyped, AllQuiet, OneRead, ComesToTheRoute, WhatCameIsShown, TheScreen, Coming,
       AllCame
<1>2. CASE r \notin AccountRoutes \cup SharedRoutes
  <2> DEFINE state == [phase |-> "page", route |-> r, fresh |-> fresh]
  <2>1. PICK i \in Read : ReadBecomes(i, state)
    BY <1>2 DEF StartLoad
  <2>2. state \in [phase : ReadPhase, route : Routes \cup {NoRoute}, fresh : BOOLEAN]
    BY DEF ReadPhase
  <2>3. state.phase = "page" /\ state.route = r /\ state.fresh = fresh
    OBVIOUS
  <2> HIDE DEF state
  <2>4. /\ reads' \in [Read -> [phase : ReadPhase, route : Routes \cup {NoRoute}, fresh : BOOLEAN]]
        /\ reads'[i] = state /\ \A j \in Read : j # i => reads'[j] = reads[j]
    BY <2>1, <2>2, ReadMoves
  <2>5. /\ error' = "none" /\ routeParam' = FALSE /\ signInNeeded' = FALSE /\ shown' = shown
    BY <1>2 DEF StartLoad
  <2>6. ASSUME AllQuiet, ~entering, entering' = entering, owed' # NoPage => fresh
        PROVE  /\ OneRead' /\ ComesToTheRoute' /\ ~AllCame'
               /\ \A j \in Read : reads'[j].phase # "context"
    <3>1. \A j \in Read : j # i => reads'[j].phase = "no"
      BY <2>4, <2>6 DEF AllQuiet
    <3> QED BY <1>2, <2>3, <2>4, <2>5, <2>6, <3>1 DEF OneRead, ComesToTheRoute, AllCame, Coming
  <2> QED BY <2>4, <2>5, <2>6 DEF NavTyped, WhatCameIsShown
<1> QED BY <1>1, <1>2

LEMMA GoOk ==
  ASSUME NavInv, NEW r \in Routes, Go(r), patient => AllQuiet /\ ~entering, patient' = patient
  PROVE  NavInv'
<1>1. NavTyped /\ StartLoad(r, FALSE) /\ route' = r /\ mounted' = NoRoute /\ owed' = NoPage
  BY DEF NavInv, Go
<1>2. UNCHANGED <<version, cached, editing, denied, entering>>
  BY DEF Go, server
<1>3. NavTyped'
  BY <1>1, <1>2, LoadStarts DEF NavTyped
<1>4. ASSUME patient
      PROVE  OneRead' /\ ComesToTheRoute' /\ WhatCameIsShown' /\ DoorFollows' /\ OwedIsShown'
  <2>1. /\ OneRead' /\ ComesToTheRoute' /\ WhatCameIsShown'
        /\ AllCame' => r \notin Pages /\ shown' = NoPage
        /\ \A i \in Read : reads'[i].phase # "context"
    BY <1>1, <1>2, <1>4, LoadStarts
  <2>2. denied' => editing' = NoContext
    BY <1>2, <1>4 DEF NavInv, DoorFollows
  <2> QED BY <1>1, <2>1, <2>2 DEF DoorFollows, OwedIsShown
<1> QED BY <1>3, <1>4 DEF NavInv

LEMMA LeaveEditModeOk ==
  ASSUME NavInv, LeaveEditMode, patient => AllQuiet /\ ~entering, patient' = patient
  PROVE  NavInv'
<1>1. NavTyped /\ StartLoad(route, TRUE) /\ route' = route /\ mounted' = NoRoute /\ route \in Routes
      /\ owed' = [of |-> mounted, version |-> version[mounted]] /\ mounted # NoRoute
  BY DEF NavInv, LeaveEditMode, NavTyped
<1>2. UNCHANGED <<version, cached, editing, denied, entering>>
  BY DEF LeaveEditMode, server
<1>3. mounted \in Pages /\ version[mounted] \in 0..MaxVersion
  BY <1>1 DEF NavTyped
<1>4. owed' \in Page /\ owed'.of = mounted /\ owed'.version = version[mounted]
  BY <1>1, <1>3 DEF Page
<1>5. NavTyped'
  BY <1>1, <1>2, <1>4, LoadStarts DEF NavTyped
<1>6. ASSUME patient
      PROVE  OneRead' /\ ComesToTheRoute' /\ WhatCameIsShown' /\ DoorFollows' /\ OwedIsShown'
  <2>1. /\ OneRead' /\ ComesToTheRoute' /\ WhatCameIsShown'
        /\ AllCame' => route \notin Pages /\ shown' = NoPage
        /\ \A i \in Read : reads'[i].phase # "context"
    BY <1>1, <1>2, <1>6, LoadStarts
  <2>2. denied' => editing' = NoContext
    BY <1>2, <1>6 DEF NavInv, DoorFollows
  <2>3. OwedIsShown'
    <3>1. AllCame' => shown'.of # owed'.of
      BY <1>3, <1>4, <2>1, RoutesApart
    <3> QED BY <1>2, <1>3, <1>4, <3>1 DEF OwedIsShown
  <2> QED BY <1>1, <2>1, <2>2, <2>3 DEF DoorFollows
<1> QED BY <1>5, <1>6 DEF NavInv

(* The context is asked for, or not: no page is to come.                   *)
LEMMA AsksContext ==
  ASSUME NavTyped, NEW i \in Read, AskContext(i), reads[i].phase # "no"
  PROVE  /\ reads' \in [Read -> [phase : ReadPhase, route : Routes \cup {NoRoute}, fresh : BOOLEAN]]
         /\ \A j \in Read : j # i => reads'[j] = reads[j]
         /\ IF denied THEN reads'[i].phase = "no"
            ELSE reads'[i].phase = "context" /\ reads'[i].route = route
<1>1. CASE denied
  <2>1. ReadBecomes(i, NoRead) /\ NoRead.phase = "no"
    BY <1>1 DEF AskContext, NoRead
  <2> QED BY <1>1, <2>1, NoReadTyped, ReadMoves
<1>2. CASE ~denied
  <2> DEFINE state == [phase |-> "context", route |-> route, fresh |-> FALSE]
  <2>1. ReadBecomes(i, state)
    BY <1>2 DEF AskContext
  <2>2. /\ state \in [phase : ReadPhase, route : Routes \cup {NoRoute}, fresh : BOOLEAN]
        /\ state.phase = "context" /\ state.route = route
    BY DEF ReadPhase, NavTyped
  <2> HIDE DEF state
  <2> QED BY <1>2, <2>1, <2>2, ReadMoves
<1> QED BY <1>1, <1>2

LEMMA PageAnsweredOk ==
  ASSUME NavInv, NEW i \in Read, PageAnswered(i), patient' = patient
  PROVE  NavInv'
<1>1. NavTyped /\ reads[i].phase = "page" /\ reads[i] \in [phase : ReadPhase, route : Routes \cup {NoRoute}, fresh : BOOLEAN]
  BY DEF NavInv, PageAnswered, NavTyped
<1>2. UNCHANGED <<version, route, editing, denied, entering, mounted, owed, routeParam>>
  BY DEF PageAnswered, door, screen
<1> DEFINE r == reads[i].route
<1>3. PICK answer \in FetchPage(r, reads[i].fresh) :
        /\ Cache(answer)
        /\ IF answer.error = "missing" /\ ParentRoute[r] # NoRoute
           THEN ReadBecomes(i, [reads[i] EXCEPT !.phase = "parent"]) /\ UNCHANGED screen
           ELSE /\ shown' = answer.page
                /\ error' = IF answer.error = "none" THEN error ELSE answer.error
                /\ signInNeeded' = IF answer.error = "none" THEN signInNeeded ELSE answer.error = "locked"
                /\ AskContext(i)
  BY DEF PageAnswered
<1> HIDE DEF r
<1>4. /\ answer.error = "none" =>
           /\ r \in Pages /\ answer.page \in Page /\ answer.page.of = r
           /\ answer.page.version \in 0..MaxVersion /\ (reads[i].fresh => answer.page.version = version[r])
      /\ answer.error # "none" => answer.page = NoPage
      /\ answer.error \in {"none", "failed", "locked", "missing"}
      /\ r \in Pages => answer.error \in {"none", "failed"}
      /\ r \notin Pages /\ r \in Locked => answer.error \in {"locked", "failed"}
      /\ r \notin Pages /\ r \notin Locked => answer.error \in {"missing", "failed"}
  BY <1>1, Fetched
<1>5. cached' \in [Pages -> 0..MaxVersion]
  BY <1>1, <1>3, CacheTyped
<1>6. CASE answer.error = "missing" /\ ParentRoute[r] # NoRoute
  <2> DEFINE state == [reads[i] EXCEPT !.phase = "parent"]
  <2>1. /\ state \in [phase : ReadPhase, route : Routes \cup {NoRoute}, fresh : BOOLEAN]
        /\ state.phase = "parent" /\ state.route = r /\ state.fresh = reads[i].fresh
    BY <1>1 DEF ReadPhase, r
  <2>2. ReadBecomes(i, state) /\ UNCHANGED <<shown, error, signInNeeded>>
    BY <1>3, <1>6 DEF screen
  <2> HIDE DEF state
  <2>3. /\ reads' \in [Read -> [phase : ReadPhase, route : Routes \cup {NoRoute}, fresh : BOOLEAN]]
        /\ reads'[i] = state /\ \A j \in Read : j # i => reads'[j] = reads[j]
    BY <1>1, <2>1, <2>2, ReadMoves
  <2>4. NavTyped'
    BY <1>1, <1>2, <1>5, <2>2, <2>3 DEF NavTyped
  <2>5. ASSUME patient
        PROVE  OneRead' /\ ComesToTheRoute' /\ ~AllCame' /\ DoorFollows' /\ OwedIsShown'
    <3>0. OneRead /\ ComesToTheRoute /\ DoorFollows /\ OwedIsShown
      BY <2>5 DEF NavInv
    <3>1. \A j \in Read : j # i => reads'[j].phase = "no"
      BY <1>1, <2>3, <3>0 DEF OneRead
    <3>2. r = route /\ r \notin Pages /\ r \notin Locked
      BY <1>1, <1>4, <1>6, <3>0 DEF OneRead, r
    <3>3. route \in Missing
      BY <1>1, <3>0, <3>2 DEF NavTyped, ComesToTheRoute, Coming, Routes
    <3> QED BY <1>1, <1>2, <1>6, <2>1, <2>2, <2>3, <3>0, <3>1, <3>2, <3>3
         DEF OneRead, ComesToTheRoute, AllCame, Coming, DoorFollows, OwedIsShown
  <2> QED BY <2>4, <2>5 DEF NavInv, WhatCameIsShown
<1>7. CASE ~(answer.error = "missing" /\ ParentRoute[r] # NoRoute)
  <2>1. /\ shown' = answer.page
        /\ error' = IF answer.error = "none" THEN error ELSE answer.error
        /\ signInNeeded' = IF answer.error = "none" THEN signInNeeded ELSE answer.error = "locked"
        /\ AskContext(i)
    BY <1>3, <1>7
  <2>2. /\ reads' \in [Read -> [phase : ReadPhase, route : Routes \cup {NoRoute}, fresh : BOOLEAN]]
        /\ \A j \in Read : j # i => reads'[j] = reads[j]
        /\ IF denied THEN reads'[i].phase = "no"
           ELSE reads'[i].phase = "context" /\ reads'[i].route = route
    BY <1>1, <2>1, AsksContext
  <2>3. signInNeeded' \in BOOLEAN
    BY <1>1, <2>1 DEF NavTyped
  <2>4. NavTyped'
    BY <1>1, <1>2, <1>4, <1>5, <2>1, <2>2, <2>3 DEF NavTyped
  <2>5. ASSUME patient
        PROVE  OneRead' /\ ComesToTheRoute' /\ WhatCameIsShown' /\ DoorFollows' /\ OwedIsShown'
    <3>0. OneRead /\ ComesToTheRoute /\ DoorFollows /\ OwedIsShown
      BY <2>5 DEF NavInv
    <3>1. \A j \in Read : j # i => reads'[j].phase = "no"
      BY <1>1, <2>2, <3>0 DEF OneRead
    <3>2. r = route /\ ~entering /\ error = "none" /\ ~signInNeeded /\ ~routeParam /\ (owed # NoPage => reads[i].fresh)
      BY <1>1, <3>0 DEF OneRead, ComesToTheRoute, Coming, r
    <3>3. OneRead'
      BY <1>2, <2>2, <3>1, <3>2 DEF OneRead
    <3>4. ComesToTheRoute'
      BY <2>2, <3>1 DEF ComesToTheRoute, Coming
    <3>5. TheScreen'
      <4>1. CASE answer.error = "none"
        BY <1>2, <1>4, <2>1, <3>2, <4>1 DEF TheScreen
      <4>2. CASE answer.error = "locked"
        BY <1>2, <1>4, <2>1, <3>2, <4>2, RoutesApart DEF TheScreen
      <4>3. CASE answer.error = "missing"
        <5>1. r \notin Locked /\ r \notin Pages /\ ParentRoute[r] = NoRoute
          BY <1>4, <1>7, <4>3
        <5>2. NoRoute \notin Pages
          BY RoutesApart
        <5> QED BY <1>2, <1>4, <2>1, <3>2, <4>3, <5>1, <5>2 DEF TheScreen
      <4>4. CASE answer.error = "failed"
        BY <2>1, <4>4 DEF TheScreen
      <4> QED BY <1>4, <4>1, <4>2, <4>3, <4>4
    <3>6. DoorFollows'
      <4>1. denied => editing = NoContext
        BY <3>0 DEF DoorFollows
      <4>2. ~denied => reads'[i].phase = "context"
        BY <2>2
      <4>3. denied => \A j \in Read : reads'[j].phase # "context"
        BY <2>2, <3>1
      <4> QED BY <1>2, <3>0, <4>1, <4>2, <4>3 DEF DoorFollows
    <3>7. OwedIsShown'
      <4> SUFFICES ASSUME owed # NoPage
                   PROVE  /\ owed.of \in Pages /\ owed.version <= version[owed.of]
                          /\ shown'.of = owed.of => shown'.version >= owed.version
        BY <1>2 DEF OwedIsShown
      <4>1. owed.of \in Pages /\ owed.version <= version[owed.of]
        BY <3>0 DEF OwedIsShown
      <4>2. CASE answer.error = "none"
        <5>1. shown'.of = r /\ shown'.version = version[r] /\ version[r] \in Int
          BY <1>1, <1>4, <2>1, <3>2, <4>2 DEF NavTyped
        <5>2. owed.version \in Int
          BY <1>1 DEF NavTyped, Page
        <5> QED BY <4>1, <5>1, <5>2
      <4>3. CASE answer.error # "none"
        BY <1>4, <2>1, <4>1, <4>3, RoutesApart
      <4> QED BY <4>1, <4>2, <4>3
    <3> QED BY <3>3, <3>4, <3>5, <3>6, <3>7 DEF WhatCameIsShown
  <2> QED BY <2>4, <2>5 DEF NavInv
<1> QED BY <1>6, <1>7

LEMMA ParentAnsweredOk ==
  ASSUME NavInv, NEW i \in Read, ParentAnswered(i), patient' = patient
  PROVE  NavInv'
<1> DEFINE r == ParentRoute[reads[i].route]
<1>1. NavTyped /\ reads[i].phase = "parent"
  BY DEF NavInv, ParentAnswered
<1>2. /\ UNCHANGED <<version, route, editing, denied, entering, mounted, owed, signInNeeded>>
      /\ ReadBecomes(i, NoRead)
  BY DEF ParentAnswered, door
<1>3. PICK answer \in FetchPage(r, reads[i].fresh) :
        /\ Cache(answer)
        /\ shown' = answer.page
        /\ error' = IF answer.error = "none" THEN error ELSE answer.error
        /\ routeParam' = (routeParam \/ answer.error = "none")
  BY DEF ParentAnswered
<1> HIDE DEF r
<1>4. /\ answer.error = "none" =>
           /\ r \in Pages /\ answer.page \in Page /\ answer.page.of = r
           /\ answer.page.version \in 0..MaxVersion /\ (reads[i].fresh => answer.page.version = version[r])
      /\ answer.error # "none" => answer.page = NoPage
      /\ answer.error \in {"none", "failed", "locked", "missing"}
      /\ r \in Pages => answer.error \in {"none", "failed"}
      /\ r \notin Pages /\ r \notin Locked => answer.error \in {"missing", "failed"}
  BY <1>1, Fetched
<1>5. cached' \in [Pages -> 0..MaxVersion]
  BY <1>1, <1>3, CacheTyped
<1>6. /\ reads' \in [Read -> [phase : ReadPhase, route : Routes \cup {NoRoute}, fresh : BOOLEAN]]
      /\ reads'[i].phase = "no" /\ \A j \in Read : j # i => reads'[j] = reads[j]
  <2>1. NoRead.phase = "no"
    BY DEF NoRead
  <2> QED BY <1>1, <1>2, <2>1, NoReadTyped, ReadMoves
<1>7. NavTyped'
  <2>1. routeParam' \in BOOLEAN
    BY <1>3
  <2> QED BY <1>1, <1>2, <1>3, <1>4, <1>5, <1>6, <2>1 DEF NavTyped
<1>8. ASSUME patient
      PROVE  OneRead' /\ ComesToTheRoute' /\ WhatCameIsShown' /\ DoorFollows' /\ OwedIsShown'
  <2>0. OneRead /\ ComesToTheRoute /\ DoorFollows /\ OwedIsShown
    BY <1>8 DEF NavInv
  <2>1. \A j \in Read : reads'[j].phase = "no"
    BY <1>1, <1>6, <2>0 DEF OneRead
  <2>2. /\ r = ParentRoute[route] /\ route \in Missing /\ r # NoRoute /\ error = "none" /\ ~signInNeeded
        /\ (owed # NoPage => reads[i].fresh)
    BY <1>1, <2>0 DEF OneRead, ComesToTheRoute, Coming, r
  <2>3. r \in Pages \cup Missing /\ route \notin Pages /\ route \notin Locked /\ (r \in Missing => r \notin Locked)
    BY <2>2, RoutesApart
  <2>4. OneRead' /\ ComesToTheRoute'
    BY <2>1 DEF OneRead, ComesToTheRoute, Coming
  <2>5. TheScreen'
    <3>0. route' = route /\ signInNeeded' = signInNeeded /\ signInNeeded \in BOOLEAN
      BY <1>1, <1>2 DEF NavTyped
    <3>1. signInNeeded' = (route' \in Locked)
      BY <2>2, <2>3, <3>0
    <3>2. CASE answer.error = "none"
      <4>1. r \in Pages /\ shown'.of = r /\ routeParam'
        BY <1>3, <1>4, <3>2
      <4> QED BY <2>2, <2>3, <3>0, <3>1, <4>1 DEF TheScreen
    <3>3. CASE answer.error # "none"
      <4>1. r \notin Pages \/ error' = "failed"
        BY <1>3, <1>4, <3>3
      <4>2. shown' = NoPage
        BY <1>3, <1>4, <3>3
      <4> QED BY <2>2, <2>3, <3>0, <3>1, <4>1, <4>2 DEF TheScreen
    <3> QED BY <3>2, <3>3
  <2>6. DoorFollows'
    BY <1>2, <2>0, <2>1, <2>3 DEF DoorFollows
  <2>7. OwedIsShown'
    <3> SUFFICES ASSUME owed # NoPage
                 PROVE  /\ owed.of \in Pages /\ owed.version <= version[owed.of]
                        /\ shown'.of = owed.of => shown'.version >= owed.version
      BY <1>2 DEF OwedIsShown
    <3>1. owed.of \in Pages /\ owed.version <= version[owed.of]
      BY <2>0 DEF OwedIsShown
    <3>2. CASE answer.error = "none"
      <4>1. shown'.of = r /\ shown'.version = version[r] /\ version[r] \in Int
        BY <1>1, <1>3, <1>4, <2>2, <3>2 DEF NavTyped
      <4>2. owed.version \in Int
        BY <1>1 DEF NavTyped, Page
      <4> QED BY <3>1, <4>1, <4>2
    <3>3. CASE answer.error # "none"
      BY <1>3, <1>4, <3>1, <3>3, RoutesApart
    <3> QED BY <3>1, <3>2, <3>3
  <2> QED BY <2>4, <2>5, <2>6, <2>7 DEF WhatCameIsShown
<1> QED BY <1>7, <1>8 DEF NavInv

LEMMA ContextAnsweredOk ==
  ASSUME NavInv, NEW i \in Read, ContextAnswered(i), patient' = patient
  PROVE  NavInv'
<1>1. NavTyped /\ reads[i].phase = "context" /\ ReadBecomes(i, NoRead)
  BY DEF NavInv, ContextAnswered
<1>2. UNCHANGED <<version, cached, route, shown, error, routeParam, signInNeeded, entering, owed>>
  BY DEF ContextAnswered, server, screen
<1>3. \/ /\ editing' = IF reads[i].route \in Pages THEN reads[i].route ELSE NoRoute
         /\ UNCHANGED <<denied, mounted>>
      \/ editing' = NoContext /\ denied' = TRUE /\ mounted' = NoRoute
  BY DEF ContextAnswered
<1>4. /\ reads' \in [Read -> [phase : ReadPhase, route : Routes \cup {NoRoute}, fresh : BOOLEAN]]
      /\ reads'[i].phase = "no" /\ \A j \in Read : j # i => reads'[j] = reads[j]
  <2>1. NoRead.phase = "no"
    BY DEF NoRead
  <2> QED BY <1>1, <2>1, NoReadTyped, ReadMoves
<1>5. NavTyped'
  BY <1>1, <1>2, <1>3, <1>4 DEF NavTyped
<1>6. ASSUME patient
      PROVE  OneRead' /\ ComesToTheRoute' /\ WhatCameIsShown' /\ DoorFollows' /\ OwedIsShown'
  <2>0. OneRead /\ ComesToTheRoute /\ WhatCameIsShown /\ DoorFollows /\ OwedIsShown
    BY <1>6 DEF NavInv
  <2>1. reads[i].route = route /\ \A j \in Read : reads'[j].phase = "no"
    BY <1>1, <1>4, <2>0 DEF OneRead
  <2>2. AllCame
    BY <1>1, <1>4, <2>1 DEF AllCame, Coming
  <2>3. OneRead' /\ ComesToTheRoute'
    BY <2>1 DEF OneRead, ComesToTheRoute, Coming
  <2>4. WhatCameIsShown' /\ OwedIsShown'
    BY <1>2, <2>0, <2>2 DEF WhatCameIsShown, OwedIsShown, TheScreen
  <2>5. DoorFollows'
    <3>1. route \in Pages => editing' \in {route, NoContext}
      BY <1>3, <2>1
    <3>2. route \in Pages => mounted' \in {route, NoRoute}
      BY <1>3, <2>0 DEF DoorFollows
    <3>3. denied' => editing' = NoContext
      <4>1. ~denied
        BY <1>1, <2>0 DEF DoorFollows
      <4> QED BY <1>3, <4>1
    <3> QED BY <1>2, <2>1, <3>1, <3>2, <3>3 DEF DoorFollows
  <2> QED BY <2>3, <2>4, <2>5
<1> QED BY <1>5, <1>6 DEF NavInv

LEMMA ShownPageAnsweredOk ==
  ASSUME NavInv, NEW i \in Read, ShownPageAnswered(i), patient' = patient
  PROVE  NavInv'
<1> DEFINE r == reads[i].route
<1>1. NavTyped /\ reads[i].phase = "shown" /\ ReadBecomes(i, NoRead)
  BY DEF NavInv, ShownPageAnswered
<1>2. UNCHANGED <<version, route, error, routeParam, signInNeeded, editing, denied, entering, mounted, owed>>
  BY DEF ShownPageAnswered, door
<1>3. PICK answer \in FetchPage(r, TRUE) :
        Cache(answer) /\ shown' = IF answer.error = "none" THEN answer.page ELSE shown
  BY DEF ShownPageAnswered
<1> HIDE DEF r
<1>4. answer.error = "none" =>
        /\ r \in Pages /\ answer.page \in Page /\ answer.page.of = r
        /\ answer.page.version \in 0..MaxVersion /\ answer.page.version = version[r]
  BY <1>1, Fetched
<1>5. cached' \in [Pages -> 0..MaxVersion]
  BY <1>1, <1>3, CacheTyped
<1>6. /\ reads' \in [Read -> [phase : ReadPhase, route : Routes \cup {NoRoute}, fresh : BOOLEAN]]
      /\ reads'[i].phase = "no" /\ \A j \in Read : j # i => reads'[j] = reads[j]
  <2>1. NoRead.phase = "no"
    BY DEF NoRead
  <2> QED BY <1>1, <2>1, NoReadTyped, ReadMoves
<1>7. NavTyped'
  BY <1>1, <1>2, <1>3, <1>4, <1>5, <1>6 DEF NavTyped
<1>8. ASSUME patient
      PROVE  OneRead' /\ ComesToTheRoute' /\ WhatCameIsShown' /\ DoorFollows' /\ OwedIsShown'
  <2>0. OneRead /\ ComesToTheRoute /\ WhatCameIsShown /\ DoorFollows /\ OwedIsShown
    BY <1>8 DEF NavInv
  <2>1. r = route /\ \A j \in Read : reads'[j].phase = "no" /\ (j # i => reads[j].phase = "no")
    BY <1>1, <1>6, <2>0 DEF OneRead, r
  <2>2. AllCame /\ \A j \in Read : reads[j].phase # "context"
    BY <1>1, <2>1 DEF AllCame, Coming
  <2>3. OneRead' /\ ComesToTheRoute' /\ DoorFollows'
    BY <1>2, <2>0, <2>1, <2>2 DEF OneRead, ComesToTheRoute, Coming, DoorFollows
  <2>4. TheScreen'
    <3>1. TheScreen
      BY <2>0, <2>2 DEF WhatCameIsShown
    <3> QED BY <1>2, <1>3, <1>4, <2>1, <3>1 DEF TheScreen
  <2>5. OwedIsShown'
    <3> SUFFICES ASSUME owed # NoPage
                 PROVE  /\ owed.of \in Pages /\ owed.version <= version[owed.of]
                        /\ shown'.of = owed.of => shown'.version >= owed.version
      BY <1>2 DEF OwedIsShown
    <3>1. /\ owed.of \in Pages /\ owed.version <= version[owed.of]
          /\ shown.of = owed.of => shown.version >= owed.version
      BY <2>0, <2>2 DEF OwedIsShown
    <3>2. CASE answer.error = "none"
      <4>1. shown'.of = r /\ shown'.version = version[r] /\ version[r] \in Int
        BY <1>1, <1>3, <1>4, <3>2 DEF NavTyped
      <4>2. owed.version \in Int
        BY <1>1 DEF NavTyped, Page
      <4> QED BY <3>1, <4>1, <4>2
    <3> QED BY <1>3, <3>1, <3>2
  <2> QED BY <2>3, <2>4, <2>5 DEF WhatCameIsShown
<1> QED BY <1>7, <1>8 DEF NavInv

(* The editor is opened, arrives and publishes.                            *)
LEMMA EditorOk ==
  ASSUME NavInv, patient' = patient,
         \/ (patient => AllQuiet /\ ~entering) /\ (EnterEditMode \/ Publish)
         \/ EditorLoaded
  PROVE  NavInv'
<1>0. NavTyped
  BY DEF NavInv
<1>1. CASE EnterEditMode /\ (patient => AllQuiet)
  <2>1. /\ UNCHANGED <<version, cached, route, shown, error, routeParam, signInNeeded, editing, denied, mounted,
                       reads, owed>>
        /\ entering' = TRUE
    BY <1>1 DEF EnterEditMode, server, screen
  <2>2. NavTyped'
    BY <1>0, <2>1 DEF NavTyped
  <2>3. patient => OneRead'
    BY <1>1, <2>1 DEF NavInv, OneRead, AllQuiet
  <2> QED BY <2>1, <2>2, <2>3 DEF NavInv, ComesToTheRoute, WhatCameIsShown, TheScreen, AllCame, DoorFollows, OwedIsShown
<1>2. CASE EditorLoaded
  <2>1. /\ UNCHANGED <<version, cached, route, shown, error, routeParam, signInNeeded, editing, denied, reads, owed>>
        /\ entering /\ entering' = FALSE
        /\ mounted' \in {mounted} \cup (IF HostRendered THEN {editing} ELSE {})
    BY <1>2 DEF EditorLoaded, server, screen
  <2>2. mounted' = mounted \/ (mounted' = editing /\ editing \notin {NoContext, NoRoute})
    BY <2>1 DEF HostRendered
  <2>3. NavTyped'
    BY <1>0, <2>1, <2>2 DEF NavTyped
  <2>4. patient => DoorFollows'
    <3> SUFFICES ASSUME patient PROVE DoorFollows'
      OBVIOUS
    <3>1. OneRead /\ DoorFollows
      BY DEF NavInv
    <3>2. AllCame /\ \A i \in Read : reads[i].phase # "context"
      BY <2>1, <3>1 DEF OneRead, AllCame, Coming
    <3>3. route \in Pages => mounted' \in {route, NoRoute}
      BY <2>2, <3>1, <3>2 DEF DoorFollows
    <3> QED BY <2>1, <3>1, <3>3 DEF DoorFollows, AllCame
  <2>5. patient => OneRead'
    BY <2>1 DEF NavInv, OneRead
  <2> QED BY <2>1, <2>3, <2>4, <2>5 DEF NavInv, ComesToTheRoute, WhatCameIsShown, TheScreen, AllCame, OwedIsShown
<1>3. CASE Publish /\ (patient => AllQuiet /\ ~entering)
  <2>1. /\ UNCHANGED <<cached, route, shown, error, routeParam, signInNeeded, editing, denied, entering, mounted, owed>>
        /\ mounted # NoRoute /\ version[mounted] < MaxVersion
        /\ version' = [version EXCEPT ![mounted] = @ + 1]
    BY <1>3 DEF Publish, screen, door
  <2>2. version' \in [Pages -> 0..MaxVersion] /\ \A p \in Pages : version[p] <= version'[p]
    <3>1. mounted \in Pages /\ \A p \in Pages : version[p] \in 0..MaxVersion
      BY <1>0, <2>1 DEF NavTyped
    <3>2. version[mounted] + 1 \in 0..MaxVersion
      BY <2>1, <3>1, SiteNavigationAssumption
    <3> QED BY <1>0, <2>1, <3>1, <3>2 DEF NavTyped
  <2> DEFINE state == [phase |-> "shown", route |-> route, fresh |-> TRUE]
  <2>3. /\ state \in [phase : ReadPhase, route : Routes \cup {NoRoute}, fresh : BOOLEAN]
        /\ state.phase = "shown" /\ state.route = route
    BY <1>0 DEF NavTyped, ReadPhase
  <2>4. reads' = reads \/ \E i \in Read : ReadBecomes(i, state)
    BY <1>3 DEF Publish
  <2> HIDE DEF state
  <2>5. /\ reads' \in [Read -> [phase : ReadPhase, route : Routes \cup {NoRoute}, fresh : BOOLEAN]]
        /\ \/ reads' = reads
           \/ \E i \in Read : reads'[i] = state /\ \A j \in Read : j # i => reads'[j] = reads[j]
    BY <1>0, <2>3, <2>4, ReadMoves DEF NavTyped
  <2>6. NavTyped'
    BY <1>0, <2>1, <2>2, <2>5 DEF NavTyped
  <2>7. ASSUME patient
        PROVE  OneRead' /\ ComesToTheRoute' /\ WhatCameIsShown' /\ DoorFollows' /\ OwedIsShown'
    <3>0. OneRead /\ ComesToTheRoute /\ WhatCameIsShown /\ DoorFollows /\ OwedIsShown /\ AllQuiet /\ ~entering
      BY <1>3, <2>7 DEF NavInv
    <3>1. AllCame /\ \A i \in Read : reads[i].phase # "context"
      BY <3>0 DEF AllQuiet, AllCame, Coming
    <3>2. \A i \in Read : reads'[i].phase \in {"no", "shown"}
      BY <2>3, <2>5, <3>0 DEF AllQuiet
    <3>3. OneRead'
      BY <2>1, <2>3, <2>5, <3>0 DEF OneRead, AllQuiet
    <3>4. ComesToTheRoute' /\ WhatCameIsShown' /\ DoorFollows'
      BY <2>1, <3>0, <3>1, <3>2 DEF ComesToTheRoute, Coming, WhatCameIsShown, TheScreen, DoorFollows
    <3>5. OwedIsShown'
      <4> SUFFICES ASSUME owed # NoPage
                   PROVE  /\ owed.of \in Pages /\ owed.version <= version'[owed.of]
                          /\ shown.of = owed.of => shown.version >= owed.version
        BY <2>1 DEF OwedIsShown
      <4>1. /\ owed.of \in Pages /\ owed.version <= version[owed.of]
            /\ shown.of = owed.of => shown.version >= owed.version
        BY <3>0, <3>1 DEF OwedIsShown
      <4>2. version[owed.of] <= version'[owed.of] /\ version[owed.of] \in Int /\ version'[owed.of] \in Int
            /\ owed.version \in Int
        BY <1>0, <2>2, <4>1 DEF NavTyped, Page
      <4> QED BY <4>1, <4>2
    <3> QED BY <3>3, <3>4, <3>5
  <2> QED BY <2>6, <2>7 DEF NavInv
<1> QED BY <1>1, <1>2, <1>3

LEMMA NavStepInv == NavInv /\ [NavNext]_navigationVars => NavInv'
<1> SUFFICES ASSUME NavInv, [NavNext]_navigationVars PROVE NavInv'
  OBVIOUS
<1>1. CASE (patient => AllQuiet /\ ~entering) /\ Act /\ patient' = patient
  BY <1>1, GoOk, LeaveEditModeOk, EditorOk DEF Act
<1>2. CASE Arrive /\ patient' = patient
  BY <1>2, PageAnsweredOk, ParentAnsweredOk, ContextAnsweredOk, ShownPageAnsweredOk, EditorOk DEF Arrive
<1>3. CASE UNCHANGED navigationVars
  BY <1>3 DEF navigationVars, NavInv, NavTyped, OneRead, ComesToTheRoute, WhatCameIsShown, TheScreen, AllCame,
     DoorFollows, OwedIsShown
<1> QED BY <1>1, <1>2, <1>3 DEF NavNext

(* A patient visitor sees the route's page, its parent's, the way in, or    *)
(* why there is none; and the door and the editor are the page's.          *)
THEOREM TheRouteIsOnScreen == NavSpec => []RouteIsOnScreenSerially
<1>1. NavInv => RouteIsOnScreenSerially
  <2> SUFFICES ASSUME NavInv, patient, AllQuiet
               PROVE  /\ TheScreen
                      /\ route \in Pages => editing \in {route, NoContext} /\ mounted \in {route, NoRoute}
    BY DEF RouteIsOnScreenSerially, ScreenIsTheRoutes, DoorIsThePages, TheScreen
  <2>1. AllCame /\ \A i \in Read : reads[i].phase # "context"
    BY DEF AllQuiet, AllCame, Coming
  <2> QED BY <2>1 DEF NavInv, WhatCameIsShown, DoorFollows
<1> QED BY <1>1, NavInitInv, NavStepInv, PTL DEF NavSpec

(* A patient editor who leaves is shown the page as published by then.      *)
THEOREM ThePublishedPageIsShown == NavSpec => []PublishedIsShownSerially
<1>1. NavInv => PublishedIsShownSerially
  <2>1. AllQuiet => AllCame
    BY DEF AllQuiet, AllCame, Coming
  <2> QED BY <2>1 DEF NavInv, OwedIsShown, PublishedIsShownSerially, PublishedIsShown
<1> QED BY <1>1, NavInitInv, NavStepInv, PTL DEF NavSpec
=============================================================================
