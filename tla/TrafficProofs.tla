----------------------------- MODULE TrafficProofs -----------------------------
(***************************************************************************)
(* What a page tells the traffic collector, for any places, bounds and      *)
(* settings, over any page loads, killed tabs and consents.  The argument:  *)
(* the number the browser keeps is the client's, and above every number     *)
(* told of its session; the handlers are functions of one world, so each    *)
(* has a lemma that it takes a sound world to a sound one.                  *)
(***************************************************************************)
EXTENDS Traffic, TLAPS


EventNames == {"session_start", "page_view", "form_start", "form_submit", "form_abandon"}
Session == 0..MaxSessions

Clients ==
  [phase : {"asking", "running", "off"}, consent : BOOLEAN, disabled : BOOLEAN,
   session : Session, number : Nat, queue : Seq([name : EventNames, session : Session]),
   timer : BOOLEAN, place : Places \cup {Nowhere}, form : {"untouched", "started"},
   recorderAsked : BOOLEAN]
Browsers == [kept : [session : Session, number : Nat], made : Session]
Histories == [last : [1..MaxSessions -> Int], count : Nat, rising : BOOLEAN]
Worlds == [c : Clients, b : Browsers, h : Histories]

(* The number the browser keeps is the client's, and above every number     *)
(* recorded of its session.                                                *)
WorldOk(w) ==
  /\ w \in Worlds
  /\ w.b.kept.session <= w.b.made
  /\ w.c.session # NoSession => w.b.kept = [session |-> w.c.session, number |-> w.c.number]
  /\ w.h.rising
  /\ \A s \in 1..MaxSessions : s > w.b.made => w.h.last[s] = -1
  /\ w.b.kept.session # NoSession => w.h.last[w.b.kept.session] < w.b.kept.number

TrafficInv == WorldOk(World)

(* One world after another: the visitor's consent stands, and a browser     *)
(* that kept nothing still does.                                           *)
Follows(w, v) ==
  /\ WorldOk(v) /\ v.c.consent = w.c.consent
  /\ v.b.kept # NothingKept => w.b.kept # NothingKept

LEMMA OfParts ==
  ASSUME NEW c \in Clients, NEW b \in Browsers, NEW h \in Histories,
         b.kept.session <= b.made,
         c.session # NoSession => b.kept = [session |-> c.session, number |-> c.number],
         h.rising, \A s \in 1..MaxSessions : s > b.made => h.last[s] = -1,
         b.kept.session # NoSession => h.last[b.kept.session] < b.kept.number
  PROVE  WorldOk([c |-> c, b |-> b, h |-> h])
BY DEF WorldOk, Worlds

LEMMA SameStays == ASSUME NEW w, WorldOk(w) PROVE Follows(w, w)
BY DEF Follows

LEMMA FollowOn ==
  ASSUME NEW u, NEW v, NEW w, Follows(u, v), Follows(v, w)
  PROVE  Follows(u, w)
BY DEF Follows

(* Nothing changes but what the numbers do not depend on.                  *)
LEMMA ClientMoves ==
  ASSUME NEW w, WorldOk(w), NEW c \in Clients, c.session = w.c.session, c.number = w.c.number
  PROVE  /\ WorldOk([w EXCEPT !.c = c])
         /\ c.consent = w.c.consent => Follows(w, [w EXCEPT !.c = c])
<1> DEFINE v == [w EXCEPT !.c = c]
<1>1. w \in Worlds
  BY DEF WorldOk
<1>2. v \in Worlds /\ v.c = c /\ v.b = w.b /\ v.h = w.h
  BY <1>1 DEF Worlds
<1> HIDE DEF v
<1>3. WorldOk(v)
  BY <1>2 DEF WorldOk
<1> QED BY <1>2, <1>3 DEF Follows, v

LEMMA QueueMoves ==
  ASSUME NEW c \in Clients, NEW q \in Seq([name : EventNames, session : Session]),
         NEW n \in Nat
  PROVE  /\ [c EXCEPT !.timer = FALSE, !.queue = q] \in Clients
         /\ [c EXCEPT !.number = n, !.queue = q] \in Clients
         /\ [c EXCEPT !.number = n, !.queue = q].number = n
         /\ [c EXCEPT !.number = n, !.queue = q].session = c.session
         /\ [c EXCEPT !.number = n, !.queue = q].consent = c.consent
<1> DEFINE S == Seq([name : EventNames, session : Session])
<1>1. q \in S /\ Clients = [phase : {"asking", "running", "off"}, consent : BOOLEAN,
        disabled : BOOLEAN, session : Session, number : Nat, queue : S, timer : BOOLEAN,
        place : Places \cup {Nowhere}, form : {"untouched", "started"}, recorderAsked : BOOLEAN]
  BY DEF Clients
<1> HIDE DEF S
<1> QED BY <1>1

LEMMA FlushOk == ASSUME NEW w, WorldOk(w) PROVE Follows(w, Flush(w))
<1> DEFINE c == [w.c EXCEPT !.timer = FALSE, !.queue = <<>>]
<1>1. w \in Worlds /\ w.c \in Clients
  BY DEF WorldOk, Worlds
<1>2. Flush(w) = [w EXCEPT !.c = c]
  BY <1>1 DEF Flush, Worlds
<1>3. c \in Clients /\ c.session = w.c.session /\ c.number = w.c.number /\ c.consent = w.c.consent
  <2>1. <<>> \in Seq([name : EventNames, session : Session])
    OBVIOUS
  <2>2. c \in Clients
    <3> DEFINE q == <<>>
    <3>1. q \in Seq([name : EventNames, session : Session]) /\ 0 \in Nat
      BY <2>1
    <3>2. c = [w.c EXCEPT !.timer = FALSE, !.queue = q]
      OBVIOUS
    <3> HIDE DEF q, c
    <3> QED BY <1>1, <3>1, <3>2, QueueMoves
  <2> QED BY <1>1, <2>2 DEF Clients
<1> HIDE DEF c
<1> QED BY <1>2, <1>3, ClientMoves

(* An event under the session's next number, which rises.                  *)
LEMMA RecordOk ==
  ASSUME NEW w, WorldOk(w), NEW name \in EventNames
  PROVE  Follows(w, Record(w, name))
<1> DEFINE c == w.c
           d == [c EXCEPT !.number = @ + 1,
                          !.queue = Append(@, [name |-> name, session |-> c.session])]
           b == [w.b EXCEPT !.kept = PersistSequence(@, c)]
           last == [s \in DOMAIN w.h.last |-> IF s = c.session THEN c.number ELSE w.h.last[s]]
           h == [w.h EXCEPT !.count = @ + 1, !.rising = @ /\ Rises(w.h, c), !.last = last]
           queued == [c |-> d, b |-> b, h |-> h]
<1>1. /\ w \in Worlds /\ c \in Clients /\ w.b \in Browsers /\ w.h \in Histories
      /\ c.session \in Session /\ c.number \in Nat
      /\ w.b.kept \in [session : Session, number : Nat] /\ w.b.made \in Session
      /\ w.h.last \in [1..MaxSessions -> Int] /\ w.h.rising /\ MaxSessions \in Nat
  BY TrafficAssumption DEF WorldOk, Worlds, Clients, Browsers, Histories
<1>2. /\ d \in Clients /\ d.session = c.session /\ d.number = c.number + 1
      /\ d.consent = c.consent
  <2>1. [name |-> name, session |-> c.session] \in [name : EventNames, session : Session]
    BY <1>1
  <2>2. Append(c.queue, [name |-> name, session |-> c.session])
          \in Seq([name : EventNames, session : Session])
    BY <1>1, <2>1 DEF Clients
  <2>3. c.number + 1 \in Nat
    BY <1>1
  <2> DEFINE q == Append(c.queue, [name |-> name, session |-> c.session])
             n == c.number + 1
  <2>4. d = [c EXCEPT !.number = n, !.queue = q]
    BY <1>1 DEF Clients
  <2>5. q \in Seq([name : EventNames, session : Session]) /\ n \in Nat
    BY <2>2, <2>3
  <2> HIDE DEF q, n, c, d
  <2>6. d \in Clients /\ d.session = c.session /\ d.number = n /\ d.consent = c.consent
    <3>1. c \in Clients
      BY <1>1
    <3> HIDE <1>1
    <3> QED BY <3>1, <2>4, <2>5, QueueMoves
  <2> QED BY <2>6 DEF n
<1>3. /\ b \in Browsers /\ b.made = w.b.made /\ b.kept.session = w.b.kept.session
      /\ c.session = NoSession => b.kept = w.b.kept
      /\ c.session # NoSession => b.kept = [session |-> c.session, number |-> c.number + 1]
  <2>1. c.session # NoSession => w.b.kept = [session |-> c.session, number |-> c.number]
    BY DEF WorldOk
  <2>2. /\ b.kept = PersistSequence(w.b.kept, c) /\ b.made = w.b.made
        /\ b = [kept |-> PersistSequence(w.b.kept, c), made |-> w.b.made]
    BY <1>1 DEF Browsers
  <2>3. CASE c.session = NoSession
    BY <1>1, <2>2, <2>3 DEF PersistSequence, Browsers
  <2>4. CASE c.session # NoSession
    <3>1. PersistSequence(w.b.kept, c) = [session |-> c.session, number |-> c.number + 1]
      BY <1>1, <2>1, <2>4 DEF PersistSequence
    <3> QED BY <1>1, <2>1, <2>2, <2>4, <3>1 DEF Browsers
  <2> QED BY <2>3, <2>4
<1>4. Rises(w.h, c)
  BY DEF Rises, WorldOk
<1>5. /\ last \in [1..MaxSessions -> Int]
      /\ \A s \in 1..MaxSessions : last[s] = IF s = c.session THEN c.number ELSE w.h.last[s]
  BY <1>1
<1> HIDE DEF last
<1>6. h \in Histories /\ h.last = last /\ h.rising
  <2> DEFINE rising == w.h.rising /\ Rises(w.h, c)
  <2>1. rising = TRUE
    BY <1>1, <1>4
  <2>2. h = [w.h EXCEPT !.count = @ + 1, !.rising = rising, !.last = last]
    BY <1>1 DEF Histories
  <2> HIDE DEF rising, h
  <2>3. h = [w.h EXCEPT !.count = @ + 1, !.rising = TRUE, !.last = last]
    BY <2>1, <2>2
  <2>4. h = [last |-> last, count |-> w.h.count + 1, rising |-> TRUE] /\ w.h.count \in Nat
    BY <1>1, <2>3 DEF Histories
  <2>5. w.h.count + 1 \in Nat
    BY <2>4
  <2> QED BY <1>5, <2>4, <2>5 DEF Histories
<1>7. queued.c = d /\ queued.b = b /\ queued.h = h
  OBVIOUS
<1>8. Record(w, name) \in {w, Flush(queued), [queued EXCEPT !.c.timer = TRUE]}
  BY DEF Record, last
<1> HIDE DEF d, b, h
<1>9. WorldOk(queued)
  <2>1. c.session # NoSession => w.b.kept = [session |-> c.session, number |-> c.number]
    BY DEF WorldOk
  <2>2. b.kept.session <= b.made
    BY <1>3 DEF WorldOk
  <2>3. d.session # NoSession => b.kept = [session |-> d.session, number |-> d.number]
    BY <1>2, <1>3
  <2>4. \A s \in 1..MaxSessions : s > b.made => h.last[s] = -1
    <3>1. c.session # NoSession => c.session <= w.b.made
      BY <2>1 DEF WorldOk
    <3>2. \A s \in 1..MaxSessions : s > w.b.made => s # c.session
      BY <1>1, <3>1 DEF NoSession, Session
    <3> QED BY <1>3, <1>5, <1>6, <3>2 DEF WorldOk
  <2>5. b.kept.session # NoSession => h.last[b.kept.session] < b.kept.number
    <3>1. CASE c.session = NoSession
      <4>1. w.b.kept.session # NoSession => w.b.kept.session \in 1..MaxSessions
        BY <1>1 DEF Session, NoSession
      <4> QED BY <1>3, <1>5, <1>6, <3>1, <4>1 DEF WorldOk
    <3>2. CASE c.session # NoSession
      <4>1. c.session \in 1..MaxSessions
        BY <1>1, <3>2 DEF Session, NoSession
      <4>2. b.kept.session = c.session /\ b.kept.number = c.number + 1 /\ h.last[c.session] = c.number
        BY <1>3, <1>5, <1>6, <3>2, <4>1
      <4> QED BY <1>1, <4>2
    <3> QED BY <3>1, <3>2
  <2> QED BY <1>2, <1>3, <1>6, <2>2, <2>3, <2>4, <2>5, OfParts
<1>10. queued.b.kept # NothingKept => w.b.kept # NothingKept
  <2>1. c.session # NoSession => w.b.kept.session # NoSession
    BY DEF WorldOk
  <2> QED BY <1>3, <1>7, <2>1 DEF NothingKept
<1>11. Follows(w, queued)
  BY <1>2, <1>7, <1>9, <1>10 DEF Follows
<1> DEFINE armed == [queued EXCEPT !.c.timer = TRUE]
<1>12. Follows(queued, armed)
  <2>1. armed = [queued EXCEPT !.c = [d EXCEPT !.timer = TRUE]]
    BY <1>7
  <2>2. /\ [d EXCEPT !.timer = TRUE] \in Clients /\ [d EXCEPT !.timer = TRUE].session = d.session
        /\ [d EXCEPT !.timer = TRUE].number = d.number
        /\ [d EXCEPT !.timer = TRUE].consent = d.consent
    BY <1>2 DEF Clients
  <2> HIDE DEF armed, queued
  <2> QED BY <1>7, <1>9, <2>1, <2>2, ClientMoves
<1>13. Follows(queued, Flush(queued))
  BY <1>9, FlushOk
<1>14. Record(w, name) \in {w, Flush(queued), armed}
  BY <1>8
<1> HIDE DEF queued, armed
<1> QED BY <1>11, <1>12, <1>13, <1>14, SameStays, FollowOn

LEMMA AbandonFormsOk == ASSUME NEW w, WorldOk(w) PROVE Follows(w, AbandonForms(w))
<1> DEFINE c == [w.c EXCEPT !.form = "untouched"]
           v == [w EXCEPT !.c = c]
<1>1. w \in Worlds /\ w.c \in Clients
  BY DEF WorldOk, Worlds
<1>2. c \in Clients /\ c.session = w.c.session /\ c.number = w.c.number /\ c.consent = w.c.consent
  BY <1>1 DEF Clients
<1>3. AbandonForms(w) \in {w, Record(v, "form_abandon")}
  BY <1>1 DEF AbandonForms, Worlds
<1> HIDE DEF c
<1>4. Follows(w, v)
  BY <1>2, ClientMoves
<1> HIDE DEF v
<1>5. WorldOk(v) /\ "form_abandon" \in EventNames
  BY <1>4 DEF Follows, EventNames
<1>6. Follows(v, Record(v, "form_abandon"))
  BY <1>5, RecordOk
<1> QED BY <1>3, <1>4, <1>6, SameStays, FollowOn

LEMMA PageViewOk ==
  ASSUME NEW w, WorldOk(w), NEW place \in Places
  PROVE  Follows(w, PageView(w, place))
<1> DEFINE c == [w.c EXCEPT !.place = place, !.form = "untouched"]
           v == [w EXCEPT !.c = c]
<1>1. w \in Worlds /\ w.c \in Clients
  BY DEF WorldOk, Worlds
<1>2. c \in Clients /\ c.session = w.c.session /\ c.number = w.c.number /\ c.consent = w.c.consent
  BY <1>1 DEF Clients
<1>3. PageView(w, place) \in {w, Record(v, "page_view")}
  BY <1>1 DEF PageView, Worlds
<1> HIDE DEF c
<1>4. Follows(w, v)
  BY <1>2, ClientMoves
<1> HIDE DEF v
<1>5. WorldOk(v) /\ "page_view" \in EventNames
  BY <1>4 DEF Follows, EventNames
<1>6. Follows(v, Record(v, "page_view"))
  BY <1>5, RecordOk
<1> QED BY <1>3, <1>4, <1>6, SameStays, FollowOn

LEMMA LoadRecorderOk == ASSUME NEW w, WorldOk(w) PROVE Follows(w, LoadRecorder(w))
<1> DEFINE c == [w.c EXCEPT !.recorderAsked = TRUE]
           v == [w EXCEPT !.c = c]
<1>1. w \in Worlds /\ w.c \in Clients
  BY DEF WorldOk, Worlds
<1>2. c \in Clients /\ c.session = w.c.session /\ c.number = w.c.number /\ c.consent = w.c.consent
  BY <1>1 DEF Clients
<1>3. LoadRecorder(w) \in {w, v}
  BY <1>1 DEF LoadRecorder, Worlds
<1> HIDE DEF c
<1> QED BY <1>2, <1>3, SameStays, ClientMoves

(* The session that was kept is taken up with its next number; a new one    *)
(* has told nothing yet.                                                   *)
LEMMA RestoreIdentityOk ==
  ASSUME NEW w, WorldOk(w)
  PROVE  /\ WorldOk(RestoreIdentity(w)) /\ RestoreIdentity(w).c.consent = w.c.consent
         /\ RestoreIdentity(w).b.kept # NothingKept => w.b.kept # NothingKept \/ MayPersist(w.c)
<1>1. /\ w \in Worlds /\ w.c \in Clients /\ w.b \in Browsers /\ w.h \in Histories
      /\ w.b.kept \in [session : Session, number : Nat] /\ w.b.made \in Session
      /\ w = [c |-> w.c, b |-> w.b, h |-> w.h] /\ MaxSessions \in Nat
  BY TrafficAssumption DEF WorldOk, Worlds, Browsers
<1> DEFINE taken == [w.c EXCEPT !.session = w.b.kept.session, !.number = w.b.kept.number]
           s == w.b.made + 1
           fresh == [w.c EXCEPT !.session = s, !.number = 0]
           b == [kept |-> [session |-> s, number |-> 0], made |-> s]
           v == [c |-> taken, b |-> w.b, h |-> w.h]
           u == [c |-> fresh, b |-> b, h |-> w.h]
<1>2. CASE ~MayPersist(w.c) \/ (w.b.kept.session = NoSession /\ w.b.made = MaxSessions)
  <2>1. RestoreIdentity(w) = w
    BY <1>2 DEF RestoreIdentity
  <2> QED BY <2>1
<1>3. CASE MayPersist(w.c) /\ w.b.kept.session # NoSession
  <2>1. RestoreIdentity(w) = v
    BY <1>1, <1>3 DEF RestoreIdentity, Worlds
  <2>2. /\ taken \in Clients /\ taken.session = w.b.kept.session
        /\ taken.number = w.b.kept.number /\ taken.consent = w.c.consent
    BY <1>1 DEF Clients
  <2>3. w.b.kept = [session |-> taken.session, number |-> taken.number]
    BY <1>1, <2>2
  <2> HIDE DEF taken
  <2>4. WorldOk(v)
    <3>1. /\ w.b.kept.session <= w.b.made /\ w.h.rising
          /\ \A i \in 1..MaxSessions : i > w.b.made => w.h.last[i] = -1
          /\ w.b.kept.session # NoSession => w.h.last[w.b.kept.session] < w.b.kept.number
      BY DEF WorldOk
    <3> QED BY <1>1, <2>2, <2>3, <3>1, OfParts
  <2>5. v.c.consent = w.c.consent
    BY <2>2
  <2> HIDE DEF v
  <2> QED BY <1>3, <2>1, <2>4, <2>5
<1>4. CASE MayPersist(w.c) /\ w.b.kept.session = NoSession /\ w.b.made # MaxSessions
  <2>1. RestoreIdentity(w) = Record(u, "session_start")
    <3> DEFINE w1 == [w EXCEPT !.b = b]
    <3>1. w1 = [c |-> w.c, b |-> b, h |-> w.h]
      BY <1>1
    <3>2. [[w1 EXCEPT !.c.session = s] EXCEPT !.c.number = 0] = u
      <4> DEFINE c1 == [w.c EXCEPT !.session = s]
                 w2 == [w1 EXCEPT !.c = c1]
      <4>1. w2 = [c |-> c1, b |-> b, h |-> w.h]
        <5> HIDE DEF b, c1, w1, s
        <5> QED BY <3>1
      <4>2. [w2 EXCEPT !.c = fresh] = u
        <5> HIDE DEF b, c1, w1, w2, s, fresh
        <5> QED BY <4>1
      <4>3. w1.c = w.c /\ w2.c = c1 /\ fresh = [c1 EXCEPT !.number = 0]
        <5>1. fresh = [c1 EXCEPT !.number = 0]
          <6> HIDE DEF s
          <6> QED BY <1>1 DEF Clients
        <5> HIDE DEF b, c1, w1, w2, s, fresh
        <5> QED BY <3>1, <4>1, <5>1
      <4> QED BY <4>2, <4>3
    <3>3. [w EXCEPT !.b = b, !.c.session = s, !.c.number = 0] = u
      BY <3>2
    <3> QED BY <1>4, <3>3 DEF RestoreIdentity
  <2>2. s \in Session /\ s \in 1..MaxSessions /\ s # NoSession
    BY <1>1, <1>4 DEF Session, NoSession
  <2>3. /\ fresh \in Clients /\ fresh.session = s
        /\ fresh.number = 0 /\ fresh.consent = w.c.consent
    <3>1. 0 \in Nat
      OBVIOUS
    <3> HIDE DEF s
    <3> QED BY <1>1, <2>2, <3>1 DEF Clients
  <2>4. /\ b \in Browsers /\ b.made = s /\ b.kept.session = s /\ b.kept.number = 0
        /\ b.kept = [session |-> s, number |-> 0]
    BY <2>2 DEF Browsers
  <2>5. w.h.last[s] = -1 /\ w.h.rising /\ \A i \in 1..MaxSessions : i > s => w.h.last[i] = -1
    <3>1. w.h.rising /\ \A i \in 1..MaxSessions : i > w.b.made => w.h.last[i] = -1
      BY DEF WorldOk
    <3>2. w.b.made \in Nat /\ s > w.b.made /\ \A i \in 1..MaxSessions : i > s => i > w.b.made
      BY <1>1 DEF Session
    <3> QED BY <2>2, <3>1, <3>2
  <2> HIDE DEF fresh, b
  <2>6. WorldOk(u)
    <3>1. b.kept.session <= b.made
      BY <2>2, <2>4 DEF Session
    <3>2. fresh.session # NoSession => b.kept = [session |-> fresh.session, number |-> fresh.number]
      BY <2>3, <2>4
    <3>3. \A i \in 1..MaxSessions : i > b.made => w.h.last[i] = -1
      BY <2>4, <2>5
    <3>4. b.kept.session # NoSession => w.h.last[b.kept.session] < b.kept.number
      BY <2>4, <2>5
    <3> QED BY <1>1, <2>3, <2>4, <2>5, <3>1, <3>2, <3>3, <3>4, OfParts
  <2>7. u.c.consent = w.c.consent
    BY <2>3
  <2> HIDE DEF u
  <2>8. Follows(u, Record(u, "session_start"))
    BY <2>6, RecordOk DEF EventNames
  <2> QED BY <1>4, <2>1, <2>7, <2>8 DEF Follows
<1>5. MayPersist(w.c) \in BOOLEAN
  BY DEF MayPersist
<1> QED BY <1>2, <1>3, <1>4, <1>5

LEMMA ForgetIdentityOk == ASSUME NEW w, WorldOk(w) PROVE Follows(w, ForgetIdentity(w))
<1> DEFINE c == [w.c EXCEPT !.session = NoSession]
           b == [w.b EXCEPT !.kept = NothingKept]
           v == [c |-> c, b |-> b, h |-> w.h]
<1>1. /\ w \in Worlds /\ w.c \in Clients /\ w.b \in Browsers /\ w.h \in Histories
      /\ w.b.made \in Session /\ NoSession \in Session /\ MaxSessions \in Nat
      /\ w = [c |-> w.c, b |-> w.b, h |-> w.h]
  BY TrafficAssumption DEF WorldOk, Worlds, Browsers, Session, NoSession
<1>2. ForgetIdentity(w) = v
  <2> DEFINE w1 == [w EXCEPT !.c = c]
  <2>1. w1 = [c |-> c, b |-> w.b, h |-> w.h]
    <3> HIDE DEF c
    <3> QED BY <1>1
  <2>2. [w1 EXCEPT !.b = [w1.b EXCEPT !.kept = NothingKept]] = v
    <3> HIDE DEF w1, c
    <3> QED BY <2>1
  <2> QED BY <2>2 DEF ForgetIdentity
<1>3. c \in Clients /\ c.session = NoSession /\ c.consent = w.c.consent
  BY <1>1 DEF Clients
<1>4. b \in Browsers /\ b.made = w.b.made /\ b.kept = NothingKept /\ b.kept.session = NoSession
  BY <1>1 DEF Browsers, NothingKept
<1> HIDE DEF c, b
<1>5. WorldOk(v)
  <2>1. b.kept.session <= b.made
    BY <1>1, <1>4 DEF Session, NoSession
  <2>2. w.h.rising /\ \A s \in 1..MaxSessions : s > w.b.made => w.h.last[s] = -1
    BY DEF WorldOk
  <2> QED BY <1>1, <1>3, <1>4, <2>1, <2>2, OfParts
<1> QED BY <1>2, <1>3, <1>4, <1>5 DEF Follows

-----------------------------------------------------------------------------
(* Each step of the client is a world that is sound, and a browser that     *)
(* kept nothing keeps something only when it may.                          *)
KeepsWhatItMay == browser.kept = NothingKept /\ browser'.kept # NothingKept => MayPersist(client')

LEMMA Lands ==
  ASSUME NEW w, WorldOk(w), Becomes(w)
  PROVE  TrafficInv' /\ client' = w.c /\ browser' = w.b
<1>1. World' = w
  BY DEF WorldOk, Worlds, Becomes, World
<1> QED BY <1>1 DEF Becomes, TrafficInv

LEMMA LandsQuietly ==
  ASSUME NEW v, NEW w, v.b = browser, Follows(v, w), Becomes(w)
  PROVE  TrafficInv' /\ KeepsWhatItMay
<1>1. WorldOk(w)
  BY DEF Follows
<1>2. TrafficInv' /\ client' = w.c /\ browser' = w.b
  BY <1>1, Lands
<1> QED BY <1>2 DEF Follows, KeepsWhatItMay

LEMMA ClientStands ==
  ASSUME TrafficInv, UNCHANGED <<client, browser, told>>
  PROVE  TrafficInv' /\ KeepsWhatItMay
BY DEF TrafficInv, World, WorldOk, KeepsWhatItMay

LEMMA WorldIsSound ==
  ASSUME TrafficInv
  PROVE  /\ WorldOk(World) /\ World \in Worlds /\ client \in Clients
         /\ World.c = client /\ World.b = browser /\ World.h = told
BY DEF TrafficInv, WorldOk, World, Worlds

LEMMA StartOk == ASSUME TrafficInv, Start PROVE TrafficInv' /\ KeepsWhatItMay
<1>0. PICK place \in Places :
        Becomes(PageView(LoadRecorder(RestoreIdentity(
          [World EXCEPT !.c.phase = "running", !.c.consent = ~settings.consentRequired])), place))
  BY DEF Start
<1>1. WorldOk(World) /\ World \in Worlds /\ client \in Clients /\ World.c = client /\ World.b = browser
  BY WorldIsSound
<1> DEFINE consent == ~settings.consentRequired
           c == [client EXCEPT !.phase = "running", !.consent = consent]
           v == [World EXCEPT !.c = c]
           a == RestoreIdentity(v)
           l == LoadRecorder(a)
           w == PageView(l, place)
<1>2. c \in Clients /\ c.session = client.session /\ c.number = client.number
  <2>1. consent \in BOOLEAN
    OBVIOUS
  <2> HIDE DEF consent
  <2> QED BY <1>1, <2>1 DEF Clients
<1>3. [World EXCEPT !.c.phase = "running", !.c.consent = ~settings.consentRequired] = v
  BY <1>1 DEF Worlds
<1> HIDE DEF c
<1>4. WorldOk(v) /\ v.c = c /\ v.b = browser
  BY <1>1, <1>2, ClientMoves DEF Worlds
<1> HIDE DEF v
<1>5. /\ WorldOk(a) /\ a.c.consent = c.consent
      /\ a.b.kept # NothingKept => browser.kept # NothingKept \/ MayPersist(c)
  BY <1>4, RestoreIdentityOk
<1> HIDE DEF a
<1>6. Follows(a, l)
  BY <1>5, LoadRecorderOk
<1> HIDE DEF l
<1>7. Follows(l, w)
  BY <1>6, PageViewOk DEF Follows
<1>8. Becomes(w)
  BY <1>0, <1>3 DEF a, l
<1> HIDE DEF w
<1>9. Follows(a, w)
  BY <1>6, <1>7, FollowOn
<1>10. TrafficInv' /\ client' = w.c /\ browser' = w.b
  BY <1>8, <1>9, Lands DEF Follows
<1> QED BY <1>5, <1>9, <1>10 DEF Follows, KeepsWhatItMay, MayPersist

LEMMA ConsentOk ==
  ASSUME TrafficInv, NEW granted \in BOOLEAN, Consent(granted)
  PROVE  TrafficInv' /\ KeepsWhatItMay
<1>1. WorldOk(World) /\ World \in Worlds /\ client \in Clients /\ World.c = client /\ World.b = browser
  BY WorldIsSound
<1> DEFINE c == [client EXCEPT !.consent = granted]
           v == [World EXCEPT !.c = c]
           a == RestoreIdentity(v)
           l == LoadRecorder(a)
           f == ForgetIdentity(v)
<1>2. c \in Clients /\ c.session = client.session /\ c.number = client.number
  BY <1>1 DEF Clients
<1>3. Becomes(IF granted THEN l ELSE f)
  <2>1. [World EXCEPT !.c.consent = granted] = v
    BY <1>1 DEF Worlds
  <2> QED BY <2>1 DEF Consent
<1> HIDE DEF c
<1>4. WorldOk(v) /\ v.c = c /\ v.b = browser
  BY <1>1, <1>2, ClientMoves DEF Worlds
<1> HIDE DEF v
<1>5. CASE granted
  <2>1. /\ WorldOk(a) /\ a.c.consent = c.consent
        /\ a.b.kept # NothingKept => browser.kept # NothingKept \/ MayPersist(c)
    BY <1>4, RestoreIdentityOk
  <2> HIDE DEF a
  <2>2. Follows(a, l)
    BY <2>1, LoadRecorderOk
  <2> HIDE DEF l
  <2>3. TrafficInv' /\ client' = l.c /\ browser' = l.b
    BY <1>3, <1>5, <2>2, Lands DEF Follows
  <2> QED BY <2>1, <2>2, <2>3 DEF Follows, KeepsWhatItMay, MayPersist
<1>6. CASE ~granted
  <2>1. Follows(v, f)
    BY <1>4, ForgetIdentityOk
  <2> HIDE DEF f
  <2> QED BY <1>3, <1>4, <1>6, <2>1, LandsQuietly
<1> QED BY <1>5, <1>6

LEMMA DisableOk == ASSUME TrafficInv, Disable PROVE TrafficInv' /\ KeepsWhatItMay
<1>1. WorldOk(World) /\ World \in Worlds /\ client \in Clients /\ World.c = client /\ World.b = browser
  BY WorldIsSound
<1> DEFINE c == [client EXCEPT !.disabled = TRUE, !.queue = <<>>]
           v == [World EXCEPT !.c = c]
           f == ForgetIdentity(v)
<1>2. c \in Clients /\ c.session = client.session /\ c.number = client.number
  <2> DEFINE q == <<>>
             S == Seq([name : EventNames, session : Session])
  <2>1. q \in S /\ c = [client EXCEPT !.disabled = TRUE, !.queue = q]
    OBVIOUS
  <2>2. Clients = [phase : {"asking", "running", "off"}, consent : BOOLEAN,
          disabled : BOOLEAN, session : Session, number : Nat, queue : S, timer : BOOLEAN,
          place : Places \cup {Nowhere}, form : {"untouched", "started"}, recorderAsked : BOOLEAN]
    BY DEF Clients
  <2> HIDE DEF q, S, c
  <2> QED BY <1>1, <2>1, <2>2
<1>3. [World EXCEPT !.c.disabled = TRUE, !.c.queue = <<>>] = v
  BY <1>1 DEF Worlds
<1> HIDE DEF c
<1>4. WorldOk(v) /\ v.b = browser
  BY <1>1, <1>2, ClientMoves DEF Worlds
<1>5. Becomes(f)
  BY <1>3 DEF Disable
<1> HIDE DEF v
<1>6. Follows(v, f)
  BY <1>4, ForgetIdentityOk
<1> HIDE DEF f
<1> QED BY <1>4, <1>5, <1>6, LandsQuietly

(* What the form and the queue say of themselves.                          *)
LEMMA FormsOk ==
  ASSUME TrafficInv, OnFocusIn \/ OnSubmit
  PROVE  TrafficInv' /\ KeepsWhatItMay
<1>1. WorldOk(World) /\ World \in Worlds /\ client \in Clients /\ World.c = client /\ World.b = browser
  BY WorldIsSound
<1>2. ASSUME NEW form \in {"untouched", "started"}
      PROVE  /\ WorldOk([World EXCEPT !.c.form = form]) /\ [World EXCEPT !.c.form = form].b = browser
  <2> DEFINE c == [client EXCEPT !.form = form]
  <2>1. c \in Clients /\ c.session = client.session /\ c.number = client.number
    BY <1>1 DEF Clients
  <2>2. [World EXCEPT !.c.form = form] = [World EXCEPT !.c = c]
    BY <1>1 DEF Worlds
  <2>3. [World EXCEPT !.c.form = form].b = browser
    BY <1>1 DEF Worlds
  <2> HIDE DEF c
  <2> QED BY <1>1, <2>1, <2>2, <2>3, ClientMoves
<1>3. CASE OnFocusIn
  <2> DEFINE v == [World EXCEPT !.c.form = "started"]
             w == Record(v, "form_start")
  <2>1. WorldOk(v) /\ v.b = browser
    BY <1>2
  <2>2. Becomes(w)
    BY <1>3 DEF OnFocusIn
  <2> HIDE DEF v
  <2>3. Follows(v, w)
    BY <2>1, RecordOk DEF EventNames
  <2> HIDE DEF w
  <2> QED BY <2>1, <2>2, <2>3, LandsQuietly
<1>4. CASE OnSubmit
  <2> DEFINE v == [World EXCEPT !.c.form = "untouched"]
             r == Record(v, "form_submit")
             w == Flush(r)
  <2>1. WorldOk(v) /\ v.b = browser
    BY <1>2
  <2>2. Becomes(w)
    BY <1>4 DEF OnSubmit
  <2> HIDE DEF v
  <2>3. Follows(v, r)
    BY <2>1, RecordOk DEF EventNames
  <2> HIDE DEF r
  <2>4. Follows(r, w)
    BY <2>3, FlushOk DEF Follows
  <2> HIDE DEF w
  <2> QED BY <2>1, <2>2, <2>3, <2>4, FollowOn, LandsQuietly
<1> QED BY <1>3, <1>4

LEMMA PostsOk ==
  ASSUME TrafficInv, Becomes(Flush(World))
  PROVE  TrafficInv' /\ KeepsWhatItMay
<1>1. WorldOk(World) /\ World.b = browser
  BY WorldIsSound
<1> QED BY <1>1, FlushOk, LandsQuietly

LEMMA NavigateOk ==
  ASSUME TrafficInv, NEW place \in Places, Navigate(place)
  PROVE  TrafficInv' /\ KeepsWhatItMay
<1>1. WorldOk(World) /\ World.b = browser
  BY WorldIsSound
<1>2. Follows(World, PageView(World, place)) /\ Becomes(PageView(World, place))
  BY <1>1, PageViewOk DEF Navigate
<1> QED BY <1>1, <1>2, LandsQuietly

(* The page goes: the next one has a client of its own.                    *)
LEMMA LeaveOk ==
  ASSUME TrafficInv, NEW killed \in BOOLEAN, Leave(killed)
  PROVE  TrafficInv' /\ KeepsWhatItMay
<1>1. WorldOk(World) /\ World.b = browser
  BY WorldIsSound
<1> DEFINE a == AbandonForms(World)
           w == IF killed \/ ~Running THEN World ELSE Flush(a)
<1>2. Follows(World, w)
  <2>1. Follows(World, a)
    BY <1>1, AbandonFormsOk
  <2> HIDE DEF a
  <2>2. Follows(a, Flush(a))
    BY <2>1, FlushOk DEF Follows
  <2> QED BY <1>1, <2>1, <2>2, SameStays, FollowOn
<1>3. Becomes([w EXCEPT !.c = NoClient])
  BY DEF Leave
<1> HIDE DEF w
<1> DEFINE v == [w EXCEPT !.c = NoClient]
<1>4. WorldOk(w)
  BY <1>2 DEF Follows
<1>5. v = [c |-> NoClient, b |-> w.b, h |-> w.h]
  BY <1>4 DEF WorldOk, Worlds
<1>6. NoClient \in Clients /\ NoClient.session = NoSession
  <2>1. <<>> \in Seq([name : EventNames, session : Session]) /\ 0 \in Nat /\ NoSession \in Session
    BY TrafficAssumption DEF Session, NoSession
  <2> QED BY <2>1 DEF NoClient, Clients
<1>7. WorldOk(v)
  BY <1>4, <1>5, <1>6 DEF WorldOk, Worlds
<1> HIDE DEF v
<1>8. browser' = w.b /\ TrafficInv'
  BY <1>3, <1>5, <1>7, Lands DEF v
<1> QED BY <1>1, <1>2, <1>8 DEF Follows, KeepsWhatItMay

-----------------------------------------------------------------------------
LEMMA TrafficInvHolds == TrafficInit => TrafficInv
<1> SUFFICES ASSUME TrafficInit PROVE TrafficInv
  OBVIOUS
<1>1. MaxSessions \in Nat /\ NoSession \in Session /\ 0 \in Nat
  BY TrafficAssumption DEF Session, NoSession
<1>2. NoClient \in Clients /\ NoClient.session = NoSession
  <2>1. <<>> \in Seq([name : EventNames, session : Session])
    OBVIOUS
  <2> QED BY <1>1, <2>1 DEF NoClient, Clients
<1>3. browser \in Browsers /\ browser.kept.session = NoSession /\ browser.made = 0
  BY <1>1 DEF TrafficInit, Browsers, NothingKept, NoSession
<1>4. told \in Histories /\ told.rising /\ \A s \in 1..MaxSessions : told.last[s] = -1
  BY <1>1 DEF TrafficInit, Histories
<1>5. client = NoClient
  BY DEF TrafficInit
<1>6. \A s \in 1..MaxSessions : s > browser.made => told.last[s] = -1
  BY <1>4
<1>7. browser.kept.session <= browser.made
  BY <1>3 DEF NoSession
<1>8. WorldOk([c |-> client, b |-> browser, h |-> told])
  BY <1>2, <1>3, <1>4, <1>5, <1>6, <1>7, OfParts
<1> QED BY <1>8 DEF TrafficInv, World

LEMMA TrafficStep ==
  ASSUME TrafficInv, [TrafficNext]_trafficVars
  PROVE  TrafficInv' /\ KeepsWhatItMay
<1>1. CASE Start
  BY <1>1, StartOk
<1>2. CASE StartFails
  <2>1. WorldOk(World) /\ World \in Worlds /\ client \in Clients /\ World.c = client /\ World.b = browser
    BY WorldIsSound
  <2> DEFINE c == [client EXCEPT !.phase = "off"]
             v == [World EXCEPT !.c = c]
  <2>2. /\ c \in Clients /\ c.session = client.session /\ c.number = client.number
        /\ c.consent = client.consent
    BY <2>1 DEF Clients
  <2>3. Becomes(v)
    BY <1>2, <2>1 DEF StartFails, Becomes, World
  <2> HIDE DEF c
  <2>4. Follows(World, v)
    BY <2>1, <2>2, ClientMoves
  <2> HIDE DEF v
  <2> QED BY <2>1, <2>3, <2>4, LandsQuietly
<1>3. CASE Disable
  BY <1>3, DisableOk
<1>4. CASE OnFocusIn \/ OnSubmit
  BY <1>4, FormsOk
<1>5. CASE FlushTimer \/ Hide
  BY <1>5, PostsOk DEF FlushTimer, Hide
<1>6. CASE \E granted \in BOOLEAN : Consent(granted)
  BY <1>6, ConsentOk
<1>7. CASE \E place \in Places : Navigate(place)
  BY <1>7, NavigateOk
<1>8. CASE StartRecorder \/ ScheduleSnapshot \/ PostTimer
  BY <1>8, ClientStands DEF StartRecorder, ScheduleSnapshot, PostTimer, Moves
<1>9. CASE \E size \in 1..MaxChunk + 1 : Push(size) \/ Snapshot(size)
  BY <1>9, ClientStands DEF Push, Snapshot
<1>10. CASE \E killed \in BOOLEAN : Leave(killed)
  BY <1>10, LeaveOk
<1>11. CASE UNCHANGED trafficVars
  BY <1>11, ClientStands DEF trafficVars
<1> QED BY <1>1, <1>2, <1>3, <1>4, <1>5, <1>6, <1>7, <1>8, <1>9, <1>10, <1>11 DEF TrafficNext

LEMMA TrafficInvariant == TrafficSpec => []TrafficInv
<1>1. TrafficInv /\ [TrafficNext]_trafficVars => TrafficInv'
  BY TrafficStep
<1> QED BY TrafficInvHolds, <1>1, PTL DEF TrafficSpec

(* Within a session the numbers of its events only rise, over page loads,   *)
(* killed tabs and consent given and withdrawn: the browser keeps the next  *)
(* one, above all that were told.                                          *)
THEOREM NumbersOnlyRise == TrafficSpec => []NumbersRise
<1>1. TrafficInv => NumbersRise
  BY DEF TrafficInv, WorldOk, World, NumbersRise
<1> QED BY TrafficInvariant, <1>1, PTL

(* A browser that keeps nothing is given a session to keep only where the   *)
(* portal keeps identities and, if it must ask, consent stands.             *)
THEOREM NothingIsKeptWithoutConsent == TrafficSpec => NothingIsKeptUnasked
<1>1. TrafficInv /\ [TrafficNext]_trafficVars
        => [browser.kept = NothingKept /\ browser'.kept # NothingKept => MayPersist(client')]_trafficVars
  BY TrafficStep DEF KeepsWhatItMay
<1> QED BY TrafficInvariant, <1>1, PTL DEF TrafficSpec, NothingIsKeptUnasked
=============================================================================
