----------------------------- MODULE QuietPush -----------------------------
(***************************************************************************)
(* Pushes to one resident who has quiet hours.  PushDeliveryService sends  *)
(* a push at once, or asks QuietHoursPolicy when the quiet hours end and   *)
(* queues it till then (PendingPushService); PendingPushDeliveryJob sends  *)
(* what is due.  Both looks at the window read the store and the clock     *)
(* anew, and the job fixes its idea of the time when it starts.            *)
(*                                                                         *)
(* The clock counts in hours of the resident's own zone.  The transport    *)
(* (PushSenderInterface) is the environment: it delivers, but for a        *)
(* bounded number of refusals, or like the one in the repository           *)
(* (LoggingPushSender) it never does.  A row may have no readable due date *)
(* and is never due; it may have no id and is never marked.                *)
(***************************************************************************)
EXTENDS Integers, FiniteSets

CONSTANTS
  Push,
  NoPush,
  Day,            \* hours in a day
  Page,           \* PendingPushService::PAGE
  DefaultStart,   \* QuietHoursPolicy::DEFAULT_START
  DefaultEnd,     \* QuietHoursPolicy::DEFAULT_END
  LastHour,       \* bound: the clock
  MaxHiccups      \* bound: deaths, refused sends, failed reads and saves

ASSUME PushConstants ==
  /\ NoPush \notin Push
  /\ Day \in Nat \ {0}
  /\ Page \in Nat \ {0}
  /\ DefaultStart \in 0..(Day - 1)
  /\ DefaultEnd \in 0..(Day - 1)
  /\ LastHour \in Nat
  /\ MaxHiccups \in Nat

VARIABLES
  hour,     \* hours since the start
  window,   \* the resident's quiet hours: [start, end]
  pending,  \* per push: its pendingPush row, if it has one
  pushed,   \* per push: how often the job sent it
  caller,   \* the push a request found quiet hours for, and when
  pusher,   \* what the job is doing
  hiccups,  \* troubles so far
  found,    \* history, per push: when, and in which window, it met quiet hours
  unmarked, \* history, per push: runs that sent it and did not mark it
  steady,   \* fixed at the start: both looks at the window and the clock see the same
  undated,  \* fixed at the start: the pushes whose row has no readable due date
  unnamed,  \* fixed at the start: the pushes whose row has no id
  delivers  \* fixed at the start: the transport delivers

pushFixed == <<steady, undated, unnamed, delivers>>
pushVars == <<hour, window, pending, pushed, caller, pusher, hiccups, found, unmarked, pushFixed>>

Hour == 0..(Day - 1)
Window == [start : Hour, end : Hour]

(* The window of whoever has none, or whose row cannot be read.            *)
DefaultWindow == [start |-> DefaultStart, end |-> DefaultEnd]

NoPending == [status |-> "none", due |-> 0]
Look == [at : 0..LastHour, window : Window]
NoRun == [phase |-> "idle", at |-> 0, left |-> {}, seen |-> {}, more |-> TRUE, push |-> NoPush]

PushTypeOK ==
  /\ hour \in 0..LastHour
  /\ window \in Window
  /\ pending \in [Push -> [status : {"none", "asked", "queued", "delivered"}, due : 0..(LastHour + Day)]]
  /\ pushed \in [Push -> Nat]
  /\ caller \in Push \cup {NoPush}
  /\ pusher \in [phase : {"idle", "page", "row", "save"}, at : 0..LastHour,
              left : SUBSET Push, seen : SUBSET Push, more : BOOLEAN, push : Push \cup {NoPush}]
  /\ hiccups \in 0..MaxHiccups
  /\ found \in [Push -> Look]
  /\ unmarked \in [Push -> Nat]
  /\ steady \in BOOLEAN
  /\ undated \subseteq Push
  /\ unnamed \subseteq Push
  /\ delivers \in BOOLEAN

PushInit ==
  /\ hour = 0
  /\ window \in Window
  /\ pending = [m \in Push |-> NoPending]
  /\ pushed = [m \in Push |-> 0]
  /\ caller = NoPush
  /\ pusher = NoRun
  /\ hiccups = 0
  /\ found = [m \in Push |-> [at |-> 0, window |-> window]]
  /\ unmarked = [m \in Push |-> 0]
  /\ steady \in BOOLEAN
  /\ undated \in SUBSET Push
  /\ unnamed \in SUBSET Push
  /\ delivers \in BOOLEAN

Hiccup == hiccups < MaxHiccups /\ hiccups' = hiccups + 1

-----------------------------------------------------------------------------
(* QuietHoursPolicy                                                        *)

(* A window may wrap midnight; one that starts where it ends is never.     *)
Quiet(w, t) ==
  LET clock == t % Day IN
  IF w.start <= w.end THEN clock >= w.start /\ clock < w.end
  ELSE clock >= w.start \/ clock < w.end

(* Mutant: the end of the window today, even if it has passed.             *)
WindowEndToday(w, t) == t - (t % Day) + w.end

(* The window's end today, or tomorrow when it is not after t.             *)
WindowEnd(w, t) ==
  LET today == t - (t % Day) + w.end IN
  IF today <= t THEN today + Day ELSE today

SetWindow(w) ==
  /\ ~steady
  /\ window' = w
  /\ w # window
  /\ UNCHANGED <<hour, pending, pushed, caller, pusher, hiccups, found, unmarked>>

-----------------------------------------------------------------------------
(* PushDeliveryService                                                     *)

(* resolveWindow: the window w, which may be the default one by mistake.   *)
Resolve(w) ==
  \/ w = window /\ UNCHANGED hiccups
  \/ w = DefaultWindow /\ ~steady /\ Hiccup

(* An emergency, and a push outside quiet hours, is sent at once whatever  *)
(* comes of it.  Another meets the quiet hours.                            *)
DeliverPush(m) ==
  /\ caller = NoPush
  /\ pending[m].status = "none"
  /\ pending' = [pending EXCEPT ![m].status = "asked"]
  /\ \/ UNCHANGED <<caller, found, hiccups>>
     \/ \E w \in Window :
          /\ Resolve(w)
          /\ Quiet(w, hour)
          /\ caller' = m
          /\ found' = [found EXCEPT ![m] = [at |-> hour, window |-> w]]
  /\ UNCHANGED <<hour, window, pushed, pusher, unmarked>>

(* windowEnd looks at the window and the clock again.  A row that cannot   *)
(* be written is dropped: deliver() returns false.                         *)
QueuePush ==
  /\ caller # NoPush
  /\ caller' = NoPush
  /\ \/ \E w \in Window :
          /\ Resolve(w)
          /\ pending' = [pending EXCEPT ![caller] = [status |-> "queued", due |-> WindowEnd(w, hour)]]
     \/ Hiccup /\ UNCHANGED pending
  /\ UNCHANGED <<hour, window, pushed, pusher, found, unmarked>>

-----------------------------------------------------------------------------
(* PendingPushDeliveryJob and PendingPushService::deliverDue               *)

PendingPushes == {m \in Push : pending[m].status \in {"queued", "delivered"}}

PushRun ==
  /\ pusher = NoRun
  /\ pusher' = [NoRun EXCEPT !.phase = "page", !.at = hour]
  /\ UNCHANGED <<hour, window, pending, pushed, caller, hiccups, found, unmarked>>

Least(a, b) == IF a < b THEN a ELSE b

(* One page more, until one that is not full; a read that fails ends it.   *)
(* The pages do not overlap: the store keeps its order during a run.       *)
ReadPage ==
  /\ pusher.phase = "page"
  /\ \/ /\ \E rows \in SUBSET (PendingPushes \ pusher.seen) :
             /\ Cardinality(rows) = Least(Page, Cardinality(PendingPushes \ pusher.seen))
             /\ pusher' = IF rows = {} THEN NoRun
                       ELSE [pusher EXCEPT !.phase = "row", !.left = rows, !.seen = @ \cup rows,
                                        !.more = Cardinality(rows) = Page]
        /\ UNCHANGED hiccups
     \/ Hiccup /\ pusher' = NoRun
  /\ UNCHANGED <<hour, window, pending, pushed, caller, found, unmarked>>

AfterRow(m) ==
  LET left == pusher.left \ {m} IN
  IF left = {} /\ ~pusher.more THEN NoRun
  ELSE [pusher EXCEPT !.phase = IF left = {} THEN "page" ELSE "row", !.left = left, !.push = NoPush]

Due(m) == pending[m].status = "queued" /\ m \notin undated /\ pending[m].due <= pusher.at

RaisePush(f, m) == [f EXCEPT ![m] = @ + 1]

(* A push the transport refuses stays queued for the next run; one without *)
(* an id is sent, or refused, every run.                                   *)
DeliverIfDue(m) ==
  /\ pusher.phase = "row"
  /\ m \in pusher.left
  /\ \/ /\ ~Due(m) \/ ~delivers \/ m \in unnamed
        /\ pusher' = AfterRow(m)
        /\ UNCHANGED <<pushed, hiccups, unmarked>>
     \/ Due(m) /\ delivers /\ Hiccup /\ pusher' = AfterRow(m) /\ UNCHANGED <<pushed, unmarked>>
     \/ /\ Due(m) /\ delivers
        /\ pushed' = RaisePush(pushed, m)
        /\ IF m \in unnamed
           THEN pusher' = AfterRow(m) /\ unmarked' = RaisePush(unmarked, m)
           ELSE /\ pusher' = [pusher EXCEPT !.phase = "save", !.push = m]
                /\ UNCHANGED unmarked
        /\ UNCHANGED hiccups
  /\ UNCHANGED <<hour, window, pending, caller, found>>

(* The mark may fail after the push left.                                  *)
MarkDelivered ==
  /\ pusher.phase = "save"
  /\ \/ /\ pending' = [pending EXCEPT ![pusher.push].status = "delivered"]
        /\ UNCHANGED <<hiccups, unmarked>>
     \/ Hiccup /\ unmarked' = RaisePush(unmarked, pusher.push) /\ UNCHANGED pending
  /\ pusher' = AfterRow(pusher.push)
  /\ UNCHANGED <<hour, window, pushed, caller, found>>

PusherDies ==
  /\ pusher.phase # "idle"
  /\ Hiccup
  /\ pusher' = NoRun
  /\ unmarked' = IF pusher.phase = "save" THEN RaisePush(unmarked, pusher.push) ELSE unmarked
  /\ UNCHANGED <<hour, window, pending, pushed, caller, found>>

(* Bound: a request that met quiet hours is done a day before time ends.   *)
(* Where looks are steady, no hour passes between the two of a request.    *)
HourPasses ==
  /\ hour < LastHour
  /\ steady => caller = NoPush
  /\ caller = NoPush \/ hour < LastHour - 2 * Day
  /\ hour' = hour + 1
  /\ UNCHANGED <<window, pending, pushed, caller, pusher, hiccups, found, unmarked>>

PushStep == PushRun \/ ReadPage \/ (\E m \in Push : DeliverIfDue(m)) \/ MarkDelivered

PushAct ==
  \/ \E w \in Window : SetWindow(w)
  \/ \E m \in Push : DeliverPush(m) /\ hour < LastHour - 2 * Day
  \/ QueuePush
  \/ PushStep
  \/ PusherDies
  \/ HourPasses

PushNext == PushAct /\ UNCHANGED pushFixed

PushSafetySpec == PushInit /\ [][PushNext]_pushVars

(* The clock goes on, requests are answered, and the scheduler starts the  *)
(* job again and again.                                                    *)
PushFairness ==
  /\ WF_pushVars(QueuePush /\ UNCHANGED pushFixed)
  /\ WF_pushVars(PushStep /\ UNCHANGED pushFixed)
  /\ WF_pushVars(HourPasses /\ UNCHANGED pushFixed)

PushSpec == PushSafetySpec /\ PushFairness

-----------------------------------------------------------------------------

(* A deferred push is due when the quiet hours it met end, not sooner and  *)
(* not a day later, wherever both looks see the same (isQuietNow, 188-199; *)
(* windowEnd, 213-224).                                                    *)
DeferredToWindowEnd ==
  steady => \A m \in PendingPushes :
    /\ pending[m].due > found[m].at
    /\ ~Quiet(found[m].window, pending[m].due)
    /\ \A t \in found[m].at..(pending[m].due - 1) : Quiet(found[m].window, t)

(* A deferred push is sent again only for a run that sent it and did not   *)
(* mark it, and if the row has an id, that takes a trouble (deliverIfDue,  *)
(* 187-221).                                                               *)
PushesBounded ==
  \A m \in Push :
    /\ pushed[m] <= 1 + unmarked[m]
    /\ m \notin unnamed => unmarked[m] <= hiccups

(* "Deferred, not dropped": a queued push is called delivered only after   *)
(* it was sent (deliverDue, 117-221).                                      *)
PushPromise == INSTANCE Outbox WITH
  Item <- Push,
  status <- [m \in Push |->
               CASE pending[m].status = "queued" -> "waiting"
                 [] pending[m].status = "delivered" -> "delivered"
                 [] OTHER -> "none"],
  done <- pushed

(* And where the transport delivers, a push whose row says when it is due  *)
(* and has an id is delivered in the end.                                  *)
PushesAreSettled ==
  /\ PushPromise!SafetySpec
  /\ \A m \in Push : delivers /\ m \notin undated \cup unnamed => PushPromise!Settles(m)
=============================================================================
