--------------------------- MODULE ActivitySignup ---------------------------
(***************************************************************************)
(* The places of one term-long activity.  ActivitySignupService signs      *)
(* children up, withdraws them and promotes from the waiting list; staff   *)
(* open and close the activity, change its supervisors (ActivityController)*)
(* and bill the places (ActivityContributionService).                      *)
(*                                                                         *)
(* Every one of these reads the activity, then all sign-up rows, and then  *)
(* writes whole rows back, merged into what it read: OpenRegister has no   *)
(* conditional write.  The store reads 500 rows at most; here it reads all.*)
(* A save that answers null, or throws, may have been stored all the same  *)
(* (ActivityStore::save, 175-191); the service takes it for not stored.    *)
(***************************************************************************)
EXTENDS Integers, FiniteSets

CONSTANTS
  Child,
  Process,     \* requests under way
  NoChild,
  Slot,        \* ids of sign-up rows, which sort
  Capacity,    \* bound: the most places of an activity
  Waitlist,    \* waitlistEnabled
  MaxTime      \* bound: the clock

ASSUME SignupConstants ==
  /\ NoChild \notin Child
  /\ IsFiniteSet(Process)
  /\ Slot \subseteq Nat /\ IsFiniteSet(Slot)
  /\ Capacity \in Nat \ {0}
  /\ Waitlist \in BOOLEAN
  /\ MaxTime \in Nat

VARIABLES
  now,       \* seconds
  activity,  \* the activityOffer row: whether it is open, and its places
  row,       \* the activitySignup rows
  proc,      \* what each request is doing
  unseen,    \* history: promotions stored though the store said they were not
  capacity,  \* fixed at the start: the most places, with supervisors for all
  billing,   \* fixed at the start: whether the places are billed
  calm       \* fixed at the start: requests come one by one and nothing fails

conditions == <<capacity, billing, calm>>
vars == <<now, activity, row, proc, unseen, conditions>>

Status == {"none", "confirmed", "waitlisted", "withdrawn"}
Row == [child : Child \cup {NoChild}, status : Status, at : 0..MaxTime, billed : BOOLEAN]
NoRow == [child |-> NoChild, status |-> "none", at |-> 0, billed |-> FALSE]
NoRows == [s \in Slot |-> NoRow]

Offer == [open : BOOLEAN, places : 0..capacity]
Phase == {"idle", "count", "signup", "find", "withdraw", "waitlist", "promote",
          "status", "supervise", "unbilled", "bill"}
Idle == [phase |-> "idle", child |-> NoChild, status |-> "none", free |-> 0, todo |-> {},
         seen |-> NoRows, activity |-> [open |-> FALSE, places |-> 0]]

TypeOK ==
  /\ now \in 0..MaxTime
  /\ activity \in Offer
  /\ row \in [Slot -> Row]
  /\ proc \in [Process -> [phase : Phase, child : Child \cup {NoChild}, status : Status,
                           free : 0..capacity, todo : SUBSET Slot, seen : [Slot -> Row],
                           activity : Offer]]
  /\ unseen \in Nat

Init ==
  /\ now = 0
  /\ capacity \in 1..Capacity
  /\ billing \in BOOLEAN
  /\ calm \in BOOLEAN
  /\ activity \in Offer
  /\ row = NoRows
  /\ proc = [p \in Process |-> Idle]
  /\ unseen = 0

Of(rows, status) == {s \in Slot : rows[s].status = status}
ActiveFor(rows, c) == {s \in Of(rows, "confirmed") \cup Of(rows, "waitlisted") : rows[s].child = c}
Confirmed == Cardinality(Of(row, "confirmed"))

Become(p, state) == proc' = [proc EXCEPT ![p] = state]

MayBegin(p) == proc[p] = Idle /\ (calm => \A r \in Process : proc[r] = Idle)

(* A request that read the activity.                                       *)
Begin(p, phase, c) ==
  /\ MayBegin(p)
  /\ Become(p, [Idle EXCEPT !.phase = phase, !.child = c, !.activity = activity])
  /\ UNCHANGED <<now, activity, row>>

(* The rows a request means to write back, as it read them.                *)
Holding(q, phase, rows) ==
  [q EXCEPT !.phase = phase, !.child = NoChild, !.todo = rows,
            !.seen = [s \in Slot |-> IF s \in rows THEN row[s] ELSE NoRow]]

Refuse(p) == Become(p, Idle)

-----------------------------------------------------------------------------
(* Signing up                                                              *)

Starting == {p \in Process : proc[p].phase \in {"count", "signup"}}

(* Bound: no more requests than rows left.                                 *)
SignUp(p, c) ==
  /\ Cardinality(Of(row, "none")) > Cardinality(Starting)
  /\ activity.open
  /\ Begin(p, "count", c)

(* Mutant: one place too many.                                             *)
StatusOneTooMany(q) ==
  IF Confirmed <= q.activity.places THEN "confirmed"
  ELSE IF Waitlist THEN "waitlisted" ELSE "none"

StatusForNewSignup(q) ==
  IF Confirmed < q.activity.places THEN "confirmed"
  ELSE IF Waitlist THEN "waitlisted" ELSE "none"

(* The checks of checkedSignup, on one read of the rows.                   *)
CheckSignup(p) ==
  LET q == proc[p] IN
  /\ q.phase = "count"
  /\ \/ /\ ActiveFor(row, q.child) = {}
        /\ StatusForNewSignup(q) # "none"
        /\ Become(p, [q EXCEPT !.phase = "signup", !.status = StatusForNewSignup(q)])
     \/ ActiveFor(row, q.child) # {} /\ Refuse(p)
     \/ StatusForNewSignup(q) = "none" /\ Refuse(p)
     \/ ~calm /\ Refuse(p)
  /\ UNCHANGED <<now, activity, row>>

WriteSignup(p) ==
  LET q == proc[p] IN
  /\ q.phase = "signup"
  /\ \/ \E s \in Of(row, "none") :
          row' = [row EXCEPT ![s] = [child |-> q.child, status |-> q.status,
                                     at |-> now, billed |-> FALSE]]
     \/ ~calm /\ UNCHANGED row
  /\ Become(p, Idle)
  /\ UNCHANGED <<now, activity>>

-----------------------------------------------------------------------------
(* Withdrawing and promoting                                               *)

Withdraw(p, c) == Begin(p, "find", c)

FindSignup(p) ==
  LET q == proc[p] IN
  /\ q.phase = "find"
  /\ \/ \E s \in ActiveFor(row, q.child) : Become(p, Holding(q, "withdraw", {s}))
     \/ (~calm \/ ActiveFor(row, q.child) = {}) /\ Refuse(p)
  /\ UNCHANGED <<now, activity, row>>

(* Mutant: the freed place is left to the next sign-up.                    *)
WriteWithdrawalOnly(p) ==
  LET q == proc[p] IN
  /\ q.phase = "withdraw"
  /\ \E s \in q.todo : row' = [row EXCEPT ![s] = [q.seen[s] EXCEPT !.status = "withdrawn"]]
  /\ Become(p, Idle)
  /\ UNCHANGED <<now, activity>>

(* Withdrawing a child who had no place frees none; and nobody is promoted *)
(* when the store says the withdrawal failed, whether it did or not.       *)
WriteWithdrawal(p) ==
  LET q == proc[p] IN
  /\ q.phase = "withdraw"
  /\ \E s \in q.todo :
       LET withdrawn == [row EXCEPT ![s] = [q.seen[s] EXCEPT !.status = "withdrawn"]] IN
       \/ /\ row' = withdrawn
          /\ Become(p, IF q.seen[s].status = "confirmed"
                       THEN [Idle EXCEPT !.phase = "waitlist", !.activity = q.activity]
                       ELSE Idle)
       \/ ~calm /\ row' \in {row, withdrawn} /\ Become(p, Idle)
  /\ UNCHANGED <<now, activity>>

(* How many places are free, and who waits.                                *)
ReadWaitlist(p) ==
  LET q == proc[p]
      free == q.activity.places - Confirmed
      waiting == Of(row, "waitlisted") IN
  /\ q.phase = "waitlist"
  /\ \/ free > 0 /\ waiting # {} /\ Become(p, [Holding(q, "promote", waiting) EXCEPT !.free = free])
     \/ (free <= 0 \/ waiting = {} \/ ~calm) /\ Become(p, Idle)
  /\ UNCHANGED <<now, activity, row>>

(* Mutant: the list is sorted by id alone.                                 *)
FirstById(rows, waiting) == {s \in waiting : \A t \in waiting : s <= t}

(* Longest waiting; of those who signed up in one second, the lowest id.   *)
First(rows, waiting) ==
  {s \in waiting : \A t \in waiting :
     \/ rows[s].at < rows[t].at
     \/ rows[s].at = rows[t].at /\ s <= t}

(* A save the store says failed is not counted and the next child is tried;*)
(* the one before has the place if it was stored all the same.             *)
PromoteOne(p) ==
  LET q == proc[p]
      After(s, free) ==
        IF free = 0 \/ q.todo = {s} THEN Idle
        ELSE [q EXCEPT !.free = free, !.todo = @ \ {s}, !.seen[s] = NoRow] IN
  /\ q.phase = "promote"
  /\ \E s \in First(q.seen, q.todo) :
       LET confirmed == [row EXCEPT ![s] = [q.seen[s] EXCEPT !.status = "confirmed"]] IN
       \/ row' = confirmed /\ unseen' = unseen /\ Become(p, After(s, q.free - 1))
       \/ ~calm /\ row' = confirmed /\ unseen' = unseen + 1 /\ Become(p, After(s, q.free))
       \/ ~calm /\ UNCHANGED <<row, unseen>> /\ Become(p, After(s, q.free))
  /\ UNCHANGED <<now, activity>>

-----------------------------------------------------------------------------
(* Staff                                                                   *)

(* Opening needs a place; both write the whole row back.                   *)
SetStatus(p, open) ==
  /\ MayBegin(p)
  /\ open => activity.places > 0
  /\ Become(p, [Idle EXCEPT !.phase = "status", !.activity = [activity EXCEPT !.open = open]])
  /\ UNCHANGED <<now, activity, row>>

SetSupervisors(p, places) ==
  /\ MayBegin(p)
  /\ Become(p, [Idle EXCEPT !.phase = "supervise", !.activity = [activity EXCEPT !.places = places]])
  /\ UNCHANGED <<now, activity, row>>

(* Supervisors who make more places make room for who waits, unless the    *)
(* store says the save failed.                                             *)
SaveActivity(p) ==
  LET q == proc[p] IN
  /\ q.phase \in {"status", "supervise"}
  /\ \/ /\ activity' = q.activity
        /\ Become(p, IF q.phase = "supervise" THEN [q EXCEPT !.phase = "waitlist"] ELSE Idle)
     \/ ~calm /\ activity' \in {activity, q.activity} /\ Become(p, Idle)
  /\ UNCHANGED <<now, row>>

Bill(p) == billing /\ Begin(p, "unbilled", NoChild)

(* The places with no reference, and shillinq's answer on some of them;    *)
(* it may refuse the lot, or a debtor may have no address.                 *)
RaiseContributions(p) ==
  /\ proc[p].phase = "unbilled"
  /\ \E billed \in SUBSET {s \in Of(row, "confirmed") : ~row[s].billed} :
       IF billed = {} THEN Refuse(p) ELSE Become(p, Holding(proc[p], "bill", billed))
  /\ UNCHANGED <<now, activity, row>>

(* The reference is merged into the row as it was before shillinq was      *)
(* asked.                                                                  *)
WriteReference(p) ==
  LET q == proc[p] IN
  /\ q.phase = "bill"
  /\ \E s \in q.todo :
       /\ \/ row' = [row EXCEPT ![s] = [q.seen[s] EXCEPT !.billed = TRUE]]
          \/ ~calm /\ UNCHANGED row
       /\ Become(p, IF q.todo = {s} THEN Idle
                    ELSE [q EXCEPT !.todo = @ \ {s}, !.seen[s] = NoRow])
  /\ UNCHANGED <<now, activity>>

Tick ==
  /\ now < MaxTime
  /\ now' = now + 1
  /\ UNCHANGED <<activity, row, proc>>

(* A guardian's requests, and what they lead to.                           *)
Guardian(p) ==
  \/ \E c \in Child : SignUp(p, c) \/ Withdraw(p, c)
  \/ CheckSignup(p) \/ WriteSignup(p)
  \/ FindSignup(p) \/ WriteWithdrawal(p)

Promotion(p) == PromoteOne(p) \/ (ReadWaitlist(p) /\ UNCHANGED unseen)

Staff(p) ==
  \/ \E open \in BOOLEAN : SetStatus(p, open)
  \/ \E places \in 0..capacity : SetSupervisors(p, places)
  \/ SaveActivity(p)

Billing(p) == Bill(p) \/ RaiseContributions(p) \/ WriteReference(p)

SignupStep ==
  \/ \E p \in Process : Promotion(p)
  \/ /\ Tick \/ \E p \in Process : Guardian(p) \/ Staff(p) \/ Billing(p)
     /\ UNCHANGED unseen

Next == SignupStep /\ UNCHANGED conditions

Spec == Init /\ [][Next]_vars

-----------------------------------------------------------------------------

(* As long as nothing is billed, requests that overlap over-fill the       *)
(* activity by no more than its places for each of them (checkedSignup,    *)
(* 141-170, and promote, 278-302, count and write in two steps), and one   *)
(* more for each promotion stored while the store said it was not.         *)
OverfillBoundedParallel == ~billing => Confirmed <= capacity * Cardinality(Process) + unseen

(* "A race can over-fill by one."                                          *)
OverfillByOne == Confirmed <= capacity + 1

(* When requests come one by one, between two of them nobody waits while   *)
(* there is a place, and no child is signed up twice (withdraw, 241-266;   *)
(* setSupervisors, 317-334).                                               *)
PlacesAreFilledSerially ==
  calm /\ (\A p \in Process : proc[p] = Idle) =>
    /\ Of(row, "waitlisted") # {} => Confirmed >= activity.places
    /\ \A c \in Child : Cardinality(ActiveFor(row, c)) <= 1

(* One by one, a place is given only when one is free, and never to a      *)
(* child while another waited longer (promote, 278-302;                    *)
(* ActivityPlaces::waitlist, 122-137).                                     *)
GivesPlace(s) == row[s].status # "confirmed" /\ row'[s].status = "confirmed"
LongestWaitingFirstSerially ==
  [][calm => \A s \in Slot : GivesPlace(s) =>
       /\ Confirmed' <= activity.places
       /\ \A t \in Of(row, "waitlisted") \ {s} : row[t].at >= row'[s].at]_vars
=============================================================================
