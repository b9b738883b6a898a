------------------------ MODULE WaitingAccountClaim ------------------------
(***************************************************************************)
(* How a waiting account joins the account of the person it waits for:     *)
(* by a redeemed invitation (WaitingAccountInvitation, under two locks),   *)
(* by a confirmed address (ConfirmedAddressJoin, under one), by a sign-in  *)
(* with the same verified address (PortalAccountService, without locks),   *)
(* while the app that provisioned it goes on issuing secrets, adding       *)
(* claims and withdrawing it.                                              *)
(*                                                                         *)
(* An update of an account (PortalObjectWriter::updateObject) reads the    *)
(* whole row, merges its own fields and saves the whole row, so each is    *)
(* two steps here: Fetch and Save.  A request is a record of its phase and *)
(* of the rows it has read.  Organisation and audience always agree.       *)
(***************************************************************************)
EXTENDS Integers, FiniteSets, Sequences

CONSTANTS
  Account,      \* signed-in people's accounts: active, with an identity
  Waiting,      \* accounts an app provisioned by address only
  Process,      \* PHP workers
  Free,         \* no worker: a lock nobody holds
  Session,      \* the sessions one account may have
  Secret,       \* the one-time secrets that may be issued
  Code,         \* the secrets that are letter codes; the others are links
  NoSecret,     \* also what a wrong, expired or spent guess amounts to
  ClaimName, Value, NoValue,
  NoRow,
  PerAccount,   \* ClaimAttempts::PER_ACCOUNT
  PerSession,   \* ClaimAttempts::PER_SESSION
  Window,       \* ClaimAttempts::WINDOW, in ticks
  RequestTime,  \* how long a redeem may run, in ticks
  MaxRequests,  \* bound: how many requests begin
  MaxTime       \* bound: the clock stops here

AllOperations ==
  {"redeem", "confirm", "login", "firstLogin", "claim", "issue", "withdraw"}

ASSUME ClaimConstants ==
  /\ Account \cap Waiting = {}
  /\ Free \notin Process
  /\ Code \subseteq Secret
  /\ NoSecret \notin Secret
  /\ NoValue \notin Value
  /\ PerAccount \in Nat \ {0}
  /\ PerSession \in Nat \ {0}
  /\ Window \in Nat \ {0}
  /\ RequestTime \in Nat
  /\ MaxRequests \in Nat
  /\ MaxTime \in Nat

VARIABLES
  now,      \* the server's clock
  row,      \* the portalAccount rows
  tries,    \* wrong secrets per session, in the distributed cache
  lock,     \* ClaimLock: who holds the lock of each row
  proc,     \* what each worker is doing
  started,  \* requests begun so far
  issued,   \* secrets handed out so far
  taken,    \* history: <<account, waiting>> whose claims were written over
  claimed,  \* history: how often each secret answered CLAIMED
  wrong,    \* history: when each account was answered wrong secrets, since a right one
  operations,   \* fixed at the start: the operations that run in this behaviour
  storeMayFail  \* fixed at the start: whether a write may fail in it

conditions == <<operations, storeMayFail>>
vars == <<now, row, tries, lock, proc, started, issued, taken, claimed, wrong, conditions>>

Id == Account \cup Waiting
Claims == [ClaimName -> Value \cup {NoValue}]
Row == [status : {"active", "pending", "void"}, identity : BOOLEAN,
        secret : Secret \cup {NoSecret}, claims : Claims,
        email : {"none", "proven", "unproven"}, attempts : Nat, since : Nat]

Writes == {"fail", "spend", "give", "void", "clear", "touch",
           "activate", "claim", "issue", "withdraw"}
Phase == {"idle", "lockAccount", "count", "lockWaiting", "recheck", "match"} \cup Writes

(* own and other are the account and the waiting account a request works   *)
(* on; ownRow and otherRow what it read of them; fetched the row its       *)
(* update is about to overwrite; moment is when a redeem came in.          *)
Idle == [op |-> "none", phase |-> "idle", own |-> NoRow, other |-> NoRow,
         session |-> NoRow, secret |-> NoSecret, moment |-> 0, ownRow |-> NoRow,
         otherRow |-> NoRow, fetched |-> NoRow]

-----------------------------------------------------------------------------
(* What the rows mean.                                                     *)

Receives(r) == r.status = "active" /\ r.identity
AwaitsOwner(r) == r.status = "pending" /\ ~r.identity
Finds(s, w) == s # NoSecret /\ row[w].secret = s /\ AwaitsOwner(row[w])

ClaimsConflict(mine, theirs) ==
  \E c \in ClaimName :
    mine[c] # NoValue /\ theirs[c] # NoValue /\ mine[c] # theirs[c]

Joinable(mine, theirs) ==
  AwaitsOwner(theirs) /\ ~ClaimsConflict(mine.claims, theirs.claims)

ClaimsJoined(mine, theirs) ==
  [c \in ClaimName |-> IF mine[c] # NoValue THEN mine[c] ELSE theirs[c]]

(* Wrong secrets inside the window that the first of them opened, at the   *)
(* moment of the request that asks.                                        *)
CountInWindow(r, moment) ==
  IF r.attempts > 0 /\ moment - r.since < Window THEN r.attempts ELSE 0

Locked(p) ==
  LET q == proc[p] IN
  \/ CountInWindow(row[q.own], q.moment) >= PerAccount
  \/ tries[q.own][q.session] >= PerSession

-----------------------------------------------------------------------------

Init ==
  /\ now = 0
  /\ \E claims \in [Id -> Claims], secrets \in [Waiting -> Secret \cup {NoSecret}],
        mail \in [Account -> {"none", "proven"}] :
       /\ \A v, w \in Waiting : v # w => secrets[v] # secrets[w] \/ secrets[v] = NoSecret
       /\ row = [x \in Id |->
            [status |-> IF x \in Account THEN "active" ELSE "pending",
             identity |-> x \in Account,
             secret |-> IF x \in Account THEN NoSecret ELSE secrets[x],
             claims |-> claims[x],
             email |-> IF x \in Account THEN mail[x] ELSE "proven",
             attempts |-> 0, since |-> 0]]
       /\ issued = {secrets[w] : w \in Waiting} \ {NoSecret}
  /\ tries = [a \in Account |-> [j \in Session |-> 0]]
  /\ lock = [x \in Id |-> Free]
  /\ proc = [p \in Process |-> Idle]
  /\ started = 0
  /\ taken = {}
  /\ claimed = [s \in Secret |-> 0]
  /\ wrong = [a \in Account |-> <<>>]
  /\ operations \in SUBSET AllOperations
  /\ storeMayFail \in BOOLEAN

Become(p, state) == proc' = [proc EXCEPT ![p] = state]
Go(p, phase) == Become(p, [proc[p] EXCEPT !.phase = phase, !.fetched = NoRow])
Release(p, ids) == lock' = [x \in Id |-> IF x \in ids /\ lock[x] = p THEN Free ELSE lock[x]]
End(p) == Become(p, Idle) /\ Release(p, Id)

Begin(p, op, state) ==
  /\ op \in operations
  /\ proc[p].phase = "idle"
  /\ started < MaxRequests
  /\ started' = started + 1
  /\ Become(p, state)

-----------------------------------------------------------------------------
(* WaitingAccountInvitation::redeem                                        *)

(* The receiver is checked before the secret is looked at.                 *)
Redeem(p, a, j, s) ==
  /\ Begin(p, "redeem", [Idle EXCEPT !.op = "redeem", !.phase = "lockAccount", !.own = a,
                                     !.session = j, !.secret = s, !.moment = now,
                                     !.ownRow = row[a]])
  /\ Receives(row[a])
  /\ s \in issued \cup {NoSecret}
  /\ UNCHANGED <<now, row, tries, lock, issued, taken, claimed, wrong>>

LockAccountNever(p) ==
  /\ proc[p].phase = "lockAccount"
  /\ Go(p, "count")
  /\ UNCHANGED <<now, row, tries, lock, started, issued, taken, claimed, wrong>>

LockAccount(p) ==
  LET a == proc[p].own IN
  /\ proc[p].phase = "lockAccount"
  /\ \/ lock[a] = Free /\ lock' = [lock EXCEPT ![a] = p] /\ Go(p, "count")
     \/ lock[a] # Free /\ End(p)
  /\ UNCHANGED <<now, row, tries, started, issued, taken, claimed, wrong>>

CountUnread(p) ==
  LET q == proc[p] IN
  /\ q.phase = "count"
  /\ \/ Locked(p) /\ End(p)
     \/ /\ ~Locked(p)
        /\ UNCHANGED lock
        /\ \/ \E w \in Waiting :
                /\ Finds(q.secret, w)
                /\ Become(p, [q EXCEPT !.phase = "lockWaiting", !.other = w])
           \/ /\ \A w \in Waiting : ~Finds(q.secret, w)
              /\ Become(p, [q EXCEPT !.phase = "fail"])
  /\ UNCHANGED <<now, row, tries, started, issued, taken, claimed, wrong>>

(* redeemLocked: the account is read again inside its lock.                *)
Count(p) ==
  LET q == proc[p] IN
  /\ q.phase = "count"
  /\ \/ /\ ~Receives(row[q.own]) \/ Locked(p)
        /\ End(p)
     \/ /\ Receives(row[q.own]) /\ ~Locked(p)
        /\ UNCHANGED lock
        /\ \/ \E w \in Waiting :
                /\ Finds(q.secret, w)
                /\ Become(p, [q EXCEPT !.phase = "lockWaiting", !.other = w, !.ownRow = row[q.own]])
           \/ /\ \A w \in Waiting : ~Finds(q.secret, w)
              /\ Become(p, [q EXCEPT !.phase = "fail", !.ownRow = row[q.own]])
  /\ UNCHANGED <<now, row, tries, started, issued, taken, claimed, wrong>>

LockWaitingLeaking(p) ==
  LET w == proc[p].other IN
  /\ proc[p].phase = "lockWaiting"
  /\ \/ lock[w] = Free /\ lock' = [lock EXCEPT ![w] = p] /\ Go(p, "recheck")
     \/ lock[w] # Free /\ Become(p, Idle) /\ UNCHANGED lock
  /\ UNCHANGED <<now, row, tries, started, issued, taken, claimed, wrong>>

LockWaiting(p) ==
  LET w == proc[p].other IN
  /\ proc[p].phase = "lockWaiting"
  /\ \/ lock[w] = Free /\ lock' = [lock EXCEPT ![w] = p] /\ Go(p, "recheck")
     \/ lock[w] # Free /\ End(p)
  /\ UNCHANGED <<now, row, tries, started, issued, taken, claimed, wrong>>

RecheckTrusting(p) ==
  LET q == proc[p] IN
  /\ q.phase = "recheck" /\ q.op = "redeem"
  /\ Become(p, [q EXCEPT !.phase = "spend", !.otherRow = row[q.other]])
  /\ UNCHANGED <<now, row, tries, lock, started, issued, taken, claimed, wrong>>

(* claimWaiting: find the secret again inside the lock of its row.         *)
Recheck(p) ==
  LET q == proc[p]
      theirs == row[q.other] IN
  /\ q.phase = "recheck" /\ q.op = "redeem"
  /\ IF Finds(q.secret, q.other) /\ Joinable(q.ownRow, theirs)
     THEN Become(p, [q EXCEPT !.phase = "spend", !.otherRow = theirs]) /\ UNCHANGED lock
     ELSE End(p)
  /\ UNCHANGED <<now, row, tries, started, issued, taken, claimed, wrong>>

-----------------------------------------------------------------------------
(* ConfirmedAddressJoin::join: the address is the holder's own, confirmed. *)

Confirm(p, a, w) ==
  /\ Begin(p, "confirm", [Idle EXCEPT !.op = "confirm", !.phase = "lockWaiting", !.own = a,
                                      !.other = w, !.ownRow = row[a]])
  /\ Receives(row[a])
  /\ AwaitsOwner(row[w])
  /\ UNCHANGED <<now, row, tries, lock, issued, taken, claimed, wrong>>

ConfirmRecheck(p) ==
  LET q == proc[p]
      theirs == row[q.other] IN
  /\ q.phase = "recheck" /\ q.op = "confirm"
  /\ IF Joinable(q.ownRow, theirs)
     THEN Become(p, [q EXCEPT !.phase = "give", !.otherRow = theirs]) /\ UNCHANGED lock
     ELSE End(p)
  /\ UNCHANGED <<now, row, tries, started, issued, taken, claimed, wrong>>

-----------------------------------------------------------------------------
(* PortalAccountService::findOrCreate, at a sign-in.                       *)

(* An account with this identity exists: it is read, then a waiting one    *)
(* with the same verified address is looked for, without any lock.         *)
Login(p, a) ==
  /\ Begin(p, "login", [Idle EXCEPT !.op = "login", !.phase = "match", !.own = a,
                                    !.ownRow = row[a]])
  /\ UNCHANGED <<now, row, tries, lock, issued, taken, claimed, wrong>>

Match(p) ==
  LET q == proc[p] IN
  /\ q.phase = "match"
  /\ \/ \E w \in Waiting :
          /\ Joinable(q.ownRow, row[w])
          /\ Become(p, [q EXCEPT !.phase = "give", !.other = w, !.otherRow = row[w]])
     \/ Go(p, "touch")
  /\ UNCHANGED <<now, row, tries, lock, started, issued, taken, claimed, wrong>>

(* No account with this identity: the waiting account itself is activated. *)
FirstLogin(p, w) ==
  /\ Begin(p, "firstLogin", [Idle EXCEPT !.op = "firstLogin", !.phase = "activate",
                                         !.other = w, !.otherRow = row[w]])
  /\ AwaitsOwner(row[w])
  /\ UNCHANGED <<now, row, tries, lock, issued, taken, claimed, wrong>>

-----------------------------------------------------------------------------
(* What the provisioning app does.                                         *)

(* PortalAccountService::claim, on a waiting account or a joined one.      *)
AppClaim(p, x, c, v) ==
  /\ Begin(p, "claim", [Idle EXCEPT !.op = "claim", !.phase = "claim", !.other = x,
                                    !.otherRow = [row[x] EXCEPT !.claims[c] = v]])
  /\ UNCHANGED <<now, row, tries, lock, issued, taken, claimed, wrong>>

(* WaitingAccountInvitation::issue and issueCode: one live secret.         *)
Issue(p, w, s) ==
  /\ Begin(p, "issue", [Idle EXCEPT !.op = "issue", !.phase = "issue", !.other = w, !.secret = s])
  /\ AwaitsOwner(row[w])
  /\ s \in Secret \ issued
  /\ issued' = issued \cup {s}
  /\ UNCHANGED <<now, row, tries, lock, taken, claimed, wrong>>

(* PortalAccountService::voidPending                                       *)
Withdraw(p, w) ==
  /\ Begin(p, "withdraw", [Idle EXCEPT !.op = "withdraw", !.phase = "withdraw", !.other = w])
  /\ row[w].status = "pending"
  /\ UNCHANGED <<now, row, tries, lock, issued, taken, claimed, wrong>>

-----------------------------------------------------------------------------
(* PortalObjectWriter::updateObject                                        *)

Target(q) == IF q.phase \in {"fail", "give", "clear", "touch"} THEN q.own ELSE q.other

(* The fields each write puts over the row it fetched.                     *)
Patched(q, base) ==
  CASE q.phase = "fail" ->
         [base EXCEPT !.attempts = CountInWindow(q.ownRow, q.moment) + 1,
                      !.since = IF CountInWindow(q.ownRow, q.moment) = 0 THEN q.moment ELSE @]
    [] q.phase = "clear" -> [base EXCEPT !.attempts = 0]
    [] q.phase = "touch" -> base
    [] q.phase = "spend" -> [base EXCEPT !.secret = NoSecret]
    [] q.phase = "give" ->
         [base EXCEPT !.claims = LET joined == ClaimsJoined(q.ownRow.claims, q.otherRow.claims) IN
                                 IF joined # q.ownRow.claims THEN joined ELSE @,
                      !.email = IF q.ownRow.email = "none"
                                THEN IF q.secret \in Code THEN "unproven" ELSE "proven"
                                ELSE @]
    [] q.phase \in {"void", "withdraw"} -> [base EXCEPT !.status = "void"]
    [] q.phase = "activate" -> [base EXCEPT !.status = "active", !.identity = TRUE]
    [] q.phase = "claim" -> [base EXCEPT !.claims = q.otherRow.claims]
    [] q.phase = "issue" -> [base EXCEPT !.secret = q.secret]

(* joinData may have nothing to write.                                     *)
NothingToGive(q) ==
  /\ q.phase = "give"
  /\ ClaimsJoined(q.ownRow.claims, q.otherRow.claims) = q.ownRow.claims
  /\ q.ownRow.email # "none"

(* What follows a write, and what a write that failed cuts short.          *)
Continue(p, ok) ==
  LET q == proc[p] IN
  CASE q.phase = "spend" /\ ok -> Go(p, "give") /\ UNCHANGED <<lock, claimed>>
    [] q.phase = "give" /\ ok -> Go(p, "void") /\ UNCHANGED <<lock, claimed>>
    [] q.phase \in {"give", "void"} /\ q.op = "login" /\ (q.phase = "void" \/ ~ok) ->
         Go(p, "touch") /\ UNCHANGED <<lock, claimed>>
    [] q.phase = "void" /\ ok /\ q.op = "redeem" ->
         /\ claimed' = [claimed EXCEPT ![q.secret] = @ + 1]
         /\ IF q.ownRow.attempts # 0
            THEN Go(p, "clear") /\ Release(p, {q.other})
            ELSE End(p)
    [] OTHER -> End(p) /\ UNCHANGED claimed

Fetch(p) ==
  LET q == proc[p] IN
  /\ q.phase \in Writes /\ q.fetched = NoRow
  /\ ~NothingToGive(q)
  /\ Become(p, [q EXCEPT !.fetched = row[Target(q)]])
  /\ UNCHANGED <<now, row, tries, lock, started, issued, taken, claimed, wrong>>

(* A wrong secret is also counted on the session, whatever the row's write *)
(* did; the answer is NOT_VALID.                                           *)
CountOnSession(q) ==
  IF q.phase = "fail"
  THEN /\ \/ tries' = [tries EXCEPT ![q.own][q.session] = @ + 1]
          \/ storeMayFail /\ UNCHANGED tries
       /\ wrong' = [wrong EXCEPT ![q.own] = Append(@, now)]
  ELSE /\ UNCHANGED tries
       /\ wrong' = IF q.phase = "clear" THEN [wrong EXCEPT ![q.own] = <<>>] ELSE wrong

Save(p) ==
  LET q == proc[p] IN
  /\ q.phase \in Writes /\ q.fetched # NoRow
  /\ row' = [row EXCEPT ![Target(q)] = Patched(q, q.fetched)]
  /\ taken' = IF q.phase = "give" THEN taken \cup {<<q.own, q.other>>} ELSE taken
  /\ CountOnSession(q)
  /\ Continue(p, TRUE)
  /\ UNCHANGED <<now, started, issued>>

GiveNothing(p) ==
  LET q == proc[p] IN
  /\ NothingToGive(q)
  /\ taken' = taken \cup {<<q.own, q.other>>}
  /\ Continue(p, TRUE)
  /\ UNCHANGED <<now, row, tries, started, issued, wrong>>

WriteFails(p) ==
  LET q == proc[p] IN
  /\ storeMayFail
  /\ q.phase \in Writes /\ ~NothingToGive(q)
  /\ CountOnSession(q)
  /\ Continue(p, FALSE)
  /\ UNCHANGED <<now, row, started, issued, taken>>

(* Time passes, while redeems are under way too, but none of them runs     *)
(* longer than RequestTime.                                                *)
Tick ==
  /\ now < MaxTime
  /\ \A p \in Process : proc[p].op = "redeem" => now + 1 - proc[p].moment <= RequestTime
  /\ now' = now + 1
  /\ UNCHANGED <<row, tries, lock, proc, started, issued, taken, claimed, wrong>>

Step ==
  \/ \E p \in Process :
       \/ \E a \in Account, j \in Session, s \in Secret \cup {NoSecret} : Redeem(p, a, j, s)
       \/ LockAccount(p)
       \/ Count(p)
       \/ LockWaiting(p)
       \/ Recheck(p)
       \/ \E a \in Account, w \in Waiting : Confirm(p, a, w)
       \/ ConfirmRecheck(p)
       \/ \E a \in Account : Login(p, a)
       \/ Match(p)
       \/ \E w \in Waiting : FirstLogin(p, w)
       \/ \E x \in Id, c \in ClaimName, v \in Value : AppClaim(p, x, c, v)
       \/ \E w \in Waiting, s \in Secret : Issue(p, w, s)
       \/ \E w \in Waiting : Withdraw(p, w)
       \/ Fetch(p)
       \/ Save(p)
       \/ GiveNothing(p)
       \/ WriteFails(p)
  \/ Tick

Next == Step /\ UNCHANGED conditions

Spec == Init /\ [][Next]_vars

-----------------------------------------------------------------------------

ProcessState ==
  [op : AllOperations \cup {"none"}, phase : Phase, own : Account \cup {NoRow},
   other : Id \cup {NoRow}, session : Session \cup {NoRow}, secret : Secret \cup {NoSecret},
   moment : Nat,
   ownRow : Row \cup {NoRow}, otherRow : Row \cup {NoRow}, fetched : Row \cup {NoRow}]

(* Type correctness of the rows and requests (PortalAccountLookup,         *)
(* ClaimLock): no write ever saves a row of another shape.                 *)
TypeOK ==
  /\ now \in 0..MaxTime
  /\ row \in [Id -> Row]
  /\ tries \in [Account -> [Session -> Nat]]
  /\ lock \in [Id -> Process \cup {Free}]
  /\ proc \in [Process -> ProcessState]
  /\ started \in 0..MaxRequests
  /\ issued \subseteq Secret
  /\ taken \subseteq Account \X Waiting
  /\ claimed \in [Secret -> Nat]
  /\ wrong \in [Account -> Seq(Nat)]

(* One secret answers CLAIMED at most once (claimWaiting, 370-386).        *)
SecretWorksOnce == \A s \in Secret : claimed[s] <= 1

(* However redeems, confirmations, sign-ins, new secrets and withdrawals   *)
(* interleave and whichever write fails, a secret answers CLAIMED once, as *)
(* long as no app writes claims (WaitingAccountInvitation, 245-386).       *)
SecretWorksOnceJoining == "claim" \notin operations => SecretWorksOnce

(* What one redeem of a person took from a waiting account, another of     *)
(* theirs does not lose (redeem, 259-261: the account is read again under  *)
(* its lock).                                                              *)
TakenClaimsAreKept ==
  operations \subseteq {"redeem"} =>
    \A join \in taken :
      LET mine == row[join[1]].claims
          theirs == row[join[2]].claims IN
      \A c \in DOMAIN theirs : theirs[c] # NoValue => mine[c] = theirs[c]

(* From however many sessions and however parallel, while its row can be   *)
(* written: 2 * PER_ACCOUNT wrong secrets without a right one between them *)
(* are answered over a whole window, less the time one request takes.  The *)
(* window opens at its first wrong secret, so those of one window and of   *)
(* the next may come together, but never those of three (ClaimAttempts,    *)
(* 117-124 and 167-178; redeem, 245-270).                                  *)
GuessesAreBounded ==
  operations \subseteq {"redeem"} /\ ~storeMayFail =>
    \A a \in DOMAIN wrong : \A i, j \in DOMAIN wrong[a] :
      j >= i + 2 * PerAccount - 1 => wrong[a][j] - wrong[a][i] >= Window - RequestTime

(* Whatever way a request ends, it gives back the locks it took (redeem,   *)
(* 267-269; redeemLocked, 310-312; joinLocked, 165-167).                   *)
NoLockLeftBehind == \A x \in DOMAIN lock : lock[x] # Free => proc[lock[x]].phase # "idle"

=============================================================================
