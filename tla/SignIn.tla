------------------------------- MODULE SignIn -------------------------------
(***************************************************************************)
(* A sign-in through an identity provider: the one-time state row written  *)
(* when it starts (OidcStateStoreService), the callback that consumes it   *)
(* on the OIDC route (SessionController::oidcCallback) or on the broker    *)
(* route (BrokerLogin::complete), and the account that answers for the     *)
(* identity (PortalAccountService::findOrCreate).                          *)
(*                                                                         *)
(* A browser may repeat a callback, late or twice at once.  The provider   *)
(* is the environment: it says who signed in, and with which verified      *)
(* address, or it does not answer.  The organisation is one and admits the *)
(* provider.  What a waiting account's claims do to an account that        *)
(* already has the identity is WaitingAccountClaim's subject.              *)
(***************************************************************************)
EXTENDS Integers, FiniteSets

CONSTANTS
  State,        \* the state tokens handed out
  PortalAccount,      \* the ids of account rows
  Person,       \* identity references
  NoPerson,
  Email,        \* verified addresses
  NoEmail,
  Handler,      \* PHP workers
  None,         \* no state and no account
  Ttl,          \* OidcStateStoreService::TTL_SECONDS, in ticks
  MaxCallbacks, \* bound: callbacks that arrive
  MaxClock      \* bound: the clock

ASSUME SignInConstants ==
  /\ None \notin State \cup PortalAccount
  /\ NoPerson \notin Person
  /\ NoEmail \notin Email
  /\ Ttl \in Nat
  /\ MaxCallbacks \in Nat
  /\ MaxClock \in Nat

VARIABLES
  clock,       \* the server's clock
  state,     \* the portalOidcState rows
  account,   \* the portalAccount rows
  handler,      \* what each worker is doing
  arrived,   \* callbacks so far
  signedIn,  \* history: <<state, account, person, n>>, the n-th session of a state
  calm       \* fixed at the start: callbacks come one at a time and the store answers

signInVars == <<clock, state, account, handler, arrived, signedIn, calm>>

Route == {"oidc", "broker"}
NoState == [route |-> "none", expiresAt |-> 0, used |-> FALSE]
StateRow == [route : Route, expiresAt : Nat, used : BOOLEAN]
NoAccount == [status |-> "absent", identity |-> NoPerson, email |-> NoEmail]
AccountRow == [status : {"absent", "pending", "active"},
               identity : Person \cup {NoPerson}, email : Email \cup {NoEmail}]

(* "replay" is history: the state had signed somebody in when the callback *)
(* arrived.                                                                *)
CallbackPhase == {"idle", "find", "mark", "exchange", "byIdentity", "byEmail",
          "activate", "create", "session"}
HandlerState == [phase : CallbackPhase, route : Route, state : State \cup {None}, error : BOOLEAN,
                 person : Person \cup {NoPerson}, email : Email \cup {NoEmail},
                 account : PortalAccount \cup {None}, replay : BOOLEAN]
NoCallback == [phase |-> "idle", route |-> "oidc", state |-> None, error |-> FALSE,
         person |-> NoPerson, email |-> NoEmail, account |-> None, replay |-> FALSE]

Proceed(p, next) == handler' = [handler EXCEPT ![p] = next]
ProceedTo(p, phase) == Proceed(p, [handler[p] EXCEPT !.phase = phase])
Answered(p) == Proceed(p, NoCallback)

Sessions(s) == {t \in signedIn : t[1] = s}

-----------------------------------------------------------------------------

(* Accounts an app provisioned wait by identity or by verified address.    *)
SignInInit ==
  /\ clock = 0
  /\ state = [s \in State |-> NoState]
  /\ account \in [PortalAccount -> {NoAccount}
       \cup [status : {"pending"}, identity : Person, email : {NoEmail}]
       \cup [status : {"pending"}, identity : {NoPerson}, email : Email]]
  /\ \A a, b \in PortalAccount : a # b /\ account[a] = account[b] => account[a] = NoAccount
  /\ handler = [p \in Handler |-> NoCallback]
  /\ arrived = 0
  /\ signedIn = {}
  /\ calm \in BOOLEAN

(* create and createBroker: no row, no redirect.                           *)
Start(s, route) ==
  /\ state[s] = NoState
  /\ state' = [state EXCEPT ![s] = [route |-> route, expiresAt |-> clock + Ttl, used |-> FALSE]]
  /\ UNCHANGED <<clock, account, handler, arrived, signedIn>>

(* The provider sends the browser back, with a code or with an error.      *)
Callback(p, s, route, error) ==
  /\ handler[p].phase = "idle"
  /\ arrived < MaxCallbacks
  /\ calm => \A q \in Handler : handler[q].phase = "idle"
  /\ state[s] # NoState
  /\ error => route = "oidc"
  /\ arrived' = arrived + 1
  /\ Proceed(p, [NoCallback EXCEPT !.phase = "find", !.route = route, !.state = s, !.error = error,
                            !.replay = Sessions(s) # {}])
  /\ UNCHANGED <<clock, state, account, signedIn>>

-----------------------------------------------------------------------------
(* OidcStateStoreService::consume                                          *)

FindReplayable(p) ==
  LET row == state[handler[p].state] IN
  /\ handler[p].phase = "find"
  /\ IF row.expiresAt < clock THEN Answered(p) ELSE ProceedTo(p, "mark")
  /\ UNCHANGED <<clock, state, account, arrived, signedIn>>

(* A row that could not be read is refused like one that is not there.     *)
Find(p) ==
  LET row == state[handler[p].state] IN
  /\ handler[p].phase = "find"
  /\ \/ ~(row.used \/ row.expiresAt < clock) /\ ProceedTo(p, "mark")
     \/ (row.used \/ row.expiresAt < clock \/ ~calm) /\ Answered(p)
  /\ UNCHANGED <<clock, state, account, arrived, signedIn>>

(* The row is marked before it is used; what could not be marked is        *)
(* refused.  An error, and a row of the other route, end here, spent.      *)
Mark(p) ==
  LET s == handler[p].state IN
  /\ handler[p].phase = "mark"
  /\ \/ /\ state' = [state EXCEPT ![s].used = TRUE]
        /\ IF handler[p].error \/ state[s].route # handler[p].route
           THEN Answered(p) ELSE ProceedTo(p, "exchange")
     \/ ~calm /\ UNCHANGED state /\ Answered(p)
  /\ UNCHANGED <<clock, account, arrived, signedIn>>

-----------------------------------------------------------------------------

(* The provider's answer; the broker supplies no address.                  *)
Exchange(p, person, email) ==
  /\ handler[p].phase = "exchange"
  /\ handler[p].route = "broker" => email = NoEmail
  /\ Proceed(p, [handler[p] EXCEPT !.phase = "byIdentity", !.person = person, !.email = email])
  /\ UNCHANGED <<clock, state, account, arrived, signedIn>>

ExchangeFails(p) ==
  /\ handler[p].phase = "exchange"
  /\ Answered(p)
  /\ UNCHANGED <<clock, state, account, arrived, signedIn>>

(* PortalAccountService::findOrCreate                                      *)

OfIdentity(person) == {a \in PortalAccount : account[a].identity = person}
WaitingAt(email) ==
  {a \in PortalAccount : account[a].status = "pending" /\ account[a].identity = NoPerson
                   /\ account[a].email = email /\ email # NoEmail}

(* Read by identity; a row that is not there leads to the next lookup, and *)
(* so does a read that failed.                                             *)
ByIdentity(p) ==
  /\ handler[p].phase = "byIdentity"
  /\ \/ \E a \in OfIdentity(handler[p].person) :
          Proceed(p, [handler[p] EXCEPT !.account = a,
                       !.phase = IF account[a].status = "pending" THEN "activate" ELSE "session"])
     \/ (OfIdentity(handler[p].person) = {} \/ ~calm) /\ ProceedTo(p, "byEmail")
  /\ UNCHANGED <<clock, state, account, arrived, signedIn>>

ByEmail(p) ==
  /\ handler[p].phase = "byEmail"
  /\ \/ \E a \in WaitingAt(handler[p].email) :
          Proceed(p, [handler[p] EXCEPT !.phase = "activate", !.account = a])
     \/ (WaitingAt(handler[p].email) = {} \/ ~calm) /\ ProceedTo(p, "create")
  /\ UNCHANGED <<clock, state, account, arrived, signedIn>>

ActivateNameless(p) ==
  /\ handler[p].phase = "activate"
  /\ account' = [account EXCEPT ![handler[p].account].status = "active"]
  /\ ProceedTo(p, "session")
  /\ UNCHANGED <<clock, state, arrived, signedIn>>

(* The write's result is not looked at.                                    *)
Activate(p) ==
  /\ handler[p].phase = "activate"
  /\ \/ account' = [account EXCEPT ![handler[p].account].status = "active",
                                   ![handler[p].account].identity = handler[p].person]
     \/ ~calm /\ UNCHANGED account
  /\ ProceedTo(p, "session")
  /\ UNCHANGED <<clock, state, arrived, signedIn>>

Create(p, a) ==
  /\ handler[p].phase = "create"
  /\ account[a] = NoAccount
  /\ account' = [account EXCEPT ![a] =
       [status |-> "active", identity |-> handler[p].person, email |-> NoEmail]]
  /\ Proceed(p, [handler[p] EXCEPT !.phase = "session", !.account = a])
  /\ UNCHANGED <<clock, state, arrived, signedIn>>

CreateFails(p) ==
  /\ ~calm
  /\ handler[p].phase = "create"
  /\ Answered(p)
  /\ UNCHANGED <<clock, state, account, arrived, signedIn>>

(* PortalSessionService::issueSession                                      *)
IssueSession(p) ==
  LET q == handler[p] IN
  /\ q.phase = "session"
  /\ signedIn' = signedIn \cup
       {<<q.state, q.account, q.person, Cardinality(Sessions(q.state)) + 1>>}
  /\ Answered(p)
  /\ UNCHANGED <<clock, state, account, arrived>>

SignInTick ==
  /\ clock < MaxClock
  /\ clock' = clock + 1
  /\ UNCHANGED <<state, account, handler, arrived, signedIn>>

SignInStep ==
  \/ \E s \in State, route \in Route : Start(s, route)
  \/ \E p \in Handler :
       \/ \E s \in State, route \in Route, error \in BOOLEAN : Callback(p, s, route, error)
       \/ Find(p)
       \/ Mark(p)
       \/ \E person \in Person, email \in Email \cup {NoEmail} : Exchange(p, person, email)
       \/ ExchangeFails(p)
       \/ ByIdentity(p)
       \/ ByEmail(p)
       \/ Activate(p)
       \/ \E a \in PortalAccount : Create(p, a)
       \/ CreateFails(p)
       \/ IssueSession(p)
  \/ SignInTick

SignInNext == SignInStep /\ UNCHANGED calm

SignInSpec == SignInInit /\ [][SignInNext]_signInVars

-----------------------------------------------------------------------------

(* Type correctness of the rows and of the requests in flight.             *)
SignInTypeOK ==
  /\ clock \in 0..MaxClock
  /\ state \in [State -> StateRow \cup {NoState}]
  /\ account \in [PortalAccount -> AccountRow]
  /\ handler \in [Handler -> HandlerState]
  /\ arrived \in 0..MaxCallbacks
  /\ signedIn \subseteq State \X PortalAccount \X Person \X Nat

(* A callback that arrives after its state has signed somebody in gets no  *)
(* further than the row, even when the store fails and whatever other      *)
(* callbacks of that state are still under way (consume, 197-205).         *)
ReplaysFindItSpent ==
  \A p \in Handler : handler[p].replay => handler[p].phase = "find"

(* One state never signs in twice (consume, 216-217).                      *)
OneSessionPerState == \A s \in State : Cardinality(Sessions(s)) <= 1

(* When callbacks are served one after another and the store answers,    *)
(* whoever a session was issued for is and stays the owner of the account  *)
(* it names: no later sign-in takes it over by the shared address          *)
(* (existingFor, 572; isClaimablePendingRow, 258-264; activate, 459).      *)
SessionsNameTheirAccountSerially ==
  calm => \A t \in signedIn : account[t[2]].identity = t[3] /\ account[t[2]].status = "active"
=============================================================================
