----------------------------- MODULE AccountsProofs -----------------------------
(***************************************************************************)
(* Proofs about signing in (SignIn) and about claiming an account that      *)
(* waits (WaitingAccountClaim).                                             *)
(***************************************************************************)
EXTENDS SignIn, WaitingAccountClaim, FiniteSetTheorems, TLAPS

-----------------------------------------------------------------------------
(* What holds of sign-ins for any people, states, accounts and workers,    *)
(* with or without store failures.  That a late callback gets no further   *)
(* than the row is not inductive: it rests on the row being spent before   *)
(* anybody is asked who signed in, and on a spent row staying spent.       *)

AskedWho == {"byIdentity", "byEmail", "activate", "create", "session"}

(* A callback knows the state it came with, and later the person and the   *)
(* account.                                                                *)
Knows(q) ==
  /\ q.phase # "idle" => q.state \in State
  /\ q.phase \in AskedWho => q.person \in Person
  /\ q.phase \in {"activate", "session"} => q.account \in PortalAccount

(* It came with a state that was handed out; past the mark the row is      *)
(* spent; a late callback has only just arrived.                           *)
Started(q, rows) == q.phase # "idle" => rows[q.state] # NoState
Spends(q, rows) == q.phase \in AskedWho \cup {"exchange"} => rows[q.state].used
IsLate(q, rows) == q.replay => q.phase = "find" /\ rows[q.state].used
Sound(q, rows) == Knows(q) /\ Started(q, rows) /\ Spends(q, rows) /\ IsLate(q, rows)

(* No row is taken back or given back.                                     *)
RowsStay ==
  \A s \in State :
    /\ state[s] # NoState => state'[s] # NoState
    /\ state[s].used => state'[s].used

SessionsSpend == \A s \in State : Sessions(s) # {} => state[s].used

IInv ==
  /\ SignInTypeOK
  /\ IsFiniteSet(signedIn)
  /\ \A p \in Handler : Sound(handler[p], state)
  /\ SessionsSpend

-----------------------------------------------------------------------------

LEMMA IdleIsSound == ASSUME NEW rows PROVE NoCallback \in HandlerState /\ Sound(NoCallback, rows)
BY DEF NoCallback, HandlerState, CallbackPhase, Route, Sound, Knows, Started, Spends, IsLate, AskedWho

LEMMA RowTyped ==
  /\ NoState.used = FALSE
  /\ \A route \in Route, at \in Nat, used \in BOOLEAN :
       [route |-> route, expiresAt |-> at, used |-> used] \in StateRow
  /\ \A person \in Person \cup {NoPerson}, email \in Email \cup {NoEmail},
        status \in {"absent", "pending", "active"} :
       [status |-> status, identity |-> person, email |-> email] \in AccountRow
  /\ NoAccount \in AccountRow
BY DEF NoState, StateRow, AccountRow, NoAccount

(* One worker's step, while no spent row is given back.                    *)
LEMMA StepOfOne ==
  ASSUME IInv, NEW p \in Handler, NEW q \in HandlerState, Proceed(p, q),
         RowsStay,
         Sound(q, state')
  PROVE  /\ handler' \in [Handler -> HandlerState]
         /\ \A r \in Handler : Sound(handler'[r], state')
<1>1. handler \in [Handler -> HandlerState] /\ \A r \in Handler : Sound(handler[r], state)
  BY DEF IInv, SignInTypeOK
<1>2. handler' = [handler EXCEPT ![p] = q]
  BY DEF Proceed
<1>3. ASSUME NEW r \in Handler PROVE Sound(handler'[r], state')
  <2>1. CASE r = p
    BY <2>1, <1>1, <1>2
  <2>2. CASE r # p
    <3>1. handler'[r] = handler[r] /\ Sound(handler[r], state)
      BY <2>2, <1>1, <1>2
    <3>2. handler[r].phase \in AskedWho \cup {"exchange"} => handler[r].phase # "idle"
      BY DEF AskedWho
    <3>3. handler[r].phase # "idle" => handler[r].state \in State
      BY <3>1 DEF Sound, Knows
    <3>4. Started(handler[r], state') /\ Spends(handler[r], state')
      BY <3>1, <3>2, <3>3 DEF RowsStay, Sound, Started, Spends
    <3>5. IsLate(handler[r], state')
      BY <3>1, <3>3 DEF RowsStay, Sound, IsLate
    <3> QED  BY <3>1, <3>4, <3>5 DEF Sound, Knows
  <2> QED  BY <2>1, <2>2
<1> QED  BY <1>1, <1>2, <1>3

(* A step that neither writes a row nor signs in.                          *)
LEMMA ThinkingKeeps ==
  ASSUME IInv, NEW p \in Handler, NEW q \in HandlerState, Proceed(p, q), Sound(q, state),
         UNCHANGED <<clock, state, account, signedIn>>, arrived' \in 0..MaxCallbacks
  PROVE  IInv'
<1>1. /\ handler' \in [Handler -> HandlerState]
      /\ \A r \in Handler : Sound(handler'[r], state')
  <2>1. Sound(q, state') /\ RowsStay
    BY DEF RowsStay
  <2> QED  BY <2>1, StepOfOne
<1>2. SignInTypeOK'
  BY <1>1 DEF IInv, SignInTypeOK
<1>3. SessionsSpend'
  BY DEF IInv, SessionsSpend, Sessions
<1> QED  BY <1>1, <1>2, <1>3 DEF IInv

(* A step that writes an account row.                                      *)
LEMMA AccountKeeps ==
  ASSUME IInv, NEW p \in Handler, NEW q \in HandlerState, Proceed(p, q), Sound(q, state),
         account' \in [PortalAccount -> AccountRow],
         UNCHANGED <<clock, state, signedIn, arrived>>
  PROVE  IInv'
<1>1. /\ handler' \in [Handler -> HandlerState]
      /\ \A r \in Handler : Sound(handler'[r], state')
  <2>1. Sound(q, state') /\ RowsStay
    BY DEF RowsStay
  <2> QED  BY <2>1, StepOfOne
<1>2. SignInTypeOK'
  BY <1>1 DEF IInv, SignInTypeOK
<1>3. SessionsSpend'
  BY DEF IInv, SessionsSpend, Sessions
<1> QED  BY <1>1, <1>2, <1>3 DEF IInv

LEMMA InitHolds == SignInInit => IInv
<1> SUFFICES ASSUME SignInInit PROVE IInv
  OBVIOUS
<1>1. account \in [PortalAccount -> AccountRow]
  BY DEF SignInInit, NoAccount, AccountRow
<1>2. clock \in 0..MaxClock /\ arrived \in 0..MaxCallbacks
  BY SignInConstants DEF SignInInit
<1>3. SignInTypeOK
  BY <1>1, <1>2, IdleIsSound DEF SignInInit, SignInTypeOK
<1>4. IsFiniteSet(signedIn)
  BY FS_EmptySet DEF SignInInit
<1>5. \A p \in Handler : Sound(handler[p], state)
  BY IdleIsSound DEF SignInInit
<1>6. SessionsSpend
  BY DEF SignInInit, SessionsSpend, Sessions
<1> QED  BY <1>3, <1>4, <1>5, <1>6 DEF IInv

LEMMA StartKeeps == ASSUME IInv, NEW s \in State, NEW route \in Route, Start(s, route) PROVE IInv'
<1> DEFINE new == [route |-> route, expiresAt |-> clock + Ttl, used |-> FALSE]
<1>1. /\ state' = [state EXCEPT ![s] = new] /\ state[s] = NoState
      /\ UNCHANGED <<clock, account, handler, arrived, signedIn>>
  BY DEF Start
<1>2. new \in StateRow
  <2>1. clock + Ttl \in Nat
    BY SignInConstants DEF IInv, SignInTypeOK
  <2> QED  BY <2>1, RowTyped
<1>3. RowsStay
  BY <1>1, <1>2, RowTyped DEF RowsStay, IInv, SignInTypeOK, StateRow, Route, NoState
<1>4. SignInTypeOK'
  BY <1>1, <1>2 DEF IInv, SignInTypeOK
<1>5. \A p \in Handler : Sound(handler'[p], state')
  BY <1>1, <1>3 DEF RowsStay, IInv, Sound, Knows, Started, Spends, IsLate, AskedWho
<1>6. SessionsSpend'
  BY <1>1, <1>3 DEF RowsStay, IInv, SessionsSpend, Sessions
<1> QED  BY <1>1, <1>4, <1>5, <1>6 DEF IInv

LEMMA CallbackKeeps ==
  ASSUME IInv, NEW p \in Handler, NEW s \in State, NEW route \in Route, NEW error \in BOOLEAN,
         Callback(p, s, route, error)
  PROVE  IInv'
<1> DEFINE q == [NoCallback EXCEPT !.phase = "find", !.route = route, !.state = s, !.error = error,
                             !.replay = Sessions(s) # {}]
<1>1. (Sessions(s) # {}) \in BOOLEAN
  OBVIOUS
<1>2. /\ q \in HandlerState /\ q.phase = "find" /\ q.state = s
      /\ q.replay = (Sessions(s) # {})
  BY <1>1, IdleIsSound DEF NoCallback, HandlerState, CallbackPhase
<1>3. Sound(q, state)
  BY <1>2 DEF Callback, IInv, SessionsSpend, Sound, Knows, Started, Spends, IsLate, AskedWho
<1>4. Proceed(p, q) /\ UNCHANGED <<clock, state, account, signedIn>>
  BY DEF Callback
<1>5. arrived' \in 0..MaxCallbacks
  BY SignInConstants DEF Callback, IInv, SignInTypeOK
<1> QED  BY <1>2, <1>3, <1>4, <1>5, ThinkingKeeps

LEMMA MarkKeeps == ASSUME IInv, NEW p \in Handler, Mark(p) PROVE IInv'
<1> DEFINE s == handler[p].state
           q == [handler[p] EXCEPT !.phase = "exchange"]
<1>1. handler[p] \in HandlerState /\ handler[p].phase = "mark" /\ s \in State /\ ~handler[p].replay
  BY DEF Mark, IInv, SignInTypeOK, Sound, Knows, IsLate
<1>2. q \in HandlerState /\ q.phase = "exchange" /\ q.state = s /\ q.replay = handler[p].replay
  BY <1>1 DEF HandlerState, CallbackPhase
<1>3. CASE UNCHANGED state /\ Answered(p)
  <2>1. UNCHANGED <<clock, account, signedIn>> /\ arrived' \in 0..MaxCallbacks
    BY DEF Mark, IInv, SignInTypeOK
  <2> QED  BY <1>3, <2>1, IdleIsSound, ThinkingKeeps DEF Answered
<1>4. CASE /\ state' = [state EXCEPT ![s].used = TRUE]
           /\ Answered(p) \/ ProceedTo(p, "exchange")
  <2>1. /\ state' \in [State -> StateRow \cup {NoState}] /\ state'[s].used
        /\ RowsStay
    <3>1. state \in [State -> StateRow \cup {NoState}] /\ state[s] \in StateRow
      BY <1>1 DEF IInv, SignInTypeOK, Sound, Started
    <3>2. [state[s] EXCEPT !.used = TRUE] \in StateRow
      BY <3>1 DEF StateRow
    <3>3. state' = [state EXCEPT ![s] = [state[s] EXCEPT !.used = TRUE]]
      BY <1>4
    <3>4. state'[s] = [state[s] EXCEPT !.used = TRUE] /\ state'[s].used /\ state'[s] # NoState
      BY <3>1, <3>2, <3>3, <1>1, RowTyped DEF StateRow
    <3> QED  BY <3>1, <3>2, <3>3, <3>4, <1>1 DEF RowsStay
  <2>2. PICK next \in HandlerState : Proceed(p, next) /\ Sound(next, state')
    <3>1. CASE Answered(p)
      BY <3>1, IdleIsSound DEF Answered
    <3>2. CASE ProceedTo(p, "exchange")
      <4>1. Proceed(p, q)
        BY <3>2 DEF ProceedTo
      <4>2. state'[s] # NoState
        BY <1>1, <2>1 DEF RowsStay, IInv, Sound, Started
      <4>3. Sound(q, state')
        BY <1>1, <1>2, <2>1, <4>2 DEF Sound, Knows, Started, Spends, IsLate, AskedWho
      <4> QED  BY <4>1, <4>3, <1>2
    <3> QED  BY <3>1, <3>2, <1>4
  <2>3. /\ handler' \in [Handler -> HandlerState]
        /\ \A r \in Handler : Sound(handler'[r], state')
    BY <2>1, <2>2, StepOfOne
  <2>4. UNCHANGED <<clock, account, arrived, signedIn>>
    BY DEF Mark
  <2>5. SignInTypeOK'
    BY <2>1, <2>3, <2>4 DEF IInv, SignInTypeOK
  <2>6. SessionsSpend'
    BY <2>1, <2>4 DEF IInv, SessionsSpend, Sessions, RowsStay
  <2> QED  BY <2>3, <2>4, <2>5, <2>6 DEF IInv
<1> QED  BY <1>3, <1>4 DEF Mark

(* Finding the row, and everything between the mark and the session that   *)
(* writes nothing.                                                         *)
LEMMA ReadingKeeps ==
  ASSUME IInv, NEW p \in Handler,
         Find(p) \/ ExchangeFails(p) \/ CreateFails(p) \/ ByIdentity(p) \/ ByEmail(p)
  PROVE  IInv'
<1>1. /\ UNCHANGED <<clock, state, account, signedIn>> /\ arrived' \in 0..MaxCallbacks
      /\ handler[p] \in HandlerState /\ Sound(handler[p], state)
  BY DEF Find, ExchangeFails, CreateFails, ByIdentity, ByEmail, IInv, SignInTypeOK
<1>2. CASE Answered(p)
  BY <1>1, <1>2, IdleIsSound, ThinkingKeeps DEF Answered
<1>3. CASE Find(p) /\ ProceedTo(p, "mark")
  <2> DEFINE q == [handler[p] EXCEPT !.phase = "mark"]
  <2>1. /\ q \in HandlerState /\ q.phase = "mark" /\ q.state = handler[p].state
        /\ q.replay = handler[p].replay
    BY <1>1 DEF HandlerState, CallbackPhase
  <2>2. handler[p].phase = "find" /\ ~state[handler[p].state].used
    BY <1>3, IdleIsSound DEF Find, Answered, ProceedTo, Proceed, NoCallback, IInv, SignInTypeOK, HandlerState
  <2>3. Sound(q, state)
    BY <1>1, <2>1, <2>2 DEF Sound, Knows, Started, Spends, IsLate, AskedWho
  <2>4. Proceed(p, q)
    BY <1>3 DEF ProceedTo
  <2> QED  BY <1>1, <2>1, <2>3, <2>4, ThinkingKeeps
<1>4. CASE \E a \in PortalAccount, phase \in {"activate", "session"} :
             /\ Proceed(p, [handler[p] EXCEPT !.account = a, !.phase = phase])
             /\ handler[p].phase \in {"byIdentity", "byEmail"}
  <2>1. PICK a \in PortalAccount, phase \in {"activate", "session"} :
          /\ Proceed(p, [handler[p] EXCEPT !.account = a, !.phase = phase])
          /\ handler[p].phase \in {"byIdentity", "byEmail"}
    BY <1>4
  <2> DEFINE q == [handler[p] EXCEPT !.account = a, !.phase = phase]
  <2>2. /\ q \in HandlerState /\ q.phase = phase /\ q.state = handler[p].state
        /\ q.replay = handler[p].replay /\ q.person = handler[p].person /\ q.account = a
    BY <1>1 DEF HandlerState, CallbackPhase
  <2>3. Sound(q, state)
    BY <1>1, <2>1, <2>2 DEF Sound, Knows, Started, Spends, IsLate, AskedWho
  <2> QED  BY <1>1, <2>1, <2>2, <2>3, ThinkingKeeps
<1>5. CASE /\ ProceedTo(p, "byEmail") \/ ProceedTo(p, "create")
           /\ handler[p].phase \in {"byIdentity", "byEmail"}
  <2>1. PICK phase \in {"byEmail", "create"} : Proceed(p, [handler[p] EXCEPT !.phase = phase])
    BY <1>5 DEF ProceedTo
  <2> DEFINE q == [handler[p] EXCEPT !.phase = phase]
  <2>2. /\ q \in HandlerState /\ q.phase = phase /\ q.state = handler[p].state
        /\ q.replay = handler[p].replay /\ q.person = handler[p].person
    BY <1>1 DEF HandlerState, CallbackPhase
  <2>3. Sound(q, state)
    BY <1>1, <1>5, <2>2 DEF Sound, Knows, Started, Spends, IsLate, AskedWho
  <2> QED  BY <1>1, <2>1, <2>2, <2>3, ThinkingKeeps
<1>6. CASE ByIdentity(p)
  <2>1. CASE \E a \in OfIdentity(handler[p].person) :
               Proceed(p, [handler[p] EXCEPT !.account = a,
                            !.phase = IF account[a].status = "pending" THEN "activate" ELSE "session"])
    <3>1. PICK a \in PortalAccount, phase \in {"activate", "session"} :
            Proceed(p, [handler[p] EXCEPT !.account = a, !.phase = phase])
      BY <2>1 DEF OfIdentity
    <3> QED  BY <3>1, <1>6, <1>4 DEF ByIdentity
  <2>2. CASE ProceedTo(p, "byEmail")
    BY <2>2, <1>5, <1>6 DEF ByIdentity
  <2> QED  BY <2>1, <2>2, <1>6 DEF ByIdentity
<1>7. CASE ByEmail(p)
  <2>1. CASE \E a \in WaitingAt(handler[p].email) :
               Proceed(p, [handler[p] EXCEPT !.phase = "activate", !.account = a])
    <3>1. PICK a \in PortalAccount : Proceed(p, [handler[p] EXCEPT !.phase = "activate", !.account = a])
      BY <2>1 DEF WaitingAt
    <3>2. [handler[p] EXCEPT !.phase = "activate", !.account = a] =
            [handler[p] EXCEPT !.account = a, !.phase = "activate"]
      BY <1>1 DEF HandlerState
    <3>3. Proceed(p, [handler[p] EXCEPT !.account = a, !.phase = "activate"])
      BY <3>1, <3>2
    <3> QED  BY <3>3, <1>4, <1>7 DEF ByEmail
  <2>2. CASE ProceedTo(p, "create")
    BY <2>2, <1>5, <1>7 DEF ByEmail
  <2> QED  BY <2>1, <2>2, <1>7 DEF ByEmail
<1> QED  BY <1>2, <1>3, <1>6, <1>7 DEF Find, ExchangeFails, CreateFails

LEMMA ExchangeKeeps ==
  ASSUME IInv, NEW p \in Handler, NEW person \in Person, NEW email \in Email \cup {NoEmail},
         Exchange(p, person, email)
  PROVE  IInv'
<1> DEFINE q == [handler[p] EXCEPT !.phase = "byIdentity", !.person = person, !.email = email]
<1>1. /\ handler[p].phase = "exchange" /\ handler[p] \in HandlerState /\ Sound(handler[p], state)
      /\ Proceed(p, q) /\ UNCHANGED <<clock, state, account, signedIn>>
      /\ arrived' \in 0..MaxCallbacks
  BY DEF Exchange, IInv, SignInTypeOK
<1>2. /\ q \in HandlerState /\ q.phase = "byIdentity" /\ q.state = handler[p].state
      /\ q.replay = handler[p].replay /\ q.person = person
  BY <1>1 DEF HandlerState, CallbackPhase
<1>3. Sound(q, state)
  BY <1>1, <1>2 DEF Sound, Knows, Started, Spends, IsLate, AskedWho
<1> QED  BY <1>1, <1>2, <1>3, ThinkingKeeps

LEMMA ActivateKeeps == ASSUME IInv, NEW p \in Handler, Activate(p) PROVE IInv'
<1> DEFINE q == [handler[p] EXCEPT !.phase = "session"]
           a == handler[p].account
<1>1. /\ handler[p].phase = "activate" /\ handler[p] \in HandlerState /\ Sound(handler[p], state)
      /\ Proceed(p, q) /\ UNCHANGED <<clock, state, signedIn, arrived>>
  BY DEF Activate, ProceedTo, IInv, SignInTypeOK
<1>2. /\ q \in HandlerState /\ q.phase = "session" /\ q.state = handler[p].state
      /\ q.replay = handler[p].replay /\ q.person = handler[p].person /\ q.account = a
  BY <1>1 DEF HandlerState, CallbackPhase
<1>3. Sound(q, state)
  BY <1>1, <1>2 DEF Sound, Knows, Started, Spends, IsLate, AskedWho
<1>4. account' \in [PortalAccount -> AccountRow]
  <2>1. handler[p].person \in Person \cup {NoPerson} /\ account \in [PortalAccount -> AccountRow]
    BY <1>1 DEF HandlerState, IInv, SignInTypeOK
  <2>2. CASE account' = account
    BY <2>1, <2>2
  <2>3. CASE account' = [account EXCEPT ![a].status = "active", ![a].identity = handler[p].person]
    BY <2>1, <2>3 DEF AccountRow
  <2> QED  BY <2>2, <2>3 DEF Activate
<1> QED  BY <1>1, <1>2, <1>3, <1>4, AccountKeeps

LEMMA CreateKeeps ==
  ASSUME IInv, NEW p \in Handler, NEW a \in PortalAccount, Create(p, a) PROVE IInv'
<1> DEFINE q == [handler[p] EXCEPT !.phase = "session", !.account = a]
<1>1. /\ handler[p].phase = "create" /\ handler[p] \in HandlerState /\ Sound(handler[p], state)
      /\ Proceed(p, q) /\ UNCHANGED <<clock, state, signedIn, arrived>>
  BY DEF Create, IInv, SignInTypeOK
<1>2. /\ q \in HandlerState /\ q.phase = "session" /\ q.state = handler[p].state
      /\ q.replay = handler[p].replay /\ q.person = handler[p].person /\ q.account = a
  BY <1>1 DEF HandlerState, CallbackPhase
<1>3. Sound(q, state)
  BY <1>1, <1>2 DEF Sound, Knows, Started, Spends, IsLate, AskedWho
<1>4. account' \in [PortalAccount -> AccountRow]
  BY <1>1, RowTyped DEF Create, HandlerState, IInv, SignInTypeOK
<1> QED  BY <1>1, <1>2, <1>3, <1>4, AccountKeeps

LEMMA IssueSessionKeeps == ASSUME IInv, NEW p \in Handler, IssueSession(p) PROVE IInv'
<1> DEFINE q == handler[p]
           new == <<q.state, q.account, q.person, Cardinality(Sessions(q.state)) + 1>>
<1>1. /\ q.phase = "session" /\ q.state \in State /\ q.account \in PortalAccount
      /\ q.person \in Person /\ state[q.state].used
  BY DEF IssueSession, IInv, Sound, Knows, Spends, AskedWho
<1>2. signedIn' = signedIn \cup {new} /\ UNCHANGED <<clock, state, account, arrived>> /\ Proceed(p, NoCallback)
  BY DEF IssueSession, Answered
<1>3. Cardinality(Sessions(q.state)) \in Nat
  <2>1. Sessions(q.state) \subseteq signedIn /\ IsFiniteSet(signedIn)
    BY DEF Sessions, IInv
  <2> QED  BY <2>1, FS_Subset, FS_CardinalityType
<1>4. signedIn' \subseteq State \X PortalAccount \X Person \X Nat
  <2>1. new \in State \X PortalAccount \X Person \X Nat
    BY <1>1, <1>3
  <2> QED  BY <1>2, <2>1 DEF IInv, SignInTypeOK
<1>5. IsFiniteSet(signedIn')
  BY <1>2, FS_AddElement DEF IInv
<1>6. /\ handler' \in [Handler -> HandlerState]
      /\ \A r \in Handler : Sound(handler'[r], state')
  <2>1. RowsStay
    BY <1>2 DEF RowsStay
  <2> QED  BY <1>2, <2>1, IdleIsSound, StepOfOne
<1>7. SignInTypeOK'
  BY <1>2, <1>4, <1>6 DEF IInv, SignInTypeOK
<1>8. SessionsSpend'
  <2> SUFFICES ASSUME NEW s \in State, Sessions(s)' # {} PROVE state[s].used
    BY <1>2 DEF SessionsSpend
  <2>1. CASE s = q.state
    BY <2>1, <1>1
  <2>2. CASE s # q.state
    <3>1. new[1] = q.state
      OBVIOUS
    <3>2. Sessions(s)' \subseteq Sessions(s)
      BY <2>2, <3>1, <1>2 DEF Sessions
    <3> QED  BY <3>2 DEF IInv, SessionsSpend
  <2> QED  BY <2>1, <2>2
<1> QED  BY <1>5, <1>6, <1>7, <1>8 DEF IInv

(* Every step of a sign-in keeps the invariant.                            *)
LEMMA NextKeeps == IInv /\ [SignInNext]_signInVars => IInv'
<1> SUFFICES ASSUME IInv, [SignInNext]_signInVars PROVE IInv'
  OBVIOUS
<1>1. ASSUME NEW s \in State, NEW route \in Route, Start(s, route) PROVE IInv'
  BY <1>1, StartKeeps
<1>2. ASSUME NEW p \in Handler, NEW s \in State, NEW route \in Route, NEW error \in BOOLEAN,
             Callback(p, s, route, error)
      PROVE  IInv'
  BY <1>2, CallbackKeeps
<1>3. ASSUME NEW p \in Handler, Mark(p) PROVE IInv'
  BY <1>3, MarkKeeps
<1>4. ASSUME NEW p \in Handler,
             Find(p) \/ ExchangeFails(p) \/ CreateFails(p) \/ ByIdentity(p) \/ ByEmail(p)
      PROVE  IInv'
  BY <1>4, ReadingKeeps
<1>5. ASSUME NEW p \in Handler, NEW person \in Person, NEW email \in Email \cup {NoEmail},
             Exchange(p, person, email)
      PROVE  IInv'
  BY <1>5, ExchangeKeeps
<1>6. ASSUME NEW p \in Handler, Activate(p) PROVE IInv'
  BY <1>6, ActivateKeeps
<1>7. ASSUME NEW p \in Handler, NEW a \in PortalAccount, Create(p, a) PROVE IInv'
  BY <1>7, CreateKeeps
<1>8. ASSUME NEW p \in Handler, IssueSession(p) PROVE IInv'
  BY <1>8, IssueSessionKeeps
<1>9. CASE SignInTick
  <2>1. clock' \in 0..MaxClock /\ UNCHANGED <<state, account, handler, arrived, signedIn>>
    BY <1>9, SignInConstants DEF SignInTick, IInv, SignInTypeOK
  <2> QED  BY <2>1 DEF IInv, SignInTypeOK, SessionsSpend, Sessions
<1>10. CASE UNCHANGED signInVars
  BY <1>10 DEF signInVars, IInv, SignInTypeOK, SessionsSpend, Sessions
<1> QED  BY <1>1, <1>2, <1>3, <1>4, <1>5, <1>6, <1>7, <1>8, <1>9, <1>10 DEF SignInNext, SignInStep

LEMMA Invariance == SignInSpec => []IInv
BY InitHolds, NextKeeps, PTL DEF SignInSpec

(* The types of the state rows, the accounts and the callbacks (consume;   *)
(* findOrCreate).                                                          *)
THEOREM SignInTypeCorrect == SignInSpec => []SignInTypeOK
<1>1. IInv => SignInTypeOK
  BY DEF IInv
<1> QED  BY Invariance, <1>1, PTL

(* A callback that arrives after its state signed somebody in gets no      *)
(* further than the row, whatever other callbacks of that state are under  *)
(* way and whichever write fails (consume, 197-205).                       *)
THEOREM LateReplaysFindItSpent == SignInSpec => []ReplaysFindItSpent
<1>1. IInv => ReplaysFindItSpent
  BY DEF IInv, Sound, IsLate, ReplaysFindItSpent
<1> QED  BY Invariance, <1>1, PTL

-----------------------------------------------------------------------------
(* Callbacks served one after another: between looking an account up and   *)
(* activating it no other callback touches it, so the row still waits when *)
(* it is activated, and a row somebody was signed in to waits no more.     *)

OneCallback ==
  \A p, q \in Handler : handler[p].phase # "idle" /\ handler[q].phase # "idle" => p = q

(* Who has an identity waits or is active.                                 *)
NamedRowsAreThere ==
  \A a \in PortalAccount : account[a].identity # NoPerson => account[a].status # "absent"

(* What a callback is about to activate still waits; what it is about to   *)
(* sign in to is active and its own.                                       *)
LookupHolds(q) ==
  /\ q.phase = "activate" => account[q.account].status = "pending"
  /\ q.phase = "session" =>
       account[q.account].status = "active" /\ account[q.account].identity = q.person

Owned == \A t \in signedIn : account[t[2]].identity = t[3] /\ account[t[2]].status = "active"

SerialInv ==
  calm => OneCallback /\ NamedRowsAreThere /\ Owned /\ \A p \in Handler : LookupHolds(handler[p])

(* A step that leaves the accounts and the sessions alone keeps it, when   *)
(* the worker that took it is the one at work and what it looked up holds. *)
LEMMA LookupStepKeeps ==
  ASSUME IInv, SerialInv, calm, UNCHANGED <<account, signedIn, calm>>, NEW p \in Handler,
         NEW q, Proceed(p, q), LookupHolds(q),
         handler[p].phase # "idle" \/ \A r \in Handler : handler[r].phase = "idle"
  PROVE  SerialInv'
<1>1. handler' = [handler EXCEPT ![p] = q] /\ DOMAIN handler = Handler
  BY DEF Proceed, IInv, SignInTypeOK
<1>2. OneCallback'
  BY <1>1 DEF SerialInv, OneCallback
<1>3. NamedRowsAreThere' /\ Owned'
  BY DEF SerialInv, NamedRowsAreThere, Owned
<1>4. \A r \in Handler : LookupHolds(handler[r])'
  BY <1>1 DEF SerialInv, LookupHolds
<1> QED  BY <1>2, <1>3, <1>4 DEF SerialInv

(* The one worker that is at work looks accounts up.                       *)
LEMMA SerialLookupKeeps ==
  ASSUME IInv, SerialInv, calm, UNCHANGED calm, NEW p \in Handler,
         \/ \E s \in State, route \in Route, error \in BOOLEAN : Callback(p, s, route, error)
         \/ Find(p) \/ Mark(p)
         \/ \E person \in Person, email \in Email \cup {NoEmail} : Exchange(p, person, email)
         \/ ExchangeFails(p) \/ ByIdentity(p) \/ ByEmail(p) \/ CreateFails(p)
  PROVE  SerialInv'
<1> DEFINE q == handler[p]
<1>1. q \in HandlerState /\ handler \in [Handler -> HandlerState] /\ Knows(q)
  BY DEF IInv, SignInTypeOK, Sound
<1>2. LookupHolds(NoCallback)
  BY DEF LookupHolds, NoCallback
<1>3. ASSUME NEW phase \in {"mark", "exchange", "byEmail", "create"}
      PROVE  LookupHolds([q EXCEPT !.phase = phase])
  BY <1>1 DEF LookupHolds, HandlerState
<1>4. ASSUME NEW s \in State, NEW route \in Route, NEW error \in BOOLEAN,
             Callback(p, s, route, error)
      PROVE  SerialInv'
  <2> DEFINE new == [NoCallback EXCEPT !.phase = "find", !.route = route, !.state = s,
                                       !.error = error, !.replay = Sessions(s) # {}]
  <2>1. LookupHolds(new)
    BY DEF LookupHolds, NoCallback
  <2> QED  BY <1>4, <2>1, LookupStepKeeps DEF Callback
<1>5. CASE Find(p)
  BY <1>2, <1>3, <1>5, LookupStepKeeps DEF Find, Answered, ProceedTo
<1>6. CASE Mark(p)
  BY <1>2, <1>3, <1>6, LookupStepKeeps DEF Mark, Answered, ProceedTo
<1>7. ASSUME NEW person \in Person, NEW email \in Email \cup {NoEmail},
             Exchange(p, person, email)
      PROVE  SerialInv'
  <2>1. LookupHolds([q EXCEPT !.phase = "byIdentity", !.person = person, !.email = email])
    BY <1>1 DEF LookupHolds, HandlerState
  <2> QED  BY <1>7, <2>1, LookupStepKeeps DEF Exchange
<1>8. CASE ExchangeFails(p)
  BY <1>2, <1>8, LookupStepKeeps DEF ExchangeFails, Answered
<1>9. CASE ByIdentity(p)
  <2>1. ASSUME NEW a \in OfIdentity(q.person),
               Proceed(p, [q EXCEPT !.account = a,
                   !.phase = IF account[a].status = "pending" THEN "activate" ELSE "session"])
        PROVE  SerialInv'
    <3> DEFINE new == [q EXCEPT !.account = a,
                         !.phase = IF account[a].status = "pending" THEN "activate" ELSE "session"]
    <3>1. /\ q.phase = "byIdentity" /\ UNCHANGED <<account, signedIn>>
          /\ a \in PortalAccount /\ account[a].identity = q.person /\ q.person \in Person
      BY <1>1, <1>9 DEF ByIdentity, OfIdentity, Knows, AskedWho
    <3>2. account[a].status \in {"pending", "active"}
      BY <3>1, SignInConstants DEF SerialInv, NamedRowsAreThere, IInv, SignInTypeOK, AccountRow
    <3>3. new.account = a /\ new.person = q.person
          /\ new.phase = IF account[a].status = "pending" THEN "activate" ELSE "session"
      BY <1>1 DEF HandlerState
    <3>4. LookupHolds(new)
      BY <3>1, <3>2, <3>3 DEF LookupHolds
    <3> QED  BY <2>1, <3>1, <3>4, LookupStepKeeps
  <2> QED  BY <1>3, <1>9, <2>1, LookupStepKeeps DEF ByIdentity, ProceedTo
<1>10. CASE ByEmail(p)
  <2>1. ASSUME NEW a \in WaitingAt(q.email),
               Proceed(p, [q EXCEPT !.phase = "activate", !.account = a])
        PROVE  SerialInv'
    <3>1. LookupHolds([q EXCEPT !.phase = "activate", !.account = a])
      BY <1>1 DEF LookupHolds, HandlerState, WaitingAt
    <3> QED  BY <1>10, <2>1, <3>1, LookupStepKeeps DEF ByEmail
  <2> QED  BY <1>3, <1>10, <2>1, LookupStepKeeps DEF ByEmail, ProceedTo
<1> QED  BY <1>4, <1>5, <1>6, <1>7, <1>8, <1>9, <1>10 DEF CreateFails

(* Activating or creating an account touches one nobody was signed in to.  *)
LEMMA SerialWriteKeeps ==
  ASSUME IInv, SerialInv, calm, UNCHANGED calm, NEW p \in Handler,
         Activate(p) \/ \E a \in PortalAccount : Create(p, a)
  PROVE  SerialInv'
<1> DEFINE q == handler[p]
<1>1. q \in HandlerState /\ handler \in [Handler -> HandlerState] /\ Knows(q)
      /\ account \in [PortalAccount -> AccountRow]
      /\ signedIn \subseteq State \X PortalAccount \X Person \X Nat
  BY DEF IInv, SignInTypeOK, Sound
<1>2. PICK a \in PortalAccount :
        /\ q.phase \in {"activate", "create"} /\ q.person \in Person
        /\ account[a].status # "active"
        /\ \A b \in PortalAccount : b # a => account'[b] = account[b]
        /\ account'[a].status = "active" /\ account'[a].identity = q.person
        /\ handler' = [handler EXCEPT ![p] = [q EXCEPT !.phase = "session", !.account = a]]
        /\ UNCHANGED signedIn
  <2>1. CASE Activate(p)
    <3>1. /\ q.account \in PortalAccount /\ account[q.account].status = "pending"
          /\ q.phase = "activate" /\ q.person \in Person
      BY <2>1, <1>1 DEF Activate, Knows, AskedWho, SerialInv, LookupHolds
    <3>2. account' = [account EXCEPT ![q.account].status = "active", ![q.account].identity = q.person]
      BY <2>1 DEF Activate
    <3>3. /\ \A b \in PortalAccount : b # q.account => account'[b] = account[b]
          /\ account'[q.account].status = "active" /\ account'[q.account].identity = q.person
      BY <3>1, <3>2, <1>1 DEF AccountRow
    <3>4. [q EXCEPT !.phase = "session"] = [q EXCEPT !.phase = "session", !.account = q.account]
      BY <1>1 DEF HandlerState
    <3> QED  BY <2>1, <3>1, <3>3, <3>4 DEF Activate, ProceedTo, Proceed
  <2>2. ASSUME NEW a \in PortalAccount, Create(p, a)
        PROVE  /\ q.phase = "create" /\ q.person \in Person
               /\ account[a].status # "active"
               /\ \A b \in PortalAccount : b # a => account'[b] = account[b]
               /\ account'[a].status = "active" /\ account'[a].identity = q.person
               /\ handler' = [handler EXCEPT ![p] = [q EXCEPT !.phase = "session", !.account = a]]
               /\ UNCHANGED signedIn
    <3>1. q.phase = "create" /\ account[a] = NoAccount
      BY <2>2 DEF Create
    <3>4. q.person \in Person
      BY <3>1, <1>1 DEF Knows, AskedWho
    <3>5. account[a].status # "active"
      BY <3>1 DEF NoAccount
    <3>2. account' = [account EXCEPT ![a] =
             [status |-> "active", identity |-> q.person, email |-> NoEmail]]
      BY <2>2 DEF Create
    <3>3. /\ \A b \in PortalAccount : b # a => account'[b] = account[b]
          /\ account'[a].status = "active" /\ account'[a].identity = q.person
      BY <3>2, <1>1
    <3> QED  BY <2>2, <3>1, <3>3, <3>4, <3>5 DEF Create, Proceed
  <2> QED  BY <2>1, <2>2
<1>3. Owned'
  <2> SUFFICES ASSUME NEW t \in signedIn
               PROVE  account'[t[2]].identity = t[3] /\ account'[t[2]].status = "active"
    BY <1>2 DEF Owned
  <2>1. t[2] \in PortalAccount /\ account[t[2]].identity = t[3] /\ account[t[2]].status = "active"
    BY <1>1 DEF SerialInv, Owned
  <2> QED  BY <1>2, <2>1
<1>4. NamedRowsAreThere'
  BY <1>2 DEF SerialInv, NamedRowsAreThere
<1>5. OneCallback'
  BY <1>1, <1>2 DEF SerialInv, OneCallback
<1>6. ASSUME NEW r \in Handler PROVE LookupHolds(handler[r])'
  <2>1. CASE r = p
    <3>1. /\ handler'[p].phase = "session" /\ handler'[p].account = a
          /\ handler'[p].person = q.person
      BY <1>1, <1>2 DEF HandlerState
    <3> QED  BY <2>1, <3>1, <1>2 DEF LookupHolds
  <2>2. CASE r # p
    BY <2>2, <1>1, <1>2 DEF SerialInv, OneCallback, LookupHolds
  <2> QED  BY <2>1, <2>2
<1> QED  BY <1>3, <1>4, <1>5, <1>6 DEF SerialInv

LEMMA SerialNextKeeps == IInv /\ SerialInv /\ [SignInNext]_signInVars => SerialInv'
<1> SUFFICES ASSUME IInv, SerialInv, [SignInNext]_signInVars, calm PROVE SerialInv'
  BY DEF SerialInv, SignInNext, signInVars
<1>0. UNCHANGED calm
  BY DEF SignInNext, signInVars
<1>1. ASSUME NEW p \in Handler, IssueSession(p) PROVE SerialInv'
  <2> DEFINE q == handler[p]
             new == <<q.state, q.account, q.person, Cardinality(Sessions(q.state)) + 1>>
  <2>1. /\ handler' = [handler EXCEPT ![p] = NoCallback] /\ DOMAIN handler = Handler
        /\ signedIn' = signedIn \cup {new} /\ UNCHANGED account /\ q.phase = "session"
    BY <1>1 DEF IssueSession, Answered, Proceed, IInv, SignInTypeOK
  <2>2. new[2] = q.account /\ new[3] = q.person
    OBVIOUS
  <2>3. account[q.account].identity = q.person /\ account[q.account].status = "active"
    BY <2>1 DEF SerialInv, LookupHolds
  <2>4. Owned'
    BY <2>1, <2>2, <2>3 DEF SerialInv, Owned
  <2>5. OneCallback' /\ NamedRowsAreThere'
    BY <2>1 DEF SerialInv, OneCallback, NamedRowsAreThere, NoCallback
  <2>6. \A r \in Handler : LookupHolds(handler[r])'
    BY <2>1 DEF SerialInv, LookupHolds, NoCallback
  <2> QED  BY <2>4, <2>5, <2>6 DEF SerialInv
<1>2. ASSUME UNCHANGED <<account, handler, signedIn>> PROVE SerialInv'
  BY <1>0, <1>2 DEF SerialInv, OneCallback, NamedRowsAreThere, Owned, LookupHolds
<1> QED
  BY <1>0, <1>1, <1>2, SerialLookupKeeps, SerialWriteKeeps
     DEF SignInNext, SignInStep, Start, SignInTick, signInVars

(* When callbacks are served one after another and every write is done,    *)
(* whoever a session was issued for is and stays the owner of the account  *)
(* it names, however many people, states and accounts there are            *)
(* (existingFor, 572; isClaimablePendingRow, 258-264; activate, 459).      *)
THEOREM SessionsKeepTheirOwner == SignInSpec => []SessionsNameTheirAccountSerially
<1>1. SignInInit => SerialInv
  <2> SUFFICES ASSUME SignInInit PROVE SerialInv
    OBVIOUS
  <2>1. \A a \in PortalAccount : account[a].identity # NoPerson => account[a].status # "absent"
    BY DEF SignInInit, NoAccount
  <2> QED
    BY <2>1 DEF SignInInit, SerialInv, OneCallback, NamedRowsAreThere, Owned, LookupHolds, NoCallback
<1>2. SerialInv => SessionsNameTheirAccountSerially
  BY DEF SerialInv, Owned, SessionsNameTheirAccountSerially
<1> QED  BY <1>1, <1>2, Invariance, SerialNextKeeps, PTL DEF SignInSpec

-----------------------------------------------------------------------------
(* Proofs about WaitingAccountClaim: whatever operations run, with any     *)
(* number of people, waiting accounts and workers, the locks a request     *)
(* took are given back when it ends.  The invariant only adds to the       *)
(* property that locks are held by workers and that a request has a phase. *)

LocksTyped ==
  /\ lock \in [Id -> Process \cup {Free}]
  /\ DOMAIN proc = Process
  /\ \A p \in Process : "phase" \in DOMAIN proc[p]

LockInv == LocksTyped /\ NoLockLeftBehind

(* A state of a request that has not ended.                                *)
Working(doing) == doing.phase # "idle" /\ "phase" \in DOMAIN doing

(* A worker that only moves to another phase than idle keeps its locks.    *)
LEMMA KeepsLocks ==
  ASSUME LockInv, NEW p \in Process, NEW doing, Working(doing),
         Become(p, doing), UNCHANGED lock
  PROVE  LockInv'
  BY DEF LockInv, LocksTyped, NoLockLeftBehind, Become, Working

(* The state after a phase ended is a working one, unless it is idle.      *)
LEMMA GoWorks ==
  ASSUME LockInv, NEW p \in Process, NEW phase, phase # "idle"
  PROVE  /\ Working([proc[p] EXCEPT !.phase = phase])
         /\ Working([proc[p] EXCEPT !.phase = phase, !.fetched = NoRow])
  BY DEF LockInv, LocksTyped, Working

(* A worker that takes a free lock goes on.                                *)
LEMMA TakesLock ==
  ASSUME LockInv, NEW p \in Process, NEW x, NEW doing, Working(doing),
         lock' = [lock EXCEPT ![x] = p], Become(p, doing)
  PROVE  LockInv'
<1>1. /\ DOMAIN lock' = Id
      /\ \A y \in Id : lock'[y] = IF y = x THEN p ELSE lock[y]
  BY DEF LockInv, LocksTyped
<1>2. lock' \in [Id -> Process \cup {Free}]
  BY <1>1 DEF LockInv, LocksTyped
<1> QED
  BY <1>1, <1>2, ClaimConstants DEF LockInv, LocksTyped, NoLockLeftBehind, Become, Working

(* A worker that ends holds nothing.                                       *)
LEMMA EndReleases ==
  ASSUME LockInv, NEW p \in Process, End(p)
  PROVE  LockInv'
<1>1. lock' = [x \in Id |-> IF lock[x] = p THEN Free ELSE lock[x]]
  BY DEF End, Release
<1>2. proc' = [proc EXCEPT ![p] = Idle] /\ "phase" \in DOMAIN Idle
  BY DEF End, Become, Idle
<1> QED
  BY <1>1, <1>2, ClaimConstants DEF LockInv, LocksTyped, NoLockLeftBehind

(* A worker that gives back one lock and works on keeps the other.         *)
LEMMA ReleaseOne ==
  ASSUME LockInv, NEW p \in Process, NEW doing, Working(doing), NEW ids,
         Become(p, doing), Release(p, ids)
  PROVE  LockInv'
<1>1. lock' = [x \in Id |-> IF x \in ids /\ lock[x] = p THEN Free ELSE lock[x]]
  BY DEF Release
<1> QED
  BY <1>1, ClaimConstants DEF LockInv, LocksTyped, NoLockLeftBehind, Become, Working

(* A request begins in a working state and without a lock of its own.      *)
LEMMA BeginKeeps ==
  ASSUME LockInv, NEW p \in Process, NEW op, NEW doing, Working(doing),
         Begin(p, op, doing), UNCHANGED lock
  PROVE  LockInv'
  BY KeepsLocks DEF Begin

(* What follows a write keeps its locks, gives one back, or ends.          *)
LEMMA ContinueKeeps ==
  ASSUME LockInv, NEW p \in Process, NEW ok, Continue(p, ok)
  PROVE  LockInv'
<1>1. \/ \E phase \in {"give", "void", "touch"} : Go(p, phase) /\ UNCHANGED lock
      \/ Go(p, "clear") /\ Release(p, {proc[p].other})
      \/ End(p)
  BY DEF Continue
<1>2. ASSUME NEW phase \in {"give", "void", "touch"}, Go(p, phase), UNCHANGED lock
      PROVE  LockInv'
  BY <1>2, GoWorks, KeepsLocks DEF Go
<1>3. CASE Go(p, "clear") /\ Release(p, {proc[p].other})
  BY <1>3, GoWorks, ReleaseOne DEF Go
<1> QED
  BY <1>1, <1>2, <1>3, EndReleases

-----------------------------------------------------------------------------

(* Every request begins so.                                                *)
LEMMA RequestsBegin ==
  ASSUME LockInv, NEW p \in Process,
         \/ \E a \in Account, j \in Session, s \in Secret \cup {NoSecret} : Redeem(p, a, j, s)
         \/ \E a \in Account, w \in Waiting : Confirm(p, a, w)
         \/ \E a \in Account : Login(p, a)
         \/ \E w \in Waiting : FirstLogin(p, w)
         \/ \E x \in Id, c \in ClaimName, v \in Value : AppClaim(p, x, c, v)
         \/ \E w \in Waiting, s \in Secret : Issue(p, w, s)
         \/ \E w \in Waiting : Withdraw(p, w)
  PROVE  LockInv'
<1>2. ASSUME NEW a \in Account, NEW j \in Session, NEW s \in Secret \cup {NoSecret},
             Redeem(p, a, j, s)
      PROVE  LockInv'
  <2>1. Working([Idle EXCEPT !.op = "redeem", !.phase = "lockAccount", !.own = a,
                             !.session = j, !.secret = s, !.moment = now,
                             !.ownRow = row[a]])
    BY DEF Working, Idle
  <2> QED
    BY <1>2, <2>1, BeginKeeps DEF Redeem
<1>3. ASSUME NEW a \in Account, NEW w \in Waiting, Confirm(p, a, w)
      PROVE  LockInv'
  <2>1. Working([Idle EXCEPT !.op = "confirm", !.phase = "lockWaiting", !.own = a,
                             !.other = w, !.ownRow = row[a]])
    BY DEF Working, Idle
  <2> QED
    BY <1>3, <2>1, BeginKeeps DEF Confirm
<1>4. ASSUME NEW a \in Account, Login(p, a)
      PROVE  LockInv'
  <2>1. Working([Idle EXCEPT !.op = "login", !.phase = "match", !.own = a, !.ownRow = row[a]])
    BY DEF Working, Idle
  <2> QED
    BY <1>4, <2>1, BeginKeeps DEF Login
<1>5. ASSUME NEW w \in Waiting, FirstLogin(p, w)
      PROVE  LockInv'
  <2>1. Working([Idle EXCEPT !.op = "firstLogin", !.phase = "activate",
                             !.other = w, !.otherRow = row[w]])
    BY DEF Working, Idle
  <2> QED
    BY <1>5, <2>1, BeginKeeps DEF FirstLogin
<1>6. ASSUME NEW x \in Id, NEW c \in ClaimName, NEW v \in Value, AppClaim(p, x, c, v)
      PROVE  LockInv'
  <2>1. Working([Idle EXCEPT !.op = "claim", !.phase = "claim", !.other = x,
                             !.otherRow = [row[x] EXCEPT !.claims[c] = v]])
    BY DEF Working, Idle
  <2> QED
    BY <1>6, <2>1, BeginKeeps DEF AppClaim
<1>7. ASSUME NEW w \in Waiting, NEW s \in Secret, Issue(p, w, s)
      PROVE  LockInv'
  <2>1. Working([Idle EXCEPT !.op = "issue", !.phase = "issue", !.other = w, !.secret = s])
    BY DEF Working, Idle
  <2> QED
    BY <1>7, <2>1, BeginKeeps DEF Issue
<1>8. ASSUME NEW w \in Waiting, Withdraw(p, w)
      PROVE  LockInv'
  <2>1. Working([Idle EXCEPT !.op = "withdraw", !.phase = "withdraw", !.other = w])
    BY DEF Working, Idle
  <2> QED
    BY <1>8, <2>1, BeginKeeps DEF Withdraw
<1> QED
  BY <1>2, <1>3, <1>4, <1>5, <1>6, <1>7, <1>8

LEMMA LockingKeeps ==
  ASSUME LockInv, NEW p \in Process, LockAccount(p) \/ LockWaiting(p)
  PROVE  LockInv'
<1>1. \/ \E x, phase : /\ lock' = [lock EXCEPT ![x] = p]
                       /\ phase # "idle"
                       /\ Go(p, phase)
      \/ End(p)
  BY DEF LockAccount, LockWaiting
<1> QED
  BY <1>1, GoWorks, TakesLock, EndReleases DEF Go

LEMMA CountKeeps ==
  ASSUME LockInv, NEW p \in Process, Count(p)
  PROVE  LockInv'
<1>1. \A w \in Waiting :
        Working([proc[p] EXCEPT !.phase = "lockWaiting", !.other = w, !.ownRow = row[proc[p].own]])
  BY DEF LockInv, LocksTyped, Working
<1>2. Working([proc[p] EXCEPT !.phase = "fail", !.ownRow = row[proc[p].own]])
  BY DEF LockInv, LocksTyped, Working
<1> QED
  BY <1>1, <1>2, KeepsLocks, EndReleases DEF Count

LEMMA RecheckingKeeps ==
  ASSUME LockInv, NEW p \in Process, Recheck(p) \/ ConfirmRecheck(p)
  PROVE  LockInv'
<1>1. \A phase \in {"spend", "give"} :
        Working([proc[p] EXCEPT !.phase = phase, !.otherRow = row[proc[p].other]])
  BY DEF LockInv, LocksTyped, Working
<1> QED
  BY <1>1, KeepsLocks, EndReleases DEF Recheck, ConfirmRecheck

LEMMA MatchKeeps ==
  ASSUME LockInv, NEW p \in Process, Match(p)
  PROVE  LockInv'
<1>1. \A w \in Waiting :
        Working([proc[p] EXCEPT !.phase = "give", !.other = w, !.otherRow = row[w]])
  BY DEF LockInv, LocksTyped, Working
<1>2. UNCHANGED lock
  BY DEF Match
<1> QED
  BY <1>1, <1>2, GoWorks, KeepsLocks DEF Match, Go

LEMMA FetchKeeps ==
  ASSUME LockInv, NEW p \in Process, Fetch(p)
  PROVE  LockInv'
<1>1. proc[p].phase # "idle"
  BY DEF Fetch, Writes
<1>2. Working([proc[p] EXCEPT !.fetched = row[Target(proc[p])]])
  BY <1>1 DEF LockInv, LocksTyped, Working
<1> QED
  BY <1>2, KeepsLocks DEF Fetch

(* Whatever operations interleave, however many people, waiting accounts   *)
(* and workers there are and whichever write fails, a request that ended   *)
(* holds no lock (WaitingAccountInvitation::redeem, 267-269; redeemLocked, *)
(* 310-312; ConfirmedAddressJoin::joinLocked, 165-167).                    *)
THEOREM LocksAreGivenBack == Spec => []NoLockLeftBehind
<1>1. Init => LockInv
  <2>1. Init => LocksTyped
    BY DEF Init, LocksTyped, Idle
  <2> QED
    BY <2>1, ClaimConstants DEF Init, LockInv, NoLockLeftBehind
<1>2. ASSUME LockInv, [Next]_vars
      PROVE  LockInv'
  <2>1. ASSUME NEW p \in Process, Save(p) \/ GiveNothing(p) \/ WriteFails(p)
        PROVE  LockInv'
    BY <1>2, <2>1, ContinueKeeps DEF Save, GiveNothing, WriteFails
  <2>2. CASE Tick
    BY <1>2, <2>2 DEF Tick, LockInv, LocksTyped, NoLockLeftBehind
  <2>3. CASE UNCHANGED vars
    BY <1>2, <2>3 DEF vars, LockInv, LocksTyped, NoLockLeftBehind
  <2> QED
    BY <1>2, <2>1, <2>2, <2>3, RequestsBegin, LockingKeeps, CountKeeps, RecheckingKeeps,
       MatchKeeps, FetchKeeps DEF Next, Step
<1> QED
  BY <1>1, <1>2, PTL DEF Spec, LockInv

-----------------------------------------------------------------------------
(* Types.  What a request has read depends on its operation and its phase: *)
(* an update always has a row to write and, when it takes from another     *)
(* row, that row.                                                          *)

Joins == {"redeem", "confirm", "login"}
FromWaiting == {"lockWaiting", "recheck", "spend", "give", "void", "activate", "issue", "withdraw"}

PhaseFitsOperation(q) ==
  /\ q.phase \in {"lockAccount", "count", "fail", "spend", "clear"} => q.op = "redeem"
  /\ q.phase \in {"lockWaiting", "recheck"} => q.op \in {"redeem", "confirm"}
  /\ q.phase \in {"match", "touch"} => q.op = "login"
  /\ q.phase \in {"give", "void"} => q.op \in Joins
  /\ q.phase = "claim" => q.op = "claim"
  /\ q.phase = "idle" => q.op = "none"
  /\ q.op \in operations \cup {"none"}

RequestTyped(q) ==
  /\ PhaseFitsOperation(q)
  /\ q.op \in Joins => q.own \in Account /\ q.ownRow \in Row
  /\ q.op = "redeem" => q.session \in Session
  /\ q.phase \in FromWaiting => q.other \in Waiting
  /\ q.phase = "claim" => q.other \in Id
  /\ q.phase \in {"spend", "give", "claim"} => q.otherRow \in Row
  /\ q.phase = "issue" => q.secret \in Secret
  /\ q.op = "redeem" /\ q.phase \in FromWaiting => q.secret \in Secret

ClaimInv == TypeOK /\ \A p \in Process : RequestTyped(proc[p])

LEMMA IdleTyped == Idle \in ProcessState /\ RequestTyped(Idle)
BY DEF Idle, ProcessState, Phase, RequestTyped, PhaseFitsOperation, Joins, FromWaiting

(* One worker's step.                                                      *)
LEMMA RequestStep ==
  ASSUME ClaimInv, UNCHANGED conditions, NEW p \in Process, NEW q \in ProcessState,
         RequestTyped(q), Become(p, q)
  PROVE  /\ proc' \in [Process -> ProcessState]
         /\ \A r \in Process : RequestTyped(proc[r])'
BY DEF ClaimInv, TypeOK, Become, RequestTyped, PhaseFitsOperation, conditions

(* A step that only moves one worker on.                                   *)
LEMMA OnlyRequest ==
  ASSUME ClaimInv, UNCHANGED conditions, NEW p \in Process, NEW q \in ProcessState,
         RequestTyped(q), Become(p, q),
         UNCHANGED <<now, row, tries, started, issued, taken, claimed, wrong>>,
         lock' \in [Id -> Process \cup {Free}]
  PROVE  ClaimInv'
BY RequestStep DEF ClaimInv, TypeOK

LEMMA ReleaseTyped ==
  ASSUME ClaimInv, NEW p \in Process, NEW ids, Release(p, ids)
  PROVE  lock' \in [Id -> Process \cup {Free}]
BY DEF ClaimInv, TypeOK, Release

LEMMA EndTyped ==
  ASSUME ClaimInv, UNCHANGED conditions, NEW p \in Process, End(p),
         UNCHANGED <<now, row, tries, started, issued, taken, claimed, wrong>>
  PROVE  ClaimInv'
BY ReleaseTyped, IdleTyped, OnlyRequest DEF End

(* A request begins with what it was given and what it read first.         *)
LEMMA BeginTyped ==
  ASSUME ClaimInv, UNCHANGED conditions, NEW p \in Process,
         NEW op, NEW q \in ProcessState, RequestTyped(q), Begin(p, op, q),
         UNCHANGED <<now, row, tries, lock, taken, claimed, wrong>>,
         issued' \subseteq Secret
  PROVE  ClaimInv'
<1>1. started' \in 0..MaxRequests
  BY ClaimConstants DEF ClaimInv, TypeOK, Begin
<1>2. /\ proc' \in [Process -> ProcessState]
      /\ \A r \in Process : RequestTyped(proc[r])'
  BY RequestStep DEF Begin
<1> QED  BY <1>1, <1>2 DEF ClaimInv, TypeOK

LEMMA BeginningTyped ==
  ASSUME ClaimInv, UNCHANGED conditions, NEW p \in Process,
         \/ \E a \in Account, j \in Session, s \in Secret \cup {NoSecret} : Redeem(p, a, j, s)
         \/ \E a \in Account, w \in Waiting : Confirm(p, a, w)
         \/ \E a \in Account : Login(p, a)
         \/ \E w \in Waiting : FirstLogin(p, w)
         \/ \E x \in Id, c \in ClaimName, v \in Value : AppClaim(p, x, c, v)
         \/ \E w \in Waiting, s \in Secret : Issue(p, w, s)
         \/ \E w \in Waiting : Withdraw(p, w)
  PROVE  ClaimInv'
<1>1. row \in [Id -> Row] /\ issued \subseteq Secret /\ Account \subseteq Id /\ Waiting \subseteq Id
  BY DEF ClaimInv, TypeOK, Id
<1>2. ASSUME NEW a \in Account, NEW j \in Session, NEW s \in Secret \cup {NoSecret},
             Redeem(p, a, j, s)
      PROVE  ClaimInv'
  <2> DEFINE q == [Idle EXCEPT !.op = "redeem", !.phase = "lockAccount", !.own = a,
                               !.session = j, !.secret = s, !.moment = now,
                               !.ownRow = row[a]]
  <2>1. q \in ProcessState
    <3>1. now \in Nat /\ row[a] \in Row /\ a \in Account
      BY <1>1, ClaimConstants DEF ClaimInv, TypeOK
    <3> QED  BY <1>2, <3>1 DEF Idle, ProcessState, Phase, AllOperations
  <2>2. RequestTyped(q)
    BY <1>1, <1>2 DEF Redeem, Begin, Idle, RequestTyped, PhaseFitsOperation, Joins, FromWaiting
  <2> QED  BY <1>1, <1>2, <2>1, <2>2, BeginTyped DEF Redeem
<1>3. ASSUME NEW a \in Account, NEW w \in Waiting, Confirm(p, a, w)
      PROVE  ClaimInv'
  <2> DEFINE q == [Idle EXCEPT !.op = "confirm", !.phase = "lockWaiting", !.own = a,
                               !.other = w, !.ownRow = row[a]]
  <2>1. q \in ProcessState
    BY <1>1 DEF Idle, ProcessState, Phase, AllOperations
  <2>2. RequestTyped(q)
    BY <1>1, <1>3 DEF Confirm, Begin, Idle, RequestTyped, PhaseFitsOperation, Joins, FromWaiting
  <2> QED  BY <1>1, <1>3, <2>1, <2>2, BeginTyped DEF Confirm
<1>4. ASSUME NEW a \in Account, Login(p, a)
      PROVE  ClaimInv'
  <2> DEFINE q == [Idle EXCEPT !.op = "login", !.phase = "match", !.own = a, !.ownRow = row[a]]
  <2>1. q \in ProcessState
    BY <1>1 DEF Idle, ProcessState, Phase, AllOperations
  <2>2. RequestTyped(q)
    BY <1>1, <1>4 DEF Login, Begin, Idle, RequestTyped, PhaseFitsOperation, Joins, FromWaiting
  <2> QED  BY <1>1, <1>4, <2>1, <2>2, BeginTyped DEF Login
<1>5. ASSUME NEW w \in Waiting, FirstLogin(p, w)
      PROVE  ClaimInv'
  <2> DEFINE q == [Idle EXCEPT !.op = "firstLogin", !.phase = "activate",
                               !.other = w, !.otherRow = row[w]]
  <2>1. q \in ProcessState
    BY <1>1 DEF Idle, ProcessState, Phase, Writes, AllOperations
  <2>2. RequestTyped(q)
    BY <1>1, <1>5 DEF FirstLogin, Begin, Idle, RequestTyped, PhaseFitsOperation, Joins, FromWaiting
  <2> QED  BY <1>1, <1>5, <2>1, <2>2, BeginTyped DEF FirstLogin
<1>6. ASSUME NEW x \in Id, NEW c \in ClaimName, NEW v \in Value, AppClaim(p, x, c, v)
      PROVE  ClaimInv'
  <2> DEFINE claimedRow == [row[x] EXCEPT !.claims[c] = v]
             q == [Idle EXCEPT !.op = "claim", !.phase = "claim", !.other = x,
                               !.otherRow = claimedRow]
  <2>1. claimedRow \in Row
    BY <1>1 DEF Row, Claims
  <2> HIDE DEF claimedRow
  <2>2. q \in ProcessState
    BY <1>1, <2>1 DEF Idle, ProcessState, Phase, Writes, AllOperations
  <2>3. RequestTyped(q)
    BY <1>1, <1>6, <2>1 DEF AppClaim, Begin, Idle, RequestTyped, PhaseFitsOperation, Joins, FromWaiting
  <2>4. Begin(p, "claim", q)
    BY <1>6 DEF AppClaim, claimedRow
  <2> QED  BY <1>1, <1>6, <2>2, <2>3, <2>4, BeginTyped DEF AppClaim
<1>7. ASSUME NEW w \in Waiting, NEW s \in Secret, Issue(p, w, s)
      PROVE  ClaimInv'
  <2> DEFINE q == [Idle EXCEPT !.op = "issue", !.phase = "issue", !.other = w, !.secret = s]
  <2>1. q \in ProcessState
    BY <1>1 DEF Idle, ProcessState, Phase, Writes, AllOperations
  <2>2. RequestTyped(q)
    BY <1>1, <1>7 DEF Issue, Begin, Idle, RequestTyped, PhaseFitsOperation, Joins, FromWaiting
  <2> QED  BY <1>1, <1>7, <2>1, <2>2, BeginTyped DEF Issue
<1>8. ASSUME NEW w \in Waiting, Withdraw(p, w)
      PROVE  ClaimInv'
  <2> DEFINE q == [Idle EXCEPT !.op = "withdraw", !.phase = "withdraw", !.other = w]
  <2>1. q \in ProcessState
    BY <1>1 DEF Idle, ProcessState, Phase, Writes, AllOperations
  <2>2. RequestTyped(q)
    BY <1>1, <1>8 DEF Withdraw, Begin, Idle, RequestTyped, PhaseFitsOperation, Joins, FromWaiting
  <2> QED  BY <1>1, <1>8, <2>1, <2>2, BeginTyped DEF Withdraw
<1> QED  BY <1>2, <1>3, <1>4, <1>5, <1>6, <1>7, <1>8

(* Another phase, or what was read in between.                             *)
LEMMA LockingTyped ==
  ASSUME ClaimInv, UNCHANGED conditions, NEW p \in Process, LockAccount(p) \/ LockWaiting(p)
  PROVE  ClaimInv'
<1> DEFINE q == proc[p]
<1>1. q \in ProcessState /\ RequestTyped(q) /\ lock \in [Id -> Process \cup {Free}]
  BY DEF ClaimInv, TypeOK
<1>2. CASE LockAccount(p)
  <2>1. CASE lock[q.own] = Free /\ lock' = [lock EXCEPT ![q.own] = p] /\ Go(p, "count")
    <3>1. q.phase = "lockAccount"
      BY <1>2 DEF LockAccount
    <3>2. [q EXCEPT !.phase = "count", !.fetched = NoRow] \in ProcessState
      BY <1>1 DEF ProcessState, Phase
    <3>3. RequestTyped([q EXCEPT !.phase = "count", !.fetched = NoRow])
      BY <1>1, <3>1 DEF ProcessState, RequestTyped, PhaseFitsOperation, FromWaiting
    <3> QED  BY <1>1, <1>2, <2>1, <3>2, <3>3, OnlyRequest DEF LockAccount, Go
  <2> QED  BY <1>2, <2>1, EndTyped DEF LockAccount
<1>3. CASE LockWaiting(p)
  <2>1. CASE lock[q.other] = Free /\ lock' = [lock EXCEPT ![q.other] = p] /\ Go(p, "recheck")
    <3>1. q.phase = "lockWaiting"
      BY <1>3 DEF LockWaiting
    <3>2. [q EXCEPT !.phase = "recheck", !.fetched = NoRow] \in ProcessState
      BY <1>1 DEF ProcessState, Phase
    <3>3. RequestTyped([q EXCEPT !.phase = "recheck", !.fetched = NoRow])
      BY <1>1, <3>1 DEF ProcessState, RequestTyped, PhaseFitsOperation, FromWaiting
    <3> QED  BY <1>1, <1>3, <2>1, <3>2, <3>3, OnlyRequest DEF LockWaiting, Go
  <2> QED  BY <1>3, <2>1, EndTyped DEF LockWaiting
<1> QED  BY <1>2, <1>3

LEMMA ReadingTyped ==
  ASSUME ClaimInv, UNCHANGED conditions, NEW p \in Process,
         Count(p) \/ Recheck(p) \/ ConfirmRecheck(p) \/ Match(p) \/ Fetch(p)
  PROVE  ClaimInv'
<1> DEFINE q == proc[p]
<1>1. /\ q \in ProcessState /\ RequestTyped(q) /\ lock \in [Id -> Process \cup {Free}]
      /\ row \in [Id -> Row] /\ Account \subseteq Id /\ Waiting \subseteq Id
  BY DEF ClaimInv, TypeOK, Id
<1>2. CASE Count(p)
  <2>1. q.phase = "count" /\ q.op = "redeem" /\ row[q.own] \in Row
    BY <1>1, <1>2 DEF Count, RequestTyped, PhaseFitsOperation, Joins
  <2>2. ASSUME NEW w \in Waiting, Finds(q.secret, w)
        PROVE  /\ [q EXCEPT !.phase = "lockWaiting", !.other = w, !.ownRow = row[q.own]] \in ProcessState
               /\ RequestTyped([q EXCEPT !.phase = "lockWaiting", !.other = w, !.ownRow = row[q.own]])
    <3>1. q.secret \in Secret
      BY <1>1, <2>2 DEF Finds, ProcessState
    <3> QED  BY <1>1, <2>1, <3>1 DEF ProcessState, Phase, RequestTyped, PhaseFitsOperation, Joins
  <2>3. /\ [q EXCEPT !.phase = "fail", !.ownRow = row[q.own]] \in ProcessState
        /\ RequestTyped([q EXCEPT !.phase = "fail", !.ownRow = row[q.own]])
    BY <1>1, <2>1 DEF ProcessState, Phase, Writes, RequestTyped, PhaseFitsOperation, Joins, FromWaiting
  <2> QED  BY <1>1, <1>2, <2>2, <2>3, OnlyRequest, EndTyped DEF Count
<1>3. CASE Recheck(p) \/ ConfirmRecheck(p)
  <2>1. q.phase = "recheck" /\ row[q.other] \in Row /\ q.op \in {"redeem", "confirm"}
    BY <1>1, <1>3 DEF Recheck, ConfirmRecheck, RequestTyped, PhaseFitsOperation, FromWaiting
  <2>2. /\ [q EXCEPT !.phase = "spend", !.otherRow = row[q.other]] \in ProcessState
        /\ q.op = "redeem" => RequestTyped([q EXCEPT !.phase = "spend", !.otherRow = row[q.other]])
    BY <1>1, <2>1 DEF ProcessState, Phase, Writes, RequestTyped, PhaseFitsOperation, Joins, FromWaiting
  <2>3. /\ [q EXCEPT !.phase = "give", !.otherRow = row[q.other]] \in ProcessState
        /\ RequestTyped([q EXCEPT !.phase = "give", !.otherRow = row[q.other]])
    BY <1>1, <2>1 DEF ProcessState, Phase, Writes, RequestTyped, PhaseFitsOperation, Joins, FromWaiting
  <2> QED  BY <1>1, <1>3, <2>2, <2>3, OnlyRequest, EndTyped DEF Recheck, ConfirmRecheck
<1>4. CASE Match(p)
  <2>1. q.phase = "match" /\ q.op = "login"
    BY <1>1, <1>4 DEF Match, RequestTyped, PhaseFitsOperation
  <2>2. ASSUME NEW w \in Waiting
        PROVE  /\ [q EXCEPT !.phase = "give", !.other = w, !.otherRow = row[w]] \in ProcessState
               /\ RequestTyped([q EXCEPT !.phase = "give", !.other = w, !.otherRow = row[w]])
    BY <1>1, <2>1 DEF ProcessState, Phase, Writes, RequestTyped, PhaseFitsOperation, Joins
  <2>3. /\ [q EXCEPT !.phase = "touch", !.fetched = NoRow] \in ProcessState
        /\ RequestTyped([q EXCEPT !.phase = "touch", !.fetched = NoRow])
    BY <1>1, <2>1 DEF ProcessState, Phase, Writes, RequestTyped, PhaseFitsOperation, Joins, FromWaiting
  <2> QED  BY <1>1, <1>4, <2>2, <2>3, OnlyRequest DEF Match, Go
<1>5. CASE Fetch(p)
  <2>1. Target(q) \in Id
    BY <1>1, <1>5 DEF Fetch, Target, Writes, RequestTyped, PhaseFitsOperation, FromWaiting, Joins
  <2>2. /\ [q EXCEPT !.fetched = row[Target(q)]] \in ProcessState
        /\ RequestTyped([q EXCEPT !.fetched = row[Target(q)]])
    BY <1>1, <2>1 DEF ProcessState, RequestTyped, PhaseFitsOperation
  <2> QED  BY <1>1, <1>5, <2>2, OnlyRequest DEF Fetch
<1> QED  BY <1>2, <1>3, <1>4, <1>5

-----------------------------------------------------------------------------
(* What a write puts over the row it fetched.                              *)

LEMMA PatchedSays ==
  ASSUME NEW q, NEW base
  PROVE  /\ q.phase = "fail" =>
              Patched(q, base) =
                [base EXCEPT !.attempts = CountInWindow(q.ownRow, q.moment) + 1,
                             !.since = IF CountInWindow(q.ownRow, q.moment) = 0
                                       THEN q.moment ELSE @]
         /\ q.phase = "clear" => Patched(q, base) = [base EXCEPT !.attempts = 0]
         /\ q.phase = "touch" => Patched(q, base) = base
         /\ q.phase = "spend" => Patched(q, base) = [base EXCEPT !.secret = NoSecret]
         /\ q.phase = "give" =>
              Patched(q, base) =
                [base EXCEPT !.claims = LET joined == ClaimsJoined(q.ownRow.claims, q.otherRow.claims) IN
                                        IF joined # q.ownRow.claims THEN joined ELSE @,
                             !.email = IF q.ownRow.email = "none"
                                       THEN IF q.secret \in Code THEN "unproven" ELSE "proven"
                                       ELSE @]
         /\ q.phase \in {"void", "withdraw"} => Patched(q, base) = [base EXCEPT !.status = "void"]
         /\ q.phase = "activate" =>
              Patched(q, base) = [base EXCEPT !.status = "active", !.identity = TRUE]
         /\ q.phase = "claim" => Patched(q, base) = [base EXCEPT !.claims = q.otherRow.claims]
         /\ q.phase = "issue" => Patched(q, base) = [base EXCEPT !.secret = q.secret]
BY DEF Patched

LEMMA AttemptsTyped ==
  ASSUME NEW base \in Row, NEW n \in Nat, NEW m \in Nat
  PROVE  [base EXCEPT !.attempts = n, !.since = m] \in Row /\ [base EXCEPT !.attempts = 0] \in Row
BY DEF Row

LEMMA PatchedTyped ==
  ASSUME ClaimInv, NEW p \in Process, proc[p].phase \in Writes, NEW base \in Row
  PROVE  Target(proc[p]) \in Id /\ Patched(proc[p], base) \in Row
<1> DEFINE q == proc[p]
<1>1. q \in ProcessState /\ RequestTyped(q) /\ q.moment \in Nat
  BY DEF ClaimInv, TypeOK, ProcessState
<1>2. Target(q) \in Id
  BY <1>1 DEF Target, Id, Writes, RequestTyped, PhaseFitsOperation, FromWaiting, Joins
<1>3. CASE q.phase = "fail"
  <2>1. q.ownRow \in Row
    BY <1>1, <1>3 DEF RequestTyped, PhaseFitsOperation, Joins
  <2>2. CountInWindow(q.ownRow, q.moment) \in Nat
    BY <2>1 DEF CountInWindow, Row
  <2> DEFINE n == CountInWindow(q.ownRow, q.moment) + 1
             m == IF CountInWindow(q.ownRow, q.moment) = 0 THEN q.moment ELSE base.since
  <2>3. Patched(q, base) = [base EXCEPT !.attempts = n, !.since = m]
    BY <1>3, Zenon DEF Patched
  <2>4. n \in Nat /\ m \in Nat
    BY <1>1, <2>2 DEF Row
  <2> HIDE DEF n, m
  <2> QED  BY <1>2, <2>3, <2>4, AttemptsTyped, Zenon
<1>4. CASE q.phase = "give"
  <2> DEFINE joined == ClaimsJoined(q.ownRow.claims, q.otherRow.claims)
  <2>1. q.ownRow \in Row /\ q.otherRow \in Row
    BY <1>1, <1>4 DEF RequestTyped, PhaseFitsOperation, Joins
  <2>2. joined \in Claims
    BY <2>1 DEF ClaimsJoined, Row, Claims
  <2>3. Patched(q, base) =
          [base EXCEPT !.claims = IF joined # q.ownRow.claims THEN joined ELSE @,
                       !.email = IF q.ownRow.email = "none"
                                 THEN IF q.secret \in Code THEN "unproven" ELSE "proven"
                                 ELSE @]
    BY <1>4, PatchedSays
  <2> HIDE DEF joined
  <2> QED  BY <1>2, <2>2, <2>3 DEF Row
<1>5. CASE q.phase = "spend"
  <2>1. Patched(q, base) = [base EXCEPT !.secret = NoSecret]
    BY <1>5, PatchedSays
  <2> QED  BY <1>2, <2>1 DEF Row
<1>6. CASE q.phase = "issue"
  <2>1. Patched(q, base) = [base EXCEPT !.secret = q.secret] /\ q.secret \in Secret
    BY <1>1, <1>6, PatchedSays DEF RequestTyped
  <2> QED  BY <1>2, <2>1 DEF Row
<1>7. CASE q.phase = "claim"
  <2>1. Patched(q, base) = [base EXCEPT !.claims = q.otherRow.claims] /\ q.otherRow \in Row
    BY <1>1, <1>7, PatchedSays DEF RequestTyped
  <2> QED  BY <1>2, <2>1 DEF Row
<1>8. CASE q.phase \in {"void", "withdraw"}
  <2>1. Patched(q, base) = [base EXCEPT !.status = "void"]
    BY <1>8, PatchedSays
  <2> QED  BY <1>2, <2>1 DEF Row
<1>9. CASE q.phase = "activate"
  <2>1. Patched(q, base) = [base EXCEPT !.status = "active", !.identity = TRUE]
    BY <1>9, Zenon DEF Patched
  <2> QED  BY <1>2, <2>1 DEF Row
<1>10. CASE q.phase = "clear"
  <2>1. Patched(q, base) = [base EXCEPT !.attempts = 0]
    BY <1>10, PatchedSays, Zenon
  <2> QED  BY <1>2, <2>1, AttemptsTyped, Zenon
<1>11. CASE q.phase = "touch"
  BY <1>2, <1>11, PatchedSays
<1> QED  BY <1>3, <1>4, <1>5, <1>6, <1>7, <1>8, <1>9, <1>10, <1>11 DEF Writes

(* What follows a write: the next one, or the end.                         *)
LEMMA ContinueSays ==
  ASSUME NEW p \in Process, NEW ok \in BOOLEAN, Continue(p, ok)
  PROVE  \/ proc[p].phase = "spend" /\ ok /\ Go(p, "give") /\ UNCHANGED <<lock, claimed>>
         \/ proc[p].phase = "give" /\ ok /\ Go(p, "void") /\ UNCHANGED <<lock, claimed>>
         \/ /\ proc[p].phase \in {"give", "void"} /\ proc[p].op = "login"
            /\ Go(p, "touch") /\ UNCHANGED <<lock, claimed>>
         \/ /\ proc[p].phase = "void" /\ ok /\ proc[p].op = "redeem"
            /\ claimed' = [claimed EXCEPT ![proc[p].secret] = @ + 1]
            /\ \/ Go(p, "clear") /\ Release(p, {proc[p].other})
               \/ End(p)
         \/ /\ End(p) /\ UNCHANGED claimed
            /\ ~(proc[p].phase \in {"spend", "give"} /\ ok)
BY DEF Continue

LEMMA ContinueTyped ==
  ASSUME ClaimInv, UNCHANGED conditions, NEW p \in Process, proc[p].phase \in Writes,
         NEW ok \in BOOLEAN, Continue(p, ok)
  PROVE  /\ proc' \in [Process -> ProcessState]
         /\ \A r \in Process : RequestTyped(proc[r])'
         /\ lock' \in [Id -> Process \cup {Free}]
         /\ claimed' \in [Secret -> Nat]
<1> DEFINE q == proc[p]
<1>1. /\ q \in ProcessState /\ RequestTyped(q) /\ lock \in [Id -> Process \cup {Free}]
      /\ claimed \in [Secret -> Nat]
  BY DEF ClaimInv, TypeOK
<1>2. CASE End(p) /\ UNCHANGED claimed
  BY <1>1, <1>2, ReleaseTyped, IdleTyped, RequestStep DEF End
<1>3. ASSUME NEW phase \in {"give", "void", "touch", "clear"},
             phase \in {"give", "void"} => q.op \in Joins /\ q.phase \in {"spend", "give"}
                                           /\ (phase = "give" => q.phase = "spend"),
             phase = "touch" => q.op = "login",
             phase = "clear" => q.op = "redeem",
             Go(p, phase)
      PROVE  /\ proc' \in [Process -> ProcessState]
             /\ \A r \in Process : RequestTyped(proc[r])'
  <2>1. [q EXCEPT !.phase = phase, !.fetched = NoRow] \in ProcessState
    BY <1>1 DEF ProcessState, Phase, Writes
  <2>2. RequestTyped([q EXCEPT !.phase = phase, !.fetched = NoRow])
    BY <1>1, <1>3 DEF ProcessState, RequestTyped, PhaseFitsOperation, Joins, FromWaiting
  <2> QED  BY <1>3, <2>1, <2>2, RequestStep DEF Go
<1>4. CASE q.phase = "spend" /\ ok /\ Go(p, "give") /\ UNCHANGED <<lock, claimed>>
  BY <1>1, <1>3, <1>4 DEF RequestTyped, PhaseFitsOperation, Joins
<1>5. CASE q.phase = "give" /\ ok /\ Go(p, "void") /\ UNCHANGED <<lock, claimed>>
  BY <1>1, <1>3, <1>5 DEF RequestTyped, PhaseFitsOperation
<1>6. CASE /\ q.phase \in {"give", "void"} /\ q.op = "login"
           /\ Go(p, "touch") /\ UNCHANGED <<lock, claimed>>
  BY <1>1, <1>3, <1>6
<1>7. CASE /\ q.phase = "void" /\ ok /\ q.op = "redeem"
           /\ claimed' = [claimed EXCEPT ![q.secret] = @ + 1]
           /\ \/ Go(p, "clear") /\ Release(p, {q.other})
              \/ End(p)
  <2>1. q.secret \in Secret
    BY <1>1, <1>7 DEF RequestTyped, FromWaiting
  <2>2. CASE End(p)
    BY <1>1, <1>7, <2>1, <2>2, ReleaseTyped, IdleTyped, RequestStep DEF End
  <2>3. CASE Go(p, "clear") /\ Release(p, {q.other})
    BY <1>1, <1>3, <1>7, <2>1, <2>3, ReleaseTyped
  <2> QED  BY <1>7, <2>2, <2>3
<1> QED  BY <1>2, <1>4, <1>5, <1>6, <1>7, ContinueSays

LEMMA CountersTyped ==
  ASSUME ClaimInv, NEW a \in Account
  PROVE  /\ \A j \in Session : [tries EXCEPT ![a][j] = @ + 1] \in [Account -> [Session -> Nat]]
         /\ [wrong EXCEPT ![a] = Append(@, now)] \in [Account -> Seq(Nat)]
         /\ [wrong EXCEPT ![a] = <<>>] \in [Account -> Seq(Nat)]
<1>1. /\ tries \in [Account -> [Session -> Nat]] /\ now \in Nat
      /\ wrong \in [Account -> Seq(Nat)]
  BY ClaimConstants DEF ClaimInv, TypeOK
<1>2. ASSUME NEW j \in Session
      PROVE  [tries EXCEPT ![a][j] = @ + 1] \in [Account -> [Session -> Nat]]
  BY <1>1
<1>3. Append(wrong[a], now) \in Seq(Nat) /\ <<>> \in Seq(Nat)
  BY <1>1
<1> QED  BY <1>1, <1>2, <1>3

(* What an answered guess does to the counts.                              *)
LEMMA CountTyped ==
  ASSUME ClaimInv, NEW p \in Process, proc[p].phase \in Writes, CountOnSession(proc[p])
  PROVE  /\ tries' \in [Account -> [Session -> Nat]]
         /\ wrong' \in [Account -> Seq(Nat)]
<1> DEFINE q == proc[p]
<1>1. /\ RequestTyped(q) /\ now \in 0..MaxTime
      /\ tries \in [Account -> [Session -> Nat]]
      /\ wrong \in [Account -> Seq(Nat)]
  BY DEF ClaimInv, TypeOK
<1>2. CASE q.phase = "fail"
  <2>1. q.own \in Account /\ q.session \in Session
    BY <1>1, <1>2 DEF RequestTyped, PhaseFitsOperation, Joins
  <2>2. tries' = tries \/ tries' = [tries EXCEPT ![q.own][q.session] = @ + 1]
    BY <1>2 DEF CountOnSession
  <2>3. wrong' = [wrong EXCEPT ![q.own] = Append(@, now)]
    BY <1>2 DEF CountOnSession
  <2>4. tries' \in [Account -> [Session -> Nat]]
    <3>1. CASE tries' = tries
      BY <1>1, <3>1
    <3>2. CASE tries' = [tries EXCEPT ![q.own][q.session] = @ + 1]
      BY <2>1, <3>2, CountersTyped, Zenon
    <3> QED  BY <2>2, <3>1, <3>2
  <2> QED  BY <1>1, <2>1, <2>3, <2>4, CountersTyped
<1>3. CASE q.phase = "clear"
  <2>1. UNCHANGED tries /\ wrong' = [wrong EXCEPT ![q.own] = <<>>]
    BY <1>3, Zenon DEF CountOnSession
  <2>2. q.own \in Account
    BY <1>1, <1>3 DEF RequestTyped, PhaseFitsOperation, Joins
  <2> QED  BY <1>1, <2>1, <2>2, CountersTyped
<1>4. CASE q.phase \notin {"fail", "clear"}
  BY <1>1, <1>4 DEF CountOnSession
<1> QED  BY <1>2, <1>3, <1>4

LEMMA TakenTyped ==
  ASSUME ClaimInv, NEW p \in Process, proc[p].phase = "give"
  PROVE  taken \cup {<<proc[p].own, proc[p].other>>} \subseteq Account \X Waiting
BY DEF ClaimInv, TypeOK, RequestTyped, PhaseFitsOperation, Joins, FromWaiting

LEMMA WritingTyped ==
  ASSUME ClaimInv, UNCHANGED conditions, NEW p \in Process,
         Save(p) \/ GiveNothing(p) \/ WriteFails(p)
  PROVE  ClaimInv'
<1> DEFINE q == proc[p]
<1>1. /\ q \in ProcessState /\ row \in [Id -> Row] /\ taken \subseteq Account \X Waiting
      /\ tries \in [Account -> [Session -> Nat]] /\ wrong \in [Account -> Seq(Nat)]
      /\ now \in 0..MaxTime /\ started \in 0..MaxRequests /\ issued \subseteq Secret
  BY DEF ClaimInv, TypeOK
<1>2. CASE Save(p)
  <2>1. q.phase \in Writes /\ q.fetched \in Row
    BY <1>1, <1>2 DEF Save, ProcessState
  <2>2. row' = [row EXCEPT ![Target(q)] = Patched(q, q.fetched)]
    BY <1>2 DEF Save
  <2>3. row' \in [Id -> Row]
    BY <1>1, <2>1, <2>2, PatchedTyped
  <2>4. taken' \subseteq Account \X Waiting
    BY <1>1, <1>2, TakenTyped DEF Save
  <2>5. /\ tries' \in [Account -> [Session -> Nat]]
        /\ wrong' \in [Account -> Seq(Nat)]
    BY <1>2, <2>1, CountTyped DEF Save
  <2>6. /\ proc' \in [Process -> ProcessState]
        /\ \A r \in Process : RequestTyped(proc[r])'
        /\ lock' \in [Id -> Process \cup {Free}]
        /\ claimed' \in [Secret -> Nat]
    BY <1>2, <2>1, ContinueTyped DEF Save
  <2> QED  BY <1>1, <1>2, <2>3, <2>4, <2>5, <2>6 DEF Save, ClaimInv, TypeOK
<1>3. CASE GiveNothing(p)
  <2>1. q.phase = "give" /\ "give" \in Writes
    BY <1>3 DEF GiveNothing, NothingToGive, Writes
  <2>2. taken' \subseteq Account \X Waiting
    BY <1>3, <2>1, TakenTyped DEF GiveNothing
  <2>3. /\ proc' \in [Process -> ProcessState]
        /\ \A r \in Process : RequestTyped(proc[r])'
        /\ lock' \in [Id -> Process \cup {Free}]
        /\ claimed' \in [Secret -> Nat]
    BY <1>3, <2>1, ContinueTyped DEF GiveNothing
  <2> QED  BY <1>1, <1>3, <2>2, <2>3 DEF GiveNothing, ClaimInv, TypeOK
<1>4. CASE WriteFails(p)
  <2>1. /\ tries' \in [Account -> [Session -> Nat]]
        /\ wrong' \in [Account -> Seq(Nat)]
    BY <1>4, CountTyped DEF WriteFails
  <2>2. /\ proc' \in [Process -> ProcessState]
        /\ \A r \in Process : RequestTyped(proc[r])'
        /\ lock' \in [Id -> Process \cup {Free}]
        /\ claimed' \in [Secret -> Nat]
    BY <1>4, ContinueTyped DEF WriteFails
  <2> QED  BY <1>1, <1>4, <2>1, <2>2 DEF WriteFails, ClaimInv, TypeOK
<1> QED  BY <1>2, <1>3, <1>4

LEMMA ClaimInitHolds == Init => ClaimInv
<1> SUFFICES ASSUME Init PROVE ClaimInv
  OBVIOUS
<1>1. PICK claims \in [Id -> Claims], secrets \in [Waiting -> Secret \cup {NoSecret}],
           mail \in [Account -> {"none", "proven"}] :
        /\ \A v, w \in Waiting : v # w => secrets[v] # secrets[w] \/ secrets[v] = NoSecret
        /\ row = [x \in Id |->
             [status |-> IF x \in Account THEN "active" ELSE "pending",
              identity |-> x \in Account,
              secret |-> IF x \in Account THEN NoSecret ELSE secrets[x],
              claims |-> claims[x],
              email |-> IF x \in Account THEN mail[x] ELSE "proven",
              attempts |-> 0, since |-> 0]]
        /\ issued = {secrets[w] : w \in Waiting} \ {NoSecret}
  BY DEF Init
<1>2. row \in [Id -> Row]
  <2> SUFFICES ASSUME NEW x \in Id PROVE row[x] \in Row
    BY <1>1
  <2>1. CASE x \in Account
    BY <1>1, <2>1 DEF Row
  <2>2. CASE x \notin Account
    <3>1. x \in Waiting
      BY <2>2 DEF Id
    <3> QED  BY <1>1, <2>2, <3>1 DEF Row
  <2> QED  BY <2>1, <2>2
<1>3. issued \subseteq Secret
  BY <1>1
<1>4. \A p \in Process : proc[p] \in ProcessState /\ RequestTyped(proc[p])
  BY IdleTyped DEF Init
<1> QED  BY <1>2, <1>3, <1>4, ClaimConstants DEF Init, ClaimInv, TypeOK

LEMMA ClaimNextKeeps == ClaimInv /\ [Next]_vars => ClaimInv'
<1> SUFFICES ASSUME ClaimInv, [Next]_vars PROVE ClaimInv'
  OBVIOUS
<1>1. UNCHANGED conditions
  BY DEF Next, vars
<1>2. CASE Tick
  <2>1. now' \in 0..MaxTime
    BY <1>2, ClaimConstants DEF Tick, ClaimInv, TypeOK
  <2> QED  BY <1>1, <1>2, <2>1 DEF Tick, ClaimInv, TypeOK, RequestTyped, PhaseFitsOperation, conditions
<1>3. CASE UNCHANGED vars
  BY <1>1, <1>3 DEF vars, ClaimInv, TypeOK, RequestTyped, PhaseFitsOperation, conditions
<1> QED
  BY <1>1, <1>2, <1>3, BeginningTyped, LockingTyped, ReadingTyped, WritingTyped DEF Next, Step

LEMMA ClaimInvariance == Spec => []ClaimInv
BY ClaimInitHolds, ClaimNextKeeps, PTL DEF Spec

(* However the operations interleave and whichever write fails, no row is  *)
(* ever saved in another shape, and a request works on the rows its phase  *)
(* needs (WaitingAccountInvitation, 245-386; updateObject, 244-320).       *)
THEOREM ClaimTypeCorrect == Spec => []TypeOK
<1>1. ClaimInv => TypeOK
  BY DEF ClaimInv
<1> QED  BY ClaimInvariance, <1>1, PTL

-----------------------------------------------------------------------------
(* A redeem holds the lock of its account once it counts, and the lock of  *)
(* the waiting row from the second lookup to the answer.                   *)

HoldsOwn == {"count", "lockWaiting", "recheck", "fail", "spend", "give", "void", "clear"}
HoldsOther == {"recheck", "spend", "give", "void"}

Holds(p, q, locks) ==
  q.op = "redeem" =>
    /\ q.phase \in HoldsOwn => locks[q.own] = p
    /\ q.phase \in HoldsOther => locks[q.other] = p

HeldInv == \A p \in Process : Holds(p, proc[p], lock)

(* A step takes free locks and gives back its own.                         *)
LEMMA HeldStep ==
  ASSUME ClaimInv, HeldInv, NEW p \in Process, NEW q, Become(p, q), Holds(p, q, lock'),
         \A x \in Id : lock'[x] = lock[x] \/ lock[x] \in {Free, p}
  PROVE  HeldInv'
<1>1. proc' = [proc EXCEPT ![p] = q] /\ DOMAIN proc = Process
  BY DEF Become, ClaimInv, TypeOK
<1>2. ASSUME NEW r \in Process, r # p PROVE Holds(r, proc[r], lock')
  <2>1. Holds(r, proc[r], lock) /\ RequestTyped(proc[r]) /\ r # Free
    BY ClaimConstants DEF HeldInv, ClaimInv
  <2>2. proc[r].op = "redeem" => proc[r].own \in Id
    BY <2>1 DEF RequestTyped, Joins, Id
  <2>3. proc[r].phase \in HoldsOther => proc[r].other \in Id
    BY <2>1 DEF RequestTyped, FromWaiting, HoldsOther, Id
  <2> QED  BY <1>2, <2>1, <2>2, <2>3 DEF Holds
<1> QED  BY <1>1, <1>2 DEF HeldInv

LEMMA EndHeld ==
  ASSUME ClaimInv, HeldInv, NEW p \in Process, End(p)
  PROVE  HeldInv'
<1>1. Holds(p, Idle, lock')
  BY DEF Holds, Idle
<1>2. \A x \in Id : lock'[x] = lock[x] \/ lock[x] \in {Free, p}
  BY DEF End, Release
<1> QED  BY <1>1, <1>2, HeldStep DEF End

(* What follows a write of a redeem still holds the locks.                 *)
LEMMA ContinueHeld ==
  ASSUME ClaimInv, HeldInv, NEW p \in Process, NEW ok \in BOOLEAN, Continue(p, ok)
  PROVE  HeldInv'
<1> DEFINE q == proc[p]
<1>1. q \in ProcessState /\ RequestTyped(q) /\ Holds(p, q, lock)
  BY DEF ClaimInv, TypeOK, HeldInv
<1>2. ASSUME NEW phase \in {"give", "void", "touch"}, UNCHANGED lock, Go(p, phase),
             phase = "touch" => q.op = "login",
             phase \in {"give", "void"} => q.phase \in {"spend", "give"}
      PROVE  HeldInv'
  <2>1. Holds(p, [q EXCEPT !.phase = phase, !.fetched = NoRow], lock')
    BY <1>1, <1>2 DEF Holds, HoldsOwn, HoldsOther, ProcessState
  <2> QED  BY <1>2, <2>1, HeldStep DEF Go
<1>3. CASE q.phase = "void" /\ q.op = "redeem" /\ Go(p, "clear") /\ Release(p, {q.other})
  <2>1. lock' = [x \in Id |-> IF x = q.other /\ lock[x] = p THEN Free ELSE lock[x]]
    BY <1>3 DEF Release
  <2>2. q.own \in Id /\ q.own # q.other /\ lock[q.own] = p
    BY <1>1, <1>3, ClaimConstants DEF RequestTyped, Joins, FromWaiting, Id, Holds, HoldsOwn
  <2>3. Holds(p, [q EXCEPT !.phase = "clear", !.fetched = NoRow], lock')
    BY <1>1, <2>1, <2>2 DEF Holds, HoldsOther, ProcessState
  <2> QED  BY <1>3, <2>1, <2>3, HeldStep DEF Go
<1> QED  BY <1>2, <1>3, EndHeld, ContinueSays

LEMMA HeldNext == ClaimInv /\ HeldInv /\ [Next]_vars => HeldInv'
<1> SUFFICES ASSUME ClaimInv, HeldInv, [Next]_vars PROVE HeldInv'
  OBVIOUS
<1>1. ASSUME NEW p \in Process, Save(p) \/ GiveNothing(p) \/ WriteFails(p) PROVE HeldInv'
  BY <1>1, ContinueHeld DEF Save, GiveNothing, WriteFails
<1>2. ASSUME NEW p \in Process, NEW q, Become(p, q), UNCHANGED lock,
             \/ q.op # "redeem"
             \/ q.phase = "lockAccount"
             \/ /\ q.op = proc[p].op /\ q.own = proc[p].own
                /\ q.phase \in HoldsOwn => proc[p].phase \in HoldsOwn
                /\ q.phase \in HoldsOther => proc[p].phase \in HoldsOther /\ q.other = proc[p].other
      PROVE  HeldInv'
  <2>1. Holds(p, q, lock')
    BY <1>2 DEF HeldInv, Holds, HoldsOwn, HoldsOther
  <2> QED  BY <1>2, <2>1, HeldStep
<1>3. ASSUME NEW p \in Process,
             \/ \E a \in Account, j \in Session, s \in Secret \cup {NoSecret} : Redeem(p, a, j, s)
             \/ \E a \in Account, w \in Waiting : Confirm(p, a, w)
             \/ \E a \in Account : Login(p, a)
             \/ \E w \in Waiting : FirstLogin(p, w)
             \/ \E x \in Id, c \in ClaimName, v \in Value : AppClaim(p, x, c, v)
             \/ \E w \in Waiting, s \in Secret : Issue(p, w, s)
             \/ \E w \in Waiting : Withdraw(p, w)
      PROVE  HeldInv'
  <2>1. \E q : Become(p, q) /\ (q.op # "redeem" \/ q.phase = "lockAccount") /\ UNCHANGED lock
    BY <1>3 DEF Redeem, Confirm, Login, FirstLogin, AppClaim, Issue, Withdraw, Begin, Idle
  <2> QED  BY <1>2, <2>1
<1>4. ASSUME NEW p \in Process,
             Count(p) \/ Recheck(p) \/ ConfirmRecheck(p) \/ Match(p) \/ Fetch(p)
      PROVE  HeldInv'
  <2> DEFINE q == proc[p]
  <2>1. q \in ProcessState /\ RequestTyped(q)
    BY DEF ClaimInv, TypeOK
  <2>2. CASE Count(p)
    <3>1. CASE End(p)
      BY <3>1, EndHeld
    <3>2. ASSUME NEW w \in Waiting,
                 Become(p, [q EXCEPT !.phase = "lockWaiting", !.other = w, !.ownRow = row[q.own]]),
                 UNCHANGED lock
          PROVE  HeldInv'
      BY <1>2, <2>1, <2>2, <3>2 DEF Count, ProcessState, HoldsOwn, HoldsOther
    <3>3. CASE Become(p, [q EXCEPT !.phase = "fail", !.ownRow = row[q.own]]) /\ UNCHANGED lock
      BY <1>2, <2>1, <2>2, <3>3 DEF Count, ProcessState, HoldsOwn, HoldsOther
    <3> QED  BY <2>2, <3>1, <3>2, <3>3 DEF Count
  <2>3. CASE Recheck(p) \/ ConfirmRecheck(p)
    <3>1. ASSUME NEW phase \in {"spend", "give"},
                 Become(p, [q EXCEPT !.phase = phase, !.otherRow = row[q.other]]),
                 UNCHANGED lock
          PROVE  HeldInv'
      BY <1>2, <2>1, <2>3, <3>1 DEF Recheck, ConfirmRecheck, ProcessState, HoldsOwn, HoldsOther
    <3> QED  BY <2>3, <3>1, EndHeld DEF Recheck, ConfirmRecheck
  <2>4. CASE Match(p)
    <3>1. q.op # "redeem" /\ UNCHANGED lock
      BY <2>1, <2>4 DEF Match, RequestTyped, PhaseFitsOperation
    <3>2. \E new : Become(p, new) /\ new.op = q.op
      <4>1. \A w \in Waiting :
              [q EXCEPT !.phase = "give", !.other = w, !.otherRow = row[w]].op = q.op
        BY <2>1 DEF ProcessState
      <4>2. [q EXCEPT !.phase = "touch", !.fetched = NoRow].op = q.op
        BY <2>1 DEF ProcessState
      <4> QED  BY <2>4, <4>1, <4>2 DEF Match, Go
    <3> QED  BY <1>2, <3>1, <3>2
  <2>5. CASE Fetch(p)
    BY <1>2, <2>1, <2>5 DEF Fetch, ProcessState
  <2> QED  BY <1>4, <2>2, <2>3, <2>4, <2>5
<1>5. ASSUME NEW p \in Process, NEW x, NEW phase,
             lock[x] = Free, lock' = [lock EXCEPT ![x] = p], Go(p, phase),
             \/ x = proc[p].own /\ x \in Id /\ phase = "count"
             \/ x = proc[p].other /\ x \in Waiting /\ phase = "recheck" /\ proc[p].phase = "lockWaiting"
      PROVE  HeldInv'
  <2> DEFINE q == [proc[p] EXCEPT !.phase = phase, !.fetched = NoRow]
  <2>1. /\ proc[p] \in ProcessState /\ RequestTyped(proc[p]) /\ Holds(p, proc[p], lock)
        /\ lock \in [Id -> Process \cup {Free}] /\ Waiting \subseteq Id
    BY DEF ClaimInv, TypeOK, HeldInv, Id
  <2>2. q.op = proc[p].op /\ q.phase = phase /\ q.own = proc[p].own /\ q.other = proc[p].other
    BY <2>1 DEF ProcessState
  <2>3. Holds(p, q, lock')
    BY <1>5, <2>1, <2>2 DEF Holds, HoldsOwn, HoldsOther
  <2>4. \A y \in Id : lock'[y] = lock[y] \/ lock[y] \in {Free, p}
    BY <1>5, <2>1
  <2> QED  BY <1>5, <2>3, <2>4, HeldStep DEF Go
<1>6. ASSUME NEW p \in Process, LockAccount(p) \/ LockWaiting(p) PROVE HeldInv'
  <2>1. RequestTyped(proc[p])
    BY DEF ClaimInv
  <2>2. /\ proc[p].phase = "lockAccount" => proc[p].own \in Id
        /\ proc[p].phase = "lockWaiting" => proc[p].other \in Waiting
    BY <2>1 DEF RequestTyped, PhaseFitsOperation, Joins, FromWaiting, Id
  <2> QED  BY <1>5, <1>6, <2>2, EndHeld DEF LockAccount, LockWaiting
<1>7. ASSUME UNCHANGED <<proc, lock>> PROVE HeldInv'
  BY <1>7 DEF HeldInv
<1> QED
  BY <1>1, <1>3, <1>4, <1>6, <1>7 DEF Next, Step, Tick, vars

LEMMA HeldInit == Init => HeldInv
BY DEF Init, HeldInv, Holds, Idle

-----------------------------------------------------------------------------
(* A secret works once, unless an app writes claims: those updates alone   *)
(* may save a spent secret back.  Of the secrets handed out, the live ones *)
(* are in one row each; a redeem that spends one is the only one to do so  *)
(* and leaves it nowhere; who still has to store a secret stores a new one.*)

Using(q, s) == q.op = "redeem" /\ q.phase \in {"spend", "give", "void"} /\ q.secret = s
Issuing(q, s) == q.phase = "issue" /\ q.secret = s
LiveAt(s) == {w \in Waiting : Finds(s, w)}

Found(s) ==
  /\ \A v, w \in LiveAt(s) : v = w
  /\ LiveAt(s) # {} => s \in issued /\ claimed[s] = 0

Used(s) ==
  /\ claimed[s] \in {0, 1}
  /\ claimed[s] # 0 => s \in issued
  /\ \A p \in Process : Using(proc[p], s) =>
       /\ s \in issued /\ claimed[s] = 0
       /\ LiveAt(s) \subseteq IF proc[p].phase = "spend" THEN {proc[p].other} ELSE {}
       /\ \A r \in Process : Using(proc[r], s) => r = p

Handed(s) ==
  \A p \in Process : Issuing(proc[p], s) =>
    /\ s \in issued /\ claimed[s] = 0 /\ LiveAt(s) = {}
    /\ \A r \in Process : ~Using(proc[r], s) /\ (Issuing(proc[r], s) => r = p)

SecretSound(s) == Found(s) /\ Used(s) /\ Handed(s)
SecretInv == "claim" \notin operations => \A s \in Secret : SecretSound(s)

(* A step that stores, hands out and answers no secret.                    *)
LEMMA QuietSecret ==
  ASSUME ClaimInv, NEW s \in Secret, SecretSound(s), UNCHANGED <<row, claimed, issued>>,
         NEW p \in Process, NEW q, Become(p, q),
         Using(q, s) => /\ Using(proc[p], s)
                        /\ \/ q.phase = proc[p].phase /\ q.other = proc[p].other
                           \/ q.phase # "spend" /\ proc[p].phase # "spend",
         Issuing(q, s) => Issuing(proc[p], s)
  PROVE  SecretSound(s)'
<1>1. proc' = [proc EXCEPT ![p] = q] /\ DOMAIN proc = Process
  BY DEF Become, ClaimInv, TypeOK
<1>2. LiveAt(s)' = LiveAt(s)
  BY DEF LiveAt, Finds
<1>3. Found(s)'
  BY <1>2 DEF SecretSound, Found
<1>4. Used(s)'
  BY <1>1, <1>2 DEF SecretSound, Used
<1>5. Handed(s)'
  BY <1>1, <1>2 DEF SecretSound, Handed
<1> QED  BY <1>3, <1>4, <1>5 DEF SecretSound

LEMMA EndSecret ==
  ASSUME ClaimInv, NEW s \in Secret, SecretSound(s), UNCHANGED <<row, claimed, issued>>,
         NEW p \in Process, End(p)
  PROVE  SecretSound(s)'
<1>1. ~Using(Idle, s) /\ ~Issuing(Idle, s)
  BY DEF Using, Issuing, Idle
<1> QED  BY <1>1, QuietSecret DEF End

(* A save brings a secret to life only where it was just handed out, and   *)
(* spending it ends it.                                                    *)
LEMMA SaveLives ==
  ASSUME ClaimInv, "claim" \notin operations, NEW p \in Process, Save(p), NEW s \in Secret
  PROVE  /\ LiveAt(s)' \subseteq LiveAt(s) \cup IF Issuing(proc[p], s) THEN {proc[p].other} ELSE {}
         /\ proc[p].phase = "spend" => proc[p].other \notin LiveAt(s)'
<1> DEFINE q == proc[p]
           t == Target(q)
<1>1. /\ q \in ProcessState /\ RequestTyped(q) /\ row \in [Id -> Row] /\ Waiting \subseteq Id
      /\ q.phase \in Writes /\ q.fetched \in Row /\ s # NoSecret
  BY ClaimConstants DEF Save, ClaimInv, TypeOK, ProcessState, Id
<1>2. t \in Id /\ row' = [row EXCEPT ![t] = Patched(q, q.fetched)]
  BY <1>1, PatchedTyped DEF Save
<1>3. \A w \in Waiting : w # t => (w \in LiveAt(s)' <=> w \in LiveAt(s))
  BY <1>1, <1>2 DEF LiveAt, Finds
<1>4. ASSUME t \in Waiting, t \in LiveAt(s)'
      PROVE  Issuing(q, s) /\ t = q.other
  <2>1. row'[t] = Patched(q, q.fetched) /\ row'[t].secret = s /\ AwaitsOwner(row'[t])
    BY <1>1, <1>2, <1>4 DEF LiveAt, Finds
  <2>2. q.phase \in {"spend", "void", "activate", "issue", "withdraw"} /\ t = q.other
    BY <1>1, <1>4, ClaimConstants
       DEF Target, Writes, RequestTyped, PhaseFitsOperation, Joins, FromWaiting
  <2>3. q.phase # "spend"
    <3>1. ASSUME q.phase = "spend" PROVE FALSE
      <4>1. row'[t] = [q.fetched EXCEPT !.secret = NoSecret]
        BY <2>1, <3>1, Zenon DEF Patched
      <4> QED  BY <1>1, <2>1, <4>1 DEF Row
    <3> QED  BY <3>1
  <2>4. q.phase \notin {"void", "withdraw"}
    <3>1. ASSUME q.phase \in {"void", "withdraw"} PROVE FALSE
      <4>1. row'[t] = [q.fetched EXCEPT !.status = "void"]
        BY <2>1, <3>1, Zenon DEF Patched
      <4> QED  BY <1>1, <2>1, <4>1 DEF Row, AwaitsOwner
    <3> QED  BY <3>1
  <2>5. q.phase # "activate"
    <3>1. ASSUME q.phase = "activate" PROVE FALSE
      <4>1. row'[t] = [q.fetched EXCEPT !.status = "active", !.identity = TRUE]
        BY <2>1, <3>1, Zenon DEF Patched
      <4> QED  BY <1>1, <2>1, <4>1 DEF Row, AwaitsOwner
    <3> QED  BY <3>1
  <2>6. q.phase = "issue" => q.secret = s
    <3>1. ASSUME q.phase = "issue" PROVE q.secret = s
      <4>1. row'[t] = [q.fetched EXCEPT !.secret = q.secret]
        BY <2>1, <3>1, Zenon DEF Patched
      <4> QED  BY <1>1, <2>1, <4>1 DEF Row
    <3> QED  BY <3>1
  <2> QED  BY <2>2, <2>3, <2>4, <2>5, <2>6 DEF Issuing
<1>5. LiveAt(s)' \subseteq Waiting
  BY DEF LiveAt
<1>6. q.phase = "spend" => t = q.other /\ t \in Waiting /\ ~Issuing(q, s)
  BY <1>1 DEF Target, RequestTyped, FromWaiting, Issuing
<1> QED  BY <1>3, <1>4, <1>5, <1>6

LEMMA SaveSecret ==
  ASSUME ClaimInv, "claim" \notin operations, \A s \in Secret : SecretSound(s),
         NEW p \in Process, Save(p)
  PROVE  \A s \in Secret : SecretSound(s)'
<1> DEFINE q == proc[p]
<1>1. q \in ProcessState /\ RequestTyped(q) /\ q.phase \in Writes /\ UNCHANGED issued
      /\ claimed \in [Secret -> Nat]
  BY DEF Save, ClaimInv, TypeOK
<1>2. SUFFICES ASSUME NEW s \in Secret PROVE SecretSound(s)'
  OBVIOUS
<1>3. PICK new : Become(p, new) /\ ~Issuing(new, s)
                 /\ (Using(new, s) => Using(q, s) /\ q.phase # "void" /\ new.phase # "spend")
  <2>1. ~Using(Idle, s) /\ ~Issuing(Idle, s)
    BY DEF Using, Issuing, Idle
  <2>2. CASE End(p)
    BY <2>1, <2>2 DEF End
  <2>3. CASE Go(p, "clear") \/ (Go(p, "touch") /\ q.op = "login")
    <3>1. \A phase \in {"clear", "touch"} :
            LET next == [q EXCEPT !.phase = phase, !.fetched = NoRow]
            IN  next.op = q.op /\ next.phase = phase
      BY <1>1 DEF ProcessState
    <3> QED  BY <2>3, <3>1 DEF Go, Using, Issuing
  <2>4. CASE \/ q.phase = "spend" /\ Go(p, "give")
             \/ q.phase = "give" /\ Go(p, "void")
    <3>1. \A phase \in {"give", "void"} :
            LET next == [q EXCEPT !.phase = phase, !.fetched = NoRow]
            IN  next.op = q.op /\ next.secret = q.secret /\ next.phase = phase
      BY <1>1 DEF ProcessState
    <3> QED  BY <2>4, <3>1 DEF Go, Using, Issuing
  <2> QED  BY <2>2, <2>3, <2>4, ContinueSays DEF Save
<1>4. proc' = [proc EXCEPT ![p] = new] /\ DOMAIN proc = Process
  BY <1>3 DEF Become, ClaimInv, TypeOK
<1>5. /\ q.phase = "void" /\ q.op = "redeem" => claimed' = [claimed EXCEPT ![q.secret] = @ + 1]
      /\ ~(q.phase = "void" /\ q.op = "redeem") => UNCHANGED claimed
  <2>1. Continue(p, TRUE)
    BY DEF Save
  <2> QED  BY <1>1, <2>1 DEF Continue
<1>6. CASE Issuing(q, s)
  <2>1. /\ LiveAt(s)' \subseteq {q.other} /\ claimed'[s] = 0 /\ s \in issued
        /\ \A r \in Process : ~Using(proc[r], s) /\ (Issuing(proc[r], s) => r = p)
    BY <1>5, <1>6, SaveLives DEF SecretSound, Handed, Issuing
  <2>2. \A r \in Process : ~Using(proc'[r], s) /\ ~Issuing(proc'[r], s)
    BY <1>3, <1>4, <2>1
  <2> QED  BY <1>1, <2>1, <2>2 DEF SecretSound, Found, Used, Handed
<1>7. CASE ~Issuing(q, s)
  <2>1. LiveAt(s)' \subseteq LiveAt(s)
    BY <1>7, SaveLives
  <2>2. \A r \in Process : /\ Issuing(proc'[r], s) => Issuing(proc[r], s)
                           /\ Using(proc'[r], s) => Using(proc[r], s)
    BY <1>3, <1>4
  <2>3. CASE Using(q, s) /\ q.phase = "void"
    <3>1. q.op = "redeem" /\ q.secret = s /\ claimed[s] = 0 /\ s \in issued /\ LiveAt(s) = {}
      BY <2>3 DEF Using, SecretSound, Used
    <3>2. claimed'[s] = 1
      BY <1>1, <1>5, <2>3, <3>1
    <3>3. \A r \in Process : ~Using(proc'[r], s) /\ ~Issuing(proc'[r], s)
      BY <1>3, <1>4, <2>2, <2>3 DEF SecretSound, Used, Handed
    <3> QED  BY <1>1, <2>1, <3>1, <3>2, <3>3 DEF SecretSound, Found, Used, Handed
  <2>4. CASE ~(Using(q, s) /\ q.phase = "void")
    <3>1. claimed'[s] = claimed[s]
      BY <1>1, <1>5, <2>4 DEF Using
    <3>2. Found(s)'
      BY <1>1, <2>1, <3>1 DEF SecretSound, Found
    <3>3. Handed(s)'
      BY <1>1, <2>1, <2>2, <3>1 DEF SecretSound, Handed
    <3>4. ASSUME NEW r \in Process, Using(proc'[r], s)
          PROVE  LiveAt(s)' \subseteq IF proc'[r].phase = "spend" THEN {proc'[r].other} ELSE {}
      <4>1. CASE r # p
        BY <1>4, <2>1, <2>2, <3>4, <4>1 DEF SecretSound, Used
      <4>2. CASE r = p
        <5>1. Using(q, s) /\ q.phase \in {"spend", "give"}
          BY <1>3, <1>4, <3>4, <4>2 DEF Using
        <5>2. q.phase = "spend" => LiveAt(s)' = {}
          BY <2>1, <5>1, SaveLives DEF SecretSound, Used
        <5>3. q.phase = "give" => LiveAt(s)' = {}
          BY <2>1, <5>1 DEF SecretSound, Used
        <5> QED  BY <5>1, <5>2, <5>3
      <4> QED  BY <4>1, <4>2
    <3>5. Used(s)'
      BY <1>1, <2>2, <3>1, <3>4 DEF SecretSound, Used
    <3> QED  BY <3>2, <3>3, <3>5 DEF SecretSound
  <2> QED  BY <2>3, <2>4
<1> QED  BY <1>6, <1>7

(* A secret is spent where it was found a second time, under the lock.     *)
LEMMA RecheckSecret ==
  ASSUME ClaimInv, HeldInv, NEW s \in Secret, SecretSound(s), NEW p \in Process, Recheck(p)
  PROVE  SecretSound(s)'
<1> DEFINE q == proc[p]
           new == [q EXCEPT !.phase = "spend", !.otherRow = row[q.other]]
<1>1. q \in ProcessState /\ RequestTyped(q) /\ q.phase = "recheck" /\ q.op = "redeem"
      /\ q.other \in Waiting /\ lock[q.other] = p
  BY DEF Recheck, ClaimInv, TypeOK, HeldInv, Holds, HoldsOther, RequestTyped, FromWaiting
<1>2. CASE End(p)
  BY <1>2, EndSecret DEF Recheck
<1>3. CASE Finds(q.secret, q.other) /\ Become(p, new)
  <2>1. proc' = [proc EXCEPT ![p] = new] /\ DOMAIN proc = Process
        /\ UNCHANGED <<row, claimed, issued>>
    BY <1>3 DEF Become, ClaimInv, TypeOK, Recheck
  <2>2. new.op = "redeem" /\ new.phase = "spend" /\ new.secret = q.secret /\ new.other = q.other
    BY <1>1 DEF ProcessState
  <2>3. CASE q.secret = s
    <3>1. q.other \in LiveAt(s) /\ LiveAt(s)' = LiveAt(s)
      BY <1>1, <1>3, <2>1, <2>3 DEF LiveAt, Finds
    <3>2. LiveAt(s) = {q.other} /\ s \in issued /\ claimed[s] = 0
      BY <3>1 DEF SecretSound, Found
    <3>3. \A r \in Process : ~Using(proc[r], s)
      <4> SUFFICES ASSUME NEW r \in Process, Using(proc[r], s) PROVE FALSE
        OBVIOUS
      <4>1. proc[r].phase = "spend" /\ proc[r].other = q.other /\ proc[r].op = "redeem"
        BY <3>1 DEF SecretSound, Used, Using
      <4>2. lock[q.other] = r
        BY <4>1 DEF HeldInv, Holds, HoldsOther
      <4> QED  BY <1>1, <4>1, <4>2
    <3>4. \A r \in Process : ~Issuing(proc[r], s)
      BY <3>1 DEF SecretSound, Handed
    <3>5. \A r \in Process : ~Issuing(proc'[r], s) /\ (Using(proc'[r], s) => r = p)
      BY <2>1, <2>2, <3>3, <3>4 DEF Issuing
    <3> QED  BY <2>1, <2>2, <3>1, <3>2, <3>5 DEF SecretSound, Found, Used, Handed
  <2>4. CASE q.secret # s
    <3>1. ~Using(new, s) /\ ~Issuing(new, s)
      BY <2>2, <2>4 DEF Using, Issuing
    <3> QED  BY <1>3, <2>1, <3>1, QuietSecret
  <2> QED  BY <2>3, <2>4
<1> QED  BY <1>2, <1>3 DEF Recheck

(* A secret is handed out once.                                            *)
LEMMA IssueSecret ==
  ASSUME ClaimInv, NEW s \in Secret, SecretSound(s),
         NEW p \in Process, NEW w \in Waiting, NEW k \in Secret, Issue(p, w, k)
  PROVE  SecretSound(s)'
<1> DEFINE new == [Idle EXCEPT !.op = "issue", !.phase = "issue", !.other = w, !.secret = k]
<1>1. proc' = [proc EXCEPT ![p] = new] /\ DOMAIN proc = Process /\ UNCHANGED <<row, claimed>>
      /\ issued' = issued \cup {k} /\ k \notin issued
  BY DEF Issue, Begin, Become, ClaimInv, TypeOK
<1>2. new.op = "issue" /\ new.phase = "issue" /\ new.secret = k
  BY DEF Idle
<1>3. LiveAt(s)' = LiveAt(s)
  BY <1>1 DEF LiveAt, Finds
<1>4. \A r \in Process : /\ Using(proc'[r], s) => Using(proc[r], s) /\ r # p
                         /\ Issuing(proc'[r], s) => Issuing(proc[r], s) \/ (r = p /\ s = k)
  BY <1>1, <1>2 DEF Using, Issuing
<1>5. s = k => /\ claimed[s] = 0 /\ LiveAt(s) = {}
               /\ \A r \in Process : ~Using(proc[r], s) /\ ~Issuing(proc[r], s)
  BY <1>1 DEF SecretSound, Found, Used, Handed
<1>6. Found(s)'
  BY <1>1, <1>3 DEF SecretSound, Found
<1>7. Used(s)'
  BY <1>1, <1>3, <1>4 DEF SecretSound, Used
<1>8. Handed(s)'
  BY <1>1, <1>3, <1>4, <1>5 DEF SecretSound, Handed
<1> QED  BY <1>6, <1>7, <1>8 DEF SecretSound

(* A request that works on no secret.                                      *)
LEMMA IdlySecret ==
  ASSUME ClaimInv, NEW s \in Secret, SecretSound(s), UNCHANGED <<row, claimed, issued>>,
         NEW p \in Process, NEW q, Become(p, q), q.phase # "issue",
         q.op # "redeem" \/ q.phase \notin {"spend", "give", "void"}
  PROVE  SecretSound(s)'
BY QuietSecret DEF Using, Issuing

LEMMA BeginSecret ==
  ASSUME ClaimInv, NEW s \in Secret, SecretSound(s), NEW p \in Process,
         \/ \E a \in Account, j \in Session, k \in Secret \cup {NoSecret} : Redeem(p, a, j, k)
         \/ \E a \in Account, w \in Waiting : Confirm(p, a, w)
         \/ \E a \in Account : Login(p, a)
         \/ \E w \in Waiting : FirstLogin(p, w)
         \/ \E x \in Id, c \in ClaimName, v \in Value : AppClaim(p, x, c, v)
         \/ \E w \in Waiting : Withdraw(p, w)
  PROVE  SecretSound(s)'
<1>1. ASSUME NEW a, NEW j, NEW k, Redeem(p, a, j, k) PROVE SecretSound(s)'
  <2> DEFINE new == [Idle EXCEPT !.op = "redeem", !.phase = "lockAccount", !.own = a,
                                 !.session = j, !.secret = k, !.moment = now,
                                 !.ownRow = row[a]]
  <2>1. new.phase = "lockAccount"
    BY DEF Idle
  <2>2. Become(p, new) /\ UNCHANGED <<row, claimed, issued>>
    BY <1>1 DEF Redeem, Begin
  <2> HIDE DEF new
  <2> QED  BY <2>1, <2>2, IdlySecret
<1>2. ASSUME NEW a, NEW w, Confirm(p, a, w) PROVE SecretSound(s)'
  <2> DEFINE new == [Idle EXCEPT !.op = "confirm", !.phase = "lockWaiting", !.own = a,
                                 !.other = w, !.ownRow = row[a]]
  <2>1. new.phase = "lockWaiting"
    BY DEF Idle
  <2>2. Become(p, new) /\ UNCHANGED <<row, claimed, issued>>
    BY <1>2 DEF Confirm, Begin
  <2> HIDE DEF new
  <2> QED  BY <2>1, <2>2, IdlySecret
<1>3. ASSUME NEW a, Login(p, a) PROVE SecretSound(s)'
  <2> DEFINE new == [Idle EXCEPT !.op = "login", !.phase = "match", !.own = a, !.ownRow = row[a]]
  <2>1. new.phase = "match"
    BY DEF Idle
  <2>2. Become(p, new) /\ UNCHANGED <<row, claimed, issued>>
    BY <1>3 DEF Login, Begin
  <2> HIDE DEF new
  <2> QED  BY <2>1, <2>2, IdlySecret
<1>4. ASSUME NEW w, FirstLogin(p, w) PROVE SecretSound(s)'
  <2> DEFINE new == [Idle EXCEPT !.op = "firstLogin", !.phase = "activate",
                                 !.other = w, !.otherRow = row[w]]
  <2>1. new.phase = "activate"
    BY DEF Idle
  <2>2. Become(p, new) /\ UNCHANGED <<row, claimed, issued>>
    BY <1>4 DEF FirstLogin, Begin
  <2> HIDE DEF new
  <2> QED  BY <2>1, <2>2, IdlySecret
<1>5. ASSUME NEW x, NEW c, NEW v, AppClaim(p, x, c, v) PROVE SecretSound(s)'
  <2> DEFINE new == [Idle EXCEPT !.op = "claim", !.phase = "claim", !.other = x,
                                 !.otherRow = [row[x] EXCEPT !.claims[c] = v]]
  <2>1. new.phase = "claim"
    BY DEF Idle
  <2>2. Become(p, new) /\ UNCHANGED <<row, claimed, issued>>
    BY <1>5 DEF AppClaim, Begin
  <2> HIDE DEF new
  <2> QED  BY <2>1, <2>2, IdlySecret
<1>6. ASSUME NEW w, Withdraw(p, w) PROVE SecretSound(s)'
  <2> DEFINE new == [Idle EXCEPT !.op = "withdraw", !.phase = "withdraw", !.other = w]
  <2>1. new.phase = "withdraw"
    BY DEF Idle
  <2>2. Become(p, new) /\ UNCHANGED <<row, claimed, issued>>
    BY <1>6 DEF Withdraw, Begin
  <2> HIDE DEF new
  <2> QED  BY <2>1, <2>2, IdlySecret
<1> QED  BY <1>1, <1>2, <1>3, <1>4, <1>5, <1>6

LEMMA ReadingSecret ==
  ASSUME ClaimInv, NEW s \in Secret, SecretSound(s), NEW p \in Process,
         \/ LockAccount(p) \/ Count(p) \/ LockWaiting(p) \/ ConfirmRecheck(p) \/ Match(p)
         \/ Fetch(p)
  PROVE  SecretSound(s)'
<1> DEFINE q == proc[p]
<1>1. q \in ProcessState /\ RequestTyped(q)
  BY DEF ClaimInv, TypeOK
<1>2. UNCHANGED <<row, claimed, issued>>
  BY DEF LockAccount, Count, LockWaiting, ConfirmRecheck, Match, Fetch
<1>3. CASE End(p)
  BY <1>2, <1>3, EndSecret
<1>4. ASSUME NEW phase \in {"count", "recheck", "touch"}, Go(p, phase)
      PROVE  SecretSound(s)'
  <2> DEFINE new == [q EXCEPT !.phase = phase, !.fetched = NoRow]
  <2>1. new.phase = phase
    BY <1>1 DEF ProcessState
  <2>2. Become(p, new)
    BY <1>4 DEF Go
  <2> HIDE DEF new
  <2> QED  BY <1>2, <1>4, <2>1, <2>2, IdlySecret
<1>5. ASSUME NEW w \in Waiting,
             Become(p, [q EXCEPT !.phase = "lockWaiting", !.other = w, !.ownRow = row[q.own]])
      PROVE  SecretSound(s)'
  <2> DEFINE new == [q EXCEPT !.phase = "lockWaiting", !.other = w, !.ownRow = row[q.own]]
  <2>1. new.phase = "lockWaiting" /\ Become(p, new)
    BY <1>1, <1>5 DEF ProcessState
  <2> HIDE DEF new
  <2> QED  BY <1>2, <2>1, IdlySecret
<1>6. CASE Become(p, [q EXCEPT !.phase = "fail", !.ownRow = row[q.own]])
  <2> DEFINE new == [q EXCEPT !.phase = "fail", !.ownRow = row[q.own]]
  <2>1. new.phase = "fail" /\ Become(p, new)
    BY <1>1, <1>6 DEF ProcessState
  <2> HIDE DEF new
  <2> QED  BY <1>2, <2>1, IdlySecret
<1>7. CASE q.op = "confirm" /\ Become(p, [q EXCEPT !.phase = "give", !.otherRow = row[q.other]])
  <2> DEFINE new == [q EXCEPT !.phase = "give", !.otherRow = row[q.other]]
  <2>1. new.phase = "give" /\ new.op = "confirm" /\ Become(p, new)
    BY <1>1, <1>7 DEF ProcessState
  <2> HIDE DEF new
  <2> QED  BY <1>2, <2>1, IdlySecret
<1>8. ASSUME NEW w \in Waiting, q.op = "login",
             Become(p, [q EXCEPT !.phase = "give", !.other = w, !.otherRow = row[w]])
      PROVE  SecretSound(s)'
  <2> DEFINE new == [q EXCEPT !.phase = "give", !.other = w, !.otherRow = row[w]]
  <2>1. new.phase = "give" /\ new.op = "login" /\ Become(p, new)
    BY <1>1, <1>8 DEF ProcessState
  <2> HIDE DEF new
  <2> QED  BY <1>2, <2>1, IdlySecret
<1>9. CASE Fetch(p)
  <2> DEFINE new == [q EXCEPT !.fetched = row[Target(q)]]
  <2>1. new.phase = q.phase /\ new.op = q.op /\ new.other = q.other /\ new.secret = q.secret
    BY <1>1 DEF ProcessState
  <2>2. Become(p, new) /\ UNCHANGED <<row, claimed, issued>>
    BY <1>9 DEF Fetch
  <2> HIDE DEF new
  <2> QED  BY <2>1, <2>2, QuietSecret DEF Using, Issuing
<1>10. CASE LockAccount(p) \/ LockWaiting(p)
  BY <1>3, <1>4, <1>10 DEF LockAccount, LockWaiting
<1>11. CASE Count(p)
  BY <1>3, <1>5, <1>6, <1>11 DEF Count
<1>12. CASE ConfirmRecheck(p)
  BY <1>3, <1>7, <1>12 DEF ConfirmRecheck
<1>13. CASE Match(p)
  <2>1. q.op = "login"
    BY <1>1, <1>13 DEF Match, RequestTyped, PhaseFitsOperation
  <2> QED  BY <1>4, <1>8, <1>13, <2>1 DEF Match
<1> QED  BY <1>9, <1>10, <1>11, <1>12, <1>13

(* Writes that put nothing into a row.                                     *)
LEMMA NoWriteSecret ==
  ASSUME ClaimInv, NEW s \in Secret, SecretSound(s), NEW p \in Process,
         GiveNothing(p) \/ WriteFails(p)
  PROVE  SecretSound(s)'
<1> DEFINE q == proc[p]
<1>1. q \in ProcessState /\ UNCHANGED <<row, issued>>
  BY DEF ClaimInv, TypeOK, GiveNothing, WriteFails
<1>2. PICK ok \in BOOLEAN : Continue(p, ok) /\ (ok => q.phase = "give")
  BY DEF GiveNothing, WriteFails, NothingToGive
<1>3. CASE End(p) /\ UNCHANGED claimed
  BY <1>1, <1>3, EndSecret
<1>4. CASE q.phase = "give" /\ Go(p, "void") /\ UNCHANGED claimed
  <2> DEFINE new == [q EXCEPT !.phase = "void", !.fetched = NoRow]
  <2>1. new.phase = "void" /\ new.op = q.op /\ new.secret = q.secret
    BY <1>1 DEF ProcessState
  <2>2. Become(p, new)
    BY <1>4 DEF Go
  <2> HIDE DEF new
  <2> QED  BY <1>1, <1>4, <2>1, <2>2, QuietSecret DEF Using, Issuing
<1>5. CASE Go(p, "touch") /\ UNCHANGED claimed
  <2> DEFINE new == [q EXCEPT !.phase = "touch", !.fetched = NoRow]
  <2>1. new.phase = "touch"
    BY <1>1 DEF ProcessState
  <2>2. Become(p, new)
    BY <1>5 DEF Go
  <2> HIDE DEF new
  <2> QED  BY <1>1, <1>5, <2>1, <2>2, QuietSecret DEF Using, Issuing
<1> QED  BY <1>2, <1>3, <1>4, <1>5, ContinueSays

LEMMA SecretNext == ClaimInv /\ HeldInv /\ SecretInv /\ [Next]_vars => SecretInv'
<1> SUFFICES ASSUME ClaimInv, HeldInv, SecretInv, [Next]_vars, "claim" \notin operations
             PROVE  \A s \in Secret : SecretSound(s)'
  BY DEF SecretInv, Next, vars, conditions
<1>1. \A s \in Secret : SecretSound(s)
  BY DEF SecretInv
<1>2. ASSUME NEW p \in Process, Save(p) PROVE \A s \in Secret : SecretSound(s)'
  BY <1>1, <1>2, SaveSecret
<1>3. ASSUME UNCHANGED <<proc, row, claimed, issued>> PROVE \A s \in Secret : SecretSound(s)'
  BY <1>1, <1>3 DEF SecretSound, Found, Used, Handed, LiveAt, Finds
<1> QED
  BY <1>1, <1>2, <1>3, BeginSecret, ReadingSecret, RecheckSecret, IssueSecret, NoWriteSecret
     DEF Next, Step, Tick, vars

LEMMA SecretInit == Init => SecretInv
<1> SUFFICES ASSUME Init, NEW s \in Secret PROVE SecretSound(s)
  BY DEF SecretInv
<1>1. PICK claims \in [Id -> Claims], secrets \in [Waiting -> Secret \cup {NoSecret}],
           mail \in [Account -> {"none", "proven"}] :
        /\ \A v, w \in Waiting : v # w => secrets[v] # secrets[w] \/ secrets[v] = NoSecret
        /\ row = [x \in Id |->
             [status |-> IF x \in Account THEN "active" ELSE "pending",
              identity |-> x \in Account,
              secret |-> IF x \in Account THEN NoSecret ELSE secrets[x],
              claims |-> claims[x],
              email |-> IF x \in Account THEN mail[x] ELSE "proven",
              attempts |-> 0, since |-> 0]]
        /\ issued = {secrets[w] : w \in Waiting} \ {NoSecret}
  BY DEF Init
<1>2. \A w \in Waiting : row[w].secret = secrets[w]
  BY <1>1, ClaimConstants DEF Id
<1>3. \A w \in LiveAt(s) : w \in Waiting /\ secrets[w] = s /\ s \in issued
  BY <1>1, <1>2, ClaimConstants DEF LiveAt, Finds
<1>4. \A p \in Process : ~Using(proc[p], s) /\ ~Issuing(proc[p], s)
  BY DEF Init, Using, Issuing, Idle
<1>5. claimed[s] = 0
  BY DEF Init
<1>6. Found(s)
  BY <1>1, <1>3, <1>5, ClaimConstants DEF Found
<1> QED  BY <1>4, <1>5, <1>6 DEF SecretSound, Used, Handed

(* However redeems, confirmations, sign-ins, new secrets and withdrawals   *)
(* interleave, whichever write fails and however many people, waiting      *)
(* accounts, secrets and workers there are: as long as no app writes       *)
(* claims, a secret answers CLAIMED at most once                           *)
(* (WaitingAccountInvitation, 245-386).                                    *)
THEOREM SecretsWorkOnce == Spec => []SecretWorksOnceJoining
<1>1. SecretInv => SecretWorksOnceJoining
  BY DEF SecretInv, SecretSound, Used, SecretWorksOnceJoining, SecretWorksOnce
<1> QED
  BY <1>1, ClaimInvariance, HeldInit, HeldNext, SecretInit, SecretNext, PTL DEF Spec

-----------------------------------------------------------------------------
(* When only redeems run, what a redeem has read under its locks still     *)
(* stands when it writes.                                                  *)

OnlyRedeems == operations \subseteq {"redeem"}

RedeemPhase == {"idle", "lockAccount"} \cup HoldsOwn

Fresh(q, rows) ==
  /\ q.phase \in RedeemPhase
  /\ q.phase # "idle" => q.op = "redeem"
  /\ q.fetched # NoRow => q.phase \in Writes /\ q.fetched = rows[Target(q)]
  /\ q.phase \in {"lockWaiting", "recheck", "spend", "give", "fail"} => q.ownRow = rows[q.own]
  /\ q.phase \in {"spend", "give"} =>
       /\ q.otherRow.claims = rows[q.other].claims
       /\ ~ClaimsConflict(q.ownRow.claims, q.otherRow.claims)

FreshInv == OnlyRedeems => \A p \in Process : Fresh(proc[p], row)

(* The rows a request relies on are the ones it holds.                     *)
LEMMA FreshKept ==
  ASSUME ClaimInv, HeldInv, NEW r \in Process, Fresh(proc[r], row), proc'[r] = proc[r],
         \A x \in Id : lock[x] = r => row'[x] = row[x]
  PROVE  Fresh(proc'[r], row')
<1> DEFINE q == proc[r]
<1>1. RequestTyped(q) /\ Holds(r, q, lock)
  BY DEF ClaimInv, HeldInv
<1>2. q.phase \in {"lockWaiting", "recheck", "spend", "give", "fail"} => row'[q.own] = row[q.own]
  BY <1>1 DEF Fresh, Holds, HoldsOwn, RequestTyped, Joins, Id
<1>3. q.phase \in {"spend", "give"} => row'[q.other] = row[q.other]
  BY <1>1 DEF Fresh, Holds, HoldsOther, RequestTyped, FromWaiting, Id
<1>4. q.phase \in Writes => row'[Target(q)] = row[Target(q)]
  BY <1>1 DEF Fresh, Holds, HoldsOwn, HoldsOther, RequestTyped, Joins, FromWaiting, Id,
              Target, Writes, RedeemPhase
<1> QED  BY <1>2, <1>3, <1>4 DEF Fresh

LEMMA FreshStep ==
  ASSUME ClaimInv, HeldInv, \A r \in Process : Fresh(proc[r], row),
         NEW p \in Process, NEW q, Become(p, q), Fresh(q, row'),
         \A x \in Id : lock[x] # p => row'[x] = row[x]
  PROVE  \A r \in Process : Fresh(proc'[r], row')
<1>1. proc' = [proc EXCEPT ![p] = q] /\ DOMAIN proc = Process
  BY DEF Become, ClaimInv, TypeOK
<1>2. ASSUME NEW r \in Process, r # p PROVE Fresh(proc'[r], row')
  BY <1>1, <1>2, FreshKept
<1>3. proc'[p] = q
  BY <1>1
<1>4. Fresh(proc'[p], row')
  BY <1>3 DEF Fresh
<1> QED  BY <1>2, <1>4

LEMMA EndFresh ==
  ASSUME ClaimInv, HeldInv, \A r \in Process : Fresh(proc[r], row), NEW p \in Process, End(p),
         \A x \in Id : lock[x] # p => row'[x] = row[x]
  PROVE  \A r \in Process : Fresh(proc'[r], row')
<1>1. Fresh(Idle, row')
  BY DEF Fresh, Idle, Writes, RedeemPhase
<1> QED  BY <1>1, FreshStep DEF End

(* A save that only redeems run beside puts its fields over the row as it  *)
(* is.                                                                     *)
LEMMA SaveInFresh ==
  ASSUME ClaimInv, HeldInv, NEW p \in Process, Fresh(proc[p], row), Save(p)
  PROVE  LET q == proc[p]
             t == Target(q) IN
         /\ q.op = "redeem" /\ q.phase \in {"fail", "spend", "give", "void", "clear"}
         /\ q.own \in Account
         /\ q.phase \in {"spend", "give", "void"} => q.other \in Waiting
         /\ t \in Id /\ lock[t] = p
         /\ row' = [row EXCEPT ![t] = Patched(q, row[t])]
<1> DEFINE q == proc[p]
<1>1. RequestTyped(q) /\ Holds(p, q, lock) /\ q.phase \in Writes
  BY DEF ClaimInv, HeldInv, Save
<1>2. q.op = "redeem" /\ q.phase \in {"fail", "spend", "give", "void", "clear"}
  BY <1>1 DEF Fresh, RedeemPhase, HoldsOwn, Writes
<1>3. q.own \in Account /\ (q.phase \in {"spend", "give", "void"} => q.other \in Waiting)
  BY <1>1, <1>2 DEF RequestTyped, Joins, FromWaiting
<1>4. Target(q) \in Id /\ lock[Target(q)] = p
  BY <1>1, <1>2, <1>3 DEF Target, Holds, HoldsOwn, HoldsOther, Id
<1>5. row' = [row EXCEPT ![Target(q)] = Patched(q, row[Target(q)])]
  BY <1>1 DEF Fresh, Save
<1> QED  BY <1>2, <1>3, <1>4, <1>5

LEMMA SaveFresh ==
  ASSUME ClaimInv, HeldInv, OnlyRedeems, \A r \in Process : Fresh(proc[r], row),
         NEW p \in Process, Save(p)
  PROVE  \A r \in Process : Fresh(proc'[r], row')
<1> DEFINE q == proc[p]
           t == Target(q)
<1>1. /\ q.op = "redeem" /\ q.phase \in {"fail", "spend", "give", "void", "clear"}
      /\ q.own \in Account
      /\ q.phase \in {"spend", "give", "void"} => q.other \in Waiting
      /\ t \in Id /\ lock[t] = p
      /\ row' = [row EXCEPT ![t] = Patched(q, row[t])]
  BY SaveInFresh
<1>2. q \in ProcessState /\ row \in [Id -> Row] /\ Fresh(q, row)
  BY DEF ClaimInv, TypeOK
<1>3. \A x \in Id : lock[x] # p => row'[x] = row[x]
  BY <1>1, <1>2
<1>4. CASE End(p)
  BY <1>3, <1>4, EndFresh
<1>5. CASE q.phase = "spend" /\ Go(p, "give")
  <2> DEFINE new == [q EXCEPT !.phase = "give", !.fetched = NoRow]
  <2>1. /\ new.phase = "give" /\ new.fetched = NoRow /\ new.op = q.op /\ new.own = q.own
        /\ new.other = q.other /\ new.ownRow = q.ownRow /\ new.otherRow = q.otherRow
    BY <1>2 DEF ProcessState
  <2>2. t = q.other /\ q.own # t /\ q.own \in Id
    BY <1>1, <1>5, ClaimConstants DEF Target, Id
  <2>3. row'[t] = [row[t] EXCEPT !.secret = NoSecret]
    BY <1>1, <1>2, <1>5, Zenon DEF Patched
  <2>4. row'[t].claims = row[t].claims /\ row'[q.own] = row[q.own]
    BY <1>1, <1>2, <2>2, <2>3 DEF Row
  <2>5. Become(p, new)
    BY <1>5 DEF Go
  <2> HIDE DEF new
  <2>6. Fresh(new, row')
    BY <1>1, <1>2, <1>5, <2>1, <2>2, <2>4 DEF Fresh, RedeemPhase, HoldsOwn
  <2> QED  BY <1>3, <2>5, <2>6, FreshStep
<1>6. ASSUME NEW phase \in {"void", "clear"}, Go(p, phase) PROVE \A r \in Process : Fresh(proc'[r], row')
  <2> DEFINE new == [q EXCEPT !.phase = phase, !.fetched = NoRow]
  <2>1. new.phase = phase /\ new.fetched = NoRow /\ new.op = q.op
    BY <1>2 DEF ProcessState
  <2>2. Become(p, new)
    BY <1>6 DEF Go
  <2> HIDE DEF new
  <2>3. Fresh(new, row')
    BY <1>1, <2>1 DEF Fresh, RedeemPhase, HoldsOwn
  <2> QED  BY <1>3, <2>2, <2>3, FreshStep
<1>7. Continue(p, TRUE) /\ q.op # "login"
  BY <1>1 DEF Save
<1> QED  BY <1>4, <1>5, <1>6, <1>7, ContinueSays

(* Steps that leave the rows alone.                                        *)
LEMMA QuietFresh ==
  ASSUME ClaimInv, HeldInv, OnlyRedeems, \A r \in Process : Fresh(proc[r], row), UNCHANGED row,
         NEW p \in Process, NEW q, Become(p, q),
         q.op = "redeem", q.phase \in {"lockAccount", "count", "recheck", "void", "clear"},
         q.fetched = NoRow,
         q.phase = "recheck" => q.ownRow = row[q.own]
  PROVE  \A r \in Process : Fresh(proc'[r], row')
<1>1. Fresh(q, row')
  BY DEF Fresh, RedeemPhase, HoldsOwn, Writes
<1> QED  BY <1>1, FreshStep

LEMMA RedeemFresh ==
  ASSUME ClaimInv, HeldInv, OnlyRedeems, \A r \in Process : Fresh(proc[r], row), NEW p \in Process,
         \/ \E a \in Account, j \in Session, s \in Secret \cup {NoSecret} : Redeem(p, a, j, s)
         \/ LockAccount(p) \/ LockWaiting(p) \/ GiveNothing(p) \/ WriteFails(p)
  PROVE  \A r \in Process : Fresh(proc'[r], row')
<1> DEFINE q == proc[p]
<1>1. q \in ProcessState /\ Fresh(q, row) /\ UNCHANGED row
  BY DEF ClaimInv, TypeOK, Redeem, LockAccount, LockWaiting, GiveNothing, WriteFails
<1>2. CASE End(p)
  BY <1>1, <1>2, EndFresh
<1>3. ASSUME NEW phase \in {"count", "recheck", "void"}, Go(p, phase), q.phase # "idle",
             phase = "recheck" => q.phase = "lockWaiting"
      PROVE  \A r \in Process : Fresh(proc'[r], row')
  <2> DEFINE new == [q EXCEPT !.phase = phase, !.fetched = NoRow]
  <2>1. /\ new.phase = phase /\ new.fetched = NoRow /\ new.op = q.op
        /\ new.own = q.own /\ new.ownRow = q.ownRow
    BY <1>1 DEF ProcessState
  <2>2. Become(p, new)
    BY <1>3 DEF Go
  <2> HIDE DEF new
  <2>3. phase = "recheck" => new.ownRow = row[new.own]
    BY <1>1, <1>3, <2>1 DEF Fresh
  <2> QED  BY <1>1, <1>3, <2>1, <2>2, <2>3, QuietFresh DEF Fresh
<1>4. ASSUME NEW a \in Account, NEW j, NEW s, Redeem(p, a, j, s)
      PROVE  \A r \in Process : Fresh(proc'[r], row')
  <2> DEFINE new == [Idle EXCEPT !.op = "redeem", !.phase = "lockAccount", !.own = a,
                                 !.session = j, !.secret = s, !.moment = now,
                                 !.ownRow = row[a]]
  <2>1. new.phase = "lockAccount" /\ new.op = "redeem" /\ new.fetched = NoRow
    BY DEF Idle
  <2>2. Become(p, new)
    BY <1>4 DEF Redeem, Begin
  <2> HIDE DEF new
  <2> QED  BY <1>1, <2>1, <2>2, QuietFresh
<1>5. CASE LockAccount(p) \/ LockWaiting(p)
  BY <1>2, <1>3, <1>5 DEF LockAccount, LockWaiting
<1>6. CASE GiveNothing(p)
  <2>1. q.phase = "give" /\ Continue(p, TRUE) /\ q.op = "redeem"
    BY <1>1, <1>6 DEF GiveNothing, NothingToGive, Fresh
  <2> QED  BY <1>2, <1>3, <2>1, ContinueSays
<1>7. CASE WriteFails(p)
  <2>1. Continue(p, FALSE) /\ q.op # "login"
    BY <1>1, <1>7 DEF WriteFails, Fresh, Writes
  <2> QED  BY <1>2, <2>1, ContinueSays
<1> QED  BY <1>4, <1>5, <1>6, <1>7

LEMMA ReadingFresh ==
  ASSUME ClaimInv, HeldInv, OnlyRedeems, \A r \in Process : Fresh(proc[r], row), NEW p \in Process,
         Count(p) \/ Recheck(p) \/ Fetch(p)
  PROVE  \A r \in Process : Fresh(proc'[r], row')
<1> DEFINE q == proc[p]
<1>1. q \in ProcessState /\ Fresh(q, row) /\ UNCHANGED row
  BY DEF ClaimInv, TypeOK, Count, Recheck, Fetch
<1>2. CASE End(p)
  BY <1>1, <1>2, EndFresh
<1>3. ASSUME NEW w, q.phase = "count",
             Become(p, [q EXCEPT !.phase = "lockWaiting", !.other = w, !.ownRow = row[q.own]])
      PROVE  \A r \in Process : Fresh(proc'[r], row')
  <2> DEFINE new == [q EXCEPT !.phase = "lockWaiting", !.other = w, !.ownRow = row[q.own]]
  <2>1. /\ new.phase = "lockWaiting" /\ new.op = q.op /\ new.own = q.own
        /\ new.fetched = q.fetched /\ new.ownRow = row[q.own] /\ Become(p, new)
    BY <1>1, <1>3 DEF ProcessState
  <2> HIDE DEF new
  <2>2. Fresh(new, row')
    BY <1>1, <1>3, <2>1 DEF Fresh, RedeemPhase, HoldsOwn, Writes
  <2> QED  BY <1>1, <2>1, <2>2, FreshStep
<1>4. ASSUME q.phase = "count", Become(p, [q EXCEPT !.phase = "fail", !.ownRow = row[q.own]])
      PROVE  \A r \in Process : Fresh(proc'[r], row')
  <2> DEFINE new == [q EXCEPT !.phase = "fail", !.ownRow = row[q.own]]
  <2>1. /\ new.phase = "fail" /\ new.op = q.op /\ new.own = q.own /\ new.fetched = q.fetched
        /\ new.ownRow = row[q.own] /\ Become(p, new)
    BY <1>1, <1>4 DEF ProcessState
  <2> HIDE DEF new
  <2>2. q.fetched = NoRow
    BY <1>1, <1>4 DEF Fresh, Writes
  <2>3. Fresh(new, row')
    BY <1>1, <1>4, <2>1, <2>2 DEF Fresh, RedeemPhase, HoldsOwn, Writes
  <2> QED  BY <1>1, <2>1, <2>3, FreshStep
<1>5. CASE Count(p)
  BY <1>2, <1>3, <1>4, <1>5 DEF Count
<1>6. CASE Recheck(p)
  <2> DEFINE new == [q EXCEPT !.phase = "spend", !.otherRow = row[q.other]]
  <2>1. q.phase = "recheck" /\ q.fetched = NoRow
    BY <1>1, <1>6 DEF Recheck, Fresh, Writes
  <2>2. CASE Joinable(q.ownRow, row[q.other]) /\ Become(p, new)
    <3>1. /\ new.phase = "spend" /\ new.op = q.op /\ new.own = q.own /\ new.fetched = NoRow
          /\ new.other = q.other /\ new.ownRow = q.ownRow /\ new.otherRow = row[q.other]
      BY <1>1, <2>1 DEF ProcessState
    <3>2. Become(p, new)
      BY <2>2
    <3> HIDE DEF new
    <3>3. Fresh(new, row')
      BY <1>1, <2>1, <2>2, <3>1 DEF Fresh, RedeemPhase, HoldsOwn, Joinable
    <3> QED  BY <1>1, <3>2, <3>3, FreshStep
  <2> QED  BY <1>2, <1>6, <2>2 DEF Recheck
<1>7. CASE Fetch(p)
  <2> DEFINE new == [q EXCEPT !.fetched = row[Target(q)]]
  <2>1. /\ new.phase = q.phase /\ new.op = q.op /\ new.own = q.own /\ new.other = q.other
        /\ new.ownRow = q.ownRow /\ new.otherRow = q.otherRow /\ new.fetched = row[Target(q)]
    BY <1>1 DEF ProcessState
  <2>2. Become(p, new) /\ q.phase \in Writes
    BY <1>7 DEF Fetch
  <2> HIDE DEF new
  <2>3. Fresh(new, row')
    BY <1>1, <2>1, <2>2 DEF Fresh, Target
  <2> QED  BY <1>1, <2>2, <2>3, FreshStep
<1> QED  BY <1>5, <1>6, <1>7

LEMMA OthersNeverRun ==
  ASSUME OnlyRedeems, NEW p \in Process, Fresh(proc[p], row)
  PROVE  /\ \A a, w : ~Confirm(p, a, w)
         /\ \A a : ~Login(p, a)
         /\ \A w : ~FirstLogin(p, w)
         /\ \A x, c, v : ~AppClaim(p, x, c, v)
         /\ \A w, s : ~Issue(p, w, s)
         /\ \A w : ~Withdraw(p, w)
         /\ ~ConfirmRecheck(p)
         /\ ~Match(p)
<1>1. ~ConfirmRecheck(p)
  BY DEF ConfirmRecheck, Fresh
<1>2. ~Match(p)
  BY DEF Match, Fresh, RedeemPhase, HoldsOwn
<1> QED
  BY <1>1, <1>2 DEF OnlyRedeems, Confirm, Login, FirstLogin, AppClaim, Issue, Withdraw, Begin

LEMMA FreshNext == ClaimInv /\ HeldInv /\ FreshInv /\ [Next]_vars => FreshInv'
<1> SUFFICES ASSUME ClaimInv, HeldInv, FreshInv, [Next]_vars, OnlyRedeems
             PROVE  \A r \in Process : Fresh(proc'[r], row')
  BY DEF FreshInv, OnlyRedeems, Next, vars, conditions
<1>1. \A r \in Process : Fresh(proc[r], row)
  BY DEF FreshInv
<1>2. ASSUME UNCHANGED <<proc, row>> PROVE \A r \in Process : Fresh(proc'[r], row')
  BY <1>1, <1>2
<1> QED
  BY <1>1, <1>2, OthersNeverRun, RedeemFresh, ReadingFresh, SaveFresh DEF Next, Step, Tick, vars

LEMMA FreshInit == Init => FreshInv
<1> SUFFICES ASSUME Init, NEW p \in Process PROVE Fresh(Idle, row)
  BY DEF FreshInv, Init
<1> QED  BY DEF Fresh, Idle, RedeemPhase

-----------------------------------------------------------------------------
(* Claims only join: a save writes claims over an account alone, and keeps *)
(* every claim the account had.                                            *)

Keeps(mine, theirs) == \A c \in ClaimName : theirs[c] # NoValue => mine[c] = theirs[c]

LEMMA SaveClaims ==
  ASSUME ClaimInv, HeldInv, NEW p \in Process, Fresh(proc[p], row), Save(p)
  PROVE  LET q == proc[p] IN
         /\ \A w \in Waiting : row'[w].claims = row[w].claims
         /\ \A a \in Account :
              row'[a].claims = IF q.phase = "give" /\ a = q.own
                               THEN ClaimsJoined(row[a].claims, row[q.other].claims)
                               ELSE row[a].claims
<1> DEFINE q == proc[p]
           t == Target(q)
<1>1. /\ q.phase \in {"fail", "spend", "give", "void", "clear"}
      /\ q.own \in Account /\ t \in Id
      /\ row' = [row EXCEPT ![t] = Patched(q, row[t])]
  BY SaveInFresh
<1>2. row \in [Id -> Row] /\ row[t] \in Row /\ Account \subseteq Id /\ Waiting \subseteq Id
      /\ q \in ProcessState /\ RequestTyped(q)
  BY <1>1 DEF ClaimInv, TypeOK, Id
<1>3. CASE q.phase = "give"
  <2> DEFINE joined == ClaimsJoined(q.ownRow.claims, q.otherRow.claims)
             mail == IF q.ownRow.email = "none"
                     THEN IF q.secret \in Code THEN "unproven" ELSE "proven"
                     ELSE row[t].email
             next == IF joined # q.ownRow.claims THEN joined ELSE row[t].claims
  <2>1. t = q.own /\ t \in Account
    BY <1>1, <1>3 DEF Target
  <2>2. q.ownRow = row[t] /\ q.otherRow.claims = row[q.other].claims
    BY <1>3, <2>1 DEF Fresh
  <2>3. Patched(q, row[t]) = [row[t] EXCEPT !.claims = next, !.email = mail]
    BY <1>3, Zenon DEF Patched
  <2> HIDE DEF mail
  <2>4. next = ClaimsJoined(row[t].claims, row[q.other].claims)
    BY <2>2
  <2> HIDE DEF next
  <2>5. row'[t].claims = next
    BY <1>1, <1>2, <2>3 DEF Row
  <2> QED  BY <1>1, <1>2, <1>3, <2>1, <2>4, <2>5, ClaimConstants
<1>4. CASE q.phase # "give"
  <2>1. row'[t].claims = row[t].claims
    <3>1. CASE q.phase = "fail"
      <4> DEFINE n == CountInWindow(q.ownRow, q.moment) + 1
                 m == IF CountInWindow(q.ownRow, q.moment) = 0 THEN q.moment ELSE row[t].since
      <4>1. Patched(q, row[t]) = [row[t] EXCEPT !.attempts = n, !.since = m]
        BY <3>1, Zenon DEF Patched
      <4> HIDE DEF n, m
      <4> QED  BY <1>1, <1>2, <4>1 DEF Row
    <3>2. CASE q.phase = "clear"
      <4>1. Patched(q, row[t]) = [row[t] EXCEPT !.attempts = 0]
        BY <3>2, Zenon DEF Patched
      <4> QED  BY <1>1, <1>2, <4>1 DEF Row
    <3>3. CASE q.phase = "spend"
      <4>1. Patched(q, row[t]) = [row[t] EXCEPT !.secret = NoSecret]
        BY <3>3, Zenon DEF Patched
      <4> QED  BY <1>1, <1>2, <4>1 DEF Row
    <3>4. CASE q.phase = "void"
      <4>1. Patched(q, row[t]) = [row[t] EXCEPT !.status = "void"]
        BY <3>4, Zenon DEF Patched
      <4> QED  BY <1>1, <1>2, <4>1 DEF Row
    <3> QED  BY <1>1, <1>4, <3>1, <3>2, <3>3, <3>4
  <2> QED  BY <1>1, <1>2, <1>4, <2>1
<1> QED  BY <1>3, <1>4

LEMMA JoinKeeps ==
  ASSUME NEW mine \in Claims, NEW theirs \in Claims, NEW others \in Claims
  PROVE  /\ Keeps(mine, others) => Keeps(ClaimsJoined(mine, theirs), others)
         /\ ~ClaimsConflict(mine, theirs) => Keeps(ClaimsJoined(mine, theirs), theirs)
BY DEF Keeps, ClaimsJoined, ClaimsConflict, Claims

TakenInv == OnlyRedeems => \A join \in taken : Keeps(row[join[1]].claims, row[join[2]].claims)

LEMMA TakenNext ==
  ClaimInv /\ HeldInv /\ FreshInv /\ TakenInv /\ [Next]_vars => TakenInv'
<1> SUFFICES ASSUME ClaimInv, HeldInv, FreshInv, TakenInv, [Next]_vars PROVE TakenInv'
  OBVIOUS
<1> SUFFICES ASSUME OnlyRedeems,
                    NEW a \in Account, NEW w \in Waiting, <<a, w>> \in taken'
             PROVE  Keeps(row'[a].claims, row'[w].claims)
  <2>1. OnlyRedeems' => OnlyRedeems
    BY DEF OnlyRedeems, Next, vars, conditions
  <2>2. ClaimInv'
    BY ClaimNextKeeps
  <2> QED  BY <2>1, <2>2 DEF TakenInv, ClaimInv, TypeOK
<1>1. /\ \A p \in Process : Fresh(proc[p], row)
      /\ <<a, w>> \in taken => Keeps(row[a].claims, row[w].claims)
  BY DEF FreshInv, TakenInv
<1>2. /\ row \in [Id -> Row] /\ Account \subseteq Id /\ Waiting \subseteq Id
      /\ row[a].claims \in Claims /\ row[w].claims \in Claims
  BY DEF ClaimInv, TypeOK, Id, Row
<1>3. ASSUME NEW p \in Process, proc[p].phase = "give"
      PROVE  LET q == proc[p] IN
             /\ q.own \in Account /\ q.other \in Waiting
             /\ q.ownRow.claims = row[q.own].claims /\ q.otherRow.claims = row[q.other].claims
             /\ ~ClaimsConflict(row[q.own].claims, row[q.other].claims)
             /\ row[q.own].claims \in Claims /\ row[q.other].claims \in Claims
  <2>1. RequestTyped(proc[p])
    BY DEF ClaimInv
  <2>2. proc[p].own \in Account /\ proc[p].other \in Waiting
    BY <1>3, <2>1 DEF RequestTyped, PhaseFitsOperation, Joins, FromWaiting
  <2>3. /\ proc[p].ownRow.claims = row[proc[p].own].claims
        /\ proc[p].otherRow.claims = row[proc[p].other].claims
        /\ ~ClaimsConflict(row[proc[p].own].claims, row[proc[p].other].claims)
    BY <1>1, <1>3 DEF Fresh
  <2> QED  BY <1>2, <2>2, <2>3 DEF Row
<1>4. CASE UNCHANGED <<row, taken>>
  BY <1>1, <1>4
<1>5. ASSUME NEW p \in Process, Save(p) PROVE Keeps(row'[a].claims, row'[w].claims)
  <2> DEFINE q == proc[p]
  <2>1. /\ row'[w].claims = row[w].claims
        /\ row'[a].claims = IF q.phase = "give" /\ a = q.own
                            THEN ClaimsJoined(row[a].claims, row[q.other].claims)
                            ELSE row[a].claims
    BY <1>1, <1>5, SaveClaims
  <2>2. <<a, w>> \in taken \/ (q.phase = "give" /\ a = q.own /\ w = q.other)
    BY <1>5 DEF Save
  <2>3. CASE q.phase = "give" /\ a = q.own
    BY <1>1, <1>2, <1>3, <2>1, <2>2, <2>3, JoinKeeps
  <2>4. CASE ~(q.phase = "give" /\ a = q.own)
    BY <1>1, <2>1, <2>2, <2>4
  <2> QED  BY <2>3, <2>4
<1>6. ASSUME NEW p \in Process, GiveNothing(p) PROVE Keeps(row'[a].claims, row'[w].claims)
  <2> DEFINE q == proc[p]
  <2>1. UNCHANGED row /\ q.phase = "give"
        /\ ClaimsJoined(q.ownRow.claims, q.otherRow.claims) = q.ownRow.claims
    BY <1>6 DEF GiveNothing, NothingToGive
  <2>2. <<a, w>> \in taken \/ (a = q.own /\ w = q.other)
    BY <1>6 DEF GiveNothing
  <2>3. CASE a = q.own /\ w = q.other
    BY <1>2, <1>3, <2>1, <2>3, JoinKeeps
  <2> QED  BY <1>1, <2>1, <2>2, <2>3
<1> QED
  BY <1>4, <1>5, <1>6
     DEF Next, Step, Tick, Redeem, LockAccount, Count, LockWaiting, Recheck, Confirm,
         ConfirmRecheck, Login, Match, FirstLogin, AppClaim, Issue, Withdraw, Fetch, WriteFails,
         vars

(* However many redeems run at once, in however many workers, and          *)
(* whichever write fails: what one of them took from a waiting account is  *)
(* still in the person's row after the others wrote it (redeem, 259-261).  *)
THEOREM NoTakenClaimIsLost == Spec => []TakenClaimsAreKept
<1>1. Init => TakenInv
  BY DEF Init, TakenInv
<1>2. ClaimInv /\ TakenInv => TakenClaimsAreKept
  BY DEF ClaimInv, TypeOK, TakenInv, OnlyRedeems, TakenClaimsAreKept, Keeps, Row, Claims, Id
<1> QED
  BY <1>1, <1>2, ClaimInvariance, HeldInit, HeldNext, FreshInit, FreshNext, TakenNext, PTL DEF Spec

-----------------------------------------------------------------------------
(* Wrong secrets are counted in the row before they are answered, under    *)
(* the lock of the row.  Of an account with c attempts since s, answered   *)
(* wrong at the times w: the last c answers are those of the row's window, *)
(* the others came before it, and all but the last c + PerAccount - 1 of   *)
(* them belong to windows that were over before it opened.                 *)

Windowed(c, s, w, time) ==
  /\ c <= PerAccount /\ c <= Len(w) /\ (c = 0 => Len(w) = 0)
  /\ s <= time
  /\ \A i \in 1..Len(w) :
       /\ w[i] <= time
       /\ i <= Len(w) - c + 1 => w[i] <= s + RequestTime
       /\ i <= Len(w) - c - PerAccount + 1 => w[i] + Window <= s + RequestTime
  /\ \A i, j \in 1..Len(w) : j >= i + 2 * PerAccount - 1 => w[j] - w[i] >= Window - RequestTime

Counted(a) == Windowed(row[a].attempts, row[a].since, wrong[a], now)

(* A request that failed found room for one more, and none runs longer     *)
(* than RequestTime.                                                       *)
HasRoom(q) ==
  /\ q.phase = "fail" => CountInWindow(q.ownRow, q.moment) < PerAccount
  /\ q.op = "redeem" => q.moment <= now /\ now <= q.moment + RequestTime

Reliable == OnlyRedeems /\ ~storeMayFail

GuessInv ==
  Reliable => (\A a \in Account : Counted(a)) /\ (\A p \in Process : HasRoom(proc[p]))

LEMMA Appended ==
  ASSUME NEW w \in Seq(Nat), NEW time \in Nat
  PROVE  /\ Len(w) \in Nat /\ Len(Append(w, time)) = Len(w) + 1
         /\ \A i \in 1..Len(w) : Append(w, time)[i] = w[i] /\ w[i] \in Nat
         /\ Append(w, time)[Len(w) + 1] = time
OBVIOUS

LEMMA AttemptsConstants ==
  /\ PerAccount \in Nat \ {0} /\ Window \in Nat \ {0} /\ RequestTime \in Nat
BY ClaimConstants

(* One more wrong secret: in the window of the row while that lasts, else  *)
(* it opens the next one.                                                  *)
LEMMA WrongWindowed ==
  ASSUME NEW c \in Nat, NEW s \in Nat, NEW w \in Seq(Nat), NEW time \in Nat, NEW m \in Nat,
         Windowed(c, s, w, time), m <= time, time <= m + RequestTime,
         NEW k \in Nat, k = (IF c > 0 /\ m - s < Window THEN c ELSE 0), k < PerAccount,
         NEW t \in Nat, t = (IF k = 0 THEN m ELSE s)
  PROVE  Windowed(k + 1, t, Append(w, time), time)
<1> DEFINE v == Append(w, time)
           n == Len(w)
<1>1. /\ n \in Nat /\ Len(v) = n + 1 /\ v[n + 1] = time
      /\ \A i \in 1..n : v[i] = w[i] /\ w[i] \in Nat
  BY Appended
<1>2. /\ c <= PerAccount /\ c <= n /\ (c = 0 => n = 0) /\ s <= time
      /\ \A i \in 1..n : /\ w[i] <= time
                         /\ i <= n - c + 1 => w[i] <= s + RequestTime
                         /\ i <= n - c - PerAccount + 1 => w[i] + Window <= s + RequestTime
      /\ \A i, j \in 1..n : j >= i + 2 * PerAccount - 1 => w[j] - w[i] >= Window - RequestTime
  BY DEF Windowed
<1> HIDE DEF v, n
<1>3. k + 1 <= PerAccount /\ k + 1 <= n + 1 /\ t <= time
  BY <1>1, <1>2, AttemptsConstants
<1>4. ASSUME NEW i \in 1..(n + 1)
      PROVE  /\ v[i] \in Nat /\ v[i] <= time
             /\ i <= (n + 1) - (k + 1) + 1 => v[i] <= t + RequestTime
             /\ i <= (n + 1) - (k + 1) - PerAccount + 1 => v[i] + Window <= t + RequestTime
  <2>1. i = n + 1 \/ i \in 1..n
    BY <1>1
  <2>2. CASE i = n + 1
    <3>1. ~(i <= (n + 1) - (k + 1) - PerAccount + 1)
      BY <1>1, <2>2, AttemptsConstants
    <3>2. i <= (n + 1) - (k + 1) + 1 => k = 0
      BY <1>1, <2>2
    <3> QED  BY <1>1, <2>2, <3>1, <3>2
  <2>3. CASE i \in 1..n
    <3>1. v[i] = w[i] /\ w[i] \in Nat /\ w[i] <= time
      BY <1>1, <1>2, <2>3
    <3>2. CASE k = 0
      <4>1. c > 0 /\ m - s >= Window
        BY <1>1, <1>2, <2>3, <3>2, AttemptsConstants
      <4>2. i <= n - PerAccount + 1 => i <= n - c + 1
        BY <1>1, <1>2, <2>3, AttemptsConstants
      <4>3. i <= n - PerAccount + 1 => w[i] <= s + RequestTime
        BY <1>2, <2>3, <4>2
      <4> QED  BY <1>1, <3>1, <3>2, <4>1, <4>3, AttemptsConstants
    <3>3. CASE k # 0
      <4>1. k = c /\ t = s
        BY <3>3
      <4> QED  BY <1>1, <1>2, <2>3, <3>1, <4>1, AttemptsConstants
    <3> QED  BY <3>2, <3>3
  <2> QED  BY <2>1, <2>2, <2>3
<1>5. ASSUME NEW i \in 1..(n + 1), NEW j \in 1..(n + 1), j >= i + 2 * PerAccount - 1
      PROVE  v[j] - v[i] >= Window - RequestTime
  <2>1. i \in 1..n /\ v[i] = w[i] /\ w[i] \in Nat
    BY <1>1, <1>5, AttemptsConstants
  <2>2. CASE j = n + 1
    <3>1. i <= (n + 1) - (k + 1) - PerAccount + 1
      BY <1>1, <1>3, <1>5, <2>2, AttemptsConstants
    <3>2. v[i] + Window <= t + RequestTime
      BY <1>4, <3>1
    <3> QED  BY <1>1, <1>3, <2>1, <2>2, <3>2, AttemptsConstants
  <2>3. CASE j # n + 1
    BY <1>1, <1>2, <1>5, <2>1, <2>3
  <2> QED  BY <2>2, <2>3
<1> QED  BY <1>1, <1>3, <1>4, <1>5 DEF Windowed, v

(* A right one closes it, and time only widens it.                         *)
LEMMA RightWindowed ==
  ASSUME NEW s \in Nat, NEW time \in Nat, s <= time
  PROVE  Windowed(0, s, <<>>, time)
BY AttemptsConstants DEF Windowed

LEMMA LaterWindowed ==
  ASSUME NEW c \in Nat, NEW s \in Nat, NEW w \in Seq(Nat), NEW time \in Nat,
         Windowed(c, s, w, time)
  PROVE  Windowed(c, s, w, time + 1)
<1>1. \A i \in 1..Len(w) : w[i] \in Nat
  OBVIOUS
<1>2. s <= time + 1 /\ \A i \in 1..Len(w) : w[i] <= time + 1
  BY <1>1 DEF Windowed
<1> QED  BY <1>2 DEF Windowed

(* What a save does to the counts of its account.                          *)
LEMMA SaveCounts ==
  ASSUME ClaimInv, HeldInv, NEW p \in Process, Fresh(proc[p], row), Save(p)
  PROVE  LET q == proc[p]
             a == q.own
             k == CountInWindow(row[a], q.moment) IN
         /\ a \in Account /\ q.op = "redeem"
         /\ \A b \in Account : b # a => UNCHANGED <<row[b], wrong[b]>>
         /\ q.phase = "fail" =>
              /\ row'[a].attempts = k + 1
              /\ row'[a].since = IF k = 0 THEN q.moment ELSE row[a].since
              /\ wrong'[a] = Append(wrong[a], now)
              /\ q.ownRow = row[a]
         /\ q.phase = "clear" =>
              /\ row'[a].attempts = 0 /\ row'[a].since = row[a].since
              /\ wrong'[a] = <<>>
         /\ q.phase \notin {"fail", "clear"} =>
              /\ row'[a].attempts = row[a].attempts /\ row'[a].since = row[a].since
              /\ wrong'[a] = wrong[a]
<1> DEFINE q == proc[p]
           a == q.own
           t == Target(q)
           k == CountInWindow(row[a], q.moment)
<1>1. /\ q.phase \in {"fail", "spend", "give", "void", "clear"}
      /\ q.own \in Account /\ t \in Id /\ q.op = "redeem"
      /\ q.phase \in {"spend", "give", "void"} => q.other \in Waiting
      /\ row' = [row EXCEPT ![t] = Patched(q, row[t])]
      /\ CountOnSession(q)
  BY SaveInFresh DEF Save
<1>2. /\ row \in [Id -> Row] /\ row[t] \in Row /\ row[a] \in Row /\ a \in Id
      /\ Account \subseteq Id /\ Waiting \subseteq Id
      /\ wrong \in [Account -> Seq(Nat)]
  BY <1>1 DEF ClaimInv, TypeOK, Id
<1>3. /\ q.phase \in {"fail", "give", "clear"} => t = a
      /\ q.phase \in {"spend", "void"} => t \in Waiting /\ t # a
      /\ \A b \in Account : b # a => b # t
  BY <1>1, ClaimConstants DEF Target
<1>4. \A b \in Account : b # a => row'[b] = row[b]
  BY <1>1, <1>2, <1>3
<1>5. CASE q.phase = "fail"
  <2> DEFINE s == IF k = 0 THEN q.moment ELSE row[t].since
             m == k + 1
  <2>1. q.ownRow = row[a]
    BY <1>5 DEF Fresh
  <2>2. Patched(q, row[t]) =
          [row[t] EXCEPT !.attempts = CountInWindow(q.ownRow, q.moment) + 1,
                         !.since = IF CountInWindow(q.ownRow, q.moment) = 0 THEN q.moment ELSE @]
    BY <1>5, Zenon DEF Patched
  <2>3. Patched(q, row[t]) = [row[t] EXCEPT !.attempts = m, !.since = s]
    BY <2>1, <2>2
  <2>4. s = IF k = 0 THEN q.moment ELSE row[a].since
    BY <1>3, <1>5
  <2> HIDE DEF s, m
  <2>5. row'[t].attempts = m /\ row'[t].since = s
    BY <1>1, <1>2, <2>3 DEF Row
  <2>6. wrong' = [wrong EXCEPT ![a] = Append(@, now)]
    BY <1>1, <1>5, Zenon DEF CountOnSession
  <2>7. wrong'[a] = Append(wrong[a], now) /\ \A b \in Account : b # a => wrong'[b] = wrong[b]
    BY <1>1, <1>2, <2>6
  <2> QED  BY <1>1, <1>3, <1>4, <1>5, <2>1, <2>4, <2>5, <2>7 DEF m
<1>6. CASE q.phase = "clear"
  <2>1. Patched(q, row[t]) = [row[t] EXCEPT !.attempts = 0]
    BY <1>6, Zenon DEF Patched
  <2>2. row'[t].attempts = 0 /\ row'[t].since = row[t].since
    BY <1>1, <1>2, <2>1 DEF Row
  <2>3. wrong' = [wrong EXCEPT ![a] = <<>>]
    BY <1>1, <1>6, Zenon DEF CountOnSession
  <2>4. wrong'[a] = <<>> /\ \A b \in Account : b # a => wrong'[b] = wrong[b]
    BY <1>1, <1>2, <2>3
  <2> QED  BY <1>1, <1>3, <1>4, <1>6, <2>2, <2>4
<1>7. CASE q.phase \notin {"fail", "clear"}
  <2>1. UNCHANGED wrong
    BY <1>1, <1>7 DEF CountOnSession
  <2>2. row'[a].attempts = row[a].attempts /\ row'[a].since = row[a].since
    <3>1. CASE q.phase \in {"spend", "void"}
      BY <1>1, <1>2, <1>3, <3>1
    <3>2. CASE q.phase = "give"
      <4> DEFINE joined == ClaimsJoined(q.ownRow.claims, q.otherRow.claims)
                 c == IF joined # q.ownRow.claims THEN joined ELSE row[t].claims
                 e == IF q.ownRow.email = "none"
                      THEN IF q.secret \in Code THEN "unproven" ELSE "proven"
                      ELSE row[t].email
      <4>1. Patched(q, row[t]) = [row[t] EXCEPT !.claims = c, !.email = e]
        BY <3>2, Zenon DEF Patched
      <4> HIDE DEF c, e
      <4> QED  BY <1>1, <1>2, <1>3, <3>2, <4>1 DEF Row
    <3> QED  BY <1>1, <1>7, <3>1, <3>2
  <2> QED  BY <1>1, <1>4, <1>7, <2>1, <2>2
<1> QED  BY <1>5, <1>6, <1>7

LEMMA SaveCounted ==
  ASSUME ClaimInv, HeldInv, NEW p \in Process, Fresh(proc[p], row), HasRoom(proc[p]), Save(p),
         \A a \in Account : Counted(a)
  PROVE  \A a \in Account : Counted(a)'
<1> DEFINE q == proc[p]
<1> PICK own \in Account : own = q.own
  BY SaveInFresh
<1> DEFINE k == CountInWindow(row[own], q.moment)
           c == row[own].attempts
           s == row[own].since
           w == wrong[own]
<1>1. /\ \A b \in Account : b # own => UNCHANGED <<row[b], wrong[b]>>
      /\ q.op = "redeem"
      /\ q.phase = "fail" =>
           /\ row'[own].attempts = k + 1
           /\ row'[own].since = IF k = 0 THEN q.moment ELSE s
           /\ wrong'[own] = Append(w, now)
           /\ q.ownRow = row[own]
      /\ q.phase = "clear" =>
           /\ row'[own].attempts = 0 /\ row'[own].since = s
           /\ wrong'[own] = <<>>
      /\ q.phase \notin {"fail", "clear"} =>
           /\ row'[own].attempts = c /\ row'[own].since = s
           /\ wrong'[own] = w
  BY SaveCounts
<1>2. /\ c \in Nat /\ s \in Nat /\ w \in Seq(Nat) /\ now \in Nat /\ now' = now
      /\ q.moment \in Nat /\ Windowed(c, s, w, now)
  <2>1. row[own] \in Row /\ own \in Id
    BY DEF ClaimInv, TypeOK, Id
  <2> QED  BY <2>1, ClaimConstants DEF ClaimInv, TypeOK, ProcessState, Save, Row, Counted
<1>3. ASSUME NEW b \in Account, b # own PROVE Counted(b)'
  <2>1. row'[b] = row[b] /\ wrong'[b] = wrong[b] /\ Counted(b)
    BY <1>1, <1>3
  <2> QED  BY <1>2, <2>1 DEF Counted
<1>4. Counted(own)'
  <2>1. CASE q.phase = "fail"
    <3>1. k < PerAccount /\ q.moment <= now /\ now <= q.moment + RequestTime
      BY <1>1, <2>1 DEF HasRoom
    <3>2. k = (IF c > 0 /\ q.moment - s < Window THEN c ELSE 0) /\ k \in Nat
      BY <1>2 DEF CountInWindow
    <3> DEFINE t == IF k = 0 THEN q.moment ELSE s
    <3>3. t \in Nat
      BY <1>2
    <3> HIDE DEF k, c, s, w
    <3>4. Windowed(k + 1, t, Append(w, now), now)
      BY <1>2, <3>1, <3>2, <3>3, WrongWindowed
    <3> QED  BY <1>1, <1>2, <2>1, <3>4 DEF Counted
  <2>2. CASE q.phase = "clear"
    <3>1. s <= now
      BY <1>2 DEF Windowed
    <3>2. Windowed(0, s, <<>>, now)
      BY <1>2, <3>1, RightWindowed
    <3> QED  BY <1>1, <1>2, <2>2, <3>2 DEF Counted
  <2>3. CASE q.phase \notin {"fail", "clear"}
    BY <1>1, <1>2, <2>3 DEF Counted
  <2> QED  BY <2>1, <2>2, <2>3
<1> QED  BY <1>3, <1>4

(* Only a count begins a failure, and only below the limit.                *)
LEMMA RoomKept ==
  ASSUME ClaimInv, NEW p \in Process, NEW q, Become(p, q), HasRoom(q),
         UNCHANGED now, \A r \in Process : HasRoom(proc[r])
  PROVE  \A r \in Process : HasRoom(proc[r])'
<1>1. proc' = [proc EXCEPT ![p] = q] /\ DOMAIN proc = Process
  BY DEF Become, ClaimInv, TypeOK
<1>2. \A r \in Process : proc'[r] = IF r = p THEN q ELSE proc[r]
  BY <1>1
<1> QED  BY <1>2 DEF HasRoom

LEMMA GoRoom ==
  ASSUME ClaimInv, NEW p \in Process, UNCHANGED now, \A r \in Process : HasRoom(proc[r]),
         \/ End(p)
         \/ \E phase : phase # "fail" /\ Go(p, phase)
  PROVE  \A r \in Process : HasRoom(proc[r])'
<1>1. CASE End(p)
  <2>1. HasRoom(Idle)
    BY DEF HasRoom, Idle
  <2> QED  BY <1>1, <2>1, RoomKept DEF End
<1>2. ASSUME NEW phase, phase # "fail", Go(p, phase) PROVE \A r \in Process : HasRoom(proc[r])'
  <2> DEFINE new == [proc[p] EXCEPT !.phase = phase, !.fetched = NoRow]
  <2>1. proc[p] \in ProcessState
    BY DEF ClaimInv, TypeOK
  <2>2. /\ new.phase = phase /\ new.op = proc[p].op /\ new.moment = proc[p].moment
        /\ Become(p, new)
    BY <1>2, <2>1 DEF Go, ProcessState
  <2> HIDE DEF new
  <2>3. HasRoom(new)
    BY <1>2, <2>2 DEF HasRoom
  <2> QED  BY <2>2, <2>3, RoomKept
<1> QED  BY <1>1, <1>2

LEMMA RoomNext ==
  ASSUME ClaimInv, FreshInv, Reliable, Step, \A r \in Process : HasRoom(proc[r])
  PROVE  \A r \in Process : HasRoom(proc[r])'
<1>1. \A p \in Process : /\ proc[p] \in ProcessState /\ RequestTyped(proc[p])
                         /\ Fresh(proc[p], row) /\ HasRoom(proc[p])
  BY DEF ClaimInv, TypeOK, FreshInv, Reliable
<1>2. ASSUME NEW p \in Process, LockAccount(p) \/ LockWaiting(p)
      PROVE  \A r \in Process : HasRoom(proc[r])'
  BY <1>2, GoRoom DEF LockAccount, LockWaiting
<1>3. ASSUME NEW p \in Process, Save(p) \/ GiveNothing(p) PROVE \A r \in Process : HasRoom(proc[r])'
  BY <1>3, GoRoom, ContinueSays DEF Save, GiveNothing
<1>4. ASSUME NEW p \in Process, NEW a, NEW j, NEW s, Redeem(p, a, j, s)
      PROVE  \A r \in Process : HasRoom(proc[r])'
  <2> DEFINE new == [Idle EXCEPT !.op = "redeem", !.phase = "lockAccount", !.own = a,
                                 !.session = j, !.secret = s, !.moment = now,
                                 !.ownRow = row[a]]
  <2>1. new.phase = "lockAccount" /\ new.moment = now
    BY DEF Idle
  <2>2. Become(p, new) /\ UNCHANGED now
    BY <1>4 DEF Redeem, Begin
  <2>3. now \in Nat
    BY ClaimConstants DEF ClaimInv, TypeOK
  <2> HIDE DEF new
  <2>4. HasRoom(new)
    BY <2>1, <2>3, AttemptsConstants DEF HasRoom
  <2> QED  BY <2>2, <2>4, RoomKept
<1>5. ASSUME NEW p \in Process, Count(p) PROVE \A r \in Process : HasRoom(proc[r])'
  <2> DEFINE q == proc[p]
             failing == [q EXCEPT !.phase = "fail", !.ownRow = row[q.own]]
  <2>1. CASE End(p)
    BY <1>5, <2>1, GoRoom DEF Count
  <2>2. ASSUME NEW w, Become(p, [q EXCEPT !.phase = "lockWaiting", !.other = w, !.ownRow = row[q.own]])
        PROVE  \A r \in Process : HasRoom(proc[r])'
    <3> DEFINE new == [q EXCEPT !.phase = "lockWaiting", !.other = w, !.ownRow = row[q.own]]
    <3>1. /\ new.phase = "lockWaiting" /\ new.op = q.op /\ new.moment = q.moment
          /\ Become(p, new) /\ UNCHANGED now
      BY <1>1, <1>5, <2>2 DEF ProcessState, Count
    <3> HIDE DEF new
    <3>2. HasRoom(new)
      BY <1>1, <3>1 DEF HasRoom
    <3> QED  BY <3>1, <3>2, RoomKept
  <2>3. CASE ~Locked(p) /\ Become(p, failing)
    <3>1. /\ failing.ownRow = row[q.own] /\ failing.op = q.op /\ failing.moment = q.moment
          /\ Become(p, failing) /\ UNCHANGED now
      BY <1>1, <1>5, <2>3 DEF ProcessState, Count
    <3> HIDE DEF failing
    <3>2. q.own \in Account /\ row[q.own] \in Row /\ PerAccount \in Nat
      BY <1>1, <1>5, ClaimConstants
         DEF Count, RequestTyped, PhaseFitsOperation, Joins, ClaimInv, TypeOK, Id
    <3>3. CountInWindow(row[q.own], q.moment) \in Nat
      BY <3>2 DEF CountInWindow, Row
    <3>4. CountInWindow(row[q.own], q.moment) < PerAccount
      BY <2>3, <3>2, <3>3 DEF Locked
    <3>5. HasRoom(failing)
      BY <1>1, <3>1, <3>4 DEF HasRoom
    <3> QED  BY <3>1, <3>5, RoomKept
  <2> QED  BY <1>5, <2>1, <2>2, <2>3 DEF Count
<1>6. ASSUME NEW p \in Process, Recheck(p) PROVE \A r \in Process : HasRoom(proc[r])'
  <2> DEFINE q == proc[p]
             new == [q EXCEPT !.phase = "spend", !.otherRow = row[q.other]]
  <2>1. new.phase = "spend" /\ new.op = q.op /\ new.moment = q.moment /\ UNCHANGED now
    BY <1>1, <1>6 DEF ProcessState, Recheck
  <2>2. End(p) \/ Become(p, new)
    BY <1>6 DEF Recheck
  <2> HIDE DEF new
  <2>3. HasRoom(new)
    BY <1>1, <2>1 DEF HasRoom
  <2> QED  BY <2>1, <2>2, <2>3, GoRoom, RoomKept
<1>7. ASSUME NEW p \in Process, Fetch(p) PROVE \A r \in Process : HasRoom(proc[r])'
  <2> DEFINE q == proc[p]
             new == [q EXCEPT !.fetched = row[Target(q)]]
  <2>1. /\ new.phase = q.phase /\ new.ownRow = q.ownRow /\ new.op = q.op
        /\ new.moment = q.moment /\ UNCHANGED now
    BY <1>1, <1>7 DEF ProcessState, Fetch
  <2>2. Become(p, new)
    BY <1>7 DEF Fetch
  <2> HIDE DEF new
  <2>3. HasRoom(new)
    BY <1>1, <2>1 DEF HasRoom
  <2> QED  BY <2>1, <2>2, <2>3, RoomKept
<1>8. CASE Tick
  <2> SUFFICES ASSUME NEW r \in Process PROVE HasRoom(proc[r])'
    OBVIOUS
  <2>1. now' = now + 1 /\ proc' = proc /\ (proc[r].op = "redeem" => now + 1 - proc[r].moment <= RequestTime)
    BY <1>8 DEF Tick
  <2>2. now \in Nat /\ proc[r].moment \in Nat /\ RequestTime \in Nat
    BY ClaimConstants DEF ClaimInv, TypeOK, ProcessState
  <2> QED  BY <1>1, <2>1, <2>2 DEF HasRoom
<1> QED
  BY <1>1, <1>2, <1>3, <1>4, <1>5, <1>6, <1>7, <1>8, OthersNeverRun DEF Step, Reliable, WriteFails

LEMMA TickCounted ==
  ASSUME ClaimInv, Tick, \A a \in Account : Counted(a)
  PROVE  \A a \in Account : Counted(a)'
<1> SUFFICES ASSUME NEW a \in Account PROVE Counted(a)'
  OBVIOUS
<1>1. /\ row[a].attempts \in Nat /\ row[a].since \in Nat /\ wrong[a] \in Seq(Nat) /\ now \in Nat
      /\ Counted(a)
  BY ClaimConstants DEF ClaimInv, TypeOK, Id, Row
<1>2. now' = now + 1 /\ UNCHANGED <<row, wrong>>
  BY DEF Tick
<1> QED  BY <1>1, <1>2, LaterWindowed DEF Counted

LEMMA GuessNext == ClaimInv /\ HeldInv /\ FreshInv /\ GuessInv /\ [Next]_vars => GuessInv'
<1> SUFFICES ASSUME ClaimInv, HeldInv, FreshInv, GuessInv, [Next]_vars PROVE GuessInv'
  OBVIOUS
<1>0. Reliable' => Reliable
  BY DEF Reliable, OnlyRedeems, Next, vars, conditions
<1> SUFFICES ASSUME Reliable PROVE GuessInv'
  BY <1>0 DEF GuessInv
<1>1. /\ \A p \in Process : Fresh(proc[p], row) /\ HasRoom(proc[p])
      /\ \A a \in Account : Counted(a)
  BY DEF FreshInv, GuessInv, Reliable
<1>2. \A p \in Process : HasRoom(proc[p])'
  <2>1. CASE Step
    BY <1>1, <2>1, RoomNext
  <2>2. CASE UNCHANGED vars
    BY <1>1, <2>2 DEF vars, HasRoom
  <2> QED  BY <2>1, <2>2 DEF Next
<1>3. \A a \in Account : Counted(a)'
  <2>1. CASE Tick
    BY <1>1, <2>1, TickCounted
  <2>2. ASSUME NEW p \in Process, Save(p) PROVE \A a \in Account : Counted(a)'
    BY <1>1, <2>2, SaveCounted
  <2>3. CASE UNCHANGED <<now, row, wrong>>
    BY <1>1, <2>3 DEF Counted
  <2>4. ASSUME NEW p \in Process, WriteFails(p) PROVE FALSE
    BY <2>4 DEF WriteFails, Reliable
  <2> QED
    BY <2>1, <2>2, <2>3, <2>4
       DEF Next, Step, Redeem, LockAccount, Count, LockWaiting, Recheck, Confirm, ConfirmRecheck,
           Login, Match, FirstLogin, AppClaim, Issue, Withdraw, Fetch, GiveNothing, vars
<1> QED  BY <1>2, <1>3 DEF GuessInv

LEMMA GuessInit == Init => GuessInv
<1> SUFFICES ASSUME Init PROVE (\A a \in Account : Counted(a)) /\ (\A p \in Process : HasRoom(proc[p]))
  BY DEF GuessInv
<1>1. \A p \in Process : HasRoom(proc[p])
  BY DEF Init, HasRoom, Idle
<1>2. ASSUME NEW a \in Account PROVE Counted(a)
  <2>1. row[a].attempts = 0 /\ row[a].since = 0 /\ now = 0 /\ wrong[a] = <<>>
    BY DEF Init, Id
  <2> QED  BY <2>1, RightWindowed DEF Counted
<1> QED  BY <1>1, <1>2

(* However many sessions guess for one account and however parallel, in    *)
(* however many workers: as long as its row can be written, twice PER_ACCOUNT *)
(* wrong secrets without a right one are spread over a whole window, less  *)
(* the time one request takes (ClaimAttempts, 117-124 and 167-178; redeem, *)
(* 245-270).                                                               *)
THEOREM WrongSecretsAreBounded == Spec => []GuessesAreBounded
<1>1. ClaimInv /\ GuessInv => GuessesAreBounded
  <2> SUFFICES ASSUME ClaimInv, GuessInv, Reliable,
                      NEW a \in DOMAIN wrong, NEW i \in DOMAIN wrong[a], NEW j \in DOMAIN wrong[a],
                      j >= i + 2 * PerAccount - 1
               PROVE  wrong[a][j] - wrong[a][i] >= Window - RequestTime
    BY DEF GuessesAreBounded, Reliable, OnlyRedeems
  <2>1. a \in Account /\ wrong[a] \in Seq(Nat)
    BY DEF ClaimInv, TypeOK
  <2>2. i \in 1..Len(wrong[a]) /\ j \in 1..Len(wrong[a])
    BY <2>1
  <2> QED  BY <2>1, <2>2 DEF GuessInv, Counted, Windowed
<1> QED
  BY <1>1, ClaimInvariance, HeldInit, HeldNext, FreshInit, FreshNext, GuessInit, GuessNext, PTL
     DEF Spec
=============================================================================
