------------------------ MODULE PortalSessionProofs ------------------------
(***************************************************************************)
(* What holds of the portal's sessions for any number of workers, tokens,  *)
(* tenants and branches, with or without store failures.  The invariant    *)
(* adds two things to the properties: a chain of rotations always leads    *)
(* back to a login with the same confinement, and a token being minted     *)
(* belongs to the one request minting it until a client receives it.       *)
(***************************************************************************)
EXTENDS PortalSession, FiniteSetTheorems, TLAPS

(* Every bearer inherits from the login that began its chain.              *)
Chains ==
  \A j \in minted :
    /\ token[j].login \in minted
    /\ token[token[j].login].login = token[j].login
    /\ token[j].org = token[token[j].login].org
    /\ token[j].use = token[token[j].login].use
    /\ token[j].authTime = token[token[j].login].authTime
    /\ token[j].restricted = token[token[j].login].restricted
    /\ token[j].restricted => token[j].branch = token[token[j].login].branch
    /\ token[j].use = "" => token[j].exp < token[j].authTime + MaxLifetime + IdleTimeout

(* A request that rotates or logs out works for a minted account bearer.   *)
Subjects ==
  \A r \in Request :
    req[r].subject # NoJti /\ req[r].phase # "recordSwept" =>
      /\ req[r].subject \in minted
      /\ token[req[r].subject].use = ""
      /\ req[r].phase = "rotate" /\ token[req[r].subject].restricted =>
           req[r].branch = token[req[r].subject].branch

MintingPhase == {"store", "recordLogin", "retire", "recordRefresh"}
Minting(r) == req[r].phase \in MintingPhase

(* A token being minted is nobody else's, and has no row before its own.   *)
FreshTokens ==
  \A r \in Request : Minting(r) =>
    /\ req[r].fresh \in minted
    /\ req[r].fresh \notin held
    /\ req[r].phase = "store" => row[req[r].fresh] = "absent"
    /\ \A s \in Request : s # r /\ Minting(s) => req[s].fresh # req[r].fresh

(* The phases that act on a bearer have one.                               *)
ActingPhase == {"rotate", "retire", "recordRefresh", "logout", "recordLogout", "recordSwept"}
PhasesHaveSubjects == \A r \in Request : req[r].phase \in ActingPhase => req[r].subject # NoJti

(* A logout about to be recorded has happened.                             *)
LogoutPhase == {"recordLogout", "recordSwept"}
LogoutsHappened ==
  \A r \in Request : req[r].phase \in LogoutPhase => row[req[r].subject] = "revoked"

IInv == /\ TypeOK /\ Chains /\ Subjects /\ FreshTokens /\ PhasesHaveSubjects
        /\ LogoutsHappened /\ LogoutAuditTrue

(* What the claims of a new token owe to its login.                        *)
Descends(j, claims) ==
  /\ claims \in Claims
  /\ \/ claims.login = j
     \/ /\ claims.login \in minted
        /\ token[claims.login].login = claims.login
        /\ claims.org = token[claims.login].org
        /\ claims.use = token[claims.login].use
        /\ claims.authTime = token[claims.login].authTime
        /\ claims.restricted = token[claims.login].restricted
        /\ claims.restricted => claims.branch = token[claims.login].branch
  /\ claims.use = "" => claims.exp < claims.authTime + MaxLifetime + IdleTimeout

(* What a request may become when it does not mint.                        *)
Acceptable(state) ==
  /\ state \in RequestState
  /\ state.subject # NoJti /\ state.phase # "recordSwept" =>
       /\ state.subject \in minted
       /\ token[state.subject].use = ""
       /\ state.phase = "rotate" /\ token[state.subject].restricted =>
            state.branch = token[state.subject].branch
  /\ state.phase \in ActingPhase => state.subject # NoJti

(* A request that is minting goes on with its token until it answers.      *)
GoesOn(r, state) ==
  /\ held' = held \/ (Minting(r) /\ held' = held \cup {req[r].fresh})
  /\ state.phase \in MintingPhase =>
       /\ state.phase # "store" /\ held' = held
       /\ Minting(r) /\ state.fresh = req[r].fresh

(* Rows go from absent to active, the fresh token's own, and from active   *)
(* to revoked.                                                             *)
RowsKept(r) ==
  /\ row' \in [Jti -> {"absent", "active", "revoked"}]
  /\ \A k \in Jti : row[k] = "revoked" => row'[k] = "revoked"
  /\ \A k \in Jti : row[k] = "absent" => row'[k] = "absent" \/ (Minting(r) /\ k = req[r].fresh)

(* The trail grows by at most one record, which is true.                   *)
TrailKept ==
  \/ audit' = audit
  \/ \E verb \in {"login", "refresh", "logout"}, j \in Jti :
       /\ audit' = audit \cup {<<verb, j>>}
       /\ verb = "logout" => row'[j] = "revoked"

LEMMA InitHolds == Init => IInv
<1> SUFFICES ASSUME Init PROVE IInv
  OBVIOUS
<1>1. /\ NoClaims \in Claims /\ Idle \in RequestState
      /\ Idle.phase = "idle" /\ Idle.subject = NoJti
  BY DEF NoClaims, Claims, Idle, RequestState, Phase, Use
<1>2. TypeOK
  BY <1>1 DEF Init, TypeOK
<1>3. Chains /\ LogoutAuditTrue
  BY DEF Init, Chains, LogoutAuditTrue
<1>4. Subjects /\ FreshTokens /\ PhasesHaveSubjects /\ LogoutsHappened
  BY <1>1 DEF Init, Subjects, FreshTokens, PhasesHaveSubjects, LogoutsHappened, Minting,
              MintingPhase, ActingPhase, LogoutPhase
<1> QED  BY <1>2, <1>3, <1>4 DEF IInv

(* Minting one more token: its claims are well formed, it descends from a  *)
(* login, and the request that mints it is the only one to know it.        *)
LEMMA MintKeeps ==
  ASSUME IInv,
         NEW r \in Request, NEW j \in Jti, NEW claims,
         Mint(r, j, claims), Descends(j, claims),
         req[r].phase \in {"idle", "rotate"}
  PROVE  IInv'
<1>1. claims \in Claims
  BY DEF Descends
<1>2. /\ minted' = minted \cup {j} /\ j \notin minted /\ minted \subseteq Jti
      /\ token' = [token EXCEPT ![j] = claims]
      /\ token \in [Jti -> Claims]
      /\ UNCHANGED <<now, row, held, audit, accident>>
      /\ held \subseteq minted
      /\ row[j] = "absent"
  BY DEF IInv, TypeOK, Mint
<1>3. /\ req \in [Request -> RequestState]
      /\ req' \in [Request -> RequestState]
      /\ req'[r].phase = "store" /\ req'[r].fresh = j
      /\ req'[r].subject = req[r].subject
      /\ \A s \in Request \ {r} : req'[s] = req[s]
  BY DEF IInv, TypeOK, Mint, Become, RequestState, Phase
<1>4. TypeOK'
  BY <1>1, <1>2, <1>3 DEF IInv, TypeOK
<1>5. token'[j] = claims /\ \A k \in minted : token'[k] = token[k]
  BY <1>2
<1>6. Chains'
  <2> SUFFICES ASSUME NEW k \in minted'
               PROVE  /\ token'[k].login \in minted'
                      /\ token'[token'[k].login].login = token'[k].login
                      /\ token'[k].org = token'[token'[k].login].org
                      /\ token'[k].use = token'[token'[k].login].use
                      /\ token'[k].authTime = token'[token'[k].login].authTime
                      /\ token'[k].restricted = token'[token'[k].login].restricted
                      /\ token'[k].restricted => token'[k].branch = token'[token'[k].login].branch
                      /\ token'[k].use = "" => token'[k].exp < token'[k].authTime + MaxLifetime + IdleTimeout
    BY DEF Chains
  <2>1. CASE k \in minted
    BY <2>1, <1>2, <1>5 DEF IInv, Chains
  <2>2. CASE k = j /\ claims.login = j
    BY <2>2, <1>2, <1>5 DEF Descends
  <2>3. CASE k = j /\ claims.login \in minted
    BY <2>3, <1>2, <1>5 DEF Descends
  <2> QED  BY <2>1, <2>2, <2>3, <1>2 DEF Descends
<1>7. Subjects'
  <2> SUFFICES ASSUME NEW s \in Request, req'[s].subject # NoJti, req'[s].phase # "recordSwept"
               PROVE  /\ req'[s].subject \in minted'
                      /\ token'[req'[s].subject].use = ""
                      /\ req'[s].phase = "rotate" /\ token'[req'[s].subject].restricted =>
                           req'[s].branch = token'[req'[s].subject].branch
    BY DEF Subjects
  <2>1. req'[s].subject = req[s].subject /\ req[s].phase # "recordSwept"
    BY <1>3
  <2>2. /\ req[s].subject \in minted
        /\ token[req[s].subject].use = ""
        /\ token'[req[s].subject] = token[req[s].subject]
    BY <2>1, <1>5 DEF IInv, Subjects
  <2>3. CASE s = r
    BY <2>1, <2>2, <2>3, <1>2, <1>3
  <2>4. CASE s # r
    BY <2>2, <2>4, <1>2, <1>3 DEF IInv, Subjects
  <2> QED  BY <2>3, <2>4
<1>8. FreshTokens'
  <2>1. \A s \in Request \ {r} : Minting(s) => req[s].fresh \in minted
    BY DEF IInv, FreshTokens
  <2> QED  BY <2>1, <1>2, <1>3 DEF IInv, FreshTokens, Minting, MintingPhase
<1>9. PhasesHaveSubjects' /\ LogoutsHappened'
  BY <1>2, <1>3 DEF IInv, PhasesHaveSubjects, LogoutsHappened, ActingPhase, LogoutPhase
<1>10. LogoutAuditTrue'
  BY <1>2 DEF IInv, LogoutAuditTrue
<1> QED  BY <1>4, <1>6, <1>7, <1>8, <1>9, <1>10 DEF IInv

(* A step that signs nothing.                                              *)
LEMMA StepKeeps ==
  ASSUME IInv,
         NEW r \in Request, NEW state, Become(r, state), Acceptable(state), GoesOn(r, state),
         state.phase \in LogoutPhase => row'[state.subject] = "revoked",
         UNCHANGED <<now, minted, token>>,
         RowsKept(r), TrailKept, accident' \subseteq Jti
  PROVE  IInv'
<1>1. /\ row' \in [Jti -> {"absent", "active", "revoked"}]
      /\ \A k \in Jti : row[k] = "revoked" => row'[k] = "revoked"
      /\ \A k \in Jti : row[k] = "absent" => row'[k] = "absent" \/ (Minting(r) /\ k = req[r].fresh)
  BY DEF RowsKept
<1>2. /\ req \in [Request -> RequestState]
      /\ req' \in [Request -> RequestState]
      /\ req'[r] = state
      /\ \A s \in Request \ {r} : req'[s] = req[s]
      /\ minted \subseteq Jti
  BY DEF IInv, TypeOK, Become, Acceptable
<1>3. /\ \A s \in Request \ {r} : Minting(s) => req[s].fresh \notin held'
      /\ held' \subseteq minted
      /\ Minting(r) => req[r].fresh \in minted /\ req[r].fresh \notin held
  BY DEF IInv, TypeOK, FreshTokens, GoesOn
<1>4. TypeOK'
  <2>1. audit' \subseteq {"login", "refresh", "logout"} \X Jti
    BY DEF IInv, TypeOK, TrailKept
  <2>2. \A k \in Jti \ minted : row'[k] = "absent"
    BY <1>1, <1>3 DEF IInv, TypeOK
  <2> QED BY <1>1, <1>2, <1>3, <2>1, <2>2 DEF IInv, TypeOK
<1>5. Chains'
  BY DEF IInv, Chains
<1>6. Subjects' /\ PhasesHaveSubjects'
  BY <1>2 DEF IInv, Subjects, PhasesHaveSubjects, Acceptable
<1>7. FreshTokens'
  <2>1. \A s \in Request \ {r} : Minting(s)' = Minting(s)
    BY <1>2 DEF Minting
  <2>2. \A s \in Request \ {r} : Minting(s) =>
          /\ req[s].fresh \in minted /\ req[s].fresh \notin held'
          /\ Minting(r) => req[s].fresh # req[r].fresh
          /\ req[s].phase = "store" => row'[req[s].fresh] = "absent"
          /\ \A t \in Request \ {r} : t # s /\ Minting(t) => req[t].fresh # req[s].fresh
    BY <1>1, <1>2, <1>3 DEF IInv, FreshTokens
  <2>3. Minting(r)' => /\ Minting(r) /\ req'[r].fresh = req[r].fresh /\ held' = held
                       /\ req'[r].phase # "store"
    BY <1>2 DEF Minting, GoesOn
  <2>4. \A s \in Request \ {r} : Minting(s)' =>
          /\ req'[s].fresh \in minted' /\ req'[s].fresh \notin held'
          /\ req'[s].phase = "store" => row'[req'[s].fresh] = "absent"
          /\ \A t \in Request : t # s /\ Minting(t)' => req'[t].fresh # req'[s].fresh
    BY <1>2, <2>1, <2>2, <2>3
  <2>5. Minting(r)' =>
          /\ req'[r].fresh \in minted' /\ req'[r].fresh \notin held' /\ req'[r].phase # "store"
          /\ \A t \in Request : t # r /\ Minting(t)' => req'[t].fresh # req'[r].fresh
    BY <1>2, <1>3, <2>1, <2>2, <2>3
  <2> QED BY <2>4, <2>5 DEF FreshTokens
<1>8. LogoutsHappened'
  <2>1. \A s \in Request \ {r} : req[s].phase \in LogoutPhase => req[s].subject \in Jti
    BY <1>2 DEF IInv, PhasesHaveSubjects, ActingPhase, LogoutPhase, RequestState
  <2> QED BY <1>1, <1>2, <2>1 DEF IInv, LogoutsHappened
<1>9. LogoutAuditTrue'
  BY <1>1 DEF IInv, TypeOK, LogoutAuditTrue, TrailKept
<1> QED  BY <1>4, <1>5, <1>6, <1>7, <1>8, <1>9 DEF IInv

(* A step that only reads: no row, record or holder changes.               *)
LEMMA ReadKeeps ==
  ASSUME IInv, NEW r \in Request, NEW state, Become(r, state), Acceptable(state),
         state.phase \notin MintingPhase \cup LogoutPhase,
         UNCHANGED <<now, minted, token, row, held, audit>>, accident' \subseteq Jti
  PROVE  IInv'
<1>1. RowsKept(r) /\ TrailKept /\ GoesOn(r, state)
  BY DEF RowsKept, TrailKept, GoesOn, IInv, TypeOK
<1> QED BY <1>1, StepKeeps

LEMMA IdleIsAcceptable ==
  /\ Acceptable(Idle) /\ Idle.phase = "idle" /\ Idle.subject = NoJti
  /\ Idle.phase \notin MintingPhase \cup LogoutPhase
BY DEF Acceptable, Idle, RequestState, Phase, ActingPhase, MintingPhase, LogoutPhase

(* What a request that is under way may enter.                             *)
LEMMA EnterIs ==
  ASSUME IInv, NEW r \in Request, NEW phase \in Phase
  PROVE  LET state == [req[r] EXCEPT !.phase = phase] IN
         /\ state \in RequestState /\ state.phase = phase
         /\ state.subject = req[r].subject /\ state.fresh = req[r].fresh
BY DEF IInv, TypeOK, RequestState

(* A request of which an invariant speaks has a bearer to work for.        *)
LEMMA HasSubject ==
  ASSUME IInv, NEW r \in Request, req[r].phase \in ActingPhase
  PROVE  /\ req[r].subject \in Jti /\ req[r].subject # NoJti
         /\ req[r].phase # "recordSwept" => req[r].subject \in minted /\ token[req[r].subject].use = ""
BY DEF IInv, TypeOK, RequestState, PhasesHaveSubjects, Subjects

(* Revoking a row leaves it revoked and touches no other.                  *)
LEMMA RevokeKeeps ==
  ASSUME IInv, NEW r \in Request, NEW j \in Jti, RevokeRow(j)
  PROVE  RowsKept(r) /\ row'[j] = "revoked" /\ row[j] # "absent"
         /\ \A k \in Jti \ {j} : row'[k] = row[k]
BY DEF IInv, TypeOK, RowsKept, RevokeRow

LEMMA SameRowsKept ==
  ASSUME IInv, NEW r \in Request, row' = row
  PROVE  RowsKept(r)
BY DEF IInv, TypeOK, RowsKept

LEMMA RecordKeeps ==
  ASSUME IInv, NEW verb \in {"login", "refresh", "logout"}, NEW j \in Jti, Record(verb, j),
         verb = "logout" => row'[j] = "revoked"
  PROVE  TrailKept /\ audit \subseteq audit'
BY DEF Record, TrailKept

(* Writing the row of a new token.                                         *)
LEMMA StoreRowKeeps == ASSUME IInv, NEW r \in Request, StoreRow(r) PROVE IInv'
<1> DEFINE phase == IF req[r].subject = NoJti THEN "recordLogin" ELSE "retire"
           state == [req[r] EXCEPT !.phase = phase]
<1>1. req[r].phase = "store" /\ Minting(r) /\ req[r].fresh \in Jti
      /\ UNCHANGED <<now, minted, token, held, audit>> /\ Become(r, state)
  BY DEF StoreRow, Enter, Minting, MintingPhase, IInv, FreshTokens, TypeOK
<1>2. phase \in MintingPhase \ {"store"} /\ phase \in Phase /\ phase \notin LogoutPhase
      /\ phase # "rotate" /\ phase # "recordSwept"
  BY DEF Phase, MintingPhase, LogoutPhase
<1>3. phase \in ActingPhase => req[r].subject # NoJti
  BY DEF ActingPhase
<1> HIDE DEF phase
<1>4. /\ state \in RequestState /\ state.phase = phase
      /\ state.subject = req[r].subject /\ state.fresh = req[r].fresh
  BY <1>2, EnterIs
<1> HIDE DEF state
<1>5. Acceptable(state)
  BY <1>1, <1>2, <1>3, <1>4 DEF Acceptable, IInv, Subjects
<1>6. GoesOn(r, state) /\ TrailKept
  BY <1>1, <1>2, <1>4 DEF GoesOn, TrailKept
<1>7. RowsKept(r) /\ accident' \subseteq Jti
  <2>1. row[req[r].fresh] = "absent"
    BY <1>1 DEF IInv, FreshTokens
  <2> QED BY <1>1, <2>1 DEF StoreRow, RowsKept, IInv, TypeOK
<1> QED BY <1>1, <1>2, <1>4, <1>5, <1>6, <1>7, StepKeeps

(* Recording, and answering a login or a refresh with the new bearer.      *)
LEMMA AnswerKeeps ==
  ASSUME IInv, NEW r \in Request, RecordLogin(r) \/ RecordRefresh(r)
  PROVE  IInv'
<1>1. /\ Minting(r) /\ req[r].fresh \in Jti /\ held' = held \cup {req[r].fresh}
      /\ Become(r, Idle) /\ UNCHANGED <<now, minted, token, row>>
  BY DEF RecordLogin, RecordRefresh, Minting, MintingPhase, IInv, FreshTokens, TypeOK
<1>2. TrailKept /\ accident' \subseteq Jti
  <2>1. CASE RecordLogin(r)
    <3>1. Record("login", req[r].fresh) /\ accident' = accident
      BY <2>1 DEF RecordLogin
    <3> QED BY <1>1, <3>1, RecordKeeps DEF IInv, TypeOK
  <2>2. CASE RecordRefresh(r)
    <3>1. req[r].phase \in ActingPhase
      BY <2>2 DEF RecordRefresh, ActingPhase
    <3>2. /\ Record("refresh", req[r].subject) /\ req[r].subject \in Jti
          /\ accident' \in {accident, accident \cup {req[r].subject}}
      BY <2>2, <3>1, HasSubject DEF RecordRefresh, RecordEnd
    <3> QED BY <3>2, RecordKeeps DEF IInv, TypeOK
  <2> QED BY <2>1, <2>2
<1>3. GoesOn(r, Idle)
  BY <1>1, IdleIsAcceptable DEF GoesOn
<1> QED BY <1>1, <1>2, <1>3, IdleIsAcceptable, SameRowsKept, StepKeeps

LEMMA RetireKeeps == ASSUME IInv, NEW r \in Request, Retire(r) PROVE IInv'
<1> DEFINE state == [req[r] EXCEPT !.phase = "recordRefresh"]
<1>1. /\ req[r].phase = "retire" /\ Minting(r) /\ Become(r, state)
      /\ UNCHANGED <<now, minted, token, held, audit, accident>>
  BY DEF Retire, Enter, Minting, MintingPhase
<1>2. /\ state \in RequestState /\ state.phase = "recordRefresh"
      /\ state.subject = req[r].subject /\ state.fresh = req[r].fresh
  BY EnterIs DEF Phase
<1>3. req[r].subject \in minted /\ req[r].subject \in Jti /\ req[r].subject # NoJti
      /\ token[req[r].subject].use = ""
  BY <1>1, HasSubject DEF ActingPhase
<1> HIDE DEF state
<1>4. Acceptable(state)
  BY <1>2, <1>3 DEF Acceptable
<1>5. GoesOn(r, state) /\ TrailKept /\ state.phase \notin LogoutPhase
  BY <1>1, <1>2 DEF GoesOn, TrailKept, LogoutPhase
<1>6. RowsKept(r)
  BY <1>3, RevokeKeeps, SameRowsKept DEF Retire
<1> QED BY <1>1, <1>4, <1>5, <1>6, StepKeeps DEF IInv, TypeOK

(* A revocation by a logout or a sweep, and what it comes to.              *)
LEMMA RevocationKeeps ==
  ASSUME IInv, NEW r \in Request, ~Minting(r), NEW j \in Jti, NEW state, Become(r, state),
         Acceptable(state), state.phase \notin MintingPhase,
         UNCHANGED <<now, minted, token, held, audit>>,
         \/ RevokeRow(j) /\ UNCHANGED accident /\ (state.phase \in LogoutPhase => state.subject = j)
         \/ RevokeUnsure(j) /\ state.phase \notin LogoutPhase
  PROVE  IInv'
<1>1. RowsKept(r) /\ (state.phase \in LogoutPhase => row'[state.subject] = "revoked")
  BY RevokeKeeps, SameRowsKept DEF RevokeUnsure
<1>2. accident' \subseteq Jti
  BY DEF RevokeUnsure, IInv, TypeOK
<1>3. GoesOn(r, state) /\ TrailKept
  BY DEF GoesOn, TrailKept
<1> QED BY <1>1, <1>2, <1>3, StepKeeps

(* Recording a logout.                                                     *)
LEMMA LogoutRecordKeeps ==
  ASSUME IInv, NEW r \in Request, req[r].phase \in LogoutPhase,
         RecordEnd("logout", req[r].subject),
         NEW state, Become(r, state), Acceptable(state),
         state.phase \notin MintingPhase \cup LogoutPhase,
         UNCHANGED <<now, minted, token, row, held>>
  PROVE  IInv'
<1>1. req[r].subject \in Jti /\ row[req[r].subject] = "revoked"
  BY HasSubject DEF LogoutPhase, ActingPhase, IInv, LogoutsHappened
<1>2. TrailKept /\ accident' \subseteq Jti
  BY <1>1, RecordKeeps DEF RecordEnd, IInv, TypeOK
<1>3. GoesOn(r, state)
  BY DEF GoesOn
<1> QED BY <1>2, <1>3, SameRowsKept, StepKeeps

(* Every step of the service keeps the invariant.                          *)
LEMMA NextKeeps == IInv /\ [Next]_vars => IInv'
<1> SUFFICES ASSUME IInv, [Next]_vars PROVE IInv'
  OBVIOUS
<1>0. /\ Idle \in RequestState /\ Idle.phase = "idle" /\ Idle.subject = NoJti
      /\ now \in Nat \ {0} /\ minted \subseteq Jti /\ held \subseteq minted
      /\ token \in [Jti -> Claims] /\ req \in [Request -> RequestState] /\ accident \subseteq Jti
  BY DEF IInv, TypeOK, Idle, RequestState, Phase
<1>1. ASSUME NEW r \in Request, NEW j \in Jti, NEW o \in Org,
             NEW b \in Branch \cup {NoBranch}, Login(r, j, o, b)
      PROVE  IInv'
  <2> DEFINE claims == [org |-> o, use |-> "", authTime |-> now,
                        exp |-> now + IdleTimeout, branch |-> b,
                        restricted |-> b # NoBranch, parent |-> NoJti, login |-> j]
  <2>1. claims \in Claims
    <3>1. now \in Nat /\ now + IdleTimeout \in Nat
      BY <1>0, SessionConstants
    <3>2. (b # NoBranch) \in BOOLEAN
      OBVIOUS
    <3> QED  BY <3>1, <3>2 DEF Claims, Use
  <2>2. claims.login = j /\ claims.exp < claims.authTime + MaxLifetime + IdleTimeout
    BY <1>0, SessionConstants
  <2>3. Descends(j, claims)
    BY <2>1, <2>2 DEF Descends
  <2>4. Mint(r, j, claims) /\ req[r].phase = "idle"
    BY <1>1 DEF Login
  <2> QED  BY <2>3, <2>4, MintKeeps
<1>2. ASSUME NEW r \in Request, NEW j \in Jti, NEW o \in Org, ReferenceLogin(r, j, o)
      PROVE  IInv'
  <2> DEFINE claims == [org |-> o, use |-> "reference", authTime |-> 0,
                        exp |-> now + ReferenceTtl, branch |-> NoBranch,
                        restricted |-> FALSE, parent |-> NoJti, login |-> j]
  <2>1. claims \in Claims
    <3>1. 0 \in Nat /\ now + ReferenceTtl \in Nat
      BY <1>0, SessionConstants
    <3> QED  BY <3>1 DEF Claims, Use
  <2>2. claims.login = j /\ claims.use = "reference"
    OBVIOUS
  <2>3. Descends(j, claims)
    BY <2>1, <2>2 DEF Descends
  <2>4. Mint(r, j, claims) /\ req[r].phase = "idle"
    BY <1>2 DEF ReferenceLogin
  <2> QED  BY <2>3, <2>4, MintKeeps
<1>3. ASSUME NEW r \in Request, StoreRow(r) PROVE IInv'
  BY <1>3, StoreRowKeeps
<1>4. ASSUME NEW r \in Request, NEW j \in Jti, StartRefresh(r, j) PROVE IInv'
  <2> DEFINE state == [Idle EXCEPT !.phase = "rotate", !.subject = j, !.branch = token[j].branch]
  <2>1. state \in RequestState /\ state.phase = "rotate" /\ state.subject = j
        /\ state.branch = token[j].branch
    BY <1>0 DEF Idle, RequestState, Phase, Claims
  <2>2. j \in minted /\ j # NoJti /\ token[j].use = ""
    BY <1>0, <1>4, SessionConstants DEF StartRefresh, Resolves, Usable
  <2>3. Become(r, state) /\ UNCHANGED <<now, minted, token, row, held, audit, accident>>
    BY <1>4 DEF StartRefresh
  <2> HIDE DEF state
  <2>4. Acceptable(state) /\ state.phase \notin MintingPhase \cup LogoutPhase
    BY <2>1, <2>2 DEF Acceptable, MintingPhase, LogoutPhase
  <2> QED  BY <2>3, <2>4, <1>0, ReadKeeps
<1>5. ASSUME NEW r \in Request, NEW j \in Jti, NEW b \in Branch \cup {NoBranch},
             StartRebranch(r, j, b)
      PROVE  IInv'
  <2> DEFINE state == [Idle EXCEPT !.phase = "rotate", !.subject = j, !.branch = b]
  <2>1. state \in RequestState /\ state.phase = "rotate" /\ state.subject = j
    BY <1>0 DEF Idle, RequestState, Phase
  <2>2. j \in minted /\ j # NoJti /\ token[j].use = "" /\ ~token[j].restricted
    BY <1>0, <1>5, SessionConstants DEF StartRebranch, Resolves, Usable
  <2>3. Become(r, state) /\ UNCHANGED <<now, minted, token, row, held, audit, accident>>
    BY <1>5 DEF StartRebranch
  <2> HIDE DEF state
  <2>4. Acceptable(state) /\ state.phase \notin MintingPhase \cup LogoutPhase
    BY <2>1, <2>2 DEF Acceptable, MintingPhase, LogoutPhase
  <2> QED  BY <2>3, <2>4, <1>0, ReadKeeps
<1>6. ASSUME NEW r \in Request, NEW j \in Jti, Rotate(r, j) PROVE IInv'
  <2> DEFINE s == req[r].subject
             claims == [token[s] EXCEPT !.exp = now + IdleTimeout, !.branch = req[r].branch,
                                        !.parent = s]
  <2>1. Mint(r, j, claims) /\ req[r].phase = "rotate" /\ now - token[s].authTime < MaxLifetime
    BY <1>6 DEF Rotate
  <2>2. s \in minted /\ token[s].restricted => req[r].branch = token[s].branch
    BY <2>1 DEF IInv, Subjects, PhasesHaveSubjects, ActingPhase
  <2>3. s \in minted
    BY <2>1 DEF IInv, Subjects, PhasesHaveSubjects, ActingPhase
  <2>4. token[s] \in Claims /\ req[r] \in RequestState
    BY <2>3, <1>0
  <2>5. /\ claims \in Claims /\ claims.exp = now + IdleTimeout
        /\ claims.login = token[s].login /\ claims.org = token[s].org
        /\ claims.use = token[s].use /\ claims.authTime = token[s].authTime
        /\ claims.restricted = token[s].restricted /\ claims.branch = req[r].branch
    <3>1. now + IdleTimeout \in Nat /\ s \in Jti /\ req[r].branch \in Branch \cup {NoBranch}
      BY <2>3, <2>4, <1>0, SessionConstants DEF RequestState
    <3> QED  BY <3>1, <2>4 DEF Claims
  <2>6. claims.exp < claims.authTime + MaxLifetime + IdleTimeout
    BY <2>1, <2>4, <2>5, <1>0, SessionConstants DEF Claims
  <2>7. Descends(j, claims)
    BY <2>2, <2>3, <2>5, <2>6 DEF Descends, IInv, Chains
  <2> QED  BY <2>1, <2>7, MintKeeps
<1>7. ASSUME NEW r \in Request, RefuseRotate(r) \/ SweepDone(r) \/ Stop(r) PROVE IInv'
  <2>1. Become(r, Idle) /\ UNCHANGED <<now, minted, token, row, held, audit>>
        /\ accident' \subseteq Jti
    BY <1>0, <1>7 DEF RefuseRotate, SweepDone, Stop
  <2> QED  BY <2>1, IdleIsAcceptable, ReadKeeps
<1>8. ASSUME NEW r \in Request, Retire(r) \/ RecordLogin(r) \/ RecordRefresh(r) PROVE IInv'
  BY <1>8, RetireKeeps, AnswerKeeps
<1>9. ASSUME NEW r \in Request, NEW j \in Jti, StartLogout(r, j) PROVE IInv'
  <2> DEFINE state == [Idle EXCEPT !.phase = "logout", !.subject = j]
  <2>1. state \in RequestState /\ state.phase = "logout" /\ state.subject = j
    BY <1>0 DEF Idle, RequestState, Phase
  <2>2. j \in minted /\ j # NoJti /\ token[j].use = ""
    BY <1>0, <1>9, SessionConstants DEF StartLogout, Resolves, Usable
  <2>3. Become(r, state) /\ UNCHANGED <<now, minted, token, row, held, audit, accident>>
    BY <1>9 DEF StartLogout
  <2> HIDE DEF state
  <2>4. Acceptable(state) /\ state.phase \notin MintingPhase \cup LogoutPhase
    BY <2>1, <2>2 DEF Acceptable, MintingPhase, LogoutPhase
  <2> QED  BY <2>3, <2>4, <1>0, ReadKeeps
<1>10. ASSUME NEW r \in Request, Logout(r) PROVE IInv'
  <2> DEFINE state == [req[r] EXCEPT !.phase = "recordLogout"]
             j == req[r].subject
  <2>1. req[r].phase = "logout" /\ UNCHANGED <<now, minted, token, held, audit>>
    BY <1>10 DEF Logout
  <2>2. ~Minting(r) /\ j \in Jti /\ j # NoJti /\ j \in minted /\ token[j].use = ""
    BY <2>1, HasSubject DEF Minting, MintingPhase, ActingPhase
  <2>3. state \in RequestState /\ state.phase = "recordLogout" /\ state.subject = j
    BY EnterIs DEF Phase
  <2>4. \/ RevokeRow(j) /\ Become(r, state) /\ UNCHANGED accident
        \/ RevokeUnsure(j) /\ Become(r, Idle)
    BY <1>10 DEF Logout, Enter
  <2> HIDE DEF state
  <2>5. Acceptable(state) /\ state.phase \notin MintingPhase
    BY <2>2, <2>3 DEF Acceptable, MintingPhase
  <2>6. CASE RevokeRow(j) /\ Become(r, state) /\ UNCHANGED accident
    BY <2>1, <2>2, <2>3, <2>5, <2>6, RevocationKeeps
  <2>7. CASE RevokeUnsure(j) /\ Become(r, Idle)
    BY <2>1, <2>2, <2>7, IdleIsAcceptable, RevocationKeeps
  <2> QED  BY <2>4, <2>6, <2>7
<1>11. ASSUME NEW r \in Request, NEW o \in Org, StartSweep(r, o) PROVE IInv'
  <2>1. PICK todo \in SUBSET Jti, present \in SUBSET Jti :
          Become(r, [Idle EXCEPT !.phase = "sweep", !.todo = todo, !.present = present])
    <3>1. PICK page \in SUBSET {j \in minted : token[j].org = o /\ row[j] # "absent"} :
            Become(r, [Idle EXCEPT !.phase = "sweep",
                         !.todo = {j \in page : Active(j)},
                         !.present = {j \in {j \in minted : token[j].org = o /\ row[j] # "absent"} : Active(j)}])
      BY <1>11 DEF StartSweep
    <3>2. /\ {j \in page : Active(j)} \in SUBSET Jti
          /\ {j \in {j \in minted : token[j].org = o /\ row[j] # "absent"} : Active(j)} \in SUBSET Jti
      BY <1>0
    <3> QED  BY <3>1, <3>2
  <2> DEFINE state == [Idle EXCEPT !.phase = "sweep", !.todo = todo, !.present = present]
  <2>2. state \in RequestState /\ state.phase = "sweep" /\ state.subject = NoJti
    BY <1>0 DEF Idle, RequestState, Phase
  <2>3. Become(r, state) /\ UNCHANGED <<now, minted, token, row, held, audit, accident>>
    BY <1>11, <2>1 DEF StartSweep
  <2> HIDE DEF state
  <2>4. Acceptable(state) /\ state.phase \notin MintingPhase \cup LogoutPhase
    BY <2>2 DEF Acceptable, ActingPhase, MintingPhase, LogoutPhase
  <2> QED  BY <2>3, <2>4, <1>0, ReadKeeps
<1>12. ASSUME NEW r \in Request, NEW j \in Jti, SweepOne(r, j) PROVE IInv'
  <2> DEFINE rest == [req[r] EXCEPT !.todo = @ \ {j}]
             state == [rest EXCEPT !.phase = "recordSwept", !.subject = j]
  <2>1. /\ req[r].phase = "sweep" /\ UNCHANGED <<now, minted, token, held, audit>>
        /\ \/ RevokeRow(j) /\ Become(r, state) /\ UNCHANGED accident
           \/ RevokeUnsure(j) /\ Become(r, rest)
    BY <1>12 DEF SweepOne
  <2>2. /\ rest \in RequestState /\ rest.phase = "sweep" /\ rest.subject = req[r].subject
        /\ state \in RequestState /\ state.phase = "recordSwept" /\ state.subject = j /\ j # NoJti
    BY <2>1, <1>0, SessionConstants DEF RequestState, Phase
  <2> HIDE DEF rest, state
  <2>3. rest.subject # NoJti => rest.subject \in minted /\ token[rest.subject].use = ""
    BY <2>1, <2>2 DEF IInv, Subjects
  <2>4. /\ Acceptable(rest) /\ rest.phase \notin MintingPhase \cup LogoutPhase
        /\ Acceptable(state) /\ state.phase \notin MintingPhase
    BY <2>2, <2>3 DEF Acceptable, ActingPhase, MintingPhase, LogoutPhase
  <2>5. ~Minting(r)
    BY <2>1 DEF Minting, MintingPhase
  <2>6. CASE RevokeRow(j) /\ Become(r, state) /\ UNCHANGED accident
    BY <2>1, <2>2, <2>4, <2>5, <2>6, RevocationKeeps
  <2>7. CASE RevokeUnsure(j) /\ Become(r, rest)
    BY <2>1, <2>4, <2>5, <2>7, RevocationKeeps
  <2> QED  BY <2>1, <2>6, <2>7
<1>13. ASSUME NEW r \in Request, RecordLogout(r) PROVE IInv'
  BY <1>13, IdleIsAcceptable, LogoutRecordKeeps DEF RecordLogout, LogoutPhase
<1>14. ASSUME NEW r \in Request, RecordSwept(r) PROVE IInv'
  <2> DEFINE state == [req[r] EXCEPT !.phase = "sweep", !.subject = NoJti]
  <2>1. state \in RequestState /\ state.phase = "sweep" /\ state.subject = NoJti
    BY <1>0 DEF RequestState, Phase
  <2>2. /\ req[r].phase \in LogoutPhase /\ RecordEnd("logout", req[r].subject)
        /\ Become(r, state) /\ UNCHANGED <<now, minted, token, row, held>>
    BY <1>14 DEF RecordSwept, LogoutPhase
  <2> HIDE DEF state
  <2>3. Acceptable(state) /\ state.phase \notin MintingPhase \cup LogoutPhase
    BY <2>1 DEF Acceptable, ActingPhase, MintingPhase, LogoutPhase
  <2> QED  BY <2>2, <2>3, LogoutRecordKeeps
<1>15. CASE Tick
  <2>1. now' \in Nat \ {0} /\ UNCHANGED <<minted, token, row, held, req, audit, accident>>
    BY <1>0, <1>15 DEF Tick
  <2> QED  BY <2>1 DEF IInv, TypeOK, Chains, Subjects, FreshTokens, Minting,
                       PhasesHaveSubjects, LogoutsHappened, LogoutAuditTrue
<1>16. CASE UNCHANGED vars
  BY <1>16 DEF IInv, TypeOK, Chains, Subjects, FreshTokens, Minting,
               PhasesHaveSubjects, LogoutsHappened, LogoutAuditTrue, vars
<1> QED  BY <1>1, <1>2, <1>3, <1>4, <1>5, <1>6, <1>7, <1>8, <1>9, <1>10, <1>11, <1>12,
            <1>13, <1>14, <1>15, <1>16 DEF Next, Step

(* The inductive invariant holds in every reachable state.                 *)
THEOREM Invariance == Spec => []IInv
BY InitHolds, NextKeeps, PTL DEF Spec

(* The types of the session store, and that only minted tokens have rows   *)
(* or holders (mintSession).                                               *)
THEOREM TypeCorrect == Spec => []TypeOK
<1>1. IInv => TypeOK
  BY DEF IInv
<1> QED  BY Invariance, <1>1, PTL

(* No amount of refreshing stretches a login past its absolute cap by more *)
(* than the one idle window its last bearer was given (rotate).            *)
THEOREM LifetimeIsBounded == Spec => []LifetimeBounded
<1>1. IInv => LifetimeBounded
  BY DEF IInv, Chains, LifetimeBounded
<1> QED  BY Invariance, <1>1, PTL

(* A chain of refreshes and branch switches stays in the tenant, the kind  *)
(* of session and the branch restriction its login fixed.                  *)
THEOREM LoginsConfine == Spec => []LoginConfinement
<1>1. IInv => LoginConfinement
  BY DEF IInv, Chains, LoginConfinement
<1> QED  BY Invariance, <1>1, PTL

(* The audit trail never names a logout whose bearer still works.          *)
THEOREM AuditedLogoutsHappened == Spec => []LogoutAuditTrue
<1>1. IInv => LogoutAuditTrue
  BY DEF IInv
<1> QED  BY Invariance, <1>1, PTL

(* A row is revoked for good, and only a token nobody holds gets its row.  *)
LEMMA RowsStep ==
  ASSUME IInv, [Next]_vars
  PROVE  /\ \A j \in Jti : row[j] = "revoked" => row'[j] = "revoked"
         /\ \A j \in held : row'[j] = "active" => row[j] = "active"
<1>1. row \in [Jti -> {"absent", "active", "revoked"}] /\ held \subseteq Jti
  BY DEF IInv, TypeOK
<1>2. ASSUME NEW r \in Request, StoreRow(r)
      PROVE  row' = row \/ (/\ row' = [row EXCEPT ![req[r].fresh] = "active"]
                           /\ row[req[r].fresh] = "absent" /\ req[r].fresh \notin held)
  BY <1>2 DEF StoreRow, IInv, FreshTokens, Minting, MintingPhase
<1>3. CASE \E r \in Request : StoreRow(r)
  BY <1>1, <1>2, <1>3
<1>4. CASE ~ \E r \in Request : StoreRow(r)
  <2>1. row' = row \/ \E k : row' = [row EXCEPT ![k] = "revoked"]
    BY <1>4 DEF Next, Step, Login, ReferenceLogin, Mint, RecordLogin, StartRefresh, StartRebranch,
           Rotate, RefuseRotate, Retire, RecordRefresh, StartLogout, Logout, RecordLogout, StartSweep,
           SweepOne, RecordSwept, SweepDone, Stop, Tick, RevokeRow, RevokeUnsure, vars
  <2> QED BY <1>1, <2>1
<1> QED BY <1>3, <1>4

(* A bearer that stopped working never works again.                        *)
THEOREM DeadBearersStayDead == Spec => NoRevival
<1>1. IInv /\ [Next]_vars => [\A j \in held : ~Usable(j) => ~Usable(j)']_vars
  <2> SUFFICES ASSUME IInv, Next, NEW j \in held, ~Usable(j) PROVE ~Usable(j)'
    BY DEF vars, Usable, Unexpired, Active
  <2>1. now \in Nat /\ j \in minted /\ minted \subseteq Jti /\ token \in [Jti -> Claims]
    BY DEF IInv, TypeOK
  <2>2. token' = token \/ \E k \in Jti \ minted : \E claims : token' = [token EXCEPT ![k] = claims]
    BY DEF Next, Step, Login, ReferenceLogin, Mint, StoreRow, RecordLogin, StartRefresh,
             StartRebranch, Rotate, RefuseRotate, Retire, RecordRefresh, StartLogout, Logout,
             RecordLogout, StartSweep, SweepOne, RecordSwept, SweepDone, Stop, Tick
  <2>3. now' = now \/ now' = now + 1
    BY DEF Next, Step, Login, ReferenceLogin, Mint, StoreRow, RecordLogin, StartRefresh,
             StartRebranch, Rotate, RefuseRotate, Retire, RecordRefresh, StartLogout, Logout,
             RecordLogout, StartSweep, SweepOne, RecordSwept, SweepDone, Stop, Tick
  <2>4. row'[j] = "active" => row[j] = "active"
    BY RowsStep
  <2>5. token'[j] = token[j] /\ token[j].exp \in Nat
    BY <2>1, <2>2 DEF Claims
  <2> QED  BY <2>1, <2>3, <2>4, <2>5 DEF Usable, Unexpired, Active
<1> QED  BY Invariance, <1>1, PTL DEF Spec, NoRevival

-----------------------------------------------------------------------------
(* A step as a change of one request's state: what the two invariants      *)
(* below need to know of it.                                               *)

(* What IInv says of the values that the steps below touch.                *)
LEMMA Typed ==
  ASSUME IInv
  PROVE  /\ row \in [Jti -> {"absent", "active", "revoked"}]
         /\ req \in [Request -> RequestState]
         /\ token \in [Jti -> Claims]
         /\ minted \subseteq Jti /\ held \subseteq minted
         /\ \A r \in Request : Minting(r) => req[r].fresh \in Jti
         /\ \A r \in Request : req[r].phase \in ActingPhase => req[r].subject \in Jti
         /\ \A j \in Jti : token[j].parent \in Jti \cup {NoJti}
BY DEF IInv, TypeOK, Claims, FreshTokens, PhasesHaveSubjects, ActingPhase, RequestState

(* The states that the steps give a request.                               *)
LEMMA States ==
  ASSUME IInv, NEW r \in Request
  PROVE  /\ Idle.phase = "idle" /\ Idle.subject = NoJti
         /\ \A phase \in Phase : /\ [req[r] EXCEPT !.phase = phase].phase = phase
                                 /\ [req[r] EXCEPT !.phase = phase].subject = req[r].subject
                                 /\ [req[r] EXCEPT !.phase = phase].fresh = req[r].fresh
         /\ \A j \in Jti : /\ [req[r] EXCEPT !.phase = "store", !.fresh = j].phase = "store"
                           /\ [req[r] EXCEPT !.phase = "store", !.fresh = j].fresh = j
                           /\ [req[r] EXCEPT !.phase = "store", !.fresh = j].subject = req[r].subject
                           /\ [Idle EXCEPT !.phase = "logout", !.subject = j].phase = "logout"
                           /\ [req[r] EXCEPT !.todo = @ \ {j}].phase = req[r].phase
                           /\ [req[r] EXCEPT !.todo = @ \ {j}].subject = req[r].subject
                           /\ [[req[r] EXCEPT !.todo = @ \ {j}] EXCEPT !.phase = "recordSwept",
                                                                      !.subject = j].phase = "recordSwept"
                           /\ [[req[r] EXCEPT !.todo = @ \ {j}] EXCEPT !.phase = "recordSwept",
                                                                      !.subject = j].subject = j
         /\ \A j \in Jti : \A b : [Idle EXCEPT !.phase = "rotate", !.subject = j, !.branch = b].phase = "rotate"
         /\ \A todo, present :
              [Idle EXCEPT !.phase = "sweep", !.todo = todo, !.present = present].phase = "sweep"
         /\ [req[r] EXCEPT !.phase = "sweep", !.subject = NoJti].phase = "sweep"
BY Typed DEF Idle, RequestState

(* The states that a request enters as it starts.                          *)
LEMMA StartsAre ==
  ASSUME IInv, NEW r \in Request, NEW j \in Jti,
         \/ StartRefresh(r, j) \/ StartLogout(r, j)
         \/ \E b \in Branch \cup {NoBranch} : StartRebranch(r, j, b)
  PROVE  \E state : Become(r, state) /\ state.phase \in {"rotate", "logout"}
<1>1. ASSUME NEW b, Become(r, [Idle EXCEPT !.phase = "rotate", !.subject = j, !.branch = b])
      PROVE  \E state : Become(r, state) /\ state.phase \in {"rotate", "logout"}
  <2> DEFINE state == [Idle EXCEPT !.phase = "rotate", !.subject = j, !.branch = b]
  <2>1. state.phase = "rotate"
    BY States
  <2> HIDE DEF state
  <2> QED BY <1>1, <2>1 DEF state
<1>2. ASSUME Become(r, [Idle EXCEPT !.phase = "logout", !.subject = j])
      PROVE  \E state : Become(r, state) /\ state.phase \in {"rotate", "logout"}
  <2> DEFINE state == [Idle EXCEPT !.phase = "logout", !.subject = j]
  <2>1. state.phase = "logout"
    BY States
  <2> HIDE DEF state
  <2> QED BY <1>2, <2>1 DEF state
<1> QED BY <1>1, <1>2 DEF StartRefresh, StartLogout, StartRebranch

(* The states in which a logout or a sweep goes on.                        *)
LEMMA GoesOnAs ==
  ASSUME IInv, NEW r \in Request,
         \/ Logout(r) \/ RecordLogout(r) \/ RecordSwept(r)
         \/ \E j \in Jti : SweepOne(r, j)
  PROVE  \E state :
           /\ Become(r, state)
           /\ \/ state.phase = "idle" /\ state.subject = NoJti /\ (Logout(r) \/ RecordLogout(r))
              \/ state.phase = "recordLogout" /\ Logout(r)
              \/ state.phase = "sweep" /\ req[r].phase \in {"sweep", "recordSwept"}
              \/ state.phase = "recordSwept" /\ req[r].phase = "sweep"
<1>1. CASE Logout(r)
  <2> DEFINE state == [req[r] EXCEPT !.phase = "recordLogout"]
  <2>1. state.phase = "recordLogout"
    BY States DEF Phase
  <2>2. Become(r, state) \/ Become(r, Idle)
    BY <1>1 DEF Logout, Enter
  <2> HIDE DEF state
  <2> QED BY <1>1, <2>1, <2>2, States
<1>2. CASE RecordLogout(r)
  BY <1>2, States DEF RecordLogout
<1>3. CASE RecordSwept(r)
  <2> DEFINE state == [req[r] EXCEPT !.phase = "sweep", !.subject = NoJti]
  <2>1. state.phase = "sweep"
    BY States
  <2>2. Become(r, state) /\ req[r].phase = "recordSwept"
    BY <1>3 DEF RecordSwept
  <2> HIDE DEF state
  <2> QED BY <2>1, <2>2
<1>4. ASSUME NEW j \in Jti, SweepOne(r, j)
      PROVE  \E state : /\ Become(r, state) /\ req[r].phase = "sweep"
                        /\ state.phase \in {"sweep", "recordSwept"}
  <2> DEFINE rest == [req[r] EXCEPT !.todo = @ \ {j}]
             state == [rest EXCEPT !.phase = "recordSwept", !.subject = j]
  <2>1. req[r].phase = "sweep" /\ (Become(r, state) \/ Become(r, rest))
    BY <1>4 DEF SweepOne
  <2>2. rest.phase = "sweep" /\ state.phase = "recordSwept"
    BY <2>1, States
  <2> HIDE DEF rest, state
  <2> QED BY <2>1, <2>2
<1> QED BY <1>1, <1>2, <1>3, <1>4

(* The phases that hand out or record nothing.                             *)
QuietPhase == {"idle", "rotate", "logout", "sweep"}

(* A step that starts, refuses or ends a request and writes nothing.       *)
Quiet(r) == /\ \E state : Become(r, state) /\ state.phase \in QuietPhase
                          /\ (state.phase = "idle" => state.subject = NoJti)
            /\ UNCHANGED <<token, row, held, audit>>

(* Every step is one that mints, one that is quiet, or one of the others.  *)
LEMMA StepCases ==
  ASSUME IInv, Step
  PROVE  \/ \E r \in Request, j \in Jti : \E claims :
              /\ Mint(r, j, claims)
              /\ \/ req[r].phase = "idle" /\ claims.parent = NoJti
                 \/ req[r].phase = "rotate" /\ claims.parent = req[r].subject
         \/ \E r \in Request : Quiet(r) /\ (Stop(r) \/ (req[r].phase \in QuietPhase /\ UNCHANGED accident))
         \/ \E r \in Request : \/ StoreRow(r) \/ RecordLogin(r) \/ Retire(r) \/ RecordRefresh(r)
                               \/ Logout(r) \/ RecordLogout(r) \/ RecordSwept(r)
         \/ \E r \in Request, j \in Jti : SweepOne(r, j)
         \/ UNCHANGED <<token, row, held, req, audit, accident>>
<1>1. ASSUME NEW r \in Request, NEW j \in Jti, NEW o \in Org,
             NEW b \in Branch \cup {NoBranch}, Login(r, j, o, b)
      PROVE  \E claims : Mint(r, j, claims) /\ req[r].phase = "idle" /\ claims.parent = NoJti
  <2> DEFINE claims == [org |-> o, use |-> "", authTime |-> now,
                        exp |-> now + IdleTimeout, branch |-> b,
                        restricted |-> b # NoBranch, parent |-> NoJti, login |-> j]
  <2>1. Mint(r, j, claims) /\ req[r].phase = "idle"
    BY <1>1 DEF Login
  <2>2. claims.parent = NoJti
    OBVIOUS
  <2> HIDE DEF claims
  <2> QED BY <2>1, <2>2
<1>2. ASSUME NEW r \in Request, NEW j \in Jti, NEW o \in Org, ReferenceLogin(r, j, o)
      PROVE  \E claims : Mint(r, j, claims) /\ req[r].phase = "idle" /\ claims.parent = NoJti
  <2> DEFINE claims == [org |-> o, use |-> "reference", authTime |-> 0,
                        exp |-> now + ReferenceTtl, branch |-> NoBranch,
                        restricted |-> FALSE, parent |-> NoJti, login |-> j]
  <2>1. Mint(r, j, claims) /\ req[r].phase = "idle"
    BY <1>2 DEF ReferenceLogin
  <2>2. claims.parent = NoJti
    OBVIOUS
  <2> HIDE DEF claims
  <2> QED BY <2>1, <2>2
<1>3. ASSUME NEW r \in Request, NEW j \in Jti, Rotate(r, j)
      PROVE  \E claims : Mint(r, j, claims) /\ req[r].phase = "rotate" /\ claims.parent = req[r].subject
  <2> DEFINE s == req[r].subject
             claims == [token[s] EXCEPT !.exp = now + IdleTimeout, !.branch = req[r].branch,
                                        !.parent = s]
  <2>1. Mint(r, j, claims) /\ req[r].phase = "rotate" /\ s \in Jti
    BY <1>3, Typed DEF Rotate, ActingPhase
  <2>2. claims.parent = s
    BY <2>1, Typed DEF Claims
  <2> QED BY <2>1, <2>2
<1>4. ASSUME NEW r \in Request, NEW j \in Jti, NEW b \in Branch \cup {NoBranch},
             StartRefresh(r, j) \/ StartRebranch(r, j, b) \/ StartLogout(r, j)
      PROVE  Quiet(r) /\ req[r].phase \in QuietPhase /\ UNCHANGED accident
  <2>1. PICK state : Become(r, state) /\ state.phase \in {"rotate", "logout"}
    BY <1>4, StartsAre
  <2>2. req[r].phase = "idle" /\ UNCHANGED <<token, row, held, audit, accident>>
    BY <1>4 DEF StartRefresh, StartRebranch, StartLogout
  <2> QED BY <2>1, <2>2 DEF Quiet, QuietPhase
<1>5. ASSUME NEW r \in Request, NEW o \in Org, StartSweep(r, o)
      PROVE  Quiet(r) /\ req[r].phase \in QuietPhase /\ UNCHANGED accident
  <2>1. PICK todo, present :
          Become(r, [Idle EXCEPT !.phase = "sweep", !.todo = todo, !.present = present])
    BY <1>5 DEF StartSweep
  <2>2. [Idle EXCEPT !.phase = "sweep", !.todo = todo, !.present = present].phase = "sweep"
    BY States
  <2> QED BY <1>5, <2>1, <2>2 DEF StartSweep, Quiet, QuietPhase
<1>6. ASSUME NEW r \in Request, RefuseRotate(r) \/ SweepDone(r)
      PROVE  Quiet(r) /\ req[r].phase \in QuietPhase /\ UNCHANGED accident
  BY <1>6, States DEF RefuseRotate, SweepDone, Quiet, QuietPhase
<1>7. ASSUME NEW r \in Request, Stop(r) PROVE Quiet(r)
  BY <1>7, States DEF Stop, Quiet, QuietPhase
<1> QED BY <1>1, <1>2, <1>3, <1>4, <1>5, <1>6, <1>7 DEF Step, Tick

-----------------------------------------------------------------------------
(* No bearer ends without a trace.  A request that goes on to hand out a   *)
(* bearer has written its row, or has failed to: that is an accident.      *)

Traced(j) ==
  \/ {<<"logout", j>>, <<"refresh", j>>} \cap audit # {}
  \/ \E r \in Request : AboutToRecord(r, j)
  \/ j \in accident

AnsweringPhase == {"recordLogin", "retire", "recordRefresh"}
HasRow ==
  \A r \in Request : req[r].phase \in AnsweringPhase =>
    row[req[r].fresh] # "absent" \/ req[r].fresh \in accident

TInv == NoSilentEnd /\ HasRow

(* A step of request r after which every bearer that ended in it, and      *)
(* every one that r was about to record, has its trace.                    *)
LEMMA TraceStep ==
  ASSUME IInv, IInv', TInv, NEW r \in Request, NEW state, Become(r, state),
         audit \subseteq audit', accident \subseteq accident',
         \A j \in Jti : row[j] # "absent" => row'[j] # "absent",
         \A j \in Jti : row[j] = "active" => row'[j] = "active" \/ Traced(j)',
         \A j \in Jti : row[j] # "active" => row'[j] = row[j] \/ row'[j] = "active",
         \A j \in Jti : AboutToRecord(r, j) => Traced(j)',
         held' = held \/ (req[r].phase \in AnsweringPhase /\ held' = held \cup {req[r].fresh}),
         state.phase \in AnsweringPhase =>
           row'[state.fresh] # "absent" \/ state.fresh \in accident'
  PROVE  TInv'
<1>1. /\ req'[r] = state
      /\ \A s \in Request \ {r} : req'[s] = req[s]
      /\ \A s \in Request : req[s].phase \in AnsweringPhase => req[s].fresh \in Jti
      /\ row \in [Jti -> {"absent", "active", "revoked"}]
      /\ row' \in [Jti -> {"absent", "active", "revoked"}]
  BY Typed DEF Become, AnsweringPhase, Minting, MintingPhase, IInv, TypeOK
<1>2. ASSUME NEW j \in Jti, Traced(j) PROVE Traced(j)'
  <2>1. CASE \E s \in Request \ {r} : AboutToRecord(s, j)
    BY <1>1, <2>1 DEF Traced, AboutToRecord
  <2>2. CASE ~ \E s \in Request \ {r} : AboutToRecord(s, j)
    BY <1>2, <2>2 DEF Traced
  <2> QED BY <2>1, <2>2
<1>3. \A j \in Jti : j \in held \/ row[j] # "absent" => row[j] = "active" \/ Traced(j)
  BY DEF TInv, NoSilentEnd, Active, Traced
<1>4. \A j \in Jti : j \in held' => j \in held \/ row[j] # "absent" \/ j \in accident
  BY DEF TInv, HasRow
<1>5. ASSUME NEW j \in Jti, j \in held' \/ row'[j] # "absent" PROVE row'[j] = "active" \/ Traced(j)'
  <2>1. CASE row[j] = "active"
    BY <2>1
  <2>2. CASE row[j] # "active" /\ (j \in held \/ row[j] # "absent")
    BY <1>2, <1>3, <2>2
  <2>3. CASE row[j] # "active" /\ j \in accident
    BY <2>3 DEF Traced
  <2>4. CASE row[j] = "absent" /\ row'[j] # "absent"
    BY <2>4
  <2> QED BY <1>1, <1>4, <1>5, <2>1, <2>2, <2>3, <2>4
<1>6. NoSilentEnd'
  BY <1>5 DEF NoSilentEnd, Active, Traced
<1>7. HasRow'
  BY <1>1 DEF TInv, HasRow
<1> QED BY <1>6, <1>7 DEF TInv

LEMMA AccidentGrows ==
  ASSUME NEW verb \in {"logout", "refresh"}, NEW j \in Jti, RecordEnd(verb, j)
  PROVE  audit \subseteq audit' /\ accident \subseteq accident' /\ Traced(j)'
<1>1. audit \subseteq audit' /\ accident \subseteq accident'
  BY DEF RecordEnd, Record
<1>2. <<verb, j>> \in audit' \/ j \in accident'
  BY DEF RecordEnd
<1> QED BY <1>1, <1>2 DEF Traced

LEMMA NextTraced == IInv /\ IInv' /\ TInv /\ [Next]_vars => TInv'
<1> SUFFICES ASSUME IInv, IInv', TInv, [Next]_vars PROVE TInv'
  OBVIOUS
<1> USE DEF AnsweringPhase, QuietPhase
<1>1. ASSUME NEW r \in Request, NEW j \in Jti, NEW claims, Mint(r, j, claims),
             req[r].phase \in QuietPhase
      PROVE  TInv'
  <2> DEFINE state == [req[r] EXCEPT !.phase = "store", !.fresh = j]
  <2>1. Become(r, state) /\ state.phase = "store" /\ UNCHANGED <<row, held, audit, accident>>
    BY <1>1, States DEF Mint
  <2>2. \A k \in Jti : ~AboutToRecord(r, k)
    BY <1>1 DEF AboutToRecord
  <2> HIDE DEF state
  <2> QED BY <2>1, <2>2, TraceStep
<1>2. ASSUME NEW r \in Request, Quiet(r), Stop(r) \/ (req[r].phase \in QuietPhase /\ UNCHANGED accident)
      PROVE  TInv'
  <2>1. PICK state : Become(r, state) /\ state.phase \in QuietPhase
    BY <1>2 DEF Quiet
  <2>2. UNCHANGED <<row, held, audit>>
    BY <1>2 DEF Quiet
  <2>3. accident \subseteq accident' /\ \A k \in Jti : AboutToRecord(r, k) => k \in accident'
    BY <1>2 DEF Stop, AboutToRecord
  <2> QED BY <2>1, <2>2, <2>3, TraceStep DEF Traced
<1>3. ASSUME NEW r \in Request, StoreRow(r) PROVE TInv'
  <2> DEFINE phase == IF req[r].subject = NoJti THEN "recordLogin" ELSE "retire"
             state == [req[r] EXCEPT !.phase = phase]
             f == req[r].fresh
  <2>1. phase \in Phase
    BY DEF Phase
  <2>2. Become(r, state) /\ UNCHANGED <<held, audit>> /\ req[r].phase = "store" /\ f \in Jti
    BY <1>3, Typed DEF StoreRow, Enter, Minting, MintingPhase
  <2> HIDE DEF phase
  <2>3. state.fresh = f
    BY <2>1, States
  <2>4. \/ row' = [row EXCEPT ![f] = "active"] /\ UNCHANGED accident
        \/ UNCHANGED row /\ accident' = accident \cup {f}
    BY <1>3 DEF StoreRow
  <2>5. /\ \A k \in Jti : row'[k] = row[k] \/ row'[k] = "active"
        /\ accident \subseteq accident' /\ (row'[f] # "absent" \/ f \in accident')
    BY <2>2, <2>4, Typed
  <2>6. \A k \in Jti : ~AboutToRecord(r, k)
    BY <2>2 DEF AboutToRecord
  <2> HIDE DEF state
  <2> QED BY <2>2, <2>3, <2>5, <2>6, TraceStep
<1>4. ASSUME NEW r \in Request, RecordLogin(r) PROVE TInv'
  <2>1. /\ Become(r, Idle) /\ UNCHANGED <<row, accident>> /\ audit \subseteq audit'
        /\ held' = held \cup {req[r].fresh} /\ req[r].phase = "recordLogin"
    BY <1>4 DEF RecordLogin, Record
  <2>2. \A k \in Jti : ~AboutToRecord(r, k)
    BY <2>1 DEF AboutToRecord
  <2> QED BY <2>1, <2>2, States, TraceStep
<1>5. ASSUME NEW r \in Request, Retire(r) PROVE TInv'
  <2> DEFINE state == [req[r] EXCEPT !.phase = "recordRefresh"]
  <2>0. PICK old : old = req[r].subject
    OBVIOUS
  <2>1. /\ Become(r, state) /\ UNCHANGED <<held, audit, accident>> /\ req[r].phase = "retire"
        /\ old \in Jti /\ (RevokeRow(old) \/ UNCHANGED row)
    BY <1>5, <2>0, Typed DEF Retire, Enter, ActingPhase
  <2>2. state.phase = "recordRefresh" /\ state.subject = old /\ state.fresh = req[r].fresh
    BY <2>0, States DEF Phase
  <2>3. req'[r] = state
    BY <2>1, Typed DEF Become
  <2>4. Traced(old)'
    BY <2>2, <2>3 DEF Traced, AboutToRecord
  <2>5. \A k \in Jti : ~AboutToRecord(r, k)
    BY <2>1 DEF AboutToRecord
  <2>6. /\ \A k \in Jti \ {old} : row'[k] = row[k]
        /\ row'[old] = row[old] \/ (row[old] # "absent" /\ row'[old] = "revoked")
    BY <2>1, Typed DEF RevokeRow
  <2>7. row[req[r].fresh] # "absent" \/ req[r].fresh \in accident
    BY <2>1 DEF TInv, HasRow
  <2>8. req[r].fresh \in Jti
    BY <2>1, Typed DEF Minting, MintingPhase
  <2>9. /\ \A k \in Jti : row[k] # "absent" => row'[k] # "absent"
        /\ \A k \in Jti : row[k] = "active" => row'[k] = "active" \/ Traced(k)'
        /\ \A k \in Jti : row[k] # "active" => row'[k] = row[k] \/ row'[k] = "active"
    BY <2>4, <2>6, Typed
  <2> HIDE DEF state
  <2> QED BY <2>1, <2>2, <2>5, <2>7, <2>8, <2>9, TraceStep
<1>6. ASSUME NEW r \in Request, RecordRefresh(r) PROVE TInv'
  <2>1. /\ Become(r, Idle) /\ UNCHANGED row /\ req[r].phase = "recordRefresh"
        /\ held' = held \cup {req[r].fresh} /\ RecordEnd("refresh", req[r].subject)
        /\ req[r].subject \in Jti
    BY <1>6, Typed DEF RecordRefresh, ActingPhase
  <2>2. /\ audit \subseteq audit' /\ accident \subseteq accident'
        /\ \A k \in Jti : AboutToRecord(r, k) => Traced(k)'
    BY <2>1, AccidentGrows DEF AboutToRecord
  <2> QED BY <2>1, <2>2, States, TraceStep
<1>7. ASSUME NEW r \in Request, NEW j \in Jti, NEW marked, NEW unsure,
             \/ RevokeRow(j) /\ UNCHANGED accident /\ Become(r, marked)
             \/ RevokeUnsure(j) /\ Become(r, unsure),
             marked.phase \in {"recordLogout", "recordSwept"}, marked.subject = j,
             unsure.phase \in QuietPhase, req[r].phase \in QuietPhase, UNCHANGED <<held, audit>>
      PROVE  TInv'
  <2>1. \A k \in Jti : ~AboutToRecord(r, k)
    BY <1>7 DEF AboutToRecord
  <2>2. CASE RevokeRow(j) /\ UNCHANGED accident /\ Become(r, marked)
    <3>1. req'[r] = marked
      BY <2>2, Typed DEF Become
    <3>2. Traced(j)'
      BY <1>7, <3>1 DEF Traced, AboutToRecord
    <3>3. /\ \A k \in Jti \ {j} : row'[k] = row[k]
          /\ row[j] # "absent" /\ row'[j] = "revoked"
      BY <2>2, Typed DEF RevokeRow
    <3>4. /\ \A k \in Jti : row[k] # "absent" => row'[k] # "absent"
          /\ \A k \in Jti : row[k] = "active" => row'[k] = "active" \/ Traced(k)'
          /\ \A k \in Jti : row[k] # "active" => row'[k] = row[k] \/ row'[k] = "active"
      BY <3>2, <3>3, Typed
    <3> QED BY <1>7, <2>1, <2>2, <3>4, TraceStep
  <2>3. CASE RevokeUnsure(j) /\ Become(r, unsure)
    <3>1. CASE UNCHANGED <<row, accident>>
      BY <1>7, <2>1, <2>3, <3>1, TraceStep
    <3>2. CASE RevokeRow(j) /\ accident' = accident \cup {j}
      <4>1. Traced(j)' /\ accident \subseteq accident'
        BY <3>2 DEF Traced
      <4>2. /\ \A k \in Jti \ {j} : row'[k] = row[k]
            /\ row[j] # "absent" /\ row'[j] = "revoked"
        BY <3>2, Typed DEF RevokeRow
      <4>3. /\ \A k \in Jti : row[k] # "absent" => row'[k] # "absent"
            /\ \A k \in Jti : row[k] = "active" => row'[k] = "active" \/ Traced(k)'
            /\ \A k \in Jti : row[k] # "active" => row'[k] = row[k] \/ row'[k] = "active"
        BY <4>1, <4>2, Typed
      <4> QED BY <1>7, <2>1, <2>3, <4>1, <4>3, TraceStep
    <3> QED BY <2>3, <3>1, <3>2 DEF RevokeUnsure
  <2> QED BY <1>7, <2>2, <2>3
<1>8. ASSUME NEW r \in Request, Logout(r) PROVE TInv'
  <2> DEFINE state == [req[r] EXCEPT !.phase = "recordLogout"]
             j == req[r].subject
  <2>1. /\ req[r].phase = "logout" /\ UNCHANGED <<held, audit>> /\ j \in Jti
        /\ \/ RevokeRow(j) /\ UNCHANGED accident /\ Become(r, state)
           \/ RevokeUnsure(j) /\ Become(r, Idle)
    BY <1>8, Typed DEF Logout, Enter, ActingPhase
  <2>2. state.phase = "recordLogout" /\ state.subject = j /\ Idle.phase = "idle"
    BY States DEF Phase
  <2> HIDE DEF state
  <2> QED BY <1>7, <2>1, <2>2
<1>9. ASSUME NEW r \in Request, NEW j \in Jti, SweepOne(r, j) PROVE TInv'
  <2> DEFINE rest == [req[r] EXCEPT !.todo = @ \ {j}]
             state == [rest EXCEPT !.phase = "recordSwept", !.subject = j]
  <2>1. /\ req[r].phase = "sweep" /\ UNCHANGED <<held, audit>>
        /\ \/ RevokeRow(j) /\ UNCHANGED accident /\ Become(r, state)
           \/ RevokeUnsure(j) /\ Become(r, rest)
    BY <1>9 DEF SweepOne
  <2>2. rest.phase = "sweep" /\ state.phase = "recordSwept" /\ state.subject = j
    BY <2>1, States
  <2> HIDE DEF rest, state
  <2> QED BY <1>7, <2>1, <2>2
<1>10. ASSUME NEW r \in Request, RecordLogout(r) \/ RecordSwept(r) PROVE TInv'
  <2>1. PICK state : Become(r, state) /\ state.phase \in QuietPhase
    BY <1>10, GoesOnAs DEF Logout, RecordLogout, RecordSwept
  <2>2. /\ UNCHANGED <<row, held>> /\ req[r].phase \in {"recordLogout", "recordSwept"}
        /\ RecordEnd("logout", req[r].subject) /\ req[r].subject \in Jti
    BY <1>10, Typed DEF RecordLogout, RecordSwept, ActingPhase
  <2>3. /\ audit \subseteq audit' /\ accident \subseteq accident'
        /\ \A k \in Jti : AboutToRecord(r, k) => Traced(k)'
    BY <2>2, AccidentGrows DEF AboutToRecord
  <2> QED BY <2>1, <2>2, <2>3, TraceStep
<1>11. CASE UNCHANGED <<row, held, req, audit, accident>>
  BY <1>11 DEF TInv, NoSilentEnd, HasRow, Active, AboutToRecord
<1> QED BY <1>1, <1>2, <1>3, <1>4, <1>5, <1>6, <1>8, <1>9, <1>10, <1>11, StepCases DEF Next, vars

(* A bearer works until it expires, unless the trail has its logout or its *)
(* refresh or a request is about to record it, with any number of          *)
(* refreshes, logouts and sweeps under way and the store failing or not:   *)
(* only a lost row, a lost record, a revocation the store denied or a      *)
(* worker stopped before the record ends it without a trace (mintSession;  *)
(* rotate; revoke; revokeAllForOrganisation).                              *)
THEOREM NothingEndsSilently == Spec => []NoSilentEnd
<1>1. Init => TInv
  <2> SUFFICES ASSUME Init PROVE TInv
    OBVIOUS
  <2>1. Idle.phase = "idle"
    BY DEF Idle
  <2> QED BY <2>1 DEF Init, TInv, NoSilentEnd, HasRow, AnsweringPhase
<1>2. TInv => NoSilentEnd
  BY DEF TInv
<1> QED  BY <1>1, <1>2, Invariance, NextTraced, PTL DEF Spec

-----------------------------------------------------------------------------
(* What a store that always answers adds: a token being minted knows the   *)
(* bearer it replaces, which is revoked before the new one is handed out.  *)

IdleKnowsNothing == \A r \in Request : req[r].phase = "idle" => req[r].subject = NoJti

FreshReplaces == \A r \in Request : Minting(r) => token[req[r].fresh].parent = req[r].subject

(* Before the answer, a login has nothing to replace and a rotation has    *)
(* revoked what it replaces.                                               *)
AnswerIsSafe ==
  \A r \in Request :
    /\ req[r].phase = "recordLogin" => req[r].subject = NoJti
    /\ req[r].phase = "recordRefresh" => row[req[r].subject] = "revoked"

ReplacedIsRevoked ==
  \A j \in held : token[j].parent # NoJti => row[token[j].parent] = "revoked"

RInv == IdleKnowsNothing /\ FreshReplaces /\ AnswerIsSafe /\ ReplacedIsRevoked

LEMMA InitReliable == Init => RInv
<1> SUFFICES ASSUME Init PROVE RInv
  OBVIOUS
<1>1. Idle.phase = "idle" /\ Idle.subject = NoJti
  BY DEF Idle
<1> QED BY <1>1 DEF Init, RInv, IdleKnowsNothing, FreshReplaces, AnswerIsSafe, ReplacedIsRevoked,
                    Minting, MintingPhase

(* A step that signs nothing, and answers only from the last phase.        *)
LEMMA ReliableStep ==
  ASSUME IInv, RInv, NEW r \in Request, NEW state, Become(r, state), token' = token,
         \A j \in Jti : row[j] = "revoked" => row'[j] = "revoked",
         state.phase = "idle" => state.subject = NoJti,
         state.phase \in MintingPhase =>
           Minting(r) /\ state.fresh = req[r].fresh /\ state.subject = req[r].subject,
         state.phase = "recordLogin" => state.subject = NoJti,
         state.phase = "recordRefresh" => row'[state.subject] = "revoked",
         \/ held' = held
         \/ req[r].phase \in {"recordLogin", "recordRefresh"} /\ held' = held \cup {req[r].fresh}
  PROVE  RInv'
<1>1. req'[r] = state /\ \A s \in Request \ {r} : req'[s] = req[s]
  BY Typed DEF Become
<1>2. IdleKnowsNothing'
  BY <1>1 DEF RInv, IdleKnowsNothing
<1>3. FreshReplaces'
  BY <1>1 DEF RInv, FreshReplaces, Minting
<1>4. AnswerIsSafe'
  BY <1>1, Typed DEF RInv, AnswerIsSafe, ActingPhase
<1>5. ReplacedIsRevoked'
  <2>1. \A j \in held : token[j].parent # NoJti => row'[token[j].parent] = "revoked"
    BY Typed DEF RInv, ReplacedIsRevoked
  <2>2. ASSUME req[r].phase \in {"recordLogin", "recordRefresh"}, token[req[r].fresh].parent # NoJti
        PROVE  row'[token[req[r].fresh].parent] = "revoked"
    <3>1. token[req[r].fresh].parent = req[r].subject
      BY <2>2 DEF RInv, FreshReplaces, Minting, MintingPhase
    <3>2. req[r].phase = "recordRefresh" /\ row[req[r].subject] = "revoked" /\ req[r].subject \in Jti
      BY <2>2, <3>1, Typed DEF RInv, AnswerIsSafe, ActingPhase
    <3> QED BY <3>1, <3>2
  <2> QED BY <2>1, <2>2 DEF ReplacedIsRevoked
<1> QED BY <1>2, <1>3, <1>4, <1>5 DEF RInv

LEMMA MintReliable ==
  ASSUME IInv, RInv,
         NEW r \in Request, NEW j \in Jti, NEW claims, Mint(r, j, claims),
         claims.parent = req[r].subject
  PROVE  RInv'
<1>1. /\ token'[j] = claims /\ (\A k \in Jti \ {j} : token'[k] = token[k])
      /\ j \notin minted /\ UNCHANGED <<row, held, audit>>
  BY Typed DEF Mint
<1>2. /\ req'[r].phase = "store" /\ req'[r].fresh = j /\ req'[r].subject = req[r].subject
      /\ \A s \in Request \ {r} : req'[s] = req[s]
  BY Typed, States DEF Mint, Become
<1>3. IdleKnowsNothing' /\ AnswerIsSafe'
  BY <1>1, <1>2 DEF RInv, IdleKnowsNothing, AnswerIsSafe
<1>4. FreshReplaces'
  <2>1. \A s \in Request \ {r} : Minting(s)' => Minting(s) /\ req[s].fresh \in minted
    BY <1>2 DEF Minting, IInv, FreshTokens
  <2>2. \A s \in Request \ {r} : Minting(s)' => token'[req'[s].fresh] = token[req[s].fresh]
    BY <2>1, <1>1, <1>2, Typed
  <2> QED  BY <2>1, <2>2, <1>1, <1>2 DEF RInv, FreshReplaces
<1>5. ReplacedIsRevoked'
  BY <1>1, Typed DEF RInv, ReplacedIsRevoked
<1> QED  BY <1>3, <1>4, <1>5 DEF RInv

LEMMA NextReliable == ~storeMayFail /\ IInv /\ RInv /\ [Next]_vars => RInv'
<1> SUFFICES ASSUME ~storeMayFail, IInv, RInv, [Next]_vars PROVE RInv'
  OBVIOUS
<1>0. \A j \in Jti : row[j] = "revoked" => row'[j] = "revoked"
  BY RowsStep
<1>1. ASSUME NEW r \in Request, NEW j \in Jti, NEW claims, Mint(r, j, claims),
             \/ req[r].phase = "idle" /\ claims.parent = NoJti
             \/ req[r].phase = "rotate" /\ claims.parent = req[r].subject
      PROVE  RInv'
  BY <1>1, MintReliable DEF RInv, IdleKnowsNothing
<1>2. ASSUME NEW r \in Request, Quiet(r) PROVE RInv'
  <2>1. PICK state : Become(r, state) /\ state.phase \in QuietPhase
                     /\ (state.phase = "idle" => state.subject = NoJti)
    BY <1>2 DEF Quiet
  <2> QED BY <1>0, <1>2, <2>1, ReliableStep DEF Quiet, QuietPhase, MintingPhase
<1>3. ASSUME NEW r \in Request, StoreRow(r) PROVE RInv'
  <2> DEFINE phase == IF req[r].subject = NoJti THEN "recordLogin" ELSE "retire"
             state == [req[r] EXCEPT !.phase = phase]
  <2>1. phase \in Phase /\ phase # "idle" /\ phase # "recordRefresh"
        /\ (phase = "recordLogin" => req[r].subject = NoJti)
    BY DEF Phase
  <2>2. Become(r, state) /\ UNCHANGED <<held, token>> /\ Minting(r)
    BY <1>3 DEF StoreRow, Enter, Minting, MintingPhase
  <2> HIDE DEF phase
  <2>3. state.phase = phase /\ state.fresh = req[r].fresh /\ state.subject = req[r].subject
    BY <2>1, States
  <2> HIDE DEF state
  <2> QED BY <1>0, <2>1, <2>2, <2>3, ReliableStep
<1>4. ASSUME NEW r \in Request, RecordLogin(r) \/ RecordRefresh(r) PROVE RInv'
  <2>1. /\ Become(r, Idle) /\ token' = token /\ req[r].phase \in {"recordLogin", "recordRefresh"}
        /\ held' = held \cup {req[r].fresh}
    BY <1>4 DEF RecordLogin, RecordRefresh
  <2> QED BY <1>0, <2>1, States, ReliableStep DEF MintingPhase
<1>5. ASSUME NEW r \in Request, Retire(r) PROVE RInv'
  <2> DEFINE state == [req[r] EXCEPT !.phase = "recordRefresh"]
  <2>1. /\ Become(r, state) /\ UNCHANGED <<held, token>> /\ Minting(r) /\ req[r].subject \in Jti
        /\ RevokeRow(req[r].subject)
    BY <1>5, Typed DEF Retire, Enter, Minting, MintingPhase, ActingPhase
  <2>2. state.phase = "recordRefresh" /\ state.fresh = req[r].fresh /\ state.subject = req[r].subject
    BY States DEF Phase
  <2>3. row'[req[r].subject] = "revoked"
    BY <2>1, Typed DEF RevokeRow
  <2> HIDE DEF state
  <2> QED BY <1>0, <2>1, <2>2, <2>3, ReliableStep
<1>6. ASSUME NEW r \in Request, Logout(r) \/ RecordLogout(r) \/ RecordSwept(r)
                                \/ \E j \in Jti : SweepOne(r, j)
      PROVE  RInv'
  <2>1. PICK state : /\ Become(r, state)
                     /\ state.phase \in {"idle", "recordLogout", "sweep", "recordSwept"}
                     /\ state.phase = "idle" => state.subject = NoJti
    BY <1>6, GoesOnAs
  <2>2. UNCHANGED <<held, token>>
    BY <1>6 DEF Logout, RecordLogout, RecordSwept, SweepOne
  <2> QED BY <1>0, <2>1, <2>2, ReliableStep DEF MintingPhase
<1>7. CASE UNCHANGED <<token, row, held, req, audit>>
  BY <1>7 DEF RInv, IdleKnowsNothing, FreshReplaces, Minting, AnswerIsSafe, ReplacedIsRevoked
<1> QED  BY <1>1, <1>2, <1>3, <1>4, <1>5, <1>6, <1>7, StepCases DEF Next, vars

LEMMA ReliableInvariance == Spec => [](~storeMayFail => RInv)
<1>1. IInv /\ (~storeMayFail => RInv) /\ [Next]_vars => (~storeMayFail => RInv)'
  BY NextReliable DEF Next, vars
<1> QED  BY InitReliable, Invariance, <1>1, PTL DEF Spec

(* With a store that answers, the bearer that a rotation replaced is dead  *)
(* once the rotation has answered, however many of them ran at once.       *)
THEOREM ReplacedBearersDie == Spec => []OldBearerDiesReliably
<1>1. (~storeMayFail => RInv) => OldBearerDiesReliably
  BY DEF RInv, ReplacedIsRevoked, OldBearerDiesReliably, Active
<1> QED  BY ReliableInvariance, <1>1, PTL

-----------------------------------------------------------------------------
(* A sweep of a tenant that fits its page has every row it found active    *)
(* still to do, or revoked.                                                *)

Fits == IsFiniteSet(minted) /\ Cardinality(minted) <= RevokeLimit

SweepPhase == {"sweep", "recordSwept"}
SweptOrLeft ==
  \A r \in Request : req[r].phase \in SweepPhase =>
    \A j \in req[r].present : j \in req[r].todo \/ row[j] = "revoked"

SweepInv == IsFiniteSet(minted) /\ (~storeMayFail /\ Fits => SweptOrLeft)

(* Tokens are minted one at a time, so what fits now has always fitted.    *)
LEMMA MintedGrows ==
  ASSUME IsFiniteSet(minted), [Next]_vars
  PROVE  /\ minted \subseteq minted' /\ IsFiniteSet(minted')
         /\ Fits' => Fits
<1>1. minted' = minted \/ \E j \in Jti : minted' = minted \cup {j}
  BY DEF Next, Step, Login, ReferenceLogin, Mint, StoreRow, RecordLogin, StartRefresh,
             StartRebranch, Rotate, RefuseRotate, Retire, RecordRefresh, StartLogout, Logout,
             RecordLogout, StartSweep, SweepOne, RecordSwept, SweepDone, Stop, Tick, vars
<1>2. minted \subseteq minted' /\ IsFiniteSet(minted')
  BY <1>1, FS_AddElement
<1>3. Cardinality(minted) <= Cardinality(minted')
  BY <1>2, FS_Subset
<1>4. Cardinality(minted) \in Nat /\ Cardinality(minted') \in Nat /\ RevokeLimit \in Nat
  BY <1>2, FS_CardinalityType, SessionConstants
<1> QED  BY <1>2, <1>3, <1>4 DEF Fits

(* A page that may hold all the rows does.                                 *)
LEMMA PageIsWhole ==
  ASSUME Fits, NEW rows, rows \subseteq minted, NEW page, page \subseteq rows,
         page # rows => Cardinality(page) = RevokeLimit
  PROVE  page = rows
<1>1. ASSUME page # rows PROVE FALSE
  <2>1. page \subseteq minted /\ page # minted
    BY <1>1
  <2>2. Cardinality(page) <= Cardinality(minted) /\ Cardinality(page) # Cardinality(minted)
    BY <2>1, FS_Subset DEF Fits
  <2>3. Cardinality(minted) \in Nat /\ RevokeLimit \in Nat
    BY FS_CardinalityType, SessionConstants DEF Fits
  <2> QED  BY <1>1, <2>2, <2>3 DEF Fits
<1> QED  BY <1>1

LEMMA SweepNext == IInv /\ SweepInv /\ [Next]_vars => SweepInv'
<1> SUFFICES ASSUME IInv, SweepInv, [Next]_vars PROVE SweepInv'
  OBVIOUS
<1>1. IsFiniteSet(minted') /\ (Fits' => Fits) /\ storeMayFail' = storeMayFail
  BY MintedGrows DEF SweepInv, Next, vars
<1> SUFFICES ASSUME Fits, ~storeMayFail, NEW r \in Request, req'[r].phase \in SweepPhase,
                    NEW j \in req'[r].present
             PROVE  j \in req'[r].todo \/ row'[j] = "revoked"
  BY <1>1 DEF SweepInv, SweptOrLeft
<1> USE DEF SweepPhase
<1>2. /\ req \in [Request -> RequestState] /\ minted \subseteq Jti
      /\ row \in [Jti -> {"absent", "active", "revoked"}]
  BY DEF IInv, TypeOK
<1>3. \A k \in Jti : row[k] = "revoked" => row'[k] = "revoked"
  BY RowsStep
<1>4. ASSUME req[r].phase \in SweepPhase, req'[r].present = req[r].present,
             req[r].todo \subseteq req'[r].todo
      PROVE  j \in req'[r].todo \/ row'[j] = "revoked"
  <2>1. j \in Jti /\ (j \in req[r].todo \/ row[j] = "revoked")
    BY <1>2, <1>4 DEF SweepInv, SweptOrLeft, RequestState
  <2> QED  BY <1>3, <1>4, <2>1
<1>5. ASSUME NEW o \in Org, StartSweep(r, o) PROVE j \in req'[r].todo \/ row'[j] = "revoked"
  <2> DEFINE rows == {k \in minted : token[k].org = o /\ row[k] # "absent"}
  <2>1. PICK page \in SUBSET rows :
          /\ page # rows => Cardinality(page) = RevokeLimit
          /\ Become(r, [Idle EXCEPT !.phase = "sweep", !.todo = {k \in page : Active(k)},
                                    !.present = {k \in rows : Active(k)}])
    BY <1>5 DEF StartSweep
  <2>2. page = rows
    BY <2>1, PageIsWhole
  <2>3. req'[r].todo = req'[r].present
    BY <1>2, <2>1, <2>2 DEF Become, Idle
  <2> QED  BY <2>3
<1>6. ASSUME NEW k \in Jti, SweepOne(r, k) PROVE j \in req'[r].todo \/ row'[j] = "revoked"
  <2>1. /\ req'[r].todo = req[r].todo \ {k} /\ req'[r].present = req[r].present
        /\ req[r].phase = "sweep" /\ RevokeRow(k)
    BY <1>2, <1>6 DEF SweepOne, RevokeUnsure, Become, RequestState
  <2>2. row'[k] = "revoked"
    BY <1>2, <2>1 DEF RevokeRow
  <2>3. j \in Jti /\ (j \in req[r].todo \/ row[j] = "revoked")
    BY <1>2, <2>1 DEF SweepInv, SweptOrLeft, RequestState
  <2> QED  BY <1>3, <2>1, <2>2, <2>3
<1>7. ASSUME RecordSwept(r) PROVE j \in req'[r].todo \/ row'[j] = "revoked"
  <2>1. /\ req[r].phase = "recordSwept" /\ req'[r].present = req[r].present
        /\ req'[r].todo = req[r].todo
    BY <1>2, <1>7 DEF RecordSwept, Become, RequestState
  <2> QED BY <1>4, <2>1
<1>8. ASSUME req'[r] = req[r] PROVE j \in req'[r].todo \/ row'[j] = "revoked"
  BY <1>4, <1>8
<1>9. ASSUME NEW s \in Request, NEW state, Become(s, state), s # r \/ state.phase \notin SweepPhase
      PROVE  j \in req'[r].todo \/ row'[j] = "revoked"
  BY <1>2, <1>8, <1>9 DEF Become
<1>10. ASSUME NEW s \in Request, NEW k \in Jti, NEW claims, Mint(s, k, claims)
       PROVE  j \in req'[r].todo \/ row'[j] = "revoked"
  <2> DEFINE state == [req[s] EXCEPT !.phase = "store", !.fresh = k]
  <2>1. Become(s, state) /\ state.phase = "store"
    BY <1>10, States DEF Mint
  <2> HIDE DEF state
  <2> QED BY <1>9, <2>1
<1>11. ASSUME NEW s \in Request,
              \/ \E k \in Jti, o \in Org, b \in Branch \cup {NoBranch} : Login(s, k, o, b)
              \/ \E k \in Jti, o \in Org : ReferenceLogin(s, k, o)
              \/ \E k \in Jti : Rotate(s, k)
       PROVE  j \in req'[r].todo \/ row'[j] = "revoked"
  BY <1>10, <1>11 DEF Login, ReferenceLogin, Rotate
<1>12. ASSUME NEW s \in Request,
              \/ StoreRow(s) \/ RecordLogin(s) \/ RefuseRotate(s) \/ Retire(s) \/ RecordRefresh(s)
              \/ Logout(s) \/ RecordLogout(s) \/ SweepDone(s) \/ Stop(s)
              \/ \E k \in Jti : StartRefresh(s, k) \/ StartLogout(s, k)
              \/ \E k \in Jti, b \in Branch \cup {NoBranch} : StartRebranch(s, k, b)
       PROVE  j \in req'[r].todo \/ row'[j] = "revoked"
  <2>1. PICK state : Become(s, state) /\ state.phase \notin SweepPhase
    <3>1. CASE StoreRow(s) \/ Retire(s)
      <4>1. PICK phase \in Phase \ SweepPhase : Become(s, [req[s] EXCEPT !.phase = phase])
        BY <3>1 DEF StoreRow, Retire, Enter, Phase
      <4> DEFINE state == [req[s] EXCEPT !.phase = phase]
      <4>2. state.phase = phase
        BY States
      <4> HIDE DEF state
      <4> QED BY <4>1, <4>2 DEF state
    <3>2. CASE RecordLogin(s) \/ RefuseRotate(s) \/ RecordRefresh(s) \/ RecordLogout(s)
               \/ SweepDone(s) \/ Stop(s)
      BY <3>2, States DEF RecordLogin, RefuseRotate, RecordRefresh, RecordLogout, SweepDone, Stop
    <3>3. CASE Logout(s)
      BY <3>3, GoesOnAs DEF Logout
    <3>4. CASE \/ \E k \in Jti : StartRefresh(s, k) \/ StartLogout(s, k)
               \/ \E k \in Jti, b \in Branch \cup {NoBranch} : StartRebranch(s, k, b)
      BY <3>4, StartsAre
    <3> QED BY <1>12, <3>1, <3>2, <3>3, <3>4
  <2> QED BY <1>9, <2>1
<1>13. ASSUME NEW s \in Request, NEW o \in Org, StartSweep(s, o)
       PROVE  j \in req'[r].todo \/ row'[j] = "revoked"
  BY <1>5, <1>9, <1>13 DEF StartSweep
<1>14. ASSUME NEW s \in Request, RecordSwept(s) \/ \E k \in Jti : SweepOne(s, k)
       PROVE  j \in req'[r].todo \/ row'[j] = "revoked"
  BY <1>6, <1>7, <1>9, <1>14, GoesOnAs
<1>15. CASE Tick \/ UNCHANGED vars
  BY <1>8, <1>15 DEF Tick, vars
<1> QED  BY <1>11, <1>12, <1>13, <1>14, <1>15 DEF Next, Step

(* With a store that answers, a sweep of a tenant that fits its page       *)
(* answers with every row it found active revoked, whatever logins,        *)
(* rotations and logouts any number of workers ran meanwhile               *)
(* (revokeAllForOrganisation, 936-986).                                    *)
THEOREM SweepsRevokeAll == Spec => []SweepRevokesReliably
<1>1. Init => SweepInv
  <2>1. ASSUME Init PROVE SweptOrLeft /\ minted = {}
    BY <2>1 DEF Init, SweptOrLeft, Idle
  <2> QED  BY <2>1, FS_EmptySet DEF SweepInv
<1>2. SweepInv => SweepRevokesReliably
  BY DEF SweepInv, Fits, SweptOrLeft, SweepPhase, SweepRevokesReliably
<1> QED  BY <1>1, <1>2, Invariance, SweepNext, PTL DEF Spec
=============================================================================
