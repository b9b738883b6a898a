--------------------------- MODULE PortalSession ---------------------------
(***************************************************************************)
(* The bearer sessions of the portal (lib/Service/PortalSessionService.php *)
(* and PortalJwtService.php): login, sliding refresh, branch switch,       *)
(* logout and the administrator's revocation of a whole organisation.      *)
(*                                                                         *)
(* A bearer is a signed token whose claims never change; whether it still  *)
(* counts is decided by its portalSession row in OpenRegister.  PHP        *)
(* requests share nothing but that store, so a request is a record holding *)
(* what it has read so far, requests interleave between two calls of the   *)
(* store, and a worker may stop between them. A call that fails may have   *)
(* been carried out all the same. The signing secret is configured         *)
(* (without it every operation answers null); subject, trust, roles and    *)
(* provider are copied from token to token and are left out.               *)
(***************************************************************************)
EXTENDS Integers, FiniteSets

CONSTANTS
  Jti,           \* the token ids the generator hands out
  NoJti,
  Request,       \* PHP workers, each serving one request at a time
  Org,           \* tenants
  NoOrg,
  Branch,        \* branch numbers of a company
  NoBranch,
  IdleTimeout,   \* session_idle_timeout, in ticks
  MaxLifetime,   \* session_max_lifetime, in ticks
  ReferenceTtl,  \* PortalJwtService::REFERENCE_TTL, in ticks
  RevokeLimit,   \* the page revokeAllForOrganisation reads (500)
  MaxTime        \* bound: the clock stops here

ASSUME SessionConstants ==
  /\ NoJti \notin Jti
  /\ NoOrg \notin Org
  /\ NoBranch \notin Branch
  /\ IdleTimeout \in Nat \ {0}
  /\ MaxLifetime \in Nat \ {0}
  /\ ReferenceTtl \in Nat \ {0}
  /\ RevokeLimit \in Nat
  /\ MaxTime \in Nat

VARIABLES
  now,      \* the server's clock
  minted,   \* the token ids generated so far
  token,    \* the claims signed for each minted token id
  row,      \* the portalSession row of each token id
  held,     \* the bearers some client has received
  req,      \* what each request is doing
  audit,    \* the audit trail: <<verb, token id>>
  accident, \* history: bearers whose row or whose record of the end went missing
  storeMayFail  \* fixed at the start: whether a call to OpenRegister may fail

vars == <<now, minted, token, row, held, req, audit, accident, storeMayFail>>

Use == {"", "reference"}

(* "parent" and "login" are history: the bearer a rotation started from,   *)
(* and the bearer of the login that began the chain.                       *)
Claims == [org : Org \cup {NoOrg}, use : Use, authTime : Nat, exp : Nat,
           branch : Branch \cup {NoBranch}, restricted : BOOLEAN,
           parent : Jti \cup {NoJti}, login : Jti \cup {NoJti}]

NoClaims == [org |-> NoOrg, use |-> "", authTime |-> 0, exp |-> 0,
             branch |-> NoBranch, restricted |-> FALSE,
             parent |-> NoJti, login |-> NoJti]

Phase == {"idle", "rotate", "store", "recordLogin", "retire", "recordRefresh",
          "logout", "recordLogout", "sweep", "recordSwept"}

(* "present" is history: the rows that were active when a sweep read.      *)
RequestState == [phase : Phase, subject : Jti \cup {NoJti},
                 fresh : Jti \cup {NoJti}, branch : Branch \cup {NoBranch},
                 todo : SUBSET Jti, present : SUBSET Jti]

Idle == [phase |-> "idle", subject |-> NoJti, fresh |-> NoJti,
         branch |-> NoBranch, todo |-> {}, present |-> {}]

-----------------------------------------------------------------------------

Init ==
  /\ now = 1
  /\ minted = {}
  /\ token = [j \in Jti |-> NoClaims]
  /\ row = [j \in Jti |-> "absent"]
  /\ held = {}
  /\ req = [r \in Request |-> Idle]
  /\ audit = {}
  /\ accident = {}
  /\ storeMayFail \in BOOLEAN

(* A bearer the service accepts: signed, a session token, not expired, and *)
(* its row is there and not revoked.                                       *)
Unexpired(j) == token[j].exp >= now
Active(j) == row[j] = "active"
Usable(j) == j \in held /\ Unexpired(j) /\ Active(j)
Resolves(j) == Usable(j) /\ token[j].use = ""

(* The audit trail swallows its own failures: a record may be lost.        *)
Record(verb, j) ==
  \/ audit' = audit \cup {<<verb, j>>}
  \/ storeMayFail /\ audit' = audit

RecordEnd(verb, j) ==
  /\ Record(verb, j)
  /\ accident' = IF <<verb, j>> \in audit' THEN accident ELSE accident \cup {j}

(* Revoking finds the row and rewrites it with revoked = true.             *)
RevokeRow(j) == row[j] # "absent" /\ row' = [row EXCEPT ![j] = "revoked"]

Become(r, state) == req' = [req EXCEPT ![r] = state]
Enter(r, phase) == Become(r, [req[r] EXCEPT !.phase = phase])

MintReusingIds(r, j, claims) ==
  /\ minted' = minted \cup {j}
  /\ token' = [token EXCEPT ![j] = claims]
  /\ Become(r, [req[r] EXCEPT !.phase = "store", !.fresh = j])
  /\ UNCHANGED <<now, row, held, audit, accident>>

(* Sign a token under a fresh id and go on to write its row.               *)
Mint(r, j, claims) ==
  /\ j \in Jti \ minted
  /\ minted' = minted \cup {j}
  /\ token' = [token EXCEPT ![j] = claims]
  /\ Become(r, [req[r] EXCEPT !.phase = "store", !.fresh = j])
  /\ UNCHANGED <<now, row, held, audit, accident>>

-----------------------------------------------------------------------------

(* issueSession, up to the row: a login may fix the session to a branch.   *)
Login(r, j, o, b) ==
  /\ req[r].phase = "idle"
  /\ Mint(r, j, [org |-> o, use |-> "", authTime |-> now,
                 exp |-> now + IdleTimeout, branch |-> b,
                 restricted |-> b # NoBranch, parent |-> NoJti, login |-> j])

(* issueReferenceSession: read access to one case, without an account.     *)
ReferenceLogin(r, j, o) ==
  /\ req[r].phase = "idle"
  /\ Mint(r, j, [org |-> o, use |-> "reference", authTime |-> 0,
                 exp |-> now + ReferenceTtl, branch |-> NoBranch,
                 restricted |-> FALSE, parent |-> NoJti, login |-> j])

(* createObject: the result is not looked at, so a token may have no row.  *)
StoreRow(r) ==
  LET j == req[r].fresh IN
  /\ req[r].phase = "store"
  /\ \/ row' = [row EXCEPT ![j] = "active"] /\ UNCHANGED accident
     \/ storeMayFail /\ UNCHANGED row /\ accident' = accident \cup {j}
  /\ Enter(r, IF req[r].subject = NoJti THEN "recordLogin" ELSE "retire")
  /\ UNCHANGED <<now, minted, token, held, audit>>

(* A login answers here; a rotation went on to retire the old bearer.      *)
RecordLogin(r) ==
  /\ req[r].phase = "recordLogin"
  /\ Record("login", req[r].fresh)
  /\ held' = held \cup {req[r].fresh}
  /\ Become(r, Idle)
  /\ UNCHANGED <<now, minted, token, row, accident>>

(* refreshSession: resolve the bearer; the branch is carried over.         *)
StartRefresh(r, j) ==
  /\ req[r].phase = "idle"
  /\ Resolves(j)
  /\ Become(r, [Idle EXCEPT !.phase = "rotate", !.subject = j, !.branch = token[j].branch])
  /\ UNCHANGED <<now, minted, token, row, held, audit, accident>>

(* rebranchSession: a session its login fixed to a branch is refused.      *)
StartRebranch(r, j, b) ==
  /\ req[r].phase = "idle"
  /\ Resolves(j)
  /\ ~token[j].restricted
  /\ Become(r, [Idle EXCEPT !.phase = "rotate", !.subject = j, !.branch = b])
  /\ UNCHANGED <<now, minted, token, row, held, audit, accident>>

RotateAsLogin(r, j) ==
  LET old == token[req[r].subject] IN
  /\ req[r].phase = "rotate"
  /\ now - old.authTime < MaxLifetime
  /\ Mint(r, j, [old EXCEPT !.exp = now + IdleTimeout, !.branch = req[r].branch,
                            !.parent = req[r].subject, !.authTime = now])

(* rotate, first half: the cap is measured from the login, then mint.      *)
Rotate(r, j) ==
  LET old == token[req[r].subject] IN
  /\ req[r].phase = "rotate"
  /\ old.authTime > 0
  /\ now - old.authTime < MaxLifetime
  /\ Mint(r, j, [old EXCEPT !.exp = now + IdleTimeout, !.branch = req[r].branch,
                            !.parent = req[r].subject])

RefuseRotate(r) ==
  LET old == token[req[r].subject] IN
  /\ req[r].phase = "rotate"
  /\ old.authTime = 0 \/ now - old.authTime >= MaxLifetime
  /\ Become(r, Idle)
  /\ UNCHANGED <<now, minted, token, row, held, audit, accident>>

RetireNothing(r) ==
  /\ req[r].phase = "retire"
  /\ Enter(r, "recordRefresh")
  /\ UNCHANGED <<now, minted, token, row, held, audit, accident>>

(* rotate, second half: revoke the old bearer, ignoring a failure.         *)
Retire(r) ==
  /\ req[r].phase = "retire"
  /\ RevokeRow(req[r].subject) \/ (storeMayFail /\ UNCHANGED row)
  /\ Enter(r, "recordRefresh")
  /\ UNCHANGED <<now, minted, token, held, audit, accident>>

(* Record the refresh, and answer with the new bearer.                     *)
RecordRefresh(r) ==
  /\ req[r].phase = "recordRefresh"
  /\ RecordEnd("refresh", req[r].subject)
  /\ held' = held \cup {req[r].fresh}
  /\ Become(r, Idle)
  /\ UNCHANGED <<now, minted, token, row>>

(* logout: resolve, then revoke; the client is told "ok" either way.       *)
StartLogout(r, j) ==
  /\ req[r].phase = "idle"
  /\ Resolves(j)
  /\ Become(r, [Idle EXCEPT !.phase = "logout", !.subject = j])
  /\ UNCHANGED <<now, minted, token, row, held, audit, accident>>

LogoutUnrecorded(r) ==
  /\ req[r].phase = "logout"
  /\ RevokeRow(req[r].subject)
  /\ Become(r, Idle)
  /\ UNCHANGED <<now, minted, token, held, audit, accident>>

(* A revocation that the store says failed is recorded by nobody, though   *)
(* the row may be revoked.                                                 *)
RevokeUnsure(j) ==
  /\ storeMayFail
  /\ \/ RevokeRow(j) /\ accident' = accident \cup {j}
     \/ UNCHANGED <<row, accident>>

Logout(r) ==
  /\ req[r].phase = "logout"
  /\ \/ RevokeRow(req[r].subject) /\ Enter(r, "recordLogout") /\ UNCHANGED accident
     \/ RevokeUnsure(req[r].subject) /\ Become(r, Idle)
  /\ UNCHANGED <<now, minted, token, held, audit>>

RecordLogout(r) ==
  /\ req[r].phase = "recordLogout"
  /\ RecordEnd("logout", req[r].subject)
  /\ Become(r, Idle)
  /\ UNCHANGED <<now, minted, token, row, held>>

StartSweepAccountsOnly(r, o) ==
  LET rows == {j \in minted : token[j].org = o /\ row[j] # "absent"} IN
  /\ req[r].phase = "idle"
  /\ Become(r, [Idle EXCEPT !.phase = "sweep",
                            !.todo = {j \in rows : Resolves(j)},
                            !.present = {j \in rows : Active(j)}])
  /\ UNCHANGED <<now, minted, token, row, held, audit, accident>>

(* revokeAllForOrganisation: one page of the tenant's rows, in no given    *)
(* order and revoked ones included, then a write for each that was active. *)
StartSweep(r, o) ==
  LET rows == {j \in minted : token[j].org = o /\ row[j] # "absent"} IN
  /\ req[r].phase = "idle"
  /\ \E page \in SUBSET rows :
       /\ Cardinality(page) <= RevokeLimit
       /\ page # rows => Cardinality(page) = RevokeLimit
       /\ Become(r, [Idle EXCEPT !.phase = "sweep",
                                 !.todo = {j \in page : Active(j)},
                                 !.present = {j \in rows : Active(j)}])
  /\ UNCHANGED <<now, minted, token, row, held, audit, accident>>

SweepOne(r, j) ==
  LET rest == [req[r] EXCEPT !.todo = @ \ {j}] IN
  /\ req[r].phase = "sweep"
  /\ j \in req[r].todo
  /\ \/ /\ RevokeRow(j) /\ UNCHANGED accident
        /\ Become(r, [rest EXCEPT !.phase = "recordSwept", !.subject = j])
     \/ RevokeUnsure(j) /\ Become(r, rest)
  /\ UNCHANGED <<now, minted, token, held, audit>>

RecordSwept(r) ==
  /\ req[r].phase = "recordSwept"
  /\ RecordEnd("logout", req[r].subject)
  /\ Become(r, [req[r] EXCEPT !.phase = "sweep", !.subject = NoJti])
  /\ UNCHANGED <<now, minted, token, row, held>>

SweepDone(r) ==
  /\ req[r].phase = "sweep"
  /\ req[r].todo = {}
  /\ Become(r, Idle)
  /\ UNCHANGED <<now, minted, token, row, held, audit, accident>>

(* The end of j is still to be recorded.                                   *)
AboutToRecord(r, j) ==
  req[r].phase \in {"recordRefresh", "recordLogout", "recordSwept"} /\ req[r].subject = j

(* The worker is killed: nothing more is done, and nobody is answered.     *)
Stop(r) ==
  /\ req[r] # Idle
  /\ Become(r, Idle)
  /\ accident' = accident \cup {j \in Jti : AboutToRecord(r, j)}
  /\ UNCHANGED <<now, minted, token, row, held, audit>>

Tick ==
  /\ now < MaxTime
  /\ now' = now + 1
  /\ UNCHANGED <<minted, token, row, held, req, audit, accident>>

Step ==
  \/ \E r \in Request :
       \/ \E j \in Jti, o \in Org, b \in Branch \cup {NoBranch} : Login(r, j, o, b)
       \/ \E j \in Jti, o \in Org : ReferenceLogin(r, j, o)
       \/ StoreRow(r) \/ RecordLogin(r)
       \/ \E j \in Jti : StartRefresh(r, j)
       \/ \E j \in Jti, b \in Branch \cup {NoBranch} : StartRebranch(r, j, b)
       \/ \E j \in Jti : Rotate(r, j)
       \/ RefuseRotate(r)
       \/ Retire(r) \/ RecordRefresh(r)
       \/ \E j \in Jti : StartLogout(r, j)
       \/ Logout(r) \/ RecordLogout(r)
       \/ \E o \in Org : StartSweep(r, o)
       \/ \E j \in Jti : SweepOne(r, j)
       \/ RecordSwept(r) \/ SweepDone(r)
       \/ Stop(r)
  \/ Tick

Next == Step /\ UNCHANGED storeMayFail

Spec == Init /\ [][Next]_vars

-----------------------------------------------------------------------------

(* Type correctness, with the bookkeeping the requests rely on: only       *)
(* minted ids have claims, rows or holders (mintSession, 357-417).         *)
TypeOK ==
  /\ now \in Nat \ {0}
  /\ minted \subseteq Jti
  /\ token \in [Jti -> Claims]
  /\ row \in [Jti -> {"absent", "active", "revoked"}]
  /\ held \subseteq minted
  /\ req \in [Request -> RequestState]
  /\ audit \subseteq {"login", "refresh", "logout"} \X Jti
  /\ accident \subseteq Jti
  /\ \A j \in Jti \ minted : row[j] = "absent"

(* However often it is refreshed, a bearer never outlives its login by     *)
(* more than the absolute cap and one idle window (rotate, 757; the token  *)
(* a rotation just inside the cap mints still lives a full window).        *)
LifetimeBounded ==
  \A j \in minted :
    token[j].use = "" =>
      token[j].exp < token[token[j].login].authTime + MaxLifetime + IdleTimeout

(* What a login fixed stays fixed along the whole chain of rotations: the  *)
(* tenant, the kind of session and a branch restriction are never widened  *)
(* (refreshSession, 694-703; rebranchSession, 724).                        *)
LoginConfinement ==
  \A j \in minted :
    LET login == token[token[j].login] IN
    /\ token[j].org = login.org
    /\ token[j].use = login.use
    /\ login.restricted => token[j].branch = login.branch /\ token[j].restricted

(* A bearer that once stopped working never works again, whatever the      *)
(* requests in flight write afterwards (isJtiActive, 805; revoke, 895).    *)
NoRevival == [][\A j \in held : ~Usable(j) => ~Usable(j)']_vars

(* The trail never claims a logout that did not happen: a bearer recorded  *)
(* as logged out is revoked (revoke, 854-871, and the sweep, 971).         *)
LogoutAuditTrue == \A j \in Jti : <<"logout", j>> \in audit => row[j] = "revoked"

(* With a store that answers, once a rotation has answered, the bearer it  *)
(* replaced is dead, however many rotations of that bearer ran at once     *)
(* (rotate, 775-778).                                                      *)
OldBearerDiesReliably ==
  ~storeMayFail => \A j \in held : token[j].parent # NoJti => ~Active(token[j].parent)

(* With a store that answers and a page that holds the tenant's rows, the  *)
(* administrator's sweep answers with every row that was active when it    *)
(* read revoked, whatever rotations and logouts ran meanwhile              *)
(* (revokeAllForOrganisation, 936-986).                                    *)
SweepRevokesReliably ==
  ~storeMayFail /\ Cardinality(minted) <= RevokeLimit =>
    \A r \in Request :
      req[r].phase = "sweep" /\ req[r].todo = {} =>
        \A j \in req[r].present : row[j] = "revoked"

(* A bearer that a client holds, and any that has a row, works until it    *)
(* expires, or the trail has its logout or the refresh that replaced it,   *)
(* or a request is about to record that.  It ends without a trace only by  *)
(* accident: its row or its record was not stored, the store revoked it    *)
(* and said it had not, or the worker stopped between revoking it and      *)
(* recording it (mintSession, 391; rotate, 778-780; revoke, 855-860;       *)
(* revokeAllForOrganisation, 961-973).                                     *)
NoSilentEnd ==
  \A j \in Jti : j \in held \/ row[j] # "absent" =>
    \/ Active(j)
    \/ {<<"logout", j>>, <<"refresh", j>>} \cap audit # {}
    \/ \E r \in Request : AboutToRecord(r, j)
    \/ j \in accident

(* "A rotation, never a second live token": one working bearer, however it *)
(* is refreshed and rebranched (rotate, 748-791).                          *)
SingleLiveBearer ==
  \A j, k \in held : Usable(j) /\ Usable(k) /\ token[j].login = token[k].login => j = k

=============================================================================
