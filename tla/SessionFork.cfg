\* SessionFork: two refreshes of one bearer at once.
SPECIFICATION MCSpec
CONSTANTS
  Jti = {j1, j2, j3}
  NoJti = NoJti
  Request = {r1, r2}
  Org = {o1}
  NoOrg = NoOrg
  Branch = {b1}
  NoBranch = NoBranch
  IdleTimeout = 2
  MaxLifetime = 3
  ReferenceTtl = 2
  RevokeLimit = 4
  MaxTime = 5
  StoreMayFail = FALSE
  FailingTokens = 0
  AnsweringTime = 5
SYMMETRY Symmetry
CHECK_DEADLOCK FALSE
INVARIANTS SingleLiveBearer
