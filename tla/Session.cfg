\* Session: two workers, three tokens, a store that may fail and one that answers.
SPECIFICATION MCSpec
CONSTANTS
  Jti = {j1, j2, j3}
  NoJti = NoJti
  Request = {r1, r2}
  Org = {o1}
  NoOrg = NoOrg
  Branch = {b1}
  NoBranch = NoBranch
  IdleTimeout = 2
  MaxLifetime = 2
  ReferenceTtl = 2
  RevokeLimit = 3
  MaxTime = 4
  StoreMayFail = TRUE
  FailingTokens = 2
  AnsweringTime = 3
SYMMETRY Symmetry
CHECK_DEADLOCK FALSE
INVARIANTS
  LifetimeBounded 
  OldBearerDiesReliably SweepRevokesReliably
  NoSilentEnd
PROPERTIES NoRevival
