\* SignInReplay: one callback sent twice at once.
SPECIFICATION MCSpec
CONSTANTS
  State = {t1, t2}
  PortalAccount = {a1, a2}
  Person = {u1, u2}
  NoPerson = NoPerson
  Email = {e1}
  NoEmail = NoEmail
  Handler = {p1, p2}
  None = None
  Ttl = 1
  MaxClock = 2
  Account = {a1, a2}
  Waiting = {w1}
  Process = {p1, p2}
  Free = Free
  Session = {j1}
  NoSecret = NoSecret
  ClaimName = {c1}
  Value = {v1}
  NoValue = NoValue
  NoRow = NoRow
  PerAccount = 1
  PerSession = 2
  MaxRequests = 3
  MaxTime = 0
  Window = 2
  RequestTime = 1
  GuessingTime = 4
  Guesses = 5
  Guessers = {g1}
  Invitations = {t1, t2}
  Secret = {k1}
  Code = {}
  MaxCallbacks = 2
  StoreMayFail = FALSE
  AnyRequests = 0
  Scenarios = {"callbacks"}
SYMMETRY Symmetry
CHECK_DEADLOCK FALSE
INVARIANTS
  OneSessionPerState
