SPECIFICATION MCSpec
CONSTANTS
  Resident = {r1, r2}
  Bearers = 3
  Trackers = 2
  MaxTime = 6
  IdleTimeout = 3
  HardLife = 5
  DevSignIn = TRUE
  Silent = TRUE
  Home = "/"
  Pages <- MCPages
  Locked = {"/besloten"}
  Missing <- MCMissing
  ParentRoute <- MCParentRoute
  AccountRoutes = {"/mijn"}
  SharedRoutes = {"/dossier"}
  MaxReads = 2
  MaxVersion = 1
  Places = {"/", "/zoeken"}
  PreConsent = {"page_view"}
  FlushAt = 2
  FlushBytes = 2
  MaxChunk = 2
  MaxTotal = 4
  MaxEvents = 5
  MaxSessions = 2
  MaxPushes = 5
  Scenarios = {"tab", "calm tab", "pages", "measured", "recorded"}
CHECK_DEADLOCK FALSE
INVARIANTS
  SessionIsTheStoredOne
  SignedOutLeavesNothingSerially
  RouteIsOnScreenSerially
  PublishedIsShownSerially
  NumbersRise
PROPERTIES
  WarnedBeforeSignOut
  NothingIsKeptUnasked
  OpenTabEnds
