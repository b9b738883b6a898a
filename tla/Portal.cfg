SPECIFICATION MCSpec
CONSTANTS
  GridColumns = 3
  Keys = {"k"}
  Size <- MCSize
  Limit = 2
  Editors = {e1, e2}
  Props = {0, 1}
  Spots <- MCSpots
  FirstBodies <- MCBodies
  MaxEdits = 3
  MaxWrites = 3
  MayFail = TRUE
  PageIds = {p1, p2, p3}
  CurrentPage = p1
  Managers = {m1}
  TypedRoutes = {"a", "/a/", "b"}
  Address <- MCAddress
  MenuNames = {n1, n2}
  MaxSends = 3
  Questions = {q1, q2}
  Answers = {x, y}
  NoAnswer = NoAnswer
  Ordered = {q1}
  GivenOrder = x
  MaxAnswers = 3
  Collections = {c1, c2}
  MaxRowWrites = 2
  MaxLoads = 4
  Steps <- MCSteps
  HasReview = TRUE
  Papers = "papers"
  Required = {"who", "what", "papers"}
  Hidden = {"kin"}
  OnlyOption = {"who"}
  HasConfirmation = FALSE
  Replies = {"x"}
  Files = {"f1", "f2"}
  TooLarge = {}
  MaxTrials = 2
  Scenarios = {"one", "two", "pages", "calm pages", "menu", "test", "rows", "form", "one page"}
CHECK_DEADLOCK FALSE
INVARIANTS
  CleanWorkIsStored
  CanvasesAreSound
  PageTreeIsSoundCalm
  SavedIsStored
  HandedInIsWhole
  HandInWaits
  OwnWritesShow
  ReviewIsComplete
  FilesAreAccountedFor
PROPERTIES
  NoUnseenOverwrite
  SavedIsShown
  HistoryIsATimeline
