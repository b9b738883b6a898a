\* Three children, four rows, two requests at a time; one place where they overlap, two where they do not.
SPECIFICATION MCSpec
CONSTANTS
  Child = {c1, c2, c3}
  Process = {p1, p2}
  NoChild = NoChild
  Slot = {1, 2, 3, 4}
  Capacity = 2
  Waitlist = TRUE
  MaxTime = 1
  Proposal = {m1, m2}
  Property = {f1, f2}
  Value = {v1, v2}
  Missing = Missing
  Reviewer = {r1, r2}
  Unnamed = Unnamed
  MaxUnseen = 1
  MaxGone = 1
  MaxWrites = 2
  Contested = f1
SYMMETRY Anyone
CHECK_DEADLOCK FALSE
INVARIANTS
  OverfillBoundedParallel PlacesAreFilledSerially DecisionsAreTrue
PROPERTIES
  LongestWaitingFirstSerially NothingOverwrittenUnseenSerially
