\* Three requests for one place.
SPECIFICATION MCSpec
CONSTANTS
  Child = {c1, c2, c3}
  Process = {p1, p2, p3}
  NoChild = NoChild
  Slot = {1, 2, 3, 4}
  Capacity = 1
  Waitlist = TRUE
  MaxTime = 1
  Proposal = {m1}
  Property = {f1}
  Value = {v1}
  Missing = Missing
  Reviewer = {r1, r2}
  Unnamed = Unnamed
  MaxUnseen = 1
  MaxGone = 1
  MaxWrites = 1
  Contested = f1
SYMMETRY Anyone
CHECK_DEADLOCK FALSE
INVARIANT OverfillByOne
