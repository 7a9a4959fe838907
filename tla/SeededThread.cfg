CONSTANTS
  MaxComments = 4
  MaxDepth = 2
  Requests = {r1, r2}
  Seeded = TRUE
SPECIFICATION Spec
INVARIANTS
  EveryLiveCommentIsShown
CONSTRAINT NotFull
SYMMETRY Slots
CHECK_DEADLOCK FALSE
