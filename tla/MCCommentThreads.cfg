CONSTANTS
  MaxComments = 4
  MaxDepth = 2
  Requests = {r1, r2}
  Seeded = FALSE
SPECIFICATION Spec
INVARIANTS
  TypeOK
  WrongPathsHaveACause
  TheListingIsComplete
CONSTRAINT NotFull
SYMMETRY Slots
CHECK_DEADLOCK FALSE
