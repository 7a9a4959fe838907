CONSTANTS
  MaxLinks = 3
  MaxKeys = 2
  RowIds = {row1, row2}
  Requests = {request1, request2}
SPECIFICATION Spec
INVARIANTS
  TypeOK
  LinksAreNotWasted
  EnabledKeysWereConfirmed
  LastKeyIsHeld
SYMMETRY Symmetry
