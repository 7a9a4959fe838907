SPECIFICATION Spec
CONSTANTS
  Users = {alice}
  Ids = {first, second}
  Names = {tla, tlaplus}
  Base <- OneSlug
  Requests = {request1, request2}
  MaxSuffix = 1
  MaxCount = 1
SYMMETRY Symmetry
INVARIANTS
  TypeOK
  MemberCountDriftHasACause
  RejectedWritesHaveACause
