SPECIFICATION Spec
CONSTANTS
  jane = jane
  Jane = Jane
  john = john
  John = John
  Nickname = Nickname
  nickname = nickname
  NoName = NoName
  Ids = {first, second}
  Emails <- MCEmails
  Fold <- MCFold
  Names <- MCNames
  Normal <- MCNormal
  SeedEmail = John
  Cap = 2
  Requests = {request1, request2}
SYMMETRY Symmetry
CONSTRAINT Few
INVARIANTS
  TypeOK
  LoginsReachOneAccount
  RejectedWritesHaveACause
PROPERTIES
  OnlyMeantChanges
