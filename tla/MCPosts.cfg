SPECIFICATION ListSpec
CONSTANTS
  Users = {writer, reader}
  Authors = {writer}
  Ids = {first, second}
  Requests = {request1, request2}
  Fills = {fill1}
  MaxSuffix = 1
  MaxViews = 2
SYMMETRY Symmetry
CONSTRAINT Few
INVARIANTS
  TypesOK
  ViewsArePublicReads
  RejectedWritesHaveACause
  ListsShowWhatMayBeRead
