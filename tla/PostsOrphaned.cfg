SPECIFICATION ListSpec
CONSTANTS
  Users = {writer, reader}
  Authors = {writer}
  Ids = {first}
  Requests = {request1}
  Fills = {fill1}
  MaxSuffix = 0
  MaxViews = 1
INVARIANT ListedPostsCanBeRead
