CONSTANTS
  author = author
  post1 = post1
  comment1 = comment1
  r1 = r1
  r2 = r2
  Users <- MCUsers
  Posts <- MCPosts
  Comments <- MCComments
  Author <- MCAuthor
  Parent <- MCParent
  Requests <- MCRequests
  MaxFailures = 1
  MaxSlips = 1
SPECIFICATION Spec
INVARIANTS
  ScoreBalance
PROPERTIES
  KarmaFollowsScore
CONSTRAINT Few
SYMMETRY Slots
CHECK_DEADLOCK FALSE
