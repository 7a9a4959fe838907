CONSTANTS
  author = author
  reader = reader
  post1 = post1
  r1 = r1
  r2 = r2
  Users <- MCUsers
  Posts <- MCPosts
  Comments <- MCComments
  Author <- MCAuthor
  Parent <- MCParent
  Requests <- MCRequests
  MaxFailures = 0
  MaxSlips = 1
SPECIFICATION Spec
INVARIANTS
  ExactWhenSettled
CHECK_DEADLOCK FALSE
