CONSTANTS
  author = author
  reader = reader
  post1 = post1
  r1 = r1
  r2 = r2
  Users <- MCUsers
  Posts <- MCPosts
  Comments <- MCComments
  Author <- MCAuthor
  Parent <- MCParent
  Requests <- MCRequests
  MaxFailures = 1
  MaxSlips = 1
SPECIFICATION FairSpec
INVARIANTS
  TypeOK
  Tally
  KarmaTally
PROPERTIES
  ImplementsLedger
  CountersSettle
CONSTRAINT Few
CHECK_DEADLOCK FALSE
