CONSTANTS
  Users = {u1}
  SessionIds = {s1, s2}
  TokenIds = {t1, t2}
  ResetIds = {x1}
  Requests = {r1, r2}
SPECIFICATION Spec
PROPERTIES
  RevokedSessionsStayRevoked
CONSTRAINT NotBoth
SYMMETRY Symmetric
CHECK_DEADLOCK FALSE
