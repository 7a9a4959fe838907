CONSTANTS
  Users = {u1}
  SessionIds = {s1, s2}
  TokenIds = {t1, t2, t3}
  ResetIds = {x1}
  Requests = {r1, r2}
SPECIFICATION Spec
INVARIANTS
  TypeOK
  OneUsableToken
  SpentResetTokensAreMarked
PROPERTIES
  RevokedTokensStayRevoked
  EndedSessionsStayEnded
CONSTRAINT NotBoth
SYMMETRY Symmetric
CHECK_DEADLOCK FALSE
