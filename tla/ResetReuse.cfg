CONSTANTS
  Users = {u1}
  SessionIds = {s1}
  TokenIds = {t1}
  ResetIds = {x1}
  Requests = {r1, r2}
SPECIFICATION Spec
INVARIANT ResetTokensWorkOnce
CONSTRAINT NotBoth
SYMMETRY Symmetric
CHECK_DEADLOCK FALSE
