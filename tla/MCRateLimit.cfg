SPECIFICATION FairRateSpec
CONSTANTS
  Servers = {s1, s2}
  Requests = {r1, r2}
  Limit = 2
  Ttl = 2
  MaxLate = 2
INVARIANTS
  RateTypeOK
  RateIsBounded
  CountingKeysExpire
PROPERTIES
  LimitIsLifted
