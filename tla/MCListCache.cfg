SPECIFICATION FairCacheSpec
CONSTANTS
  Patterns <- PublishedThenPopular
  Readers = {r1}
  Writers = {w1, w2}
  MaxVersion = 3
INVARIANTS
  CacheTypeOK
  StaleListsHaveACause
PROPERTIES
  ListsSettle
