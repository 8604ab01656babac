CONSTANTS
  k1 = k1
  k2 = k2
  c1 = c1
  c2 = c2
  c3 = c3
  NULL = NULL
  Key = {k1, k2}
  Long = {k2}
  PoolSize = 3
  MaxIdle = 1
  Samples = 2
  Copy = {c1, c2, c3}
SPECIFICATION FairSpec
INVARIANTS TypeOK PoolOrdered NamesOwned
PROPERTIES ImplementsCandidates CallReturns
