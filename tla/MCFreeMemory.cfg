CONSTANTS
  t1 = t1
  t2 = t2
  k1 = k1
  k2 = k2
  k3 = k3
  Thread = {t1, t2}
  Key = {k1, k2}
  Sizes = {1, 2}
  Limits = {1, 2}
  Word = 16
  MaxUsed = 3
  PoolMemory = {0, 1}
  TableMemory = {0, 1}
SPECIFICATION FairSpec
INVARIANT TypeOK
PROPERTIES OkIsUnderLimit EvictsOverAim CallReturns
