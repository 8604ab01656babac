CONSTANTS
  k1 = k1
  k2 = k2
  k3 = k3
  k4 = k4
  NULL = NULL
  Key = {k1, k2, k4}
  Value = {0, 1}
  Hash <- HashSmall
  Sizes = {1, 2, 4, 8}
  InitialSize = 1
  ForceRatio = 1
  MinFill = 10
  EmptyVisits = 2
  MaxIterators = 0
  MayDisable = FALSE
  Lookups = 1
  MinPercent = 30
  MaxNow = 1
SPECIFICATION FairSpec
INVARIANT GrowthKeepsUp
PROPERTY DueGoes
