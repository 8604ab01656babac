CONSTANTS
  k1 = k1
  k2 = k2
  k3 = k3
  k4 = k4
  k5 = k5
  v1 = v1
  v2 = v2
  NULL = NULL
  Key = {k1, k2, k3, k5}
  Value = {v1, v2}
  Hash <- HashSmall
  Sizes = {1, 2, 4, 8}
  InitialSize = 1
  ForceRatio = 1
  MinFill = 50
  EmptyVisits = 2
  MaxIterators = 1
  MayDisable = TRUE
SPECIFICATION Spec
VIEW View
INVARIANTS TypeOK Searchable FrontierOK RandomReachesAll
PROPERTY ImplementsMap
