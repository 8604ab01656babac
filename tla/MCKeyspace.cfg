CONSTANTS
  k1 = k1
  k2 = k2
  p1 = p1
  p2 = p2
  o1 = o1
  o2 = o2
  o3 = o3
  NULL = NULL
  Key = {k1, k2}
  KeyPtr = {p1, p2}
  Obj = {o1, o2, o3}
  Seconds <- SecondsSmall
  Increments <- IncrementsSmall
  Created <- CreatedSmall
  Texts = 2
  LLMax = 7
  MsPerSec = 2
  SharedIntegers = 2
  MaxNow = 3
  LendGet = FALSE
SPECIFICATION Spec
VIEW View
SYMMETRY Symmetry
INVARIANTS TypeOK NoUseAfterFree KeyStringsShared RefCountExact
PROPERTIES ClientObjectsUntouched ImplementsTtlCache
