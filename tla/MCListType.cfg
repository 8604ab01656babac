SPECIFICATION Spec
CONSTANTS
  small = small
  middle = middle
  large = large
  Nil = Nil
  Header = 1
  Limit = 7
  MaxLen = 5
  Value <- MCValue
  Bytes <- MCBytes
  Estimate <- MCEstimate
  ValueLists <- MCLists
  Indexes <- MCIndexes
VIEW View
INVARIANTS
  NodesCounted
  NoEmptyList
PROPERTY ImplementsLists
