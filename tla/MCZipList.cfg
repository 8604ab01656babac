SPECIFICATION Spec
CONSTANTS
  Item <- MCItem
  Batches <- MCBatches
  MaxEntries = 5
  Indexes <- MCIndexes
  LenMax = 3
  BigPrevlen = 254
  IntBits = 3
  NULL = NULL
VIEW View
INVARIANT HeadersExact
PROPERTY ImplementsSequence
