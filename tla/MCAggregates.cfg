SPECIFICATION Spec
CONSTANTS
  Texts = 2
  LLMax = 127
  Unit = 4
  MaxIntsetEntries = 4
  NoValue = NoValue
  Long <- MCLong
  FieldValues <- MCFieldValues
  ItemLists <- MCItemLists
  FieldLists <- MCFieldLists
  MemberLists <- MCMemberLists
  Increments <- MCIncrements
  Counts <- MCCounts
  FloatTexts <- MCFloatTexts
  ZiplistLimits <- MCLimits
VIEW View
INVARIANTS
  TypeOK
  CompactSound
  NoEmptyAggregate
PROPERTY ImplementsCollections
