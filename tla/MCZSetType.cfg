SPECIFICATION Spec
CONSTANTS
  MaxLevel = 3
  MinString <- MCMinString
  MaxString = 100
  Inf = 2
  NaN = 99
  Nil = Nil
  Member <- MCMember
  Long <- MCLong
  ItemLists <- MCItemLists
  MemberLists <- MCMemberLists
  ScoreRanges <- MCScoreRanges
  LexRanges <- MCLexRanges
  Indexes <- MCIndexes
  Limits <- MCLimits
  ZiplistLimits = {0, 2}
VIEW View
INVARIANTS
  SpansExact
  DictAgrees
  NoEmptyZset
PROPERTY ImplementsSortedSets
