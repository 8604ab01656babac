SPECIFICATION Spec
CONSTANTS
  TypeSize <- MCTypeSize
  MaxPrealloc = 3
  Unwritten = Unwritten
  ByteBits = 8
  WordBytes = 2
  CountWord = 2
  CountBlock = 2
  UnsignedMod = 8
  MaxLength = 6
  EmbedLimit = 1
  Digits <- MCDigits
  Texts <- MCTexts
  Offsets <- MCOffsets
  Bits <- MCBits
  Indexes <- MCIndexes
  Nil = Nil
  Beyond = Beyond
VIEW View
INVARIANT HeaderSound
PROPERTY ImplementsStrings
