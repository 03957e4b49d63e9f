\* The routes, every request, and rescans in the middle of discoveries.
SPECIFICATION Spec
CONSTANTS
  MaxParams = 8
  NameLen = 4
  ValueLen = 8
  Lower <- LowerCase
  Alnum = {"a", "b", "f", "A"}
  WindowMax = 6
  DigitValue <- Digit
  Base = 3
  U32Max = 7
  U64Max = 127
  PageLimitDefault = 50
  PageLimitMax = 125
  PatchMax = 5
  Libraries <- AllLibraries
  Shelves <- AllShelves
  Method <- SomeMethods
  Paths <- SomePaths
  Character <- Characters
  Alphabet = {"a", "b", "-", ".", "f"}
  Queries <- Needles
  QueryMax = 4
  Limits <- SomeLimits
  Offsets <- SomeOffsets
  Bodies <- SomeBodies
  Tokens <- AllTokens
  ArrayMax = 2
  Names <- SomeNames
INVARIANTS
  Dispatched
  FuzzyIsExact
  ListsRanked
  DiscoverFair
  NumbersExact
