CONSTANTS
  Sizes = {0, 1, 2, 3, 4, 5, 6, 10}
  Ranks = {1, 2, 3}
  MaxArbitrary = 4
  Orders <- Rankings
  MaxCaptures = 2
  Collation <- Ascii
  T1 = T1
  T2 = T2
  Tables <- TwoTables
  StringMeta = T1
  Values <- Contents
  MaxTagLoop = 4
  Texts = {"and", "x", "y", "z", "k"}
  HashOf <- Hashes
  FixedTexts = {"and"}
  MinSize = 1
  BufferSize = 2
  Limit = 4
  MaxAdded = 14
  Lengths = {0, 1, 2, 3, 5}
SPECIFICATION Spec
INVARIANTS
  SortSound
  MatchesAsDefined
  HandlersFound
  StringsInterned
  BufferSound
CHECK_DEADLOCK FALSE
