SPECIFICATION Spec
CONSTANTS
  letter = letter
  other = other
  blank = blank
  NoFile = NoFile
  Byte <- Bytes
  Space = {blank}
  Files <- SomeFiles
  Calls <- SomeCalls
  Pieces <- SomePieces
  MaxOther = 3
INVARIANTS
  HintNamesABlock
  AmbiguityFound
PROPERTY
  ImplementsContract
