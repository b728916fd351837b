SPECIFICATION Spec
CONSTANTS
  Texts <- ShortTexts
  IntMax = 7
  HalfNumbers <- SomeNumbers
  Written <- SomeIds
  MaxImageBytes = 2
  ToolOutputCap = 8
  ToolHeadTail = 2
  LineCap = 7
  HeaderLength = 4
  MarkerLength = 12
INVARIANT
  ReadAnswered
