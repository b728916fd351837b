SPECIFICATION Spec
CONSTANTS
  Texts <- AnyText
  IntMax = 7
  HalfNumbers <- SomeNumbers
  Written <- SomeIds
  MaxImageBytes = 2
  ToolOutputCap = 8
  ToolHeadTail = 2
  LineCap = 7
  HeaderLength = 4
  MarkerLength = 12
INVARIANTS
  OutputValid
  RemarkSurvives
  SliceRight
  FetchedAsNamed
PROPERTY
  CutOnce
