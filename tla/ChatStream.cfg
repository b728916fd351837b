SPECIFICATION FairSpec
CONSTANTS
  OutCap = 2
  MaxCalls = 4
INVARIANTS
  NoSilentEnd
PROPERTIES
  ImplementsContract
  CancelEndsCall
  ReplyDelivered
