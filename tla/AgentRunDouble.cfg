SPECIFICATION Spec
CONSTANTS
  NoID = NoID
  id1 = id1
  id2 = id2
  Replies <- CommentReplies
  CommentOutcomes <- PromptComments
  ResultCosts <- SomeCosts
  PromptCost = 100
  Window = 100000
  HasItem = TRUE
  MaxTurns = 2
  StreamRetries = 3
  MaxImages = 0
INVARIANT
  NoDoubleComment
