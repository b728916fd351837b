SPECIFICATION Spec
CONSTANTS
  NoID = NoID
  id1 = id1
  id2 = id2
  Replies <- ImageReplies
  CommentOutcomes <- PromptComments
  ResultCosts <- SomeCosts
  PromptCost = 100
  Window = 100000
  HasItem = TRUE
  MaxTurns = 3
  StreamRetries = 3
  MaxImages = 10
INVARIANT
  BodyFits
