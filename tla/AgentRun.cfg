SPECIFICATION FairSpec
CONSTANTS
  NoID = NoID
  id1 = id1
  id2 = id2
  Replies <- EveryReply
  CommentOutcomes <- PromptComments
  ResultCosts <- SomeCosts
  PromptCost = 100
  Window = 100000
  HasItem = TRUE
  MaxTurns = 3
  StreamRetries = 3
  MaxImages = 1
INVARIANTS
  OutputGrammar
  GivesUpAfterRetries
  RoundsAnswered
  RequestUsable
  ImagesBounded
  FinishBreaksSilence
  GuardStandsDown
PROPERTIES
  AbortEndsRun
  RunEnds
