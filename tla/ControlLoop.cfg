SPECIFICATION FairSpec
CONSTANTS
  CmdsCap = 2
  MaxLines = 4
  MaxEvents = 1
INVARIANTS
  OneRunAtATime
  OutputInRunOrder
  CompletionAnnounced
  NoPromptDropped
PROPERTIES
  ImplementsContract
  WaitingDriverIsAnswered
  EofEndsProcess
  PromptsGetRuns
