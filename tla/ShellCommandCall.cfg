SPECIFICATION FairSpec
INVARIANTS
  OkMeansSuccess
  KillIsNamed
  KillReachesGroup
PROPERTIES
  CallReturns
  ExitEndsCall
