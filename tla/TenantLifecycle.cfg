SPECIFICATION FairSpec
CONSTANTS
  Requests = {r1, r2}
  Environments <- CalmRoughAndCrowded
INVARIANTS
  TypeOK
  OneOpenCommand
  RunningIsResolvable
  StatusTellsStack
  KeyOnRecordWorks
PROPERTIES
  NoStackLeftBehind
  RemovalEnds
