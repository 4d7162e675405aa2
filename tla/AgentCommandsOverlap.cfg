SPECIFICATION FairSpec
CONSTANTS
  MaxCommands = 2
  Handlers = {h1, h2}
  NoHandler = NoHandler
  PollInterval = 1
  MaxKills = 0
INVARIANTS
  TypeOK
  ExecutedInOrder
  RecordedOutcomeIsReal
PROPERTIES
  QueueDrains
