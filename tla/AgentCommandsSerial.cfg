SPECIFICATION Spec
CONSTANTS
  MaxCommands = 3
  Handlers = {h1}
  NoHandler = NoHandler
  PollInterval = 1
  MaxKills = 1
INVARIANTS
  HeldUntilRecorded
PROPERTIES
  ImplementsLifecycle
