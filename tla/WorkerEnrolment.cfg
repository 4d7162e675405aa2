SPECIFICATION Spec
CONSTANTS
  Hosts = {h1, h2}
  NoHost = NoHost
  MaxUses = 1
  PollInterval = 1
  MaxCrashes = 0
INVARIANTS
  TokenIsLimited
CHECK_DEADLOCK FALSE
