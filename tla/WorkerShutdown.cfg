SPECIFICATION FairSpec
CONSTANTS
  Hosts = {h1}
  NoHost = NoHost
  MaxUses = 1
  PollInterval = 1
  MaxCrashes = 0
PROPERTIES
  ShutdownIsDelivered
CHECK_DEADLOCK FALSE
