SPECIFICATION FairSpec
CONSTANTS
  Hosts = {h1}
  NoHost = NoHost
  MaxUses = 1
  PollInterval = 1
  MaxCrashes = 1
INVARIANTS
  TypeOK
  DeletedHasNoCredentials
PROPERTIES
  QuietAfterRevoke
  ComesBackOnline
CHECK_DEADLOCK FALSE
