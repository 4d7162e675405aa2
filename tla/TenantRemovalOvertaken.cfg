SPECIFICATION Spec
CONSTANTS
  Requests = {r1}
  Environments <- CalmOnly
INVARIANTS
  NothingBehindRemoval
