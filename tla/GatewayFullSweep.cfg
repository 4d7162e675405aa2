SPECIFICATION Spec
CONSTANTS
  Hosts = {"h1"}
  Totals = {3}
  Parallel = 1
  Environments <- SweepingOnly
PROPERTIES
  FullSweepIsComplete
