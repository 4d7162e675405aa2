SPECIFICATION Spec
CONSTANTS
  Tenants = {t1, t2}
  Modes = {production, dev}
  NoMode = NoMode
INVARIANTS
  TypeOK
  NoMixedStack
  ListedKeepRunning
  RemovedLeavesNothing
PROPERTIES
  DroppedAfterContainers
  NeighboursStayConnected
