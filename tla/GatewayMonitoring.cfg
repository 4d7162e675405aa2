SPECIFICATION FairSpec
CONSTANTS
  Hosts = {"h1", "h2"}
  Totals = {1, 2}
  Parallel = 1
  Environments <- RotatingAndQueueing
INVARIANTS
  TypeOK
  AnnouncedOnce
PROPERTIES
  EveryChunkScanned
  QueueIsServed
