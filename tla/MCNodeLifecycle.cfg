\* Two workers, a DRAM tier, gRPC transport; the signal may come at any time.
CONSTANTS
  w1 = w1
  w2 = w2
  Workers = {w1, w2}
  Tiers = {"dram"}
  RdmaOn = FALSE
  MaxPushes = 2
  NoWorker = NoWorker
SPECIFICATION FairSpec
INVARIANTS
  ThreadsFindTheirSubsystems
  QueueDrained
PROPERTIES
  PushesAreAttempted
  ShutdownCompletes
CHECK_DEADLOCK FALSE
