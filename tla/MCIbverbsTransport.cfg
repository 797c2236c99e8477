\* Two workers, one peer; the link may break and the node shut down at any time.
CONSTANTS
  w1 = w1
  w2 = w2
  Workers = {w1, w2}
  SendBufs = 1
  RecvBufs = 1
  WrShift = 4
  MaxSends = 2
  MaxConns = 2
  NoWorker = NoWorker
  NoConn = NoConn
SPECIFICATION FairSpec
INVARIANTS
  BuffersAccounted
  PostedIsIntact
  PromiseSetOnce
  DeliveredInOrder
  AckMeansLanded
  OneConnPerPeer
PROPERTIES
  SendResolves
  AckedIsDelivered
CHECK_DEADLOCK FALSE
