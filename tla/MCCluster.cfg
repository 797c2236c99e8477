\* Inserts at the primary; deaths, returns once every peer has noticed the death, a failed push.
CONSTANTS
  n1 = n1
  n2 = n2
  n3 = n3
  b1 = b1
  NoNode = NoNode
  Nodes = {n1, n2, n3}
  Blocks = {b1}
  Rank <- MCRank
  RF = 2
  ClientPeers = {{n1, n2, n3}, {n2, n3}}
  Routed = TRUE
  FastRestart = FALSE
  EarlyCrash = FALSE
  MaxCrashes = 2
  MaxRestarts = 1
  MaxLost = 1
  MaxAttempts = 2
SPECIFICATION FairSpec
INVARIANTS
  ConvergedOnceSettled
  
  
PROPERTIES
  Reconverges
  
CHECK_DEADLOCK FALSE
