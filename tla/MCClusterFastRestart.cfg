\* A node that is back before its peers have declared it dead: nothing starts a round.
CONSTANTS
  n1 = n1
  n2 = n2
  n3 = n3
  b1 = b1
  NoNode = NoNode
  Nodes = {n1, n2, n3}
  Blocks = {b1}
  Rank <- MCRank
  RF = 2
  ClientPeers = {{n1, n2, n3}, {n2, n3}}
  Routed = TRUE
  FastRestart = TRUE
  EarlyCrash = FALSE
  MaxCrashes = 1
  MaxRestarts = 1
  MaxLost = 0
  MaxAttempts = 2
SPECIFICATION FairSpec
PROPERTY RejoinReconverges
CHECK_DEADLOCK FALSE
