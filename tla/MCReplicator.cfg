\* One block, in a round once for each tier that holds it; it may change tier once.
CONSTANTS
    b1 = b1
    b2 = b2
    p = p
    q = q
    self = self
    w1 = w1
    h1 = h1
    NoTask = NoTask
    Blocks = {b1}
    Peers = {p, q}
    Self = self
    Rank <- MCRank
    RF = 2
    QueueMax = 2
    Batch = 1
    Workers = {w1}
    Handlers = {h1}
    MaxMoves = 1
    MaxInserts = 2
    MaxChanges = 2
SPECIFICATION FairSpec
INVARIANTS
    QueueBounded
    RoundCovers
PROPERTIES
    RoundCompletes
\* Clients may stop inserting and peers stop dying.
CHECK_DEADLOCK FALSE
