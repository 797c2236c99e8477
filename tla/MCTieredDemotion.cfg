\* Promotion off; the SSD tier has one slot, and never reaches its watermark.
CONSTANTS
    b1 = b1
    b2 = b2
    b3 = b3
    c1 = c1
    c2 = c2
    NoId = NoId
    Size <- MCSize
    Ids = {b1, b2}
    HbmBytes = 0
    DramBytes = 2
    SsdSlots = 1
    SlotPayload = 4
    HighPct = 50
    LowPct = 0
    EnablePromotion = FALSE
    Threshold = 2
    Clients = {c1}
    ClientOps = {"get", "insert", "ingest"}
    Hints = {"DRAM"}
SPECIFICATION FairSpec
INVARIANTS
    UsedMatchesBlocks
    NoSilentLoss
    CopiesAreIntact
PROPERTIES
    PressureIsRelieved
