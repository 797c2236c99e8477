\* A promotion and a demotion of the same block.
CONSTANTS
    b1 = b1
    b2 = b2
    b3 = b3
    c1 = c1
    c2 = c2
    NoId = NoId
    Size <- MCSize
    Ids = {b1, b2}
    HbmBytes = 0
    DramBytes = 2
    SsdSlots = 2
    SlotPayload = 4
    HighPct = 50
    LowPct = 0
    EnablePromotion = TRUE
    Threshold = 2
    Clients = {c1}
    ClientOps = {"get", "insert"}
    Hints = {"DRAM"}
SPECIFICATION Spec
INVARIANTS
    NoSilentLoss
