\* Promotion on, two handlers, no tier ever over its watermark.
CONSTANTS
    b1 = b1
    b2 = b2
    b3 = b3
    c1 = c1
    c2 = c2
    NoId = NoId
    Size <- MCSize
    Ids = {b1, b2}
    HbmBytes = 0
    DramBytes = 1
    SsdSlots = 1
    SlotPayload = 4
    HighPct = 100
    LowPct = 50
    EnablePromotion = TRUE
    Threshold = 2
    Clients = {c1, c2}
    ClientOps = {"get", "insert"}
    Hints = {"DRAM", "SSD"}
SPECIFICATION Spec
INVARIANTS
    NoSilentLoss
    ReadsAreIntact
