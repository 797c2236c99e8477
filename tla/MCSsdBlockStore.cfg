CONSTANTS
    small = small
    large1 = large1
    large2 = large2
    oversize = oversize
    NoId = NoId
    Ids = {small, large1, large2, oversize}
    Size <- MCSize
    TotalSlots = 2
    SlotPayload = 3
    HeadRoom = 1
SPECIFICATION Spec
INVARIANTS SlotAccounting ReadsAreIntact UsedMatchesIndex
PROPERTY ImplementsDurableBlockSet
