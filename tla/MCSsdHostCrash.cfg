CONSTANTS
    small = small
    large = large
    NoId = NoId
    Ids = {small, large}
    Size <- MCSize
    TotalSlots = 2
    SlotPayload = 3
    HeadRoom = 1
    MaxDeaths = 2
SPECIFICATION HostSpec
INVARIANTS SinglePageReadsAreIntact SlotsAreNeverShared
