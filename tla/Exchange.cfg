SPECIFICATION Spec
CHECK_DEADLOCK FALSE
CONSTANTS
    NChars = 2
    NSlots = 2
    Size <- MCSize
    Cols = 2
    Page = 8
    InvenMax <- MCInvenMax
    Start <- MCStart
    StartGold <- MCGold
    GoldMax = 2
    CountMax = 2
    MaxExch = 1
    MaxWorld = 2
INVARIANTS
    TypeOK
    OffersHold
    NoOverlap
    AcceptStands
    NoGoldDoubled

    
