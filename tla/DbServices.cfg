SPECIFICATION MCSpec
CONSTANTS
    g1 = g1
    g2 = g2
    Games <- MCGames
    Rows <- MCRows
    MinimumRange = 3
    MinimumRemain = 1
    MaxItemID = 21
    OwnMin = 15
    OwnMax = 21
    MaxNew = 3
    MaxStart = 3
    MaxLost = 1
    w1 = w1
    w2 = w2
    WarGames <- MCWarGames
    MapGame = w1
    Home <- MCHome
    MaxAsk = 4
    MaxEnd = 1
    MaxUnderWay = 2
    MaxReserve = 1
SYMMETRY GamesSymmetry
INVARIANTS GivenOnce HeldIsNoted SpareOnItsWay NoWarLeft
PROPERTIES FreshId Consent 
CHECK_DEADLOCK FALSE
