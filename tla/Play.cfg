CONSTANTS
    Visitor = {1, 2}
    Spots <- MCSpots
    PairStack = 2
    PairByte = 8
    Purse <- MCPurse
    Bench = {b1}
    Goods <- MCGoods
    RecipeFiles <- MCRecipeFiles
    OwnGrid <- MCGrid
    BenchGrid <- MCGrid
    Hats <- MCHats
    Tools <- MCTools
    Parties <- MCParties
    PileSize = 2
    WrapAt = 8
    WholeStacks = FALSE
    Worth <- MCWorth
    MaxDrag = 2
    Ground <- MCGround
    Grass = {0, 1}
    Breeds = {"sheep", "cow"}
    Pens <- MCPens
    MaxMobs = 2
    Linger = 1
    Reach = 1
    NearMove = 4
    ByteMove = 4
    PocketSlots = {1, 2}
    PocketStack = 2
    MaxMade <- MCMade
    Homes <- MCHomes
    MaxIncludes = 16
    MaxDepth = 3
SPECIFICATION PlaySpec
INVARIANTS
    PairsMirror WatchersAgree OutputIsCurrent DropsOnce  SettingsKept
  
\* A component stops when its bound is used up; the configuration when it is read.
CHECK_DEADLOCK FALSE
