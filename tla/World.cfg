CONSTANTS
    Scenes <- MCScenes
    MaxActs = 3
    Gardens <- MCGardens
    Dark <- MCDark
    Rate <- MCRate
    MaxHeight = 2
    TreeSpace = 2
    TrunkMin = 2
    TrunkMax = 3
    CanopySize = 1
    MaxUses = 3
    Chunks = 2
    Width = 3
    Height = 3
    Full = 3
    MaxSets = 2
    Pools <- MCPools
    MaxPours = 3
    MaxRounds = 12
    Grounds <- MCGrounds
    MaxTracks = 4
    MaxMoves = 2
    Benches <- MCBenches
    Hold = 2
    MaxWorks = 5
SPECIFICATION WorldSpec
INVARIANTS
      ComesToRest
PROPERTIES
      AttachedGoesToo GrowthGoesOn
     PowerSpreads
\* A component stops when its bound on acts is used up and nothing is left to settle.
CHECK_DEADLOCK FALSE
