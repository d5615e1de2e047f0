CONSTANTS
    User = {u1}
    World = {w1}
    Start = w1
    Spawn <- Origin
    Chunk <- Strip5
    Broken <- Last
    ViewDistance = 2
    PushCount = 1
    IteratorSurvives = TRUE
    MaxRemove = 2
SPECIFICATION FairSpec
INVARIANTS QueuedNotKnown ViewComplete 
PROPERTY QueueDrains
