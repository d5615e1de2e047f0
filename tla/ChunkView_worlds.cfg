CONSTANTS
    User = {u1, u2}
    World = {w1, w2}
    Start = w1
    Spawn <- Origin
    Chunk <- Strip1
    Broken <- Nothing
    ViewDistance = 1
    PushCount = 1
    IteratorSurvives = TRUE
    MaxRemove = 1
SPECIFICATION Spec
INVARIANTS  ViewedChunkLoaded
SYMMETRY Players
