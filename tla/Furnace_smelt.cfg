CONSTANTS
    User = {u1, u2}
    Place = {p1}
    Pack = {1}
    PackOrder <- Slot1
    Start <- Halves
    None = None
    Stack = 2
    Byte = 4
    Yield = 2
    FuelTime = 3
    CookTime = 2
    ShiftClicks = FALSE
SPECIFICATION Spec
INVARIANT CookableIsActive
PROPERTIES  FireGoesOut
