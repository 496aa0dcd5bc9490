SPECIFICATION Spec
CONSTANTS
    Call = {c1, c2}
    Item = {i1, i2}
    Depth = {d1}
    Slots = 2
    MaxCalls = 4
    MaxFaults = 1
    None = None
SYMMETRY Symmetric
INVARIANTS
    TypeOK
    RoutesStay
    SlotsAreBuilt
CHECK_DEADLOCK FALSE
