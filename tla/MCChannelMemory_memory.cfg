SPECIFICATION Spec
CONSTANTS
    Call = {c1, c2}
    Channel = {A, B}
    Type = {t1, t2}
    Exposing = {t1}
    MaxCalls = 3
    MaxByHand = 1
    MaxLost = 1
    None = None
SYMMETRY Symmetric
INVARIANTS
    TypeOK
    LandsWhereAsked
    RefusalIsFounded
CHECK_DEADLOCK FALSE
