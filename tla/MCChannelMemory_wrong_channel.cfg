SPECIFICATION Spec
CONSTANTS
    Call = {c1}
    Channel = {A, B}
    Type = {t1}
    Exposing = {t1}
    MaxCalls = 3
    MaxByHand = 0
    MaxLost = 0
    None = None
SYMMETRY Symmetric
PROPERTY
    NeverTheWrongChannel
CHECK_DEADLOCK FALSE
