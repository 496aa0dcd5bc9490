SPECIFICATION Spec
CONSTANTS
    c1 = c1
    c2 = c2
    Call = {c1, c2}
    Kinds <- KindsAsked
    Loc = {l1, l2}
    MaxEdits = 2
    MaxFlight = 1
    None = None
SYMMETRY Symmetric
INVARIANTS
    TypeOK
PROPERTIES
    NoSilentDiscard
    RefusalHasCause
