SPECIFICATION Spec
CONSTANTS
    Call = {c1}
    Gens <- AxeFx2
    Loc = {l1, l2}
    MaxEdits = 1
    MaxFlight = 0
    None = None
SYMMETRY Symmetric
PROPERTY
    FailedStoreStaysFlagged
