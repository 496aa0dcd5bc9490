SPECIFICATION Spec
CONSTANTS
    Call = {c1, c2}
    Gens <- Both
    Loc = {l1, l2}
    MaxEdits = 2
    MaxFlight = 1
    None = None
SYMMETRY Symmetric
INVARIANTS
    TypeOK
    CleanMeansSafe
    NoSilentDiscard
