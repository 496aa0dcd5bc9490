SPECIFICATION Spec
CONSTANTS
    Slot = {s1, s2, s3}
    MaxNamed = 2
    MaxCalls = 2
    MaxSaves = 1
    None = None
SYMMETRY Symmetric
INVARIANTS
    TypeOK
    ErasedIsBackedUp
    ReportIsTrue
CHECK_DEADLOCK FALSE
