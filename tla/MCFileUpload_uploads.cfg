CONSTANTS
    None = None
    Slot = {s1, s2}
    Kind <- Everything
    Blocks = 2
    MaxUploads = 2
    Late = FALSE
SPECIFICATION FairSpec
CHECK_DEADLOCK FALSE
INVARIANTS
    TypeOK
    OkMeansStored
    SessionClosed
PROPERTIES
    UploadEnds
    ResetReopens
