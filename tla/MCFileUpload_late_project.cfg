CONSTANTS
    None = None
    Slot = {s1}
    Kind <- Projects
    Blocks = 2
    MaxUploads = 1
    Late = TRUE
SPECIFICATION Spec
CHECK_DEADLOCK FALSE
INVARIANTS
    OkMeansStored
PROPERTIES
    AckIsForFrame
