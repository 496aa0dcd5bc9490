SPECIFICATION FairSpec
CONSTANTS
    Facade = {f1, f2}
    Receiver = {r1}
    None = None
    MaxSends = 2
INVARIANTS
    TypeOK
    QueueIsFifo
    WaitersAreDiagnosed
    DroppedSendsAreRecorded
PROPERTIES
    PortComesBack
