SPECIFICATION FairSpec
CONSTANTS
    Label = {am4}
    Op = {c1}
    Handle = {h1, h2, h3}
    None = None
    Signals <- Exposed
    Threshold = 2
    MaxWrites = 2
VIEW View

    
PROPERTIES
    CallsEnd
    StaleDropIsEarned
    NoAckPropagates
