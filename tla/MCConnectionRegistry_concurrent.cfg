SPECIFICATION Spec
CONSTANTS
    Label = {am4}
    Op = {c1, c2}
    Handle = {h1, h2, h3, h4}
    None = None
    Signals <- Exposed
    Threshold = 2
    MaxWrites = 1
SYMMETRY Symmetric
VIEW View
INVARIANTS
    TypeOK
    OneHandlePerEndpoint
    PortsRecoverable
PROPERTIES
    AcquireIsHealthy
    ImplementsLease
