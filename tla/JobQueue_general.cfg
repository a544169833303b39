SPECIFICATION Spec
CONSTANTS
    NumJobs = 1
    Workers = {w1, w2}
    Operators = {o1}
    OpKinds = {"submit", "cancel", "retry"}
    None = None
    MaxAttempts = 2
    LeaseSeconds = 3
    MinRenew = 1
    Backoff = 1
    MaxCrashes = 1
    MaxFaults = 1
    MaxOps = 2
SYMMETRY Symmetry
INVARIANTS
    TypeOK
    LockConsistent
PROPERTIES
    LiveLeaseRespected
    OnlyOwnerRenews
