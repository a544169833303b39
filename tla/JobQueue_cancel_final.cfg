SPECIFICATION Spec
CONSTANTS
    NumJobs = 1
    Workers = {w1}
    Operators = {o1}
    OpKinds = {"cancel", "retry"}
    None = None
    MaxAttempts = 2
    LeaseSeconds = 3
    MinRenew = 1
    Backoff = 0
    MaxCrashes = 0
    MaxFaults = 0
    MaxOps = 1
PROPERTIES
    CancelIsFinal
