SPECIFICATION FairSpec
CONSTANTS
    NumJobs = 2
    Workers = {w1}
    Operators = {o1}
    OpKinds = {"submit", "cancel", "retry"}
    None = None
    MaxAttempts = 2
    LeaseSeconds = 2
    MinRenew = 1
    Backoff = 1
    MaxCrashes = 1
    MaxFaults = 1
    MaxOps = 2
INVARIANTS
    ClaimBudget
PROPERTIES
    EveryJobSettles
