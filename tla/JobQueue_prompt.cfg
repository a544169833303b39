SPECIFICATION Spec
CONSTANTS
    NumJobs = 2
    Workers = {w1, w2}
    Operators = {o1}
    OpKinds = {"submit", "retry"}
    None = None
    MaxAttempts = 2
    LeaseSeconds = 2
    MinRenew = 2
    Backoff = 1
    MaxCrashes = 1
    MaxFaults = 0
    MaxOps = 1
SYMMETRY Symmetry
INVARIANTS
    PromptInv
    ExecutorHoldsLease
    OneExecutor
PROPERTIES
    ImplementsLifecycle
