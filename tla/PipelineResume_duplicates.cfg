SPECIFICATION Spec
CONSTANTS
    Executors = {e1}
    NumCases = 1
    NumClusters = 1
    LastStage = 15
    MaxInterruptions = 1
INVARIANTS
    NoDuplicateRecords
CHECK_DEADLOCK FALSE
