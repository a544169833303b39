SPECIFICATION Spec
CONSTANTS
    Executors = {e1, e2}
    NumCases = 2
    NumClusters = 1
    LastStage = 4
    MaxInterruptions = 1
SYMMETRY Symmetry
INVARIANTS
    MarkedMeansComplete
CHECK_DEADLOCK FALSE
