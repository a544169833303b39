SPECIFICATION Spec
CONSTANTS
    Executors = {e1, e2}
    NumCases = 1
    NumClusters = 1
    LastStage = 4
    MaxInterruptions = 0
INVARIANTS
    MarkersUnique
CHECK_DEADLOCK FALSE
