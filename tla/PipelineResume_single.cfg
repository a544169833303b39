SPECIFICATION FairSpec
CONSTANTS
    Executors = {e1}
    NumCases = 2
    NumClusters = 1
    LastStage = 15
    MaxInterruptions = 2
INVARIANTS
    TypeOK
    ResumeInv
    AnswersOnce
    LostPerInterruption
PROPERTIES
    NoPaidWorkRepeated
    ImplementsChain
    ValidatedFinishes
CHECK_DEADLOCK FALSE
