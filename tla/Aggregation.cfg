CONSTANTS
    MaxIterations = 2
    Epsilon = 1
    MaxScore = 2
    NumRules = 3
    MaxAblation = 2
    FewShotScore = 1
    MaxFaults = 2

SPECIFICATION FairSpec
CHECK_DEADLOCK FALSE

INVARIANTS
    TypeOK
    RefinementNeverLowers
    CheckpointsUnused
    MetricHasItsRules
    MlflowAgrees
    ResultsLostOnlyByFaults

PROPERTY
    JobEnds
