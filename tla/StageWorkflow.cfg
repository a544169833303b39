SPECIFICATION FairSpec
CONSTANTS
    Cases = {c1, c2}
    MinItems = {2, 3}
    MaxFaults = 2
CHECK_DEADLOCK FALSE
INVARIANTS
    TypeOK
    LeftOutOnlyFailed
    RepeatsNeedFaults
    RecordedMeansMarked
    UsageCountedOnce
    UsageLostOnlyByFaults
PROPERTIES
    JobCompletes
