SPECIFICATION Spec
CHECK_DEADLOCK FALSE
CONSTANTS
    Cases = {c1, c2}
    Other = c0
    FewShot <- FewShotOne
    Knn <- KnnNone
    MaxFaults = 1
SYMMETRY CaseSymmetry
INVARIANTS
    TypeOK
    RunsMatchRows
    MeasuredIsCommitted
PROPERTY ResultsFinal
