SPECIFICATION Spec
CHECK_DEADLOCK FALSE
CONSTANTS
    Cases = {c1, c2}
    Other = c0
    FewShot <- FewShotOne
    Knn <- KnnNone
    MaxFaults = 0
INVARIANT ScaffoldAsMeasured
