CONSTANTS
    MaxIterations = 2
    Epsilon = 1
    MaxScore = 2
    NumRules = 3
    MaxAblation = 2
    FewShotScore = 1
    MaxFaults = 0

SPECIFICATION Spec
CHECK_DEADLOCK FALSE

INVARIANT
    RefinedPromptExported
