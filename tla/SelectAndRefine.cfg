SPECIFICATION Spec
CHECK_DEADLOCK FALSE
CONSTANTS
    Cases <- TwoCases
    Contents <- SomeContents
    Revisions <- SomeRevisions
    RankingModes = {"support_count", "utility", "utility_per_token"}
    MaxFailureCases = 1
    MaxAnswer = 2
    MaxRules = 3
    MaxPromptTokens = 4
    MinSupport = 2
    Penalty = 2
    MinDelta = 0
    MaxMalformed = 0
    MaxGolden = 0
    MaxRegressions = 50
    MaxTokens = 2
    ScoreEpsilon = 1
INVARIANTS
    SelectionSound
PROPERTIES
    SignalsCountCases
    OnlyImplicatedChange
    PruningSound
