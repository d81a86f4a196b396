SPECIFICATION Spec
CONSTANTS
    NumRequests = 4
    PromptLens <- UniformLens
    OutputLens <- MCOutputLens
    SharedRatio = 50
    SharedLength = NoLength
    NoLength = NoLength
    Pattern = "poisson"
    Gaps <- MCGaps
    StaggerSteps = 2
INVARIANTS
    OverlapIsSharedPrefix TokensIndependentOfArrivals
CHECK_DEADLOCK FALSE
