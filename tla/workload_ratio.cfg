SPECIFICATION Spec
CONSTANTS
    NumRequests = 4
    PromptLens <- UniformLens
    OutputLens <- MCOutputLens
    SharedRatio = 50
    SharedLength = NoLength
    NoLength = NoLength
    Pattern = "poisson"
    Gaps <- MCGaps
    StaggerSteps = 2
INVARIANTS
    OverlapIsRatioOfPrompt
CHECK_DEADLOCK FALSE
