SPECIFICATION Spec
CONSTANTS
    None = None
    Scale = 4
    MaxLatency = 5
    DefaultData <- MCData
    DefaultBlocks = 4
    Launches <- MCLaunches
    Batches <- MCBatches
    MaxSteps = 1
INVARIANTS
    LayoutsReconciled BlockSizesFit LedgerCoversPools SpeculationAgrees
    MarginalsReproduced FitIsLeastSquares StepLatency
CHECK_DEADLOCK FALSE
