SPECIFICATION Spec
CONSTANTS
    r1 = r1
    r2 = r2
    r3 = r3
    Req <- MCReq
    Loaded <- MCLoaded
    Id <- OwnId
    Arrival <- LateArrivals
    PromptLen <- Prompts
    OutLen <- LongOutputs
    Hits <- PartialHits
    NumSpec = 1
    Warmup = 3
    StallLimit = 2
    Latencies <- MCLatencies
    NoTime = NoTime
INVARIANTS
    HitRateOverRecordedSteps
CHECK_DEADLOCK FALSE
