SPECIFICATION Spec
CONSTANTS
    r1 = r1
    r2 = r2
    r3 = r3
    Req <- MCReq
    Loaded <- MCLoaded
    Id <- SharedId
    Arrival <- Arrivals
    PromptLen <- Prompts
    OutLen <- Outputs
    Hits <- FullHits
    NumSpec = 2
    Warmup = 0
    StallLimit = 2
    Latencies <- MCLatencies
    NoTime = NoTime
INVARIANTS
    DoneMeansAllFinished
CHECK_DEADLOCK FALSE
