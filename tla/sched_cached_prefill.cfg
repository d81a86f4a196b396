SPECIFICATION Spec
CONSTANTS
    r1 = r1
    r2 = r2
    r3 = r3
    Req <- MCReq
    Loaded <- MCLoaded
    Id <- OwnId
    Arrival <- Arrivals
    PromptLen <- Prompts
    OutLen <- Outputs
    Hits <- FullHits
    NumSpec = 2
    Warmup = 2
    StallLimit = 2
    Latencies <- MCLatencies
    NoTime = NoTime
PROPERTIES
    StallMeansNothingRan
CHECK_DEADLOCK FALSE
