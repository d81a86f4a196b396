SPECIFICATION LiveSpec
CONSTANTS
    r1 = r1
    r2 = r2
    r3 = r3
    Req <- MCReq
    Loaded <- MCLoaded
    Id <- OwnId
    Arrival <- Arrivals
    PromptLen <- Prompts
    OutLen <- Outputs
    Hits <- FullHits
    NumSpec = 2
    Warmup = 2
    StallLimit = 2
    Latencies <- MCLatencies
    NoTime = NoTime
INVARIANTS
    ServedInArrivalOrder HeldMatchesText AcceptanceAccounted FirstTokenPaid
    StallsAwaitDecodes PercentilesFaithful DecodePace ThroughputWithinRequests
PROPERTIES
     Termination
CHECK_DEADLOCK FALSE
