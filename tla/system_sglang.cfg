SPECIFICATION SystemSpec
CONSTANTS
    r1 = r1
    r2 = r2
    r3 = r3
    NoReq = NoReq
    NoTime = NoTime
    Req <- MCReq
    Token <- MCToken
    Prompt <- MCPrompt
    Output <- MCOutput
    Loaded <- MCLoaded
    Arrival <- MCArrival
    Latencies <- MCLatencies
    Warmup = 0
    StallLimit = 2
    PageSize = 2
    Window = 1
    SwaTokens = 8
    FullTokens = 10
    NumSpec = 1
INVARIANTS StallIsDeadlock LoneRequestServed
PROPERTIES ImplementsScheduler RunEnds
CHECK_DEADLOCK FALSE
