SPECIFICATION Spec
CONSTANTS
    r1 = r1
    r2 = r2
    r3 = r3
    NoReq = NoReq
    Req <- MCReq
    Token <- MCToken
    Prompt <- StalePrompt
    Output <- StaleOutput
    PageSize = 2
    Window = 1
    SwaTokens = 8
    FullTokens = 8
    NumSpec = 0
PROPERTY EvictionSparesServed
CHECK_DEADLOCK FALSE
