SPECIFICATION Spec
CONSTANTS
    r1 = r1
    r2 = r2
    r3 = r3
    NoReq = NoReq
    Req <- MCReq
    Token <- MCToken
    Prompt <- RepeatPrompt
    Output <- RepeatOutput
    PageSize = 2
    Window = 1
    SwaTokens = 16
    FullTokens = 16
    NumSpec = 0
INVARIANTS NoSlotLost
CHECK_DEADLOCK FALSE
