SPECIFICATION Spec
CONSTANTS
    r1 = r1
    r2 = r2
    r3 = r3
    Req <- MCReq
    Token <- MCToken
    Prompt <- MCPrompt
    Output <- MCOutput
    BlockSize = 2
    NumBlocks = 7
    NumSpec = 2
    NoReq = NoReq
    NoEngineReq = NoEngineReq
    NoDemand = NoDemand
INVARIANTS
    EngineMirrorsRequest RejectedBlocksReused CacheHoldsAcceptedText
    RefusedOnlyForOthers
PROPERTIES
    ImplementsService
CHECK_DEADLOCK FALSE
