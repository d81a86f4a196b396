SPECIFICATION Spec
CONSTANTS
    r1 = r1
    r2 = r2
    r3 = r3
    NoReq = NoReq
    Req <- MCReq
    Token <- MCToken
    Prompt <- SharingPrompt
    Output <- SharingOutput
    PageSize = 2
    Window = 1
    SwaTokens = 10
    FullTokens = 11
    NumSpec = 2
INVARIANTS
    FlatPoolNeverBinds FullUseCoversSlots ContractsKept
    WindowNotReclaimed SwaUseExact LockedPagesCached
    SlotsOwnedOnce SharedOnlyByPrefix NoSlotLost
PROPERTIES
    EvictionSparesServed ImplementsService
CHECK_DEADLOCK FALSE
