SPECIFICATION SpecRestart
CONSTANTS
    Enabled = TRUE
    Associativity = 1
    SetCount = 2
    BlockSize = 1
    BLOCK_ITEM_SIZE = 2
    MaxTag = 2
    WritePolicy = "WP_THROUGH_NOALLOC"
    UncachedStart = 6
    UncachedLast = 7
    Val = {0, 1}
    InitMem <- MCInitMem
    Requests <- SeparateRequests
    CounterMod = 1
    ReplacementPolicy = "RP_RAND"
    LfuMod = 4
    PolicyStates <- MCPolicyStates
    PolicyInit <- MCPolicyInit
    UpdateStats <- MCUpdateStats
    WaysToEvict <- MCWaysToEvict
PROPERTY
    Transparent
