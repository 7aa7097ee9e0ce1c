SPECIFICATION Spec
CONSTANTS
    Enabled = TRUE
    Associativity = 2
    SetCount = 1
    BlockSize = 2
    BLOCK_ITEM_SIZE = 1
    MaxTag = 2
    WritePolicy = "WP_BACK"
    UncachedStart = 100
    UncachedLast = 110
    Val = {0, 1}
    InitMem <- MCInitMem
    Requests <- CachedRequests
    CounterMod = 1
    ReplacementPolicy = "RP_LRU"
    LfuMod = 4
    PolicyStates <- MCPolicyStates
    PolicyInit <- MCPolicyInit
    UpdateStats <- MCUpdateStats
    WaysToEvict <- MCWaysToEvict
INVARIANTS
    UniqueBlocks
    InvalidClean
    CleanMatchesMemory
    FlushedToMemory
PROPERTY
    Transparent
