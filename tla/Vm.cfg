CONSTANTS
    Levels = 2
    TableSize = 2
    Tables <- MCTables
    Frames <- MCFrames
    Ways = 2
    Sets = 1
    VmEnabled = TRUE
    Policies = {"RAND", "LRU", "PLRU", "LFU"}
    LfuMax = 1
    InitTables <- MCInitTables
    PteWrites <- MCPteWrites
    MaxPteWrites = 1
    Satps <- MCSatps
    Sstatuses <- MCSstatuses
    Accesses <- MCAccesses
    Disciplined = TRUE
SPECIFICATION Spec
INVARIANTS UniqueTranslations FencedEntriesMatchWalk UsedNotNextVictim
PROPERTIES StoredPagesDirty ImplementsDirectWalk
CHECK_DEADLOCK FALSE
