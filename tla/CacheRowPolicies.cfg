SPECIFICATION SpecReset
CONSTANTS
    Associativity = 4
    Policies = {"RP_LRU", "RP_PLRU", "RP_NMRU", "RP_RAND"}
    LfuMod = 5
INVARIANTS
    InvalidFirst
    PolicyVictim
    MissesReplaceAll
