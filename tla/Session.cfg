CONSTANTS
    BP_MAX_BITS = 3
    ElfFiles <- MCElfFiles
    MaxCycles = 3
    MaxBurst = 2
    CacheEdits <- MCCacheEdits
    TlbEdits <- MCTlbEdits
    TimeEdits <- MCTimeEdits
    BitEdits <- MCBitEdits
    PredictorTypes <- MCPredictorTypes
    FsRoots <- MCFsRoots
    CliOptions <- MCCliOptions
    MaxEdits = 2
    MaxBuilds = 1
    MaxMachines = 2
SPECIFICATION Spec
INVARIANTS ClockRuns ActionsMatchStatus PresetHolds SettingsRoundTrip ReportIsFinal
CHECK_DEADLOCK FALSE
