SPECIFICATION FairSpec
CONSTANTS
    N = 4
    MaxReg = 2
    Instructions <- SystemInstructions
    MTVEC = 2
    StepOver = {}
    FaultData = {}
    FaultFetch = {}
    HwBreaks = {}
    Interrupts = TRUE
    HazardUnit = "HU_STALL_FORWARD"
    Predictor = FALSE
PROPERTIES
    ImplementsSingle
    Progress
