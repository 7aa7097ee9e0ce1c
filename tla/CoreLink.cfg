SPECIFICATION FairSpec
CONSTANTS
    N = 4
    MaxReg = 2
    Instructions <- LinkInstructions
    MTVEC = 2
    StepOver = {}
    FaultData = {}
    FaultFetch = {}
    HwBreaks = {}
    Interrupts = FALSE
    HazardUnit = "HU_STALL_FORWARD"
    Predictor = TRUE
PROPERTY
    ImplementsSingle
