SPECIFICATION PredictedSpec
CONSTANTS
    N = 5
    MaxReg = 2
    Instructions <- MCInstructions
    MTVEC = 0
    StepOver = {}
    FaultData = {}
    FaultFetch = {4}
    HwBreaks = {}
    Interrupts = FALSE
    HazardUnit = "HU_STALL"
    Predictor = TRUE
    BtbBits = 1
    BhrBits = 1
    BhtAddrBits = 1
    BP_MAX_BITS = 2
    MaxJumps = 6
INVARIANT MispredictionsAreJumps
PROPERTY ImplementsSingle
CHECK_DEADLOCK FALSE
