SPECIFICATION Spec
CONSTANTS
    N = 4
    MaxReg = 2
    Instructions <- DataInstructions
    MTVEC = 2
    StepOver = {"EXCAUSE_BREAK"}
    FaultData = {3}
    FaultFetch = {}
    HwBreaks = {1}
    Interrupts = FALSE
    HazardUnit = "HU_STALL_FORWARD"
    Predictor = FALSE
INVARIANT
    NothingBehindException
PROPERTY
    ImplementsSingle
CHECK_DEADLOCK
    FALSE
