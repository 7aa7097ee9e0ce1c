CONSTANTS
    TicksPerMs = 2
    IntervalLimit = 2
    Setups <- MCSetups
    Exceptions <- MCExceptions
    TimerValues = {1, 4}
    MaxTimerWrites = 2
    MaxClock = 4
    LastTimerWrite = 1
    MaxBytes = 2
SPECIFICATION FairSpec
INVARIANTS LinesFollowDevices NoByteUnannounced TimerNeverEarly
PROPERTIES ReturnsRestore TimerRaised
CHECK_DEADLOCK FALSE
