SPECIFICATION TimerFairSpec
CONSTANTS
    Mult = 7
    Shift = 1
    InvMult = 9
    InvShift = 5
    Delays = {2, 8}
    MaxTick = 4
    MaxNodes = 1
PROPERTIES SleepEnds
CHECK_DEADLOCK FALSE
