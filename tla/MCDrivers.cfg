SPECIFICATION DriversSpec
CONSTANTS
    CPUS = {c1, c2}
    NoCpu = NoCpu
    IrqCpu = c1
    Uses <- ThreadsOrOneCpu
    FifoSize = 2
    MaxLen = 3
    MaxChars = 8
    MaxKernel = 3
    SiCpus = {"c1", "c2"}
    SiIrqCpu = "c1"
    SiTasks = {"A", "B"}
    SiFifo = 2
    SiPage = 3
    SiHeader = 1
    SiFds <- MCFds
    SiCounts = {0, 1, 4}
    SiChars = 6
    Mult = 7
    Shift = 1
    InvMult = 9
    InvShift = 5
    Delays = {2, 8}
    MaxTick = 4
    MaxNodes = 3
    DevClasses = {"irq_ctrl", "serial", "timer", "clocksource"}
    IrqCpus = {0, 1}
    IrqTimer = 27
    IrqShared <- MCShared
    IrqCalls <- MCCalls
    IrqPsci = {"success", "failure"}
    IrqRaises = 2
    TmuCpus = {0, 1}
    TmuIrqCpu = 0
    TmuCallers <- MCCallers
    TmuTemps = {1}
    TmuCalls = 3
    TmuEvents = 2
INVARIANTS OutputInOrder SiInOrder MaskedCreateIsSafe IrqContextIsLive IrqConfigKept TmuArmedIsEnabled
PROPERTIES OutputDrains SiInputIsMoved RefinesEventQueue EventsFire IrqAllStart IrqIsServed
CHECK_DEADLOCK FALSE
