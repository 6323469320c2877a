SPECIFICATION Spec
CONSTANTS
    CPUS = {c1, c2}
    NoCpu = NoCpu
    IrqCpu = c1
    Uses <- ThreadsOnly
    FifoSize = 1
    MaxLen = 2
    MaxChars = 4
    MaxKernel = 0
INVARIANT BufferedIsNotified
CHECK_DEADLOCK FALSE
