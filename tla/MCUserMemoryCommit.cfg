SPECIFICATION UmSpec
CONSTANTS
    UmTasks = {"A","B"}
    UmCpus = {"c1","c2","c3"}
    UmFirst <- MCFirst
    UmElf <- MCElf
    UmPages = 6
    UmSpace = 8
    UmCount = 4
    UmFrames = {0,1,2,3,4,5,6,7}
    UmMmaps <- MCMmaps
    UmMunmaps <- MCMunmaps
    UmAddrs = {3, 4, 7, 8}
    UmSizes = {2}
    UmExceptions <- MCExceptions
    UmOps = 6
INVARIANTS UmOneFrame
CHECK_DEADLOCK FALSE
