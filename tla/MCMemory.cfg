SPECIFICATION MemorySpec
CONSTANTS
    MmuEntries = 2
    MmuMaxLevel = 3
    MmuVas = {0, 1, 2, 3, 4, 6}
    MmuSizes = {1, 2, 4}
    MmuTargets <- MCMmuTargets
    MmuOps = 3
    PgCounts = {1, 16, 20}
    PgMaxOrderAsked = 2
    PgOps = 6
    KmBoards <- MCBoards
    KmDynPages = 16
    KmNodes <- MCNodes
    KmReserve = 6
    KmStack = 2
    KmSpan = 8
    KmKmapSizes = {1, 2}
    KmDynSizes = {1, 3}
    KmOps = 5
    CacheEntries <- MCCacheEntries
    CacheUnits = 6
    CacheLarge = {4, 8}
    CacheWants = {0, 3, 5, 9}
    CacheOps = 7
    UmTasks = {"A", "B"}
    UmCpus = {"c1", "c2", "c3"}
    UmFirst <- MCFirst
    UmElf <- MCElf
    UmPages = 6
    UmSpace = 8
    UmCount = 4
    UmFrames = {0, 1, 2, 3, 4, 5, 6, 7}
    UmMmaps <- MCMmaps
    UmMunmaps <- MCMunmaps
    UmAddrs = {3, 7, 8, 11, 15}
    UmSizes = {2}
    UmExceptions <- MCExceptions
    UmOps = 4
    RbtKeys = {1, 2, 3, 4, 5, 6, 7, 8}
    StlEntries <- MCStlEntries
    StlNode = 7
    StlPageSize = 10
    StlPages = 9
    StlWants = {3, 8, 15}
    StlThreads = {1, 2}
    StlOps = 6
    KvecSizes = {1, 3}
    KvecMinItems = 2
    KvecMinOrder = 1
    KvecMax = 8
    RingSizes = {1, 2, 4}
    RingValues = {1, 2}
    RingOps = 8
    CoreCpus = {0, 1, 2}
    CoreTasks = {"A", "B"}
    CoreSwitches = 4
    CPUS = {0, 1}
    IrqMasked = TRUE
    MaxDepth = 2
    UintMod = 8
INVARIANTS MutualExclusion MmuTablesCorrect PgPartitioned KmConsistent KmStopsOnlyOutOfPages CacheConsistent UmOneFrameUntilMixed UmMappedIsOwned UmNoForeignData  RbtIsRedBlack StlSlotsMatch KvecKeepsElements RingIsQueue CoreReachable
PROPERTIES RefinesRecursiveLock
CHECK_DEADLOCK FALSE
