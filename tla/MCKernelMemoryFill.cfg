SPECIFICATION KmFillSpec
CONSTANTS
    PgCounts = {64}
    PgMaxOrderAsked = 0
    PgOps = 0
    KmBoards <- MCBoards
    KmDynPages = 16
    KmNodes <- MCNodes
    KmReserve = 6
    KmStack = 2
    KmSpan = 8
    KmKmapSizes = {1, 2}
    KmDynSizes = {1, 3}
    KmOps = 5
PROPERTIES KmFillEnds
CHECK_DEADLOCK FALSE
