SPECIFICATION PgSpec
CONSTANTS
    PgCounts = {80}
    PgMaxOrderAsked = 2
    PgOps = 6
INVARIANT PgNodesInTable
CHECK_DEADLOCK FALSE
