SPECIFICATION MapFairSpec
CONSTANTS
    MaxChunks = 4
    Executors = {rayon}
    Null = null
    ExecutorPanic = executorPanic
    SpawnPanic = spawnPanic
    DropPanic = dropPanic
    ResultDropMayPanic = FALSE
    PayloadDropMayPanic = FALSE
    UsizeMax = 9
    MaxLen = 4
    Plans <- MCPlans
INVARIANTS
    NoSharedCell
    EachCellOnce
    ResultsFollowTheQueue
PROPERTIES
    RegionIsQuietAfterTheCall
    MapEnds
CHECK_DEADLOCK FALSE
