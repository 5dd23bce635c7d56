SPECIFICATION FairSpec
CONSTANTS
    MaxChunks = 4
    Executors = {e1, e2}
    Null = Null
    ExecutorPanic = ExecutorPanic
    SpawnPanic = SpawnPanic
    DropPanic = DropPanic
    ResultDropMayPanic = TRUE
    PayloadDropMayPanic = TRUE
INVARIANTS
    TypeOK
    ReturnsAllResultsInOrder
    NoDoubleDrop
    ReleasesEverything
    NoTaskOutlivesTheCall
    FlagsMatchSlots
    PanicsPropagate
    ScopedPayloadIsDeterministic
PROPERTIES
    FirstPayloadStays
    CallEnds
    ImplementsPartitionCall
CHECK_DEADLOCK FALSE
