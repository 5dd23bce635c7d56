SPECIFICATION Spec
CONSTANTS
    MaxChunks = 3
    Executors = {e1, e2}
    Null = Null
    ExecutorPanic = ExecutorPanic
    SpawnPanic = SpawnPanic
    DropPanic = DropPanic
    ResultDropMayPanic = TRUE
    PayloadDropMayPanic = TRUE
INVARIANT
    NothingLeaks
CHECK_DEADLOCK FALSE
