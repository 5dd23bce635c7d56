SPECIFICATION Spec
CONSTANTS
    UsizeMax = 31
    MaxLen = 15
    MaxParameter = 17
INVARIANT
    ShardCountIsMin
CHECK_DEADLOCK FALSE
