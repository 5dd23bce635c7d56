SPECIFICATION Spec
CONSTANTS
    UsizeMax = 31
    MaxLen = 31
    MaxParameter = 17
INVARIANT
    ShardsInBounds
CHECK_DEADLOCK FALSE
