SPECIFICATION CutSpec
CONSTANTS
    UsizeMax = 31
    MaxLen = 15
    MaxParameter = 31
INVARIANTS
    ShardsInBounds
    ShardsTileTheRegion
    DriversAgree
    MatchesParChunks
    SizeHintIsExact
    DescriptorsInBounds
    DescriptorsTile
PROPERTIES
    PartsBoundsTheShards
    CutsEnd
CHECK_DEADLOCK FALSE
