SPECIFICATION Spec
CONSTANTS
    b1 = b1
    b2 = b2
    c1 = c1
    c2 = c2
    left = left
    right = right
    value = value
    Null = null
    Threads = {t1, t2}
    Brands = {b1}
    Cells = {c1, c2}
    BrandOf <- OneBrand
    Family <- RegionFamily
    Payloads <- PlainPayloads
    Parts <- PairAndValue
    ShardCellsWritten = TRUE
    MaxGuards = 2
SYMMETRY Symmetry
INVARIANT
    SliceExcludesMut
CHECK_DEADLOCK FALSE
