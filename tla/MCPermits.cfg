SPECIFICATION Spec
CONSTANTS
    b1 = b1
    b2 = b2
    c1 = c1
    c2 = c2
    left = left
    right = right
    value = value
    Null = null
    Threads = {t1, t2}
    Brands = {b1}
    Cells = {c1, c2}
    BrandOf <- OneBrand
    Family <- RegionFamily
    Payloads <- AnyPayloads
    Parts <- PairAndValue
    ShardCellsWritten = FALSE
    MaxGuards = 2
SYMMETRY Symmetry
INVARIANTS
    TypeOK
    NoAliasedMut
    NoDataRace
    PayloadStaysWhereItMay
CHECK_DEADLOCK FALSE
