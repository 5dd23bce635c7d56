SPECIFICATION Spec
CONSTANTS
    b1 = b1
    b2 = b2
    c1 = c1
    c2 = c2
    left = left
    right = right
    value = value
    Null = null
    Threads = {t1, t2}
    Brands = {b1, b2}
    Cells = {c1, c2}
    BrandOf <- TwoBrands
    Family <- TwoFamilies
    Payloads <- PlainPayloads
    Parts <- Values
    ShardCellsWritten = FALSE
    MaxGuards = 2
SYMMETRY Symmetry
INVARIANTS
    LocalCellsStay
CHECK_DEADLOCK FALSE
