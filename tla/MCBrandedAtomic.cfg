SPECIFICATION Spec
CONSTANTS
    Threads = {t1, t2}
    Atomics = {flag, counter}
    Sources <- MCSources
    Width = 1
    MaxStores = 2
    Null = null
SYMMETRY Symmetry
INVARIANTS
    PlainIsExclusive
    NoLostUpdate
    PoliciesPublish
    PoliciesAreAccepted
CHECK_DEADLOCK FALSE
