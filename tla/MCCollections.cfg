SPECIFICATION Spec
CONSTANTS
    MaxValues = 3
INVARIANTS
    EachValueOwnedOnce
    CowsShowTheQueue
    DrainGivesBothEnds
