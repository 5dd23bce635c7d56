SPECIFICATION ThreadSpec
CONSTANTS
    Gates = {g1, g2, g3}
    Values = {v1, v2}
    None = none
    MaxInits = 3
INVARIANTS
    OneHolder
    FlagMeansInside
    RefusedOnlyInside
    AnswersAgree
