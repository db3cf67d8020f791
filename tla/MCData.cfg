SPECIFICATION Spec
CONSTANTS
    MaxBody = 4
    PeekMax = 2
    Space = 2
    MaxLimit = 5
    Chains <- MCChains
INVARIANTS
    NothingLostOrRepeated
    CompleteIsExact
    TransformsCompose
PROPERTIES
    ReadingEnds
CHECK_DEADLOCK FALSE
