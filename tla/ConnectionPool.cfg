SPECIFICATION Spec
CONSTANTS
    Request = {heavy, dashboard, light, parallel}
    Heavy = {heavy, dashboard}
    ReuseOnly = {parallel}
    Recycler = recycler
    MaxSize = 2
    HeavyCap = 1
    MaxPools = 1
INVARIANTS
    SlotsAreCounted
    OneUserEach
    NobodyOversleeps
    HeavyIsBounded
CHECK_DEADLOCK FALSE
