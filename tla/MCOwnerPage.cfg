SPECIFICATION Spec
CONSTANTS
    N = 2
    GraphServices = {2}
    GateServices = {2}
    MaxSignins = 2
INVARIANTS
    TypeOK
    NoticeHonest
    CodesCapped
    HoldIsWatched
CHECK_DEADLOCK FALSE
