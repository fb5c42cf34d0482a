SPECIFICATION Spec
CONSTANTS
    Sessions = {s1, s2}
    Tokens = {t1, t2}
    NoOne = NoOne
    NoToken = NoToken
    MaxExtends = 1
SYMMETRY LeaseSymmetry
INVARIANTS
    TypeOK
    OneAttempt
    ClosedBeforeNext
    UsedIsOpen
CHECK_DEADLOCK FALSE
