SPECIFICATION Spec
CONSTANTS
    Sessions = {s1}
    Tokens = {t1}
    NoOne = NoOne
    NoToken = NoToken
    MaxExtends = 0
INVARIANTS
    NoStandoff
CHECK_DEADLOCK FALSE
