SPECIFICATION Spec
CONSTANTS
    Sessions = {s1}
    Tokens = {t1}
    NoOne = NoOne
    NoToken = NoToken
    MaxExtends = 1
PROPERTIES
    HoldIsKept
CHECK_DEADLOCK FALSE
