SPECIFICATION Spec
CONSTANTS
    N = 1
    GraphServices = {}
    GateServices = {1}
    MaxSignins = 2
PROPERTIES
    OwnersCall
CHECK_DEADLOCK FALSE
