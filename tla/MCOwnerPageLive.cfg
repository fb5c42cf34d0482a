SPECIFICATION Spec
CONSTANTS
    N = 2
    GraphServices = {}
    GateServices = {2}
    MaxSignins = 1
PROPERTIES
    BatchSettles
CHECK_DEADLOCK FALSE
