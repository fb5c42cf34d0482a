SPECIFICATION Spec
CONSTANTS
    Jobs = {j1}
    Services = {1}
    NoJob = NoJob
    MaxAttempts = 1
    MaxRestarts = 0
    MaxFaults = 0
PROPERTIES
    CancelIsFinal
CHECK_DEADLOCK FALSE
