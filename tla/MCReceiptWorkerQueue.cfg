SPECIFICATION Spec
CONSTANTS
    Jobs = {j1, j2}
    Services = {1}
    NoJob = NoJob
    MaxAttempts = 1
    MaxRestarts = 1
    MaxFaults = 0
SYMMETRY JobSymmetry
INVARIANTS
    LiveJobIsOwned
PROPERTIES
    EndedIsFinal
CHECK_DEADLOCK FALSE
