SPECIFICATION FairSpec
CONSTANTS
    Jobs = {j1}
    Services = {1, 2}
    NoJob = NoJob
    MaxAttempts = 1
    MaxRestarts = 1
    MaxFaults = 0
PROPERTIES
    EveryJobEnds
    CancelFreesWorker
CHECK_DEADLOCK FALSE
