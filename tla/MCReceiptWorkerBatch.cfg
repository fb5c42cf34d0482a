SPECIFICATION Spec
CONSTANTS
    Jobs = {j1}
    Services = {1, 2}
    NoJob = NoJob
    MaxAttempts = 1
    MaxRestarts = 1
    MaxFaults = 1
INVARIANTS
    TypeOK
    IInv
    CompletedIsSaved
    SuccessMeansSaved
    OutcomesAreDisjoint
    NoCancelledUpload
    LoopHeadIsSettled
    WaitingIsAnswerable
PROPERTIES
    OutcomesAccumulate
    CancelYieldsOnlyToChallenge
    ImplementsLedger
CHECK_DEADLOCK FALSE
