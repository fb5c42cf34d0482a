SPECIFICATION MCSpec
CONSTANTS
    Processes = {1, 2}
    Names = {1, 2, 3}
    Retention = 2
    Threshold = 2
    MaxWrites = 2
    Jobs = {1, 2}
    ServiceIds = {1}
    MailServices = {}
    MaxChallenges = 1
    CodeJobs = {1}
    CodeChallenges = 2
    Documents = {1, 2}
    Uploads = {1, 2}
    MaxCrashes = 1
    Months <- FirstMonths
    MaxChanges = 2
    States = {1, 2, 3}
    Accounts = {1, 2}
    Answers = {1, 2}
    NoAnswer = 0
INVARIANTS
    TypesOK
    AnswersMatch
    EndIsShown
    OneReceipt
    SavedIsFound
    OnlyOlderAreLeftOut
    WorkIsBackedUp
    StopIsClean
    OneExchange
    TokensFollowOwner
    AcceptedIsUsed
PROPERTIES
    PressPays
    JobIsShown
    SickComesDown
    ImplementsBox
CHECK_DEADLOCK FALSE
