SPECIFICATION FairSpec
CONSTANTS
    Messages = {1, 2}
    Workers = {w1, w2}
    Supervised = {w1}
    NoWorker = NoWorker
    Limits = {1, 2}
    BatchSize = 1
    Failures = {refused}
    NoError = NoError
    BudgetSpent = BudgetSpent
    MaxCrashes = 1
    MaxCount = 4
INVARIANTS
    NoSharedClaim
    AttemptsAccountForSends
    GivesUpOnce
PROPERTIES
    SettledIsFinal
    DeliveryPromise
    EventuallySettled
