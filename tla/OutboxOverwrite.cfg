SPECIFICATION FairSpec
CONSTANTS
    Messages = {1, 2}
    Workers = {w1, w2}
    Supervised = {w1}
    NoWorker = NoWorker
    Limits = {2}
    BatchSize = 2
    Failures = {refused}
    NoError = NoError
    BudgetSpent = BudgetSpent
    MaxCrashes = 0
    MaxCount = 1
PROPERTY
    SettledIsFinal
