SPECIFICATION Spec
CONSTANTS
    Messages = {1, 2}
    Workers = {w1}
    Supervised = {}
    NoWorker = NoWorker
    Limits = {1, 2}
    BatchSize = 2
    Failures = {refused}
    NoError = NoError
    BudgetSpent = BudgetSpent
    MaxCrashes = 0
    MaxCount = 1
INVARIANT
    FailedRowsAlerted
