SPECIFICATION Spec
CONSTANTS
    Messages = {1, 2}
    Workers = {w1, w2}
    Supervised = {w1}
    NoWorker = NoWorker
    Limits = {2}
    BatchSize = 2
    Failures = {refused, timeout}
    NoError = NoError
    BudgetSpent = BudgetSpent
    MaxCrashes = 1
    MaxCount = 0
INVARIANTS
    SentWasDelivered
    NoHoldAndWait
    AttemptsWithinBudget
