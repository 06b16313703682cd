SPECIFICATION FormSpec
CONSTANTS
    MaxBytes = 2
    MaxBody = 4
    Providers = 2
    NoHeader = NoHeader
    BadHeader = BadHeader
    NoAnswers = NoAnswers
    NoObject = NoObject
    MaxAnswer <- Limits
    MaxTrap <- TrapLimit
    MaxFields = 12
    Configs <- WidgetConfigs
    Payloads <- Bodies
    Typed <- TypedTexts
    MaxPresses = 2
\* a request ends, and the presses of a behaviour are bounded
CHECK_DEADLOCK FALSE
INVARIANTS
    AnsweredOnce
    CountedAsAnswered
    StoredAsConfigured
    FirstAnswerCounts
    OneLeadUnlessUntold
    FormAndServerAgree
