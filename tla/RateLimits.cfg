SPECIFICATION Spec
CONSTANTS
    Requests = {r1, r2}
    Processes = {p1, p2}
    Addresses = {a1, a2}
    Widgets = {w1}
    Redis = Redis
    IpLimit = 1
    WidgetLimit = 1
    LoginLimit = 1
    Window = 1
    LoginWindow = 2
    MaxKeys = 1
    MaxTime = 2
    MaxFailures = 2
    MaxLosses = 1
SYMMETRY Symmetry
\* every request ends and the clock stops
CHECK_DEADLOCK FALSE
INVARIANTS
    BudgetPerStore
    SharedBudget
PROPERTY RefusedForTraffic
