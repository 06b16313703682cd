SPECIFICATION Spec
CONSTANTS
    Slots = {r1, r2}
    t1 = t1
    t2 = t2
    Tenants = {t1, t2}
    Names = {n1}
    Default = Default
    Custom = Custom
    Unreadable = Unreadable
    Keep = Keep
    NoRow = NoRow
    DemoOwner <- DemoWidgets
    Embedded = 1
    MaxAge = 2
    MaxId = 3
    MaxRequests = 3
    MaxSeeds = 2
SYMMETRY Symmetry
CHECK_DEADLOCK FALSE
INVARIANTS
    NextIdIsFree
    ShownIsRecent
PROPERTIES
    OwnWidgetsOnly
    EditsAreAskedFor
