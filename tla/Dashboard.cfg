SPECIFICATION DashboardSpec
CONSTANTS
    Ids = {1, 2, 3, 4}
    Tenants = {t1, t2}
    Widgets = {w1, w2}
    AllWidgets = AllWidgets
    NoCursor = NoCursor
    Limits = {1, 2}
    Country <- Countries
    Day <- Days
\* a caller reads once, and the ids are used up
CHECK_DEADLOCK FALSE
INVARIANTS
    NoLeadTwice
    NothingSkipped
    StatsInRange
PROPERTY ReadingEnds
