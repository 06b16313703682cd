SPECIFICATION FairSpec
CONSTANTS
    Requests = {r1, r2}
    Widgets = {w1, w2}
    Tenants = {t1, t2}
    NoTenant = NoTenant
    NoRequest = NoRequest
    LeadIds = {1, 2}
    MaxCrashes = 1
INVARIANTS
    LeadHasItsIntent
    LeadsBelongToOwner
    AcceptedIsDurable
PROPERTIES
    ErasedStaysErased
    IntakePromise
    EveryRequestAnswered
\* every request is served in the end and none follows it
CHECK_DEADLOCK FALSE
