CONSTANTS
    Runs = {r1}
    Specs = {s1, s2}
    Workers = {w1, w2}
    Budgets <- MCBudgets
    Results = {ok, other}
    EventKeys = {k1}
    Events = {e1, e2}
    Payloads = {p1}
    MaxLease = 2
    MaxDelay = 1
    None = None
SPECIFICATION FairSpec
INVARIANTS
    TypeOK
    LeaseHonoured
    AckedResultStored
    NoTrialStranded
    AuditReconstructsQueue
    BudgetRespected
PROPERTIES
    NothingUndone
    ImplementsWork
    EveryTrialSettles
CHECK_DEADLOCK FALSE
