CONSTANTS
    p1 = p1
    p2 = p2
    b1 = b1
    d1 = d1
    d2 = d2
    Proposals = {p1, p2}
    Books = {b1}
    BookOf <- TheBook
    Notional <- OneAndTwo
    Policies <- Modal
    Dispatchers = {d1, d2}
    Arming <- Armings
    QuoteLife = 1
    Life = 2
    Batch = 1
    MaxRevisions = 2
    MaxDay = 2
    Unset = Unset
SPECIFICATION Spec
INVARIANTS
    OneAttempt
    OrderAuthorised
    DailyCapRespected
    RecordedBeforeSent
PROPERTIES
    NothingReopened
CHECK_DEADLOCK FALSE
