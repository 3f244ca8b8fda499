CONSTANTS
    j1 = j1
    j2 = j2
    symbolic = symbolic
    text = text
    paidTool = paidTool
    snap = snap
    Jobs = {j1, j2}
    KindOf <- MCKindOf
    InputOf <- MCInputOf
    MaxTrials <- MCMaxTrials
    MaxDataCost <- MCMaxDataCost
    Local = {text}
    TextEvent = text
    Calls = {t1, t2}
    JobOf <- MCJobOf
    Tools = {paidTool, fetch}
    Bound <- MCBound
    MayCall <- MCMayCall
    Fetch = fetch
    Overrun = 1
    MaxOwnCost = 1
    CliFetches = {k1}
    MaxAttempts = 2
    CallBytes = 2
    TotalBytes = 3
    MaxRedirects = 1
    MaxStarted = 3
    Candidates = {c1}
    SnapshotOf <- MCSnapshotOf
    Actors = {validator, agent}
    Validator = validator
    None = None
SPECIFICATION Spec
INVARIANTS
    CostCoversPaid
    PublishedAccounted
    CollectionCovered
CHECK_DEADLOCK FALSE
