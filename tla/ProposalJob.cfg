CONSTANTS
    s1 = s1
    s2 = s2
    other = other
    Jobs = {j1, j2}
    Responses <- Answers
    Idea = Idea
    Invalid = Invalid
    Foreign = {other}
    Run = r1
    MaxTries = 2
    Torn = Torn
    Runs = {r1}
    Specs = {s1, s2, other}
    Workers = {}
    Budgets <- TwoTrials
    Results = {}
    EventKeys <- Keys
    Events <- NoteContents
    Payloads = {}
    MaxLease = 1
    MaxDelay = 0
    None = None
SPECIFICATION Spec
INVARIANTS
    OneInvocation
    ResultComplete
    TrialsTraceable
PROPERTIES
    FrozenStays
SYMMETRY Symmetry
CHECK_DEADLOCK FALSE
