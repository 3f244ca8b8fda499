CONSTANTS
    s1 = s1
    s2 = s2
    other = other
    Jobs = {j1}
    Responses <- Answers
    Idea = Idea
    Invalid = Invalid
    Foreign = {}
    Run = r1
    MaxTries = 2
    Torn = Torn
    Runs = {r1}
    Specs = {s1, s2}
    Workers = {}
    Budgets <- TwoTrials
    Results = {}
    EventKeys <- Keys
    Events <- NoteContents
    Payloads = {}
    MaxLease = 1
    MaxDelay = 0
    None = None
SPECIFICATION Spec
INVARIANTS
    ResponseRecoverable
CHECK_DEADLOCK FALSE
