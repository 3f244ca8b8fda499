CONSTANTS
    s1 = s1
    s2 = s2
    Answers <- MCAnswers
    Idea = Idea
    Invalid = Invalid
    RoundIds = {a, b}
    MaxRounds = 2
    Run = r1
    Own = own
    Torn = Torn
    Runs = {r1}
    Specs = {s1, s2}
    Workers = {own, w1}
    Budgets <- MCBudgets
    Results = {"evaluated", "not_evaluated"}
    EventKeys <- MCKeys
    Events = {s1, s2, Idea, Invalid}
    Payloads = {}
    MaxLease = 1
    MaxDelay = 0
    None = None
SPECIFICATION Spec
INVARIANTS
    RoundsInformed
    EvidenceStored
    DrainSuffices
PROPERTIES
    TrialsSettle
CHECK_DEADLOCK FALSE
VIEW NoLog
