CONSTANTS
    Campaigns = {c1}
    Services = {s1, s2}
    Timeout = 1
    Margin = 2
    BeatEvery = 1
    RetryDelay = 1
    Interval = 1
    MaxAttempts = 2
    DailyCap = 2
    MaxWait = 0
    MaxLaunch = 1
    MaxJobs = 2
    Nobody = Nobody
SPECIFICATION Spec
INVARIANTS
    OnlyCurrentRuns
    OneOpenJob
    PublishedByLastAttempt
    DailyCapRespected
SYMMETRY Symmetry
