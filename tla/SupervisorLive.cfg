CONSTANTS
    Campaigns = {c1}
    Services = {s1}
    Timeout = 2
    Margin = 2
    BeatEvery = 1
    RetryDelay = 1
    Interval = 1
    MaxAttempts = 2
    DailyCap = 1
    MaxWait = 1
    MaxLaunch = 1
    MaxJobs = 2
    Nobody = Nobody
SPECIFICATION FairSpec
PROPERTIES
    ImplementsWork
    CampaignGoesOn
