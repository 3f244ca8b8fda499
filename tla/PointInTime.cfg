CONSTANTS
    DayLength = 2
    None = None
    Catalog <- MCCatalog
    Maps <- MCMaps
    FeatureLag = 1
    MaxCandidates = 2
    Parts <- MCParts
    Creators = {c1, c2}
    MaxStarts = 2
    Sources <- MCSources
    Exposures <- MCExposures
    Universe <- MCUniverse
    Opens <- MCOpens
    Unreliable <- MCUnreliable
    Calendar <- MCCalendar
    Plans <- MCPlans
    Formulas <- MCFormulas
    Horizon = 1
    MinTrainDays = 1
    TestDays = 1
    Embargo = 1
    MinAssets = 3
    MinTrainRows = 3
    MaxTime = 13
SPECIFICATION Spec
VIEW View
SYMMETRY MCSymmetry
INVARIANTS
    PanelKnowable
    PredictionsKnowable
    SnapshotSound
    GovernedFeatures
CHECK_DEADLOCK FALSE
