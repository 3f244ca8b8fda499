CONSTANTS
    Assets = {1, 2}
    Strategies = {1, 2}
    Sleeve <- MCSleeve
    Execution <- MCExecution
    InitialCash = 100
    DayLength = 2
    Views <- MCViews
    Batches <- MCBatches
    Creation = 1
    MaxDate = 3
    Stamps = {1, 2, 4}
    MaxSignals = 2
    MaxSignalAge = 1
    MaxBarDelay = 1
    None = None
SPECIFICATION PaperSpec
INVARIANTS
    HistoryStable
    BooksBalance
    FillsExecutable
    ForwardCommitted
CHECK_DEADLOCK FALSE
