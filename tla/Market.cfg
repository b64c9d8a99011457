SPECIFICATION FairMarketSpec
CONSTANTS
    Span <- MCSpan
    LongRun = 4
    Horizon <- MCHorizon
    SampleDays = 5
    SamplePrices = {2, 3, 5}
    Ingester = {"morning", "evening"}
    Exporter = {"x"}
    Asset = {"splits", "pair", "copper"}
    Requested <- MCRequested
    Class <- MCClass
    Symbols = {"splits", "pair"}
    Covered = {"splits", "pair"}
    Close <- MCClose
    Split <- MCSplit
    Backfill = 2
    Exposed <- MCExposed
    MomentumWindow = "6m"
    Judged = {"moat", "growth"}
    Technical = "technical"
    Answers <- MCAnswers
    MaxClock = 3
CONSTRAINT ReadersApart
CHECK_DEADLOCK FALSE
INVARIANTS PastIsAnswered PassesAreAccounted SeriesAreMeasured
PROPERTY SnapshotsStandAndRunsEnd
