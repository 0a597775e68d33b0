CONSTANTS
    LastInstant = 5
    PerDay = 2
    PerSecond = 2
    ReprocessWindowDays = 2
    Feeds <- AllFeeds
    MaxManual = 1
SPECIFICATION MartsSpec
INVARIANTS
    MartsTypeOK
    AsOfCorrect
    WholeSecondJoinExact
    OverlaidColumnsCorrect
    ResolvesUnlessEarly
    KeyStableUnlessCorrected
    SnapshotGrainKept
PROPERTIES
    RecentDaysCorrect
    RefreshExact
CHECK_DEADLOCK FALSE
