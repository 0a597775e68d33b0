CONSTANTS
    billing = billing
    playback = playback
    watchlist = watchlist
    Entities <- MCEntities
    Files <- MCFiles
    EntityOf <- MCEntityOf
    Ids <- MCIds
    IdsIn <- MCIdsIn
    CommitTime <- MCPlayback
    Deduplicated <- MCBilling
    BothBounds <- MCWatchlist
    Gated = playback
    SessionOf <- MCSessionOf
    Failures <- AnyFailure
    MaxFailures = 2
    Scenarios <- AllScenarios
SPECIFICATION FairFactSpec
INVARIANTS
    FactTypeOK
    LoadedOnce
    ProcessedStateSound
    WatermarkSkipsNothing
    OneRowPerId
    RowsJudgedOnce
PROPERTIES
    VisibleInOrder
    EveryFileLoaded
    FactNeverGoesBack
    EveryRowReachesItsFact
