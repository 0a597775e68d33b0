CONSTANTS
    r1 = r1
    r2 = r2
    dim = dim
    fact = fact
    BootstrapNamespace = BootstrapNamespace
    DirectBuild = DirectBuild
    Tables <- MCTables
    Values <- SmallValues
    Writers <- MCWriters
    Tests <- MCTests
    Runs <- MCRuns
    Scope <- SharedFact
    KeepChoices <- EitherKept
    InitialHashes <- EitherMain
    MaxConcurrentRuns = 2
    MaxDirectWrites = 1
    Unreliable <- OneRun
SPECIFICATION FairSpec
INVARIANTS
    TypeOK
    PublishedWasAudited
    NoLostUpdate
    EarlyExitMeansUnpublished
    ExitCodeTruthful
    UncontestedPublishIsSound
    AnsweredFailureLeavesMainUntouched
    NothingLeftBehind
PROPERTIES
    MainOnlyGrows
    AuditedPublishesOrLosesRace
    ImplementsGate
