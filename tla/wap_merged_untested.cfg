CONSTANTS
    r1 = r1
    r2 = r2
    dim = dim
    fact = fact
    BootstrapNamespace = BootstrapNamespace
    DirectBuild = DirectBuild
    Tables <- MCTables
    Values <- SmallValues
    Writers <- MCWriters
    Tests <- MCTests
    Runs <- MCRuns
    Scope <- EachOwnTable
    KeepChoices <- NoneKept
    InitialHashes <- LoadedMain
    MaxConcurrentRuns = 2
    MaxDirectWrites = 0
    Unreliable <- NoRun
SPECIFICATION Spec
INVARIANT MainPassesEveryTest
