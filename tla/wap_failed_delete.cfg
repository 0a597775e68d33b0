CONSTANTS
    r1 = r1
    r2 = r2
    dim = dim
    fact = fact
    BootstrapNamespace = BootstrapNamespace
    DirectBuild = DirectBuild
    Tables <- MCTables
    Values <- SmallValues
    Writers <- MCWriters
    Tests <- MCTests
    Runs <- OneRun
    Scope <- OnlyDim
    KeepChoices <- NoneKept
    InitialHashes <- LoadedMain
    MaxConcurrentRuns = 1
    MaxDirectWrites = 0
    Unreliable <- OneRun
SPECIFICATION Spec
INVARIANT FailureLeavesMainUntouched
