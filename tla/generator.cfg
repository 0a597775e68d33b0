CONSTANTS
    PerSecond = 2
    RunConfigs <- MCRunConfigs
SPECIFICATION Spec
INVARIANTS
    GenTypeOK
    RowsConserved
    FactsInsideLifetimes
    GateMatchesManifest
    TargetsInsideTheirGap
    CertainChecksPass
