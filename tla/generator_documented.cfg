CONSTANTS
    PerSecond = 2
    RunConfigs <- MorningChanges
SPECIFICATION Spec
INVARIANT AnyPathologyAsDocumented
