CONSTANTS
    r1 = r1
    r2 = r2
    r3 = r3
    Demo = Demo
    Schema = Schema
    DirectBuild = DirectBuild
    Good = Good
    Bad = Bad
    Tables <- MCTables
    Values <- MCValues
    Writers <- MCWriters
    Runs <- MCRuns
    MaxFaulty = 1
    MaxDirectWrites = 1
SPECIFICATION Spec
SYMMETRY Interchangeable
INVARIANTS
    DemoTypeOK
    EvidenceIsTrue
    UndisturbedRunSucceeds
PROPERTY
    MainUntouched
