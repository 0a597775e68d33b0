CONSTANTS
    billing = billing
    playback = playback
    Entities <- MCEntities
    Files <- MCFiles
    EntityOf <- MCEntityOf
    Failures <- CleanMachine
    MaxFailures = 2
SPECIFICATION Spec
INVARIANT
    ProcessedIffCommitted
