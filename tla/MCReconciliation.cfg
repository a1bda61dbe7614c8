CONSTANTS
    MaxWorkers = 2
    BatchSize = 1
    MaxBatches = 2
    MaxFaults = 1
    Others <- WaitingBefore
SPECIFICATION FairSpec
INVARIANTS
    RunsDoNotOverlap
PROPERTIES
    ImplementsLease
    PaidAccessIsKept
    LostAccessIsRemoved
    EntitledIsServed
CHECK_DEADLOCK FALSE
