\* One configuration, two attempts per task: retries, leases, late workers.
CONSTANTS
    MaxConfigs = 1
    MaxGeneration = 2
    MaxAttempts = 2
SPECIFICATION Spec
INVARIANTS
    TaskFollowsConfiguration
    ActiveClientOnNode
    RevokedWasExecuted
    AttemptBudget
    OneStartedAttempt
PROPERTY
    ImplementsLeasedTask
CHECK_DEADLOCK FALSE
