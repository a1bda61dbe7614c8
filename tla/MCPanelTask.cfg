\* A provision that is compensated and repeated, a revocation beside it.
CONSTANTS
    MaxGeneration = 2
    MaxAttempts = 2
    MaxClaims = 3
    MaxRevokeClaims = 2
SPECIFICATION Spec
INVARIANTS
    TaskFollowsConfiguration
    ActiveClientInPanel
    NoClientAfterRevocation
PROPERTY
    ImplementsAccess
CHECK_DEADLOCK FALSE
