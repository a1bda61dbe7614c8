\* A provision that is retried after its configuration was revoked.
CONSTANTS
    MaxConfigs = 1
    MaxGeneration = 2
    MaxAttempts = 2
SPECIFICATION Spec
PROPERTY LateProvisionIsCleanedUp
CHECK_DEADLOCK FALSE
