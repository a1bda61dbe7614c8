\* One configuration: provision, revoke, and one revoke retried.
CONSTANTS
    MaxConfigs = 1
    MaxGeneration = 3
    MaxAttempts = 1
SPECIFICATION FairSpec
PROPERTIES
    OperationsSettle
    LostAccessIsRevoked
CHECK_DEADLOCK FALSE
