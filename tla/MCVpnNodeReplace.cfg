\* Two configurations, one after the other.
CONSTANTS
    MaxConfigs = 2
    MaxGeneration = 2
    MaxAttempts = 1
SPECIFICATION Spec
INVARIANT OnlyLatestIsOpen
PROPERTIES
    IntentMovesForward
    ImplementsAccess
CHECK_DEADLOCK FALSE
