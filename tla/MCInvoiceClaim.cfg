\* Several requests, expired leases, lost answers and late callers.
SPECIFICATION Spec
CONSTANTS
    MaxAttempts = 3
    MaxInvoices = 3
INVARIANTS
    OneOpenClaim
PROPERTIES
    LateAnswerIsFenced
    ImplementsLease
CHECK_DEADLOCK FALSE
