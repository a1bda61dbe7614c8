\* A provision and a revocation of one client, three requests, and the
\* shortest lease that the settings admit.
CONSTANTS
    MaxKeys = 2
    MaxRequests = 3
    LeaseRequests = 3
    BatchSize = 2
SPECIFICATION FairSpec
INVARIANTS
    ExecutingIsOwner
    AnsweredIsRecorded
    CompletedProvisionOnNode
PROPERTIES
    ImplementsLease
    JournalIsEmptied
CHECK_DEADLOCK FALSE
