\* A finalization that commits while another request takes the claim over.
SPECIFICATION Spec
CONSTANTS
    MaxAttempts = 2
    MaxInvoices = 2
INVARIANT
    ReclaimOrFinalize
CHECK_DEADLOCK FALSE
