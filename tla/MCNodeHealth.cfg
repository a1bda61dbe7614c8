CONSTANTS
    Nodes = {n1}
    Probes = {p1, p2}
    Placements = {w1, w2, w3}
    None = None
    Gone = Gone
    MaxActive = 2
    Capacity <- TwoSlots
SPECIFICATION FairSpec
INVARIANTS
    NoOverbooking
    PlacedOnUsableNode
PROPERTIES
    OvertakenProbeIsDropped
    ImplementsLease
    StaleIsProbed
