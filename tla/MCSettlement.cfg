\* Two orders of one user: every notification, repeated, reordered, unmatched;
\* extensions, changes of tariff, refunds and expiry.
SPECIFICATION Spec
CONSTANTS
    o1 = o1
    o2 = o2
    t1 = t1
    t2 = t2
    Orders = {o1, o2}
    Tariffs = {t1, t2}
    Reported <- AllReports
    Price = 2
    PeriodDays = 1
    MaxTime = 1
    MaxEvents = 3
SYMMETRY Symmetry
CONSTRAINT OtherIsPaid
INVARIANTS
    PaidExactlyOnce
    GrantedMeansPaid
    PeriodsDoNotOverlap
    ReceivedCanBeSettled
PROPERTIES
    RunningAccessIsKept
    ImplementsEntitlement
    ProvidesAccess
CHECK_DEADLOCK FALSE
