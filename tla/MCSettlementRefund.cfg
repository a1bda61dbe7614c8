\* The refund of a payment overtakes its paid event.
SPECIFICATION Spec
CONSTANTS
    o1 = o1
    o2 = o2
    t1 = t1
    t2 = t2
    Orders = {o1}
    Tariffs = {t1}
    Reported <- RefundReports
    Price = 1
    PeriodDays = 1
    MaxTime = 0
    MaxEvents = 2
INVARIANT
    FullRefundUnfunds
CHECK_DEADLOCK FALSE
