---------------------------- MODULE Entitlement ----------------------------
(***************************************************************************)
(* What a customer is promised for one order: once it is settled it buys   *)
(* its days, at one time and once; they are never moved, and they are      *)
(* taken back at most once, only when the money has been paid back.        *)
(* Settlement implements it for each of its orders, without the events,    *)
(* attempts, subscriptions and administrators that get there.              *)
(***************************************************************************)
EXTENDS Integers

CONSTANT Days       \* PaymentOrder.requested_period_days

VARIABLES
    settled,    \* the provider has been paid, or an administrator says so
    refunded,   \* the refunds have reached the amount of the order
    time,       \* the time that was granted: none, or one <<start, end>>
    funded      \* subscription_periods.is_paid of that time

vars == <<settled, refunded, time, funded>>

Init == ~settled /\ ~refunded /\ time = {} /\ ~funded

\* Money that has arrived stays known, and so does money that went back.
MoneyMoves ==
    /\ settled => settled'
    /\ refunded => refunded'
    /\ UNCHANGED <<time, funded>>

Grant ==
    /\ settled' /\ time = {}
    /\ \E d \in time' : time' = {d} /\ d[2] = d[1] + Days
    /\ funded'
    /\ settled => settled'
    /\ UNCHANGED refunded

Withdraw ==
    /\ refunded' /\ funded
    /\ ~funded'
    /\ UNCHANGED <<settled, time>>

Next == MoneyMoves \/ Grant \/ Withdraw

Spec == Init /\ [][Next]_vars
=============================================================================
