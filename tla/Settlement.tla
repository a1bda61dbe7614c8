----------------------------- MODULE Settlement -----------------------------
(***************************************************************************)
(* From a provider's notification to the paid time of one user:            *)
(*   IngestWebhook         application/use_cases/ingest_webhook.py         *)
(*   ProcessPayment        application/use_cases/process_payment.py        *)
(*   ActivateSubscription  application/use_cases/activate_subscription.py  *)
(*   mark_payment_order_paid and the expiry of subscriptions.              *)
(*                                                                         *)
(* One action is one transaction: it locks the event, then the order, then *)
(* the attempt, then the subscription, and decides on what it reads after  *)
(* that.  Two payments that would both start a subscription, and a payment *)
(* and a refund that lock in opposite orders, make PostgreSQL abort one of *)
(* them; its event stays "received" and is tried again, so an abort is a   *)
(* stuttering step.  Jobs may be lost, repeated or late, so the action of  *)
(* an event is enabled as long as its row allows it.                       *)
(*                                                                         *)
(* An order has the one attempt whose claim is finalized; the race for     *)
(* that claim is InvoiceCreation.  "cancelled" stands for the statuses     *)
(* failed, expired and cancelled, which the code treats alike.             *)
(***************************************************************************)
EXTENDS Integers, FiniteSets

CONSTANTS
    Orders,         \* payment orders of the user
    Tariffs,
    Reported,       \* the notifications the provider may send of an order
    Price,          \* PaymentOrder.amount, in units of one partial refund
    PeriodDays,     \* requested_period_days, in clock ticks
    MaxTime,        \* bound: the last tick of the clock
    MaxEvents       \* bound: how many notifications are stored

\* An event_key is made of the payment, the type of the notification and the
\* status fetched from the provider when it arrives: a late
\* waiting_for_capture notification of a captured payment is a second paid
\* event under a key of its own.
PaidKinds   == {"succeeded:paid", "waiting_for_capture:paid", "succeeded:underpaid"}
RefundKinds == {"refund:1", "refund:2"}
AllKinds    == PaidKinds \cup RefundKinds
                 \cup {"canceled:cancelled", "waiting_for_capture:authorized"}

ASSUME OrdersAssumption == IsFiniteSet(Orders)
ASSUME TariffsAssumption == Tariffs # {}
ASSUME ReportedAssumption == Reported \subseteq Orders \X AllKinds
ASSUME PriceAssumption  == Price \in Nat \ {0}
ASSUME TimeAssumption   == MaxTime \in Nat /\ PeriodDays \in Nat \ {0}
ASSUME EventsAssumption == MaxEvents \in Nat

VARIABLES
    now,
    order,      \* payment_orders.status
    tariff,     \* payment_orders.tariff_id
    manual,     \* orders whose metadata says manual_settlement
    attempt,    \* payment_attempts.status
    invoice,    \* the payment as the provider knows it
    event,      \* payment_events.status
    matched,    \* payment_events.payment_attempt_id is not NULL
    refunds,    \* provider_transactions of type refund_succeeded
    sub,        \* subscriptions.status
    subTariff,  \* subscriptions.tariff_id
    periods,    \* subscription_periods
    listed      \* batch_now of the batch that lists a subscription as lapsed

orderVars == <<order, tariff, manual>>
eventVars == <<event, matched>>
subVars   == <<sub, subTariff, periods>>
vars      == <<now, orderVars, attempt, invoice, eventVars, refunds, subVars,
               listed>>

Events == Reported
Subs   == 1..Cardinality(Orders)
NotListed == -1
Times  == 0..(MaxTime + Cardinality(Orders) * PeriodDays)

Period == [order : Orders, sub : Subs, starts : Times, expires : Times,
           is_paid : BOOLEAN]

Init ==
    /\ now = 0
    /\ order = [o \in Orders |-> "absent"]
    /\ tariff \in [Orders -> Tariffs]
    /\ manual = {}
    /\ attempt = [o \in Orders |-> "absent"]
    /\ invoice = [o \in Orders |-> "absent"]
    /\ event = [e \in Events |-> "absent"]
    /\ matched = [e \in Events |-> FALSE]
    /\ refunds = {}
    /\ sub = [s \in Subs |-> "absent"]
    /\ subTariff = [s \in Subs |-> CHOOSE t \in Tariffs : TRUE]
    /\ periods = {}
    /\ listed = [s \in Subs |-> NotListed]

-----------------------------------------------------------------------------
(* The clock, CreatePayment and the provider.                              *)

Tick ==
    /\ now < MaxTime
    /\ now' = now + 1
    /\ UNCHANGED <<listed, orderVars, attempt, invoice, eventVars, refunds, subVars>>

PrepareOrder(o) ==
    /\ order[o] = "absent"
    /\ order' = [order EXCEPT ![o] = "pending"]
    /\ attempt' = [attempt EXCEPT ![o] = "created"]
    /\ UNCHANGED <<now, listed, tariff, manual, invoice, eventVars, refunds, subVars>>

\* The provider has the payment before CreatePayment records its identifier.
ProviderMakesInvoice(o) ==
    /\ attempt[o] = "created" /\ invoice[o] = "absent"
    /\ invoice' = [invoice EXCEPT ![o] = "pending"]
    /\ UNCHANGED <<now, listed, orderVars, attempt, eventVars, refunds, subVars>>

FinalizeOwnedClaim(o) ==
    /\ attempt[o] = "created" /\ invoice[o] # "absent"
    /\ attempt' = [attempt EXCEPT ![o] = "pending"]
    /\ UNCHANGED <<now, listed, orderVars, invoice, eventVars, refunds, subVars>>

\* The customer pays the amount of the order or another one; an invoice that
\* was given up may still be paid.
ProviderSettles(o) ==
    /\ \/ invoice[o] = "pending" /\ \E s \in {"paid", "underpaid", "cancelled"} :
                                        invoice' = [invoice EXCEPT ![o] = s]
       \/ invoice[o] = "cancelled" /\ invoice' = [invoice EXCEPT ![o] = "paid"]
    /\ UNCHANGED <<now, listed, orderVars, attempt, eventVars, refunds, subVars>>

-----------------------------------------------------------------------------
(* IngestWebhook                                                           *)

\* What the provider says of the payment when it is asked.
verify_and_normalize_webhook(o, k) ==
    CASE k \in {"succeeded:paid", "waiting_for_capture:paid"} \cup RefundKinds
                                              -> invoice[o] = "paid"
      [] k = "succeeded:underpaid"            -> invoice[o] = "underpaid"
      [] k = "canceled:cancelled"             -> invoice[o] = "cancelled"
      [] k = "waiting_for_capture:authorized" -> invoice[o] = "pending"

\* The attempt is looked up once, when the event is first stored; a repeated
\* notification finds the stored event and changes nothing.
IngestWebhook(e) ==
    /\ Cardinality({x \in Events : event[x] # "absent"}) < MaxEvents
    /\ verify_and_normalize_webhook(e[1], e[2])
    /\ event[e] = "absent"
    /\ event' = [event EXCEPT ![e] = "received"]
    /\ matched' = [matched EXCEPT ![e] = (attempt[e[1]] # "created")]
    /\ UNCHANGED <<now, listed, orderVars, attempt, invoice, refunds, subVars>>

-----------------------------------------------------------------------------
(* ActivateSubscription and SubscriptionPolicy.apply_paid_period           *)

PeriodsOf(s) == {p \in periods : p.sub = s}

get_current_period(s, t) ==
    {p \in PeriodsOf(s) : p.is_paid /\ p.starts <= t /\ t < p.expires}

\* Mutant: an extension starts at once, whatever was paid before.
ExtendFromNow(s) == {now}

\* Subscription.extend: now or the end of the last period, funded or not,
\* whichever is later.
ExtensionStart(s) ==
    LET ends == {now} \cup {p.expires : p \in PeriodsOf(s)}
    IN  {t \in ends : \A u \in ends : u <= t}

NewPeriod(o, s, start) ==
    [order |-> o, sub |-> s, starts |-> start, expires |-> start + PeriodDays,
     is_paid |-> TRUE]

\* Mutant: an ended subscription of the tariff is taken up again.
ReviveSubscription(o) ==
    \/ \E s \in Subs :
          /\ sub[s] # "absent" /\ subTariff[s] = tariff[o]
          /\ sub' = [sub EXCEPT ![s] = "active"]
          /\ \E t \in ExtensionStart(s) : periods' = periods \cup {NewPeriod(o, s, t)}
          /\ UNCHANGED subTariff
    \/ \E n \in Subs :
          /\ \A s \in Subs : ~(sub[s] # "absent" /\ subTariff[s] = tariff[o])
          /\ \A s \in Subs : sub[s] # "absent" <=> s < n
          /\ sub' = [sub EXCEPT ![n] = "active"]
          /\ subTariff' = [subTariff EXCEPT ![n] = tariff[o]]
          /\ periods' = periods \cup {NewPeriod(o, n, now)}

ActivateSubscription(o) ==
    \/ \E s \in Subs :
          /\ sub[s] = "active" /\ subTariff[s] = tariff[o]
          /\ \E t \in ExtensionStart(s) : periods' = periods \cup {NewPeriod(o, s, t)}
          /\ UNCHANGED <<sub, subTariff>>
    \/ \E n \in Subs :
          /\ \A s \in Subs : ~(sub[s] = "active" /\ subTariff[s] = tariff[o])
          /\ \A s \in Subs : sub[s] # "absent" <=> s < n
          /\ sub' = [s \in Subs |-> IF s = n THEN "active"
                                    ELSE IF sub[s] = "active" THEN "ended"
                                    ELSE sub[s]]
          /\ subTariff' = [subTariff EXCEPT ![n] = tariff[o]]
          /\ periods' = periods \cup {NewPeriod(o, n, now)}

\* Mutant: every settlement of an order marks it paid once more.
MarkPaidAgain(o) == order[o] # "absent"

\* PaymentOrder.mark_paid tells whether the order was not paid before.
mark_paid(o) == order[o] \in {"pending", "cancelled"}

-----------------------------------------------------------------------------
(* ProcessPayment                                                          *)

Unprocessed(e) == event[e] \in {"received", "failed"}
Finish(e, s)   == event' = [event EXCEPT ![e] = s] /\ UNCHANGED matched

\* Mutant: the amount is not compared.
SettlesAnyAmount(e) == e[2] \in PaidKinds

\* The provider, the payment and the order agree by the way the event was
\* matched; what can differ is the amount.
validate_paid_settlement(e) == e[2] \in PaidKinds \ {"succeeded:underpaid"}

\* apply_provider_status: a closed attempt takes only its own status again.
Stale(o, target) == attempt[o] \in {"paid", "cancelled"} \ {target}

\* A paid event or a refund without its attempt, or of a wrong amount.
RejectEvent(e) ==
    /\ Unprocessed(e)
    /\ \/ ~matched[e] /\ e[2] \in PaidKinds \cup RefundKinds
       \/ matched[e] /\ e[2] \in PaidKinds /\ ~validate_paid_settlement(e)
    /\ Finish(e, "failed")
    /\ UNCHANGED <<now, listed, orderVars, attempt, invoice, refunds, subVars>>

\* No order, a status that is not final, or one the attempt cannot take.
IgnoreEvent(e) ==
    /\ Unprocessed(e)
    /\ \/ ~matched[e] /\ e[2] = "canceled:cancelled"
       \/ e[2] = "waiting_for_capture:authorized"
       \/ matched[e] /\ e[2] = "canceled:cancelled" /\ Stale(e[1], "cancelled")
       \/ matched[e] /\ validate_paid_settlement(e) /\ Stale(e[1], "paid")
    /\ Finish(e, "ignored")
    /\ UNCHANGED <<now, listed, orderVars, attempt, invoice, refunds, subVars>>

ProcessPaid(e) ==
    LET o == e[1] IN
    /\ Unprocessed(e) /\ matched[e] /\ validate_paid_settlement(e)
    /\ ~Stale(o, "paid")
    /\ attempt' = [attempt EXCEPT ![o] = "paid"]
    /\ \/ /\ mark_paid(o)
          /\ order' = [order EXCEPT ![o] = "paid"]
          /\ ActivateSubscription(o)
       \/ /\ ~mark_paid(o)
          /\ UNCHANGED <<order, subVars>>
    /\ Finish(e, "processed")
    /\ UNCHANGED <<now, listed, tariff, manual, invoice, refunds>>

ProcessUnsuccessful(e) ==
    LET o == e[1] IN
    /\ Unprocessed(e) /\ matched[e] /\ e[2] = "canceled:cancelled"
    /\ ~Stale(o, "cancelled")
    /\ attempt' = [attempt EXCEPT ![o] = "cancelled"]
    /\ order' = [order EXCEPT ![o] = IF @ = "pending" THEN "cancelled" ELSE @]
    /\ Finish(e, "processed")
    /\ UNCHANGED <<now, listed, tariff, manual, invoice, refunds, subVars>>

\* Mutant: any refund counts as a full one.
RefundedInFull(o, rs) == \E e \in rs : e[1] = o

\* sum_provider_transactions has reached the amount of the order.
FullyRefunded(o, rs) == Cardinality({e \in rs : e[1] = o}) >= Price

\* Mutant: the subscription ends with the refunded period.
NothingElseFunded(s, p) == TRUE

\* has_funded_period_after, once the refunded period p is not funded.
NoOtherFunding(s, p) ==
    \A q \in PeriodsOf(s) \ {p} : ~(q.is_paid /\ q.expires > now)

\* Mutant: the refund also cuts the period short.
UnfundAndCut(p) ==
    /\ periods' = (periods \ {p}) \cup {[p EXCEPT !.is_paid = FALSE, !.expires = now]}
    /\ sub' = [sub EXCEPT ![p.sub] = IF NoOtherFunding(p.sub, p) THEN "ended" ELSE @]
    /\ UNCHANGED subTariff

Unfund(p) ==
    /\ periods' = (periods \ {p}) \cup {[p EXCEPT !.is_paid = FALSE]}
    /\ sub' = [sub EXCEPT ![p.sub] = IF NoOtherFunding(p.sub, p) THEN "ended" ELSE @]
    /\ UNCHANGED subTariff

ProcessRefund(e) ==
    LET o == e[1] IN
    /\ Unprocessed(e) /\ matched[e] /\ e[2] \in RefundKinds
    /\ refunds' = refunds \cup {e}
    /\ \/ /\ FullyRefunded(o, refunds')
          /\ \E p \in periods : p.order = o /\ Unfund(p)
       \/ /\ FullyRefunded(o, refunds') => \A p \in periods : p.order # o
          /\ UNCHANGED subVars
    /\ Finish(e, "processed")
    /\ UNCHANGED <<now, listed, orderVars, attempt, invoice>>

ProcessPayment(e) ==
    \/ RejectEvent(e) \/ IgnoreEvent(e)
    \/ ProcessPaid(e) \/ ProcessUnsuccessful(e) \/ ProcessRefund(e)

-----------------------------------------------------------------------------
(* The administrator, the recovery of events, and SyncSubscriptions.       *)

MarkPaymentOrderPaid(o) ==
    /\ order[o] # "absent" /\ mark_paid(o)
    /\ order' = [order EXCEPT ![o] = "paid"]
    /\ manual' = manual \cup {o}
    /\ ActivateSubscription(o)
    /\ UNCHANGED <<now, listed, tariff, attempt, invoice, eventVars, refunds>>

\* Mutant: only the events of open orders are looked for.
ListReceivedOfOpenOrders(e) == event[e] = "received" /\ order[e[1]] = "pending"

list_received_payment_event_ids(e) == event[e] = "received"

\* The cron job and the start of a worker enqueue every received event.
RecoverPaymentEvent(e) == list_received_payment_event_ids(e) /\ ProcessPayment(e)

Lapsed(s, t) == sub[s] = "active" /\ get_current_period(s, t) = {}

\* ReconcileSubscriptions reads a batch: the subscription is listed together
\* with the time of the batch.
ListLapsed(s) ==
    /\ Lapsed(s, now)
    /\ listed[s] = NotListed
    /\ listed' = [listed EXCEPT ![s] = now]
    /\ UNCHANGED <<now, orderVars, attempt, invoice, eventVars, refunds, subVars>>

\* _expire_subscription, later in the batch: the row is locked and looked at
\* again, with the time of the batch.  The worker may also have stopped.
ExpireSubscription(s) ==
    /\ listed[s] # NotListed
    /\ listed' = [listed EXCEPT ![s] = NotListed]
    /\ \/ Lapsed(s, listed[s]) /\ sub' = [sub EXCEPT ![s] = "ended"]
       \/ UNCHANGED sub
    /\ UNCHANGED <<now, orderVars, attempt, invoice, eventVars, refunds,
                   subTariff, periods>>

-----------------------------------------------------------------------------

Next ==
    \/ Tick
    \/ \E o \in Orders :
          \/ PrepareOrder(o) \/ ProviderMakesInvoice(o) \/ FinalizeOwnedClaim(o)
          \/ ProviderSettles(o) \/ MarkPaymentOrderPaid(o)
    \/ \E e \in Events : IngestWebhook(e) \/ ProcessPayment(e)
    \/ \E s \in Subs : ListLapsed(s) \/ ExpireSubscription(s)

Spec == Init /\ [][Next]_vars

-----------------------------------------------------------------------------
(* Properties                                                              *)

\* Rows hold the values of their check constraints, and there are as many
\* subscriptions and periods as payments can make.
TypeOK ==
    /\ now \in 0..MaxTime
    /\ order \in [Orders -> {"absent", "pending", "paid", "cancelled"}]
    /\ tariff \in [Orders -> Tariffs]
    /\ manual \in SUBSET Orders
    /\ attempt \in [Orders -> {"absent", "created", "pending", "paid", "cancelled"}]
    /\ invoice \in [Orders -> {"absent", "pending", "paid", "underpaid", "cancelled"}]
    /\ event \in [Events -> {"absent", "received", "processed", "ignored", "failed"}]
    /\ matched \in [Events -> BOOLEAN]
    /\ refunds \in SUBSET Events
    /\ sub \in [Subs -> {"absent", "active", "ended"}]
    /\ subTariff \in [Subs -> Tariffs]
    /\ periods \in SUBSET Period
    /\ listed \in [Subs -> 0..MaxTime \cup {NotListed}]

\* Exactly once: an order is paid if and only if one period was granted for
\* it, whatever events arrive twice under different keys, in any order, or
\* race the administrator.  The unique index on payment_order_id is never
\* what saves it.
PaidExactlyOnce ==
    /\ \A o \in Orders : order[o] = "paid" <=> \E p \in periods : p.order = o
    /\ \A p, q \in periods : p.order = q.order => p = q

\* Paid time is never given twice: periods of one subscription do not
\* overlap, also after refunds and pauses (Subscription.extend).
PeriodsDoNotOverlap ==
    \A p, q \in periods :
        p # q /\ p.sub = q.sub => p.expires <= q.starts \/ q.expires <= p.starts

\* No access without money: every period was settled by an administrator, or
\* the provider has been paid in full for its order
\* (validate_paid_settlement).
GrantedMeansPaid ==
    \A p \in periods : p.order \in manual \/ invoice[p.order] = "paid"

RefundsOf(o) == Cardinality({e \in refunds : e[1] = o})

\* A period loses its funding only when the refunds of its order reach its
\* amount: partial refunds never revoke access (_process_refund).
PartialRefundKeepsAccess ==
    \A p \in periods : ~p.is_paid => RefundsOf(p.order) >= Price

\* A subscription with a funded period under way ends only when a payment
\* for another tariff replaces it, or when the expiry job works on a batch
\* that is older than that period: neither a refund of another period nor an
\* expiry that the period had begun before takes running access away.
RunningAccessIsKept ==
    [][\A s \in Subs :
          sub[s] = "active" /\ sub'[s] = "ended" =>
              \/ \E r \in Subs : sub[r] = "absent" /\ sub'[r] = "active"
              \/ \A p \in get_current_period(s, now)' :
                    listed[s] # NotListed /\ p.starts > listed[s]]_vars

\* Every stored event can be settled, although its job may have been lost:
\* recover_payment_events finds it, and no combination of its order, attempt
\* and subscription leaves it without an outcome.
ReceivedCanBeSettled ==
    \A e \in Events : event[e] = "received" => ENABLED RecoverPaymentEvent(e)

\* An order as its customer sees it.
Bought(o) == INSTANCE Entitlement WITH
    Days     <- PeriodDays,
    settled  <- o \in manual \/ invoice[o] = "paid",
    refunded <- RefundsOf(o) >= Price,
    time     <- {<<p.starts, p.expires>> : p \in {p \in periods : p.order = o}},
    funded   <- \E p \in periods : p.order = o /\ p.is_paid

\* Settlement implements Entitlement: no order of events, refunds, tariff
\* changes, expiry and manual settlement grants an order twice, moves or
\* shortens its days, funds them again once they were withdrawn, or withdraws
\* them without the money having gone back.
ImplementsEntitlement ==
    /\ \A o \in Orders : Bought(o)!Init
    /\ [][\A o \in Orders : Bought(o)!Next \/ UNCHANGED Bought(o)!vars]_vars

\* A subscription as the lifecycle of its configurations sees it, before the
\* first one exists.
Served(s) == INSTANCE VpnAccess WITH
    subscription <- IF sub[s] = "ended" THEN "ended" ELSE "active",
    period       <- sub[s] = "absent" \/ get_current_period(s, now) # {},
    status       <- "absent",
    desired      <- "active",
    generation   <- 1,
    client       <- FALSE

\* What VpnAccess, VpnNode and PanelTask assume of subscriptions holds: its
\* row appears in their initial state, with a paid period under way, and one
\* that has ended is never taken up again.
ProvidesAccess ==
    /\ \A s \in Subs : Served(s)!Init
    /\ [][\A s \in Subs :
             \/ sub[s] # "absent" /\ Served(s)!Next
             \/ UNCHANGED Served(s)!vars]_vars

\* "full refund unfunds period": once the refunds that were processed for an
\* order reach its amount, no period of the order is funded, unless an
\* administrator has granted it.
FullRefundUnfunds ==
    \A p \in periods :
        p.order \notin manual /\ RefundsOf(p.order) >= Price => ~p.is_paid

=============================================================================
