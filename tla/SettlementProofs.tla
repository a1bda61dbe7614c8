-------------------------- MODULE SettlementProofs --------------------------
(***************************************************************************)
(* Proofs about Settlement, for any set of orders, tariffs and             *)
(* notifications, any price and any length of the periods.                 *)
(***************************************************************************)
EXTENDS Settlement, FiniteSetTheorems, TLAPS

\* The rows that decide on a grant.
RowTypes ==
    /\ order \in [Orders -> {"absent", "pending", "paid", "cancelled"}]
    /\ manual \in SUBSET Orders
    /\ invoice \in [Orders -> {"absent", "pending", "paid", "underpaid", "cancelled"}]
    /\ event \in [Events -> {"absent", "received", "processed", "ignored", "failed"}]

\* Every period was granted for an order of the user.
PeriodsHaveOrders == \A p \in periods : p.order \in Orders

\* A stored event that settles an order was true when it was fetched, and a
\* payment the provider has received stays received.
EventsAreTrue ==
    \A e \in Events :
        event[e] # "absent" /\ validate_paid_settlement(e) => invoice[e[1]] = "paid"

\* The inductive invariant.
GrantInv ==
    /\ RowTypes /\ PeriodsHaveOrders /\ EventsAreTrue
    /\ PaidExactlyOnce /\ GrantedMeansPaid

\* A notification is about an order of the user.
LEMMA EventsHaveOrders == \A e \in Events : e[1] \in Orders /\ e[2] \in AllKinds
BY ReportedAssumption DEF Events

\* Activating a subscription for order o adds one period, of order o.
LEMMA ActivationAddsOne ==
    ASSUME NEW o \in Orders, ActivateSubscription(o)
    PROVE  \E r : r.order = o /\ periods' = periods \cup {r}
<1>1. ASSUME NEW s, NEW t PROVE NewPeriod(o, s, t).order = o
  BY DEF NewPeriod
<1> QED
  BY <1>1 DEF ActivateSubscription

\* Settling an order that was not paid grants its one period.
LEMMA GrantIsFirst ==
    ASSUME GrantInv, NEW o \in Orders, mark_paid(o),
           order' = [order EXCEPT ![o] = "paid"], ActivateSubscription(o)
    PROVE  PaidExactlyOnce' /\ PeriodsHaveOrders'
<1>1. PICK r : r.order = o /\ periods' = periods \cup {r}
  BY ActivationAddsOne
<1>2. \A p \in periods : p.order # o
  BY DEF GrantInv, PaidExactlyOnce, mark_paid
<1> QED
  BY <1>1, <1>2 DEF GrantInv, PaidExactlyOnce, RowTypes, PeriodsHaveOrders

\* A refund keeps every period, and the order each was granted for.
LEMMA UnfundKeepsPeriods ==
    ASSUME GrantInv, NEW p \in periods, Unfund(p), order' = order
    PROVE  /\ PaidExactlyOnce'
           /\ \A q \in periods' : \E r \in periods : r.order = q.order
<1> DEFINE u == [p EXCEPT !.is_paid = FALSE]
<1>1. periods' = (periods \ {p}) \cup {u}
  BY DEF Unfund
<1>2. u.order = p.order
  OBVIOUS
<1> HIDE DEF u
<1> QED
  BY <1>1, <1>2 DEF GrantInv, PaidExactlyOnce

\* Settling an order grants only what the administrator or the provider
\* vouches for.
LEMMA GrantIsBacked ==
    ASSUME GrantInv, NEW o \in Orders, ActivateSubscription(o), invoice' = invoice,
           manual \subseteq manual', o \in manual' \/ invoice[o] = "paid"
    PROVE  GrantedMeansPaid'
<1>1. PICK r : r.order = o /\ periods' = periods \cup {r}
  BY ActivationAddsOne
<1> QED
  BY <1>1 DEF GrantInv, GrantedMeansPaid

\* The steps of CreatePayment, of the provider and of the clock, and the
\* storing of an event, grant nothing.
LEMMA OutsideStep ==
    ASSUME GrantInv,
           \/ Tick
           \/ \E o \in Orders :
                 \/ PrepareOrder(o) \/ ProviderMakesInvoice(o)
                 \/ FinalizeOwnedClaim(o) \/ ProviderSettles(o)
           \/ \E e \in Events : IngestWebhook(e)
           \/ \E s \in Subs : ListLapsed(s) \/ ExpireSubscription(s)
           \/ UNCHANGED vars
    PROVE  GrantInv'
<1> USE DEF GrantInv
<1>1. periods' = periods /\ manual' = manual
  BY DEF Tick, PrepareOrder, ProviderMakesInvoice, FinalizeOwnedClaim,
         ProviderSettles, IngestWebhook, ListLapsed, ExpireSubscription, vars, orderVars,
         subVars
<1>2. /\ order' \in [Orders -> {"absent", "pending", "paid", "cancelled"}]
      /\ \A o \in Orders : order'[o] = "paid" <=> order[o] = "paid"
  BY DEF RowTypes, Tick, PrepareOrder, ProviderMakesInvoice, FinalizeOwnedClaim,
         ProviderSettles, IngestWebhook, ListLapsed, ExpireSubscription, vars, orderVars
<1>3. /\ invoice' \in [Orders -> {"absent", "pending", "paid", "underpaid", "cancelled"}]
      /\ \A o \in Orders : invoice[o] = "paid" => invoice'[o] = "paid"
  <2>1. ASSUME NEW o \in Orders, ProviderMakesInvoice(o) \/ ProviderSettles(o)
        PROVE  \E s \in {"pending", "paid", "underpaid", "cancelled"} :
                  invoice' = [invoice EXCEPT ![o] = s] /\ invoice[o] # "paid"
    BY <2>1 DEF ProviderMakesInvoice, ProviderSettles
  <2>2. CASE \E o \in Orders : ProviderMakesInvoice(o) \/ ProviderSettles(o)
    BY <2>1, <2>2 DEF RowTypes
  <2>3. CASE invoice' = invoice
    BY <2>3 DEF RowTypes
  <2>4. \/ invoice' = invoice
        \/ \E o \in Orders : ProviderMakesInvoice(o) \/ ProviderSettles(o)
    BY DEF Tick, PrepareOrder, FinalizeOwnedClaim, IngestWebhook, ListLapsed,
           ExpireSubscription, vars
  <2> QED
    BY <2>2, <2>3, <2>4
<1>4. PeriodsHaveOrders' /\ PaidExactlyOnce' /\ GrantedMeansPaid'
  BY <1>1, <1>2, <1>3 DEF PeriodsHaveOrders, PaidExactlyOnce, GrantedMeansPaid
<1>5. CASE \E e \in Events : IngestWebhook(e)
  <2>1. PICK e \in Events : IngestWebhook(e)
    BY <1>5
  <2>2. /\ event' = [event EXCEPT ![e] = "received"]
        /\ invoice' = invoice
    BY <2>1 DEF IngestWebhook
  <2>3. validate_paid_settlement(e) => invoice[e[1]] = "paid"
    BY <2>1 DEF IngestWebhook, verify_and_normalize_webhook,
       validate_paid_settlement, PaidKinds, RefundKinds
  <2>4. RowTypes'
    BY <1>1, <1>2, <1>3, <2>2 DEF RowTypes
  <2>5. EventsAreTrue'
    BY <2>2, <2>3 DEF RowTypes, EventsAreTrue, validate_paid_settlement
  <2> QED
    BY <1>1, <1>4, <2>4, <2>5
<1>6. CASE event' = event
  <2>1. RowTypes'
    BY <1>1, <1>2, <1>3, <1>6 DEF RowTypes
  <2>2. EventsAreTrue'
    BY <1>3, <1>6, EventsHaveOrders DEF EventsAreTrue, validate_paid_settlement
  <2> QED
    BY <1>4, <2>1, <2>2
<1> QED
  BY <1>5, <1>6 DEF Tick, PrepareOrder, ProviderMakesInvoice, FinalizeOwnedClaim,
     ProviderSettles, ListLapsed, ExpireSubscription, vars, eventVars

\* What every transaction of ProcessPayment does to the event and to what it
\* does not decide on.
LEMMA ProcessKeepsTruth ==
    ASSUME GrantInv, NEW e \in Events, NEW s \in {"processed", "ignored", "failed"},
           Unprocessed(e), Finish(e, s), invoice' = invoice
    PROVE  /\ event' \in [Events -> {"absent", "received", "processed", "ignored", "failed"}]
           /\ EventsAreTrue'
<1>1. /\ event' = [event EXCEPT ![e] = s]
      /\ event[e] # "absent"
  BY DEF Finish, Unprocessed
<1> QED
  BY <1>1 DEF GrantInv, RowTypes, EventsAreTrue, validate_paid_settlement

\* Every transaction of ProcessPayment keeps the invariant.
LEMMA ProcessStep ==
    ASSUME GrantInv, NEW e \in Events, ProcessPayment(e)
    PROVE  GrantInv'
<1> DEFINE o == e[1]
<1>1. o \in Orders
  BY EventsHaveOrders
<1>2. /\ manual' = manual /\ invoice' = invoice
      /\ event' \in [Events -> {"absent", "received", "processed", "ignored", "failed"}]
      /\ EventsAreTrue'
  BY ProcessKeepsTruth DEF ProcessPayment, RejectEvent, IgnoreEvent, ProcessPaid,
     ProcessUnsuccessful, ProcessRefund, orderVars
<1>3. CASE RejectEvent(e) \/ IgnoreEvent(e)
  <2>1. order' = order /\ periods' = periods
    BY <1>3 DEF RejectEvent, IgnoreEvent, orderVars, subVars
  <2> QED
    BY <1>2, <2>1 DEF GrantInv, RowTypes, PeriodsHaveOrders, PaidExactlyOnce,
       GrantedMeansPaid
<1>4. CASE ProcessUnsuccessful(e)
  <2>1. /\ periods' = periods
        /\ order' \in [Orders -> {"absent", "pending", "paid", "cancelled"}]
        /\ \A x \in Orders : order'[x] = "paid" <=> order[x] = "paid"
    BY <1>1, <1>4 DEF ProcessUnsuccessful, subVars, GrantInv, RowTypes
  <2> QED
    BY <1>2, <2>1 DEF GrantInv, RowTypes, PeriodsHaveOrders, PaidExactlyOnce,
       GrantedMeansPaid
<1>5. CASE ProcessPaid(e)
  <2>1. invoice[o] = "paid"
    BY <1>5 DEF ProcessPaid, Unprocessed, GrantInv, EventsAreTrue
  <2>2. CASE /\ mark_paid(o)
             /\ order' = [order EXCEPT ![o] = "paid"]
             /\ ActivateSubscription(o)
    <3>1. PaidExactlyOnce' /\ PeriodsHaveOrders'
      BY <1>1, <2>2, GrantIsFirst
    <3>2. GrantedMeansPaid'
      BY <1>1, <1>2, <2>1, <2>2, GrantIsBacked
    <3>3. RowTypes'
      BY <1>1, <1>2, <2>2 DEF GrantInv, RowTypes
    <3> QED
      BY <1>2, <3>1, <3>2, <3>3 DEF GrantInv
  <2>3. CASE order' = order /\ periods' = periods
    BY <1>2, <2>3 DEF GrantInv, RowTypes, PeriodsHaveOrders, PaidExactlyOnce,
       GrantedMeansPaid
  <2> QED
    BY <1>5, <2>2, <2>3 DEF ProcessPaid, subVars
<1>6. CASE ProcessRefund(e)
  <2>1. order' = order
    BY <1>6 DEF ProcessRefund, orderVars
  <2>2. ASSUME NEW p \in periods, Unfund(p)
        PROVE  GrantInv'
    <3>1. /\ PaidExactlyOnce'
          /\ \A q \in periods' : \E r \in periods : r.order = q.order
      BY <2>1, <2>2, UnfundKeepsPeriods
    <3>2. PeriodsHaveOrders' /\ GrantedMeansPaid'
      BY <1>2, <3>1 DEF GrantInv, PeriodsHaveOrders, GrantedMeansPaid
    <3> QED
      BY <1>2, <2>1, <3>1, <3>2 DEF GrantInv, RowTypes
  <2>3. CASE periods' = periods
    BY <1>2, <2>1, <2>3 DEF GrantInv, RowTypes, PeriodsHaveOrders, PaidExactlyOnce,
       GrantedMeansPaid
  <2> QED
    BY <1>6, <2>2, <2>3 DEF ProcessRefund, subVars
<1> QED
  BY <1>3, <1>4, <1>5, <1>6 DEF ProcessPayment

\* The settlement by an administrator keeps the invariant.
LEMMA ManualStep ==
    ASSUME GrantInv, NEW o \in Orders, MarkPaymentOrderPaid(o)
    PROVE  GrantInv'
<1>1. /\ mark_paid(o) /\ ActivateSubscription(o)
      /\ order' = [order EXCEPT ![o] = "paid"]
      /\ manual' = manual \cup {o}
      /\ invoice' = invoice /\ event' = event
  BY DEF MarkPaymentOrderPaid, eventVars
<1>2. PaidExactlyOnce' /\ PeriodsHaveOrders'
  BY <1>1, GrantIsFirst
<1>3. GrantedMeansPaid'
  BY <1>1, GrantIsBacked
<1>4. RowTypes' /\ EventsAreTrue'
  BY <1>1 DEF GrantInv, RowTypes, EventsAreTrue, validate_paid_settlement
<1> QED
  BY <1>2, <1>3, <1>4 DEF GrantInv

\* The invariant is inductive.
LEMMA GrantInvariant == Spec => []GrantInv
<1>1. Init => GrantInv
  BY DEF Init, GrantInv, RowTypes, PeriodsHaveOrders, EventsAreTrue,
     PaidExactlyOnce, GrantedMeansPaid
<1>2. GrantInv /\ [Next]_vars => GrantInv'
  BY OutsideStep, ProcessStep, ManualStep DEF Next
<1> QED
  BY <1>1, <1>2, PTL DEF Spec

\* For every set of orders and notifications, repeated and reordered in any
\* way and mixed with manual settlements and refunds, an order is paid if and
\* only if exactly one period was granted for it.
THEOREM EntitlementExactlyOnce == Spec => []PaidExactlyOnce
<1>1. GrantInv => PaidExactlyOnce
  BY DEF GrantInv
<1> QED
  BY <1>1, GrantInvariant, PTL

\* No period exists without a manual settlement or a payment of the full
\* amount that the provider has received.
THEOREM NoAccessWithoutMoney == Spec => []GrantedMeansPaid
<1>1. GrantInv => GrantedMeansPaid
  BY DEF GrantInv
<1> QED
  BY <1>1, GrantInvariant, PTL

-----------------------------------------------------------------------------
(* Types, the length of what was granted, and overlapping periods.         *)

AnyPeriod == [order : Orders, sub : Subs, starts : Nat, expires : Nat,
              is_paid : BOOLEAN]

PaidOrders == {o \in Orders : order[o] = "paid"}

\* Each paid order has moved the end of the paid time by one period at most.
Horizon == MaxTime + Cardinality(PaidOrders) * PeriodDays

\* The values of the rows other than subscription_periods.
ColumnTypes ==
    /\ now \in 0..MaxTime
    /\ RowTypes
    /\ tariff \in [Orders -> Tariffs]
    /\ attempt \in [Orders -> {"absent", "created", "pending", "paid", "cancelled"}]
    /\ matched \in [Events -> BOOLEAN]
    /\ refunds \in SUBSET Events
    /\ sub \in [Subs -> {"absent", "active", "ended"}]
    /\ subTariff \in [Subs -> Tariffs]
    /\ listed \in [Subs -> 0..MaxTime \cup {NotListed}]

PeriodTypes ==
    /\ periods \in SUBSET AnyPeriod
    /\ \A p \in periods : p.starts <= p.expires

PeriodsEnd == \A p \in periods : p.expires <= Horizon

\* A period belongs to a subscription that exists.
PeriodsHaveSubs == \A p \in periods : sub[p.sub] # "absent"

PeriodInv ==
    /\ ColumnTypes /\ PeriodTypes /\ PeriodsEnd
    /\ PeriodsHaveSubs /\ PeriodsDoNotOverlap

\* There are finitely many orders, so their paid ones can be counted.
LEMMA PaidOrdersAreFinite ==
    /\ IsFiniteSet(PaidOrders)
    /\ Cardinality(PaidOrders) \in Nat
    /\ Cardinality(Orders) \in Nat
    /\ Cardinality(PaidOrders) <= Cardinality(Orders)
BY OrdersAssumption, FS_Subset, FS_CardinalityType DEF PaidOrders

\* The paid time is a number of clock ticks.
LEMMA HorizonIsNat == Horizon \in Nat /\ MaxTime <= Horizon
<1>1. ASSUME NEW k \in Nat PROVE k * PeriodDays \in Nat
  BY TimeAssumption
<1> QED
  BY <1>1, PaidOrdersAreFinite, TimeAssumption DEF Horizon

\* What an activation does to the subscription and to its periods: one more
\* period, after all the others of its subscription.
LEMMA ActivationAppends ==
    ASSUME PeriodInv, NEW o \in Orders, ActivateSubscription(o)
    PROVE  /\ \E s \in Subs, t \in Nat :
                 /\ periods' = periods \cup {NewPeriod(o, s, t)}
                 /\ sub'[s] # "absent"
                 /\ t <= Horizon
                 /\ \A p \in periods : p.sub = s => p.expires <= t
           /\ sub' \in [Subs -> {"absent", "active", "ended"}]
           /\ subTariff' \in [Subs -> Tariffs]
           /\ \A s \in Subs : sub[s] # "absent" => sub'[s] # "absent"
<1> USE DEF PeriodInv, ColumnTypes
<1>1. now \in Nat /\ now <= Horizon
  BY HorizonIsNat, TimeAssumption
<1>2. tariff[o] \in Tariffs
  OBVIOUS
<1>3. ASSUME NEW s \in Subs, sub[s] = "active",
             \E t \in ExtensionStart(s) : periods' = periods \cup {NewPeriod(o, s, t)},
             UNCHANGED <<sub, subTariff>>
      PROVE  \E t \in Nat :
                 /\ periods' = periods \cup {NewPeriod(o, s, t)}
                 /\ sub'[s] # "absent"
                 /\ t <= Horizon
                 /\ \A p \in periods : p.sub = s => p.expires <= t
  <2>1. PICK t \in ExtensionStart(s) : periods' = periods \cup {NewPeriod(o, s, t)}
    BY <1>3
  <2>2. /\ \A p \in periods : p.sub = s => p.expires <= t
        /\ t = now \/ \E p \in periods : t = p.expires
    BY <2>1 DEF ExtensionStart, PeriodsOf
  <2>3. t \in Nat /\ t <= Horizon
    BY <1>1, <2>2 DEF PeriodTypes, AnyPeriod, PeriodsEnd
  <2> QED
    BY <1>3, <2>1, <2>2, <2>3
<1>4. ASSUME NEW n \in Subs,
             \A s \in Subs : sub[s] # "absent" <=> s < n,
             sub' = [s \in Subs |-> IF s = n THEN "active"
                                    ELSE IF sub[s] = "active" THEN "ended"
                                    ELSE sub[s]],
             periods' = periods \cup {NewPeriod(o, n, now)}
      PROVE  /\ \A p \in periods : p.sub # n
             /\ sub'[n] # "absent"
             /\ sub' \in [Subs -> {"absent", "active", "ended"}]
             /\ \A s \in Subs : sub[s] # "absent" => sub'[s] # "absent"
  <2>1. n \in Nat /\ sub[n] = "absent"
    BY <1>4, PaidOrdersAreFinite DEF Subs
  <2> QED
    BY <1>4, <2>1 DEF PeriodsHaveSubs
<1>5. CASE \E s \in Subs :
              /\ sub[s] = "active"
              /\ \E t \in ExtensionStart(s) : periods' = periods \cup {NewPeriod(o, s, t)}
              /\ UNCHANGED <<sub, subTariff>>
  BY <1>3, <1>5
<1>6. CASE \E n \in Subs :
              /\ \A s \in Subs : sub[s] # "absent" <=> s < n
              /\ sub' = [s \in Subs |-> IF s = n THEN "active"
                                        ELSE IF sub[s] = "active" THEN "ended"
                                        ELSE sub[s]]
              /\ subTariff' = [subTariff EXCEPT ![n] = tariff[o]]
              /\ periods' = periods \cup {NewPeriod(o, n, now)}
  BY <1>1, <1>2, <1>4, <1>6
<1> QED
  BY <1>5, <1>6 DEF ActivateSubscription

\* Settling an order keeps the periods apart and within the paid time.
LEMMA GrantKeepsPeriods ==
    ASSUME PeriodInv, NEW o \in Orders, mark_paid(o), ActivateSubscription(o),
           order' = [order EXCEPT ![o] = "paid"]
    PROVE  PeriodTypes' /\ PeriodsEnd' /\ PeriodsHaveSubs' /\ PeriodsDoNotOverlap'
<1> USE DEF PeriodInv
<1>1. PICK s \in Subs, t \in Nat :
          /\ periods' = periods \cup {NewPeriod(o, s, t)}
          /\ sub'[s] # "absent"
          /\ t <= Horizon
          /\ \A p \in periods : p.sub = s => p.expires <= t
  BY ActivationAppends
<1> DEFINE r == NewPeriod(o, s, t)
<1>2. /\ r \in AnyPeriod
      /\ r.sub = s /\ r.starts = t /\ r.expires = t + PeriodDays
      /\ r.starts <= r.expires
  BY TimeAssumption DEF NewPeriod, AnyPeriod
<1>3. Horizon' = Horizon + PeriodDays
  <2>1. PaidOrders' = PaidOrders \cup {o} /\ o \notin PaidOrders
    BY DEF PaidOrders, mark_paid, ColumnTypes, RowTypes
  <2>2. Cardinality(PaidOrders') = Cardinality(PaidOrders) + 1
    BY <2>1, PaidOrdersAreFinite, FS_AddElement
  <2>3. ASSUME NEW k \in Nat, NEW d \in Nat PROVE (k + 1) * d = k * d + d
    OBVIOUS
  <2>4. ASSUME NEW k \in Nat, NEW d \in Nat PROVE k * d \in Nat
    OBVIOUS
  <2>5. Horizon' = MaxTime + (Cardinality(PaidOrders) + 1) * PeriodDays
    BY <2>2 DEF Horizon
  <2> QED
    BY <2>3, <2>4, <2>5, PaidOrdersAreFinite, TimeAssumption DEF Horizon
<1> HIDE DEF r
<1>4. PeriodTypes'
  BY <1>1, <1>2 DEF PeriodTypes, r
<1>5. PeriodsEnd'
  BY <1>1, <1>2, <1>3, HorizonIsNat, TimeAssumption DEF PeriodsEnd, PeriodTypes, AnyPeriod, r
<1>6. PeriodsHaveSubs'
  BY <1>1, <1>2, ActivationAppends DEF PeriodsHaveSubs, PeriodTypes, AnyPeriod, r
<1>7. PeriodsDoNotOverlap'
  BY <1>1, <1>2 DEF PeriodsDoNotOverlap, PeriodTypes, AnyPeriod, r
<1> QED
  BY <1>4, <1>5, <1>6, <1>7

\* A refund changes the funding of one period and nothing else of it.
LEMMA UnfundKeepsTimes ==
    ASSUME PeriodInv, NEW p \in periods, Unfund(p), order' = order
    PROVE  /\ PeriodTypes' /\ PeriodsEnd' /\ PeriodsHaveSubs' /\ PeriodsDoNotOverlap'
           /\ sub' \in [Subs -> {"absent", "active", "ended"}]
           /\ subTariff' = subTariff
<1> USE DEF PeriodInv
<1> DEFINE u == [p EXCEPT !.is_paid = FALSE]
<1>1. /\ periods' = (periods \ {p}) \cup {u}
      /\ subTariff' = subTariff
      /\ sub' = [sub EXCEPT ![p.sub] = IF NoOtherFunding(p.sub, p) THEN "ended" ELSE @]
  BY DEF Unfund
<1>2. p \in AnyPeriod
  BY DEF PeriodTypes
<1>3. /\ u \in AnyPeriod
      /\ u.sub = p.sub /\ u.starts = p.starts /\ u.expires = p.expires
  BY <1>2 DEF AnyPeriod
<1> HIDE DEF u
<1>4. /\ sub' \in [Subs -> {"absent", "active", "ended"}]
      /\ \A s \in Subs : sub[s] # "absent" => sub'[s] # "absent"
  BY <1>1, <1>2 DEF ColumnTypes, AnyPeriod
<1>5. PeriodTypes'
  BY <1>1, <1>3 DEF PeriodTypes
<1>6. Horizon' = Horizon
  BY DEF Horizon, PaidOrders
<1>7. PeriodsEnd'
  BY <1>1, <1>3, <1>6 DEF PeriodsEnd
<1>8. PeriodsHaveSubs'
  BY <1>1, <1>2, <1>3, <1>4 DEF PeriodsHaveSubs, PeriodTypes, AnyPeriod
<1>9. PeriodsDoNotOverlap'
  BY <1>1, <1>3 DEF PeriodsDoNotOverlap
<1> QED
  BY <1>1, <1>4, <1>5, <1>7, <1>8, <1>9

\* Steps that leave the periods and the paid orders alone.
LEMMA OtherKeepsPeriods ==
    ASSUME PeriodInv, periods' = periods, PaidOrders' = PaidOrders,
           \A s \in Subs : sub[s] # "absent" => sub'[s] # "absent"
    PROVE  PeriodTypes' /\ PeriodsEnd' /\ PeriodsHaveSubs' /\ PeriodsDoNotOverlap'
<1>1. PeriodTypes' /\ PeriodsDoNotOverlap'
  BY DEF PeriodInv, PeriodTypes, PeriodsDoNotOverlap
<1>2. PeriodsEnd'
  BY DEF PeriodInv, PeriodsEnd, Horizon
<1>3. PeriodsHaveSubs'
  BY DEF PeriodInv, PeriodsHaveSubs, PeriodTypes, AnyPeriod
<1> QED
  BY <1>1, <1>2, <1>3

\* The steps outside ProcessPayment and the manual settlement.
LEMMA OutsidePeriodStep ==
    ASSUME PeriodInv, RowTypes',
           \/ Tick
           \/ \E o \in Orders :
                 \/ PrepareOrder(o) \/ ProviderMakesInvoice(o)
                 \/ FinalizeOwnedClaim(o) \/ ProviderSettles(o)
           \/ \E e \in Events : IngestWebhook(e)
           \/ \E s \in Subs : ListLapsed(s) \/ ExpireSubscription(s)
           \/ UNCHANGED vars
    PROVE  PeriodInv'
<1> USE DEF PeriodInv, ColumnTypes
<1>1. now' \in 0..MaxTime
  <2>1. CASE Tick
    BY <2>1, TimeAssumption DEF Tick
  <2>2. CASE now' = now
    BY <2>2
  <2> QED
    BY <2>1, <2>2 DEF PrepareOrder, ProviderMakesInvoice, FinalizeOwnedClaim,
       ProviderSettles, IngestWebhook, ListLapsed, ExpireSubscription, vars
<1>2. /\ periods' = periods /\ tariff' = tariff /\ subTariff' = subTariff
      /\ refunds' = refunds
  BY DEF Tick, PrepareOrder, ProviderMakesInvoice, FinalizeOwnedClaim,
     ProviderSettles, IngestWebhook, ListLapsed, ExpireSubscription, vars, orderVars,
     subVars
<1>3. attempt' \in [Orders -> {"absent", "created", "pending", "paid", "cancelled"}]
  BY DEF Tick, PrepareOrder, ProviderMakesInvoice, FinalizeOwnedClaim,
     ProviderSettles, IngestWebhook, ListLapsed, ExpireSubscription, vars
<1>4. matched' \in [Events -> BOOLEAN]
  <2>1. CASE \E e \in Events : IngestWebhook(e)
    <3>1. PICK e \in Events :
              matched' = [matched EXCEPT ![e] = (attempt[e[1]] # "created")]
      BY <2>1 DEF IngestWebhook
    <3>2. (attempt[e[1]] # "created") \in BOOLEAN
      OBVIOUS
    <3> QED
      BY <3>1, <3>2
  <2>2. CASE matched' = matched
    BY <2>2
  <2> QED
    BY <2>1, <2>2 DEF Tick, PrepareOrder, ProviderMakesInvoice, FinalizeOwnedClaim,
       ProviderSettles, ListLapsed, ExpireSubscription, vars, eventVars
<1>5. /\ sub' \in [Subs -> {"absent", "active", "ended"}]
      /\ \A s \in Subs : sub[s] # "absent" => sub'[s] # "absent"
  BY DEF Tick, PrepareOrder, ProviderMakesInvoice, FinalizeOwnedClaim,
     ProviderSettles, IngestWebhook, ListLapsed, ExpireSubscription, Lapsed, vars, subVars
<1>6. listed' \in [Subs -> 0..MaxTime \cup {NotListed}]
  <2>1. CASE \E s \in Subs : ListLapsed(s) \/ ExpireSubscription(s)
    BY <2>1 DEF ListLapsed, ExpireSubscription
  <2>2. CASE listed' = listed
    BY <2>2
  <2> QED
    BY <2>1, <2>2 DEF Tick, PrepareOrder, ProviderMakesInvoice, FinalizeOwnedClaim,
       ProviderSettles, IngestWebhook, vars
<1>7. PaidOrders' = PaidOrders
  <2>1. CASE \E o \in Orders : PrepareOrder(o)
    <3>1. \A o \in Orders : order'[o] = "paid" <=> order[o] = "paid"
      BY <2>1 DEF RowTypes, PrepareOrder
    <3> QED
      BY <3>1 DEF PaidOrders
  <2>2. CASE order' = order
    BY <2>2 DEF PaidOrders
  <2> QED
    BY <2>1, <2>2 DEF Tick, ProviderMakesInvoice, FinalizeOwnedClaim,
       ProviderSettles, IngestWebhook, ListLapsed, ExpireSubscription, vars, orderVars
<1> QED
  BY <1>1, <1>2, <1>3, <1>4, <1>5, <1>6, <1>7, OtherKeepsPeriods

\* The transactions of ProcessPayment.
LEMMA ProcessPeriodStep ==
    ASSUME PeriodInv, RowTypes', NEW e \in Events, ProcessPayment(e)
    PROVE  PeriodInv'
<1> USE DEF PeriodInv, ColumnTypes
<1> DEFINE o == e[1]
<1>1. o \in Orders
  BY EventsHaveOrders
<1>2. /\ now' = now /\ listed' = listed /\ tariff' = tariff
      /\ matched' = matched
  BY DEF ProcessPayment, RejectEvent, IgnoreEvent, ProcessPaid,
     ProcessUnsuccessful, ProcessRefund, orderVars, Finish
<1>3. attempt' \in [Orders -> {"absent", "created", "pending", "paid", "cancelled"}]
  BY <1>1 DEF ProcessPayment, RejectEvent, IgnoreEvent, ProcessPaid,
     ProcessUnsuccessful, ProcessRefund
<1>4. refunds' \in SUBSET Events
  BY DEF ProcessPayment, RejectEvent, IgnoreEvent, ProcessPaid,
     ProcessUnsuccessful, ProcessRefund
<1>5. CASE RejectEvent(e) \/ IgnoreEvent(e) \/ ProcessUnsuccessful(e)
  <2>1. UNCHANGED subVars /\ PaidOrders' = PaidOrders
    BY <1>1, <1>5 DEF RejectEvent, IgnoreEvent, ProcessUnsuccessful, orderVars,
       PaidOrders, RowTypes
  <2> QED
    BY <1>2, <1>3, <1>4, <2>1, OtherKeepsPeriods DEF subVars
<1>6. CASE ProcessPaid(e)
  <2>1. CASE /\ mark_paid(o) /\ ActivateSubscription(o)
             /\ order' = [order EXCEPT ![o] = "paid"]
    <3>1. PeriodTypes' /\ PeriodsEnd' /\ PeriodsHaveSubs' /\ PeriodsDoNotOverlap'
      BY <1>1, <2>1, GrantKeepsPeriods
    <3>2. /\ sub' \in [Subs -> {"absent", "active", "ended"}]
          /\ subTariff' \in [Subs -> Tariffs]
      BY <1>1, <2>1, ActivationAppends
    <3> QED
      BY <1>2, <1>3, <1>4, <3>1, <3>2
  <2>2. CASE UNCHANGED <<order, subVars>>
    BY <1>2, <1>3, <1>4, <2>2, OtherKeepsPeriods DEF subVars, PaidOrders
  <2> QED
    BY <1>6, <2>1, <2>2 DEF ProcessPaid
<1>7. CASE ProcessRefund(e)
  <2>1. order' = order
    BY <1>7 DEF ProcessRefund, orderVars
  <2>2. ASSUME NEW p \in periods, Unfund(p) PROVE PeriodInv'
    BY <1>2, <1>3, <1>4, <2>1, <2>2, UnfundKeepsTimes
  <2>3. CASE UNCHANGED subVars
    BY <1>2, <1>3, <1>4, <2>1, <2>3, OtherKeepsPeriods DEF subVars, PaidOrders
  <2> QED
    BY <1>7, <2>2, <2>3 DEF ProcessRefund
<1> QED
  BY <1>5, <1>6, <1>7 DEF ProcessPayment

\* The settlement by an administrator.
LEMMA ManualPeriodStep ==
    ASSUME PeriodInv, RowTypes', NEW o \in Orders, MarkPaymentOrderPaid(o)
    PROVE  PeriodInv'
<1>1. /\ mark_paid(o) /\ ActivateSubscription(o)
      /\ order' = [order EXCEPT ![o] = "paid"]
      /\ now' = now /\ listed' = listed /\ tariff' = tariff
      /\ attempt' = attempt /\ matched' = matched /\ refunds' = refunds
  BY DEF MarkPaymentOrderPaid, eventVars
<1>2. PeriodTypes' /\ PeriodsEnd' /\ PeriodsHaveSubs' /\ PeriodsDoNotOverlap'
  BY <1>1, GrantKeepsPeriods
<1>3. /\ sub' \in [Subs -> {"absent", "active", "ended"}]
      /\ subTariff' \in [Subs -> Tariffs]
  BY <1>1, ActivationAppends
<1> QED
  BY <1>1, <1>2, <1>3 DEF PeriodInv, ColumnTypes

\* The invariant of the periods is inductive relative to GrantInv.
LEMMA PeriodInvariant == Spec => []PeriodInv
<1>1. Init => PeriodInv
  BY TariffsAssumption, TimeAssumption DEF Init, PeriodInv, ColumnTypes, RowTypes,
     PeriodTypes, PeriodsEnd, PeriodsHaveSubs, PeriodsDoNotOverlap, NotListed
<1>2. PeriodInv /\ GrantInv' /\ [Next]_vars => PeriodInv'
  BY OutsidePeriodStep, ProcessPeriodStep, ManualPeriodStep DEF Next, GrantInv
<1> QED
  BY <1>1, <1>2, GrantInvariant, PTL DEF Spec

\* Rows keep their types, and the paid time of all orders together never
\* ends later than one period after another from the last tick.
THEOREM TypeCorrect == Spec => []TypeOK
<1>1. PeriodInv => TypeOK
  <2> SUFFICES ASSUME PeriodInv PROVE TypeOK
    OBVIOUS
  <2>1. ASSUME NEW k \in Nat, NEW n \in Nat, k <= n
        PROVE  k * PeriodDays <= n * PeriodDays /\ k * PeriodDays \in Nat /\ n * PeriodDays \in Nat
    BY <2>1, TimeAssumption
  <2>2. Horizon <= MaxTime + Cardinality(Orders) * PeriodDays
    BY <2>1, PaidOrdersAreFinite, TimeAssumption DEF Horizon
  <2>3. ASSUME NEW p \in periods PROVE p \in Period
    <3>1. p \in AnyPeriod /\ p.starts <= p.expires /\ p.expires <= Horizon
      BY <2>3 DEF PeriodInv, PeriodTypes, PeriodsEnd
    <3>2. p.starts \in Times /\ p.expires \in Times
      BY <2>1, <2>2, <3>1, HorizonIsNat, PaidOrdersAreFinite, TimeAssumption
         DEF AnyPeriod, Times
    <3> QED
      BY <3>1, <3>2 DEF AnyPeriod, Period
  <2> QED
    BY <2>3 DEF PeriodInv, ColumnTypes, RowTypes, TypeOK
<1> QED
  BY <1>1, PeriodInvariant, PTL

\* For any number of orders, tariffs, refunds and changes of tariff, no two
\* periods of a subscription overlap.
THEOREM PaidTimeIsNotGivenTwice == Spec => []PeriodsDoNotOverlap
<1>1. PeriodInv => PeriodsDoNotOverlap
  BY DEF PeriodInv
<1> QED
  BY <1>1, PeriodInvariant, PTL

-----------------------------------------------------------------------------
(* Partial refunds.                                                        *)

\* Finitely many refunds can be stored.
LEMMA RefundsAreFinite ==
    ASSUME NEW rs \in SUBSET Events, NEW o
    PROVE  IsFiniteSet({e \in rs : e[1] = o})
<1>1. IsFiniteSet(AllKinds)
  <2>0. ASSUME NEW S, IsFiniteSet(S), NEW x PROVE IsFiniteSet(S \cup {x})
    BY <2>0, FS_AddElement
  <2>1. ASSUME NEW x, NEW y PROVE IsFiniteSet({x, y})
    <3>1. {x, y} = {x} \cup {y}
      OBVIOUS
    <3>2. IsFiniteSet({x})
      BY FS_Singleton
    <3> QED
      BY <2>0, <3>1, <3>2
  <2>2. ASSUME NEW x, NEW y, NEW z PROVE IsFiniteSet({x, y, z})
    <3>1. {x, y, z} = {x, y} \cup {z}
      OBVIOUS
    <3>2. IsFiniteSet({x, y})
      BY <2>1
    <3> QED
      BY <2>0, <3>1, <3>2
  <2>3. IsFiniteSet(PaidKinds) /\ IsFiniteSet(RefundKinds)
    BY <2>1, <2>2 DEF PaidKinds, RefundKinds
  <2> QED
    BY <2>1, <2>3, FS_Union DEF AllKinds
<1>2. IsFiniteSet(Orders \X AllKinds)
  BY <1>1, OrdersAssumption, FS_Product
<1>3. {e \in rs : e[1] = o} \subseteq Orders \X AllKinds
  BY ReportedAssumption DEF Events
<1> QED
  BY <1>2, <1>3, FS_Subset

\* More refunds are never fewer.
LEMMA RefundsGrow ==
    ASSUME NEW rs \in SUBSET Events, NEW more \in SUBSET Events, rs \subseteq more, NEW o
    PROVE  /\ Cardinality({e \in rs : e[1] = o}) \in Nat
           /\ Cardinality({e \in more : e[1] = o}) \in Nat
           /\ Cardinality({e \in rs : e[1] = o}) <= Cardinality({e \in more : e[1] = o})
<1> DEFINE A == {e \in rs : e[1] = o}
           B == {e \in more : e[1] = o}
<1>1. IsFiniteSet(B) /\ IsFiniteSet(A) /\ A \in SUBSET B
  BY RefundsAreFinite
<1> HIDE DEF A, B
<1>2. Cardinality(A) \in Nat /\ Cardinality(B) \in Nat /\ Cardinality(A) <= Cardinality(B)
  BY <1>1, FS_Subset, FS_CardinalityType
<1> QED
  BY <1>2 DEF A, B

\* An order that was refunded in full stays so.
LEMMA RefundedStays ==
    ASSUME refunds \in SUBSET Events, refunds' \in SUBSET Events, refunds \subseteq refunds',
           NEW o, RefundsOf(o) >= Price
    PROVE  RefundsOf(o)' >= Price
<1> DEFINE a == Cardinality({e \in refunds : e[1] = o})
           b == Cardinality({e \in refunds' : e[1] = o})
<1>1. a \in Nat /\ b \in Nat /\ a <= b
  BY RefundsGrow
<1>2. a >= Price
  BY DEF RefundsOf
<1> HIDE DEF a, b
<1>3. b >= Price
  BY <1>1, <1>2, PriceAssumption
<1> QED
  BY <1>3 DEF RefundsOf, b

\* A step that stores refunds and unfunds no other period keeps the property.
LEMMA RefundStep ==
    ASSUME PartialRefundKeepsAccess, refunds \in SUBSET Events, refunds' \in SUBSET Events,
           refunds \subseteq refunds',
           \A p \in periods' : p.is_paid \/ p \in periods \/ RefundsOf(p.order)' >= Price
    PROVE  PartialRefundKeepsAccess'
<1>1. ASSUME NEW o, RefundsOf(o) >= Price PROVE RefundsOf(o)' >= Price
  BY <1>1, RefundedStays
<1> QED
  BY <1>1 DEF PartialRefundKeepsAccess

\* A refund that is stored unfunds a period only when the refunds of its
\* order, with this one, reach the price.
LEMMA RefundTransaction ==
    ASSUME PeriodInv, PartialRefundKeepsAccess, NEW e \in Events, ProcessRefund(e)
    PROVE  PartialRefundKeepsAccess'
<1>1. /\ refunds \in SUBSET Events /\ refunds' \in SUBSET Events
      /\ refunds \subseteq refunds'
  BY DEF ProcessRefund, PeriodInv, ColumnTypes
<1>2. ASSUME NEW p \in periods, p.order = e[1], Unfund(p), FullyRefunded(e[1], refunds')
      PROVE  \A q \in periods' : q.is_paid \/ q \in periods \/ RefundsOf(q.order)' >= Price
  <2> DEFINE u == [p EXCEPT !.is_paid = FALSE]
  <2>1. u.order = p.order
    OBVIOUS
  <2> HIDE DEF u
  <2>2. periods' = (periods \ {p}) \cup {u}
    BY <1>2 DEF Unfund, u
  <2>3. RefundsOf(u.order)' >= Price
    BY <1>2, <2>1 DEF FullyRefunded, RefundsOf
  <2> QED
    BY <2>2, <2>3
<1>3. CASE UNCHANGED subVars
  BY <1>1, <1>3, RefundStep DEF subVars
<1> QED
  BY <1>1, <1>2, <1>3, RefundStep DEF ProcessRefund

\* For every price and every number of refunds: a period loses its funding
\* only when the refunds of its order reach the price.
THEOREM PartialRefundsRevokeNothing == Spec => []PartialRefundKeepsAccess
<1>1. Init => PartialRefundKeepsAccess
  BY DEF Init, PartialRefundKeepsAccess
<1>2. ASSUME PeriodInv, PartialRefundKeepsAccess, [Next]_vars
      PROVE  PartialRefundKeepsAccess'
  <2>1. refunds \in SUBSET Events
    BY <1>2 DEF PeriodInv, ColumnTypes
  <2>2. CASE \E e \in Events : ProcessRefund(e)
    BY <1>2, <2>2, RefundTransaction
  <2>3. ASSUME NEW o \in Orders, ActivateSubscription(o), refunds' = refunds
        PROVE  PartialRefundKeepsAccess'
    <3>1. \E s \in Subs, t \in Nat : periods' = periods \cup {NewPeriod(o, s, t)}
      BY <1>2, <2>3, ActivationAppends
    <3>2. \A s, t : NewPeriod(o, s, t).is_paid
      BY DEF NewPeriod
    <3> QED
      BY <1>2, <2>1, <2>3, <3>1, <3>2, RefundStep
  <2>4. CASE periods' = periods /\ refunds' = refunds
    BY <1>2, <2>1, <2>4, RefundStep
  <2>5. CASE \E e \in Events : ProcessPaid(e)
    BY <2>3, <2>4, <2>5, EventsHaveOrders DEF ProcessPaid, subVars
  <2>6. CASE \E o \in Orders : MarkPaymentOrderPaid(o)
    BY <2>3, <2>6 DEF MarkPaymentOrderPaid
  <2>7. CASE \E e \in Events : RejectEvent(e) \/ IgnoreEvent(e) \/ ProcessUnsuccessful(e)
    BY <2>4, <2>7 DEF RejectEvent, IgnoreEvent, ProcessUnsuccessful, subVars
  <2>8. CASE \/ Tick
             \/ \E o \in Orders :
                   \/ PrepareOrder(o) \/ ProviderMakesInvoice(o)
                   \/ FinalizeOwnedClaim(o) \/ ProviderSettles(o)
             \/ \E e \in Events : IngestWebhook(e)
             \/ \E s \in Subs : ListLapsed(s) \/ ExpireSubscription(s)
             \/ UNCHANGED vars
    <3>1. periods' = periods /\ refunds' = refunds
      BY <2>8 DEF Tick, PrepareOrder, ProviderMakesInvoice, FinalizeOwnedClaim,
         ProviderSettles, IngestWebhook, ListLapsed, ExpireSubscription, vars, subVars
    <3> QED
      BY <2>4, <3>1
  <2> QED
    BY <1>2, <2>2, <2>5, <2>6, <2>7, <2>8 DEF Next, ProcessPayment
<1> QED
  BY <1>1, <1>2, PeriodInvariant, PTL DEF Spec

-----------------------------------------------------------------------------
(* What a step does to subscriptions and periods, in three kinds.          *)

\* The settlement of an order, by an event or by the administrator.
Grants(o) ==
    /\ mark_paid(o) /\ ActivateSubscription(o)
    /\ o \in manual' \/ invoice[o] = "paid"
    /\ manual \subseteq manual' /\ manual' \subseteq manual \cup {o}
    /\ UNCHANGED <<now, refunds, invoice, listed>>

\* Every other step leaves the periods alone, and only the expiry ends a
\* subscription.
Keeps ==
    /\ UNCHANGED <<periods, refunds, manual>>
    /\ \A o \in Orders : invoice[o] = "paid" => invoice'[o] = "paid"
    /\ UNCHANGED sub \/ \E s \in Subs : ExpireSubscription(s)

LEMMA StepKinds ==
    ASSUME GrantInv, [Next]_vars
    PROVE  \/ \E o \in Orders : Grants(o)
           \/ \E e \in Events : ProcessRefund(e)
           \/ Keeps
<1>1. CASE \/ Tick
           \/ \E o \in Orders :
                 \/ PrepareOrder(o) \/ ProviderMakesInvoice(o)
                 \/ FinalizeOwnedClaim(o) \/ ProviderSettles(o)
           \/ \E e \in Events : IngestWebhook(e)
           \/ \E s \in Subs : ListLapsed(s) \/ ExpireSubscription(s)
           \/ UNCHANGED vars
  <2>1. UNCHANGED <<periods, refunds, manual>>
    BY <1>1 DEF Tick, PrepareOrder, ProviderMakesInvoice, FinalizeOwnedClaim,
       ProviderSettles, IngestWebhook, ListLapsed, ExpireSubscription, vars, subVars,
       orderVars
  <2>2. \A o \in Orders : invoice[o] = "paid" => invoice'[o] = "paid"
    BY <1>1 DEF GrantInv, RowTypes, Tick, PrepareOrder, ProviderMakesInvoice,
       FinalizeOwnedClaim, ProviderSettles, IngestWebhook, ListLapsed,
       ExpireSubscription, vars
  <2>3. UNCHANGED sub \/ \E s \in Subs : ExpireSubscription(s)
    BY <1>1 DEF Tick, PrepareOrder, ProviderMakesInvoice, FinalizeOwnedClaim,
       ProviderSettles, IngestWebhook, ListLapsed, vars, subVars
  <2> QED
    BY <2>1, <2>2, <2>3 DEF Keeps
<1>2. CASE \E e \in Events : RejectEvent(e) \/ IgnoreEvent(e) \/ ProcessUnsuccessful(e)
  BY <1>2 DEF RejectEvent, IgnoreEvent, ProcessUnsuccessful, Keeps, subVars, orderVars
<1>3. ASSUME NEW e \in Events, ProcessPaid(e)
      PROVE  Grants(e[1]) \/ Keeps
  <2>1. invoice[e[1]] = "paid"
    BY <1>3 DEF ProcessPaid, Unprocessed, GrantInv, EventsAreTrue
  <2>2. UNCHANGED <<now, refunds, invoice, manual, listed>>
    BY <1>3 DEF ProcessPaid
  <2>3. CASE mark_paid(e[1]) /\ ActivateSubscription(e[1])
    BY <2>1, <2>2, <2>3 DEF Grants
  <2>4. CASE UNCHANGED subVars
    BY <2>2, <2>4 DEF Keeps, subVars
  <2> QED
    BY <1>3, <2>3, <2>4 DEF ProcessPaid
<1>4. ASSUME NEW o \in Orders, MarkPaymentOrderPaid(o)
      PROVE  Grants(o)
  BY <1>4 DEF MarkPaymentOrderPaid, Grants
<1> QED
  BY <1>1, <1>2, <1>3, <1>4, EventsHaveOrders DEF Next, ProcessPayment

\* A settlement extends a running subscription, or replaces them all by a new
\* one whose paid time has begun.
LEMMA GrantKinds ==
    ASSUME PeriodInv, NEW o \in Orders, ActivateSubscription(o)
    PROVE  \/ UNCHANGED sub
           \/ \E n \in Subs :
                 /\ sub[n] = "absent" /\ sub'[n] = "active"
                 /\ \A s \in Subs \ {n} :
                       sub'[s] = IF sub[s] = "active" THEN "ended" ELSE sub[s]
                 /\ NewPeriod(o, n, now) \in periods'
<1>1. ASSUME NEW n \in Subs,
             \A s \in Subs : sub[s] # "absent" <=> s < n
      PROVE  sub[n] = "absent"
  BY <1>1, PaidOrdersAreFinite DEF Subs
<1> QED
  BY <1>1 DEF ActivateSubscription

\* A refund ends its subscription only when no other funded time is ahead.
LEMMA RefundOutcomes ==
    ASSUME PeriodInv, NEW e \in Events, ProcessRefund(e)
    PROVE  \/ UNCHANGED <<sub, periods>>
           \/ \E p \in periods :
                 /\ p.order = e[1] /\ p.sub \in Subs
                 /\ periods' = (periods \ {p}) \cup {[p EXCEPT !.is_paid = FALSE]}
                 /\ \A s \in Subs : sub'[s] = sub[s] \/ sub'[s] = "ended"
                 /\ \A s \in Subs : sub'[s] # sub[s] => s = p.sub /\ NoOtherFunding(s, p)
<1>1. CASE UNCHANGED subVars
  BY <1>1 DEF subVars
<1>2. ASSUME NEW p \in periods, p.order = e[1], Unfund(p)
      PROVE  /\ p.sub \in Subs
             /\ periods' = (periods \ {p}) \cup {[p EXCEPT !.is_paid = FALSE]}
             /\ \A s \in Subs : sub'[s] = sub[s] \/ sub'[s] = "ended"
             /\ \A s \in Subs : sub'[s] # sub[s] => s = p.sub /\ NoOtherFunding(s, p)
  <2>1. p.sub \in Subs
    BY DEF PeriodInv, PeriodTypes, AnyPeriod
  <2>2. /\ periods' = (periods \ {p}) \cup {[p EXCEPT !.is_paid = FALSE]}
        /\ sub' = [sub EXCEPT ![p.sub] = IF NoOtherFunding(p.sub, p) THEN "ended" ELSE @]
    BY <1>2 DEF Unfund
  <2>3. /\ \A s \in Subs : s # p.sub => sub'[s] = sub[s]
        /\ sub'[p.sub] = IF NoOtherFunding(p.sub, p) THEN "ended" ELSE sub[p.sub]
    BY <2>1, <2>2 DEF PeriodInv, ColumnTypes
  <2> QED
    BY <2>1, <2>2, <2>3
<1> QED
  BY <1>1, <1>2 DEF ProcessRefund

-----------------------------------------------------------------------------
(* The end of a subscription.                                              *)

\* A batch of the expiry job is not ahead of the clock.
BatchesArePast == \A s \in Subs : listed[s] # NotListed => listed[s] <= now

LEMMA BatchStep ==
    ASSUME PeriodInv, BatchesArePast, [Next]_vars
    PROVE  BatchesArePast'
<1>1. now \in Nat /\ listed \in [Subs -> 0..MaxTime \cup {NotListed}]
  BY TimeAssumption DEF PeriodInv, ColumnTypes
<1>2. CASE Tick
  BY <1>1, <1>2, TimeAssumption DEF Tick, BatchesArePast, NotListed
<1>3. ASSUME NEW s \in Subs, ListLapsed(s) PROVE BatchesArePast'
  BY <1>1, <1>3 DEF ListLapsed, BatchesArePast
<1>4. ASSUME NEW s \in Subs, ExpireSubscription(s) PROVE BatchesArePast'
  BY <1>1, <1>4 DEF ExpireSubscription, BatchesArePast
<1>5. CASE UNCHANGED <<now, listed>>
  BY <1>5 DEF BatchesArePast
<1> QED
  BY <1>2, <1>3, <1>4, <1>5 DEF Next, PrepareOrder, ProviderMakesInvoice,
     FinalizeOwnedClaim, ProviderSettles, MarkPaymentOrderPaid, IngestWebhook,
     ProcessPayment, RejectEvent, IgnoreEvent, ProcessPaid, ProcessUnsuccessful,
     ProcessRefund, vars

LEMMA BatchInvariant == Spec => []BatchesArePast
<1>1. Init => BatchesArePast
  BY DEF Init, BatchesArePast
<1> QED
  BY <1>1, BatchStep, PeriodInvariant, PTL DEF Spec

\* The expiry looks at the time of its batch: a funded period that is under
\* way now and had begun then would have been under way then.
LEMMA ExpiryKeepsRunning ==
    ASSUME PeriodInv, BatchesArePast, NEW s \in Subs, ExpireSubscription(s), sub'[s] # sub[s],
           NEW p \in get_current_period(s, now)'
    PROVE  listed[s] # NotListed /\ p.starts > listed[s]
<1>1. listed[s] \in Nat /\ listed[s] <= now /\ now \in Nat
  BY TimeAssumption
     DEF PeriodInv, ColumnTypes, ExpireSubscription, BatchesArePast
<1>2. periods' = periods /\ now' = now /\ listed[s] # NotListed
  BY DEF ExpireSubscription
<1>3. /\ p \in periods /\ p.sub = s /\ p.is_paid
      /\ p.starts <= now /\ now < p.expires
  BY <1>2 DEF get_current_period, PeriodsOf
<1>4. p.starts \in Nat /\ p.expires \in Nat
  BY <1>3 DEF PeriodInv, PeriodTypes, AnyPeriod
<1>5. Lapsed(s, listed[s])
  BY DEF ExpireSubscription
<1>6. p \notin get_current_period(s, listed[s])
  BY <1>5 DEF Lapsed
<1>7. ~(p.starts <= listed[s] /\ listed[s] < p.expires)
  BY <1>3, <1>6 DEF get_current_period, PeriodsOf
<1> QED
  BY <1>1, <1>2, <1>3, <1>4, <1>7

\* A refund ends a subscription only when nothing funded is under way.
LEMMA RefundKeepsRunning ==
    ASSUME PeriodInv, NEW e \in Events, ProcessRefund(e), NEW s \in Subs, sub'[s] # sub[s]
    PROVE  get_current_period(s, now)' = {}
<1>1. PICK p \in periods :
         /\ periods' = (periods \ {p}) \cup {[p EXCEPT !.is_paid = FALSE]}
         /\ s = p.sub /\ NoOtherFunding(s, p)
  BY RefundOutcomes
<1>2. now' = now
  BY DEF ProcessRefund
<1> SUFFICES ASSUME NEW q \in get_current_period(s, now)' PROVE FALSE
  OBVIOUS
<1>3. q \in periods' /\ q.sub = s /\ q.is_paid /\ now < q.expires
  BY <1>2 DEF get_current_period, PeriodsOf
<1>4. [p EXCEPT !.is_paid = FALSE].is_paid = FALSE
  <2>1. p \in AnyPeriod
    BY DEF PeriodInv, PeriodTypes
  <2> QED
    BY <2>1 DEF AnyPeriod
<1>5. q \in periods /\ q # p
  BY <1>1, <1>3, <1>4
<1>6. now \in Nat /\ q.expires \in Nat
  BY <1>5, TimeAssumption DEF PeriodInv, ColumnTypes, PeriodTypes, AnyPeriod
<1> QED
  BY <1>1, <1>3, <1>5, <1>6 DEF NoOtherFunding, PeriodsOf

\* For any orders, tariffs and refunds: running paid access ends only with a
\* change of tariff, or in a batch that is older than the period.
THEOREM RunningAccessEndsForCause == Spec => RunningAccessIsKept
<1> DEFINE Kept(s) ==
       sub[s] = "active" /\ sub'[s] = "ended" =>
           \/ \E r \in Subs : sub[r] = "absent" /\ sub'[r] = "active"
           \/ \A p \in get_current_period(s, now)' :
                 listed[s] # NotListed /\ p.starts > listed[s]
<1>1. ASSUME GrantInv, PeriodInv, BatchesArePast, [Next]_vars, NEW s \in Subs
      PROVE  Kept(s)
  <2>1. CASE \E o \in Orders : Grants(o)
    BY <1>1, <2>1, GrantKinds DEF Grants
  <2>2. CASE \E e \in Events : ProcessRefund(e)
    BY <1>1, <2>2, RefundKeepsRunning
  <2>3. CASE Keeps
    <3>1. ASSUME NEW x \in Subs, ExpireSubscription(x), sub'[s] # sub[s]
          PROVE  x = s
      BY <1>1, <3>1 DEF ExpireSubscription, PeriodInv, ColumnTypes
    <3> QED
      BY <1>1, <2>3, <3>1, ExpiryKeepsRunning DEF Keeps
  <2> QED
    BY <1>1, <2>1, <2>2, <2>3, StepKinds
<1>2. GrantInv /\ PeriodInv /\ BatchesArePast /\ [Next]_vars => [\A s \in Subs : Kept(s)]_vars
  BY <1>1
<1> QED
  BY <1>2, GrantInvariant, PeriodInvariant, BatchInvariant, PTL DEF Spec, RunningAccessIsKept

\* What the lifecycles of configurations assume of a subscription, for any
\* number of payments, refunds and changes of tariff.
THEOREM SubscriptionsProvideAccess == Spec => ProvidesAccess
<1> DEFINE Step(s) == \/ sub[s] # "absent" /\ Served(s)!Next
                      \/ UNCHANGED Served(s)!vars
<1>1. ASSUME Init, NEW s \in Subs PROVE Served(s)!Init
  <2>1. sub[s] = "absent"
    BY <1>1 DEF Init
  <2> QED
    BY <2>1 DEF Served!Init
<1>2. ASSUME NEW s \in Subs, sub[s] # "absent", sub[s] = "ended" => sub'[s] = "ended"
      PROVE  Step(s)
  <2>1. (sub'[s] = "absent" \/ get_current_period(s, now)' # {}) \in BOOLEAN
    OBVIOUS
  <2> QED
    BY <1>2, <2>1 DEF Served!Next, Served!AccessChanges, Served!row
<1>3. ASSUME NEW s \in Subs, sub[s] = "absent", sub'[s] = "absent"
      PROVE  Step(s)
  BY <1>3 DEF Served!vars, Served!access, Served!row
<1>4. ASSUME GrantInv, PeriodInv, [Next]_vars, NEW s \in Subs PROVE Step(s)
  <2>1. CASE \E o \in Orders : Grants(o)
    <3>1. PICK o \in Orders : Grants(o)
      BY <2>1
    <3>2. CASE UNCHANGED sub
      BY <1>2, <1>3, <3>2
    <3>3. ASSUME NEW n \in Subs, sub[n] = "absent", sub'[n] = "active",
                 \A x \in Subs \ {n} :
                    sub'[x] = IF sub[x] = "active" THEN "ended" ELSE sub[x],
                 NewPeriod(o, n, now) \in periods'
          PROVE  Step(s)
      <4>1. CASE s = n
        <5>1. now \in Nat /\ now' = now /\ PeriodDays \in Nat /\ PeriodDays # 0
          BY <1>4, <3>1, TimeAssumption DEF Grants, PeriodInv, ColumnTypes
        <5>2. NewPeriod(o, n, now) \in get_current_period(s, now)'
          BY <3>3, <4>1, <5>1 DEF NewPeriod, get_current_period, PeriodsOf
        <5>3. sub[s] = "absent" /\ sub'[s] = "active"
          BY <3>3, <4>1
        <5> QED
          BY <5>2, <5>3 DEF Served!vars, Served!access, Served!row
      <4>2. CASE s # n
        <5>1. sub'[s] = IF sub[s] = "active" THEN "ended" ELSE sub[s]
          BY <3>3, <4>2
        <5> QED
          BY <1>2, <1>3, <5>1
      <4> QED
        BY <4>1, <4>2
    <3> QED
      BY <1>4, <3>1, <3>2, <3>3, GrantKinds DEF Grants
  <2>2. ASSUME NEW e \in Events, ProcessRefund(e) PROVE Step(s)
    <3>1. sub'[s] = sub[s] \/ sub'[s] = "ended"
      BY <1>4, <2>2, RefundOutcomes
    <3>2. CASE sub[s] # "absent" \/ sub'[s] = sub[s]
      BY <1>2, <1>3, <3>1, <3>2
    <3>3. sub[s] # "absent" \/ sub'[s] = sub[s]
      <4>1. \A p \in periods : p.sub = s => sub[s] # "absent"
        BY <1>4 DEF PeriodInv, PeriodsHaveSubs
      <4> QED
        BY <1>4, <2>2, <4>1, RefundOutcomes
    <3> QED
      BY <3>2, <3>3
  <2>3. CASE Keeps
    <3>1. CASE UNCHANGED sub
      BY <1>2, <1>3, <3>1
    <3>2. ASSUME NEW x \in Subs, ExpireSubscription(x) PROVE Step(s)
      <4>1. sub'[s] = sub[s] \/ (sub[s] = "active" /\ sub'[s] = "ended")
        BY <1>4, <3>2 DEF ExpireSubscription, Lapsed, PeriodInv, ColumnTypes
      <4> QED
        BY <1>2, <1>3, <4>1
    <3> QED
      BY <2>3, <3>1, <3>2 DEF Keeps
  <2> QED
    BY <1>4, <2>1, <2>2, <2>3, StepKinds
<1>5. Init => \A s \in Subs : Served(s)!Init
  BY <1>1
<1>6. GrantInv /\ PeriodInv /\ [Next]_vars => [\A s \in Subs : Step(s)]_vars
  BY <1>4
<1> HIDE DEF Step
<1> QED
  BY <1>5, <1>6, GrantInvariant, PeriodInvariant, PTL DEF Spec, ProvidesAccess, Step

-----------------------------------------------------------------------------
(* What an order buys.                                                     *)

PeriodsFor(o) == {p \in periods : p.order = o}

EntitlementStep(o) == Bought(o)!Next \/ UNCHANGED Bought(o)!vars

\* The money of an order moves, and its days stay.
LEMMA OnlyMoneyMoves ==
    ASSUME NEW o \in Orders, refunds \in SUBSET Events, refunds' \in SUBSET Events,
           refunds \subseteq refunds', manual \subseteq manual',
           invoice[o] = "paid" => invoice'[o] = "paid", PeriodsFor(o)' = PeriodsFor(o)
    PROVE  EntitlementStep(o)
<1>1. RefundsOf(o) >= Price => RefundsOf(o)' >= Price
  BY RefundedStays
<1>2. {<<p.starts, p.expires>> : p \in {p \in periods' : p.order = o}}
        = {<<p.starts, p.expires>> : p \in {p \in periods : p.order = o}}
  BY DEF PeriodsFor
<1>3. (\E p \in periods' : p.order = o /\ p.is_paid)
        = (\E p \in periods : p.order = o /\ p.is_paid)
  BY DEF PeriodsFor
<1>4. o \in manual \/ invoice[o] = "paid" => o \in manual' \/ invoice'[o] = "paid"
  OBVIOUS
<1> QED
  BY <1>1, <1>2, <1>3, <1>4 DEF EntitlementStep, Bought!Next, Bought!MoneyMoves

\* The settlement of an order buys its days, and nothing for another order.
LEMMA EntitlementOfGrant ==
    ASSUME GrantInv, PeriodInv, NEW x \in Orders, Grants(x), NEW o \in Orders
    PROVE  EntitlementStep(o)
<1>1. PICK s \in Subs, t \in Nat : periods' = periods \cup {NewPeriod(x, s, t)}
  BY ActivationAppends DEF Grants
<1> DEFINE r == NewPeriod(x, s, t)
<1>2. /\ r.order = x /\ r.starts = t /\ r.expires = t + PeriodDays
      /\ r.is_paid = TRUE
  BY DEF NewPeriod
<1> HIDE DEF r
<1>3. refunds \in SUBSET Events /\ refunds' = refunds /\ invoice' = invoice
      /\ manual \subseteq manual'
  BY DEF PeriodInv, ColumnTypes, Grants
<1>4. CASE o # x
  <2>1. PeriodsFor(o)' = PeriodsFor(o)
    BY <1>1, <1>2, <1>4 DEF PeriodsFor, r
  <2> QED
    BY <1>3, <2>1, OnlyMoneyMoves
<1>5. CASE o = x
  <2>1. \A p \in periods : p.order # o
    BY <1>5 DEF GrantInv, PaidExactlyOnce, Grants, mark_paid
  <2>2. {p \in periods' : p.order = o} = {r}
    BY <1>1, <1>2, <1>5, <2>1 DEF r
  <2>3. {<<p.starts, p.expires>> : p \in {p \in periods' : p.order = o}}
          = {<<t, t + PeriodDays>>}
    BY <1>2, <2>2
  <2>4. {<<p.starts, p.expires>> : p \in {p \in periods : p.order = o}} = {}
    BY <2>1
  <2>5. \E p \in periods' : p.order = o /\ p.is_paid
    BY <1>2, <2>2
  <2>6. o \in manual' \/ invoice'[o] = "paid"
    BY <1>3, <1>5 DEF Grants
  <2>7. (RefundsOf(o) >= Price)' = (RefundsOf(o) >= Price)
    BY <1>3 DEF RefundsOf
  <2>8. Bought(o)!Grant
    <3>1. <<t, t + PeriodDays>>[2] = <<t, t + PeriodDays>>[1] + PeriodDays
      OBVIOUS
    <3> QED
      BY <2>3, <2>4, <2>5, <2>6, <2>7, <3>1 DEF Bought!Grant
  <2> QED
    BY <2>8 DEF EntitlementStep, Bought!Next
<1> QED
  BY <1>4, <1>5

\* A refund withdraws the days of its order when the money is back, and it
\* leaves them where they are.
LEMMA EntitlementOfRefund ==
    ASSUME GrantInv, PeriodInv, NEW e \in Events, ProcessRefund(e), NEW o \in Orders
    PROVE  EntitlementStep(o)
<1>1. /\ refunds \in SUBSET Events /\ refunds' \in SUBSET Events
      /\ refunds \subseteq refunds' /\ UNCHANGED <<manual, invoice>>
  BY DEF ProcessRefund, PeriodInv, ColumnTypes, orderVars
<1>2. CASE PeriodsFor(o)' = PeriodsFor(o)
  BY <1>1, <1>2, OnlyMoneyMoves
<1>3. CASE UNCHANGED subVars
  BY <1>2, <1>3 DEF subVars, PeriodsFor
<1>4. ASSUME NEW p \in periods, p.order = e[1], Unfund(p), FullyRefunded(e[1], refunds')
      PROVE  EntitlementStep(o)
  <2> DEFINE u == [p EXCEPT !.is_paid = FALSE]
  <2>1. /\ periods' = (periods \ {p}) \cup {u}
        /\ u.order = p.order /\ u.starts = p.starts /\ u.expires = p.expires
        /\ u.is_paid = FALSE
    <3>1. p \in AnyPeriod
      BY DEF PeriodInv, PeriodTypes
    <3> QED
      BY <1>4, <3>1 DEF Unfund, AnyPeriod
  <2> HIDE DEF u
  <2>2. CASE o # p.order
    <3>1. PeriodsFor(o)' = PeriodsFor(o)
      BY <2>1, <2>2 DEF PeriodsFor
    <3> QED
      BY <1>2, <3>1
  <2>3. CASE o = p.order
    <3>1. /\ {q \in periods : q.order = o} = {p}
          /\ {q \in periods' : q.order = o} = {u}
      BY <2>1, <2>3 DEF GrantInv, PaidExactlyOnce
    <3>2. {<<q.starts, q.expires>> : q \in {q \in periods' : q.order = o}}
            = {<<q.starts, q.expires>> : q \in {q \in periods : q.order = o}}
      BY <2>1, <3>1
    <3>3. ~ \E q \in periods' : q.order = o /\ q.is_paid
      BY <2>1, <3>1
    <3>4. RefundsOf(o)' >= Price
      BY <1>4, <2>3 DEF FullyRefunded, RefundsOf
    <3>5. CASE \E q \in periods : q.order = o /\ q.is_paid
      <4>1. Bought(o)!Withdraw
        BY <1>1, <3>2, <3>3, <3>4, <3>5 DEF Bought!Withdraw
      <4> QED
        BY <4>1 DEF EntitlementStep, Bought!Next
    <3>6. CASE ~ \E q \in periods : q.order = o /\ q.is_paid
      <4>1. (\E q \in periods' : q.order = o /\ q.is_paid)
              = (\E q \in periods : q.order = o /\ q.is_paid)
        BY <3>3, <3>6
      <4>2. Bought(o)!MoneyMoves
        BY <1>1, <3>2, <3>4, <4>1 DEF Bought!MoneyMoves
      <4> QED
        BY <4>2 DEF EntitlementStep, Bought!Next
    <3> QED
      BY <3>5, <3>6
  <2> QED
    BY <2>2, <2>3
<1> QED
  BY <1>3, <1>4 DEF ProcessRefund

\* Settlement implements Entitlement, for any set of orders and notifications
\* and any price: each order is granted its days once, in full and at one
\* time, and they are withdrawn only when its refunds have reached its amount.
THEOREM SettlementImplementsEntitlement == Spec => ImplementsEntitlement
<1>1. ASSUME Init, NEW o \in Orders PROVE Bought(o)!Init
  <2>1. RefundsOf(o) = 0
    <3>1. {e \in refunds : e[1] = o} = {}
      BY <1>1 DEF Init
    <3> QED
      BY <3>1, FS_EmptySet DEF RefundsOf
  <2>2. ~(o \in manual \/ invoice[o] = "paid") /\ periods = {}
    BY <1>1 DEF Init
  <2> QED
    BY <2>1, <2>2, PriceAssumption DEF Bought!Init
<1>2. ASSUME GrantInv, PeriodInv, [Next]_vars, NEW o \in Orders PROVE EntitlementStep(o)
  <2>1. CASE Keeps
    <3>1. /\ refunds \in SUBSET Events /\ refunds' = refunds /\ manual' = manual
          /\ invoice[o] = "paid" => invoice'[o] = "paid"
          /\ PeriodsFor(o)' = PeriodsFor(o)
      BY <1>2, <2>1 DEF PeriodInv, ColumnTypes, Keeps, PeriodsFor
    <3> QED
      BY <3>1, OnlyMoneyMoves
  <2> QED
    BY <1>2, <2>1, StepKinds, EntitlementOfGrant, EntitlementOfRefund
<1>3. Init => \A o \in Orders : Bought(o)!Init
  BY <1>1
<1>4. GrantInv /\ PeriodInv /\ [Next]_vars => [\A o \in Orders : EntitlementStep(o)]_vars
  BY <1>2
<1> QED
  BY <1>3, <1>4, GrantInvariant, PeriodInvariant, PTL
     DEF Spec, ImplementsEntitlement, EntitlementStep

-----------------------------------------------------------------------------
(* The outcome of an event.                                                *)

\* A settlement finds a subscription to extend, with an end to begin at, or
\* the number of a new one.
CanActivate(o) ==
    \/ \E s \in Subs :
          sub[s] = "active" /\ subTariff[s] = tariff[o] /\ ExtensionStart(s) # {}
    \/ \E n \in Subs :
          /\ \A s \in Subs : ~(sub[s] = "active" /\ subTariff[s] = tariff[o])
          /\ \A s \in Subs : sub[s] # "absent" <=> s < n

\* What the rows must say for each end of RecoverPaymentEvent, with the
\* choices of its transaction written out.
CanReject(e) ==
    \/ ~matched[e] /\ e[2] \in PaidKinds \cup RefundKinds
    \/ matched[e] /\ e[2] \in PaidKinds /\ ~validate_paid_settlement(e)

CanIgnore(e) ==
    \/ ~matched[e] /\ e[2] = "canceled:cancelled"
    \/ e[2] = "waiting_for_capture:authorized"
    \/ matched[e] /\ e[2] = "canceled:cancelled" /\ Stale(e[1], "cancelled")
    \/ matched[e] /\ validate_paid_settlement(e) /\ Stale(e[1], "paid")

CanPay(e) ==
    /\ matched[e] /\ validate_paid_settlement(e) /\ ~Stale(e[1], "paid")
    /\ mark_paid(e[1]) => CanActivate(e[1])

CanCancel(e) == matched[e] /\ e[2] = "canceled:cancelled" /\ ~Stale(e[1], "cancelled")

CanRefund(e) ==
    /\ matched[e] /\ e[2] \in RefundKinds
    /\ FullyRefunded(e[1], refunds \cup {e})
          => \/ \E p \in periods : p.order = e[1] /\ p.sub \in Subs
             \/ \A p \in periods : p.order # e[1]

HasOutcome(e) ==
    list_received_payment_event_ids(e)
        /\ (CanReject(e) \/ CanIgnore(e) \/ CanPay(e) \/ CanCancel(e) \/ CanRefund(e))

\* Subscriptions are numbered as they begin, and each was begun by an order
\* that is paid.
SubsAreNumbered ==
    \E k \in 0..Cardinality(PaidOrders) :
        \A s \in Subs : sub[s] # "absent" <=> s <= k

\* One of the periods of a subscription is its last.
LastPeriods ==
    \A s \in Subs :
        PeriodsOf(s) # {} =>
            \E p \in PeriodsOf(s) : \A q \in PeriodsOf(s) : q.expires <= p.expires

OutcomeInv == SubsAreNumbered /\ LastPeriods

LEMMA LastPeriodAdded ==
    ASSUME PeriodInv, LastPeriods, NEW o \in Orders, NEW s \in Subs, NEW t \in Nat,
           periods' = periods \cup {NewPeriod(o, s, t)},
           \A p \in periods : p.sub = s => p.expires <= t
    PROVE  LastPeriods'
<1> DEFINE r == NewPeriod(o, s, t)
<1>1. r.sub = s /\ r.expires = t + PeriodDays /\ r.expires \in Nat
  BY TimeAssumption DEF NewPeriod
<1>2. \A p \in periods : p.expires \in Nat
  BY DEF PeriodInv, PeriodTypes, AnyPeriod
<1> HIDE DEF r
<1>3. periods' = periods \cup {r}
  BY DEF r
<1>4. \A p \in periods : p.sub = s => p.expires <= r.expires
  BY <1>1, <1>2, TimeAssumption
<1>5. ASSUME NEW v \in Subs, PeriodsOf(v)' # {}
      PROVE  \E p \in PeriodsOf(v)' : \A q \in PeriodsOf(v)' : q.expires <= p.expires
  <2>1. CASE v = s
    <3>1. r \in PeriodsOf(v)' /\ \A q \in PeriodsOf(v)' : q.expires <= r.expires
      BY <1>1, <1>3, <1>4, <2>1 DEF PeriodsOf
    <3> QED
      BY <3>1
  <2>2. CASE v # s
    <3>1. PeriodsOf(v)' = PeriodsOf(v)
      BY <1>1, <1>3, <2>2 DEF PeriodsOf
    <3> QED
      BY <1>5, <3>1 DEF LastPeriods
  <2> QED
    BY <2>1, <2>2
<1> QED
  BY <1>5 DEF LastPeriods

LEMMA OutcomeOfGrant ==
    ASSUME GrantInv, GrantInv', PeriodInv, OutcomeInv, NEW o \in Orders, Grants(o)
    PROVE  OutcomeInv'
<1>1. PICK s \in Subs, t \in Nat :
          /\ periods' = periods \cup {NewPeriod(o, s, t)}
          /\ \A p \in periods : p.sub = s => p.expires <= t
  BY ActivationAppends DEF Grants
<1>2. LastPeriods'
  BY <1>1, LastPeriodAdded DEF OutcomeInv
<1>3. PaidOrders' = PaidOrders \cup {o} /\ o \notin PaidOrders
  <2>1. NewPeriod(o, s, t).order = o
    BY DEF NewPeriod
  <2>2. \A x \in Orders : order'[x] = "paid" <=> order[x] = "paid" \/ x = o
    BY <1>1, <2>1 DEF GrantInv, PaidExactlyOnce
  <2> QED
    BY <2>2 DEF PaidOrders, Grants, mark_paid
<1>4. Cardinality(PaidOrders') = Cardinality(PaidOrders) + 1
  BY <1>3, PaidOrdersAreFinite, FS_AddElement
<1>5. PICK k \in 0..Cardinality(PaidOrders) : \A x \in Subs : sub[x] # "absent" <=> x <= k
  BY DEF OutcomeInv, SubsAreNumbered
<1>6. CASE UNCHANGED sub
  BY <1>2, <1>4, <1>5, <1>6, PaidOrdersAreFinite DEF OutcomeInv, SubsAreNumbered
<1>7. ASSUME NEW n \in Subs,
             \A x \in Subs : sub[x] # "absent" <=> x < n,
             sub' = [x \in Subs |-> IF x = n THEN "active"
                                    ELSE IF sub[x] = "active" THEN "ended"
                                    ELSE sub[x]]
      PROVE  OutcomeInv'
  <2>1. Subs \subseteq Nat \ {0}
    BY PaidOrdersAreFinite DEF Subs
  <2>2. \A x \in Subs : sub'[x] # "absent" <=> x <= n
    BY <1>7, <2>1
  <2>3. n <= k + 1
    <3>1. CASE n = 1
      BY <1>5, <3>1, PaidOrdersAreFinite
    <3>2. CASE n # 1
      <4>1. n - 1 \in Subs
        BY <3>2, PaidOrdersAreFinite DEF Subs
      <4>2. n - 1 <= k
        BY <1>5, <1>7, <2>1, <4>1
      <4> QED
        BY <1>5, <2>1, <4>2, PaidOrdersAreFinite
    <3> QED
      BY <3>1, <3>2
  <2>4. n \in 0..Cardinality(PaidOrders')
    BY <1>4, <1>5, <2>1, <2>3, PaidOrdersAreFinite
  <2> QED
    BY <1>2, <2>2, <2>4 DEF OutcomeInv, SubsAreNumbered
<1> QED
  BY <1>6, <1>7 DEF Grants, ActivateSubscription

LEMMA OutcomeOfRefund ==
    ASSUME GrantInv, PeriodInv, OutcomeInv, NEW e \in Events, ProcessRefund(e)
    PROVE  OutcomeInv'
<1>1. PaidOrders' = PaidOrders
  BY DEF ProcessRefund, orderVars, PaidOrders
<1>2. CASE UNCHANGED <<sub, periods>>
  BY <1>1, <1>2 DEF OutcomeInv, SubsAreNumbered, LastPeriods, PeriodsOf
<1>3. ASSUME NEW p \in periods, p.sub \in Subs,
             periods' = (periods \ {p}) \cup {[p EXCEPT !.is_paid = FALSE]},
             \A s \in Subs : sub'[s] = sub[s] \/ sub'[s] = "ended",
             \A s \in Subs : sub'[s] # sub[s] => s = p.sub
      PROVE  OutcomeInv'
  <2> DEFINE u == [p EXCEPT !.is_paid = FALSE]
  <2>1. u.sub = p.sub /\ u.expires = p.expires
    BY DEF PeriodInv, PeriodTypes, AnyPeriod
  <2>2. periods' = (periods \ {p}) \cup {u}
    BY <1>3
  <2> HIDE DEF u
  <2>3. \A s \in Subs : sub'[s] # "absent" <=> sub[s] # "absent"
    BY <1>3 DEF PeriodInv, PeriodsHaveSubs
  <2>4. /\ \A q \in periods : \E x \in periods' : x.sub = q.sub /\ x.expires = q.expires
        /\ \A x \in periods' : \E q \in periods : x.sub = q.sub /\ x.expires = q.expires
    BY <2>1, <2>2
  <2>5. ASSUME NEW s \in Subs, PeriodsOf(s)' # {}
        PROVE  \E x \in PeriodsOf(s)' : \A y \in PeriodsOf(s)' : y.expires <= x.expires
    <3>1. PICK q \in PeriodsOf(s) : \A y \in PeriodsOf(s) : y.expires <= q.expires
      BY <2>4, <2>5 DEF OutcomeInv, LastPeriods, PeriodsOf
    <3>2. PICK x \in PeriodsOf(s)' : x.expires = q.expires
      BY <2>4, <3>1 DEF PeriodsOf
    <3>3. \A y \in PeriodsOf(s)' : y.expires <= x.expires
      BY <2>4, <3>1, <3>2 DEF PeriodsOf
    <3> QED
      BY <3>3
  <2>6. SubsAreNumbered'
    BY <1>1, <2>3 DEF OutcomeInv, SubsAreNumbered
  <2> QED
    BY <2>5, <2>6 DEF OutcomeInv, LastPeriods
<1> QED
  BY <1>2, <1>3, RefundOutcomes

LEMMA OutcomeInvariant == Spec => []OutcomeInv
<1>1. ASSUME Init PROVE OutcomeInv
  <2>1. \A s \in Subs : sub[s] # "absent" <=> s <= 0
    BY <1>1, PaidOrdersAreFinite DEF Init, Subs
  <2>2. 0 \in 0..Cardinality(PaidOrders)
    BY PaidOrdersAreFinite
  <2> QED
    BY <1>1, <2>1, <2>2 DEF Init, OutcomeInv, SubsAreNumbered, LastPeriods, PeriodsOf
<1>2. ASSUME GrantInv, GrantInv', PeriodInv, OutcomeInv, [Next]_vars PROVE OutcomeInv'
  <2>1. CASE Keeps
    <3>1. \A s \in Subs : sub'[s] # "absent" <=> sub[s] # "absent"
      BY <1>2, <2>1 DEF Keeps, ExpireSubscription, Lapsed, PeriodInv, ColumnTypes
    <3>2. PaidOrders' = PaidOrders
      BY <1>2, <2>1 DEF Keeps, GrantInv, PaidExactlyOnce, PaidOrders
    <3>3. \A s : PeriodsOf(s)' = PeriodsOf(s)
      BY <2>1 DEF Keeps, PeriodsOf
    <3> QED
      BY <1>2, <3>1, <3>2, <3>3 DEF OutcomeInv, SubsAreNumbered, LastPeriods
  <2> QED
    BY <1>2, <2>1, StepKinds, OutcomeOfGrant, OutcomeOfRefund
<1> QED
  BY <1>1, <1>2, GrantInvariant, PeriodInvariant, PTL DEF Spec

\* While an order is not paid, there is a place for its subscription.
LEMMA UnpaidCanActivate ==
    ASSUME GrantInv, PeriodInv, OutcomeInv, NEW o \in Orders, mark_paid(o)
    PROVE  CanActivate(o)
<1>1. CASE \E s \in Subs : sub[s] = "active" /\ subTariff[s] = tariff[o]
  <2>1. PICK s \in Subs : sub[s] = "active" /\ subTariff[s] = tariff[o]
    BY <1>1
  <2>2. now \in Nat /\ \A p \in periods : p.expires \in Nat
    BY TimeAssumption DEF PeriodInv, ColumnTypes, PeriodTypes, AnyPeriod
  <2>3. \E t \in {now} \cup {p.expires : p \in PeriodsOf(s)} :
            \A u \in {now} \cup {p.expires : p \in PeriodsOf(s)} : u <= t
    <3>1. CASE \A q \in PeriodsOf(s) : q.expires <= now
      BY <2>2, <3>1
    <3>2. CASE \E q \in PeriodsOf(s) : ~(q.expires <= now)
      <4>1. PICK p \in PeriodsOf(s) : \A q \in PeriodsOf(s) : q.expires <= p.expires
        BY <3>2 DEF OutcomeInv, LastPeriods
      <4>2. now <= p.expires
        BY <2>2, <3>2, <4>1 DEF PeriodsOf
      <4>3. p.expires <= p.expires
        BY <2>2 DEF PeriodsOf
      <4> QED
        BY <4>1, <4>2, <4>3
    <3> QED
      BY <3>1, <3>2
  <2>4. ExtensionStart(s) # {}
    BY <2>3 DEF ExtensionStart
  <2> QED
    BY <2>1, <2>4 DEF CanActivate
<1>2. CASE \A s \in Subs : ~(sub[s] = "active" /\ subTariff[s] = tariff[o])
  <2>1. PICK k \in 0..Cardinality(PaidOrders) : \A s \in Subs : sub[s] # "absent" <=> s <= k
    BY DEF OutcomeInv, SubsAreNumbered
  <2>2. Cardinality(PaidOrders) + 1 <= Cardinality(Orders)
    <3>1. o \notin PaidOrders /\ PaidOrders \cup {o} \subseteq Orders
      BY DEF PaidOrders, mark_paid
    <3>2. Cardinality(PaidOrders \cup {o}) = Cardinality(PaidOrders) + 1
      BY <3>1, PaidOrdersAreFinite, FS_AddElement
    <3>3. Cardinality(PaidOrders \cup {o}) <= Cardinality(Orders)
      BY <3>1, OrdersAssumption, FS_Subset
    <3> QED
      BY <3>2, <3>3
  <2>3. k + 1 \in Subs /\ \A s \in Subs : s <= k <=> s < k + 1
    BY <2>1, <2>2, PaidOrdersAreFinite DEF Subs
  <2> QED
    BY <1>2, <2>1, <2>3 DEF CanActivate
<1> QED
  BY <1>1, <1>2

\* Whatever was stored, paid, refunded and replaced before, every event that
\* was received has an outcome: among all the combinations of its order, its
\* attempt and the subscriptions there is none in which each branch of
\* ProcessPayment is closed to it (recover_payment_events, _process_verified).
THEOREM EveryEventHasAnOutcome ==
    Spec => [](\A e \in Events : event[e] = "received" => HasOutcome(e))
<1>1. ASSUME GrantInv, PeriodInv, OutcomeInv, NEW e \in Events, event[e] = "received"
      PROVE  HasOutcome(e)
  <2>1. e[1] \in Orders /\ e[2] \in AllKinds
    BY EventsHaveOrders
  <2>2. mark_paid(e[1]) => CanActivate(e[1])
    BY <1>1, <2>1, UnpaidCanActivate
  <2>3. \A p \in periods : p.sub \in Subs
    BY <1>1 DEF PeriodInv, PeriodTypes, AnyPeriod
  <2>4. CASE e[2] \in PaidKinds
    <3>1. CanReject(e) \/ CanIgnore(e) \/ CanPay(e)
      BY <2>2, <2>4 DEF CanReject, CanIgnore, CanPay
    <3> QED
      BY <1>1, <3>1 DEF HasOutcome, list_received_payment_event_ids
  <2>5. CASE e[2] \in RefundKinds
    <3>1. CanReject(e) \/ CanRefund(e)
      BY <2>3, <2>5 DEF CanReject, CanRefund
    <3> QED
      BY <1>1, <3>1 DEF HasOutcome, list_received_payment_event_ids
  <2>6. CASE e[2] \in {"canceled:cancelled", "waiting_for_capture:authorized"}
    <3>1. CanIgnore(e) \/ CanCancel(e)
      BY <2>6 DEF CanIgnore, CanCancel
    <3> QED
      BY <1>1, <3>1 DEF HasOutcome, list_received_payment_event_ids
  <2> QED
    BY <2>1, <2>4, <2>5, <2>6 DEF AllKinds
<1>2. GrantInv /\ PeriodInv /\ OutcomeInv
        => \A e \in Events : event[e] = "received" => HasOutcome(e)
  BY <1>1
<1> QED
  BY <1>2, GrantInvariant, PeriodInvariant, OutcomeInvariant, PTL

=============================================================================
