---------------------------- MODULE MCSettlement ----------------------------
\* Model values for Settlement, and what the provider reports of the orders.
EXTENDS Settlement, TLC

CONSTANTS o1, o2, t1, t2

\* Any notification of one order; the other is paid.
AllReports == ({o1} \X AllKinds) \cup {<<o2, "succeeded:paid">>}

\* Nothing is reported of an invoice of o2 that is not paid, so its other ends
\* say no more than a pending one; payments before the identifier are for o1.
OtherIsPaid ==
    /\ invoice[o2] \in {"absent", "pending", "paid"}
    /\ invoice[o2] = "paid" => attempt[o2] # "created"

RefundReports == {o1} \X {"succeeded:paid", "refund:1"}

Symmetry == Permutations({t1, t2})
=============================================================================
