-------------------------- MODULE InvoiceCreation --------------------------
(***************************************************************************)
(* CreatePayment (application/use_cases/create_payment.py) for one order:  *)
(* requests with the same idempotency key race for the leased claim (a     *)
(* payment attempt in status "created") that allows one invoice to be      *)
(* made at the provider.                                                   *)
(*                                                                         *)
(* A claim is made in a transaction that locks the order, but reads the    *)
(* latest attempt without a lock and writes it later (Read, then           *)
(* TakeClaim).  It is finalized in a transaction that locks the attempt    *)
(* only.  PostgreSQL runs both in READ COMMITTED, so a finalization may    *)
(* commit between the read and the write.                                  *)
(***************************************************************************)
EXTENDS Integers

CONSTANTS
    MaxAttempts,    \* bound: payment attempts of the order
    MaxInvoices     \* bound: invoices the provider makes for the order

ASSUME AttemptsAssumption == MaxAttempts \in Nat \ {0}
ASSUME InvoicesAssumption == MaxInvoices \in Nat \ {0}

VARIABLES
    attempt,    \* payment_attempts.status, by attempt
    pid,        \* payment_attempts.provider_payment_id, 0 for NULL
    leaseLive,  \* creation_lease_expires_at lies ahead
    request,    \* the transaction that holds the lock of the order
    caller,     \* the process that owns the claim of an attempt
    intent,     \* the invoice the gateway returned to that process
    invoices    \* how many invoices the provider has made

rowVars    == <<attempt, pid, leaseLive>>
callerVars == <<caller, intent>>
vars       == <<rowVars, request, callerVars, invoices>>

Attempts == 1..MaxAttempts
Invoices == 1..MaxInvoices

\* "pending" stands for every status after finalize_creation.
AttemptStatus == {"absent", "created", "pending", "failed"}
CallerPhase   == {"none", "calling", "answered", "refused", "done"}
RequestPhase  == {"none", "first", "abandon", "retry"}

\* The latest attempt, 0 when the order has none.
Latest == CHOOSE n \in 0..MaxAttempts :
              \A a \in Attempts : attempt[a] # "absent" <=> a <= n

Init ==
    /\ attempt = [a \in Attempts |-> "absent"]
    /\ pid = [a \in Attempts |-> 0]
    /\ leaseLive = [a \in Attempts |-> FALSE]
    /\ request = "none"
    /\ caller = [a \in Attempts |-> "none"]
    /\ intent = [a \in Attempts |-> 0]
    /\ invoices = 0

-----------------------------------------------------------------------------
(* _prepare_order                                                          *)

\* Mutant: an open claim counts as abandoned, whether its lease runs or not.
NeverActive(a) == FALSE

creation_claim_is_active(a) == attempt[a] = "created" /\ leaseLive[a]

\* The order is locked and its latest attempt read.  A request that finds an
\* active claim, or an attempt with an invoice, answers with that attempt.
Read ==
    /\ request = "none"
    /\ request' =
          IF Latest = 0 THEN "first"
          ELSE IF attempt[Latest] = "created" /\ ~creation_claim_is_active(Latest)
               THEN "abandon"
               ELSE IF attempt[Latest] = "failed" /\ pid[Latest] = 0
                    THEN "retry"
                    ELSE "none"
    /\ UNCHANGED <<rowVars, callerVars, invoices>>

\* Mutant: the abandoned claim stays open.
KeepAbandoned(a) == [attempt EXCEPT ![a + 1] = "created"]

\* fail_creation and save_attempt_entity on the row that was read, whatever
\* it is now (provider_payment_id is not written when it is None), and the
\* new claim.
ReplaceAbandoned(a) == [attempt EXCEPT ![a] = "failed", ![a + 1] = "created"]

TakeClaim ==
    /\ request # "none"
    /\ Latest < MaxAttempts
    /\ attempt' = IF request = "abandon"
                  THEN ReplaceAbandoned(Latest)
                  ELSE [attempt EXCEPT ![Latest + 1] = "created"]
    /\ leaseLive' = [a \in Attempts |-> \/ a = Latest + 1
                                        \/ leaseLive[a] /\ request # "abandon"]
    /\ caller' = [caller EXCEPT ![Latest + 1] = "calling"]
    /\ request' = "none"
    /\ UNCHANGED <<pid, intent, invoices>>

\* The process stops, or the transaction fails, before it commits.
RequestAborts ==
    /\ request # "none"
    /\ request' = "none"
    /\ UNCHANGED <<rowVars, callerVars, invoices>>

\* The lease of the claim runs out; its owner may still be at work.
LeaseRunsOut(a) ==
    /\ creation_claim_is_active(a)
    /\ leaseLive' = [leaseLive EXCEPT ![a] = FALSE]
    /\ UNCHANGED <<attempt, pid, request, callerVars, invoices>>

-----------------------------------------------------------------------------
(* The gateway call, outside every transaction.                            *)

\* The provider makes an invoice, or returns the one it made for the same
\* Idempotence-Key; its answer may be lost.
GatewayMakesInvoice(a, i) ==
    /\ caller[a] = "calling"
    /\ i <= invoices + 1
    /\ invoices' = IF i > invoices THEN i ELSE invoices
    /\ \/ /\ caller' = [caller EXCEPT ![a] = "answered"]
          /\ intent' = [intent EXCEPT ![a] = i]
       \/ /\ caller' = [caller EXCEPT ![a] = "refused"]
          /\ UNCHANGED intent
    /\ UNCHANGED <<rowVars, request>>

GatewayRefuses(a) ==
    /\ caller[a] = "calling"
    /\ caller' = [caller EXCEPT ![a] = "refused"]
    /\ UNCHANGED <<rowVars, request, intent, invoices>>

\* The process stops, or the status of the intent is no PaymentStatus: the
\* claim is left to its lease.
CallerStops(a) ==
    /\ caller[a] \in {"calling", "answered", "refused"}
    /\ caller' = [caller EXCEPT ![a] = "done"]
    /\ UNCHANGED <<rowVars, request, intent, invoices>>

-----------------------------------------------------------------------------
(* _finalize_owned_claim and _fail_owned_claim                             *)

\* Mutant: the token is compared with an attempt whose claim is gone.
OwnsEndedClaim(a) == attempt[a] \in {"created", "failed"}

\* The token is written once, with the attempt, and cleared with its status.
\* The lease is not consulted.
owns_creation_claim(a) == attempt[a] = "created"

\* uq_payment_attempts_provider_payment_id
PidIsFree(i) == \A b \in Attempts : pid[b] # i

FinalizeOwnedClaim(a) ==
    /\ caller[a] = "answered"
    /\ caller' = [caller EXCEPT ![a] = "done"]
    /\ \/ /\ owns_creation_claim(a) /\ PidIsFree(intent[a])
          /\ attempt' = [attempt EXCEPT ![a] = "pending"]
          /\ pid' = [pid EXCEPT ![a] = intent[a]]
          /\ leaseLive' = [leaseLive EXCEPT ![a] = FALSE]
       \/ /\ ~(owns_creation_claim(a) /\ PidIsFree(intent[a]))
          /\ UNCHANGED rowVars
    /\ UNCHANGED <<request, intent, invoices>>

FailOwnedClaim(a) ==
    /\ caller[a] = "refused"
    /\ caller' = [caller EXCEPT ![a] = "done"]
    /\ \/ /\ owns_creation_claim(a)
          /\ attempt' = [attempt EXCEPT ![a] = "failed"]
          /\ leaseLive' = [leaseLive EXCEPT ![a] = FALSE]
       \/ /\ ~owns_creation_claim(a)
          /\ UNCHANGED <<attempt, leaseLive>>
    /\ UNCHANGED <<pid, request, intent, invoices>>

-----------------------------------------------------------------------------

Next ==
    \/ Read \/ TakeClaim \/ RequestAborts
    \/ \E a \in Attempts :
          \/ LeaseRunsOut(a)
          \/ \E i \in Invoices : GatewayMakesInvoice(a, i)
          \/ GatewayRefuses(a) \/ CallerStops(a)
          \/ FinalizeOwnedClaim(a) \/ FailOwnedClaim(a)

Spec == Init /\ [][Next]_vars

-----------------------------------------------------------------------------
(* Properties                                                              *)

\* The rows of payment_attempts, numbered without a gap, and the processes
\* that work for them.
TypeOK ==
    /\ attempt \in [Attempts -> AttemptStatus]
    /\ pid \in [Attempts -> 0..MaxInvoices]
    /\ leaseLive \in [Attempts -> BOOLEAN]
    /\ request \in RequestPhase
    /\ caller \in [Attempts -> CallerPhase]
    /\ intent \in [Attempts -> 0..MaxInvoices]
    /\ invoices \in 0..MaxInvoices
    /\ \E n \in 0..MaxAttempts :
          \A a \in Attempts : attempt[a] # "absent" <=> a <= n

\* Only the latest attempt can be an open claim, so an order never has two:
\* taking over an expired claim closes it in the same transaction.  The
\* order lock is enough for this; the partial unique index on status
\* 'created' is never what saves it.
OneOpenClaim ==
    \A a, b \in Attempts : attempt[a] = "created" /\ a < b => attempt[b] = "absent"

\* An invoice made by a superseded caller is never written to its attempt:
\* provider_payment_id changes once, from NULL, and only while the attempt is
\* the latest of its order, however late the gateway answers.
LateAnswerIsFenced ==
    [][\A a \in Attempts :
          pid'[a] # pid[a] =>
              /\ pid[a] = 0
              /\ \A b \in Attempts : a < b => attempt'[b] = "absent"]_vars

OpenClaims == {a \in Attempts : attempt[a] = "created"}

\* The claim of the order as a lease: the token of its open attempt, and the
\* processes that have one.
Claim == INSTANCE Lease WITH
    Nobody <- 0,
    Lost   <- -1,
    owner  <- IF OpenClaims = {} THEN 0 ELSE CHOOSE a \in OpenClaims : TRUE,
    live   <- \E a \in OpenClaims : leaseLive[a],
    atWork <- {a \in Attempts : caller[a] \in {"calling", "answered", "refused"}}

\* Spec implements Lease: whatever a request has read before it writes, it
\* takes no claim from a caller whose lease runs, and a claim is ended by its
\* own caller or after its lease.
ImplementsLease == Claim!Spec

\* "stale creation claim can be reclaimed and old token is fenced": either
\* the old caller finalizes its claim or a new request takes it over, never
\* both, so at most one attempt of the order carries an invoice and no failed
\* attempt does.
ReclaimOrFinalize ==
    \A a \in Attempts : attempt[a] = "failed" => pid[a] = 0

=============================================================================
