----------------------- MODULE InvoiceCreationProofs -----------------------
(***************************************************************************)
(* Proofs about InvoiceCreation, for any number of attempts and invoices.  *)
(***************************************************************************)
EXTENDS InvoiceCreation, TLAPS

\* An attempt has no invoice before its claim is finalized.
InvoiceAfterClaim ==
    \A a \in Attempts : attempt[a] \in {"absent", "created"} => pid[a] = 0

\* A request that holds the order lock and does not take over a claim has
\* seen none, and none can appear before it writes.
NoClaimToTakeOver ==
    request \in {"first", "retry"} => \A a \in Attempts : attempt[a] # "created"

\* The inductive invariant.
ClaimInv == TypeOK /\ OneOpenClaim /\ InvoiceAfterClaim /\ NoClaimToTakeOver

\* The attempts of an order are numbered without a gap, so the latest one
\* that get_latest_attempt returns is well defined.
LEMMA LatestIsLast ==
    ASSUME TypeOK
    PROVE  /\ Latest \in 0..MaxAttempts
           /\ \A a \in Attempts : attempt[a] # "absent" <=> a <= Latest
BY DEF TypeOK, Latest

\* A request that reads the latest attempt under the order lock.
LEMMA ReadStep ==
    ASSUME ClaimInv, Read
    PROVE  ClaimInv'
<1> USE AttemptsAssumption DEF Attempts, ClaimInv
<1>1. TypeOK' /\ OneOpenClaim' /\ InvoiceAfterClaim'
  BY DEF Read, TypeOK, OneOpenClaim, InvoiceAfterClaim, rowVars, callerVars,
         RequestPhase
<1>2. /\ Latest \in 0..MaxAttempts
      /\ \A a \in Attempts : attempt[a] # "absent" <=> a <= Latest
  BY LatestIsLast
<1>3. ASSUME request' \in {"first", "retry"}, NEW a \in Attempts
      PROVE  attempt[a] # "created"
  <2>1. Latest = 0 \/ attempt[Latest] = "failed"
    BY <1>3, <1>2 DEF Read
  <2> QED
    BY <2>1, <1>2 DEF OneOpenClaim
<1> QED
  BY <1>1, <1>3 DEF Read, rowVars, NoClaimToTakeOver

\* A request that writes its claim, over the claim it has read if that one
\* had expired.
LEMMA TakeClaimStep ==
    ASSUME ClaimInv, TakeClaim
    PROVE  ClaimInv'
<1> USE AttemptsAssumption DEF Attempts, ClaimInv
<1> DEFINE n == Latest + 1
<1>1. /\ n \in Attempts
      /\ \A a \in Attempts : attempt[a] # "absent" <=> a < n
  BY LatestIsLast DEF TakeClaim
<1>2. attempt' \in [Attempts -> AttemptStatus]
  BY <1>1 DEF TakeClaim, ReplaceAbandoned, TypeOK, AttemptStatus
<1>3. /\ attempt'[n] = "created"
      /\ \A a \in Attempts : a > n => attempt'[a] = "absent"
  BY <1>1 DEF TakeClaim, ReplaceAbandoned, TypeOK
<1>4. ASSUME NEW a \in Attempts, a < n
      PROVE  attempt'[a] \notin {"absent", "created"}
  <2>1. CASE request = "abandon"
    <3>1. /\ Latest \in Attempts /\ a <= Latest
          /\ attempt[Latest] # "absent"
      BY <1>1, <1>4, LatestIsLast
    <3>2. attempt' = [attempt EXCEPT ![Latest] = "failed", ![n] = "created"]
      BY <2>1 DEF TakeClaim, ReplaceAbandoned
    <3>3. CASE a = Latest
      BY <1>1, <3>1, <3>2, <3>3 DEF TypeOK
    <3>4. CASE a < Latest
      <4>1. attempt'[a] = attempt[a]
        BY <1>1, <3>1, <3>2, <3>4 DEF TypeOK
      <4> QED
        BY <1>1, <1>4, <3>1, <3>4, <4>1 DEF OneOpenClaim
    <3> QED
      BY <3>1, <3>3, <3>4
  <2>2. CASE request \in {"first", "retry"}
    BY <1>1, <1>4, <2>2 DEF TakeClaim, TypeOK, NoClaimToTakeOver
  <2> QED
    BY <2>1, <2>2 DEF TakeClaim, TypeOK, RequestPhase
<1>5. /\ \E m \in 0..MaxAttempts :
            \A a \in Attempts : attempt'[a] # "absent" <=> a <= m
      /\ OneOpenClaim'
  <2>1. \A a \in Attempts : attempt'[a] # "absent" <=> a <= n
    BY <1>1, <1>3, <1>4
  <2>2. OneOpenClaim'
    BY <1>1, <1>3, <1>4 DEF OneOpenClaim
  <2>3. n \in 0..MaxAttempts
    BY <1>1
  <2> HIDE DEF n
  <2> QED
    BY <2>1, <2>2, <2>3
<1>6. InvoiceAfterClaim'
  BY <1>1, <1>3, <1>4 DEF TakeClaim, TypeOK, InvoiceAfterClaim
<1>7. /\ pid' = pid /\ intent' = intent /\ invoices' = invoices
      /\ request' = "none"
      /\ leaseLive' \in [Attempts -> BOOLEAN]
      /\ caller' \in [Attempts -> CallerPhase]
  BY DEF TakeClaim, TypeOK, CallerPhase
<1>8. TypeOK'
  BY <1>2, <1>5, <1>7 DEF TypeOK, RequestPhase
<1> QED
  BY <1>5, <1>6, <1>7, <1>8 DEF NoClaimToTakeOver

\* A caller that ends its claim, and everything that leaves the rows alone.
LEMMA CallerStep ==
    ASSUME ClaimInv, NEW a \in Attempts,
           FinalizeOwnedClaim(a) \/ FailOwnedClaim(a)
    PROVE  ClaimInv'
<1> USE AttemptsAssumption, InvoicesAssumption DEF Attempts, ClaimInv
<1>1. /\ attempt' \in [Attempts -> AttemptStatus]
      /\ \A b \in Attempts :
            \/ attempt'[b] = attempt[b]
            \/ attempt[b] = "created" /\ attempt'[b] \in {"pending", "failed"}
      /\ \A b \in Attempts :
            pid'[b] = pid[b] \/ attempt'[b] = "pending"
  BY DEF FinalizeOwnedClaim, FailOwnedClaim, owns_creation_claim, rowVars,
         TypeOK, AttemptStatus
<1>2. \A b \in Attempts : attempt'[b] = "absent" <=> attempt[b] = "absent"
  BY <1>1
<1>3. OneOpenClaim' /\ InvoiceAfterClaim'
  BY <1>1 DEF OneOpenClaim, InvoiceAfterClaim
<1>4. NoClaimToTakeOver'
  BY <1>1 DEF NoClaimToTakeOver, FinalizeOwnedClaim, FailOwnedClaim
<1>5. /\ pid' \in [Attempts -> 0..MaxInvoices]
      /\ leaseLive' \in [Attempts -> BOOLEAN]
      /\ caller' \in [Attempts -> CallerPhase]
      /\ request' = request /\ intent' = intent /\ invoices' = invoices
  BY DEF FinalizeOwnedClaim, FailOwnedClaim, rowVars, TypeOK, CallerPhase
<1>6. TypeOK'
  BY <1>1, <1>2, <1>5 DEF TypeOK
<1> QED
  BY <1>3, <1>4, <1>6

\* Steps that change neither the status nor the invoice of an attempt.
LEMMA OutsideStep ==
    ASSUME ClaimInv,
           \/ RequestAborts
           \/ \E a \in Attempts :
                 \/ LeaseRunsOut(a) \/ GatewayRefuses(a) \/ CallerStops(a)
                 \/ \E i \in Invoices : GatewayMakesInvoice(a, i)
           \/ UNCHANGED vars
    PROVE  ClaimInv'
<1> USE AttemptsAssumption, InvoicesAssumption DEF Attempts, Invoices, ClaimInv
<1>1. /\ attempt' = attempt /\ pid' = pid
      /\ request' \in {request, "none"}
  BY DEF RequestAborts, LeaseRunsOut, GatewayRefuses, CallerStops,
         GatewayMakesInvoice, rowVars, callerVars, vars
<1> DEFINE Typed == /\ leaseLive' \in [Attempts -> BOOLEAN]
                    /\ caller' \in [Attempts -> CallerPhase]
                    /\ intent' \in [Attempts -> 0..MaxInvoices]
                    /\ invoices' \in 0..MaxInvoices
<1>2. Typed
  <2>1. CASE RequestAborts \/ UNCHANGED vars
    BY <2>1 DEF TypeOK, RequestAborts, rowVars, callerVars, vars
  <2>2. ASSUME NEW a \in Attempts,
               LeaseRunsOut(a) \/ GatewayRefuses(a) \/ CallerStops(a)
        PROVE  Typed
    BY <2>2 DEF TypeOK, CallerPhase, LeaseRunsOut, GatewayRefuses, CallerStops,
                rowVars, callerVars
  <2>3. ASSUME NEW a \in Attempts, NEW i \in Invoices, GatewayMakesInvoice(a, i)
        PROVE  Typed
    <3>1. leaseLive' = leaseLive
      BY <2>3 DEF GatewayMakesInvoice, rowVars
    <3>2. caller' \in [Attempts -> CallerPhase]
      BY <2>3 DEF TypeOK, CallerPhase, GatewayMakesInvoice
    <3>3. i \in 0..MaxInvoices
      OBVIOUS
    <3>4. intent' = intent \/ intent' = [intent EXCEPT ![a] = i]
      BY <2>3 DEF GatewayMakesInvoice
    <3>5. intent' \in [Attempts -> 0..MaxInvoices]
      BY <3>3, <3>4 DEF TypeOK
    <3>6. invoices' \in 0..MaxInvoices
      BY <2>3, <3>3 DEF TypeOK, GatewayMakesInvoice
    <3> QED
      BY <3>1, <3>2, <3>5, <3>6 DEF TypeOK
  <2> QED
    BY <2>1, <2>2, <2>3
<1>3. TypeOK'
  BY <1>1, <1>2 DEF TypeOK, RequestPhase
<1>4. OneOpenClaim' /\ InvoiceAfterClaim' /\ NoClaimToTakeOver'
  BY <1>1 DEF OneOpenClaim, InvoiceAfterClaim, NoClaimToTakeOver
<1> QED
  BY <1>3, <1>4

LEMMA InitClaim == Init => ClaimInv
<1>1. ASSUME Init PROVE TypeOK
  <2>1. \A a \in Attempts : attempt[a] # "absent" <=> a <= 0
    BY <1>1 DEF Init, Attempts
  <2> QED
    BY <1>1, <2>1, AttemptsAssumption, InvoicesAssumption
    DEF Init, TypeOK, AttemptStatus, RequestPhase, CallerPhase
<1> QED
  BY <1>1 DEF Init, ClaimInv, OneOpenClaim, InvoiceAfterClaim, NoClaimToTakeOver

LEMMA NextClaim == ClaimInv /\ [Next]_vars => ClaimInv'
BY ReadStep, TakeClaimStep, CallerStep, OutsideStep DEF Next

\* The invariant is inductive.
LEMMA ClaimInvariant == Spec => []ClaimInv
BY InitClaim, NextClaim, PTL DEF Spec

\* For every number of attempts and invoices, the rows are well formed and an
\* order never has two open creation claims: the lock on the order is enough,
\* although the claim it replaces is read without a lock.
THEOREM OneClaimPerOrder == Spec => [](TypeOK /\ OneOpenClaim)
<1>1. ClaimInv => TypeOK /\ OneOpenClaim
  BY DEF ClaimInv
<1> QED
  BY <1>1, ClaimInvariant, PTL

\* The provider_payment_id of an attempt is written once, and never after a
\* newer attempt exists: a late answer of the gateway cannot be recorded by a
\* caller whose claim was taken over.
THEOREM LateAnswersAreFenced == Spec => LateAnswerIsFenced
<1> DEFINE Fenced ==
        \A a \in Attempts :
            pid'[a] # pid[a] =>
                /\ pid[a] = 0
                /\ \A b \in Attempts : a < b => attempt'[b] = "absent"
<1>1. ASSUME ClaimInv, [Next]_vars
      PROVE  Fenced
  <2>1. ASSUME NEW a \in Attempts, FinalizeOwnedClaim(a)
        PROVE  Fenced
    <3> SUFFICES ASSUME NEW c \in Attempts, pid'[c] # pid[c]
                 PROVE  /\ pid[c] = 0
                        /\ \A b \in Attempts : c < b => attempt'[b] = "absent"
      OBVIOUS
    <3>1. c = a /\ attempt[a] = "created"
      BY <1>1, <2>1 DEF FinalizeOwnedClaim, owns_creation_claim, rowVars, ClaimInv,
                         TypeOK
    <3>2. \A b \in Attempts : b # a => attempt'[b] = attempt[b]
      BY <1>1, <2>1 DEF FinalizeOwnedClaim, rowVars, ClaimInv, TypeOK
    <3> QED
      BY <3>1, <3>2, <1>1, AttemptsAssumption
      DEF ClaimInv, OneOpenClaim, InvoiceAfterClaim, Attempts
  <2>2. CASE pid' = pid
    BY <2>2
  <2>3. \/ \E a \in Attempts : FinalizeOwnedClaim(a)
        \/ pid' = pid
    BY <1>1 DEF Next, vars, rowVars, Read, TakeClaim, RequestAborts, LeaseRunsOut,
       GatewayMakesInvoice, GatewayRefuses, CallerStops, FailOwnedClaim
  <2> QED
    BY <2>1, <2>2, <2>3
<1>2. ClaimInv /\ [Next]_vars => [Fenced]_vars
  BY <1>1
<1> QED
  BY <1>2, ClaimInvariant, PTL DEF Spec, LateAnswerIsFenced

-----------------------------------------------------------------------------
(* The claim of an order is a lease.                                       *)

\* What a request has seen of the lease stays true until it writes.
NoLiveClaimToTake ==
    request # "none" => \A a \in Attempts : attempt[a] = "created" => ~leaseLive[a]

\* Nobody works for an attempt that has not been made.
FreshAttempts ==
    \A a \in Attempts : attempt[a] = "absent" => caller[a] = "none"

LeaseInv == ClaimInv /\ NoLiveClaimToTake /\ FreshAttempts

\* The owner of the lease, its time, and who works under it or once did.
Owner  == IF OpenClaims = {} THEN 0 ELSE CHOOSE a \in OpenClaims : TRUE
Live   == \E a \in OpenClaims : leaseLive[a]
AtWork == {a \in Attempts : caller[a] \in {"calling", "answered", "refused"}}

LEMMA OwnerIsOpen ==
    ASSUME ClaimInv
    PROVE  /\ \A a \in Attempts : attempt[a] = "created" => Owner = a
           /\ (\A a \in Attempts : attempt[a] # "created") => Owner = 0
<1> USE AttemptsAssumption
<1>1. ASSUME NEW a \in Attempts, attempt[a] = "created"
      PROVE  Owner = a
  <2>1. OpenClaims = {a}
    BY <1>1 DEF ClaimInv, OneOpenClaim, OpenClaims, Attempts
  <2> QED BY <2>1 DEF Owner
<1>2. (\A a \in Attempts : attempt[a] # "created") => Owner = 0
  BY DEF OpenClaims, Owner
<1> QED BY <1>1, <1>2

LEMMA NextLeaseInv ==
    ASSUME LeaseInv, [Next]_vars
    PROVE  LeaseInv'
<1> USE AttemptsAssumption DEF LeaseInv
<1>1. ClaimInv'
  BY NextClaim
<1>2. CASE Read
  <2>1. /\ Latest \in 0..MaxAttempts
        /\ \A a \in Attempts : attempt[a] # "absent" <=> a <= Latest
    BY LatestIsLast DEF ClaimInv
  <2>2. ASSUME request' # "none", NEW a \in Attempts, attempt[a] = "created"
        PROVE  ~leaseLive[a]
    <3>1. a = Latest
      BY <2>1, <2>2 DEF ClaimInv, OneOpenClaim, Attempts
    <3> QED BY <1>2, <2>1, <2>2, <3>1 DEF Read, creation_claim_is_active, Attempts
  <2> QED
    BY <1>1, <1>2, <2>2
       DEF Read, rowVars, callerVars, NoLiveClaimToTake, FreshAttempts
<1>3. CASE TakeClaim
  <2>1. /\ Latest \in 0..MaxAttempts
        /\ \A a \in Attempts : attempt[a] # "absent" <=> a <= Latest
    BY LatestIsLast DEF ClaimInv
  <2>2. /\ \A a \in Attempts : attempt'[a] = "absent" => attempt[a] = "absent"
        /\ Latest + 1 \in Attempts /\ attempt'[Latest + 1] = "created"
    BY <1>3, <2>1 DEF TakeClaim, ReplaceAbandoned, ClaimInv, TypeOK, Attempts
  <2>3. \A a \in Attempts : a # Latest + 1 => caller'[a] = caller[a]
    BY <1>3 DEF TakeClaim, ClaimInv, TypeOK
  <2> QED
    BY <1>1, <1>3, <2>2, <2>3 DEF TakeClaim, NoLiveClaimToTake, FreshAttempts
<1>4. ASSUME NEW a \in Attempts, FinalizeOwnedClaim(a) \/ FailOwnedClaim(a)
      PROVE  LeaseInv'
  <2>1. /\ request' = request
        /\ \A b \in Attempts :
              /\ attempt'[b] = "created" =>
                    attempt[b] = "created" /\ (leaseLive'[b] => leaseLive[b])
              /\ attempt'[b] = "absent" => attempt[b] = "absent" /\ caller'[b] = caller[b]
    BY <1>4 DEF FinalizeOwnedClaim, FailOwnedClaim, owns_creation_claim, rowVars,
           LeaseInv, FreshAttempts, ClaimInv, TypeOK
  <2> QED BY <1>1, <2>1 DEF NoLiveClaimToTake, FreshAttempts
<1>5. CASE \/ RequestAborts
           \/ \E a \in Attempts :
                 \/ LeaseRunsOut(a) \/ GatewayRefuses(a) \/ CallerStops(a)
                 \/ \E i \in Invoices : GatewayMakesInvoice(a, i)
           \/ UNCHANGED vars
  <2>1. /\ attempt' = attempt /\ request' \in {request, "none"}
        /\ \A b \in Attempts :
              /\ leaseLive'[b] => leaseLive[b]
              /\ caller[b] = "none" => caller'[b] = "none"
    BY <1>5 DEF RequestAborts, LeaseRunsOut, GatewayRefuses, CallerStops,
           GatewayMakesInvoice, rowVars, callerVars, vars, ClaimInv, TypeOK
  <2> QED BY <1>1, <2>1 DEF NoLiveClaimToTake, FreshAttempts
<1> QED
  BY <1>2, <1>3, <1>4, <1>5 DEF Next

LEMMA StepIsLeased ==
    ASSUME LeaseInv, LeaseInv', [Next]_vars
    PROVE  Claim!Next \/ UNCHANGED Claim!vars
<1> USE AttemptsAssumption DEF LeaseInv
<1>1. ASSUME UNCHANGED <<attempt, leaseLive>>, AtWork' = AtWork
      PROVE  Owner' = Owner /\ Live' = Live
  BY <1>1 DEF OpenClaims, Owner, Live
<1>2. ASSUME NEW a \in Attempts, caller[a] \in {"calling", "answered", "refused"},
             caller' = [caller EXCEPT ![a] = "done"]
      PROVE  a \in AtWork /\ AtWork' = AtWork \ {a}
  BY <1>2 DEF AtWork, ClaimInv, TypeOK
<1>3. ASSUME NEW a \in Attempts, a \in AtWork, AtWork' = AtWork \ {a},
             UNCHANGED <<attempt, leaseLive>>
      PROVE  Claim!Next
  <2>1. Owner' = Owner /\ Live' = Live
    BY <1>3 DEF OpenClaims, Owner, Live
  <2> QED BY <1>3, <2>1 DEF Owner, Live, AtWork, Claim!Next, Claim!Leave
\* A caller that ends its own claim.
<1>4. ASSUME NEW a \in Attempts, attempt[a] = "created",
             a \in AtWork, AtWork' = AtWork \ {a},
             \A b \in Attempts : attempt'[b] = "created" => b # a /\ attempt[b] = "created"
      PROVE  Claim!Next
  <2>1. Owner = a
    BY <1>4, OwnerIsOpen
  <2>2. \A b \in Attempts : attempt'[b] # "created"
    BY <1>4 DEF ClaimInv, OneOpenClaim, Attempts
  <2>3. Owner' = 0
    BY <2>2 DEF OpenClaims, Owner
  <2> QED BY <1>4, <2>1, <2>3 DEF Owner, Live, AtWork, Claim!Next, Claim!Release
<1>5. CASE TakeClaim
  <2> DEFINE n == Latest + 1
  <2>1. /\ Latest \in 0..MaxAttempts
        /\ \A a \in Attempts : attempt[a] # "absent" <=> a <= Latest
    BY LatestIsLast DEF ClaimInv
  <2>2. /\ n \in Attempts /\ attempt'[n] = "created"
        /\ caller' = [caller EXCEPT ![n] = "calling"]
        /\ leaseLive'[n] = TRUE
        /\ request # "none"
    BY <1>5, <2>1 DEF TakeClaim, ReplaceAbandoned, ClaimInv, TypeOK, Attempts
  <2>3. n \notin AtWork
    BY <2>1, <2>2 DEF FreshAttempts, AtWork, Attempts
  <2>4. AtWork' = AtWork \cup {n}
    BY <2>2 DEF AtWork, ClaimInv, TypeOK
  <2>5. ~Live
    BY <2>2 DEF Live, OpenClaims, NoLiveClaimToTake
  <2> HIDE DEF n
  <2>6. OpenClaims' = {n}
    BY <2>2 DEF ClaimInv, OneOpenClaim, OpenClaims, Attempts
  <2>7. Owner' = n
    BY <2>6 DEF Owner
  <2>8. Live' = TRUE
    BY <2>2, <2>6 DEF Live
  <2>9. n # 0 /\ n # -1
    BY <2>2 DEF Attempts
  <2> QED
    BY <2>3, <2>4, <2>5, <2>7, <2>8, <2>9
       DEF Owner, Live, AtWork, Claim!Next, Claim!Acquire
<1>6. ASSUME NEW a \in Attempts, LeaseRunsOut(a)
      PROVE  Claim!Next
  <2>1. attempt' = attempt /\ AtWork' = AtWork /\ Owner' = Owner
    BY <1>6 DEF LeaseRunsOut, callerVars, AtWork, Owner, OpenClaims
  <2>2. \A b \in Attempts : attempt[b] = "created" => b = a
    BY <1>6 DEF LeaseRunsOut, creation_claim_is_active, ClaimInv, OneOpenClaim, Attempts
  <2>3. Live' = FALSE
    BY <1>6, <2>1, <2>2 DEF LeaseRunsOut, Live, OpenClaims, ClaimInv, TypeOK
  <2> QED BY <2>1, <2>3 DEF Owner, Live, AtWork, Claim!Next, Claim!Expire
<1>7. CASE \/ Read \/ RequestAborts \/ UNCHANGED vars
           \/ \E a \in Attempts :
                 GatewayRefuses(a) \/ \E i \in Invoices : GatewayMakesInvoice(a, i)
  <2>1. UNCHANGED <<attempt, leaseLive>>
    BY <1>7 DEF Read, RequestAborts, GatewayRefuses, GatewayMakesInvoice, rowVars, vars
  <2>2. AtWork' = AtWork
    BY <1>7 DEF Read, RequestAborts, GatewayRefuses, GatewayMakesInvoice, callerVars,
       vars, AtWork, ClaimInv, TypeOK
  <2>3. Owner' = Owner /\ Live' = Live
    BY <1>1, <2>1, <2>2
  <2> QED BY <2>2, <2>3 DEF Owner, Live, AtWork, Claim!vars
<1>8. ASSUME NEW a \in Attempts, CallerStops(a)
      PROVE  Claim!Next
  BY <1>2, <1>3, <1>8 DEF CallerStops, rowVars
<1>9. ASSUME NEW a \in Attempts, FinalizeOwnedClaim(a) \/ FailOwnedClaim(a)
      PROVE  Claim!Next
  <2>1. a \in AtWork /\ AtWork' = AtWork \ {a}
    BY <1>2, <1>9 DEF FinalizeOwnedClaim, FailOwnedClaim
  <2>2. CASE UNCHANGED <<attempt, leaseLive>>
    BY <1>3, <2>1, <2>2
  <2>3. CASE ~UNCHANGED <<attempt, leaseLive>>
    <3>1. /\ attempt[a] = "created"
          /\ \A b \in Attempts :
                attempt'[b] = "created" => b # a /\ attempt[b] = "created"
      BY <1>9, <2>3 DEF FinalizeOwnedClaim, FailOwnedClaim, owns_creation_claim,
         rowVars, ClaimInv, TypeOK
    <3> QED BY <1>4, <2>1, <3>1
  <2> QED BY <2>2, <2>3
<1> QED
  BY <1>5, <1>6, <1>7, <1>8, <1>9 DEF Next

\* For every number of attempts, the creation claim of an order is a lease:
\* no request takes it from a caller whose lease runs, although it reads the
\* claim in one step and writes in another, and a claim is ended by its own
\* caller or after its lease, however late the gateway answers.
THEOREM ClaimIsLease == Spec => ImplementsLease
<1>1. Init => LeaseInv /\ Claim!Init
  <2>2. Init => Owner = 0 /\ AtWork = {}
    BY DEF Init, Owner, OpenClaims, AtWork
  <2> QED
    BY <2>2, InitClaim DEF Init, LeaseInv, NoLiveClaimToTake, FreshAttempts, Claim!Init,
       Owner, AtWork
<1>2. LeaseInv /\ LeaseInv' /\ [Next]_vars => [Claim!Next]_(Claim!vars)
  BY StepIsLeased
<1> QED
  BY <1>1, <1>2, NextLeaseInv, PTL DEF Spec, ImplementsLease, Claim!Spec

=============================================================================
