------------------------- MODULE NodeJournalProofs -------------------------
(***************************************************************************)
(* What the journal of the node agent guarantees for every number of keys  *)
(* and requests: a success that was answered stays recorded, a handler     *)
(* keeps its row when its lease has room for its requests, and a completed *)
(* provision is on the node when leases have room for three.               *)
(***************************************************************************)
EXTENDS NodeJournal, TLAPS

LEMMA ConstantsOK ==
    1 \in Keys /\ NoOwner \notin Requests
  BY MaxKeysAssumption, MaxRequestsAssumption DEF Keys, Requests, NoOwner

\* Every transaction writes only values of the columns' types, and a row has
\* an owner exactly while it is in progress.
THEOREM TypeCorrect == Spec => []TypeOK
<1>1. Init => TypeOK
  <2> SUFFICES ASSUME Init PROVE TypeOK
    OBVIOUS
  <2>2. /\ owner \in [Keys -> Requests \cup {NoOwner}]
        /\ \A k \in Keys : owner[k] # NoOwner <=> journal[k] = "in_progress"
    BY DEF Init
  <2>3. key \in [Requests -> Keys]
    BY ConstantsOK, Zenon DEF Init
  <2> QED
    BY <2>2, <2>3 DEF Init, TypeOK, RowStatus, Phase, TaskStatus,
                            Retirement
<1>2. TypeOK /\ [Next]_vars => TypeOK'
  <2> SUFFICES ASSUME TypeOK, [Next]_vars PROVE TypeOK'
    OBVIOUS
  <2> USE ConstantsOK DEF TypeOK
  <2>1. ASSUME NEW r \in Requests, NEW k \in Keys, Send(r, k)
        PROVE  TypeOK'
    BY <2>1 DEF Send, rowVars, panelVars, Phase
  <2>2. ASSUME NEW r \in Requests, RequestRefused(r)
        PROVE  TypeOK'
    BY <2>2 DEF RequestRefused, rowVars, panelVars, Phase
  <2>3. ASSUME NEW r \in Requests, Claim(r)
        PROVE  TypeOK'
    <3>1. key[r] \in Keys
      OBVIOUS
    <3>2. ASSUME NEW again \in BOOLEAN, TakeRow(r, again)
          PROVE  TypeOK'
      BY <3>1, <3>2 DEF TakeRow, FirstPhase, panelVars, Phase,
                        Executing, RowStatus
    <3>3. CASE ClaimNew(r)
      BY <3>1, <3>2, <3>3 DEF ClaimNew
    <3>4. CASE Reclaim(r)
      BY <3>2, <3>4 DEF Reclaim
    <3>5. CASE ClaimInProgress(r) \/ ClaimReplay(r)
      BY <3>5 DEF ClaimInProgress, ClaimReplay, rowVars, panelVars, Phase
    <3> QED  BY <2>3, <3>3, <3>4, <3>5 DEF Claim
  <2>4. ASSUME NEW r \in Requests, Execute(r)
        PROVE  TypeOK'
    <3>1. CASE Cleanup(r) \/ Apply(r) \/ RuntimeFails(r)
      <4>1. client' \in BOOLEAN
        BY <3>1, Zenon DEF Cleanup, Apply, RuntimeFails
      <4>2. /\ phase' \in [Requests -> Phase]
            /\ UNCHANGED <<rowVars, key, reclaimed, panelVars>>
        BY <3>1 DEF Cleanup, Apply, RuntimeFails, Phase, Executing
      <4> QED  BY <4>1, <4>2 DEF rowVars, panelVars
    <3>2. CASE Complete(r) \/ MarkRetryable(r)
      <4>1. key[r] \in Keys
        OBVIOUS
      <4>2. /\ phase' \in [Requests -> Phase]
            /\ UNCHANGED <<key, reclaimed, client, panelVars>>
        BY <3>2 DEF Complete, MarkRetryable, Phase
      <4>3. CASE UNCHANGED rowVars
        BY <4>2, <4>3 DEF rowVars, panelVars
      <4>4. ASSUME NEW s \in {"completed", "retryable"}, Release(r, s)
            PROVE  TypeOK'
        BY <4>1, <4>2, <4>4 DEF Release, panelVars, RowStatus
      <4> QED  BY <3>2, <4>3, <4>4 DEF Complete, MarkRetryable
    <3>3. CASE CompleteFails(r) \/ HandlerStops(r)
      BY <3>3 DEF CompleteFails, HandlerStops, rowVars,
                  panelVars, Phase, Executing
    <3> QED  BY <2>4, <3>1, <3>2, <3>3 DEF Execute
  <2>5. ASSUME NEW k \in Keys, TaskSucceeds(k) \/ TaskFails(k)
        PROVE  TypeOK'
    BY <2>5 DEF TaskSucceeds, TaskFails, rowVars, TaskStatus
  <2>6. ASSUME NEW k \in Keys, LeaseRunsOut(k)
        PROVE  TypeOK'
    BY <2>6 DEF LeaseRunsOut, panelVars
  <2>7. ASSUME NEW k \in Keys, Retire(k)
        PROVE  TypeOK'
    <3>1. CASE RetireJournal(k)
      BY <3>1 DEF RetireJournal, Erasable, Retirement, RowStatus
    <3>2. CASE RetireStops(k)
      BY <3>2 DEF RetireStops, rowVars, Retirement
    <3>3. CASE mark_task_journal_retired(k)
      <4>1. retired' \in [Keys -> BOOLEAN]
        BY <3>3 DEF mark_task_journal_retired
      <4>2. /\ retiring' \in [Keys -> Retirement]
            /\ UNCHANGED <<rowVars, key, phase, reclaimed, client,
                           task>>
        BY <3>3 DEF mark_task_journal_retired, Retirement
      <4> QED  BY <4>1, <4>2 DEF rowVars
    <3> QED  BY <2>7, <3>1, <3>2, <3>3 DEF Retire
  <2>8. CASE LoadCandidates
    BY <2>8 DEF LoadCandidates, rowVars, Retirement
  <2>9. CASE UNCHANGED vars
    BY <2>9 DEF vars, rowVars, panelVars
  <2> QED  BY <2>1, <2>2, <2>3, <2>4, <2>5, <2>6, <2>7, <2>8, <2>9 DEF Next
<1> QED  BY <1>1, <1>2, PTL DEF Spec

-----------------------------------------------------------------------------
(* A success that was answered stays recorded.                             *)

\* Only terminal tasks are being retired.
RetiringIsTerminal ==
    \A k \in Keys : retiring[k] # "idle" => task[k] # "open"

RecordInv == RetiringIsTerminal /\ AnsweredIsRecorded

\* As long as its task is open, an operation whose success was answered is
\* completed in the journal, so that every repetition is replayed.
THEOREM SuccessStaysRecorded == Spec => []AnsweredIsRecorded
<1>1. Init => RecordInv
  BY DEF Init, RecordInv, RetiringIsTerminal, AnsweredIsRecorded
<1>2. TypeOK /\ RecordInv /\ [Next]_vars => RecordInv'
  <2> SUFFICES ASSUME TypeOK, RecordInv, [Next]_vars PROVE RecordInv'
    OBVIOUS
  <2> USE ConstantsOK DEF TypeOK, RecordInv, RetiringIsTerminal, AnsweredIsRecorded
  <2>1. ASSUME NEW r \in Requests, NEW k \in Keys, Send(r, k)
        PROVE  RecordInv'
    BY <2>1 DEF Send, rowVars, panelVars
  <2>2. ASSUME NEW r \in Requests, RequestRefused(r)
        PROVE  RecordInv'
    BY <2>2 DEF RequestRefused, rowVars, panelVars
  <2>3. ASSUME NEW r \in Requests, Claim(r)
        PROVE  RecordInv'
    <3>1. CASE ClaimNew(r) \/ Reclaim(r)
      BY <3>1 DEF ClaimNew, Reclaim, TakeRow, FirstPhase,
                  panelVars
    <3>2. CASE ClaimInProgress(r) \/ ClaimReplay(r)
      BY <3>2 DEF ClaimInProgress, ClaimReplay, rowVars, panelVars
    <3> QED  BY <2>3, <3>1, <3>2 DEF Claim
  <2>4. ASSUME NEW r \in Requests, Execute(r)
        PROVE  RecordInv'
    <3>1. CASE Cleanup(r) \/ Apply(r) \/ RuntimeFails(r)
      BY <3>1 DEF Cleanup, Apply, RuntimeFails, rowVars,
                  panelVars
    <3>2. CASE Complete(r)
      BY <3>2 DEF Complete, OwnsRow, Release, rowVars, panelVars
    <3>3. CASE MarkRetryable(r)
      BY <3>3 DEF MarkRetryable, OwnsRow, Release, rowVars,
                  panelVars
    <3>4. CASE CompleteFails(r) \/ HandlerStops(r)
      BY <3>4 DEF CompleteFails, HandlerStops, rowVars, panelVars
    <3> QED  BY <2>4, <3>1, <3>2, <3>3, <3>4 DEF Execute
  <2>5. ASSUME NEW k \in Keys, TaskSucceeds(k) \/ TaskFails(k)
        PROVE  RecordInv'
    BY <2>5 DEF TaskSucceeds, TaskFails, rowVars
  <2>6. ASSUME NEW k \in Keys, LeaseRunsOut(k)
        PROVE  RecordInv'
    BY <2>6 DEF LeaseRunsOut, panelVars
  <2>7. ASSUME NEW k \in Keys, Retire(k)
        PROVE  RecordInv'
    BY <2>7 DEF Retire, RetireJournal, RetireStops, Erasable,
                mark_task_journal_retired, rowVars
  <2>8. CASE LoadCandidates
    BY <2>8 DEF LoadCandidates, Candidates, TerminalUnretired, rowVars
  <2>9. CASE UNCHANGED vars
    BY <2>9 DEF vars, rowVars, panelVars
  <2> QED  BY <2>1, <2>2, <2>3, <2>4, <2>5, <2>6, <2>7, <2>8, <2>9 DEF Next
<1>3. RecordInv => AnsweredIsRecorded
  BY DEF RecordInv
<1> QED  BY <1>1, <1>2, <1>3, TypeCorrect, PTL DEF Spec

-----------------------------------------------------------------------------
(* A handler keeps its row.                                                *)

\* The handlers whose lease cannot run out under them when a lease has room
\* for n requests: all of them if n >= 5, and if n >= 3 all but the ones that
\* are past the cleanup of a reclaimed provision.
Protected(r) ==
    /\ phase[r] \in Executing
    /\ \/ LeaseRequests >= 5
       \/ Operation(key[r]) = "revoke" \/ ~reclaimed[r] \/ phase[r] = "cleanup"

\* A protected handler owns its row, and the lease is running.
ProtectedOwns ==
    \A r \in Requests : Protected(r) => OwnsRow(r) /\ lease[key[r]]

\* Handlers of the provision key clean up and provision, the others revoke.
PhaseFitsKey ==
    \A r \in Requests :
        /\ phase[r] \in {"cleanup", "provision"} => key[r] = 1
        /\ phase[r] = "revoke" => key[r] # 1
        /\ phase[r] = "cleanup" => reclaimed[r]

OwnerInv == ProtectedOwns /\ PhaseFitsKey

LEMMA ProtectedHandlersOwnTheirRows ==
    ASSUME LeaseRequests >= 3 PROVE Spec => []OwnerInv
<1>1. Init => OwnerInv
  BY DEF Init, OwnerInv, ProtectedOwns, PhaseFitsKey, Protected, Executing
<1>2. TypeOK /\ OwnerInv /\ [Next]_vars => OwnerInv'
  <2> SUFFICES ASSUME TypeOK, OwnerInv, [Next]_vars PROVE OwnerInv'
    OBVIOUS
  <2> USE ConstantsOK DEF TypeOK, OwnerInv, ProtectedOwns, PhaseFitsKey, Protected,
              Executing, Operation, OwnsRow
  <2>1. ASSUME NEW r \in Requests, NEW k \in Keys, Send(r, k)
        PROVE  OwnerInv'
    BY <2>1 DEF Send, rowVars, panelVars
  <2>2. ASSUME NEW r \in Requests, RequestRefused(r)
        PROVE  OwnerInv'
    BY <2>2 DEF RequestRefused, rowVars, panelVars
  <2>3. ASSUME NEW r \in Requests, Claim(r)
        PROVE  OwnerInv'
    <3>1. CASE ClaimNew(r)
      BY <3>1 DEF ClaimNew, TakeRow, FirstPhase, panelVars
    <3>2. CASE Reclaim(r)
      BY <3>2 DEF Reclaim, live_lease, TakeRow, FirstPhase,
                  panelVars
    <3>3. CASE ClaimInProgress(r) \/ ClaimReplay(r)
      BY <3>3 DEF ClaimInProgress, ClaimReplay, rowVars, panelVars
    <3> QED  BY <2>3, <3>1, <3>2, <3>3 DEF Claim
  <2>4. ASSUME NEW r \in Requests, Execute(r)
        PROVE  OwnerInv'
    <3>1. CASE Cleanup(r) \/ Apply(r) \/ RuntimeFails(r)
      BY <3>1 DEF Cleanup, Apply, RuntimeFails, rowVars,
                  panelVars
    <3>2. CASE Complete(r)
      BY <3>2 DEF Complete, Release, rowVars, panelVars
    <3>3. CASE MarkRetryable(r)
      BY <3>3 DEF MarkRetryable, Release, rowVars, panelVars
    <3>4. CASE CompleteFails(r) \/ HandlerStops(r)
      BY <3>4 DEF CompleteFails, HandlerStops, rowVars, panelVars
    <3> QED  BY <2>4, <3>1, <3>2, <3>3, <3>4 DEF Execute
  <2>5. ASSUME NEW k \in Keys, TaskSucceeds(k) \/ TaskFails(k)
        PROVE  OwnerInv'
    BY <2>5 DEF TaskSucceeds, TaskFails, rowVars
  <2>6. ASSUME NEW k \in Keys, LeaseRunsOut(k)
        PROVE  OwnerInv'
    BY <2>6, LeaseRequestsAssumption
       DEF LeaseRunsOut, RemoteRequests, panelVars
  <2>7. ASSUME NEW k \in Keys, Retire(k)
        PROVE  OwnerInv'
    BY <2>7 DEF Retire, RetireJournal, RetireStops, Erasable,
                mark_task_journal_retired, rowVars
  <2>8. CASE LoadCandidates
    BY <2>8 DEF LoadCandidates, rowVars
  <2>9. CASE UNCHANGED vars
    BY <2>9 DEF vars, rowVars, panelVars
  <2> QED  BY <2>1, <2>2, <2>3, <2>4, <2>5, <2>6, <2>7, <2>8, <2>9 DEF Next
<1> QED  BY <1>1, <1>2, TypeCorrect, PTL DEF Spec

\* No handler whose requests fit in its lease loses its row: with leases of
\* three requests that is every revocation and every first provision, with
\* leases of five every handler.
THEOREM HandlersKeepTheirRows == Spec => []ExecutingIsOwner
<1>1. CASE LeaseRequests >= 3
  <2>1. Spec => []OwnerInv
    BY <1>1, ProtectedHandlersOwnTheirRows
  <2>2. OwnerInv => ExecutingIsOwner
    BY <1>1, LeaseRequestsAssumption
       DEF OwnerInv, ProtectedOwns, Protected, ExecutingIsOwner,
           NeededRequests, Operation
  <2> QED  BY <2>1, <2>2, PTL
<1>2. CASE ~(LeaseRequests >= 3)
  <2>1. ExecutingIsOwner
    BY <1>2, LeaseRequestsAssumption DEF ExecutingIsOwner, NeededRequests
  <2> QED  BY <2>1, PTL
<1> QED  BY <1>1, <1>2

-----------------------------------------------------------------------------
(* A completed provision is on the node.                                   *)

\* The owner of the provision key that has applied its provision, and a row
\* that is completed, both stand for a client on the node.
ClientInv ==
    NoRevokeHandled =>
        /\ journal[1] = "completed" => client
        /\ \A r \in Requests :
              phase[r] = "finish" /\ key[r] = 1 /\ OwnsRow(r) => client

LEMMA RevokesStayHandled ==
    ASSUME TypeOK, [Next]_vars, NoRevokeHandled' PROVE NoRevokeHandled
<1> SUFFICES ASSUME NEW r \in Requests, key[r] # 1,
                    phase[r] \notin {"unsent", "sent"}
             PROVE  FALSE
  BY DEF NoRevokeHandled
<1>1. key'[r] = key[r]
  BY DEF Next, vars, Send, RequestRefused, Claim, ClaimNew, ClaimInProgress, ClaimReplay, Reclaim, TakeRow, Execute, Cleanup,
         Apply, RuntimeFails, Complete, CompleteFails, MarkRetryable,
         HandlerStops, TaskSucceeds, TaskFails, LeaseRunsOut, Retire,
         RetireJournal, RetireStops, mark_task_journal_retired,
         LoadCandidates, TypeOK
<1>2. phase'[r] \notin {"unsent", "sent"}
  BY DEF Next, vars, Send, RequestRefused, Claim, ClaimNew, ClaimInProgress, ClaimReplay, Reclaim, TakeRow, FirstPhase, Execute,
         Cleanup, Apply, RuntimeFails, Complete, CompleteFails, MarkRetryable,
         HandlerStops, TaskSucceeds, TaskFails, LeaseRunsOut, Retire,
         RetireJournal, RetireStops, mark_task_journal_retired,
         LoadCandidates, TypeOK
<1> QED  BY <1>1, <1>2 DEF NoRevokeHandled

\* With leases that have room for the three XUI requests of a cleanup, which
\* is what the settings demand, a provision recorded as completed left its
\* client on the node, unless a revocation was handled too.
THEOREM CompletedProvisionIsReal ==
    ASSUME LeaseRequests >= 3 PROVE Spec => []CompletedProvisionOnNode
<1>1. Init => ClientInv
  BY ConstantsOK DEF Init, ClientInv
<1>2. TypeOK /\ OwnerInv /\ ClientInv /\ [Next]_vars => ClientInv'
  <2> SUFFICES ASSUME TypeOK, OwnerInv, ClientInv, [Next]_vars,
                      NoRevokeHandled'
               PROVE  /\ journal'[1] = "completed" => client'
                      /\ \A r \in Requests :
                            (/\ phase'[r] = "finish" /\ key'[r] = 1
                             /\ OwnsRow(r)') => client'
    BY DEF ClientInv
  <2> DEFINE Goal == /\ journal'[1] = "completed" => client'
                     /\ \A r \in Requests :
                           (/\ phase'[r] = "finish" /\ key'[r] = 1
                            /\ OwnsRow(r)') => client'
  <2>0. NoRevokeHandled
    BY RevokesStayHandled
  <2>1. /\ journal[1] = "completed" => client
        /\ \A r \in Requests :
              phase[r] = "finish" /\ key[r] = 1 /\ OwnsRow(r) => client
    BY <2>0 DEF ClientInv
  <2> USE ConstantsOK DEF TypeOK, OwnsRow
  <2>2. ASSUME NEW s \in Requests, NEW k \in Keys, Send(s, k)
        PROVE  Goal
    BY <2>1, <2>2 DEF Send, rowVars
  <2>3. ASSUME NEW s \in Requests, RequestRefused(s)
        PROVE  Goal
    BY <2>1, <2>3 DEF RequestRefused, rowVars
  <2>4. ASSUME NEW s \in Requests, Claim(s)
        PROVE  Goal
    <3>1. CASE ClaimNew(s) \/ Reclaim(s)
      BY <2>1, <3>1 DEF ClaimNew, Reclaim, TakeRow, FirstPhase
    <3>2. CASE ClaimInProgress(s) \/ ClaimReplay(s)
      BY <2>1, <3>2 DEF ClaimInProgress, ClaimReplay, rowVars
    <3> QED  BY <2>4, <3>1, <3>2 DEF Claim
  <2>5. ASSUME NEW s \in Requests, Execute(s)
        PROVE  Goal
    <3>1. CASE phase[s] = "cleanup" /\ (Cleanup(s) \/ RuntimeFails(s))
      <4>1. key[s] = 1 /\ journal[1] = "in_progress" /\ owner[1] = s
        BY <3>1 DEF OwnerInv, ProtectedOwns, PhaseFitsKey, Protected, Executing
      <4>2. /\ UNCHANGED <<rowVars, key>>
            /\ phase' \in [Requests -> Phase] /\ phase'[s] # "finish"
        BY <3>1 DEF Cleanup, RuntimeFails, Phase, Executing
      <4> QED  BY <4>1, <4>2 DEF rowVars
    <3>2. CASE phase[s] = "provision" /\ (Apply(s) \/ RuntimeFails(s))
      <4>1. client => client'
        BY <3>2 DEF Apply, RuntimeFails
      <4>2. CASE Apply(s)
        BY <3>2, <4>2 DEF Apply
      <4>3. CASE RuntimeFails(s)
        BY <2>1, <3>2, <4>1, <4>3 DEF RuntimeFails, rowVars
      <4> QED  BY <3>2, <4>2, <4>3
    <3>3. phase[s] # "revoke"
      BY <2>0 DEF OwnerInv, PhaseFitsKey, NoRevokeHandled
    <3>4. CASE Complete(s)
      BY <2>1, <3>4 DEF Complete, Release, rowVars
    <3>5. CASE MarkRetryable(s)
      BY <2>1, <3>5 DEF MarkRetryable, Release, rowVars
    <3>6. CASE CompleteFails(s) \/ HandlerStops(s)
      BY <2>1, <3>6 DEF CompleteFails, HandlerStops, rowVars
    <3> QED
      BY <2>5, <3>1, <3>2, <3>3, <3>4, <3>5, <3>6
         DEF Execute, Cleanup, Apply, RuntimeFails
  <2>6. ASSUME NEW k \in Keys, TaskSucceeds(k) \/ TaskFails(k)
        PROVE  Goal
    BY <2>1, <2>6 DEF TaskSucceeds, TaskFails, rowVars
  <2>7. ASSUME NEW k \in Keys, LeaseRunsOut(k)
        PROVE  Goal
    BY <2>1, <2>7 DEF LeaseRunsOut
  <2>8. ASSUME NEW k \in Keys, Retire(k)
        PROVE  Goal
    BY <2>1, <2>8 DEF Retire, RetireJournal, RetireStops, Erasable,
                      mark_task_journal_retired, rowVars
  <2>9. CASE LoadCandidates
    BY <2>1, <2>9 DEF LoadCandidates, rowVars
  <2>10. CASE UNCHANGED vars
    BY <2>1, <2>10 DEF vars, rowVars
  <2> QED
    BY <2>2, <2>3, <2>4, <2>5, <2>6, <2>7, <2>8, <2>9, <2>10 DEF Next
<1>3. ClientInv => CompletedProvisionOnNode
  BY DEF ClientInv, CompletedProvisionOnNode
<1>4. Spec => []OwnerInv
  BY ProtectedHandlersOwnTheirRows
<1> QED  BY <1>1, <1>2, <1>3, <1>4, TypeCorrect, PTL DEF Spec

-----------------------------------------------------------------------------
(* The row of a key is a lease.                                            *)

AtWork(k) == {r \in Requests : key[r] = k /\ phase[r] \in Executing}

LeasedStep(k) == RowLease(k)!Next \/ UNCHANGED RowLease(k)!vars

\* A step that changes neither the row of j nor who works with it.
LEMMA RowQuiet ==
    ASSUME NEW j \in Keys, owner'[j] = owner[j], lease'[j] = lease[j],
           AtWork(j)' = AtWork(j)
    PROVE  LeasedStep(j)
  BY DEF LeasedStep, AtWork, RowLease!vars

\* A handler of row k that stops, whoever owns the row.
LEMMA HandlerLeaves ==
    ASSUME TypeOK, NEW r \in Requests, phase[r] \in Executing, UNCHANGED <<rowVars, key>>,
           NEW p \in Phase \ Executing, phase' = [phase EXCEPT ![r] = p], NEW j \in Keys
    PROVE  LeasedStep(j)
<1>1. owner'[j] = owner[j] /\ lease'[j] = lease[j]
  BY DEF rowVars
<1>2. CASE key[r] # j
  <2>1. AtWork(j)' = AtWork(j)
    BY <1>2 DEF AtWork, TypeOK
  <2> QED  BY <1>1, <2>1, RowQuiet
<1>3. CASE key[r] = j
  <2>1. r \in AtWork(j) /\ AtWork(j)' = AtWork(j) \ {r}
    BY <1>3 DEF AtWork, TypeOK
  <2> QED
    BY <1>1, <2>1 DEF LeasedStep, AtWork, RowLease!Next, RowLease!Leave
<1> QED  BY <1>2, <1>3

\* A request that takes a row that is free or whose lease has run out.
LEMMA RowTaken ==
    ASSUME TypeOK, NEW r \in Requests, NEW again, TakeRow(r, again),
           phase[r] = "sent", ~live_lease(key[r]), NEW j \in Keys
    PROVE  LeasedStep(j)
<1>1. FirstPhase(key[r], again) \in Executing
  BY DEF FirstPhase, Executing
<1>2. CASE key[r] # j
  <2>1. /\ owner'[j] = owner[j] /\ lease'[j] = lease[j]
        /\ AtWork(j)' = AtWork(j)
    BY <1>2 DEF TakeRow, AtWork, TypeOK
  <2> QED  BY <2>1, RowQuiet
<1>3. CASE key[r] = j
  <2>1. owner'[j] = r /\ lease'[j] = TRUE
    BY <1>3 DEF TakeRow, TypeOK
  <2>2. AtWork(j)' = AtWork(j) \cup {r}
    BY <1>1, <1>3 DEF TakeRow, AtWork, TypeOK
  <2>3. r \notin AtWork(j) /\ r # NoOwner /\ r # -1
    BY DEF AtWork, Executing, Requests, NoOwner
  <2>4. owner[j] = NoOwner \/ ~lease[j]
    BY <1>3 DEF live_lease, TypeOK
  <2> QED
    BY <2>1, <2>2, <2>3, <2>4 DEF LeasedStep, AtWork, RowLease!Next, RowLease!Acquire
<1> QED  BY <1>2, <1>3

\* The owner of a row that ends its work with it.
LEMMA RowReleased ==
    ASSUME TypeOK, NEW r \in Requests, OwnsRow(r), NEW s, Release(r, s),
           phase[r] \in Executing, UNCHANGED key,
           NEW p \in Phase \ Executing, phase' = [phase EXCEPT ![r] = p], NEW j \in Keys
    PROVE  LeasedStep(j)
<1>1. CASE key[r] # j
  <2>1. /\ owner'[j] = owner[j] /\ lease'[j] = lease[j]
        /\ AtWork(j)' = AtWork(j)
    BY <1>1 DEF Release, AtWork, TypeOK
  <2> QED  BY <2>1, RowQuiet
<1>2. CASE key[r] = j
  <2>1. owner[j] = r /\ owner'[j] = NoOwner
    BY <1>2 DEF OwnsRow, Release, TypeOK
  <2>2. r \in AtWork(j) /\ AtWork(j)' = AtWork(j) \ {r}
    BY <1>2 DEF AtWork, TypeOK
  <2> QED
    BY <2>1, <2>2 DEF LeasedStep, AtWork, RowLease!Next, RowLease!Release
<1> QED  BY <1>1, <1>2

\* The lease of row k is over, or a row without an owner is erased.
LEMMA RowExpires ==
    ASSUME TypeOK, NEW k \in Keys, UNCHANGED <<key, phase>>, owner' = owner,
           lease' = [lease EXCEPT ![k] = FALSE], NEW j \in Keys
    PROVE  LeasedStep(j)
<1>1. owner'[j] = owner[j] /\ AtWork(j)' = AtWork(j)
  BY DEF AtWork
<1>2. CASE j # k
  BY <1>1, <1>2, RowQuiet DEF TypeOK
<1>3. CASE j = k
  <2>1. lease'[j] = FALSE
    BY <1>3 DEF TypeOK
  <2> QED  BY <1>1, <2>1 DEF LeasedStep, AtWork, RowLease!Next, RowLease!Expire
<1> QED  BY <1>2, <1>3

\* The row of every key is a lease, for every number of requests and every
\* length of the lease: a repeated request takes the row only after its lease,
\* and the row leaves in_progress only with the end of the handler whose token
\* it carries, never by a retirement or by a handler that was overtaken.
THEOREM RowsAreLeased == Spec => ImplementsLease
<1>1. Init => \A k \in Keys : RowLease(k)!Init
  BY DEF Init, RowLease!Init, Executing
<1>2. ASSUME TypeOK, [Next]_vars, NEW j \in Keys PROVE LeasedStep(j)
  <2> DEFINE Goal == LeasedStep(j)
  <2>1. CASE UNCHANGED rowVars /\ AtWork(j)' = AtWork(j)
    BY <2>1, RowQuiet DEF rowVars
  <2>2. ASSUME NEW r \in Requests, NEW k \in Keys, Send(r, k) PROVE Goal
    BY <1>2, <2>1, <2>2 DEF Send, AtWork, Executing, TypeOK
  <2>3. ASSUME NEW r \in Requests, RequestRefused(r) \/ ClaimInProgress(r) \/ ClaimReplay(r)
        PROVE  Goal
    BY <1>2, <2>1, <2>3
       DEF RequestRefused, ClaimInProgress, ClaimReplay, AtWork, Executing, TypeOK
  <2>4. ASSUME NEW r \in Requests, ClaimNew(r) \/ Reclaim(r) PROVE Goal
    BY <1>2, <2>4, RowTaken DEF ClaimNew, Reclaim, live_lease
  <2>5. ASSUME NEW r \in Requests,
               Cleanup(r) \/ Apply(r) \/ RuntimeFails(r) \/ CompleteFails(r)
        PROVE  Goal
    BY <1>2, <2>1, <2>5
       DEF Cleanup, Apply, RuntimeFails, CompleteFails, AtWork, Executing, TypeOK
  <2>6. ASSUME NEW r \in Requests, Complete(r) \/ MarkRetryable(r) \/ HandlerStops(r)
        PROVE  Goal
    <3>1. PICK p \in {"ok", "refused"} : phase' = [phase EXCEPT ![r] = p]
      BY <2>6 DEF Complete, MarkRetryable, HandlerStops
    <3>2. p \in Phase \ Executing
      BY DEF Phase, Executing
    <3>3. phase[r] \in Executing /\ UNCHANGED key
      BY <2>6 DEF Complete, MarkRetryable, HandlerStops, Executing
    <3>4. CASE UNCHANGED rowVars
      BY <1>2, <3>1, <3>2, <3>3, <3>4, HandlerLeaves
    <3>5. CASE OwnsRow(r) /\ \E s \in {"completed", "retryable"} : Release(r, s)
      BY <1>2, <3>1, <3>2, <3>3, <3>5, RowReleased
    <3> QED  BY <2>6, <3>4, <3>5 DEF Complete, MarkRetryable, HandlerStops
  <2>7. ASSUME NEW k \in Keys, LeaseRunsOut(k) PROVE Goal
    BY <1>2, <2>7, RowExpires DEF LeaseRunsOut
  <2>8. ASSUME NEW k \in Keys, RetireJournal(k) PROVE Goal
    <3>1. owner' = owner
      BY <1>2, <2>8 DEF RetireJournal, Erasable, TypeOK
    <3> QED  BY <1>2, <2>8, <3>1, RowExpires DEF RetireJournal
  <2>9. CASE \/ \E k \in Keys : \/ TaskSucceeds(k) \/ TaskFails(k)
                                \/ RetireStops(k) \/ mark_task_journal_retired(k)
             \/ LoadCandidates \/ UNCHANGED vars
    BY <2>1, <2>9 DEF TaskSucceeds, TaskFails, RetireStops, mark_task_journal_retired,
       LoadCandidates, AtWork, vars
  <2> QED
    BY <1>2, <2>2, <2>3, <2>4, <2>5, <2>6, <2>7, <2>8, <2>9
       DEF Next, Claim, Execute, Retire
<1>3. TypeOK /\ [Next]_vars => [\A k \in Keys : LeasedStep(k)]_vars
  BY <1>2
<1> QED  BY <1>1, <1>3, TypeCorrect, PTL DEF Spec, ImplementsLease, LeasedStep

=============================================================================
