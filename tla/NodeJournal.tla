---------------------------- MODULE NodeJournal ----------------------------
(***************************************************************************)
(* The node agent's journal of operations, and its retirement:             *)
(*   NodeOperationJournal     infrastructure/nodes/idempotency.py          *)
(*   _execute_operation       apps/node_agent/routes.py                    *)
(*   XuiNodeRuntime           apps/node_agent/runtime.py                   *)
(*   RetireNodeJournalRecords                                              *)
(*                 application/use_cases/retire_node_journal_records.py    *)
(*                                                                         *)
(* One client of one node.  Key 1 is the idempotency key of its provision, *)
(* the other keys are revocations.  A request is one signed HTTP request;  *)
(* its number is also the owner token of the claim it may get, because     *)
(* both are fresh and a request claims at most once.                       *)
(*                                                                         *)
(* One action is one transaction of the agent's SQLite database, one call  *)
(* of the runtime, or one transaction of the panel.  Handlers run          *)
(* concurrently: several requests with the same key may be under way.      *)
(***************************************************************************)
EXTENDS Integers, FiniteSets

CONSTANTS
    MaxKeys,        \* bound: operations on the client
    MaxRequests,    \* bound: requests sent to the agent
    LeaseRequests,  \* XUI requests that are sure to fit in a lease
    BatchSize       \* RetireNodeJournalRecords.batch_size

ASSUME MaxKeysAssumption       == MaxKeys \in Nat \ {0}
ASSUME MaxRequestsAssumption   == MaxRequests \in Nat \ {0}
ASSUME LeaseRequestsAssumption == LeaseRequests \in Nat
ASSUME BatchSizeAssumption     == BatchSize \in 1..100

VARIABLES
    journal,    \* node_operation_journal.status, by key
    owner,      \* owner_token of the row: the request that claimed it last
    lease,      \* lease_expires_at of an in_progress row is ahead
    key,        \* the idempotency key of a request
    phase,      \* how far the handler of a request has come
    reclaimed,  \* JournalClaim.reclaimed of the request's claim
    client,     \* the client exists in the node's XUI
    task,       \* node_tasks.status, as far as retirement looks at it
    retiring,   \* a retirement of the key that is under way
    retired     \* node_tasks.journal_retired_at is set

rowVars   == <<journal, owner, lease>>
panelVars == <<task, retiring, retired>>
vars == <<rowVars, key, phase, reclaimed, client, panelVars>>

Keys     == 1..MaxKeys
Requests == 1..MaxRequests
NoOwner  == 0

RowStatus  == {"absent", "in_progress", "completed", "retryable"}
Executing  == {"cleanup", "provision", "revoke", "finish", "abort"}
Phase      == {"unsent", "sent", "ok", "refused"} \cup Executing
TaskStatus == {"open", "succeeded", "failed"}
Retirement == {"idle", "selected", "confirmed"}

Operation(k) == IF k = 1 THEN "provision" ELSE "revoke"

Init ==
    /\ journal = [k \in Keys |-> "absent"]
    /\ owner = [k \in Keys |-> NoOwner]
    /\ lease = [k \in Keys |-> FALSE]
    /\ key = [r \in Requests |-> 1]
    /\ phase = [r \in Requests |-> "unsent"]
    /\ reclaimed = [r \in Requests |-> FALSE]
    /\ client = FALSE
    /\ task = [k \in Keys |-> "open"]
    /\ retiring = [k \in Keys |-> "idle"]
    /\ retired = [k \in Keys |-> FALSE]

-----------------------------------------------------------------------------
(* The panel's requests.                                                   *)

\* A dispatch of an open task.  Earlier requests of the task may be on the
\* way or still be executed: their callers have given up.
Send(r, k) ==
    /\ task[k] = "open"
    /\ phase[r] = "unsent"
    /\ \A s \in Requests : s < r => phase[s] # "unsent"
    /\ phase' = [phase EXCEPT ![r] = "sent"]
    /\ key' = [key EXCEPT ![r] = k]
    /\ UNCHANGED <<rowVars, reclaimed, client, panelVars>>

\* Lost, older than the timestamp tolerance, or refused by the database.  The
\* answer idempotency_conflict needs two bodies under one key; the panel sends
\* the stored payload of the task, which never changes.
RequestRefused(r) ==
    /\ phase[r] = "sent"
    /\ phase' = [phase EXCEPT ![r] = "refused"]
    /\ UNCHANGED <<rowVars, key, reclaimed, client, panelVars>>

TaskSucceeds(k) ==
    /\ task[k] = "open"
    /\ \E r \in Requests : key[r] = k /\ phase[r] = "ok"
    /\ task' = [task EXCEPT ![k] = "succeeded"]
    /\ UNCHANGED <<rowVars, key, phase, reclaimed, client, retiring,
                   retired>>

\* The attempts are spent, whatever became of the requests.
TaskFails(k) ==
    /\ task[k] = "open"
    /\ task' = [task EXCEPT ![k] = "failed"]
    /\ UNCHANGED <<rowVars, key, phase, reclaimed, client, retiring,
                   retired>>

-----------------------------------------------------------------------------
(* NodeOperationJournal._claim_sync, one immediate transaction.            *)

\* A reclaimed provision first removes what its predecessor may have left.
FirstPhase(k, again) ==
    IF Operation(k) = "revoke" THEN "revoke"
    ELSE IF again THEN "cleanup" ELSE "provision"

TakeRow(r, again) ==
    LET k == key[r] IN
    /\ journal' = [journal EXCEPT ![k] = "in_progress"]
    /\ owner' = [owner EXCEPT ![k] = r]
    /\ lease' = [lease EXCEPT ![k] = TRUE]
    /\ reclaimed' = [reclaimed EXCEPT ![r] = again]
    /\ phase' = [phase EXCEPT ![r] = FirstPhase(k, again)]
    /\ UNCHANGED <<key, client, panelVars>>

ClaimNew(r) ==
    /\ phase[r] = "sent"
    /\ journal[key[r]] = "absent"
    /\ TakeRow(r, FALSE)

live_lease(k) == journal[k] = "in_progress" /\ lease[k]

\* 409: a request with this key is still running.
ClaimInProgress(r) ==
    /\ phase[r] = "sent"
    /\ live_lease(key[r])
    /\ phase' = [phase EXCEPT ![r] = "refused"]
    /\ UNCHANGED <<rowVars, key, reclaimed, client, panelVars>>

ClaimReplay(r) ==
    /\ phase[r] = "sent"
    /\ journal[key[r]] = "completed"
    /\ phase' = [phase EXCEPT ![r] = "ok"]
    /\ UNCHANGED <<rowVars, key, reclaimed, client, panelVars>>

Reclaim(r) ==
    /\ phase[r] = "sent"
    /\ journal[key[r]] \in {"in_progress", "retryable"}
    /\ ~live_lease(key[r])
    /\ TakeRow(r, TRUE)

-----------------------------------------------------------------------------
(* _execute_operation and XuiNodeRuntime.                                  *)

\* delClient succeeds, or the client is verified to be gone.
Cleanup(r) ==
    /\ phase[r] = "cleanup"
    /\ client' = FALSE
    /\ phase' = [phase EXCEPT ![r] = "provision"]
    /\ UNCHANGED <<rowVars, key, reclaimed, panelVars>>

Apply(r) ==
    /\ phase[r] \in {"provision", "revoke"}
    /\ client' = (phase[r] = "provision")
    /\ phase' = [phase EXCEPT ![r] = "finish"]
    /\ UNCHANGED <<rowVars, key, reclaimed, panelVars>>

\* An exception or a status that is no success, before or after the effect.
RuntimeFails(r) ==
    /\ phase[r] \in {"cleanup", "provision", "revoke"}
    /\ client' \in {client, phase[r] = "provision"}
    /\ phase' = [phase EXCEPT ![r] = "abort"]
    /\ UNCHANGED <<rowVars, key, reclaimed, panelVars>>

\* Mutant: the owner token is not compared.
OwnsAnyRow(r) == journal[key[r]] = "in_progress"

\* WHERE status = 'in_progress' AND owner_token = ?
OwnsRow(r) == journal[key[r]] = "in_progress" /\ owner[key[r]] = r

\* The UPDATE of complete and mark_retryable.
Release(r, status) ==
    /\ journal' = [journal EXCEPT ![key[r]] = status]
    /\ owner' = [owner EXCEPT ![key[r]] = NoOwner]
    /\ lease' = [lease EXCEPT ![key[r]] = FALSE]

Complete(r) ==
    /\ phase[r] = "finish"
    /\ \/ /\ OwnsRow(r)
          /\ Release(r, "completed")
          /\ phase' = [phase EXCEPT ![r] = "ok"]
       \/ /\ ~OwnsRow(r)
          /\ phase' = [phase EXCEPT ![r] = "refused"]
          /\ UNCHANGED rowVars
    /\ UNCHANGED <<key, reclaimed, client, panelVars>>

\* complete raises: the handler goes on as after a failed operation.
CompleteFails(r) ==
    /\ phase[r] = "finish"
    /\ phase' = [phase EXCEPT ![r] = "abort"]
    /\ UNCHANGED <<rowVars, key, reclaimed, client, panelVars>>

MarkRetryable(r) ==
    /\ phase[r] = "abort"
    /\ \/ OwnsRow(r) /\ Release(r, "retryable")
       \/ ~OwnsRow(r) /\ UNCHANGED rowVars
    /\ phase' = [phase EXCEPT ![r] = "refused"]
    /\ UNCHANGED <<key, reclaimed, client, panelVars>>

\* The agent stops, or the handler is cancelled: its row stays in_progress.
HandlerStops(r) ==
    /\ phase[r] \in Executing
    /\ phase' = [phase EXCEPT ![r] = "refused"]
    /\ UNCHANGED <<rowVars, key, reclaimed, client, panelVars>>

\* The HTTP requests a handler may have made to XUI: delete_client makes
\* three (login, delClient, get), add_client two (login, addClient), and a
\* reclaimed provision calls first the one and then the other.
RemoteRequests(r) ==
    IF /\ Operation(key[r]) = "provision" /\ reclaimed[r]
       /\ phase[r] \in {"provision", "finish"}
    THEN 5 ELSE 3

\* Mutant: the settings admit leases of any length.
LeaseOfAnyLength(k) ==
    /\ lease[k]
    /\ lease' = [lease EXCEPT ![k] = FALSE]
    /\ UNCHANGED <<journal, owner, key, phase, reclaimed,
                   client, panelVars>>

\* Each request is given up after request_timeout_seconds, so the lease of a
\* handler that is alive runs out only when more of them are needed than the
\* lease has room for.
LeaseRunsOut(k) ==
    /\ lease[k]
    /\ \A r \in Requests :
          (phase[r] \in Executing /\ key[r] = k /\ owner[k] = r)
             => RemoteRequests(r) > LeaseRequests
    /\ lease' = [lease EXCEPT ![k] = FALSE]
    /\ UNCHANGED <<journal, owner, key, phase, reclaimed,
                   client, panelVars>>

-----------------------------------------------------------------------------
(* RetireNodeJournalRecords                                                *)

\* Mutant: records of failed tasks are never retired.
SucceededUnretired == {k \in Keys : task[k] = "succeeded" /\ ~retired[k]}

\* Mutant: the status of the task is not looked at.
AnyUnretired == {k \in Keys : ~retired[k]}

TerminalUnretired == {k \in Keys : task[k] # "open" /\ ~retired[k]}

\* list_terminal_unretired_tasks: the oldest ones, as many as the batch has.
Candidates ==
    {k \in TerminalUnretired :
        Cardinality({j \in TerminalUnretired : j < k}) < BatchSize}

LoadCandidates ==
    /\ \E k \in Candidates : retiring[k] = "idle"
    /\ retiring' = [k \in Keys |->
                      IF k \in Candidates /\ retiring[k] = "idle"
                      THEN "selected" ELSE retiring[k]]
    /\ UNCHANGED <<rowVars, key, phase, reclaimed, client, task,
                   retired>>

\* Mutant: a row that is in progress is erased like any other.
ErasableAlways(k) == TRUE

Erasable(k) == journal[k] # "in_progress"

\* _retire_sync, one immediate transaction; the panel hears of it.
RetireJournal(k) ==
    /\ retiring[k] = "selected"
    /\ Erasable(k)
    /\ journal' = [journal EXCEPT ![k] = "absent"]
    /\ owner' = [owner EXCEPT ![k] = NoOwner]
    /\ lease' = [lease EXCEPT ![k] = FALSE]
    /\ retiring' = [retiring EXCEPT ![k] = "confirmed"]
    /\ UNCHANGED <<key, phase, reclaimed, client, task, retired>>

\* No node or credential, operation_in_progress, the call fails, its answer
\* is lost after the row was erased, or the worker stops.
RetireStops(k) ==
    /\ retiring[k] # "idle"
    /\ retiring' = [retiring EXCEPT ![k] = "idle"]
    /\ UNCHANGED <<rowVars, key, phase, reclaimed, client, task,
                   retired>>

mark_task_journal_retired(k) ==
    /\ retiring[k] = "confirmed"
    /\ retired' = [retired EXCEPT ![k] = task[k] # "open"]
    /\ retiring' = [retiring EXCEPT ![k] = "idle"]
    /\ UNCHANGED <<rowVars, key, phase, reclaimed, client, task>>

-----------------------------------------------------------------------------

Claim(r) ==
    \/ ClaimNew(r) \/ ClaimInProgress(r)
    \/ ClaimReplay(r) \/ Reclaim(r)

Execute(r) ==
    \/ Cleanup(r) \/ Apply(r) \/ RuntimeFails(r)
    \/ Complete(r) \/ CompleteFails(r) \/ MarkRetryable(r) \/ HandlerStops(r)

Retire(k) == RetireJournal(k) \/ RetireStops(k) \/ mark_task_journal_retired(k)

Next ==
    \/ \E r \in Requests, k \in Keys : Send(r, k)
    \/ \E r \in Requests : RequestRefused(r) \/ Claim(r) \/ Execute(r)
    \/ \E k \in Keys : TaskSucceeds(k) \/ TaskFails(k)
    \/ \E k \in Keys : LeaseRunsOut(k) \/ Retire(k)
    \/ LoadCandidates

Spec == Init /\ [][Next]_vars

-----------------------------------------------------------------------------
(* Properties                                                              *)

\* Rows, handlers and retirements hold only the values of the code; a row is
\* owned exactly while it is in progress.
TypeOK ==
    /\ journal \in [Keys -> RowStatus]
    /\ owner \in [Keys -> Requests \cup {NoOwner}]
    /\ lease \in [Keys -> BOOLEAN]
    /\ key \in [Requests -> Keys]
    /\ phase \in [Requests -> Phase]
    /\ reclaimed \in [Requests -> BOOLEAN]
    /\ client \in BOOLEAN
    /\ task \in [Keys -> TaskStatus]
    /\ retiring \in [Keys -> Retirement]
    /\ retired \in [Keys -> BOOLEAN]
    /\ \A k \in Keys : owner[k] # NoOwner <=> journal[k] = "in_progress"

\* The requests the whole operation of a handler may take.
NeededRequests(r) ==
    IF Operation(key[r]) = "provision" /\ reclaimed[r] THEN 5 ELSE 3

\* Whoever works on the node holds the row of its key, if its lease has room
\* for its requests: no second request, no reclaim and no retirement takes
\* the row from a handler that is alive, so two handlers of one key do not
\* touch the client at the same time (idempotency.py _claim_sync,
\* _retire_sync).  The settings guarantee room for three requests, which a
\* reclaimed provision exceeds (config.py _validate_leases).
ExecutingIsOwner ==
    \A r \in Requests :
        phase[r] \in Executing /\ NeededRequests(r) <= LeaseRequests
            => OwnsRow(r)

\* While the panel may still repeat an operation, an operation it was told
\* has succeeded stays recorded as completed: a late owner that fails, a
\* crash or a retirement never makes it executable again (idempotency.py
\* _mark_retryable_sync, _retire_sync).
AnsweredIsRecorded ==
    \A r \in Requests :
        phase[r] = "ok" /\ task[key[r]] = "open"
            => journal[key[r]] = "completed"

NoRevokeHandled ==
    \A r \in Requests : key[r] # 1 => phase[r] \in {"unsent", "sent"}

\* A provision that is recorded as completed left the client on the node,
\* unless a revocation was handled too: neither a failed attempt nor the
\* cleanup of a repeated one removes it afterwards (routes.py
\* _execute_operation).  It needs a lease that outlives the cleanup.
CompletedProvisionOnNode ==
    journal[1] = "completed" /\ NoRevokeHandled => client

\* The row of a key as a lease; its holders are the handlers that execute it.
RowLease(k) == INSTANCE Lease WITH
    Nobody <- NoOwner,
    Lost   <- -1,
    owner  <- owner[k],
    live   <- lease[k],
    atWork <- {r \in Requests : key[r] = k /\ phase[r] \in Executing}

\* Spec implements Lease, for every key: a repeated request takes a row only
\* after its lease, and the row leaves in_progress only with the end of the
\* handler whose token it carries, never by a retirement or by a handler that
\* was overtaken (_claim_sync, _complete_sync, _mark_retryable_sync,
\* _retire_sync).
ImplementsLease ==
    /\ \A k \in Keys : RowLease(k)!Init
    /\ [][\A k \in Keys : RowLease(k)!Next \/ UNCHANGED RowLease(k)!vars]_vars

-----------------------------------------------------------------------------
(* Fairness.  The retirement job runs every minute.  The node is not       *)
(* unreachable, and the worker does not stop, in every run of it.          *)

Fairness ==
    /\ WF_vars(LoadCandidates)
    /\ \A k \in Keys :
          /\ SF_vars(RetireJournal(k))
          /\ SF_vars(mark_task_journal_retired(k))

FairSpec == Spec /\ Fairness

\* No request of the key is on the way or being executed.
Quiet(k) ==
    \A r \in Requests :
        key[r] = k => phase[r] \notin Executing \cup {"sent"}

\* The record of a terminal task is retired in the end, whatever answers are
\* lost, unless a handler died on it and left it in progress.
JournalIsEmptied ==
    \A k \in Keys :
        (task[k] # "open" /\ Quiet(k) /\ journal[k] # "in_progress")
            ~> retired[k]

=============================================================================
