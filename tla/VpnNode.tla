------------------------------ MODULE VpnNode ------------------------------
(***************************************************************************)
(* The life of the node-backed VPN configurations of one subscription:     *)
(*   ProvisionVpn      application/use_cases/provision_vpn.py              *)
(*   RevokeVpn         application/use_cases/revoke_vpn.py                 *)
(*   DispatchNodeTask  application/use_cases/dispatch_node_task.py         *)
(* over the rows vpn_configurations, node_tasks and node_task_attempts.    *)
(*                                                                         *)
(* One action is one database transaction, or one thing that happens       *)
(* outside every transaction: the HTTP call, the node, the clock.  Every   *)
(* transaction first locks the rows it decides on (Task, Subscription,     *)
(* VPN, in this order), so it is atomic.  Jobs carry only a row id and may *)
(* be lost, repeated or late, so any job may run at any time: the action   *)
(* of a job is enabled whenever its row allows it.  Time is abstracted to  *)
(* two events, "the retry delay is over" and "the lease has run out".      *)
(***************************************************************************)
EXTENDS Integers

CONSTANTS
    MaxConfigs,     \* bound: configurations created for the subscription
    MaxGeneration,  \* bound: VpnConfiguration.generation
    MaxAttempts     \* node_task_max_attempts

ASSUME MaxConfigsAssumption    == MaxConfigs \in Nat \ {0}
ASSUME MaxGenerationAssumption == MaxGeneration \in Nat \ {0, 1}
ASSUME MaxAttemptsAssumption   == MaxAttempts \in Nat \ {0}

VARIABLES
    subscription,   \* subscriptions.status
    period,         \* a funded period covers the present moment
    status,         \* vpn_configurations.status, by configuration
    desired,        \* vpn_configurations.desired_state
    generation,     \* vpn_configurations.generation
    task,           \* node_tasks.status, by physical operation
    attempts,       \* node_tasks.attempts
    due,            \* node_tasks.next_retry_at has passed
    leaseLive,      \* the lease of an in_progress task has not run out
    attemptRow,     \* node_task_attempts.status, by task and attempt_no
    call,           \* the HTTP call of an attempt, as its worker sees it
    wire,           \* requests the node has not handled yet
    journal,        \* tasks whose idempotency key the node has completed
    client          \* the client exists on the node

subVars  == <<subscription, period>>
cfgVars  == <<status, desired, generation>>
taskVars == <<task, attempts, due, leaseLive, attemptRow>>
nodeVars == <<wire, journal, client>>
vars     == <<subVars, cfgVars, taskVars, call, nodeVars>>

Configs     == 1..MaxConfigs
Generations == 1..MaxGeneration
Attempts    == 1..MaxAttempts
Operations  == {"provision_client", "revoke_client"}

\* uq_node_tasks_vpn_operation_generation: a task is its physical operation.
TaskIds == Configs \X Operations \X Generations
Provision(c, g) == <<c, "provision_client", g>>
Revoke(c, g)    == <<c, "revoke_client", g>>

ConfigStatus == {"absent", "provisioning", "active", "failed",
                 "revoking", "revoke_failed", "revoked"}
TaskStatus   == {"absent", "pending", "in_progress", "succeeded", "failed"}
RowStatus    == {"absent", "started", "succeeded", "failed"}
CallPhase    == {"none", "waiting", "succeeded", "failed", "closed"}
RevokeReason == {"expiration", "force", "replacement_cleanup"}

Exists(c) == status[c] # "absent"
CurrentAccess == subscription = "active" /\ period

Init ==
    /\ subscription = "active"
    /\ period = TRUE
    /\ status = [c \in Configs |-> "absent"]
    /\ desired = [c \in Configs |-> "active"]
    /\ generation = [c \in Configs |-> 1]
    /\ task = [t \in TaskIds |-> "absent"]
    /\ attempts = [t \in TaskIds |-> 0]
    /\ due = [t \in TaskIds |-> FALSE]
    /\ leaseLive = [t \in TaskIds |-> FALSE]
    /\ attemptRow = [x \in TaskIds \X Attempts |-> "absent"]
    /\ call = [x \in TaskIds \X Attempts |-> "none"]
    /\ wire = {}
    /\ journal = {}
    /\ client = [c \in Configs |-> FALSE]

-----------------------------------------------------------------------------
(* The subscription, as the clock, payments and refunds move it.           *)

\* Also when the subscription has ended: one of its periods may still run, and
\* one that was paid in advance may still begin.
PeriodChanges ==
    /\ period' = ~period
    /\ UNCHANGED <<subscription, cfgVars, taskVars, call, nodeVars>>

SubscriptionEnds ==
    /\ subscription = "active"
    /\ subscription' = "ended"
    /\ UNCHANGED <<period, cfgVars, taskVars, call, nodeVars>>

-----------------------------------------------------------------------------
(* Rows.                                                                   *)

\* create_task: ON CONFLICT DO NOTHING, then the row that is already there.
create_task(t) ==
    /\ task' = [task EXCEPT ![t] = IF @ = "absent" THEN "pending" ELSE @]
    /\ due'  = [due EXCEPT ![t] = IF task[t] = "absent" THEN TRUE ELSE @]

\* begin_revoke, retry_revoke, cancel_provisioning_for_revoke and
\* request_cleanup_from_failed all start a new generation.
BeginRevoke(c) ==
    /\ generation[c] < MaxGeneration
    /\ status' = [status EXCEPT ![c] = "revoking"]
    /\ desired' = [desired EXCEPT ![c] = "revoked"]
    /\ generation' = [generation EXCEPT ![c] = @ + 1]

\* Mutant: only a configuration that was once active is revoked.
CanRevokeActiveOnly(c) == status[c] \in {"active", "revoke_failed"}

CanRevoke(c) ==
    status[c] \in {"active", "revoke_failed", "provisioning", "failed"}

\* Mutant: the lease token and attempt_no are not compared.
OwnsAnyLease(t, a) == task[t] = "in_progress" /\ leaseLive[t]

owns_active_lease(t, a) ==
    task[t] = "in_progress" /\ attempts[t] = a /\ leaseLive[t]

\* Mutant: a late provision is taken for the current one.
UnfencedProvision(c, g) == g <= generation[c]

\* The operation the task carries is the one its configuration waits for.
CurrentProvision(c, g) ==
    g = generation[c] /\ desired[c] = "active" /\ status[c] = "provisioning"

CurrentRevoke(c, g) ==
    g = generation[c] /\ desired[c] = "revoked" /\ status[c] = "revoking"

\* Mutant: the configuration of an exhausted task is forgotten.
ForgetConfigurationFailure(t) == UNCHANGED status

\* _mark_configuration_failure: only the current operation fails its row.
MarkConfigurationFailure(t) ==
    status' = [status EXCEPT ![t[1]] =
        IF t[2] = "provision_client" /\ CurrentProvision(t[1], t[3])
        THEN "failed"
        ELSE IF t[2] = "revoke_client" /\ CurrentRevoke(t[1], t[3])
             THEN "revoke_failed"
             ELSE @]

\* Mutant: one attempt too many.
RetryOnceMore(t, n) ==
    /\ leaseLive' = [leaseLive EXCEPT ![t] = FALSE]
    /\ due' = [due EXCEPT ![t] = FALSE]
    /\ \/ /\ n <= MaxAttempts
          /\ task' = [task EXCEPT ![t] = "pending"]
          /\ UNCHANGED status
       \/ /\ n > MaxAttempts
          /\ task' = [task EXCEPT ![t] = "failed"]
          /\ MarkConfigurationFailure(t)

\* NodeTask.retry after attempt n, and what _fail_or_retry does next.
FailOrRetry(t, n) ==
    /\ leaseLive' = [leaseLive EXCEPT ![t] = FALSE]
    /\ due' = [due EXCEPT ![t] = FALSE]
    /\ \/ /\ n < MaxAttempts
          /\ task' = [task EXCEPT ![t] = "pending"]
          /\ UNCHANGED status
       \/ /\ n >= MaxAttempts
          /\ task' = [task EXCEPT ![t] = "failed"]
          /\ MarkConfigurationFailure(t)

-----------------------------------------------------------------------------
(* ProvisionVpn                                                            *)

\* Mutant: a configuration whose revocation failed is replaced.
ReplaceableTooEarly(c) == status[c] \in {"revoked", "revoke_failed"}

\* reusable_statuses, after the early returns for an unfinished latest row.
Replaceable(c) == status[c] = "revoked"

\* The only branch that writes: no configuration yet, or the latest one is
\* over.  The repair branches for a provisioning row without a running task
\* are unreachable (TaskFollowsConfiguration).
ProvisionVpn(c) ==
    /\ CurrentAccess
    /\ \A d \in Configs : status[d] # "active"
    /\ \A d \in Configs : Exists(d) <=> d < c
    /\ c > 1 => Replaceable(c - 1)
    /\ status' = [status EXCEPT ![c] = "provisioning"]
    /\ create_task(Provision(c, 1))
    /\ UNCHANGED <<subVars, desired, generation, attempts, leaseLive,
                   attemptRow, call, nodeVars>>

(* RevokeVpn                                                               *)

\* An expiration job whose clock was read before a payment that it had to wait
\* for does not see the period: it does what a forced one does, which may come
\* at any time (see `overtaken` in Reconciliation).
RevokeVpn(c, reason) ==
    /\ reason = "expiration" => ~CurrentAccess
    /\ CanRevoke(c)
    /\ BeginRevoke(c)
    /\ create_task(Revoke(c, generation[c] + 1))
    /\ UNCHANGED <<subVars, attempts, leaseLive, attemptRow, call, nodeVars>>

-----------------------------------------------------------------------------
(* DispatchNodeTask._prepare                                               *)

can_dispatch(t) == task[t] = "pending" /\ due[t]

\* The lease token is fresh at every claim, as attempt_no is.
Prepare(t) ==
    LET a == attempts[t] + 1 IN
    /\ can_dispatch(t)
    /\ task' = [task EXCEPT ![t] = "in_progress"]
    /\ attempts' = [attempts EXCEPT ![t] = a]
    /\ leaseLive' = [leaseLive EXCEPT ![t] = TRUE]
    /\ attemptRow' = [attemptRow EXCEPT ![<<t, a>>] = "started"]
    /\ call' = [call EXCEPT ![<<t, a>>] = "waiting"]
    /\ wire' = wire \cup {<<t, a>>}
    /\ UNCHANGED <<subVars, cfgVars, due, journal, client>>

\* The node is missing, unhealthy or disabled: no attempt is spent.
DeferUnavailableNode(t) ==
    /\ can_dispatch(t)
    /\ due' = [due EXCEPT ![t] = FALSE]
    /\ UNCHANGED <<subVars, cfgVars, task, attempts, leaseLive, attemptRow,
                   call, nodeVars>>

\* No active credential: the attempt is spent without a call.
PreflightFailure(t) ==
    LET a == attempts[t] + 1 IN
    /\ can_dispatch(t)
    /\ attempts' = [attempts EXCEPT ![t] = a]
    /\ attemptRow' = [attemptRow EXCEPT ![<<t, a>>] = "failed"]
    /\ FailOrRetry(t, a)
    /\ UNCHANGED <<subVars, desired, generation, call, nodeVars>>

-----------------------------------------------------------------------------
(* The HTTP call and the node agent.                                       *)

\* The client is made or removed before the operation is recorded.
Effect(t) == [client EXCEPT ![t[1]] = (t[2] = "provision_client")]

\* The worker hears the answer, unless it has stopped listening or the
\* answer is lost and the call runs into its timeout.
Answer(t, a, phase) ==
    call' = [call EXCEPT ![<<t, a>>] = IF @ = "waiting" THEN phase ELSE @]

NodeSucceeds(t, a) ==
    /\ <<t, a>> \in wire
    /\ wire' = wire \ {<<t, a>>}
    /\ journal' = journal \cup {t}
    /\ client' = IF t \in journal THEN client ELSE Effect(t)
    /\ Answer(t, a, "succeeded") \/ Answer(t, a, "failed")
    /\ UNCHANGED <<subVars, cfgVars, taskVars>>

\* The agent fails: before or after the runtime has changed the client, or
\* between the cleanup that a repeated provision starts with and the rest.
NodeFails(t, a) ==
    /\ <<t, a>> \in wire
    /\ wire' = wire \ {<<t, a>>}
    /\ t \notin journal
    /\ client' \in {client, Effect(t), [client EXCEPT ![t[1]] = FALSE]}
    /\ Answer(t, a, "failed")
    /\ UNCHANGED <<subVars, cfgVars, taskVars, journal>>

\* The handler of a repeated provision has lost its lease to the request that
\* was recorded: it adds the client once more, and is refused (NodeJournal).
OvertakenProvision(t, a) ==
    /\ <<t, a>> \in wire
    /\ wire' = wire \ {<<t, a>>}
    /\ t \in journal /\ t[2] = "provision_client"
    /\ client' = Effect(t)
    /\ Answer(t, a, "failed")
    /\ UNCHANGED <<subVars, cfgVars, taskVars, journal>>

RequestLost(t, a) ==
    /\ <<t, a>> \in wire
    /\ wire' = wire \ {<<t, a>>}
    /\ Answer(t, a, "failed")
    /\ UNCHANGED <<subVars, cfgVars, taskVars, journal, client>>

\* The client gives up; the request may still be handled later.
CallTimesOut(t, a) ==
    /\ call[<<t, a>>] = "waiting"
    /\ call' = [call EXCEPT ![<<t, a>>] = "failed"]
    /\ UNCHANGED <<subVars, cfgVars, taskVars, nodeVars>>

\* The worker process stops between its two transactions.
WorkerCrashes(t, a) ==
    /\ call[<<t, a>>] \in {"waiting", "succeeded", "failed"}
    /\ call' = [call EXCEPT ![<<t, a>>] = "closed"]
    /\ UNCHANGED <<subVars, cfgVars, taskVars, nodeVars>>

-----------------------------------------------------------------------------
(* DispatchNodeTask._finalize                                              *)

Answered(t, a) == call[<<t, a>>] \in {"succeeded", "failed"}
Close(t, a) == call' = [call EXCEPT ![<<t, a>>] = "closed"]

FinalizeStaleAttempt(t, a) ==
    /\ Answered(t, a)
    /\ ~owns_active_lease(t, a)
    /\ Close(t, a)
    /\ UNCHANGED <<subVars, cfgVars, taskVars, nodeVars>>

FinalizeFailure(t, a) ==
    /\ call[<<t, a>>] = "failed"
    /\ owns_active_lease(t, a)
    /\ attemptRow' = [attemptRow EXCEPT ![<<t, a>>] = "failed"]
    /\ FailOrRetry(t, attempts[t])
    /\ Close(t, a)
    /\ UNCHANGED <<subVars, desired, generation, attempts, nodeVars>>

\* Mutant: every answer of the node counts as success.
AcceptsAnyAnswer(phase) == phase \in {"succeeded", "failed"}

accepts_remote_status(phase) == phase = "succeeded"

\* NodeTask.complete and finish_task_attempt, common to every success.
Succeeds(t, a) ==
    /\ accepts_remote_status(call[<<t, a>>])
    /\ owns_active_lease(t, a)
    /\ leaseLive' = [leaseLive EXCEPT ![t] = FALSE]
    /\ attemptRow' = [attemptRow EXCEPT ![<<t, a>>] = "succeeded"]
    /\ Close(t, a)
    /\ UNCHANGED <<subVars, attempts, nodeVars>>

\* complete(), and add_task_entity for the follow-up revoke f.
CompleteAndFollowUp(t, f) ==
    /\ task' = [task EXCEPT ![t] = "succeeded",
                            ![f] = IF @ = "absent" THEN "pending" ELSE @]
    /\ due' = [due EXCEPT ![f] = IF task[f] = "absent" THEN TRUE ELSE @]

CompleteProvision(c, g, a) ==
    LET t == Provision(c, g) IN
    /\ Succeeds(t, a)
    /\ \/ /\ CurrentProvision(c, g)
          /\ period
          /\ status' = [status EXCEPT ![c] = "active"]
          /\ task' = [task EXCEPT ![t] = "succeeded"]
          /\ UNCHANGED <<desired, generation, due>>
       \/ /\ CurrentProvision(c, g)
          /\ ~period
          /\ BeginRevoke(c)
          /\ CompleteAndFollowUp(t, Revoke(c, g + 1))
       \/ /\ ~CurrentProvision(c, g)
          /\ CompleteAndFollowUp(t, Revoke(c, generation[c]))
          /\ UNCHANGED cfgVars

CompleteRevoke(c, g, a) ==
    LET t == Revoke(c, g) IN
    /\ Succeeds(t, a)
    /\ task' = [task EXCEPT ![t] = "succeeded"]
    /\ status' = [status EXCEPT ![c] =
                      IF CurrentRevoke(c, g) THEN "revoked" ELSE @]
    /\ UNCHANGED <<desired, generation, due>>

-----------------------------------------------------------------------------
(* Time, and DispatchNodeTask.recover_stale                                *)

RetryDelayOver(t) ==
    /\ task[t] = "pending"
    /\ ~due[t]
    /\ due' = [due EXCEPT ![t] = TRUE]
    /\ UNCHANGED <<subVars, cfgVars, task, attempts, leaseLive, attemptRow,
                   call, nodeVars>>

LeaseRunsOut(t) ==
    /\ leaseLive[t]
    /\ leaseLive' = [leaseLive EXCEPT ![t] = FALSE]
    /\ UNCHANGED <<subVars, cfgVars, task, attempts, due, attemptRow, call,
                   nodeVars>>

\* Mutant: recovery passes over a task that has spent its attempts.
ExpiredWithAttemptsLeft(t) ==
    task[t] = "in_progress" /\ ~leaseLive[t] /\ attempts[t] < MaxAttempts

lease_is_expired(t) == task[t] = "in_progress" /\ ~leaseLive[t]

\* One row of the batch; the rows of a batch are locked one by one.
RecoverStale(t) ==
    /\ lease_is_expired(t)
    /\ attemptRow' = [attemptRow EXCEPT ![<<t, attempts[t]>>] = "failed"]
    /\ FailOrRetry(t, attempts[t])
    /\ UNCHANGED <<subVars, desired, generation, attempts, call, nodeVars>>

-----------------------------------------------------------------------------

Dispatch(t) == Prepare(t) \/ DeferUnavailableNode(t) \/ PreflightFailure(t)

Remote(t, a) ==
    \/ NodeSucceeds(t, a)
    \/ NodeFails(t, a)
    \/ OvertakenProvision(t, a)
    \/ RequestLost(t, a)
    \/ CallTimesOut(t, a)
    \/ WorkerCrashes(t, a)

Next ==
    \/ PeriodChanges \/ SubscriptionEnds
    \/ \E c \in Configs : ProvisionVpn(c)
    \/ \E c \in Configs, r \in RevokeReason : RevokeVpn(c, r)
    \/ \E t \in TaskIds : Dispatch(t)
    \/ \E t \in TaskIds, a \in Attempts : Remote(t, a)
    \/ \E t \in TaskIds, a \in Attempts :
          FinalizeStaleAttempt(t, a) \/ FinalizeFailure(t, a)
    \/ \E c \in Configs, g \in Generations, a \in Attempts :
          CompleteProvision(c, g, a) \/ CompleteRevoke(c, g, a)
    \/ \E t \in TaskIds : RetryDelayOver(t) \/ LeaseRunsOut(t) \/ RecoverStale(t)

Spec == Init /\ [][Next]_vars
-----------------------------------------------------------------------------
(* Properties                                                              *)

\* Rows of vpn_configurations, node_tasks and node_task_attempts hold only
\* the values of their check constraints; calls and requests belong to them.
TypeOK ==
    /\ subscription \in {"active", "ended"}
    /\ period \in BOOLEAN
    /\ status \in [Configs -> ConfigStatus]
    /\ desired \in [Configs -> {"active", "revoked"}]
    /\ generation \in [Configs -> Generations]
    /\ task \in [TaskIds -> TaskStatus]
    /\ attempts \in [TaskIds -> 0..MaxAttempts]
    /\ due \in [TaskIds -> BOOLEAN]
    /\ leaseLive \in [TaskIds -> BOOLEAN]
    /\ attemptRow \in [TaskIds \X Attempts -> RowStatus]
    /\ call \in [TaskIds \X Attempts -> CallPhase]
    /\ wire \in SUBSET (TaskIds \X Attempts)
    /\ journal \in SUBSET TaskIds
    /\ client \in [Configs -> BOOLEAN]

\* No configuration is stranded: one that waits for the node has a runnable
\* task of its own generation, and one that has settled has the matching
\* terminal task.  Provisioning, revocation, expiry of access and lease
\* recovery write the two rows in different transactions of different
\* workers (dispatch_node_task.py, provision_vpn.py, revoke_vpn.py).
TaskFollowsConfiguration ==
    \A c \in Configs :
        LET p == task[Provision(c, generation[c])]
            r == task[Revoke(c, generation[c])]
        IN  /\ status[c] = "provisioning"  => p \in {"pending", "in_progress"}
            /\ status[c] = "active"        => p = "succeeded"
            /\ status[c] = "failed"        => p = "failed"
            /\ status[c] = "revoking"      => r \in {"pending", "in_progress"}
            /\ status[c] = "revoke_failed" => r = "failed"
            /\ status[c] = "revoked"       => r = "succeeded"

\* A replacement is created only when its predecessor is fully revoked, so a
\* subscription never owns two clients that are both being managed
\* (provision_vpn.py _prepare_plan, under a forced revoke that takes no
\* subscription lock).
OnlyLatestIsOpen ==
    \A c, d \in Configs : c < d /\ Exists(d) => status[c] = "revoked"

\* An active configuration is backed by a client that is really on the node,
\* whatever calls were lost, repeated, late or answered by the journal.
ActiveClientOnNode ==
    \A c \in Configs : status[c] = "active" => client[c]

\* A configuration is shown as revoked only after the node has carried out
\* and recorded the revocation of that very generation.
RevokedWasExecuted ==
    \A c \in Configs :
        status[c] = "revoked" => Revoke(c, generation[c]) \in journal

\* A task that may still be dispatched has an attempt left: neither a lease
\* recovery nor a missing credential spends more than max_attempts.
AttemptBudget ==
    \A t \in TaskIds :
        /\ task[t] = "absent" => attempts[t] = 0
        /\ task[t] = "pending" => attempts[t] < MaxAttempts
        /\ task[t] \in {"in_progress", "failed", "succeeded"} => attempts[t] > 0

\* Exactly the running attempt of an in_progress task has a started row: a
\* late worker never closes the row of its successor, and recovery leaves
\* none open.
OneStartedAttempt ==
    \A t \in TaskIds, a \in Attempts :
        attemptRow[<<t, a>>] = "started"
            <=> task[t] = "in_progress" /\ attempts[t] = a

\* Intent only moves forward: once revocation is wanted it stays wanted, the
\* generation never goes back, and a revoked row is never written again, so a
\* late provision cannot resurrect a configuration.
IntentMovesForward ==
    [][\A c \in Configs :
          /\ generation'[c] >= generation[c]
          /\ desired[c] = "revoked" => desired'[c] = "revoked" /\ status'[c] # "active"
          /\ status[c] = "revoked" => status'[c] = "revoked"]_vars

\* Each configuration has the lifecycle of VpnAccess: the tasks, calls, leases
\* and workers of this module implement it.
Access(c) ==
    INSTANCE VpnAccess WITH status <- status[c], desired <- desired[c],
                            generation <- generation[c], client <- client[c]

\* Spec implements VpnAccess, for every configuration: in particular access
\* is turned on only in paid time and with the client on the node, and the
\* client of an active configuration is never touched, whatever is late,
\* repeated or lost.
ImplementsAccess ==
    /\ \A c \in Configs : Access(c)!Init
    /\ [][\A c \in Configs : Access(c)!Next \/ UNCHANGED Access(c)!vars]_vars

\* The words of LeasedTask for the phase of a call and the status of a task.
WorkerState(phase) ==
    CASE phase = "waiting"   -> "busy"
      [] phase = "succeeded" -> "succeeded"
      [] phase = "failed"    -> "failed"
      [] OTHER               -> "idle"

TaskState(row) ==
    CASE row = "in_progress" -> "held"
      [] row = "succeeded"   -> "succeeded"
      [] row = "failed"      -> "failed"
      [] OTHER               -> "open"

\* Each task as work under a lease: a claim is an attempt, its worker the
\* process that waits for the call.
Leased(t) == INSTANCE LeasedTask WITH
    Claims <- Attempts,
    task   <- TaskState(task[t]),
    claim  <- attempts[t],
    lease  <- leaseLive[t],
    worker <- [a \in Attempts |-> WorkerState(call[<<t, a>>])]

\* All that Leased(t) looks at; most steps are about other tasks.
RowAndCalls(t) ==
    <<task[t], attempts[t], leaseLive[t], [a \in Attempts |-> call[<<t, a>>]]>>

\* Spec implements LeasedTask, for every task: an attempt is ended by its own
\* worker or after its lease, success is recorded once, in its own attempt and
\* for an answer that this attempt has got, and a task that has come to its
\* end is never claimed again (owns_active_lease, recover_stale).
ImplementsLeasedTask ==
    /\ \A t \in TaskIds : Leased(t)!Init
    /\ [][\A t \in TaskIds : \/ UNCHANGED RowAndCalls(t)
                            \/ UNCHANGED Leased(t)!vars
                            \/ Leased(t)!Next]_vars

\* "cleanup must be a fresh physical operation identity": a provision that
\* succeeds without activating its configuration, and whose client is on the
\* node, leaves a revoke of that client that has not finished yet.
LateProvisionIsCleanedUp ==
    [][\A c \in Configs, g \in Generations :
          LET t == Provision(c, g) IN
          (/\ task[t] = "in_progress" /\ task'[t] = "succeeded"
           /\ status'[c] # "active" /\ client[c])
             => \E h \in Generations :
                    task'[Revoke(c, h)] \in {"pending", "in_progress"}]_vars

-----------------------------------------------------------------------------
(* Fairness.  dispatch_due, recover_stale and the reconciliation run from  *)
(* cron every minute; HTTP calls have a timeout; the clock moves.  A node  *)
(* is not unavailable, without credential or failing for ever, and the     *)
(* worker does not crash in every attempt.                                 *)

\* At most one of the steps of a group is enabled at a time, so fairness of
\* the group is fairness of each step.
Clockwork(t) == RetryDelayOver(t) \/ LeaseRunsOut(t) \/ RecoverStale(t)

WorkerGoesOn(t, a) ==
    \/ CallTimesOut(t, a)
    \/ FinalizeStaleAttempt(t, a)
    \/ FinalizeFailure(t, a)
    \/ \E c \in Configs, g \in Generations :
          \/ t = Provision(c, g) /\ CompleteProvision(c, g, a)
          \/ t = Revoke(c, g) /\ CompleteRevoke(c, g, a)

\* No other task is ever created.
DispatchedTasks ==
    {Provision(c, 1) : c \in Configs}
        \cup {Revoke(c, g) : c \in Configs, g \in Generations \ {1}}

Fairness ==
    /\ \A t \in DispatchedTasks : SF_vars(Prepare(t)) /\ WF_vars(Clockwork(t))
    /\ \A t \in DispatchedTasks, a \in Attempts : WF_vars(WorkerGoesOn(t, a))
    /\ \A c \in Configs :
          /\ WF_vars(RevokeVpn(c, "expiration"))
          /\ WF_vars(status[c] = "failed" /\ RevokeVpn(c, "replacement_cleanup"))

FairSpec == Spec /\ Fairness

\* No configuration waits for the node for ever.
OperationsSettle ==
    \A c \in Configs :
        status[c] \in {"provisioning", "revoking"}
            ~> status[c] \notin {"provisioning", "revoking"}

\* When access has ended for good, every configuration is revoked, or its
\* last permitted revocation has failed.
LostAccessIsRevoked ==
    \A c \in Configs :
        []~CurrentAccess /\ Exists(c)
            ~> status[c] \in {"revoked", "revoke_failed"}

=============================================================================
