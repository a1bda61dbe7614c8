----------------------------- MODULE PanelTask -----------------------------
(***************************************************************************)
(* The life of a VPN configuration that is served by the legacy panel:     *)
(*   ProvisionVpn, RevokeVpn      their panel branches                     *)
(*   DispatchPanelProvisionTask                                            *)
(*           application/use_cases/dispatch_panel_provision_task.py        *)
(*   DispatchPanelRevokeTask                                               *)
(*           application/use_cases/dispatch_panel_revoke_task.py           *)
(*   PanelProvisionTask, PanelRevokeTask  domain/entities/panel_task.py    *)
(*                                                                         *)
(* The panel keeps no journal.  What protects the client is compensation:  *)
(* after a provision whose outcome is in doubt the client is deleted       *)
(* before it is made again.                                                *)
(*                                                                         *)
(* One action is one transaction, or one call of the panel.  A call has    *)
(* its effect at one moment while its caller waits, or none; the answer    *)
(* may be lost.  Jobs may be lost, repeated or late, and a retry delay     *)
(* only postpones a dispatch, so a pending task may be dispatched at any   *)
(* time.  A lease may run out while its owner is alive.                    *)
(***************************************************************************)
EXTENDS Integers

CONSTANTS
    MaxGeneration,  \* bound: VpnConfiguration.generation
    MaxAttempts,    \* panel_task_max_attempts
    MaxClaims,      \* bound: attempts of the provision task, which recovery
                    \* does not limit
    MaxRevokeClaims \* bound: attempts of a revoke task

ASSUME MaxGenerationAssumption == MaxGeneration \in Nat \ {0, 1}
ASSUME MaxAttemptsAssumption   == MaxAttempts \in Nat \ {0}
ASSUME MaxClaimsAssumption     == MaxClaims \in Nat \ {0}
ASSUME MaxRevokeClaimsAssumption == MaxRevokeClaims \in 1..MaxClaims

VARIABLES
    subscription,   \* subscriptions.status
    period,         \* a funded period covers the present moment
    status,         \* vpn_configurations.status
    desired,        \* vpn_configurations.desired_state
    generation,     \* vpn_configurations.generation
    task,           \* status of the panel task of a generation
    attempts,       \* attempts of the task
    lease,          \* lease_expires_at of an in_progress task is ahead
    compensation,   \* panel_provision_tasks.compensation_required
    phase,          \* where the worker of an attempt is
    client,         \* the client exists in the panel
    overtaken       \* history: the calls that were carried out for a worker
                    \* that had lost its task

subVars  == <<subscription, period>>
cfgVars  == <<status, desired, generation>>
taskVars == <<task, attempts, lease, compensation>>
panelVars == <<client, overtaken>>
vars     == <<subVars, cfgVars, taskVars, phase, panelVars>>

\* Task 1 is the one provision task of the configuration, task g > 1 the
\* revoke task of generation g.
Tasks    == 1..MaxGeneration
Revokes  == 2..MaxGeneration
Claims   == 1..MaxClaims

ConfigStatus == {"absent", "provisioning", "active", "failed",
                 "revoking", "revoke_failed", "revoked"}
TaskStatus   == {"absent", "pending", "in_progress", "succeeded", "failed",
                 "cancelled"}
Calling      == {"adding", "deleting"}
Answered     == {"added", "add_failed", "deleted", "delete_failed"}
Phase        == {"none"} \cup Calling \cup Answered
RevokeReason == {"expiration", "force", "replacement_cleanup"}

CurrentAccess == subscription = "active" /\ period

Init ==
    /\ subscription = "active"
    /\ period = TRUE
    /\ status = "absent"
    /\ desired = "active"
    /\ generation = 1
    /\ task = [g \in Tasks |-> "absent"]
    /\ attempts = [g \in Tasks |-> 0]
    /\ lease = [g \in Tasks |-> FALSE]
    /\ compensation = FALSE
    /\ phase = [x \in Tasks \X Claims |-> "none"]
    /\ client = FALSE
    /\ overtaken = {}

-----------------------------------------------------------------------------
(* The subscription, as the clock, payments and refunds move it.           *)

\* Also when the subscription has ended: one of its periods may still run, and
\* one that was paid in advance may still begin.
PeriodChanges ==
    /\ period' = ~period
    /\ UNCHANGED <<subscription, cfgVars, taskVars, phase, panelVars>>

SubscriptionEnds ==
    /\ subscription = "active"
    /\ subscription' = "ended"
    /\ UNCHANGED <<period, cfgVars, taskVars, phase, panelVars>>

-----------------------------------------------------------------------------
(* ProvisionVpn and RevokeVpn                                              *)

\* add_panel_task_entity, add_panel_revoke_task_entity: one task for each
\* configuration and generation, ON CONFLICT DO NOTHING.
AddTask(g) ==
    task' = [task EXCEPT ![g] = IF @ = "absent" THEN "pending" ELSE @]

ProvisionVpn ==
    /\ CurrentAccess
    /\ status = "absent"
    /\ status' = "provisioning"
    /\ AddTask(1)
    /\ UNCHANGED <<subVars, desired, generation, attempts, lease,
                   compensation, phase, panelVars>>

BeginRevoke ==
    /\ generation < MaxGeneration
    /\ status' = "revoking"
    /\ desired' = "revoked"
    /\ generation' = generation + 1

\* A new generation with its task, or the task that the present one lacks:
\* a dispatcher that cancels a provision creates none.
Revokable ==
    \/ /\ status \in {"active", "revoke_failed", "provisioning", "failed"}
       /\ BeginRevoke
       /\ AddTask(generation + 1)
    \/ /\ status = "revoking" /\ task[generation] = "absent"
       /\ AddTask(generation)
       /\ UNCHANGED cfgVars

\* An expiration job that has missed a payment for which it waited does what a
\* forced one does, which may come at any time (see Reconciliation).
RevokeVpn(reason) ==
    /\ reason = "expiration" => ~CurrentAccess
    /\ Revokable
    /\ UNCHANGED <<subVars, attempts, lease, compensation, phase, panelVars>>

-----------------------------------------------------------------------------
(* The claim of a task: _prepare of both dispatchers.                      *)

\* start_attempt: the token is fresh, as the number of the attempt is.
StartAttempt(g, call) ==
    /\ task[g] = "pending"
    /\ task' = [task EXCEPT ![g] = "in_progress"]
    /\ attempts' = [attempts EXCEPT ![g] = @ + 1]
    /\ lease' = [lease EXCEPT ![g] = TRUE]
    /\ phase' = [phase EXCEPT ![<<g, attempts[g] + 1>>] = call]
    /\ UNCHANGED <<subVars, cfgVars, compensation, panelVars>>

PrepareProvision ==
    /\ attempts[1] < MaxClaims
    /\ StartAttempt(1, IF compensation THEN "deleting" ELSE "adding")

PrepareRevoke(g) ==
    /\ g \in Revokes
    /\ attempts[g] < MaxRevokeClaims
    /\ StartAttempt(g, "deleting")

\* Mutant: the token is not compared.
OwnsAnyLease(g, a) == task[g] = "in_progress"

owns_lease(g, a) == task[g] = "in_progress" /\ attempts[g] = a

-----------------------------------------------------------------------------
(* The panel: XuiClient.add_client and delete_client.                      *)

Move(g, a, p) == phase' = [phase EXCEPT ![<<g, a>>] = p]

\* The call of a worker that has lost its task is remembered.
Carry(g, a) ==
    /\ client' = (phase[<<g, a>>] = "adding")
    /\ overtaken' = IF owns_lease(g, a) THEN overtaken
                    ELSE overtaken \cup {phase[<<g, a>>]}

CallSucceeds(g, a) ==
    /\ \/ phase[<<g, a>>] = "adding" /\ Move(g, a, "added")
       \/ phase[<<g, a>>] = "deleting" /\ Move(g, a, "deleted")
    /\ Carry(g, a)
    /\ UNCHANGED <<subVars, cfgVars, taskVars>>

\* Refused, lost, timed out or not verified: with or without its effect.
CallFails(g, a) ==
    /\ \/ phase[<<g, a>>] = "adding" /\ Move(g, a, "add_failed")
       \/ phase[<<g, a>>] = "deleting" /\ Move(g, a, "delete_failed")
    /\ Carry(g, a) \/ UNCHANGED panelVars
    /\ UNCHANGED <<subVars, cfgVars, taskVars>>

\* The worker stops, or cannot write what it has learnt.
WorkerStops(g, a) ==
    /\ phase[<<g, a>>] # "none"
    /\ Move(g, a, "none")
    /\ UNCHANGED <<subVars, cfgVars, taskVars, panelVars>>

-----------------------------------------------------------------------------
(* Finalization                                                            *)

CurrentProvision ==
    generation = 1 /\ desired = "active" /\ status = "provisioning"

CurrentRevoke(g) ==
    g = generation /\ desired = "revoked" /\ status = "revoking"

\* complete, cancel and fail end a task; retry and require_compensation
\* hand it back.
Release(g, s) ==
    /\ task' = [task EXCEPT ![g] = s]
    /\ lease' = [lease EXCEPT ![g] = FALSE]

\* Another worker's task: the outcome is dropped.
LeaseLost(g, a) ==
    /\ phase[<<g, a>>] \in Answered
    /\ ~owns_lease(g, a)
    /\ Move(g, a, "none")
    /\ UNCHANGED <<subVars, cfgVars, taskVars, panelVars>>

\* Mutant: the paid period is not looked at.
ActivatableUnpaid == CurrentProvision

Activatable == CurrentProvision /\ period

\* Mutant: a client that was made too late is left in the panel.
CancelWithoutDeletion(a) ==
    Release(1, "cancelled") /\ Move(1, a, "none") /\ UNCHANGED compensation

\* mark_compensation_required, and the deletion by the same worker.
DeleteWhatWasMade(a) ==
    compensation' = TRUE /\ Move(1, a, "deleting") /\ UNCHANGED <<task, lease>>

\* _finalize_provision_success: activate, or delete what was made.
FinalizeProvisionSuccess(a) ==
    /\ phase[<<1, a>>] = "added"
    /\ owns_lease(1, a)
    /\ \/ /\ lease[1] /\ Activatable
          /\ status' = "active"
          /\ Release(1, "succeeded")
          /\ compensation' = FALSE
          /\ Move(1, a, "none")
          /\ UNCHANGED <<desired, generation>>
       \/ /\ lease[1] /\ CurrentProvision /\ ~Activatable
          /\ BeginRevoke
          /\ DeleteWhatWasMade(a)
       \/ /\ ~lease[1] \/ ~CurrentProvision
          /\ DeleteWhatWasMade(a)
          /\ UNCHANGED cfgVars
    /\ UNCHANGED <<subVars, attempts, panelVars>>

\* The transaction raises: the client is deleted, whoever owns the task.
CompensateAfterLocalFailure(a) ==
    /\ phase[<<1, a>>] = "added"
    /\ Move(1, a, "deleting")
    /\ UNCHANGED <<subVars, cfgVars, taskVars, panelVars>>

MarkConfigurationFailure(g) ==
    status' = IF g = 1 /\ CurrentProvision THEN "failed"
              ELSE IF g > 1 /\ CurrentRevoke(g) THEN "revoke_failed"
              ELSE status

\* retry, which fails the task in its last attempt.
RetryOrFail(g) ==
    \/ /\ attempts[g] >= MaxAttempts
       /\ Release(g, "failed")
       /\ MarkConfigurationFailure(g)
    \/ /\ attempts[g] < MaxAttempts
       /\ Release(g, "pending")
       /\ UNCHANGED status

\* The time of the lease is not looked at.
AttemptFails(g, a) ==
    /\ owns_lease(g, a)
    /\ RetryOrFail(g)
    /\ Move(g, a, "none")
    /\ UNCHANGED <<subVars, desired, generation, attempts, compensation, panelVars>>

FinalizeRemoteFailure(a) ==
    phase[<<1, a>>] = "add_failed" /\ AttemptFails(1, a)

FinalizeRevokeFailure(g, a) ==
    g \in Revokes /\ phase[<<g, a>>] = "delete_failed" /\ AttemptFails(g, a)

\* _record_compensation_failure: at once again, whatever the attempts.
RecordCompensationFailure(a) ==
    /\ phase[<<1, a>>] = "delete_failed"
    /\ owns_lease(1, a)
    /\ Release(1, "pending")
    /\ compensation' = TRUE
    /\ Move(1, a, "none")
    /\ UNCHANGED <<subVars, cfgVars, attempts, panelVars>>

\* Mutant: a cancelled provision is compensated, its row stays revoking.
CompletesNothing == FALSE

completes_cancelled_provision == CurrentRevoke(2)

\* desired_state is revoked exactly when the generation is no longer 1.
terminal_local_state == generation # 1 \/ desired = "revoked"

RecordCompensationSuccess(a) ==
    /\ phase[<<1, a>>] = "deleted"
    /\ owns_lease(1, a)
    /\ \/ /\ terminal_local_state
          /\ Release(1, "cancelled")
          /\ status' = IF completes_cancelled_provision THEN "revoked" ELSE status
       \/ /\ ~terminal_local_state /\ attempts[1] >= MaxAttempts
          /\ Release(1, "failed")
          /\ MarkConfigurationFailure(1)
       \/ /\ ~terminal_local_state /\ attempts[1] < MaxAttempts
          /\ Release(1, "pending")
          /\ UNCHANGED status
    /\ compensation' = FALSE
    /\ Move(1, a, "none")
    /\ UNCHANGED <<subVars, desired, generation, attempts, panelVars>>

\* A revocation counts only while the lease runs.
FinalizeRevokeSuccess(g, a) ==
    /\ g \in Revokes /\ phase[<<g, a>>] = "deleted"
    /\ owns_lease(g, a)
    /\ \/ /\ lease[g]
          /\ Release(g, "succeeded")
          /\ status' = IF CurrentRevoke(g) THEN "revoked" ELSE status
       \/ /\ ~lease[g]
          /\ UNCHANGED <<task, lease, status>>
    /\ Move(g, a, "none")
    /\ UNCHANGED <<subVars, desired, generation, attempts, compensation, panelVars>>

-----------------------------------------------------------------------------
(* recover_stale of both dispatchers.                                      *)

LeaseRunsOut(g) ==
    /\ lease[g]
    /\ lease' = [lease EXCEPT ![g] = FALSE]
    /\ UNCHANGED <<subVars, cfgVars, task, attempts, compensation, phase, panelVars>>

\* recover_expired_lease, which looks at no attempts.
RecoverLease(g) ==
    /\ task[g] = "in_progress" /\ ~lease[g]
    /\ task' = [task EXCEPT ![g] = "pending"]
    /\ UNCHANGED <<subVars, cfgVars, attempts, lease, phase, panelVars>>

\* Nobody knows whether the client was made.
RecoverProvision == RecoverLease(1) /\ compensation' = TRUE

RecoverRevoke(g) == g \in Revokes /\ RecoverLease(g) /\ UNCHANGED compensation

-----------------------------------------------------------------------------

Finalize(g, a) ==
    \/ LeaseLost(g, a)
    \/ FinalizeRevokeSuccess(g, a) \/ FinalizeRevokeFailure(g, a)
    \/ /\ g = 1
       /\ \/ FinalizeProvisionSuccess(a) \/ FinalizeRemoteFailure(a)
          \/ RecordCompensationSuccess(a) \/ RecordCompensationFailure(a)

Next ==
    \/ PeriodChanges \/ SubscriptionEnds
    \/ ProvisionVpn
    \/ \E r \in RevokeReason : RevokeVpn(r)
    \/ PrepareProvision \/ RecoverProvision
    \/ \E g \in Revokes : PrepareRevoke(g) \/ RecoverRevoke(g)
    \/ \E g \in Tasks : LeaseRunsOut(g)
    \/ \E g \in Tasks, a \in Claims :
          CallSucceeds(g, a) \/ CallFails(g, a) \/ WorkerStops(g, a)
    \/ \E g \in Tasks, a \in Claims : Finalize(g, a)
    \/ \E a \in Claims : CompensateAfterLocalFailure(a)

Spec == Init /\ [][Next]_vars

-----------------------------------------------------------------------------
(* Properties                                                              *)

\* Rows hold the values of their check constraints; only a task that is in
\* progress has a lease.
TypeOK ==
    /\ subscription \in {"active", "ended"}
    /\ period \in BOOLEAN
    /\ status \in ConfigStatus
    /\ desired \in {"active", "revoked"}
    /\ generation \in Tasks
    /\ task \in [Tasks -> TaskStatus]
    /\ attempts \in [Tasks -> 0..MaxClaims]
    /\ lease \in [Tasks -> BOOLEAN]
    /\ compensation \in BOOLEAN
    /\ phase \in [Tasks \X Claims -> Phase]
    /\ client \in BOOLEAN
    /\ overtaken \in SUBSET Calling
    /\ \A g \in Tasks : lease[g] => task[g] = "in_progress"

\* No configuration is stranded: a row that waits has a task that works for
\* it, and a row that has settled has the task that settled it.  A revoking
\* row may be served by the compensation of its provision alone, without a
\* revoke task (dispatch_panel_provision_task.py, revoke_vpn.py).
TaskFollowsConfiguration ==
    LET open == {"pending", "in_progress"}
        byCompensation(s) == generation = 2 /\ task[1] \in s
    IN  /\ status = "provisioning"  => task[1] \in open
        /\ status = "active"        => task[1] = "succeeded"
        /\ status = "failed"        => task[1] = "failed"
        /\ status = "revoking" =>
              \/ task[generation] \in open
              \/ /\ task[generation] = "absent"
                 /\ compensation /\ byCompensation(open)
        /\ status = "revoke_failed" => task[generation] = "failed"
        /\ status = "revoked" =>
              task[generation] = "succeeded" \/ byCompensation({"cancelled"})

\* An active configuration has its client in the panel, unless a worker that
\* had lost its task deleted it: calls of the panel are not fenced.  Retries
\* and compensation alone never take the client away.
ActiveClientInPanel ==
    status = "active" /\ "deleting" \notin overtaken => client

\* A revoked configuration leaves no client behind, unless a worker that had
\* lost its task made it or the last answer of its provision was lost: a
\* provision that finishes during or after the revocation deletes what it
\* has made.
NoClientAfterRevocation ==
    /\ status = "revoked" /\ task[1] \in {"succeeded", "cancelled"}
    /\ "adding" \notin overtaken
    => ~client

\* The configuration has the lifecycle of VpnAccess, with a client that a
\* worker without its task has deleted counted as there.
Access == INSTANCE VpnAccess WITH client <- client \/ "deleting" \in overtaken

\* Spec implements VpnAccess: the panel turns access on only in paid time and
\* with the client made, and neither retries nor compensation nor recovery
\* revives a configuration that was cancelled, or skips its revocation.
ImplementsAccess == Access!Spec

=============================================================================
