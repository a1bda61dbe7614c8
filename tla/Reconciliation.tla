--------------------------- MODULE Reconciliation ---------------------------
(***************************************************************************)
(* The periodic repair of subscriptions and configurations:                *)
(*   ReconcileSubscriptions   application/use_cases/sync_subscriptions.py  *)
(*   MaintenanceRepository                                                 *)
(*                  infrastructure/persistence/repositories/maintenance.py *)
(* and the jobs it queues, ProvisionVpn and RevokeVpn.                     *)
(*                                                                         *)
(* One subscription and its latest configuration, both with entity id 1,   *)
(* among others that are always listed: a subscription stays listed while  *)
(* it waits for node capacity.  Several worker processes may run the job.  *)
(* One action is one transaction, one call of the queue, or one job; what  *)
(* a job may miss that reads its clock before it waits is in `overtaken`.  *)
(***************************************************************************)
EXTENDS Integers, FiniteSets

CONSTANTS
    MaxWorkers,  \* the processes that run the job
    BatchSize,   \* ReconcileSubscriptions.batch_size
    MaxBatches,  \* ReconcileSubscriptions.max_batches_per_run
    MaxFaults,   \* bound: the faults of a behaviour
    Others       \* anomalies of other subscriptions that stay, <<order, id>>

ASSUME WorkersAssumption == MaxWorkers \in Nat \ {0}
ASSUME BatchesAssumption == BatchSize \in Nat \ {0} /\ MaxBatches \in Nat \ {0}
ASSUME FaultsAssumption  == MaxFaults \in Nat
ASSUME OthersAssumption  == IsFiniteSet(Others) /\ Others \subseteq {4} \X {0, 2}

VARIABLES
    sub,      \* subscriptions.status
    funded,   \* a paid period covers the present moment
    status,   \* vpn_configurations.status
    task,     \* the task of the configuration's operation and generation
    jobs,     \* jobs of the subscription and the configuration, not yet run
    owner,    \* maintenance_leases.owner_token
    live,     \* lease_expires_at is ahead
    phase,    \* where the run of a worker is
    batch,    \* the anomalies of its batch it has still to handle
    cursor,   \* the last anomaly of its batch
    full,     \* the batch was as long as batch_size
    batches,  \* the batches of the run
    covered,  \* a paid period covers batch_now of the run after all
    faults    \* history: the faults that have happened

accessVars == <<sub, funded>>
cfgVars    == <<status, task>>
leaseVars  == <<owner, live>>
runVars    == <<phase, batch, cursor, full, batches>>
vars == <<accessVars, cfgVars, jobs, leaseVars, runVars, covered, faults>>

ConfigStatus == {"absent", "provisioning", "active", "failed",
                 "revoking", "revoke_failed", "revoked"}
TaskStatus   == {"absent", "open", "succeeded", "failed", "cancelled"}
Phase        == {"idle", "listing", "working", "renewing", "releasing"}

\* An expiration job is overtaken when it has read `now`, and a period that it
\* will not find at that `now` begins before it holds the lock.
RevokeJobs   == {"expiration", "overtaken", "force"}
Jobs         == {"provision"} \cup RevokeJobs
Faults       == {"stop", "overrun", "refused"}

\* A run has a fresh token; the number of its worker stands for it.
Workers == 1..MaxWorkers
NoOwner == 0     \* there is no row
Orphan  == -1    \* the token of a run that has died

CurrentAccess == sub = "active" /\ funded

\* Rows that have lost their task or that a task has left behind, as older
\* releases could leave them, are there to be repaired.
Init ==
    /\ sub = "active" /\ funded = TRUE
    /\ \/ status = "absent" /\ task = "absent"
       \/ status = "provisioning" /\ task \in TaskStatus \ {"open"}
       \/ status = "revoking" /\ task \in {"absent", "succeeded"}
    /\ jobs = {}
    /\ owner = NoOwner /\ live = FALSE
    /\ phase = [w \in Workers |-> "idle"]
    /\ batch = [w \in Workers |-> {}]
    /\ cursor = [w \in Workers |-> <<0, 0>>]
    /\ full = [w \in Workers |-> FALSE]
    /\ batches = [w \in Workers |-> 0]
    /\ covered = [w \in Workers |-> FALSE]
    /\ faults = {}

\* Each kind of fault happens once, so that a behaviour has an end of them.
Fault(f) ==
    /\ f \notin faults /\ Cardinality(faults) < MaxFaults
    /\ faults' = faults \cup {f}

-----------------------------------------------------------------------------
(* list_reconciliation_anomalies                                           *)

\* Mutant: a revocation that has failed is not listed.
RemoteLiveUnfailed == {"provisioning", "active", "failed"}

\* _REMOTE_LIVE_VPN_STATUSES
RemoteLive == {"provisioning", "active", "failed", "revoke_failed"}

\* A provision without a task, or with one that has come to its end.
ProvisionNeedsRepair ==
    status = "provisioning" /\ CurrentAccess /\ task # "open"

\* The same for a revocation; after a task that has failed there is a row
\* that says so.
RevokeNeedsRepair == status = "revoking" /\ task \in {"absent", "succeeded"}

\* The six kinds, by their order: expire_subscription, revoke_vpn,
\* cleanup_vpn, provision_subscription, repair_provision, repair_revoke.
Anomaly(kind) ==
    CASE kind = 1 -> sub = "active" /\ ~funded
      [] kind = 2 -> status \in RemoteLive /\ ~CurrentAccess
      [] kind = 3 -> status = "failed" /\ CurrentAccess
      [] kind = 4 -> status \in {"absent", "revoked"} /\ CurrentAccess
      [] kind = 5 -> ProvisionNeedsRepair
      [] kind = 6 -> RevokeNeedsRepair

Anomalies == {<<k, 1>> : k \in {k \in 1..6 : Anomaly(k)}} \cup Others

\* Mutant: the cursor is compared by its order alone.
LaterKind(a, b) == a[1] < b[1]

\* ORDER BY kind_order, entity_id, and the same comparison for the cursor.
Precedes(a, b) == a[1] < b[1] \/ (a[1] = b[1] /\ a[2] < b[2])

\* The first batch_size anomalies behind the cursor.
Listed(c) ==
    LET rest == {a \in Anomalies : Precedes(c, a)} IN
    {a \in rest : Cardinality({b \in rest : Precedes(b, a)}) < BatchSize}

IsLast(a, set)  == a \in set /\ \A b \in set \ {a} : Precedes(b, a)
IsFirst(a, set) == a \in set /\ \A b \in set \ {a} : Precedes(a, b)

-----------------------------------------------------------------------------
(* ReconcileSubscriptions.execute                                          *)

\* Mutant: the expiry of the lease is not looked at.
LeaseFreeAlways == TRUE

LeaseFree == owner = NoOwner \/ ~live

\* A run has left its loop; its variables begin with these values.
LeaveLoop(w, next) ==
    /\ phase' = [phase EXCEPT ![w] = next]
    /\ batch' = [batch EXCEPT ![w] = {}]
    /\ cursor' = [cursor EXCEPT ![w] = <<0, 0>>]
    /\ full' = [full EXCEPT ![w] = FALSE]
    /\ batches' = [batches EXCEPT ![w] = 0]
    /\ covered' = [covered EXCEPT ![w] = FALSE]

\* Idle workers are alike: the first of them stands for all.
acquire_lease(w) ==
    /\ phase[w] = "idle"
    /\ \A v \in Workers : v < w => phase[v] # "idle"
    /\ LeaseFree
    /\ owner' = w /\ live' = TRUE
    /\ phase' = [phase EXCEPT ![w] = "listing"]
    /\ UNCHANGED <<accessVars, cfgVars, jobs, batch, cursor, full, batches,
                   covered, faults>>

\* batch_now is read, and the batch listed at it.
ListBatch(w) ==
    /\ phase[w] = "listing"
    /\ LET found == Listed(cursor[w]) IN
       \/ found = {} /\ LeaveLoop(w, "releasing")
       \/ /\ phase' = [phase EXCEPT ![w] = "working"]
          /\ batch' = [batch EXCEPT ![w] = found]
          /\ \E a \in found :
                IsLast(a, found) /\ cursor' = [cursor EXCEPT ![w] = a]
          /\ full' = [full EXCEPT ![w] = Cardinality(found) = BatchSize]
          /\ UNCHANGED <<batches, covered>>
    /\ UNCHANGED <<accessVars, cfgVars, jobs, leaseVars, faults>>

Handled(w, a) ==
    /\ phase[w] = "working"
    /\ IsFirst(a, batch[w])
    /\ batch' = [batch EXCEPT ![w] = @ \ {a}]
    /\ phase' = [phase EXCEPT ![w] = IF batch[w] = {a} THEN "renewing" ELSE @]
    /\ covered' = [covered EXCEPT ![w] = FALSE]
    /\ UNCHANGED <<cfgVars, leaseVars, cursor, full, batches>>

\* _expire_subscription: the period is looked up at batch_now.
ExpireSubscription(w) ==
    /\ Handled(w, <<1, 1>>)
    /\ sub' = IF covered[w] THEN sub ELSE "ended"
    /\ UNCHANGED <<funded, jobs, faults>>

\* "force" stands for the reason replacement_cleanup too: RevokeVpn treats
\* them alike.
JobOf(kind) ==
    CASE kind = 2 -> "expiration"
      [] kind \in {3, 6} -> "force"
      [] OTHER    -> "provision"

\* A job for another subscription is of no concern here.
EnqueueAnomaly(w, a) ==
    /\ Handled(w, a)
    /\ a # <<1, 1>>
    /\ jobs' = IF a[2] = 1 THEN jobs \cup {JobOf(a[1])} ELSE jobs
    /\ UNCHANGED <<accessVars, faults>>

\* The exception is caught, and counted; or the queue loses the job.
EnqueueFails(w, a) ==
    /\ Handled(w, a)
    /\ a # <<1, 1>> /\ a[2] = 1
    /\ Fault("refused")
    /\ UNCHANGED <<accessVars, jobs>>

NextBatch(w) ==
    /\ phase' = [phase EXCEPT ![w] = "listing"]
    /\ batches' = [batches EXCEPT ![w] = @ + 1]
    /\ UNCHANGED <<batch, cursor, full, covered>>

\* renew_lease compares the token and not the expiry.  The run goes on when
\* it is still the owner, the batch was full and the bound is not reached.
renew_lease(w) ==
    /\ phase[w] = "renewing"
    /\ live' = (live \/ owner = w)
    /\ IF owner = w /\ full[w] /\ batches[w] + 1 < MaxBatches
       THEN NextBatch(w) ELSE LeaveLoop(w, "releasing")
    /\ UNCHANGED <<accessVars, cfgVars, jobs, owner, faults>>

\* Mutant: the row is deleted whoever owns it.
release_any_lease(w) ==
    /\ phase[w] = "releasing"
    /\ owner' = NoOwner /\ live' = FALSE
    /\ LeaveLoop(w, "idle")
    /\ UNCHANGED <<accessVars, cfgVars, jobs, faults>>

release_lease(w) ==
    /\ phase[w] = "releasing"
    /\ owner' = IF owner = w THEN NoOwner ELSE owner
    /\ live' = (live /\ owner # w)
    /\ LeaveLoop(w, "idle")
    /\ UNCHANGED <<accessVars, cfgVars, jobs, faults>>

\* An exception of the database: the lease is released in any case.
RunFails(w) ==
    /\ phase[w] \in {"listing", "working", "renewing"}
    /\ Fault("stop")
    /\ LeaveLoop(w, "releasing")
    /\ UNCHANGED <<accessVars, cfgVars, jobs, leaseVars>>

\* The process dies, and nobody has its token any more.
WorkerCrashes(w) ==
    /\ phase[w] # "idle"
    /\ Fault("stop")
    /\ LeaveLoop(w, "idle")
    /\ owner' = IF owner = w THEN Orphan ELSE owner
    /\ UNCHANGED <<accessVars, cfgVars, jobs, live>>

\* lease_seconds are over; while the owner lives, it has overrun its lease.
LeaseRunsOut ==
    /\ live
    /\ live' = FALSE
    /\ IF owner \in Workers THEN Fault("overrun") ELSE UNCHANGED faults
    /\ UNCHANGED <<accessVars, cfgVars, jobs, owner, runVars, covered>>

-----------------------------------------------------------------------------
(* The jobs.  A job may be late, and is repeated when it is queued again.  *)

Taken(j) == jobs' = jobs \ {j}

\* Jobs and anomalies of a configuration that has reached its end have no
\* effect any more: its successor has another id.
AsOther(a) == IF a[1] \in {2, 3, 6} THEN <<a[1], 2>> ELSE a

EndConfiguration ==
    /\ status' = "revoked"
    /\ jobs' = jobs \ RevokeJobs
    /\ batch' = [w \in Workers |-> {AsOther(a) : a \in batch[w]}]
    /\ UNCHANGED <<phase, cursor, full, batches>>

\* Mutant: the access is not looked at.
RevokesAnyAccess(j) == TRUE

\* With the reason expiration RevokeVpn looks under the lock of the subscription
\* for its status and for a period at the `now` with which it began: one that is
\* overtaken finds none.  All other reasons do not look.
Revokes(j) == j = "expiration" => ~CurrentAccess

RevokeVpn(j) ==
    /\ j \in jobs \cap RevokeJobs
    /\ \/ /\ Revokes(j)
          /\ \/ /\ status \in {"active", "revoke_failed", "provisioning",
                               "failed"}
                /\ status' = "revoking" /\ task' = "open"
                /\ Taken(j) /\ UNCHANGED runVars
             \/ /\ status = "revoking" /\ task = "absent"
                /\ task' = "open"
                /\ Taken(j) /\ UNCHANGED <<status, runVars>>
             \/ /\ status = "revoking" /\ task = "succeeded"
                /\ EndConfiguration
                /\ UNCHANGED task
       \/ /\ ~Revokes(j) \/ (status = "revoking" /\ task = "open")
          /\ Taken(j)
          /\ UNCHANGED <<cfgVars, runVars>>
    /\ UNCHANGED <<accessVars, leaseVars, covered, faults>>

\* ProvisionVpn makes a configuration, or takes up the one it finds.
Provision ==
    \/ /\ status \in {"absent", "revoked"}
       /\ status' = "provisioning" /\ task' = "open"
       /\ Taken("provision")
    \/ /\ status = "provisioning" /\ task = "absent"
       /\ task' = "open"
       /\ Taken("provision") /\ UNCHANGED status
    \/ /\ status = "provisioning" /\ task = "succeeded"
       /\ status' = "active"
       /\ Taken("provision") /\ UNCHANGED task
    \/ /\ \/ status = "failed"
          \/ status = "provisioning" /\ task \in {"failed", "cancelled"}
       /\ jobs' = (jobs \ {"provision"}) \cup {"force"}
       /\ UNCHANGED cfgVars

ProvisionVpn ==
    /\ "provision" \in jobs
    /\ CurrentAccess /\ Provision
    /\ UNCHANGED <<accessVars, leaseVars, runVars, covered, faults>>

\* No access, nothing to do, or waiting_for_node_capacity.
ProvisionVpnSkips ==
    /\ "provision" \in jobs
    /\ Taken("provision")
    /\ \/ ~CurrentAccess
       \/ status \in {"absent", "revoked", "active", "revoking",
                      "revoke_failed"}
       \/ status = "provisioning" /\ task = "open"
    /\ UNCHANGED <<accessVars, cfgVars, leaseVars, runVars, covered, faults>>

-----------------------------------------------------------------------------
(* The dispatchers of the tasks (VpnNode, PanelTask), payments, refunds    *)
(* and the clock.                                                          *)

TaskSucceeds ==
    /\ task = "open"
    /\ task' = "succeeded"
    /\ \/ /\ status = "provisioning" /\ funded
          /\ status' = "active"
          /\ UNCHANGED <<jobs, runVars>>
       \/ status = "revoking" /\ EndConfiguration
    /\ UNCHANGED <<accessVars, leaseVars, covered, faults>>

TaskFails ==
    /\ task = "open"
    /\ task' = "failed"
    /\ \/ status = "provisioning" /\ status' = "failed"
       \/ status = "revoking" /\ status' = "revoke_failed"
    /\ UNCHANGED <<accessVars, jobs, leaseVars, runVars, covered, faults>>

\* The dispatcher that finds no period cancels the provision and begins a new
\* generation.  That of nodes adds the task which revokes it; that of panels
\* leaves it to the reconciliation.
DispatchCancels ==
    /\ status = "provisioning" /\ task = "open"
    /\ ~funded
    /\ status' = "revoking" /\ task' \in {"open", "absent"}
    /\ UNCHANGED <<accessVars, jobs, leaseVars, runVars, covered, faults>>

\* An expiration job that began without a period looks at the present all the
\* same, unless a period begins; one that began with a period skips even if that
\* has lapsed, which is a run of the job at its beginning.  So this is all that
\* its wait between `now` and the lock can change.
Overtaken == {IF j = "expiration" THEN "overtaken" ELSE j : j \in jobs}

\* Without a period an overtaken job is like any other.
CaughtUp == {IF j = "overtaken" THEN "expiration" ELSE j : j \in jobs}

\* A payment, which queues the provision, or a period paid in advance, which
\* begins also when the subscription has ended.  It may begin before batch_now
\* of a batch that was listed without it: the clock of the payment was read
\* earlier than it was committed.  And it may begin after the `now` of a job that
\* waits, which matters while the subscription has not ended.
PeriodBegins ==
    /\ ~funded
    /\ funded' = TRUE
    /\ \/ jobs' = jobs
       \/ /\ sub = "active"
          /\ jobs' \in {Overtaken, jobs \cup {"provision"}, Overtaken \cup {"provision"}}
    /\ covered' \in {covered, [w \in Workers |-> <<1, 1>> \in batch[w]]}
    /\ UNCHANGED <<sub, cfgVars, leaseVars, runVars, faults>>

PeriodLapses ==
    /\ funded
    /\ funded' = FALSE
    /\ jobs' = CaughtUp
    /\ UNCHANGED <<sub, cfgVars, leaseVars, runVars, covered, faults>>

\* The period is no longer paid, at no moment.
PeriodIsRefunded ==
    /\ funded
    /\ funded' = FALSE
    /\ covered' = [w \in Workers |-> FALSE]
    /\ sub' \in {sub, "ended"}
    /\ jobs' \in {CaughtUp, IF status = "active" THEN CaughtUp \cup {"expiration"}
                                                 ELSE CaughtUp}
    /\ UNCHANGED <<cfgVars, leaseVars, runVars, faults>>

-----------------------------------------------------------------------------

Run(w) ==
    \/ ListBatch(w) \/ ExpireSubscription(w)
    \/ \E a \in batch[w] : EnqueueAnomaly(w, a)
    \/ renew_lease(w) \/ release_lease(w)

RunJob == ProvisionVpn \/ ProvisionVpnSkips \/ \E j \in RevokeJobs : RevokeVpn(j)

Next ==
    \/ \E w \in Workers :
          \/ acquire_lease(w) \/ Run(w)
          \/ RunFails(w) \/ WorkerCrashes(w)
          \/ \E a \in batch[w] : EnqueueFails(w, a)
    \/ LeaseRunsOut
    \/ RunJob
    \/ TaskSucceeds \/ TaskFails \/ DispatchCancels
    \/ PeriodBegins \/ PeriodLapses \/ PeriodIsRefunded

Spec == Init /\ [][Next]_vars

-----------------------------------------------------------------------------
(* Properties                                                              *)

\* Rows, jobs and runs hold only the values of the code; a run that is not
\* working on a batch has none, and one that is has some of it left.
TypeOK ==
    /\ sub \in {"active", "ended"} /\ funded \in BOOLEAN
    /\ status \in ConfigStatus /\ task \in TaskStatus
    /\ jobs \subseteq Jobs
    /\ owner \in Workers \cup {NoOwner, Orphan} /\ live \in BOOLEAN
    /\ phase \in [Workers -> Phase]
    /\ batch \in [Workers -> SUBSET ((1..6) \X (0..2))]
    /\ cursor \in [Workers -> (0..6) \X (0..2)]
    /\ full \in [Workers -> BOOLEAN]
    /\ batches \in [Workers -> 0..MaxBatches]
    /\ covered \in [Workers -> BOOLEAN]
    /\ faults \subseteq Faults
    /\ \A w \in Workers : batch[w] # {} <=> phase[w] = "working"

\* Without an overrun there is one run at a time, whatever workers die: who
\* is at work owns the lease (acquire_lease, renew_lease, release_lease).
RunsDoNotOverlap ==
    "overrun" \notin faults
        => \A w \in Workers : phase[w] # "idle" => owner = w

RunLease == INSTANCE Lease WITH
    Nobody <- NoOwner,
    Lost   <- Orphan,
    atWork <- {w \in Workers : phase[w] # "idle"}

\* Spec implements Lease: a run keeps its lease until it ends or the lease
\* runs out, and neither a competitor nor the renewal or the end of a run that
\* was overtaken touches it (acquire_lease, renew_lease, release_lease).
ImplementsLease == RunLease!Spec

\* Configurations in use by a subscription with access are left alone, however
\* late or often the jobs of an earlier lapse are run, but by one job: that
\* whose clock was read before the period began (RevokeVpn._prepare_plan, the
\* branch of the reason expiration, with `now` from execute).  What an
\* administrator forces is in VpnNode and PanelTask.
PaidAccessIsKept ==
    [][status = "active" /\ CurrentAccess /\ status' # "active"
          => "overtaken" \in jobs \ jobs']_vars

-----------------------------------------------------------------------------
(* Fairness.  The job runs from cron, transactions and jobs come to their  *)
(* end, and time passes.  Faults do not go on for ever.  A node has room,  *)
(* and carries out what it is asked for, every now and then.               *)

\* At most one of the two is enabled at a time.
NextRun == (LeaseRunsOut /\ owner = Orphan) \/ \E w \in Workers : acquire_lease(w)

Fairness ==
    /\ WF_vars(NextRun)
    /\ \A w \in Workers : WF_vars(Run(w))
    /\ WF_vars(\E j \in RevokeJobs : RevokeVpn(j))
    /\ SF_vars(ProvisionVpn)
    /\ SF_vars(status = "provisioning" /\ TaskSucceeds)
    /\ SF_vars(status = "revoking" /\ TaskSucceeds)

FairSpec == Spec /\ Fairness

\* The anomalies that stay leave room for others in a run of all batches.
NotCrowdedOut == Cardinality(Others) < BatchSize * MaxBatches

\* When access is lost for good the subscription is ended and its last
\* configuration removed, however often the revocation fails: the
\* reconciliation begins it again.
LostAccessIsRemoved ==
    NotCrowdedOut =>
        (<>[]~CurrentAccess
            => []<>(sub = "ended" /\ status \in {"absent", "revoked"}))

\* With access there is a working configuration in the end, whatever state
\* the last one was left in and however often provisions fail; but nothing
\* repeats a revocation that has failed once access is back.
EntitledIsServed ==
    NotCrowdedOut =>
        (<>[]CurrentAccess => []<>(status \in {"active", "revoke_failed"}))

=============================================================================
