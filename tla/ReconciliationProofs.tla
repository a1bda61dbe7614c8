------------------------ MODULE ReconciliationProofs ------------------------
(***************************************************************************)
(* Runs of the reconciliation for any number of workers, batches, faults   *)
(* and other anomalies: the lease keeps runs apart, and of the jobs of an  *)
(* earlier lapse only one that has read its clock before the period began  *)
(* takes away access that is paid for.                                     *)
(***************************************************************************)
EXTENDS Reconciliation, TLAPS

\* Who is at work owns a lease that has not run out, unless one has.
OwnerIsAtWork ==
    "overrun" \notin faults
        => \A w \in Workers : phase[w] # "idle" => owner = w /\ live

\* The configuration is on its way out.
Leaving ==
    \/ status \in {"failed", "revoking", "revoke_failed"}
    \/ status = "provisioning" /\ task \in {"failed", "cancelled"}

\* A revocation that does not look at access is asked for only then.
ForceIsForLeaving ==
    /\ "force" \in jobs => Leaving
    /\ \A w \in Workers, k \in {3, 6} : <<k, 1>> \in batch[w] => Leaving

Inv == TypeOK /\ OwnerIsAtWork /\ ForceIsForLeaving

USE WorkersAssumption, BatchesAssumption, FaultsAssumption, OthersAssumption

Kinds == (1..6) \X (0..2)

-----------------------------------------------------------------------------

LEMMA WorkersType == Workers \subseteq Nat \ {0} /\ NoOwner \notin Workers /\ Orphan \notin Workers
  BY DEF Workers, NoOwner, Orphan

LEMMA ListedType == \A c : Listed(c) \subseteq Kinds
<1>1. Anomalies \subseteq Kinds
  BY DEF Anomalies, Kinds
<1> QED
  BY <1>1 DEF Listed

\* Only a configuration on its way out is listed for a forced revocation.
LEMMA ListedForForce ==
  ASSUME NEW c, NEW k \in {3, 6}, <<k, 1>> \in Listed(c)
  PROVE  Leaving
<1>1. <<k, 1>> \in Anomalies /\ <<k, 1>> \notin Others
  BY DEF Listed
<1>2. Anomaly(k)
  BY <1>1 DEF Anomalies
<1>3. Anomaly(3) => Leaving
  BY DEF Anomaly, Leaving
<1>4. Anomaly(6) => Leaving
  BY DEF Anomaly, RevokeNeedsRepair, Leaving
<1> QED
  BY <1>2, <1>3, <1>4

LEMMA InitInv == Init => Inv
<1> SUFFICES ASSUME Init PROVE Inv
  OBVIOUS
<1>1. /\ phase \in [Workers -> Phase]
      /\ batch \in [Workers -> SUBSET Kinds]
      /\ cursor \in [Workers -> (0..6) \X (0..2)]
      /\ batches \in [Workers -> 0..MaxBatches]
      /\ \A w \in Workers : batch[w] = {} /\ phase[w] = "idle"
  BY DEF Init, Phase
<1>2. full \in [Workers -> BOOLEAN]
  BY DEF Init
<1>3. covered \in [Workers -> BOOLEAN]
  BY DEF Init
<1>4. /\ status \in ConfigStatus /\ task \in TaskStatus
      /\ sub \in {"active", "ended"} /\ jobs \subseteq Jobs
      /\ owner \in Workers \cup {NoOwner, Orphan} /\ faults \subseteq Faults
  BY DEF Init, ConfigStatus, TaskStatus
<1>5. funded \in BOOLEAN /\ live \in BOOLEAN
  BY DEF Init
<1>6. TypeOK
  BY <1>1, <1>2, <1>3, <1>4, <1>5 DEF TypeOK, Kinds
<1>7. OwnerIsAtWork /\ ForceIsForLeaving
  BY <1>1 DEF Init, OwnerIsAtWork, ForceIsForLeaving
<1> QED
  BY <1>6, <1>7 DEF Inv

-----------------------------------------------------------------------------
(* Types                                                                   *)

LEMMA LeaveLoopType ==
  ASSUME TypeOK, NEW w \in Workers, NEW next \in Phase \ {"working"}, LeaveLoop(w, next)
  PROVE  /\ phase' \in [Workers -> Phase]
         /\ batch' \in [Workers -> SUBSET Kinds]
         /\ cursor' \in [Workers -> (0..6) \X (0..2)]
         /\ full' \in [Workers -> BOOLEAN]
         /\ batches' \in [Workers -> 0..MaxBatches]
         /\ covered' \in [Workers -> BOOLEAN]
         /\ \A v \in Workers : batch'[v] # {} <=> phase'[v] = "working"
<1>1. /\ phase' \in [Workers -> Phase]
      /\ batch' \in [Workers -> SUBSET Kinds]
      /\ batches' \in [Workers -> 0..MaxBatches]
  BY DEF TypeOK, LeaveLoop, Kinds
<1>2. cursor' \in [Workers -> (0..6) \X (0..2)]
  BY DEF TypeOK, LeaveLoop
<1>3. full' \in [Workers -> BOOLEAN]
  BY DEF TypeOK, LeaveLoop
<1>4. covered' \in [Workers -> BOOLEAN]
  BY DEF TypeOK, LeaveLoop
<1>5. \A v \in Workers : batch'[v] # {} <=> phase'[v] = "working"
  BY DEF TypeOK, LeaveLoop
<1> QED
  BY <1>1, <1>2, <1>3, <1>4, <1>5

LEMMA HandledType ==
  ASSUME TypeOK, NEW w \in Workers, NEW a, Handled(w, a)
  PROVE  /\ phase' \in [Workers -> Phase]
         /\ batch' \in [Workers -> SUBSET Kinds]
         /\ covered' \in [Workers -> BOOLEAN]
         /\ \A v \in Workers : batch'[v] # {} <=> phase'[v] = "working"
         /\ a \in batch[w]
<1>1. a \in batch[w] /\ phase[w] = "working" /\ phase' \in [Workers -> Phase]
  BY DEF TypeOK, Handled, IsFirst, Phase
<1>2. batch' \in [Workers -> SUBSET Kinds]
  BY DEF TypeOK, Handled, Kinds
<1>3. covered' \in [Workers -> BOOLEAN]
  BY DEF TypeOK, Handled
<1>4. \A v \in Workers : batch'[v] # {} <=> phase'[v] = "working"
  <2> SUFFICES ASSUME NEW v \in Workers
               PROVE  batch'[v] # {} <=> phase'[v] = "working"
    OBVIOUS
  <2>1. CASE v = w
    BY <1>1, <2>1 DEF TypeOK, Handled
  <2>2. CASE v # w
    BY <2>2 DEF TypeOK, Handled
  <2> QED
    BY <2>1, <2>2
<1> QED
  BY <1>1, <1>2, <1>3, <1>4

LEMMA EndConfigurationType ==
  ASSUME TypeOK, EndConfiguration
  PROVE  /\ status' \in ConfigStatus /\ jobs' \subseteq Jobs
         /\ batch' \in [Workers -> SUBSET Kinds]
         /\ \A v \in Workers : batch'[v] # {} <=> phase'[v] = "working"
         /\ \A v \in Workers, k \in {3, 6} : <<k, 1>> \notin batch'[v]
<1>1. status' \in ConfigStatus /\ jobs' \subseteq Jobs
  BY DEF TypeOK, EndConfiguration, ConfigStatus
<1>2. \A a \in Kinds : AsOther(a) \in Kinds
  BY DEF AsOther, Kinds
<1>3. \A v \in Workers : batch[v] \subseteq Kinds
  BY DEF TypeOK, Kinds
<1>4. batch' \in [Workers -> SUBSET Kinds]
  BY <1>2, <1>3 DEF EndConfiguration
<1>5. \A v \in Workers : batch'[v] # {} <=> phase'[v] = "working"
  BY DEF TypeOK, EndConfiguration
<1>6. \A a \in Kinds, k \in {3, 6} : AsOther(a) # <<k, 1>>
  BY DEF AsOther, Kinds
<1>7. \A v \in Workers, k \in {3, 6} : <<k, 1>> \notin batch'[v]
  BY <1>3, <1>6 DEF EndConfiguration
<1> QED
  BY <1>1, <1>4, <1>5, <1>7

LEMMA TypeRun ==
  ASSUME TypeOK, NEW w \in Workers,
         \/ acquire_lease(w) \/ Run(w) \/ RunFails(w) \/ WorkerCrashes(w)
         \/ \E a \in batch[w] : EnqueueFails(w, a)
  PROVE  TypeOK'
<1>1. CASE acquire_lease(w)
  <2>1. phase' \in [Workers -> Phase]
    BY <1>1 DEF TypeOK, acquire_lease, Phase
  <2>2. \A v \in Workers : batch'[v] # {} <=> phase'[v] = "working"
    BY <1>1 DEF TypeOK, acquire_lease
  <2> QED
    BY <1>1, <2>1, <2>2 DEF TypeOK, acquire_lease, accessVars, cfgVars
<1>2. CASE ListBatch(w)
  <2>1. CASE LeaveLoop(w, "releasing")
    BY <1>2, <2>1, LeaveLoopType DEF TypeOK, ListBatch, Phase, Kinds, accessVars, cfgVars, leaseVars
  <2>2. CASE ~LeaveLoop(w, "releasing")
    <3> DEFINE found == Listed(cursor[w])
    <3>1. PICK a \in found : /\ phase' = [phase EXCEPT ![w] = "working"]
                             /\ batch' = [batch EXCEPT ![w] = found]
                             /\ cursor' = [cursor EXCEPT ![w] = a]
                             /\ full' = [full EXCEPT ![w] = Cardinality(found) = BatchSize]
                             /\ UNCHANGED <<batches, covered>>
      BY <1>2, <2>2 DEF ListBatch
    <3>2. found \in SUBSET Kinds /\ a \in (0..6) \X (0..2)
      BY ListedType DEF Kinds
    <3> HIDE DEF found
    <3>3. /\ phase' \in [Workers -> Phase] /\ batch' \in [Workers -> SUBSET Kinds]
      BY <3>1, <3>2 DEF TypeOK, Phase, Kinds
    <3>4. cursor' \in [Workers -> (0..6) \X (0..2)]
      BY <3>1, <3>2 DEF TypeOK
    <3>5. full' \in [Workers -> BOOLEAN]
      BY <3>1 DEF TypeOK
    <3>6. \A v \in Workers : batch'[v] # {} <=> phase'[v] = "working"
      BY <3>1 DEF TypeOK
    <3> QED
      BY <1>2, <3>1, <3>3, <3>4, <3>5, <3>6 DEF TypeOK, ListBatch, Kinds, accessVars, cfgVars, leaseVars
  <2> QED
    BY <2>1, <2>2
<1>3. CASE ExpireSubscription(w)
  BY <1>3, HandledType DEF TypeOK, ExpireSubscription, Handled, Kinds, cfgVars, leaseVars
<1>4. ASSUME NEW a \in batch[w], EnqueueAnomaly(w, a) \/ EnqueueFails(w, a)
      PROVE  TypeOK'
  <2>1. Handled(w, a) /\ jobs' \subseteq Jobs /\ faults' \subseteq Faults
    BY <1>4 DEF TypeOK, EnqueueAnomaly, EnqueueFails, Fault, Faults, JobOf, Jobs, RevokeJobs
  <2> QED
    BY <1>4, <2>1, HandledType DEF TypeOK, EnqueueAnomaly, EnqueueFails, Handled, Kinds,
       accessVars, cfgVars, leaseVars
<1>5. CASE renew_lease(w)
  <2>1. CASE LeaveLoop(w, "releasing")
    BY <1>5, <2>1, LeaveLoopType DEF TypeOK, renew_lease, Phase, Kinds, accessVars, cfgVars
  <2>2. CASE NextBatch(w) /\ batches[w] + 1 < MaxBatches /\ phase[w] = "renewing"
    <3>1. phase' \in [Workers -> Phase] /\ batches' \in [Workers -> 0..MaxBatches]
      BY <2>2 DEF TypeOK, NextBatch, Phase
    <3>2. \A v \in Workers : batch'[v] # {} <=> phase'[v] = "working"
      BY <2>2 DEF TypeOK, NextBatch
    <3> QED
      BY <1>5, <2>2, <3>1, <3>2 DEF TypeOK, renew_lease, NextBatch, accessVars, cfgVars
  <2> QED
    BY <1>5, <2>1, <2>2 DEF renew_lease
<1>6. CASE release_lease(w)
  BY <1>6, LeaveLoopType DEF TypeOK, release_lease, Phase, Kinds, accessVars, cfgVars
<1>7. CASE RunFails(w)
  BY <1>7, LeaveLoopType DEF TypeOK, RunFails, Fault, Faults, Phase, Kinds, accessVars, cfgVars, leaseVars
<1>8. CASE WorkerCrashes(w)
  BY <1>8, LeaveLoopType DEF TypeOK, WorkerCrashes, Fault, Faults, Phase, Kinds, accessVars, cfgVars
<1> QED
  BY <1>1, <1>2, <1>3, <1>4, <1>5, <1>6, <1>7, <1>8 DEF Run

\* What payments, refunds and the clock make of the jobs.
LEMMA PeriodJobs ==
  ASSUME TypeOK, PeriodBegins \/ PeriodLapses \/ PeriodIsRefunded
  PROVE  jobs' \subseteq Jobs /\ ("force" \in jobs' => "force" \in jobs)
<1>1. /\ Overtaken \subseteq Jobs /\ ("force" \in Overtaken => "force" \in jobs)
      /\ CaughtUp \subseteq Jobs /\ ("force" \in CaughtUp => "force" \in jobs)
  BY DEF TypeOK, Overtaken, CaughtUp, Jobs, RevokeJobs
<1>2. "provision" \in Jobs /\ "expiration" \in Jobs /\ jobs \subseteq Jobs
  BY DEF TypeOK, Jobs, RevokeJobs
<1> QED
  BY <1>1, <1>2 DEF PeriodBegins, PeriodLapses, PeriodIsRefunded

LEMMA TypeOther ==
  ASSUME TypeOK,
         \/ LeaseRunsOut \/ RunJob \/ TaskSucceeds \/ TaskFails \/ DispatchCancels
         \/ PeriodBegins \/ PeriodLapses \/ PeriodIsRefunded
  PROVE  TypeOK'
<1>1. CASE LeaseRunsOut
  BY <1>1 DEF TypeOK, LeaseRunsOut, Fault, Faults, accessVars, cfgVars, runVars
<1>2. CASE ProvisionVpn
  BY <1>2 DEF TypeOK, ProvisionVpn, Provision, Taken, ConfigStatus, TaskStatus, Jobs,
     RevokeJobs, accessVars, cfgVars, leaseVars, runVars
<1>3. CASE ProvisionVpnSkips
  BY <1>3 DEF TypeOK, ProvisionVpnSkips, Taken, accessVars, cfgVars, leaseVars, runVars
<1>4. ASSUME NEW j, RevokeVpn(j)
      PROVE  TypeOK'
  <2>1. CASE EndConfiguration /\ task' = task
    BY <1>4, <2>1, EndConfigurationType DEF TypeOK, RevokeVpn, EndConfiguration, Kinds,
       accessVars, leaseVars
  <2>2. CASE UNCHANGED runVars
    BY <1>4, <2>2, EndConfigurationType DEF TypeOK, RevokeVpn, Taken, ConfigStatus, TaskStatus,
       accessVars, leaseVars, runVars, cfgVars
  <2> QED
    BY <1>4, <2>1, <2>2 DEF RevokeVpn
<1>5. CASE TaskSucceeds
  <2>1. CASE EndConfiguration
    BY <1>5, <2>1, EndConfigurationType DEF TypeOK, TaskSucceeds, EndConfiguration, Kinds,
       TaskStatus, accessVars, leaseVars
  <2>2. CASE UNCHANGED runVars
    BY <1>5, <2>2, EndConfigurationType DEF TypeOK, TaskSucceeds, TaskStatus, ConfigStatus, accessVars,
       leaseVars, runVars
  <2> QED
    BY <1>5, <2>1, <2>2 DEF TaskSucceeds
<1>6. CASE TaskFails
  BY <1>6 DEF TypeOK, TaskFails, TaskStatus, ConfigStatus, accessVars, leaseVars, runVars
<1>7. CASE DispatchCancels
  BY <1>7 DEF TypeOK, DispatchCancels, TaskStatus, ConfigStatus, accessVars, leaseVars, runVars
<1>8. CASE PeriodBegins
  <2>1. covered' \in [Workers -> BOOLEAN]
    <3>1. [w \in Workers |-> <<1, 1>> \in batch[w]] \in [Workers -> BOOLEAN]
      OBVIOUS
    <3> QED
      BY <1>8, <3>1 DEF TypeOK, PeriodBegins
  <2>2. jobs' \subseteq Jobs
    BY <1>8, PeriodJobs
  <2> QED
    BY <1>8, <2>1, <2>2 DEF TypeOK, PeriodBegins, cfgVars, leaseVars, runVars
<1>9. CASE PeriodLapses
  BY <1>9, PeriodJobs DEF TypeOK, PeriodLapses, cfgVars, leaseVars, runVars
<1>10. CASE PeriodIsRefunded
  <2>1. covered' \in [Workers -> BOOLEAN]
    BY <1>10 DEF TypeOK, PeriodIsRefunded
  <2>2. jobs' \subseteq Jobs /\ sub' \in {"active", "ended"}
    BY <1>10, PeriodJobs DEF TypeOK, PeriodIsRefunded
  <2> QED
    BY <1>10, <2>1, <2>2 DEF TypeOK, PeriodIsRefunded, cfgVars, leaseVars, runVars
<1> QED
  BY <1>1, <1>2, <1>3, <1>4, <1>5, <1>6, <1>7, <1>8, <1>9, <1>10 DEF RunJob

LEMMA TypeNext == TypeOK /\ [Next]_vars => TypeOK'
<1>1. TypeOK /\ UNCHANGED vars => TypeOK'
  BY DEF TypeOK, vars, accessVars, cfgVars, leaseVars, runVars
<1> QED
  BY <1>1, TypeRun, TypeOther DEF Next
-----------------------------------------------------------------------------
(* The lease                                                               *)

LEMMA OwnerNext ==
  ASSUME TypeOK, OwnerIsAtWork, [Next]_vars
  PROVE  OwnerIsAtWork'
<1> SUFFICES ASSUME "overrun" \notin faults', NEW v \in Workers, phase'[v] # "idle"
             PROVE  owner' = v /\ live'
  BY DEF OwnerIsAtWork
<1>0. \A u \in Workers : "overrun" \notin faults /\ phase[u] # "idle" => owner = u /\ live
  BY DEF OwnerIsAtWork
<1>1. ASSUME NEW w \in Workers, acquire_lease(w)
      PROVE  owner' = v /\ live'
  <2>1. \A u \in Workers : phase[u] = "idle"
    BY <1>0, <1>1, WorkersType DEF acquire_lease, LeaseFree
  <2> QED
    BY <1>1, <2>1 DEF TypeOK, acquire_lease
<1>2. ASSUME NEW w \in Workers,
             \/ ListBatch(w) \/ ExpireSubscription(w)
             \/ \E a \in batch[w] : EnqueueAnomaly(w, a) \/ EnqueueFails(w, a)
      PROVE  owner' = v /\ live'
  <2>1. UNCHANGED leaseVars /\ "overrun" \notin faults /\ phase[w] # "idle"
    BY <1>2 DEF ListBatch, ExpireSubscription, EnqueueAnomaly, EnqueueFails, Handled, Fault
  <2>2. phase'[v] = phase[v] \/ v = w
    BY <1>2 DEF TypeOK, ListBatch, LeaveLoop, ExpireSubscription, EnqueueAnomaly,
       EnqueueFails, Handled
  <2> QED
    BY <1>0, <2>1, <2>2 DEF leaseVars
<1>3. ASSUME NEW w \in Workers, renew_lease(w)
      PROVE  owner' = v /\ live'
  <2>1. phase'[v] = phase[v] \/ v = w
    BY <1>3 DEF TypeOK, renew_lease, LeaveLoop, NextBatch
  <2> QED
    BY <1>0, <1>3, <2>1 DEF renew_lease
<1>4. ASSUME NEW w \in Workers, release_lease(w)
      PROVE  owner' = v /\ live'
  <2>1. v # w /\ phase'[v] = phase[v]
    BY <1>4 DEF TypeOK, release_lease, LeaveLoop
  <2> QED
    BY <1>0, <1>4, <2>1 DEF release_lease
<1>5. ASSUME NEW w \in Workers, RunFails(w) \/ WorkerCrashes(w)
      PROVE  owner' = v /\ live'
  <2>1. "overrun" \notin faults /\ phase[w] # "idle"
    BY <1>5 DEF RunFails, WorkerCrashes, Fault
  <2>2. CASE RunFails(w)
    BY <1>0, <2>1, <2>2 DEF TypeOK, RunFails, LeaveLoop, leaseVars
  <2>3. CASE WorkerCrashes(w)
    BY <1>0, <2>1, <2>3 DEF TypeOK, WorkerCrashes, LeaveLoop
  <2> QED
    BY <1>5, <2>2, <2>3
<1>6. CASE LeaseRunsOut
  <2>1. owner \notin Workers /\ "overrun" \notin faults /\ phase' = phase
    BY <1>6 DEF LeaseRunsOut, Fault, runVars
  <2> QED
    BY <1>0, <2>1
<1>7. CASE \/ RunJob \/ TaskSucceeds \/ TaskFails \/ DispatchCancels
           \/ PeriodBegins \/ PeriodLapses \/ PeriodIsRefunded \/ UNCHANGED vars
  <2>1. UNCHANGED <<leaseVars, phase, faults>>
    BY <1>7 DEF RunJob, ProvisionVpn, ProvisionVpnSkips, RevokeVpn, EndConfiguration,
       TaskSucceeds, TaskFails, DispatchCancels, PeriodBegins, PeriodLapses,
       PeriodIsRefunded, vars, leaseVars, runVars
  <2> QED
    BY <1>0, <2>1 DEF leaseVars
<1> QED
  BY <1>1, <1>2, <1>3, <1>4, <1>5, <1>6, <1>7 DEF Next, Run

-----------------------------------------------------------------------------
(* Revocations that do not look at access                                  *)

LEMMA ForceNext ==
  ASSUME TypeOK, TypeOK', ForceIsForLeaving, [Next]_vars
  PROVE  ForceIsForLeaving'
<1>1. ASSUME UNCHANGED cfgVars, "force" \in jobs' => "force" \in jobs,
             \A w \in Workers : batch'[w] \subseteq batch[w]
      PROVE  ForceIsForLeaving'
  <2>1. Leaving => Leaving'
    BY <1>1 DEF Leaving, cfgVars
  <2>2. \A w \in Workers, k \in {3, 6} : <<k, 1>> \in batch'[w] => <<k, 1>> \in batch[w]
    BY <1>1
  <2> QED
    BY <1>1, <2>1, <2>2 DEF ForceIsForLeaving
<1>2. ASSUME NEW w \in Workers,
             \/ acquire_lease(w) \/ ExpireSubscription(w) \/ renew_lease(w)
             \/ release_lease(w) \/ RunFails(w) \/ WorkerCrashes(w)
             \/ \E a \in batch[w] : EnqueueFails(w, a)
      PROVE  ForceIsForLeaving'
  <2>1. UNCHANGED cfgVars /\ jobs' = jobs
    BY <1>2 DEF acquire_lease, ExpireSubscription, renew_lease, release_lease, RunFails,
       WorkerCrashes, EnqueueFails, Handled
  <2>2. \A v \in Workers : batch'[v] \subseteq batch[v]
    BY <1>2 DEF TypeOK, acquire_lease, ExpireSubscription, renew_lease, release_lease,
       RunFails, WorkerCrashes, EnqueueFails, Handled, LeaveLoop, NextBatch
  <2> QED
    BY <1>1, <2>1, <2>2
<1>3. ASSUME NEW w \in Workers, ListBatch(w)
      PROVE  ForceIsForLeaving'
  <2>1. UNCHANGED <<cfgVars, jobs>> /\ (Leaving => Leaving')
    BY <1>3 DEF ListBatch, cfgVars, Leaving
  <2>2. \A v \in Workers : batch'[v] \subseteq batch[v] \/ batch'[v] = Listed(cursor[v])
    BY <1>3 DEF TypeOK, ListBatch, LeaveLoop
  <2>3. \A v \in Workers, k \in {3, 6} : <<k, 1>> \in batch'[v] => Leaving
    BY <2>2, ListedForForce DEF ForceIsForLeaving
  <2> QED
    BY <2>1, <2>3 DEF ForceIsForLeaving
<1>4. ASSUME NEW w \in Workers, NEW a \in batch[w], EnqueueAnomaly(w, a)
      PROVE  ForceIsForLeaving'
  <2>1. UNCHANGED cfgVars /\ (Leaving => Leaving')
    BY <1>4 DEF EnqueueAnomaly, Handled, cfgVars, Leaving
  <2>2. \A v \in Workers : batch'[v] \subseteq batch[v]
    BY <1>4 DEF TypeOK, EnqueueAnomaly, Handled
  <2>3. "force" \in jobs' => "force" \in jobs \/ \E k \in {3, 6} : a = <<k, 1>>
    <3>1. a \in Kinds
      BY DEF TypeOK, Kinds
    <3>2. JobOf(a[1]) = "force" => a[1] \in {3, 6}
      BY DEF JobOf
    <3> QED
      BY <1>4, <3>1, <3>2 DEF EnqueueAnomaly, Kinds
  <2> QED
    BY <2>1, <2>2, <2>3 DEF ForceIsForLeaving
<1>5. CASE EndConfiguration
  BY <1>5, EndConfigurationType DEF ForceIsForLeaving, EndConfiguration, RevokeJobs
<1>6. ASSUME UNCHANGED batch, "force" \in jobs' => "force" \in jobs, Leaving => Leaving'
      PROVE  ForceIsForLeaving'
  BY <1>6 DEF ForceIsForLeaving
<1>7. ASSUME NEW j, RevokeVpn(j), ~EndConfiguration
      PROVE  ForceIsForLeaving'
  BY <1>6, <1>7 DEF RevokeVpn, Taken, Leaving, cfgVars, runVars
<1>8. CASE ProvisionVpn
  <2>1. Leaving => Leaving'
    BY <1>8 DEF ProvisionVpn, Provision, Leaving, cfgVars
  <2>2. "force" \in jobs' => "force" \in jobs \/ Leaving
    BY <1>8 DEF ProvisionVpn, Provision, Taken, Leaving
  <2> QED
    BY <1>8, <2>1, <2>2 DEF ForceIsForLeaving, ProvisionVpn, runVars
<1>9. CASE TaskSucceeds /\ ~EndConfiguration
  BY <1>6, <1>9 DEF TaskSucceeds, Leaving, runVars
<1>10. CASE TaskFails \/ DispatchCancels
  BY <1>6, <1>10 DEF TaskFails, DispatchCancels, Leaving, runVars
<1>11. CASE \/ ProvisionVpnSkips \/ LeaseRunsOut \/ PeriodBegins
            \/ PeriodLapses \/ PeriodIsRefunded \/ UNCHANGED vars
  <2>1. UNCHANGED cfgVars /\ UNCHANGED batch
    BY <1>11 DEF ProvisionVpnSkips, LeaseRunsOut, PeriodBegins,
       PeriodLapses, PeriodIsRefunded, vars, cfgVars, runVars
  <2>2. "force" \in jobs' => "force" \in jobs
    BY <1>11, PeriodJobs DEF ProvisionVpnSkips, Taken, LeaseRunsOut, vars
  <2> QED
    BY <1>1, <2>1, <2>2
<1> QED
  BY <1>2, <1>3, <1>4, <1>5, <1>7, <1>8, <1>9, <1>10, <1>11 DEF Next, Run, RunJob

LEMMA AlwaysInv == Spec => []Inv
<1>1. Inv /\ [Next]_vars => Inv'
  BY TypeNext, OwnerNext, ForceNext DEF Inv
<1> QED
  BY InitInv, <1>1, PTL DEF Spec

-----------------------------------------------------------------------------

\* Rows, jobs and runs keep to the values of the code, and a batch is at hand
\* exactly while it is worked on (ReconcileSubscriptions.execute).
THEOREM TypeCorrect == Spec => []TypeOK
  BY AlwaysInv, PTL DEF Inv

\* Any number of workers may run the job: as long as no run has overrun its
\* lease there is one at a time, whatever workers die (acquire_lease).
THEOREM OneRunAtATime == Spec => []RunsDoNotOverlap
<1>1. Inv => RunsDoNotOverlap
  BY DEF Inv, OwnerIsAtWork, RunsDoNotOverlap
<1> QED
  BY <1>1, AlwaysInv, PTL

\* The runs at work, as ImplementsLease has them.
AtWork == {w \in Workers : phase[w] # "idle"}

\* What becomes of the lease when a run ends, by its own end or by a crash.
LEMMA RunEnds ==
  ASSUME TypeOK, NEW w \in Workers, phase[w] # "idle", LeaveLoop(w, "idle")
  PROVE  w \in AtWork /\ AtWork' = AtWork \ {w}
  BY DEF TypeOK, LeaveLoop, AtWork

\* The steps that neither begin nor end a run.
LEMMA SameRuns ==
  ASSUME TypeOK, NEW w \in Workers,
         \/ ListBatch(w) \/ ExpireSubscription(w) \/ RunFails(w) \/ renew_lease(w)
         \/ \E a \in batch[w] : EnqueueAnomaly(w, a) \/ EnqueueFails(w, a)
  PROVE  AtWork' = AtWork /\ w \in AtWork
<1>1. \E p \in Phase \ {"idle"} : phase' = [phase EXCEPT ![w] = p]
  BY DEF TypeOK, Phase, ListBatch, ExpireSubscription, RunFails, renew_lease,
     EnqueueAnomaly, EnqueueFails, Handled, LeaveLoop, NextBatch
<1>2. phase[w] # "idle"
  BY DEF ListBatch, ExpireSubscription, RunFails, renew_lease, EnqueueAnomaly,
     EnqueueFails, Handled
<1> QED
  BY <1>1, <1>2 DEF TypeOK, AtWork

LEMMA StepIsLeased ==
  ASSUME TypeOK, [Next]_vars
  PROVE  [RunLease!Next]_(RunLease!vars)
<1>1. CASE UNCHANGED leaseVars /\ AtWork' = AtWork
  BY <1>1 DEF leaseVars, AtWork, RunLease!vars
<1>2. ASSUME NEW w \in Workers, acquire_lease(w) PROVE RunLease!Next
  <2>1. /\ owner = NoOwner \/ ~live
        /\ owner' = w /\ live' = TRUE
    BY <1>2 DEF acquire_lease, LeaseFree
  <2>2. w \notin AtWork /\ AtWork' = AtWork \cup {w}
    BY <1>2 DEF TypeOK, acquire_lease, AtWork
  <2> QED
    BY <2>1, <2>2, WorkersType DEF AtWork, RunLease!Next, RunLease!Acquire
<1>3. ASSUME NEW w \in Workers, renew_lease(w)
      PROVE  [RunLease!Next]_(RunLease!vars)
  <2>1. AtWork' = AtWork /\ w \in AtWork
    BY <1>3, SameRuns
  <2>2. owner' = owner /\ live' = (live \/ owner = w)
    BY <1>3 DEF renew_lease
  <2>3. CASE owner = w
    BY <2>1, <2>2, <2>3 DEF AtWork, RunLease!Next, RunLease!Renew
  <2>4. CASE owner # w
    <3>1. live' = live
      BY <2>2, <2>4 DEF TypeOK
    <3> QED
      BY <1>1, <2>1, <2>2, <3>1 DEF leaseVars
  <2> QED
    BY <2>3, <2>4
<1>4. ASSUME NEW w \in Workers, release_lease(w) PROVE RunLease!Next
  <2>1. w \in AtWork /\ AtWork' = AtWork \ {w}
    BY <1>4, RunEnds DEF release_lease
  <2>2. CASE owner = w
    BY <1>4, <2>1, <2>2 DEF release_lease, AtWork, RunLease!Next, RunLease!Release
  <2>3. CASE owner # w
    <3>1. owner' = owner /\ live' = live
      BY <1>4, <2>3 DEF release_lease, TypeOK
    <3> QED
      BY <2>1, <3>1 DEF AtWork, RunLease!Next, RunLease!Leave
  <2> QED
    BY <2>2, <2>3
<1>5. ASSUME NEW w \in Workers, WorkerCrashes(w) PROVE RunLease!Next
  <2>1. w \in AtWork /\ AtWork' = AtWork \ {w}
    BY <1>5, RunEnds DEF WorkerCrashes
  <2>2. /\ live' = live
        /\ owner' = owner \/ (owner = w /\ owner' = Orphan)
    BY <1>5 DEF WorkerCrashes
  <2> QED
    BY <2>1, <2>2 DEF AtWork, RunLease!Next, RunLease!Leave
<1>6. CASE LeaseRunsOut
  <2>1. live' = FALSE /\ owner' = owner /\ AtWork' = AtWork
    BY <1>6 DEF LeaseRunsOut, runVars, AtWork
  <2> QED
    BY <2>1 DEF AtWork, RunLease!Next, RunLease!Expire
<1>7. ASSUME NEW w \in Workers,
             \/ ListBatch(w) \/ ExpireSubscription(w) \/ RunFails(w)
             \/ \E a \in batch[w] : EnqueueAnomaly(w, a) \/ EnqueueFails(w, a)
      PROVE  UNCHANGED leaseVars /\ AtWork' = AtWork
  <2>1. AtWork' = AtWork
    BY <1>7, SameRuns
  <2> QED
    BY <1>7, <2>1 DEF ListBatch, ExpireSubscription, RunFails, EnqueueAnomaly,
       EnqueueFails, Handled
<1>8. CASE \/ RunJob \/ TaskSucceeds \/ TaskFails \/ DispatchCancels
           \/ PeriodBegins \/ PeriodLapses \/ PeriodIsRefunded \/ UNCHANGED vars
  <2>1. UNCHANGED leaseVars /\ phase' = phase
    BY <1>8 DEF RunJob, ProvisionVpn, ProvisionVpnSkips, RevokeVpn, EndConfiguration,
       TaskSucceeds, TaskFails, DispatchCancels, PeriodBegins, PeriodLapses,
       PeriodIsRefunded, vars, runVars
  <2> QED
    BY <1>1, <2>1 DEF AtWork
<1> QED
  BY <1>1, <1>2, <1>3, <1>4, <1>5, <1>6, <1>7, <1>8 DEF Next, Run

\* For any number of workers the row of the lease is one: nothing takes a
\* lease that is still running from a run at work, neither a competitor nor
\* the renewal or the end of a run that was overtaken (acquire_lease,
\* renew_lease, release_lease).
THEOREM RunsAreLeased == Spec => ImplementsLease
<1>1. Init => RunLease!Init
  BY DEF Init, RunLease!Init
<1>2. Inv /\ [Next]_vars => [RunLease!Next]_(RunLease!vars)
  BY StepIsLeased DEF Inv
<1> QED
  BY <1>1, <1>2, AlwaysInv, PTL DEF Spec, ImplementsLease, RunLease!Spec

\* A configuration in use by a subscription with access stays in use, unless a
\* job ends whose clock was read before the period began: forced revocations are
\* asked for only once it is on its way out, and the others look at the access
\* of the subscription (RevokeVpn.execute and _prepare_plan).
THEOREM PaidAccessStays == Spec => PaidAccessIsKept
<1> DEFINE Kept == status = "active" /\ CurrentAccess /\ status' # "active"
                      => "overtaken" \in jobs \ jobs'
<1>1. ASSUME Inv, [Next]_vars, status = "active", CurrentAccess, status' # "active"
      PROVE  "overtaken" \in jobs \ jobs'
  <2>1. "force" \notin jobs
    BY <1>1 DEF Inv, ForceIsForLeaving, Leaving
  <2>2. ASSUME NEW j, RevokeVpn(j)
        PROVE  "overtaken" \in jobs \ jobs'
    <3>1. j \in jobs /\ j \in {"expiration", "overtaken"}
      BY <2>1, <2>2 DEF RevokeVpn, RevokeJobs
    <3>2. Revokes(j) /\ Taken(j)
      BY <1>1, <2>2 DEF RevokeVpn, cfgVars
    <3>3. j = "overtaken"
      BY <1>1, <3>1, <3>2 DEF Revokes
    <3> QED
      BY <3>1, <3>2, <3>3 DEF Taken
  <2>3. CASE ProvisionVpn \/ TaskSucceeds \/ TaskFails \/ DispatchCancels
    BY <1>1, <2>3 DEF ProvisionVpn, Provision, TaskSucceeds, TaskFails, DispatchCancels
  <2>4. CASE \/ \E w \in Workers :
                  \/ acquire_lease(w) \/ Run(w) \/ RunFails(w) \/ WorkerCrashes(w)
                  \/ \E a \in batch[w] : EnqueueFails(w, a)
             \/ LeaseRunsOut \/ ProvisionVpnSkips
             \/ PeriodBegins \/ PeriodLapses \/ PeriodIsRefunded \/ UNCHANGED vars
    BY <1>1, <2>4 DEF acquire_lease, Run, ListBatch, ExpireSubscription, EnqueueAnomaly,
       Handled, renew_lease, release_lease, RunFails, WorkerCrashes, EnqueueFails,
       LeaseRunsOut, ProvisionVpnSkips, PeriodBegins, PeriodLapses, PeriodIsRefunded,
       vars, cfgVars
  <2> QED
    BY <1>1, <2>2, <2>3, <2>4 DEF Next, RunJob
<1>2. Inv /\ [Next]_vars => [Kept]_vars
  BY <1>1
<1> QED
  BY <1>2, AlwaysInv, PTL DEF Spec, PaidAccessIsKept

=============================================================================
