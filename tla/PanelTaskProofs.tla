-------------------------- MODULE PanelTaskProofs --------------------------
(***************************************************************************)
(* Proofs about PanelTask, for every number of generations, attempts and   *)
(* claims: no configuration is stranded, the panel has the client of an    *)
(* active configuration and not that of a revoked one, and the lifecycle   *)
(* is that of VpnAccess.                                                   *)
(***************************************************************************)
EXTENDS PanelTask, TLAPS

\* Intent is revoked from the second generation on, and the status with it.
IntentShape ==
    /\ generation = 1 <=> desired = "active"
    /\ generation = 1 <=> status \in {"absent", "provisioning", "active", "failed"}

\* A new generation finds no task of its own, the first one neither.
TasksOfGenerations ==
    /\ \A g \in Tasks : g > generation => task[g] = "absent"
    /\ status = "absent" => task[1] = "absent"

AboutAdding == {"adding", "added", "add_failed"}

\* Who owns a provision that has to be compensated deletes: it cannot fail
\* the task as a provision, which would leave a revoking row to nobody.
CompensationDeletes ==
    compensation =>
        \A a \in Claims : owns_lease(1, a) => phase[<<1, a>>] \notin AboutAdding

RowShape == IntentShape /\ TasksOfGenerations /\ TaskFollowsConfiguration

RowInv == TypeOK /\ RowShape /\ CompensationDeletes

OnlyProvisionAdds ==
    \A g \in Revokes, a \in Claims : phase[<<g, a>>] \notin AboutAdding

\* What the owner of the provision has made is there, before any revocation.
MadeIsThere ==
    generation = 1 /\ "deleting" \notin overtaken =>
        \A a \in Claims : owns_lease(1, a) /\ phase[<<1, a>>] = "added" => client

\* What the owner of a task has deleted is gone, unless a provision is still
\* to be finished by its own worker.
DeletedIsGone ==
    "adding" \notin overtaken =>
        /\ \A a \in Claims : owns_lease(1, a) /\ phase[<<1, a>>] = "deleted" => ~client
        /\ task[1] = "cancelled" => ~client
        /\ task[1] = "succeeded" =>
              \A g \in Revokes, a \in Claims :
                  owns_lease(g, a) /\ phase[<<g, a>>] = "deleted" => ~client

ClientInv ==
    /\ OnlyProvisionAdds /\ MadeIsThere /\ DeletedIsGone
    /\ ActiveClientInPanel /\ NoClientAfterRevocation

USE MaxGenerationAssumption, MaxAttemptsAssumption, MaxClaimsAssumption,
    MaxRevokeClaimsAssumption

-----------------------------------------------------------------------------
(* Types.                                                                  *)

LEMMA TasksHaveNumbers ==
    /\ 1 \in Tasks
    /\ \A g \in Tasks : g \in Nat /\ (g # 1 => g \in Revokes)
    /\ \A g \in Revokes : g \in Tasks /\ g # 1
  BY DEF Tasks, Revokes

\* A function that is changed at one place keeps its type.
LEMMA ExceptType ==
    ASSUME NEW S, NEW T, NEW f \in [S -> T], NEW x, NEW v \in T
    PROVE  [f EXCEPT ![x] = v] \in [S -> T]
  OBVIOUS

\* The worker of an attempt moves on.
LEMMA MoveType ==
    ASSUME TypeOK, NEW g, NEW a, NEW p \in Phase, Move(g, a, p)
    PROVE  phase' \in [Tasks \X Claims -> Phase]
  BY ExceptType DEF Move, TypeOK

\* Whatever is done to the rows, a task with a lease stays in progress.
LEMMA ReleaseType ==
    ASSUME TypeOK, NEW g \in Tasks, NEW s \in TaskStatus, Release(g, s)
    PROVE  /\ task' \in [Tasks -> TaskStatus]
           /\ lease' \in [Tasks -> BOOLEAN]
           /\ \A h \in Tasks : lease'[h] => task'[h] = "in_progress"
  <1>1. task' \in [Tasks -> TaskStatus]
    BY DEF Release, TypeOK
  <1>2. lease' \in [Tasks -> BOOLEAN]
    BY DEF Release, TypeOK
  <1>3. ASSUME NEW h \in Tasks, lease'[h] PROVE task'[h] = "in_progress"
    <2>1. h # g /\ lease[h]
      BY <1>3 DEF Release, TypeOK
    <2> QED BY <2>1 DEF Release, TypeOK
  <1> QED BY <1>1, <1>2, <1>3

\* A new generation is one of those the bound allows.
LEMMA BeginRevokeType ==
    ASSUME TypeOK, BeginRevoke
    PROVE  /\ status' \in ConfigStatus /\ desired' \in {"active", "revoked"}
           /\ generation' \in Tasks
  BY DEF BeginRevoke, TypeOK, Tasks, ConfigStatus

LEMMA AddTaskType ==
    ASSUME TypeOK, NEW g \in Tasks, AddTask(g), UNCHANGED lease
    PROVE  /\ task' \in [Tasks -> TaskStatus]
           /\ \A h \in Tasks : lease'[h] => task'[h] = "in_progress"
  <1>1. \A h \in Tasks : task'[h] = task[h] \/ (task[h] = "absent" /\ task'[h] = "pending")
    BY DEF AddTask, TypeOK
  <1>2. task' \in [Tasks -> TaskStatus]
    BY DEF AddTask, TypeOK, TaskStatus
  <1> QED BY <1>1, <1>2 DEF TypeOK

LEMMA StartAttemptType ==
    ASSUME TypeOK, NEW g \in Tasks, NEW c \in Calling, StartAttempt(g, c),
           attempts[g] < MaxClaims
    PROVE  TypeOK'
  <1>1. task' \in [Tasks -> TaskStatus] /\ task'[g] = "in_progress"
    BY DEF StartAttempt, TypeOK, TaskStatus
  <1>2. attempts' \in [Tasks -> 0..MaxClaims]
    BY DEF StartAttempt, TypeOK
  <1>3. lease' \in [Tasks -> BOOLEAN]
    BY DEF StartAttempt, TypeOK
  <1>4. phase' \in [Tasks \X Claims -> Phase]
    BY DEF StartAttempt, TypeOK, Phase
  <1>5. \A h \in Tasks : lease'[h] => task'[h] = "in_progress"
    BY DEF StartAttempt, TypeOK
  <1> QED
    BY <1>1, <1>2, <1>3, <1>4, <1>5 DEF StartAttempt, TypeOK, subVars, cfgVars, panelVars

LEMMA CallType ==
    ASSUME TypeOK, NEW g \in Tasks, NEW a \in Claims,
           CallSucceeds(g, a) \/ CallFails(g, a)
    PROVE  TypeOK'
  <1>1. phase' \in [Tasks \X Claims -> Phase]
    BY MoveType DEF CallSucceeds, CallFails, Phase, Answered
  <1>2. phase[<<g, a>>] \in Calling
    BY DEF CallSucceeds, CallFails, Calling
  <1>3. client' \in BOOLEAN
    BY DEF CallSucceeds, CallFails, Carry, TypeOK, panelVars
  <1>4. overtaken' \in SUBSET Calling
    BY <1>2 DEF CallSucceeds, CallFails, Carry, TypeOK, panelVars
  <1>5. UNCHANGED <<subVars, cfgVars, taskVars>>
    BY DEF CallSucceeds, CallFails
  <1> QED
    BY <1>1, <1>3, <1>4, <1>5 DEF TypeOK, subVars, cfgVars, taskVars

\* The failure of an attempt, with what it does to the configuration.
LEMMA FailureType ==
    ASSUME TypeOK, NEW g \in Tasks, MarkConfigurationFailure(g)
    PROVE  status' \in ConfigStatus
  BY DEF MarkConfigurationFailure, TypeOK, ConfigStatus

LEMMA AttemptFailsType ==
    ASSUME TypeOK, NEW g \in Tasks, NEW a \in Claims, AttemptFails(g, a)
    PROVE  TypeOK'
  <1>1. phase' \in [Tasks \X Claims -> Phase]
    BY MoveType DEF AttemptFails, Phase
  <1>2. PICK s \in TaskStatus : Release(g, s)
    BY DEF AttemptFails, RetryOrFail, TaskStatus
  <1>3. status' \in ConfigStatus
    BY FailureType DEF AttemptFails, RetryOrFail, TypeOK
  <1>4. UNCHANGED <<subVars, desired, generation, attempts, compensation, panelVars>>
    BY DEF AttemptFails
  <1> QED
    BY <1>1, <1>2, <1>3, <1>4, ReleaseType DEF TypeOK, subVars, panelVars

LEMMA ProvisionSuccessType ==
    ASSUME TypeOK, NEW a \in Claims, FinalizeProvisionSuccess(a)
    PROVE  TypeOK'
  <1>0. UNCHANGED <<subVars, attempts, panelVars>>
    BY DEF FinalizeProvisionSuccess
  <1>1. phase' \in [Tasks \X Claims -> Phase]
    BY MoveType DEF FinalizeProvisionSuccess, DeleteWhatWasMade, Phase, Calling
  <1>2. CASE status' = "active" /\ Release(1, "succeeded") /\ compensation' = FALSE
             /\ UNCHANGED <<desired, generation>>
    BY <1>0, <1>1, <1>2, ReleaseType, TasksHaveNumbers
       DEF TypeOK, TaskStatus, ConfigStatus, subVars, panelVars
  <1>3. CASE DeleteWhatWasMade(a) /\ (BeginRevoke \/ UNCHANGED cfgVars)
    BY <1>0, <1>1, <1>3, BeginRevokeType
       DEF TypeOK, DeleteWhatWasMade, cfgVars, subVars, panelVars
  <1> QED BY <1>2, <1>3 DEF FinalizeProvisionSuccess

LEMMA CompensationType ==
    ASSUME TypeOK, NEW a \in Claims,
           RecordCompensationSuccess(a) \/ RecordCompensationFailure(a)
    PROVE  TypeOK'
  <1>1. phase' \in [Tasks \X Claims -> Phase]
    BY MoveType DEF RecordCompensationSuccess, RecordCompensationFailure, Phase
  <1>2. PICK s \in TaskStatus : Release(1, s)
    BY DEF RecordCompensationSuccess, RecordCompensationFailure, TaskStatus
  <1>3. status' \in ConfigStatus
    <2>1. CASE RecordCompensationSuccess(a)
      BY <2>1, FailureType, TasksHaveNumbers
         DEF RecordCompensationSuccess, TypeOK, ConfigStatus
    <2>2. CASE RecordCompensationFailure(a)
      BY <2>2 DEF RecordCompensationFailure, TypeOK, cfgVars
    <2> QED BY <2>1, <2>2
  <1>4. UNCHANGED <<subVars, desired, generation, attempts, panelVars>>
        /\ compensation' \in BOOLEAN
    BY DEF RecordCompensationSuccess, RecordCompensationFailure, cfgVars
  <1> QED
    BY <1>1, <1>2, <1>3, <1>4, ReleaseType, TasksHaveNumbers
       DEF TypeOK, subVars, panelVars

LEMMA RevokeSuccessType ==
    ASSUME TypeOK, NEW g \in Tasks, NEW a \in Claims, FinalizeRevokeSuccess(g, a)
    PROVE  TypeOK'
  <1>1. phase' \in [Tasks \X Claims -> Phase]
    BY MoveType DEF FinalizeRevokeSuccess, Phase
  <1>2. UNCHANGED <<subVars, desired, generation, attempts, compensation, panelVars>>
    BY DEF FinalizeRevokeSuccess
  <1>3. CASE Release(g, "succeeded") /\ status' = IF CurrentRevoke(g) THEN "revoked" ELSE status
    BY <1>1, <1>2, <1>3, ReleaseType DEF TypeOK, TaskStatus, ConfigStatus, subVars, panelVars
  <1>4. CASE UNCHANGED <<task, lease, status>>
    BY <1>1, <1>2, <1>4 DEF TypeOK, subVars, panelVars
  <1> QED BY <1>3, <1>4 DEF FinalizeRevokeSuccess

\* A worker that only stops, starts to delete, or finds its task lost.
LEMMA MoveOnType ==
    ASSUME TypeOK, NEW g \in Tasks, NEW a \in Claims, NEW p \in Phase, Move(g, a, p),
           UNCHANGED <<subVars, cfgVars, taskVars, panelVars>>
    PROVE  TypeOK'
  BY MoveType DEF TypeOK, subVars, cfgVars, taskVars, panelVars

LEMMA RecoverType ==
    ASSUME TypeOK, NEW g \in Tasks, RecoverLease(g), compensation' \in BOOLEAN
    PROVE  TypeOK'
  <1>1. task' \in [Tasks -> TaskStatus]
    BY DEF RecoverLease, TypeOK, TaskStatus
  <1>2. \A h \in Tasks : lease'[h] => task'[h] = "in_progress"
    BY DEF RecoverLease, TypeOK
  <1> QED BY <1>1, <1>2 DEF RecoverLease, TypeOK, subVars, cfgVars, panelVars

LEMMA NextType == TypeOK /\ [Next]_vars => TypeOK'
  <1> SUFFICES ASSUME TypeOK, [Next]_vars PROVE TypeOK'
    OBVIOUS
  <1>1. CASE PeriodChanges \/ SubscriptionEnds
    BY <1>1 DEF PeriodChanges, SubscriptionEnds, TypeOK, cfgVars, taskVars, panelVars
  <1>2. CASE ProvisionVpn
    BY <1>2, AddTaskType, TasksHaveNumbers
       DEF ProvisionVpn, TypeOK, ConfigStatus, subVars, panelVars
  <1>3. ASSUME NEW r \in RevokeReason, RevokeVpn(r) PROVE TypeOK'
    <2>1. PICK g \in Tasks : AddTask(g)
      BY <1>3 DEF RevokeVpn, Revokable, BeginRevoke, TypeOK, Tasks
    <2>2. BeginRevoke \/ UNCHANGED cfgVars
      BY <1>3 DEF RevokeVpn, Revokable
    <2>3. /\ status' \in ConfigStatus /\ desired' \in {"active", "revoked"}
          /\ generation' \in Tasks
      BY <2>2, BeginRevokeType DEF TypeOK, cfgVars
    <2>4. UNCHANGED <<subVars, attempts, lease, compensation, phase, panelVars>>
      BY <1>3 DEF RevokeVpn
    <2> QED BY <2>1, <2>3, <2>4, AddTaskType DEF TypeOK, subVars, panelVars
  <1>4. CASE PrepareProvision
    BY <1>4, StartAttemptType, TasksHaveNumbers DEF PrepareProvision, Calling
  <1>5. ASSUME NEW g \in Revokes, PrepareRevoke(g) PROVE TypeOK'
    <2>1. attempts[g] < MaxClaims
      BY <1>5, TasksHaveNumbers DEF PrepareRevoke, TypeOK
    <2> QED BY <1>5, <2>1, StartAttemptType, TasksHaveNumbers DEF PrepareRevoke, Calling
  <1>6. ASSUME NEW g \in Tasks, (RecoverProvision /\ g = 1) \/ RecoverRevoke(g)
        PROVE  TypeOK'
    BY <1>6, RecoverType DEF RecoverProvision, RecoverRevoke, TypeOK
  <1>7. ASSUME NEW g \in Tasks, LeaseRunsOut(g) PROVE TypeOK'
    BY <1>7 DEF LeaseRunsOut, TypeOK, subVars, cfgVars, panelVars
  <1>8. ASSUME NEW g \in Tasks, NEW a \in Claims,
               CallSucceeds(g, a) \/ CallFails(g, a) \/ WorkerStops(g, a)
        PROVE  TypeOK'
    BY <1>8, CallType, MoveOnType DEF WorkerStops, Phase
  <1>9. ASSUME NEW g \in Tasks, NEW a \in Claims, Finalize(g, a) PROVE TypeOK'
    BY <1>9, MoveOnType, RevokeSuccessType, AttemptFailsType, ProvisionSuccessType,
       CompensationType, TasksHaveNumbers
       DEF Finalize, LeaseLost, FinalizeRevokeFailure, FinalizeRemoteFailure, Phase
  <1>10. ASSUME NEW a \in Claims, CompensateAfterLocalFailure(a) PROVE TypeOK'
    BY <1>10, MoveOnType, TasksHaveNumbers
       DEF CompensateAfterLocalFailure, Phase, Calling
  <1>11. CASE UNCHANGED vars
    BY <1>11 DEF vars, subVars, cfgVars, taskVars, panelVars, TypeOK
  <1> QED
    BY <1>1, <1>2, <1>3, <1>4, <1>5, <1>6, <1>7, <1>8, <1>9, <1>10, <1>11,
       TasksHaveNumbers DEF Next

\* The rows and the workers keep their types, and nobody holds the lease of a
\* task that is not in progress, for every number of generations and claims.
THEOREM TypeCorrect == Spec => []TypeOK
  <1>1. ASSUME Init PROVE TypeOK
    <2>1. lease \in [Tasks -> BOOLEAN] /\ \A g \in Tasks : ~lease[g]
      BY <1>1 DEF Init
    <2>2. /\ task \in [Tasks -> TaskStatus] /\ attempts \in [Tasks -> 0..MaxClaims]
          /\ phase \in [Tasks \X Claims -> Phase]
      BY <1>1 DEF Init, TaskStatus, Phase
    <2>3. /\ generation \in Tasks /\ status \in ConfigStatus
          /\ overtaken \in SUBSET Calling
      BY <1>1, TasksHaveNumbers DEF Init, ConfigStatus
    <2>4. period \in BOOLEAN /\ compensation \in BOOLEAN /\ client \in BOOLEAN
      BY <1>1 DEF Init
    <2> QED BY <1>1, <2>1, <2>2, <2>3, <2>4 DEF Init, TypeOK
  <1> QED BY <1>1, NextType, PTL DEF Spec

-----------------------------------------------------------------------------
(* Rows and tasks.                                                         *)

Open == {"pending", "in_progress"}

\* A task that was open stays open, and a compensation stays wanted while
\* there may be a revocation that counts on it.
LEMMA StillOpen ==
    ASSUME TypeOK, RowShape, UNCHANGED cfgVars, NEW g \in Tasks, NEW s \in Open,
           task[g] \in Open, task' = [task EXCEPT ![g] = s],
           compensation => compensation' \/ generation = 1
    PROVE  RowShape'
  <1>1. \A h \in Tasks : /\ h # g => task'[h] = task[h]
                         /\ task'[g] \in Open
    BY DEF TypeOK
  <1>2. IntentShape'
    BY DEF RowShape, IntentShape, cfgVars
  <1>3. TasksOfGenerations'
    BY <1>1, TasksHaveNumbers DEF RowShape, TasksOfGenerations, cfgVars, Open
  <1>4. TaskFollowsConfiguration'
    <2>1. /\ \A h \in Tasks : task[h] \notin Open => task'[h] = task[h]
          /\ \A h \in Tasks : task[h] \in Open => task'[h] \in Open
      BY <1>1
    <2>2. generation \in Tasks /\ UNCHANGED <<status, generation>>
      BY DEF TypeOK, cfgVars
    <2>3. CASE status = "revoking"
      BY <2>1, <2>2, <2>3, TasksHaveNumbers
         DEF RowShape, IntentShape, TaskFollowsConfiguration, Open
    <2>4. CASE status # "revoking"
      BY <2>1, <2>2, <2>4, TasksHaveNumbers
         DEF RowShape, TaskFollowsConfiguration, Open
    <2> QED BY <2>3, <2>4
  <1> QED BY <1>2, <1>3, <1>4 DEF RowShape

LEMMA RowsUnchanged ==
    ASSUME RowShape, UNCHANGED <<cfgVars, task>>, compensation => compensation'
    PROVE  RowShape'
  BY DEF RowShape, IntentShape, TasksOfGenerations, TaskFollowsConfiguration, cfgVars

\* A new generation, with its task or with a compensation that serves it.
LEMMA NewGeneration ==
    ASSUME TypeOK, TypeOK', RowShape, BeginRevoke, status # "absent",
           \/ UNCHANGED compensation /\ AddTask(generation + 1)
           \/ generation = 1 /\ task[1] \in Open /\ UNCHANGED task /\ compensation'
    PROVE  RowShape'
  <1>1. generation \in Nat /\ generation' = generation + 1 /\ generation' \in Tasks
        /\ generation' # 1
    BY DEF BeginRevoke, TypeOK, Tasks
  <1>2. IntentShape'
    BY <1>1 DEF IntentShape, BeginRevoke
  <1>3. task[generation'] = "absent"
    BY <1>1 DEF RowShape, TasksOfGenerations
  <1>4. CASE AddTask(generation + 1)
    <2>1. \A h \in Tasks : task'[h] = IF h = generation' THEN "pending" ELSE task[h]
      BY <1>1, <1>3, <1>4 DEF AddTask, TypeOK
    <2>2. TasksOfGenerations'
      BY <1>1, <2>1, TasksHaveNumbers DEF RowShape, TasksOfGenerations, BeginRevoke
    <2>3. TaskFollowsConfiguration'
      BY <1>1, <2>1 DEF TaskFollowsConfiguration, BeginRevoke
    <2> QED BY <1>2, <2>2, <2>3 DEF RowShape
  <1>5. CASE generation = 1 /\ task[1] \in Open /\ UNCHANGED task /\ compensation'
    <2>1. TasksOfGenerations'
      BY <1>1, <1>5, TasksHaveNumbers DEF RowShape, TasksOfGenerations, BeginRevoke
    <2>2. TaskFollowsConfiguration'
      BY <1>1, <1>3, <1>5 DEF TaskFollowsConfiguration, BeginRevoke, Open
    <2> QED BY <1>2, <2>1, <2>2 DEF RowShape
  <1> QED BY <1>4, <1>5

\* The task of a configuration that waits for it comes to its end, and the
\* configuration with it; a task that nobody waits for ends alone.
LEMMA TaskEnds ==
    ASSUME TypeOK, RowShape, NEW g \in Tasks, NEW s \in {"succeeded", "failed", "cancelled"},
           task[g] = "in_progress", task' = [task EXCEPT ![g] = s],
           UNCHANGED <<desired, generation>>,
           \/ g = 1 /\ CurrentProvision /\ s = "succeeded" /\ status' = "active"
           \/ g = 1 /\ CurrentProvision /\ s = "failed" /\ status' = "failed"
           \/ CurrentRevoke(g) /\ s = "failed" /\ status' = "revoke_failed"
           \/ CurrentRevoke(g) /\ s = "succeeded" /\ status' = "revoked"
           \/ g = 1 /\ CurrentRevoke(2) /\ s = "cancelled" /\ status' = "revoked"
           \/ /\ status' = status
              /\ ~CurrentRevoke(g) /\ (g = 1 => ~CurrentProvision)
              /\ compensation' = compensation \/ ~CurrentRevoke(2)
              /\ g = 1 /\ CurrentRevoke(2) => ~compensation
    PROVE  RowShape'
  <1>1. /\ \A h \in Tasks : h # g => task'[h] = task[h]
        /\ task'[g] = s
    BY DEF TypeOK
  <1>2. generation \in Tasks /\ (status \in {"absent", "provisioning", "active", "failed"}
          <=> generation = 1) /\ (desired = "active" <=> generation = 1)
          /\ desired \in {"active", "revoked"}
    BY DEF RowShape, IntentShape, TypeOK
  <1>3. IntentShape'
    BY <1>2 DEF IntentShape, CurrentProvision, CurrentRevoke
  <1>4. TasksOfGenerations'
    BY <1>1, <1>2, TasksHaveNumbers
       DEF RowShape, TasksOfGenerations, CurrentProvision, CurrentRevoke
  <1>5. TaskFollowsConfiguration'
    <2>1. CASE g = 1 /\ CurrentProvision /\ s = "succeeded" /\ status' = "active"
      BY <1>1, <2>1 DEF TaskFollowsConfiguration
    <2>2. CASE g = 1 /\ CurrentProvision /\ s = "failed" /\ status' = "failed"
      BY <1>1, <2>2 DEF TaskFollowsConfiguration
    <2>3. CASE CurrentRevoke(g) /\ s = "failed" /\ status' = "revoke_failed"
      BY <1>1, <2>3 DEF TaskFollowsConfiguration, CurrentRevoke
    <2>4. CASE CurrentRevoke(g) /\ s = "succeeded" /\ status' = "revoked"
      BY <1>1, <2>4 DEF TaskFollowsConfiguration, CurrentRevoke
    <2>5. CASE g = 1 /\ CurrentRevoke(2) /\ s = "cancelled" /\ status' = "revoked"
      BY <1>1, <2>5 DEF TaskFollowsConfiguration, CurrentRevoke
    <2>6. CASE /\ status' = status
               /\ ~CurrentRevoke(g) /\ (g = 1 => ~CurrentProvision)
               /\ compensation' = compensation \/ ~CurrentRevoke(2)
               /\ g = 1 /\ CurrentRevoke(2) => ~compensation
      <3>1. CASE status = "revoking"
        BY <1>1, <1>2, <2>6, <3>1, TasksHaveNumbers
           DEF RowShape, TaskFollowsConfiguration, CurrentRevoke
      <3>2. CASE status = "provisioning"
        BY <1>1, <1>2, <2>6, <3>2, TasksHaveNumbers
           DEF RowShape, TaskFollowsConfiguration, CurrentProvision
      <3>3. CASE status \notin {"revoking", "provisioning"}
        BY <1>1, <1>2, <2>6, <3>3, TasksHaveNumbers
           DEF RowShape, TaskFollowsConfiguration
      <3> QED BY <3>1, <3>2, <3>3
    <2> QED BY <2>1, <2>2, <2>3, <2>4, <2>5, <2>6
  <1> QED BY <1>3, <1>4, <1>5 DEF RowShape

\* No revocation of the first generation, no provision of a later one.
LEMMA WhoWaits ==
    ASSUME TypeOK, RowShape
    PROVE  /\ ~CurrentRevoke(1)
           /\ CurrentProvision <=> status = "provisioning"
           /\ \A g \in Tasks : CurrentRevoke(g) <=> g = generation /\ status = "revoking"
           /\ terminal_local_state <=> generation # 1
  BY DEF RowShape, IntentShape, TypeOK, CurrentRevoke, CurrentProvision,
     terminal_local_state

\* A new task, of a configuration or of a revocation that lacked one.
LEMMA RowsOfProvision ==
    ASSUME TypeOK, RowShape, ProvisionVpn
    PROVE  RowShape'
  <1>1. /\ task[1] = "absent"
        /\ \A h \in Tasks : task'[h] = IF h = 1 THEN "pending" ELSE task[h]
    BY TasksHaveNumbers
       DEF ProvisionVpn, AddTask, TypeOK, RowShape, TasksOfGenerations
  <1>2. generation = 1 /\ UNCHANGED <<desired, generation>> /\ status' = "provisioning"
    BY DEF ProvisionVpn, RowShape, IntentShape
  <1> QED
    BY <1>1, <1>2, TasksHaveNumbers
       DEF RowShape, IntentShape, TasksOfGenerations, TaskFollowsConfiguration

LEMMA RowsOfRevoke ==
    ASSUME TypeOK, TypeOK', RowShape, NEW r, RevokeVpn(r)
    PROVE  RowShape'
  <1>1. UNCHANGED compensation
    BY DEF RevokeVpn
  <1>2. CASE BeginRevoke /\ status # "absent" /\ AddTask(generation + 1)
    BY <1>1, <1>2, NewGeneration
  <1>3. CASE status = "revoking" /\ task[generation] = "absent" /\ AddTask(generation)
             /\ UNCHANGED cfgVars
    <2>1. \A h \in Tasks : task'[h] = IF h = generation THEN "pending" ELSE task[h]
      BY <1>3 DEF AddTask, TypeOK
    <2>2. generation \in Tasks /\ generation # 1
      BY <1>3 DEF RowShape, IntentShape, TypeOK
    <2>3. IntentShape' /\ TasksOfGenerations'
      BY <1>3, <2>1, <2>2, TasksHaveNumbers
         DEF RowShape, IntentShape, TasksOfGenerations, cfgVars
    <2>4. TaskFollowsConfiguration'
      BY <1>3, <2>1, <2>2 DEF TaskFollowsConfiguration, cfgVars
    <2> QED BY <2>3, <2>4 DEF RowShape
  <1> QED BY <1>2, <1>3 DEF RevokeVpn, Revokable

\* A claim, and a recovery.
LEMMA RowsOfClaim ==
    ASSUME TypeOK, RowShape, NEW g \in Tasks, NEW c,
           \/ StartAttempt(g, c)
           \/ RecoverLease(g) /\ (compensation => compensation')
    PROVE  RowShape'
  <1>1. CASE StartAttempt(g, c)
    BY <1>1, StillOpen DEF StartAttempt, Open
  <1>2. CASE RecoverLease(g) /\ (compensation => compensation')
    BY <1>2, StillOpen DEF RecoverLease, Open
  <1> QED BY <1>1, <1>2

\* The failure of an attempt counts as one of its configuration only if that
\* still waits for it; a provision that fails has nothing to compensate.
LEMMA RowsOfFailure ==
    ASSUME TypeOK, RowShape, NEW g \in Tasks, NEW a \in Claims, AttemptFails(g, a),
           g = 1 => ~compensation
    PROVE  RowShape'
  <1>1. task[g] = "in_progress" /\ UNCHANGED <<desired, generation, compensation>>
    BY DEF AttemptFails, owns_lease
  <1>2. CASE Release(g, "pending") /\ UNCHANGED status
    BY <1>1, <1>2, StillOpen DEF Release, Open, cfgVars
  <1>3. CASE Release(g, "failed") /\ MarkConfigurationFailure(g)
    <2>1. task' = [task EXCEPT ![g] = "failed"]
      BY <1>3 DEF Release
    <2>2. CASE g = 1
      <3>1. CASE CurrentProvision
        <4>1. status' = "failed"
          BY <1>3, <2>2, <3>1 DEF MarkConfigurationFailure
        <4> QED BY <1>1, <2>1, <2>2, <3>1, <4>1, TaskEnds
      <3>2. CASE ~CurrentProvision
        <4>1. status' = status
          BY <1>3, <2>2, <3>2 DEF MarkConfigurationFailure
        <4> QED BY <1>1, <2>1, <2>2, <3>2, <4>1, TaskEnds, WhoWaits
      <3> QED BY <3>1, <3>2
    <2>3. CASE g # 1
      <3>1. g > 1
        BY <2>3, TasksHaveNumbers DEF Tasks
      <3>2. CASE CurrentRevoke(g)
        <4>1. status' = "revoke_failed"
          BY <1>3, <2>3, <3>1, <3>2 DEF MarkConfigurationFailure
        <4> QED BY <1>1, <2>1, <2>3, <3>2, <4>1, TaskEnds
      <3>3. CASE ~CurrentRevoke(g)
        <4>1. status' = status
          BY <1>3, <2>3, <3>1, <3>3 DEF MarkConfigurationFailure
        <4> QED BY <1>1, <2>1, <2>3, <3>3, <4>1, TaskEnds
      <3> QED BY <3>2, <3>3
    <2> QED BY <2>2, <2>3
  <1> QED BY <1>2, <1>3 DEF AttemptFails, RetryOrFail

\* What was made is activated, or its deletion is wanted from then on.
LEMMA RowsOfProvisionSuccess ==
    ASSUME TypeOK, TypeOK', RowShape, NEW a \in Claims, FinalizeProvisionSuccess(a)
    PROVE  RowShape'
  <1>1. task[1] = "in_progress"
    BY DEF FinalizeProvisionSuccess, owns_lease
  <1>2. CASE CurrentProvision /\ status' = "active" /\ Release(1, "succeeded")
             /\ UNCHANGED <<desired, generation>>
    BY <1>1, <1>2, TaskEnds, TasksHaveNumbers DEF Release
  <1>3. CASE CurrentProvision /\ BeginRevoke /\ DeleteWhatWasMade(a)
    BY <1>1, <1>3, NewGeneration DEF CurrentProvision, DeleteWhatWasMade, Open
  <1>4. CASE UNCHANGED cfgVars /\ DeleteWhatWasMade(a)
    BY <1>4, RowsUnchanged DEF DeleteWhatWasMade
  <1> QED BY <1>2, <1>3, <1>4 DEF FinalizeProvisionSuccess, Activatable

\* A compensation that is done cancels its task and ends the revocation that
\* counted on it, or it hands the task back to the provision.
LEMMA RowsOfCompensation ==
    ASSUME TypeOK, RowShape, NEW a \in Claims,
           RecordCompensationSuccess(a) \/ RecordCompensationFailure(a)
    PROVE  RowShape'
  <1>1. /\ task[1] = "in_progress" /\ 1 \in Tasks
        /\ UNCHANGED <<desired, generation>>
    BY TasksHaveNumbers
       DEF RecordCompensationSuccess, RecordCompensationFailure, owns_lease, cfgVars
  <1>2. CASE RecordCompensationFailure(a)
    BY <1>1, <1>2, StillOpen DEF RecordCompensationFailure, Release, Open
  <1>3. CASE RecordCompensationSuccess(a)
    <2>1. CASE terminal_local_state /\ Release(1, "cancelled")
               /\ status' = IF completes_cancelled_provision THEN "revoked" ELSE status
      <3>1. task' = [task EXCEPT ![1] = "cancelled"]
        BY <2>1 DEF Release
      <3>2. CASE CurrentRevoke(2)
        BY <1>1, <2>1, <3>1, <3>2, TaskEnds DEF completes_cancelled_provision
      <3>3. CASE ~CurrentRevoke(2)
        <4>1. ~CurrentProvision /\ ~CurrentRevoke(1)
          BY <2>1, WhoWaits DEF CurrentProvision
        <4>2. status' = status
          BY <2>1, <3>3 DEF completes_cancelled_provision
        <4> QED BY <1>1, <3>1, <3>3, <4>1, <4>2, TaskEnds
      <3> QED BY <3>2, <3>3
    <2>2. CASE ~terminal_local_state /\ Release(1, "failed") /\ MarkConfigurationFailure(1)
      <3>1. task' = [task EXCEPT ![1] = "failed"]
        BY <2>2 DEF Release
      <3>2. CASE CurrentProvision
        <4>1. status' = "failed"
          BY <2>2, <3>2 DEF MarkConfigurationFailure
        <4> QED BY <1>1, <3>1, <3>2, <4>1, TaskEnds
      <3>3. CASE ~CurrentProvision
        <4>1. status' = status
          BY <2>2, <3>3 DEF MarkConfigurationFailure
        <4>2. ~CurrentRevoke(2) /\ ~CurrentRevoke(1)
          BY <2>2, WhoWaits DEF CurrentRevoke
        <4> QED BY <1>1, <3>1, <3>3, <4>1, <4>2, TaskEnds
      <3> QED BY <3>2, <3>3
    <2>3. CASE ~terminal_local_state /\ Release(1, "pending") /\ UNCHANGED status
      <3>1. generation = 1
        BY <2>3, WhoWaits
      <3> QED BY <1>1, <2>3, <3>1, StillOpen DEF Release, Open, cfgVars
    <2> QED BY <1>3, <2>1, <2>2, <2>3 DEF RecordCompensationSuccess
  <1> QED BY <1>2, <1>3

LEMMA RowsOfRevokeSuccess ==
    ASSUME TypeOK, RowShape, NEW g \in Tasks, NEW a \in Claims, FinalizeRevokeSuccess(g, a)
    PROVE  RowShape'
  <1>1. /\ task[g] = "in_progress" /\ g # 1
        /\ UNCHANGED <<desired, generation, compensation>>
    BY TasksHaveNumbers DEF FinalizeRevokeSuccess, owns_lease
  <1>2. CASE Release(g, "succeeded") /\ status' = IF CurrentRevoke(g) THEN "revoked" ELSE status
    <2>1. task' = [task EXCEPT ![g] = "succeeded"]
      BY <1>2 DEF Release
    <2> QED BY <1>1, <1>2, <2>1, TaskEnds
  <1>3. CASE UNCHANGED <<task, lease, status>>
    BY <1>1, <1>3, RowsUnchanged DEF cfgVars
  <1> QED BY <1>2, <1>3 DEF FinalizeRevokeSuccess

LEMMA NextRows ==
    ASSUME RowInv, [Next]_vars, TypeOK'
    PROVE  RowShape'
  <1> USE DEF RowInv
  <1>1. CASE PeriodChanges \/ SubscriptionEnds
    BY <1>1, RowsUnchanged DEF PeriodChanges, SubscriptionEnds, taskVars
  <1>2. CASE ProvisionVpn
    BY <1>2, RowsOfProvision
  <1>3. ASSUME NEW r \in RevokeReason, RevokeVpn(r) PROVE RowShape'
    BY <1>3, RowsOfRevoke
  <1>4. CASE PrepareProvision
    BY <1>4, RowsOfClaim, TasksHaveNumbers DEF PrepareProvision
  <1>5. CASE RecoverProvision
    BY <1>5, RowsOfClaim, TasksHaveNumbers DEF RecoverProvision
  <1>6. ASSUME NEW g \in Tasks, PrepareRevoke(g) PROVE RowShape'
    BY <1>6, RowsOfClaim DEF PrepareRevoke
  <1>7. ASSUME NEW g \in Tasks, RecoverRevoke(g) PROVE RowShape'
    BY <1>7, RowsOfClaim DEF RecoverRevoke
  <1>8. ASSUME NEW g \in Tasks, LeaseRunsOut(g) PROVE RowShape'
    BY <1>8, RowsUnchanged DEF LeaseRunsOut
  <1>9. ASSUME NEW g \in Tasks, NEW a \in Claims,
               CallSucceeds(g, a) \/ CallFails(g, a) \/ WorkerStops(g, a)
        PROVE  RowShape'
    BY <1>9, RowsUnchanged DEF CallSucceeds, CallFails, WorkerStops, taskVars
  <1>10. ASSUME NEW g \in Tasks, NEW a \in Claims, Finalize(g, a) PROVE RowShape'
    <2>1. CASE LeaseLost(g, a)
      BY <2>1, RowsUnchanged DEF LeaseLost, taskVars
    <2>2. CASE FinalizeRevokeSuccess(g, a)
      BY <2>2, RowsOfRevokeSuccess
    <2>3. CASE FinalizeRevokeFailure(g, a)
      BY <2>3, RowsOfFailure, TasksHaveNumbers DEF FinalizeRevokeFailure
    <2>4. CASE g = 1 /\ FinalizeRemoteFailure(a)
      <3>1. owns_lease(1, a) /\ phase[<<1, a>>] \in AboutAdding
        BY <2>4 DEF FinalizeRemoteFailure, AttemptFails, AboutAdding
      <3>2. ~compensation
        BY <3>1 DEF CompensationDeletes
      <3> QED BY <2>4, <3>2, RowsOfFailure DEF FinalizeRemoteFailure
    <2>5. CASE FinalizeProvisionSuccess(a)
      BY <2>5, RowsOfProvisionSuccess
    <2>6. CASE RecordCompensationSuccess(a) \/ RecordCompensationFailure(a)
      BY <2>6, RowsOfCompensation
    <2> QED BY <1>10, <2>1, <2>2, <2>3, <2>4, <2>5, <2>6 DEF Finalize
  <1>11. ASSUME NEW a \in Claims, CompensateAfterLocalFailure(a) PROVE RowShape'
    BY <1>11, RowsUnchanged DEF CompensateAfterLocalFailure, taskVars
  <1>12. CASE UNCHANGED vars
    BY <1>12, RowsUnchanged DEF vars, taskVars
  <1> QED
    BY <1>1, <1>2, <1>3, <1>4, <1>5, <1>6, <1>7, <1>8, <1>9, <1>10, <1>11, <1>12,
       TasksHaveNumbers DEF Next

-----------------------------------------------------------------------------
(* Workers.  Only a claim makes an owner, only a call of the panel changes *)
(* the client; in every other step a worker goes on, stops, or turns to    *)
(* delete.                                                                 *)

QuietStep ==
    /\ UNCHANGED <<client, overtaken>>
    /\ \A g \in Tasks, a \in Claims :
          /\ owns_lease(g, a)' => owns_lease(g, a)
          /\ phase'[<<g, a>>] \in {phase[<<g, a>>], "none", "deleting"}

LEMMA NoNewOwner ==
    ASSUME UNCHANGED attempts,
           \A h \in Tasks : task'[h] = "in_progress" => task[h] = "in_progress"
    PROVE  \A g \in Tasks, a \in Claims : owns_lease(g, a)' => owns_lease(g, a)
  BY DEF owns_lease

LEMMA Moved ==
    ASSUME TypeOK, NEW g \in Tasks, NEW a \in Claims, NEW p, Move(g, a, p)
    PROVE  /\ phase'[<<g, a>>] = p
           /\ \A h \in Tasks, b \in Claims :
                 h # g \/ b # a => phase'[<<h, b>>] = phase[<<h, b>>]
  <1>1. phase \in [Tasks \X Claims -> Phase]
    BY DEF TypeOK
  <1>2. \A h \in Tasks, b \in Claims :
           <<h, b>> \in Tasks \X Claims /\ (<<h, b>> = <<g, a>> <=> h = g /\ b = a)
    OBVIOUS
  <1> QED BY <1>1, <1>2 DEF Move

\* A task that is handed back or ended has no owner.
LEMMA ReleasedHasNoOwner ==
    ASSUME TypeOK, NEW g \in Tasks, NEW s, s # "in_progress",
           task' = [task EXCEPT ![g] = s], UNCHANGED attempts
    PROVE  /\ \A h \in Tasks, a \in Claims : owns_lease(h, a)' => owns_lease(h, a)
           /\ \A a \in Claims : ~owns_lease(g, a)'
  <1>1. task'[g] = s /\ \A h \in Tasks : h # g => task'[h] = task[h]
    BY DEF TypeOK
  <1>2. \A h \in Tasks : task'[h] = "in_progress" => task[h] = "in_progress"
    BY <1>1
  <1> QED BY <1>1, <1>2, NoNewOwner DEF owns_lease

LEMMA AddedHasNoOwner ==
    ASSUME TypeOK, NEW g \in Tasks, AddTask(g), UNCHANGED attempts
    PROVE  \A h \in Tasks, a \in Claims : owns_lease(h, a)' => owns_lease(h, a)
  <1>1. \A h \in Tasks : task'[h] = "in_progress" => task[h] = "in_progress"
    BY DEF AddTask, TypeOK
  <1> QED BY <1>1, NoNewOwner

LEMMA QuietRows ==
    ASSUME TypeOK,
           \/ PeriodChanges \/ SubscriptionEnds \/ ProvisionVpn
           \/ \E r \in RevokeReason : RevokeVpn(r)
           \/ \E g \in Tasks : RecoverLease(g) \/ LeaseRunsOut(g)
           \/ UNCHANGED vars
    PROVE  QuietStep
  <1>1. UNCHANGED <<client, overtaken, attempts, phase>>
    BY DEF PeriodChanges, SubscriptionEnds, ProvisionVpn, RevokeVpn, RecoverLease,
       LeaseRunsOut, vars, taskVars, panelVars
  <1>2. \A h \in Tasks, a \in Claims : owns_lease(h, a)' => owns_lease(h, a)
    <2>1. CASE UNCHANGED task
      BY <1>1, <2>1, NoNewOwner
    <2>2. CASE ProvisionVpn
      BY <1>1, <2>2, AddedHasNoOwner, TasksHaveNumbers DEF ProvisionVpn
    <2>3. ASSUME NEW r \in RevokeReason, RevokeVpn(r)
          PROVE  \A h \in Tasks, a \in Claims : owns_lease(h, a)' => owns_lease(h, a)
      <3>1. PICK g \in Tasks : AddTask(g)
        BY <2>3 DEF RevokeVpn, Revokable, BeginRevoke, TypeOK, Tasks
      <3> QED BY <1>1, <3>1, AddedHasNoOwner
    <2>4. ASSUME NEW g \in Tasks, RecoverLease(g)
          PROVE  \A h \in Tasks, a \in Claims : owns_lease(h, a)' => owns_lease(h, a)
      BY <1>1, <2>4, ReleasedHasNoOwner DEF RecoverLease
    <2> QED
      BY <2>1, <2>2, <2>3, <2>4
         DEF PeriodChanges, SubscriptionEnds, LeaseRunsOut, vars, taskVars
  <1> QED BY <1>1, <1>2 DEF QuietStep

LEMMA QuietWorker ==
    ASSUME TypeOK, NEW g \in Tasks, NEW a \in Claims,
           \/ WorkerStops(g, a) \/ Finalize(g, a)
           \/ g = 1 /\ CompensateAfterLocalFailure(a)
    PROVE  QuietStep
  <1>1. UNCHANGED <<client, overtaken, attempts>>
    BY DEF WorkerStops, Finalize, CompensateAfterLocalFailure, LeaseLost, AttemptFails,
       FinalizeRevokeSuccess, FinalizeRevokeFailure, FinalizeProvisionSuccess,
       FinalizeRemoteFailure, RecordCompensationSuccess, RecordCompensationFailure,
       panelVars, taskVars
  <1>2. PICK p \in {"none", "deleting"} : Move(g, a, p)
    BY DEF WorkerStops, Finalize, CompensateAfterLocalFailure, LeaseLost, AttemptFails,
       FinalizeRevokeSuccess, FinalizeRevokeFailure, FinalizeProvisionSuccess,
       FinalizeRemoteFailure, RecordCompensationSuccess, RecordCompensationFailure,
       DeleteWhatWasMade
  <1>3. UNCHANGED task \/ \E s \in TaskStatus \ {"in_progress"} : task' = [task EXCEPT ![g] = s]
    BY DEF WorkerStops, Finalize, CompensateAfterLocalFailure, LeaseLost, AttemptFails,
       FinalizeRevokeSuccess, FinalizeRevokeFailure, FinalizeProvisionSuccess,
       FinalizeRemoteFailure, RecordCompensationSuccess, RecordCompensationFailure,
       DeleteWhatWasMade, RetryOrFail, Release, TaskStatus, taskVars
  <1>4. \A h \in Tasks, b \in Claims : owns_lease(h, b)' => owns_lease(h, b)
    BY <1>1, <1>3, NoNewOwner, ReleasedHasNoOwner
  <1>5. /\ phase'[<<g, a>>] = p
        /\ \A h \in Tasks, b \in Claims :
              h # g \/ b # a => phase'[<<h, b>>] = phase[<<h, b>>]
    BY <1>2, Moved
  <1>6. \A h \in Tasks, b \in Claims :
            phase'[<<h, b>>] \in {phase[<<h, b>>], "none", "deleting"}
    BY <1>2, <1>5
  <1> QED BY <1>1, <1>4, <1>6 DEF QuietStep

\* The worker of a claim is the one owner of its task, and begins its call.
LEMMA Claimed ==
    ASSUME TypeOK, NEW g \in Tasks, NEW c \in Calling, StartAttempt(g, c),
           attempts[g] < MaxClaims
    PROVE  \A h \in Tasks, b \in Claims :
              /\ h # g => /\ owns_lease(h, b)' => owns_lease(h, b)
                          /\ phase'[<<h, b>>] = phase[<<h, b>>]
              /\ owns_lease(g, b)' => phase'[<<g, b>>] = c
              /\ phase'[<<g, b>>] \in {phase[<<g, b>>], c}
  <1> DEFINE n == attempts[g] + 1
  <1>1. n \in Claims
    BY DEF TypeOK, Claims
  <1>2. Move(g, n, c)
    BY DEF StartAttempt, Move
  <1>3. /\ phase'[<<g, n>>] = c
        /\ \A h \in Tasks, b \in Claims :
              h # g \/ b # n => phase'[<<h, b>>] = phase[<<h, b>>]
    BY <1>1, <1>2, Moved
  <1>4. \A h \in Tasks : h # g => task'[h] = task[h] /\ attempts'[h] = attempts[h]
    BY DEF StartAttempt, TypeOK
  <1>5. attempts'[g] = n
    BY DEF StartAttempt, TypeOK
  <1> QED BY <1>3, <1>4, <1>5 DEF owns_lease

\* The worker of a call goes on to its answer, and keeps or lacks its task.
LEMMA Called ==
    ASSUME TypeOK, NEW g \in Tasks, NEW a \in Claims,
           CallSucceeds(g, a) \/ CallFails(g, a)
    PROVE  /\ \A h \in Tasks, b \in Claims :
                  /\ owns_lease(h, b)' <=> owns_lease(h, b)
                  /\ h # g \/ b # a => phase'[<<h, b>>] = phase[<<h, b>>]
           /\ \/ /\ phase[<<g, a>>] = "adding"
                 /\ phase'[<<g, a>>] \in {"added", "add_failed"}
              \/ /\ phase[<<g, a>>] = "deleting"
                 /\ phase'[<<g, a>>] \in {"deleted", "delete_failed"}
           /\ phase'[<<g, a>>] \in {"added", "deleted"} => Carry(g, a)
           /\ Carry(g, a) \/ UNCHANGED panelVars
           /\ UNCHANGED <<subVars, cfgVars, taskVars>>
  <1>1. UNCHANGED taskVars /\ UNCHANGED <<subVars, cfgVars>>
    BY DEF CallSucceeds, CallFails
  <1>2. \A h \in Tasks, b \in Claims : owns_lease(h, b)' <=> owns_lease(h, b)
    BY <1>1 DEF taskVars, owns_lease
  <1>3. PICK p \in Answered :
           /\ Move(g, a, p)
           /\ \/ phase[<<g, a>>] = "adding" /\ p \in {"added", "add_failed"}
              \/ phase[<<g, a>>] = "deleting" /\ p \in {"deleted", "delete_failed"}
           /\ p \in {"added", "deleted"} => Carry(g, a)
    BY DEF CallSucceeds, CallFails, Answered
  <1>4. /\ phase'[<<g, a>>] = p
        /\ \A h \in Tasks, b \in Claims :
              h # g \/ b # a => phase'[<<h, b>>] = phase[<<h, b>>]
    BY <1>3, Moved
  <1>5. Carry(g, a) \/ UNCHANGED panelVars
    BY DEF CallSucceeds, CallFails
  <1> QED BY <1>1, <1>2, <1>3, <1>4, <1>5

LEMMA OneOwner ==
    ASSUME NEW g, NEW a, NEW b, owns_lease(g, a), owns_lease(g, b)
    PROVE  a = b
  BY DEF owns_lease

\* A worker takes up a compensation only with the claim of the task, and
\* who deletes does not turn to add.
LEMMA NextCompensationDeletes ==
    ASSUME TypeOK, CompensationDeletes, [Next]_vars
    PROVE  CompensationDeletes'
  <1>1. CASE QuietStep /\ (compensation' => compensation)
    BY <1>1, TasksHaveNumbers DEF QuietStep, CompensationDeletes, AboutAdding
  <1>2. CASE PrepareProvision
    <2>1. UNCHANGED compensation
      BY <1>2 DEF PrepareProvision, StartAttempt
    <2>2. \A b \in Claims : owns_lease(1, b)' =>
              phase'[<<1, b>>] = IF compensation THEN "deleting" ELSE "adding"
      BY <1>2, Claimed, TasksHaveNumbers DEF PrepareProvision, Calling
    <2> QED BY <2>1, <2>2 DEF CompensationDeletes, AboutAdding
  <1>3. ASSUME NEW g \in Revokes, PrepareRevoke(g) PROVE CompensationDeletes'
    <2>1. UNCHANGED compensation /\ attempts[g] < MaxClaims
      BY <1>3, TasksHaveNumbers DEF PrepareRevoke, StartAttempt, TypeOK
    <2>2. g \in Tasks /\ g # 1 /\ 1 \in Tasks /\ "deleting" \in Calling
      BY TasksHaveNumbers DEF Calling
    <2>3. StartAttempt(g, "deleting")
      BY <1>3 DEF PrepareRevoke
    <2>4. \A h \in Tasks, b \in Claims :
             h # g => /\ owns_lease(h, b)' => owns_lease(h, b)
                      /\ phase'[<<h, b>>] = phase[<<h, b>>]
      BY <2>1, <2>2, <2>3, Claimed
    <2> QED BY <2>1, <2>2, <2>4 DEF CompensationDeletes
  <1>4. ASSUME NEW g \in Tasks, NEW a \in Claims, CallSucceeds(g, a) \/ CallFails(g, a)
        PROVE  CompensationDeletes'
    <2>1. /\ \A h \in Tasks, b \in Claims :
                /\ owns_lease(h, b)' <=> owns_lease(h, b)
                /\ h # g \/ b # a => phase'[<<h, b>>] = phase[<<h, b>>]
          /\ phase'[<<g, a>>] \in AboutAdding => phase[<<g, a>>] \in AboutAdding
          /\ UNCHANGED taskVars
      BY <1>4, Called DEF AboutAdding
    <2>2. \A h \in Tasks, b \in Claims :
             phase'[<<h, b>>] \in AboutAdding => phase[<<h, b>>] \in AboutAdding
      BY <2>1
    <2> QED BY <2>1, <2>2, TasksHaveNumbers DEF CompensationDeletes, taskVars
  <1>5. ASSUME NEW g \in Tasks, NEW a \in Claims, Finalize(g, a) PROVE CompensationDeletes'
    <2>1. QuietStep
      BY <1>5, QuietWorker
    <2>2. CASE compensation' => compensation
      BY <1>1, <2>1, <2>2
    <2>3. CASE g = 1 /\ RecordCompensationFailure(a)
      BY <2>3, ReleasedHasNoOwner, TasksHaveNumbers
         DEF RecordCompensationFailure, Release, CompensationDeletes
    <2>4. CASE g = 1 /\ FinalizeProvisionSuccess(a) /\ DeleteWhatWasMade(a)
      <3>1. owns_lease(1, a)
        BY <2>4 DEF FinalizeProvisionSuccess
      <3>2. phase'[<<1, a>>] = "deleting"
        BY <2>4, Moved, TasksHaveNumbers DEF DeleteWhatWasMade
      <3>3. \A b \in Claims : owns_lease(1, b)' => b = a
        BY <2>1, <3>1, OneOwner, TasksHaveNumbers DEF QuietStep
      <3> QED BY <3>2, <3>3 DEF CompensationDeletes, AboutAdding
    <2>5. CASE FinalizeProvisionSuccess(a) /\ g = 1
      <3>1. compensation' = FALSE \/ DeleteWhatWasMade(a)
        BY <2>5 DEF FinalizeProvisionSuccess
      <3> QED BY <2>2, <2>4, <2>5, <3>1
    <2>6. CASE RecordCompensationSuccess(a)
      BY <2>2, <2>6 DEF RecordCompensationSuccess
    <2>7. CASE UNCHANGED compensation
      BY <2>2, <2>7
    <2> QED
      BY <1>5, <2>3, <2>5, <2>6, <2>7
         DEF Finalize, LeaseLost, AttemptFails, FinalizeRevokeSuccess, FinalizeRevokeFailure,
             FinalizeRemoteFailure, taskVars
  <1>6. CASE RecoverProvision
    BY <1>6, ReleasedHasNoOwner, TasksHaveNumbers
       DEF RecoverProvision, RecoverLease, CompensationDeletes
  <1>7. CASE \/ PeriodChanges \/ SubscriptionEnds \/ ProvisionVpn
             \/ \E r \in RevokeReason : RevokeVpn(r)
             \/ \E g \in Tasks : LeaseRunsOut(g) \/ RecoverRevoke(g)
             \/ UNCHANGED vars
    <2>1. QuietStep
      BY <1>7, QuietRows DEF RecoverRevoke
    <2>2. UNCHANGED compensation
      BY <1>7 DEF PeriodChanges, SubscriptionEnds, ProvisionVpn, RevokeVpn, LeaseRunsOut,
         RecoverRevoke, vars, taskVars
    <2> QED BY <1>1, <2>1, <2>2
  <1>8. ASSUME NEW g \in Tasks, NEW a \in Claims,
               WorkerStops(g, a) \/ (g = 1 /\ CompensateAfterLocalFailure(a))
        PROVE  CompensationDeletes'
    <2>1. QuietStep
      BY <1>8, QuietWorker
    <2>2. UNCHANGED compensation
      BY <1>8 DEF WorkerStops, CompensateAfterLocalFailure, taskVars
    <2> QED BY <1>1, <2>1, <2>2
  <1> QED
    BY <1>2, <1>3, <1>4, <1>5, <1>6, <1>7, <1>8, TasksHaveNumbers DEF Next

LEMMA RowCorrect == Spec => []RowInv
  <1>1. ASSUME Init PROVE RowShape /\ CompensationDeletes
    <2>1. \A g \in Tasks : task[g] = "absent"
      BY <1>1 DEF Init
    <2> QED
      BY <1>1, <2>1, TasksHaveNumbers
         DEF Init, RowShape, IntentShape, TasksOfGenerations, TaskFollowsConfiguration,
             CompensationDeletes
  <1>2. ASSUME RowInv, [Next]_vars PROVE RowInv'
    BY <1>2, NextType, NextRows, NextCompensationDeletes DEF RowInv
  <1>3. ASSUME TypeOK, Init PROVE RowInv
    BY <1>1, <1>3 DEF RowInv
  <1> QED BY <1>2, <1>3, TypeCorrect, PTL DEF Spec

\* No configuration is stranded, however often its provision is compensated,
\* recovered and repeated, and whatever answers come late: a row that waits
\* has a task that works for it, a row that has settled has the task that
\* settled it.
THEOREM NoStrandedConfiguration == Spec => []TaskFollowsConfiguration
  <1>1. RowInv => TaskFollowsConfiguration
    BY DEF RowInv, RowShape
  <1> QED BY <1>1, RowCorrect, PTL

-----------------------------------------------------------------------------
(* The client.  A configuration turns active, and a task is cancelled or   *)
(* revokes, only with what its own worker has done.                        *)

RowsFollowWorkers ==
    /\ generation' = 1 => generation = 1
    /\ status' = "active" =>
          \/ status = "active"
          \/ generation = 1 /\ \E a \in Claims : owns_lease(1, a) /\ phase[<<1, a>>] = "added"
    /\ task'[1] = "cancelled" =>
          \/ task[1] = "cancelled"
          \/ \E a \in Claims : owns_lease(1, a) /\ phase[<<1, a>>] = "deleted"
    /\ task'[1] = "succeeded" => task[1] = "succeeded" \/ generation' = 1
    /\ status' = "revoked" /\ task'[1] = "succeeded" =>
          \/ status = "revoked"
          \/ \E g \in Revokes, a \in Claims : owns_lease(g, a) /\ phase[<<g, a>>] = "deleted"

\* Before the first revocation nobody owns a revoke task.
LEMMA NoRevokeYet ==
    ASSUME TypeOK, RowShape, generation = 1, NEW g \in Revokes, NEW a \in Claims
    PROVE  ~owns_lease(g, a)
  <1>1. g > 1 /\ g \in Tasks
    BY TasksHaveNumbers DEF Revokes
  <1> QED BY <1>1 DEF RowShape, TasksOfGenerations, owns_lease

LEMMA QuietClient ==
    ASSUME RowInv, RowInv', ClientInv, QuietStep, RowsFollowWorkers
    PROVE  ClientInv'
  <1> USE DEF RowInv
  <1>1. /\ UNCHANGED <<client, overtaken>> /\ 1 \in Tasks
        /\ \A g \in Tasks, a \in Claims :
              /\ owns_lease(g, a)' => owns_lease(g, a)
              /\ phase'[<<g, a>>] \in {"added", "deleted"} => phase'[<<g, a>>] = phase[<<g, a>>]
              /\ phase'[<<g, a>>] \in AboutAdding => phase'[<<g, a>>] = phase[<<g, a>>]
    BY TasksHaveNumbers DEF QuietStep, AboutAdding
  <1>2. OnlyProvisionAdds'
    BY <1>1, TasksHaveNumbers DEF ClientInv, OnlyProvisionAdds
  <1>3. MadeIsThere'
    BY <1>1 DEF ClientInv, MadeIsThere, RowsFollowWorkers
  <1>4. DeletedIsGone'
    <2>1. CASE "adding" \in overtaken
      BY <1>1, <2>1 DEF DeletedIsGone
    <2>2. CASE "adding" \notin overtaken
      <3>1. \A a \in Claims : owns_lease(1, a)' /\ phase'[<<1, a>>] = "deleted" => ~client
        BY <1>1, <2>2 DEF ClientInv, DeletedIsGone
      <3>2. task'[1] = "cancelled" => ~client
        BY <2>2 DEF ClientInv, DeletedIsGone, RowsFollowWorkers
      <3>3. ASSUME task'[1] = "succeeded", NEW g \in Revokes, NEW a \in Claims,
                   owns_lease(g, a)', phase'[<<g, a>>] = "deleted"
            PROVE  ~client
        <4>1. g \in Tasks /\ owns_lease(g, a) /\ phase[<<g, a>>] = "deleted"
          BY <1>1, <3>3, TasksHaveNumbers
        <4>2. generation # 1
          BY <4>1, NoRevokeYet
        <4>3. task[1] = "succeeded"
          BY <3>3, <4>2 DEF RowsFollowWorkers
        <4> QED BY <2>2, <3>3, <4>1, <4>3 DEF ClientInv, DeletedIsGone
      <3> QED BY <1>1, <3>1, <3>2, <3>3 DEF DeletedIsGone
    <2> QED BY <2>1, <2>2
  <1>5. ActiveClientInPanel'
    BY <1>1 DEF ClientInv, ActiveClientInPanel, MadeIsThere, RowsFollowWorkers
  <1>6. NoClientAfterRevocation'
    <2> SUFFICES ASSUME status' = "revoked", task'[1] \in {"succeeded", "cancelled"},
                        "adding" \notin overtaken
                 PROVE  ~client
      BY <1>1 DEF NoClientAfterRevocation
    <2>1. CASE task'[1] = "cancelled"
      BY <1>1, <1>4, <2>1 DEF DeletedIsGone
    <2>2. CASE task'[1] = "succeeded"
      <3>1. generation' # 1
        BY DEF RowShape, IntentShape
      <3>2. task[1] = "succeeded"
        BY <2>2, <3>1 DEF RowsFollowWorkers
      <3>3. CASE status = "revoked"
        BY <3>2, <3>3 DEF ClientInv, NoClientAfterRevocation
      <3>4. CASE \E g \in Revokes, a \in Claims :
                    owns_lease(g, a) /\ phase[<<g, a>>] = "deleted"
        BY <3>2, <3>4 DEF ClientInv, DeletedIsGone
      <3> QED BY <2>2, <3>3, <3>4 DEF RowsFollowWorkers
    <2> QED BY <2>1, <2>2
  <1> QED BY <1>2, <1>3, <1>4, <1>5, <1>6 DEF ClientInv

\* A claim: the new owner has neither made nor deleted anything.
LEMMA ClaimClient ==
    ASSUME RowInv, ClientInv, NEW g \in Tasks, NEW c \in Calling, StartAttempt(g, c),
           attempts[g] < MaxClaims, g # 1 => c = "deleting"
    PROVE  ClientInv'
  <1> USE DEF RowInv
  <1>1. UNCHANGED <<client, overtaken, status, generation>>
    BY DEF StartAttempt, panelVars, cfgVars
  <1>2. \A h \in Tasks, b \in Claims :
           /\ h # g => /\ owns_lease(h, b)' => owns_lease(h, b)
                       /\ phase'[<<h, b>>] = phase[<<h, b>>]
           /\ owns_lease(g, b)' => phase'[<<g, b>>] = c
           /\ phase'[<<g, b>>] \in {phase[<<g, b>>], c}
    BY Claimed
  <1>3. \A h \in Tasks, b \in Claims :
           owns_lease(h, b)' /\ phase'[<<h, b>>] \in {"added", "deleted"} =>
              owns_lease(h, b) /\ phase'[<<h, b>>] = phase[<<h, b>>]
    BY <1>2 DEF Calling
  <1>4. \A s \in {"succeeded", "cancelled"} : task'[1] = s => task[1] = s
    BY TasksHaveNumbers DEF StartAttempt, TypeOK
  <1>5. OnlyProvisionAdds'
    BY <1>2, TasksHaveNumbers DEF ClientInv, OnlyProvisionAdds, AboutAdding
  <1>6. MadeIsThere'
    BY <1>1, <1>3, TasksHaveNumbers DEF ClientInv, MadeIsThere
  <1>7. DeletedIsGone'
    BY <1>1, <1>3, <1>4, TasksHaveNumbers DEF ClientInv, DeletedIsGone
  <1>8. ActiveClientInPanel' /\ NoClientAfterRevocation'
    BY <1>1, <1>4 DEF ClientInv, ActiveClientInPanel, NoClientAfterRevocation
  <1> QED BY <1>5, <1>6, <1>7, <1>8 DEF ClientInv

\* A call of the panel: the owner of the provision alone makes the client and
\* stays answerable for it; whoever else makes or deletes one is remembered.
LEMMA CallClient ==
    ASSUME RowInv, ClientInv, NEW g \in Tasks, NEW a \in Claims,
           CallSucceeds(g, a) \/ CallFails(g, a)
    PROVE  ClientInv'
  <1> USE DEF RowInv
  <1>1. /\ \A h \in Tasks, b \in Claims :
              /\ owns_lease(h, b)' <=> owns_lease(h, b)
              /\ h # g \/ b # a => phase'[<<h, b>>] = phase[<<h, b>>]
        /\ \/ phase[<<g, a>>] = "adding" /\ phase'[<<g, a>>] \in {"added", "add_failed"}
           \/ phase[<<g, a>>] = "deleting" /\ phase'[<<g, a>>] \in {"deleted", "delete_failed"}
        /\ phase'[<<g, a>>] \in {"added", "deleted"} => Carry(g, a)
        /\ Carry(g, a) \/ UNCHANGED panelVars
        /\ UNCHANGED <<subVars, cfgVars, taskVars>>
    BY Called
  <1>2. UNCHANGED <<status, generation, task>> /\ 1 \in Tasks
    BY <1>1, TasksHaveNumbers DEF cfgVars, taskVars
  <1>3. OnlyProvisionAdds'
    BY <1>1, TasksHaveNumbers DEF ClientInv, OnlyProvisionAdds, AboutAdding
  <1>4. CASE ~Carry(g, a)
    <2>1. UNCHANGED <<client, overtaken>>
      BY <1>1, <1>4 DEF panelVars
    <2>2. \A h \in Tasks, b \in Claims : phase'[<<h, b>>] \in {"added", "deleted"} =>
                                           phase'[<<h, b>>] = phase[<<h, b>>]
      BY <1>1, <1>4
    <2>3. MadeIsThere'
      BY <1>1, <1>2, <2>1, <2>2 DEF ClientInv, MadeIsThere
    <2>4. DeletedIsGone'
      BY <1>1, <1>2, <2>1, <2>2, TasksHaveNumbers DEF ClientInv, DeletedIsGone
    <2>5. ActiveClientInPanel' /\ NoClientAfterRevocation'
      BY <1>2, <2>1 DEF ClientInv, ActiveClientInPanel, NoClientAfterRevocation
    <2> QED BY <1>3, <2>3, <2>4, <2>5 DEF ClientInv
  <1>5. CASE Carry(g, a) /\ phase[<<g, a>>] = "adding"
    <2>1. client' /\ g = 1
      BY <1>5, TasksHaveNumbers DEF Carry, ClientInv, OnlyProvisionAdds, AboutAdding
    <2>2. MadeIsThere' /\ ActiveClientInPanel'
      BY <2>1 DEF MadeIsThere, ActiveClientInPanel
    <2>3. CASE owns_lease(1, a)
      <3>1. task[1] = "in_progress"
        BY <2>3 DEF owns_lease
      <3>2. \A b \in Claims : owns_lease(1, b)' => phase'[<<1, b>>] # "deleted"
        BY <1>1, <1>5, <2>1, <2>3, OneOwner
      <3>3. DeletedIsGone' /\ NoClientAfterRevocation'
        BY <1>2, <3>1, <3>2 DEF DeletedIsGone, NoClientAfterRevocation
      <3> QED BY <1>3, <2>2, <3>3 DEF ClientInv
    <2>4. CASE ~owns_lease(1, a)
      <3>1. "adding" \in overtaken'
        BY <1>5, <2>1, <2>4 DEF Carry
      <3> QED BY <1>3, <2>2, <3>1 DEF ClientInv, DeletedIsGone, NoClientAfterRevocation
    <2> QED BY <2>3, <2>4
  <1>6. CASE Carry(g, a) /\ phase[<<g, a>>] = "deleting"
    <2>1. ~client'
      BY <1>6 DEF Carry
    <2>2. DeletedIsGone' /\ NoClientAfterRevocation'
      BY <2>1 DEF DeletedIsGone, NoClientAfterRevocation
    <2>3. CASE owns_lease(g, a)
      <3>1. generation = 1 => g = 1
        BY <2>3, NoRevokeYet, TasksHaveNumbers
      <3>2. task[g] = "in_progress"
        BY <2>3 DEF owns_lease
      <3>3. status # "active"
        BY <3>1, <3>2 DEF RowShape, IntentShape, TaskFollowsConfiguration
      <3>4. generation = 1 =>
               \A b \in Claims : owns_lease(1, b)' => phase'[<<1, b>>] # "added"
        BY <1>1, <1>6, <2>3, <3>1, OneOwner
      <3>5. MadeIsThere' /\ ActiveClientInPanel'
        BY <1>2, <3>3, <3>4 DEF MadeIsThere, ActiveClientInPanel
      <3> QED BY <1>3, <2>2, <3>5 DEF ClientInv
    <2>4. CASE ~owns_lease(g, a)
      <3>1. "deleting" \in overtaken'
        BY <1>6, <2>4 DEF Carry
      <3> QED BY <1>3, <2>2, <3>1 DEF ClientInv, MadeIsThere, ActiveClientInPanel
    <2> QED BY <2>3, <2>4
  <1> QED BY <1>1, <1>4, <1>5, <1>6

\* Nothing but the end of a task ends it.
LEMMA RowsStay ==
    ASSUME TypeOK, UNCHANGED <<status, generation>>,
           \A s \in {"succeeded", "cancelled"} : task'[1] = s => task[1] = s
    PROVE  RowsFollowWorkers
  BY DEF RowsFollowWorkers

LEMMA RowsOfIntent ==
    ASSUME TypeOK, RowShape,
           \/ PeriodChanges \/ SubscriptionEnds \/ ProvisionVpn
           \/ \E r \in RevokeReason : RevokeVpn(r)
           \/ \E g \in Tasks : RecoverLease(g) \/ LeaseRunsOut(g)
           \/ UNCHANGED vars
    PROVE  RowsFollowWorkers
  <1>1. ASSUME NEW g \in Tasks, AddTask(g)
        PROVE  \A s \in {"succeeded", "cancelled"} : task'[1] = s => task[1] = s
    BY <1>1, TasksHaveNumbers DEF AddTask, TypeOK
  <1>2. CASE UNCHANGED <<cfgVars, task>>
    BY <1>2, RowsStay DEF cfgVars
  <1>3. CASE ProvisionVpn
    BY <1>1, <1>3, TasksHaveNumbers DEF ProvisionVpn, RowsFollowWorkers
  <1>4. ASSUME NEW r \in RevokeReason, RevokeVpn(r) PROVE RowsFollowWorkers
    <2>1. PICK g \in Tasks : AddTask(g)
      BY <1>4 DEF RevokeVpn, Revokable, BeginRevoke, TypeOK, Tasks
    <2>2. CASE BeginRevoke
      <3>1. generation \in Nat /\ generation # 0
        BY DEF TypeOK, Tasks
      <3> QED BY <1>1, <2>1, <2>2, <3>1 DEF BeginRevoke, RowsFollowWorkers
    <2>3. CASE UNCHANGED cfgVars
      BY <1>1, <2>1, <2>3, RowsStay DEF cfgVars
    <2> QED BY <1>4, <2>2, <2>3 DEF RevokeVpn, Revokable
  <1>5. ASSUME NEW g \in Tasks, RecoverLease(g) PROVE RowsFollowWorkers
    <2>1. \A s \in {"succeeded", "cancelled"} : task'[1] = s => task[1] = s
      BY <1>5, TasksHaveNumbers DEF RecoverLease, TypeOK
    <2> QED BY <1>5, <2>1, RowsStay DEF RecoverLease, cfgVars
  <1> QED
    BY <1>2, <1>3, <1>4, <1>5
       DEF PeriodChanges, SubscriptionEnds, LeaseRunsOut, vars, taskVars

LEMMA RowsOfWorker ==
    ASSUME TypeOK, RowShape, NEW g \in Tasks, NEW a \in Claims,
           \/ WorkerStops(g, a) \/ Finalize(g, a)
           \/ g = 1 /\ CompensateAfterLocalFailure(a)
    PROVE  RowsFollowWorkers
  <1>1. CASE UNCHANGED <<cfgVars, task>>
    BY <1>1, RowsStay DEF cfgVars
  <1>2. CASE AttemptFails(g, a)
    <2>1. task'[1] = task[1] \/ task'[1] \in {"failed", "pending"}
      BY <1>2, TasksHaveNumbers DEF AttemptFails, RetryOrFail, Release, TypeOK
    <2>2. status' = status \/ status' \in {"failed", "revoke_failed"}
      BY <1>2 DEF AttemptFails, RetryOrFail, MarkConfigurationFailure
    <2> QED BY <1>2, <2>1, <2>2 DEF AttemptFails, RowsFollowWorkers
  <1>3. CASE FinalizeRevokeSuccess(g, a)
    <2>1. g \in Revokes /\ owns_lease(g, a) /\ phase[<<g, a>>] = "deleted" /\ UNCHANGED generation
      BY <1>3 DEF FinalizeRevokeSuccess
    <2>2. task'[1] = task[1]
      BY <1>3, <2>1, TasksHaveNumbers DEF FinalizeRevokeSuccess, Release, TypeOK
    <2>3. status' = status \/ status' = "revoked"
      BY <1>3 DEF FinalizeRevokeSuccess
    <2> QED BY <2>1, <2>2, <2>3 DEF RowsFollowWorkers
  <1>4. CASE g = 1 /\ FinalizeProvisionSuccess(a)
    <2>1. owns_lease(1, a) /\ phase[<<1, a>>] = "added"
      BY <1>4 DEF FinalizeProvisionSuccess
    <2>2. CASE CurrentProvision /\ status' = "active" /\ Release(1, "succeeded")
               /\ UNCHANGED <<desired, generation>>
      <3>1. task'[1] = "succeeded"
        BY <2>2, TasksHaveNumbers DEF Release, TypeOK
      <3> QED BY <2>1, <2>2, <3>1 DEF CurrentProvision, RowsFollowWorkers
    <2>3. CASE BeginRevoke /\ DeleteWhatWasMade(a)
      <3>1. generation \in Nat /\ generation # 0
        BY DEF TypeOK, Tasks
      <3> QED BY <2>3, <3>1 DEF BeginRevoke, DeleteWhatWasMade, RowsFollowWorkers
    <2>4. CASE UNCHANGED cfgVars /\ DeleteWhatWasMade(a)
      BY <1>1, <2>4 DEF DeleteWhatWasMade
    <2> QED BY <1>4, <2>2, <2>3, <2>4 DEF FinalizeProvisionSuccess, Activatable
  <1>5. CASE g = 1 /\ RecordCompensationSuccess(a)
    <2>1. owns_lease(1, a) /\ phase[<<1, a>>] = "deleted" /\ UNCHANGED generation
      BY <1>5 DEF RecordCompensationSuccess
    <2>2. task'[1] # "succeeded"
      BY <1>5, TasksHaveNumbers DEF RecordCompensationSuccess, Release, TypeOK
    <2>3. status' # "active" \/ status' = status
      BY <1>5 DEF RecordCompensationSuccess, MarkConfigurationFailure
    <2> QED BY <2>1, <2>2, <2>3 DEF RowsFollowWorkers
  <1>6. CASE g = 1 /\ RecordCompensationFailure(a)
    <2>1. task'[1] = "pending" /\ UNCHANGED <<status, generation>>
      BY <1>6, TasksHaveNumbers DEF RecordCompensationFailure, Release, TypeOK, cfgVars
    <2> QED BY <2>1, RowsStay
  <1> QED
    BY <1>1, <1>2, <1>3, <1>4, <1>5, <1>6
       DEF WorkerStops, Finalize, CompensateAfterLocalFailure, LeaseLost,
           FinalizeRevokeFailure, FinalizeRemoteFailure, taskVars

LEMMA NextClient ==
    ASSUME RowInv, RowInv', ClientInv, [Next]_vars
    PROVE  ClientInv'
  <1> USE DEF RowInv
  <1>1. CASE PrepareProvision
    BY <1>1, ClaimClient, TasksHaveNumbers DEF PrepareProvision, Calling
  <1>2. ASSUME NEW g \in Revokes, PrepareRevoke(g) PROVE ClientInv'
    <2>1. attempts[g] < MaxClaims
      BY <1>2, TasksHaveNumbers DEF PrepareRevoke, TypeOK
    <2> QED BY <1>2, <2>1, ClaimClient, TasksHaveNumbers DEF PrepareRevoke, Calling
  <1>3. ASSUME NEW g \in Tasks, NEW a \in Claims, CallSucceeds(g, a) \/ CallFails(g, a)
        PROVE  ClientInv'
    BY <1>3, CallClient
  <1>4. ASSUME NEW g \in Tasks, NEW a \in Claims,
               \/ WorkerStops(g, a) \/ Finalize(g, a)
               \/ g = 1 /\ CompensateAfterLocalFailure(a)
        PROVE  ClientInv'
    BY <1>4, QuietWorker, RowsOfWorker, QuietClient
  <1>5. CASE \/ PeriodChanges \/ SubscriptionEnds \/ ProvisionVpn
             \/ \E r \in RevokeReason : RevokeVpn(r)
             \/ \E g \in Tasks : RecoverLease(g) \/ LeaseRunsOut(g)
             \/ UNCHANGED vars
    BY <1>5, QuietRows, RowsOfIntent, QuietClient
  <1> QED
    BY <1>1, <1>2, <1>3, <1>4, <1>5, TasksHaveNumbers
       DEF Next, RecoverProvision, RecoverRevoke

LEMMA ClientCorrect == Spec => [](RowInv /\ ClientInv)
  <1>1. ASSUME Init, TypeOK PROVE ClientInv
    <2>1. /\ \A g \in Tasks : task[g] = "absent"
          /\ \A g \in Tasks, a \in Claims : phase[<<g, a>>] = "none"
          /\ status = "absent"
      BY <1>1 DEF Init
    <2> QED
      BY <2>1, TasksHaveNumbers
         DEF ClientInv, OnlyProvisionAdds, AboutAdding, MadeIsThere, DeletedIsGone,
             ActiveClientInPanel, NoClientAfterRevocation, owns_lease
  <1>2. RowInv => TypeOK
    BY DEF RowInv
  <1> QED BY <1>1, <1>2, NextClient, RowCorrect, PTL DEF Spec

\* Retries, compensation and recovery never take the client of an active
\* configuration out of the panel: only a worker that has lost its task can.
THEOREM ActiveClientIsKept == Spec => []ActiveClientInPanel
  <1>1. ClientInv => ActiveClientInPanel
    BY DEF ClientInv
  <1> QED BY <1>1, ClientCorrect, PTL

\* A revoked configuration whose provision has been finished leaves no client
\* in the panel, unless a worker that had lost its task made it.
THEOREM RevokedClientIsGone == Spec => []NoClientAfterRevocation
  <1>1. ClientInv => NoClientAfterRevocation
    BY DEF ClientInv
  <1> QED BY <1>1, ClientCorrect, PTL

-----------------------------------------------------------------------------
(* The lifecycle.  Every step is one of VpnAccess, or none.                *)

There == client \/ "deleting" \in overtaken

AccessStep == Access!Next \/ UNCHANGED Access!vars

\* The panel works on the client: never on that of an active configuration.
LEMMA AccessOfCall ==
    ASSUME ActiveClientInPanel, ActiveClientInPanel', UNCHANGED <<subVars, cfgVars>>
    PROVE  AccessStep
  <1>1. There \in BOOLEAN /\ There' \in BOOLEAN
    BY DEF There
  <1>2. UNCHANGED <<subscription, period, status, desired, generation>>
    BY DEF subVars, cfgVars
  <1>3. CASE There' = There
    BY <1>2, <1>3 DEF There, AccessStep, Access!vars, Access!access, Access!row
  <1>4. CASE There' # There
    <2>1. There' = ~There
      BY <1>1, <1>4
    <2>2. status # "active"
      BY <1>2, <1>4 DEF There, ActiveClientInPanel
    <2> QED
      BY <1>2, <2>1, <2>2
         DEF There, AccessStep, Access!Next, Access!ClientChanges, Access!access, Access!row
  <1> QED BY <1>3, <1>4

\* A row that only fails, or that a revocation settles.
LEMMA AccessOfEnd ==
    ASSUME UNCHANGED <<subVars, desired, generation, panelVars>>,
           \/ status' = status
           \/ status = "provisioning" /\ status' = "failed"
           \/ status = "revoking" /\ status' \in {"revoked", "revoke_failed"}
    PROVE  AccessStep
  <1>1. UNCHANGED <<subscription, period, desired, generation, client, overtaken>>
    BY DEF subVars, panelVars
  <1>2. CASE status' = status
    BY <1>1, <1>2 DEF AccessStep, Access!vars, Access!access, Access!row
  <1>3. CASE status = "provisioning" /\ status' = "failed"
    BY <1>1, <1>3 DEF AccessStep, Access!Next, Access!FailProvisioning, Access!access
  <1>4. CASE status = "revoking" /\ status' \in {"revoked", "revoke_failed"}
    BY <1>1, <1>4 DEF AccessStep, Access!Next, Access!EndRevoke, Access!access
  <1> QED BY <1>2, <1>3, <1>4

LEMMA AccessOfRevoke ==
    ASSUME BeginRevoke, status \in {"provisioning", "active", "failed", "revoke_failed"},
           UNCHANGED <<subVars, panelVars>>
    PROVE  AccessStep
  BY DEF BeginRevoke, AccessStep, Access!Next, Access!BeginRevoke, Access!access,
     subVars, panelVars

LEMMA AccessOfSubscription ==
    ASSUME TypeOK, PeriodChanges \/ SubscriptionEnds
    PROVE  AccessStep
  <1>1. /\ UNCHANGED <<status, desired, generation, client, overtaken>>
        /\ subscription' \in {"active", "ended"}
        /\ subscription = "ended" => subscription' = "ended"
    BY DEF PeriodChanges, SubscriptionEnds, TypeOK, cfgVars, panelVars
  <1>2. period' \in BOOLEAN
    BY DEF PeriodChanges, SubscriptionEnds, TypeOK
  <1> QED BY <1>1, <1>2 DEF AccessStep, Access!Next, Access!AccessChanges, Access!row

LEMMA AccessOfCreation ==
    ASSUME ProvisionVpn
    PROVE  AccessStep
  BY DEF ProvisionVpn, CurrentAccess, AccessStep, Access!Next, Access!Create,
     Access!CurrentAccess, Access!access, subVars, panelVars

\* Access is turned on in paid time and with what the worker has made.
LEMMA AccessOfProvision ==
    ASSUME ClientInv, NEW a \in Claims, FinalizeProvisionSuccess(a)
    PROVE  AccessStep
  <1>1. owns_lease(1, a) /\ phase[<<1, a>>] = "added" /\ UNCHANGED <<subVars, panelVars>>
    BY DEF FinalizeProvisionSuccess
  <1>2. CASE Activatable /\ status' = "active" /\ UNCHANGED <<desired, generation>>
    <2>1. There
      BY <1>1, <1>2 DEF There, ClientInv, MadeIsThere, Activatable, CurrentProvision
    <2>2. UNCHANGED <<subscription, period, client, overtaken>>
      BY <1>1 DEF subVars, panelVars
    <2> QED
      BY <1>2, <2>1, <2>2 DEF There, Activatable, CurrentProvision, AccessStep,
         Access!Next, Access!Activate, Access!access
  <1>3. CASE CurrentProvision /\ BeginRevoke
    BY <1>1, <1>3, AccessOfRevoke DEF CurrentProvision
  <1>4. CASE UNCHANGED cfgVars
    BY <1>1, <1>4, AccessOfEnd DEF cfgVars
  <1> QED BY <1>2, <1>3, <1>4 DEF FinalizeProvisionSuccess

\* A task that ends settles the row that waits for it, and no other.
LEMMA AccessOfFinalization ==
    ASSUME TypeOK, NEW g \in Tasks, NEW a \in Claims,
           \/ FinalizeRevokeSuccess(g, a) \/ AttemptFails(g, a)
           \/ RecordCompensationSuccess(a)
    PROVE  AccessStep
  <1>1. UNCHANGED <<subVars, desired, generation, panelVars>>
    BY DEF FinalizeRevokeSuccess, AttemptFails, RecordCompensationSuccess
  <1>2. ASSUME NEW h, MarkConfigurationFailure(h)
        PROVE  \/ status' = status
               \/ status = "provisioning" /\ status' = "failed"
               \/ status = "revoking" /\ status' = "revoke_failed"
    BY <1>2 DEF MarkConfigurationFailure, CurrentProvision, CurrentRevoke
  <1>3. \/ status' = status
        \/ status = "provisioning" /\ status' = "failed"
        \/ status = "revoking" /\ status' \in {"revoked", "revoke_failed"}
    <2>1. CASE FinalizeRevokeSuccess(g, a)
      BY <2>1 DEF FinalizeRevokeSuccess, CurrentRevoke
    <2>2. CASE AttemptFails(g, a)
      BY <1>2, <2>2 DEF AttemptFails, RetryOrFail
    <2>3. CASE RecordCompensationSuccess(a)
      BY <1>2, <2>3 DEF RecordCompensationSuccess, completes_cancelled_provision, CurrentRevoke
    <2> QED BY <2>1, <2>2, <2>3
  <1> QED BY <1>1, <1>3, AccessOfEnd

LEMMA StepImplementsAccess ==
    ASSUME RowInv, ClientInv, ClientInv', [Next]_vars
    PROVE  AccessStep
  <1> USE DEF RowInv
  <1>1. CASE UNCHANGED <<subVars, cfgVars>>
    BY <1>1, AccessOfCall DEF ClientInv
  <1>2. ASSUME NEW r \in RevokeReason, RevokeVpn(r) PROVE AccessStep
    <2>1. UNCHANGED <<subVars, panelVars>>
      BY <1>2 DEF RevokeVpn
    <2>2. CASE BeginRevoke /\ status \in {"active", "revoke_failed", "provisioning", "failed"}
      BY <2>1, <2>2, AccessOfRevoke
    <2>3. CASE UNCHANGED cfgVars
      BY <1>1, <2>1, <2>3
    <2> QED BY <1>2, <2>2, <2>3 DEF RevokeVpn, Revokable
  <1>3. ASSUME NEW g \in Tasks, NEW a \in Claims, Finalize(g, a) PROVE AccessStep
    <2>1. CASE LeaseLost(g, a) \/ RecordCompensationFailure(a)
      BY <1>1, <2>1 DEF LeaseLost, RecordCompensationFailure
    <2> QED
      BY <1>3, <2>1, AccessOfProvision, AccessOfFinalization, TasksHaveNumbers
         DEF Finalize, FinalizeRevokeFailure, FinalizeRemoteFailure
  <1>4. CASE \/ PrepareProvision \/ RecoverProvision
             \/ \E g \in Revokes : PrepareRevoke(g) \/ RecoverRevoke(g)
             \/ \E g \in Tasks : LeaseRunsOut(g)
             \/ \E g \in Tasks, a \in Claims :
                   CallSucceeds(g, a) \/ CallFails(g, a) \/ WorkerStops(g, a)
             \/ \E a \in Claims : CompensateAfterLocalFailure(a)
             \/ UNCHANGED vars
    <2>1. UNCHANGED <<subVars, cfgVars>>
      BY <1>4 DEF PrepareProvision, RecoverProvision, PrepareRevoke, RecoverRevoke,
         StartAttempt, RecoverLease, LeaseRunsOut, CallSucceeds, CallFails, WorkerStops,
         CompensateAfterLocalFailure, vars
    <2> QED BY <1>1, <2>1
  <1> QED
    BY <1>2, <1>3, <1>4, AccessOfSubscription, AccessOfCreation DEF Next

\* The panel-backed lifecycle implements the abstract one, for every number of
\* generations, attempts and claims: access is turned on only in paid time and
\* with the client made, the client of an active row is not touched by a worker
\* that owns its task, and no answer, however late, revives a cancelled row.
THEOREM PanelImplementsAccess == Spec => ImplementsAccess
  <1>1. Init => Access!Init
    BY DEF Init, Access!Init
  <1>2. RowInv /\ ClientInv /\ (RowInv /\ ClientInv)' /\ [Next]_vars => [Access!Next]_Access!vars
    BY StepImplementsAccess DEF AccessStep
  <1> QED BY <1>1, <1>2, ClientCorrect, PTL DEF Spec, ImplementsAccess, Access!Spec

-----------------------------------------------------------------------------
(* Every task of a panel is work under a lease.                            *)

\* A deletion is what a revoke task is for; in the provision task it is a
\* compensation, after which the attempt counts as failed.
WorkerState(g, p) ==
    CASE p \in Calling                       -> "busy"
      [] p = "added"                         -> "succeeded"
      [] p = "deleted"                       -> IF g = 1 THEN "failed" ELSE "succeeded"
      [] p \in {"add_failed", "delete_failed"} -> "failed"
      [] OTHER                               -> "idle"

TaskState(row) ==
    CASE row = "in_progress"            -> "held"
      [] row = "succeeded"              -> "succeeded"
      [] row \in {"failed", "cancelled"} -> "failed"
      [] OTHER                          -> "open"

Leased(g) == INSTANCE LeasedTask WITH
    task   <- TaskState(task[g]),
    claim  <- attempts[g],
    lease  <- lease[g],
    worker <- [a \in Claims |-> WorkerState(g, phase[<<g, a>>])]

\* Spec implements LeasedTask, for every task: an attempt is ended by its own
\* worker or after its lease, a provision succeeds only with what its present
\* attempt has made and not yet deleted, and a task that has come to its end
\* is never claimed again, not even for a compensation
\* (dispatch_panel_provision_task.py, dispatch_panel_revoke_task.py).
ImplementsLeasedTask ==
    /\ \A g \in Tasks : Leased(g)!Init
    /\ [][\A g \in Tasks : UNCHANGED Leased(g)!vars \/ Leased(g)!Next]_vars

Workers(phases, g) == [a \in Claims |-> WorkerState(g, phases[<<g, a>>])]

\* Nobody works for an attempt that has not been made.
FreshClaims ==
    \A g \in Tasks, a \in Claims : a > attempts[g] => phase[<<g, a>>] = "none"

LeasedStep(g) == UNCHANGED Leased(g)!vars \/ Leased(g)!Next

\* A step that changes nothing that the lease of h is about.
LEMMA LeaseQuiet ==
    ASSUME NEW h \in Tasks, TaskState(task'[h]) = TaskState(task[h]),
           attempts'[h] = attempts[h], lease'[h] = lease[h],
           \A a \in Claims : phase'[<<h, a>>] = phase[<<h, a>>]
    PROVE  LeasedStep(h)
  <1>1. \A a \in Claims : WorkerState(h, phase'[<<h, a>>]) = WorkerState(h, phase[<<h, a>>])
    BY DEF WorkerState
  <1>2. TaskState(task[h])' = TaskState(task[h])
    BY DEF TaskState
  <1> QED BY <1>1, <1>2 DEF LeasedStep, Leased!vars, WorkerState

\* The worker of attempt a of task g moves to p, and no other.
LEMMA OneWorkerMoves ==
    ASSUME TypeOK, NEW g \in Tasks, NEW a \in Claims, NEW p \in Phase, Move(g, a, p)
    PROVE  Workers(phase', g) = [Workers(phase, g) EXCEPT ![a] = WorkerState(g, p)]
  <1>0. /\ phase'[<<g, a>>] = p
        /\ \A b \in Claims : b # a => phase'[<<g, b>>] = phase[<<g, b>>]
    BY Moved
  <1>1. \A b \in Claims :
           WorkerState(g, phase'[<<g, b>>]) = IF b = a THEN WorkerState(g, p)
                                              ELSE WorkerState(g, phase[<<g, b>>])
    BY <1>0
  <1> DEFINE W == [Workers(phase, g) EXCEPT ![a] = WorkerState(g, p)]
  <1>2. Workers(phase', g) = [b \in Claims |-> WorkerState(g, phase'[<<g, b>>])]
    BY Zenon DEF Workers
  <1>3. W = [b \in Claims |-> IF b = a THEN WorkerState(g, p)
                              ELSE WorkerState(g, phase[<<g, b>>])]
    BY DEF Workers
  <1> QED BY <1>1, <1>2, <1>3, Zenon

\* A worker goes on, with its task or without.
LEMMA LeaseOfWork ==
    ASSUME TypeOK, NEW g \in Tasks, NEW a \in Claims, NEW p \in Phase, Move(g, a, p),
           UNCHANGED <<task, attempts, lease>>,
           WorkerState(g, phase[<<g, a>>]) # "idle",
           WorkerState(g, phase[<<g, a>>]) = "failed" => WorkerState(g, p) = "idle",
           NEW h \in Tasks
    PROVE  LeasedStep(h)
  <1>1. CASE h # g
    BY <1>1, Moved, LeaseQuiet
  <1>2. CASE h = g
    <2>1. Workers(phase', g) = [Workers(phase, g) EXCEPT ![a] = WorkerState(g, p)]
      BY OneWorkerMoves
    <2>2. /\ Workers(phase, g)[a] = WorkerState(g, phase[<<g, a>>])
          /\ Workers(phase', g)[a] = WorkerState(g, p)
      BY <2>1 DEF Workers
    <2>3. WorkerState(g, p) \in {"idle", "busy", "succeeded", "failed"}
      BY DEF WorkerState
    <2>4. TaskState(task[g])' = TaskState(task[g])
      BY DEF TaskState
    <2>5. Leased(g)!Work(a)
      BY <2>1, <2>2, <2>3, <2>4
         DEF Workers, WorkerState, Calling, Leased!Work, Leased!Set
    <2> QED BY <1>2, <2>5 DEF LeasedStep, Leased!Next
  <1> QED BY <1>1, <1>2

LEMMA LeaseOfClaim ==
    ASSUME TypeOK, FreshClaims, NEW g \in Tasks, NEW c \in Calling,
           StartAttempt(g, c), attempts[g] < MaxClaims, NEW h \in Tasks
    PROVE  LeasedStep(h)
  <1> DEFINE n == attempts[g] + 1
  <1>1. n \in Claims /\ c \in Phase
    BY DEF TypeOK, Claims, Phase
  <1>2. Move(g, n, c)
    BY DEF StartAttempt, Move
  <1>3. CASE h # g
    <2>1. task'[h] = task[h] /\ attempts'[h] = attempts[h] /\ lease'[h] = lease[h]
      BY <1>3 DEF StartAttempt, TypeOK
    <2>2. \A b \in Claims : phase'[<<h, b>>] = phase[<<h, b>>]
      BY <1>1, <1>2, <1>3, Moved
    <2> QED BY <2>1, <2>2, LeaseQuiet
  <1>4. CASE h = g
    <2>1. Workers(phase', g) = [Workers(phase, g) EXCEPT ![n] = WorkerState(g, c)]
      BY <1>1, <1>2, OneWorkerMoves
    <2>2. WorkerState(g, c) = "busy"
      BY DEF WorkerState, Calling
    <2>3. \A b \in Claims : b > attempts[g] => Workers(phase, g)[b] = "idle"
      BY DEF FreshClaims, WorkerState, Workers, Calling
    <2>4. /\ TaskState(task[g]) = "open" /\ TaskState(task'[g]) = "held"
          /\ attempts'[g] = n /\ lease'[g] = TRUE
      BY DEF StartAttempt, TaskState, TypeOK
    <2>5. Leased(g)!Take
      BY <1>1, <2>1, <2>2, <2>3, <2>4
         DEF Workers, WorkerState, TaskState, Calling, Leased!Take, Leased!Set
    <2> QED BY <1>4, <2>5 DEF LeasedStep, Leased!Next
  <1> QED BY <1>3, <1>4

\* The owner of a task ends its attempt.
LEMMA LeaseOfEnd ==
    ASSUME TypeOK, NEW g \in Tasks, NEW a \in Claims, owns_lease(g, a),
           Move(g, a, "none"), UNCHANGED attempts,
           NEW s \in {"pending", "succeeded", "failed", "cancelled"}, Release(g, s),
           IF s = "succeeded" THEN lease[g] /\ WorkerState(g, phase[<<g, a>>]) = "succeeded"
           ELSE WorkerState(g, phase[<<g, a>>]) = "failed",
           NEW h \in Tasks
    PROVE  LeasedStep(h)
  <1>0. "none" \in Phase
    BY DEF Phase
  <1>1. CASE h # g
    <2>1. task'[h] = task[h] /\ lease'[h] = lease[h]
      BY <1>1 DEF Release, TypeOK
    <2>2. \A b \in Claims : phase'[<<h, b>>] = phase[<<h, b>>]
      BY <1>1, Moved
    <2> QED BY <2>1, <2>2, LeaseQuiet
  <1>2. CASE h = g
    <2>1. Workers(phase', g) = [Workers(phase, g) EXCEPT ![a] = WorkerState(g, "none")]
      BY <1>0, OneWorkerMoves
    <2>2. WorkerState(g, "none") = "idle"
      BY DEF WorkerState, Calling
    <2>3. Workers(phase, g)[a] = WorkerState(g, phase[<<g, a>>])
      BY DEF Workers
    <2>4. /\ TaskState(task[g]) = "held" /\ attempts[g] = a
          /\ task'[g] = s /\ lease'[g] = FALSE
      BY DEF owns_lease, Release, TaskState, TypeOK
    <2>5. CASE s = "succeeded"
      <3>1. TaskState(task'[g]) = "succeeded" /\ Workers(phase, g)[a] = "succeeded"
        BY <2>3, <2>4, <2>5 DEF TaskState
      <3>2. Leased(g)!Succeed
        BY <2>1, <2>2, <2>4, <2>5, <3>1
           DEF Workers, WorkerState, TaskState, Calling, Leased!Succeed, Leased!Set
      <3> QED BY <1>2, <3>2 DEF LeasedStep, Leased!Next
    <2>6. CASE s # "succeeded"
      <3>1. TaskState(task'[g]) \in {"open", "failed"} /\ Workers(phase, g)[a] = "failed"
        BY <2>3, <2>4, <2>6 DEF TaskState
      <3>2. Leased(g)!GiveUp
        BY <2>1, <2>2, <2>4, <3>1
           DEF Workers, WorkerState, TaskState, Calling, Leased!GiveUp, Leased!Set
      <3> QED BY <1>2, <3>2 DEF LeasedStep, Leased!Next
    <2> QED BY <2>5, <2>6
  <1> QED BY <1>1, <1>2

LEMMA LeaseOfClock ==
    ASSUME TypeOK, NEW g \in Tasks, LeaseRunsOut(g) \/ RecoverLease(g), NEW h \in Tasks
    PROVE  LeasedStep(h)
  <1>1. UNCHANGED <<attempts, phase>>
    BY DEF LeaseRunsOut, RecoverLease
  <1>2. CASE h # g
    <2>1. task'[h] = task[h] /\ lease'[h] = lease[h]
      BY <1>2 DEF LeaseRunsOut, RecoverLease, TypeOK
    <2> QED BY <1>1, <2>1, LeaseQuiet
  <1>3. CASE h = g
    <2>1. CASE LeaseRunsOut(g)
      <3>1. lease[g] = TRUE /\ lease'[g] = FALSE /\ task' = task
        BY <2>1 DEF LeaseRunsOut, TypeOK
      <3>2. Leased(g)!Expire
        BY <1>1, <3>1 DEF Leased!Expire
      <3> QED BY <1>3, <3>2 DEF LeasedStep, Leased!Next
    <2>2. CASE RecoverLease(g)
      <3>1. /\ task[g] = "in_progress" /\ task'[g] = "pending"
            /\ ~lease[g] /\ lease' = lease
        BY <2>2 DEF RecoverLease, TypeOK
      <3>2. Leased(g)!Recover
        BY <1>1, <3>1 DEF TaskState, Leased!Recover
      <3> QED BY <1>3, <3>2 DEF LeasedStep, Leased!Next
    <2> QED BY <2>1, <2>2
  <1> QED BY <1>2, <1>3

LEMMA LeaseOfRows ==
    ASSUME TypeOK, NEW h \in Tasks,
           \/ PeriodChanges \/ SubscriptionEnds \/ ProvisionVpn
           \/ \E r \in RevokeReason : RevokeVpn(r)
           \/ UNCHANGED vars
    PROVE  LeasedStep(h)
  <1>1. UNCHANGED <<attempts, lease, phase>>
    BY DEF PeriodChanges, SubscriptionEnds, ProvisionVpn, RevokeVpn, vars, taskVars
  <1>2. ASSUME NEW g, AddTask(g) PROVE TaskState(task'[h]) = TaskState(task[h])
    BY <1>2 DEF AddTask, TaskState, TypeOK
  <1>3. TaskState(task'[h]) = TaskState(task[h])
    BY <1>2 DEF PeriodChanges, SubscriptionEnds, ProvisionVpn, RevokeVpn, Revokable,
       vars, taskVars
  <1> QED BY <1>1, <1>3, LeaseQuiet

LEMMA LeaseOfFinalization ==
    ASSUME TypeOK, NEW g \in Tasks, NEW a \in Claims, Finalize(g, a), NEW h \in Tasks
    PROVE  LeasedStep(h)
  <1>0. "none" \in Phase /\ "deleting" \in Phase
    BY DEF Phase, Calling
  <1>1. CASE LeaseLost(g, a)
    <2>1. /\ Move(g, a, "none") /\ UNCHANGED <<task, attempts, lease>>
          /\ WorkerState(g, phase[<<g, a>>]) # "idle"
          /\ WorkerState(g, "none") = "idle"
      BY <1>1 DEF LeaseLost, taskVars, WorkerState, Answered, Calling
    <2> QED BY <1>0, <2>1, LeaseOfWork
  <1>2. CASE FinalizeRevokeSuccess(g, a)
    <2>1. /\ Move(g, a, "none") /\ UNCHANGED attempts /\ owns_lease(g, a)
          /\ WorkerState(g, phase[<<g, a>>]) = "succeeded"
          /\ WorkerState(g, "none") = "idle"
      BY <1>2, TasksHaveNumbers DEF FinalizeRevokeSuccess, WorkerState, Calling
    <2>2. CASE lease[g] /\ Release(g, "succeeded")
      BY <2>1, <2>2, LeaseOfEnd
    <2>3. CASE UNCHANGED <<task, lease>>
      BY <1>0, <2>1, <2>3, LeaseOfWork
    <2> QED BY <1>2, <2>2, <2>3 DEF FinalizeRevokeSuccess
  <1>3. CASE \/ FinalizeRevokeFailure(g, a)
             \/ g = 1 /\ (FinalizeRemoteFailure(a) \/ RecordCompensationSuccess(a)
                             \/ RecordCompensationFailure(a))
    <2>1. /\ owns_lease(g, a) /\ Move(g, a, "none") /\ UNCHANGED attempts
          /\ WorkerState(g, phase[<<g, a>>]) = "failed"
      BY <1>3 DEF FinalizeRevokeFailure, FinalizeRemoteFailure, AttemptFails,
         RecordCompensationSuccess, RecordCompensationFailure, WorkerState, Calling
    <2>2. PICK s \in {"pending", "failed", "cancelled"} : Release(g, s)
      BY <1>3 DEF FinalizeRevokeFailure, FinalizeRemoteFailure, AttemptFails, RetryOrFail,
         RecordCompensationSuccess, RecordCompensationFailure
    <2> QED BY <2>1, <2>2, LeaseOfEnd
  <1>4. CASE g = 1 /\ FinalizeProvisionSuccess(a)
    <2>1. /\ owns_lease(g, a) /\ UNCHANGED attempts
          /\ WorkerState(g, phase[<<g, a>>]) = "succeeded"
      BY <1>4 DEF FinalizeProvisionSuccess, WorkerState, Calling
    <2>2. CASE lease[g] /\ Release(g, "succeeded") /\ Move(g, a, "none")
      BY <2>1, <2>2, LeaseOfEnd
    <2>3. CASE Move(g, a, "deleting") /\ UNCHANGED <<task, lease>>
      BY <1>0, <2>1, <2>3, LeaseOfWork
    <2> QED BY <1>4, <2>2, <2>3 DEF FinalizeProvisionSuccess, DeleteWhatWasMade
  <1> QED BY <1>1, <1>2, <1>3, <1>4 DEF Finalize

LEMMA StepIsLeased ==
    ASSUME TypeOK, FreshClaims, [Next]_vars, NEW h \in Tasks
    PROVE  LeasedStep(h)
  <1>1. CASE PrepareProvision \/ \E g \in Revokes : PrepareRevoke(g)
    <2>1. PICK g \in Tasks, c \in Calling : StartAttempt(g, c) /\ attempts[g] < MaxClaims
      BY <1>1, TasksHaveNumbers DEF PrepareProvision, PrepareRevoke, Calling, TypeOK
    <2> QED BY <2>1, LeaseOfClaim
  <1>2. CASE RecoverProvision \/ \E g \in Revokes : RecoverRevoke(g)
    BY <1>2, LeaseOfClock, TasksHaveNumbers DEF RecoverProvision, RecoverRevoke
  <1>3. ASSUME NEW g \in Tasks, NEW a \in Claims,
               \/ CallSucceeds(g, a) \/ CallFails(g, a) \/ WorkerStops(g, a)
               \/ g = 1 /\ CompensateAfterLocalFailure(a)
        PROVE  LeasedStep(h)
    <2>1. PICK p \in Phase :
             /\ Move(g, a, p)
             /\ phase[<<g, a>>] # "none"
             /\ p = "none" \/ phase[<<g, a>>] \in Calling \/ phase[<<g, a>>] = "added"
      BY <1>3 DEF CallSucceeds, CallFails, WorkerStops, CompensateAfterLocalFailure,
         Phase, Answered, Calling
    <2>2. UNCHANGED <<task, attempts, lease>>
      BY <1>3 DEF CallSucceeds, CallFails, WorkerStops, CompensateAfterLocalFailure, taskVars
    <2>3. phase[<<g, a>>] \in Phase
      BY DEF TypeOK
    <2>4. /\ WorkerState(g, phase[<<g, a>>]) # "idle"
          /\ WorkerState(g, phase[<<g, a>>]) = "failed" => WorkerState(g, p) = "idle"
      BY <2>1, <2>3 DEF WorkerState, Phase, Answered, Calling
    <2> QED BY <2>1, <2>2, <2>4, LeaseOfWork
  <1> QED
    BY <1>1, <1>2, <1>3, LeaseOfRows, LeaseOfClock, LeaseOfFinalization, TasksHaveNumbers
       DEF Next

LEMMA NextFreshClaims ==
    ASSUME TypeOK, FreshClaims, [Next]_vars
    PROVE  FreshClaims'
  <1>1. CASE /\ UNCHANGED attempts
             /\ \A g \in Tasks, a \in Claims :
                   phase[<<g, a>>] = "none" => phase'[<<g, a>>] = "none"
    BY <1>1 DEF FreshClaims
  <1>2. CASE UNCHANGED <<attempts, phase>>
    BY <1>1, <1>2
  <1>3. CASE \/ PeriodChanges \/ SubscriptionEnds \/ ProvisionVpn
             \/ \E r \in RevokeReason : RevokeVpn(r)
             \/ RecoverProvision \/ \E g \in Revokes : RecoverRevoke(g)
             \/ \E g \in Tasks : LeaseRunsOut(g)
             \/ UNCHANGED vars
    BY <1>2, <1>3 DEF PeriodChanges, SubscriptionEnds, ProvisionVpn, RevokeVpn,
       RecoverProvision, RecoverRevoke, RecoverLease, LeaseRunsOut, vars, taskVars
  <1>4. CASE PrepareProvision \/ \E g \in Revokes : PrepareRevoke(g)
    <2>1. PICK g \in Tasks, c \in Calling : StartAttempt(g, c) /\ attempts[g] < MaxClaims
      BY <1>4, TasksHaveNumbers DEF PrepareProvision, PrepareRevoke, Calling, TypeOK
    <2> DEFINE n == attempts[g] + 1
    <2>2. n \in Claims /\ Move(g, n, c)
      BY <2>1 DEF TypeOK, Claims, StartAttempt, Move
    <2>3. \A h \in Tasks, b \in Claims :
             h # g \/ b # n => phase'[<<h, b>>] = phase[<<h, b>>]
      BY <2>2, Moved
    <2>4. /\ attempts'[g] = n /\ attempts[g] \in Nat
          /\ \A h \in Tasks : h # g => attempts'[h] = attempts[h]
      BY <2>1 DEF StartAttempt, TypeOK
    <2>5. ASSUME NEW h \in Tasks, NEW b \in Claims, b > attempts'[h]
          PROVE  phase'[<<h, b>>] = "none"
      <3>1. b > attempts[h] /\ (h # g \/ b # n)
        BY <2>4, <2>5 DEF Claims
      <3> QED BY <2>3, <3>1 DEF FreshClaims
    <2> QED BY <2>5 DEF FreshClaims
  <1>5. ASSUME NEW g \in Tasks, NEW a \in Claims, NEW p \in Phase, Move(g, a, p),
               UNCHANGED attempts, phase[<<g, a>>] # "none"
        PROVE  FreshClaims'
    <2>1. \A h \in Tasks, b \in Claims :
             phase[<<h, b>>] = "none" => phase'[<<h, b>>] = "none"
      BY <1>5, Moved
    <2> QED BY <1>1, <1>5, <2>1
  <1>6. CASE \E g \in Tasks, a \in Claims :
                CallSucceeds(g, a) \/ CallFails(g, a) \/ WorkerStops(g, a) \/ Finalize(g, a)
    <2>1. PICK g \in Tasks, a \in Claims :
             CallSucceeds(g, a) \/ CallFails(g, a) \/ WorkerStops(g, a) \/ Finalize(g, a)
      BY <1>6
    <2>2. UNCHANGED attempts /\ phase[<<g, a>>] # "none"
      BY <2>1 DEF CallSucceeds, CallFails, WorkerStops, Finalize, LeaseLost, Answered,
         FinalizeRevokeSuccess, FinalizeRevokeFailure, FinalizeProvisionSuccess,
         FinalizeRemoteFailure, AttemptFails, RecordCompensationSuccess,
         RecordCompensationFailure, taskVars
    <2>3. \E p \in Phase : Move(g, a, p)
      BY <2>1 DEF CallSucceeds, CallFails, WorkerStops, Finalize, LeaseLost, Answered,
         FinalizeRevokeSuccess, FinalizeRevokeFailure, FinalizeProvisionSuccess,
         DeleteWhatWasMade, FinalizeRemoteFailure, AttemptFails,
         RecordCompensationSuccess, RecordCompensationFailure, Phase, Calling
    <2> QED BY <1>5, <2>2, <2>3
  <1>7. CASE \E a \in Claims : CompensateAfterLocalFailure(a)
    <2>1. PICK a \in Claims : CompensateAfterLocalFailure(a)
      BY <1>7
    <2>2. /\ UNCHANGED attempts /\ phase[<<1, a>>] # "none" /\ Move(1, a, "deleting")
          /\ 1 \in Tasks /\ "deleting" \in Phase
      BY <2>1, TasksHaveNumbers DEF CompensateAfterLocalFailure, Phase, Calling, taskVars
    <2> QED BY <1>5, <2>2
  <1> QED
    BY <1>3, <1>4, <1>6, <1>7 DEF Next

\* Every task of a panel is work under a lease, for every number of attempts
\* and claims.  Calls of the panel are not fenced, and a worker that has lost
\* its task goes on calling, but what it writes ends no claim but its own: a
\* provision succeeds only with what its present attempt has made, while its
\* lease runs, and a task that has come to its end is never claimed again.
THEOREM PanelTasksAreLeased == Spec => ImplementsLeasedTask
  <1>1. ASSUME Init PROVE \A g \in Tasks : Leased(g)!Init
    <2> TAKE g \in Tasks
    <2>1. WorkerState(g, "none") = "idle" /\ TaskState("absent") = "open"
      BY DEF WorkerState, TaskState, Calling
    <2>2. [a \in Claims |-> WorkerState(g, phase[<<g, a>>])] = [a \in Claims |-> "idle"]
      <3>1. \A a \in Claims : phase[<<g, a>>] = "none"
        BY <1>1 DEF Init
      <3>2. \A a \in Claims : WorkerState(g, phase[<<g, a>>]) = "idle"
        BY <2>1, <3>1
      <3> QED BY <3>2
    <2> QED BY <1>1, <2>1, <2>2 DEF Init, Leased!Init
  <1>2. Init => FreshClaims
    BY DEF Init, FreshClaims
  <1>3. ASSUME TypeOK, FreshClaims, [Next]_vars
        PROVE  [\A g \in Tasks : UNCHANGED Leased(g)!vars \/ Leased(g)!Next]_vars
    BY <1>3, StepIsLeased DEF LeasedStep
  <1> QED
    BY <1>1, <1>2, <1>3, TypeCorrect, NextFreshClaims, PTL DEF Spec, ImplementsLeasedTask
=============================================================================
