--------------------------- MODULE VpnNodeProofs ---------------------------
(* Invariance proofs for VpnNode, for every value of its constants.        *)
EXTENDS VpnNode, TLAPS

TypeInv == TypeOK /\ AttemptBudget

LEMMA ConstantsOK ==
    /\ MaxConfigs \in Nat /\ MaxConfigs >= 1
    /\ MaxGeneration \in Nat /\ MaxGeneration >= 2
    /\ MaxAttempts \in Nat /\ MaxAttempts >= 1
  BY MaxConfigsAssumption, MaxGenerationAssumption, MaxAttemptsAssumption

LEMMA TaskIdForms ==
    /\ \A c \in Configs, g \in Generations :
          Provision(c, g) \in TaskIds /\ Revoke(c, g) \in TaskIds
    /\ \A t \in TaskIds :
          /\ t[1] \in Configs /\ t[2] \in Operations /\ t[3] \in Generations
          /\ t = <<t[1], t[2], t[3]>>
  BY DEF TaskIds, Provision, Revoke, Operations

LEMMA InitType == Init => TypeInv
  BY ConstantsOK DEF Init, TypeInv, TypeOK, AttemptBudget, Generations,
     ConfigStatus, TaskStatus, RowStatus, CallPhase

\* What FailOrRetry leaves behind is well typed and within the budget.
LEMMA FailOrRetryType ==
    ASSUME TypeInv, NEW t \in TaskIds, NEW n \in Attempts,
           FailOrRetry(t, n)
    PROVE  /\ status' \in [Configs -> ConfigStatus]
           /\ task' \in [TaskIds -> TaskStatus]
           /\ due' \in [TaskIds -> BOOLEAN]
           /\ leaseLive' \in [TaskIds -> BOOLEAN]
           /\ \A u \in TaskIds : u # t => task'[u] = task[u]
           /\ task'[t] = "pending" => n < MaxAttempts
           /\ task'[t] \in {"pending", "failed"}
  BY TaskIdForms DEF FailOrRetry, MarkConfigurationFailure, TypeInv, TypeOK,
     ConfigStatus, TaskStatus

LEMMA NextType == TypeInv /\ [Next]_vars => TypeInv'
  <1> SUFFICES ASSUME TypeInv, [Next]_vars PROVE TypeInv'
    OBVIOUS
  <1> USE ConstantsOK DEF TypeInv
  <1>1. CASE PeriodChanges
    BY <1>1 DEF PeriodChanges, TypeOK, AttemptBudget, cfgVars, taskVars, nodeVars
  <1>2. CASE SubscriptionEnds
    BY <1>2 DEF SubscriptionEnds, TypeOK, AttemptBudget, cfgVars, taskVars, nodeVars
  <1>4. ASSUME NEW c \in Configs, ProvisionVpn(c) PROVE TypeInv'
    <2>1. Provision(c, 1) \in TaskIds
      <3>1. 1 \in Generations
        BY DEF Generations
      <3> QED BY <3>1, TaskIdForms
    <2>2. TypeOK'
      BY <1>4, <2>1 DEF ProvisionVpn, create_task, TypeOK, subVars, nodeVars,
         ConfigStatus, TaskStatus
    <2>3. AttemptBudget'
      BY <1>4, <2>1 DEF ProvisionVpn, create_task, TypeOK, AttemptBudget
    <2> QED BY <2>2, <2>3
  <1>5. ASSUME NEW c \in Configs, NEW r \in RevokeReason, RevokeVpn(c, r)
        PROVE  TypeInv'
    <2>1. generation[c] + 1 \in Generations
      BY <1>5 DEF RevokeVpn, BeginRevoke, TypeOK, Generations
    <2>2. Revoke(c, generation[c] + 1) \in TaskIds
      BY <2>1, TaskIdForms
    <2>3. TypeOK'
      BY <1>5, <2>1, <2>2 DEF RevokeVpn, BeginRevoke, create_task, TypeOK,
         subVars, nodeVars, ConfigStatus, TaskStatus
    <2>4. AttemptBudget'
      BY <1>5, <2>2 DEF RevokeVpn, create_task, TypeOK, AttemptBudget
    <2> QED BY <2>3, <2>4
  <1>6. ASSUME NEW t \in TaskIds, Prepare(t) PROVE TypeInv'
    <2>1. attempts[t] + 1 \in Attempts
      BY <1>6 DEF Prepare, can_dispatch, TypeOK, AttemptBudget, Attempts
    <2>2. TypeOK'
      BY <1>6, <2>1 DEF Prepare, TypeOK, subVars, cfgVars, TaskStatus,
         RowStatus, CallPhase, Attempts
    <2>3. AttemptBudget'
      BY <1>6, <2>1 DEF Prepare, TypeOK, AttemptBudget, Attempts
    <2> QED BY <2>2, <2>3
  <1>7. ASSUME NEW t \in TaskIds, DeferUnavailableNode(t) PROVE TypeInv'
    BY <1>7 DEF DeferUnavailableNode, TypeOK, AttemptBudget, subVars, cfgVars,
       nodeVars
  <1>8. ASSUME NEW t \in TaskIds, PreflightFailure(t) PROVE TypeInv'
    <2>1. attempts[t] + 1 \in Attempts
      BY <1>8 DEF PreflightFailure, can_dispatch, TypeOK, AttemptBudget, Attempts
    <2>2. FailOrRetry(t, attempts[t] + 1)
      BY <1>8 DEF PreflightFailure
    <2>3. TypeOK'
      BY <1>8, <2>1, <2>2, FailOrRetryType DEF PreflightFailure, TypeOK,
         subVars, nodeVars, RowStatus, Attempts
    <2>4. AttemptBudget'
      BY <1>8, <2>1, <2>2, FailOrRetryType DEF PreflightFailure, TypeOK,
         AttemptBudget, Attempts
    <2> QED BY <2>3, <2>4
  <1>9. ASSUME NEW t \in TaskIds, NEW a \in Attempts, Remote(t, a)
        PROVE  TypeInv'
    <2>1. /\ call' \in [TaskIds \X Attempts -> CallPhase]
          /\ wire' \in SUBSET (TaskIds \X Attempts)
          /\ journal' \in SUBSET TaskIds
      BY <1>9 DEF Remote, NodeSucceeds, NodeFails,
         OvertakenProvision, RequestLost, CallTimesOut, WorkerCrashes, Answer,
         TypeOK, CallPhase, nodeVars
    <2>2. client' \in [Configs -> BOOLEAN]
      BY <1>9, TaskIdForms DEF Remote, NodeSucceeds, NodeFails,
         OvertakenProvision, RequestLost, CallTimesOut, WorkerCrashes, Effect,
         TypeOK, nodeVars
    <2>3. UNCHANGED <<subVars, cfgVars, taskVars>>
      BY <1>9 DEF Remote, NodeSucceeds, NodeFails,
         OvertakenProvision, RequestLost, CallTimesOut, WorkerCrashes
    <2> QED
      BY <2>1, <2>2, <2>3 DEF TypeOK, AttemptBudget, subVars, cfgVars, taskVars
  <1>10. ASSUME NEW t \in TaskIds, NEW a \in Attempts,
                FinalizeStaleAttempt(t, a)
         PROVE  TypeInv'
    BY <1>10 DEF FinalizeStaleAttempt, Close, TypeOK, AttemptBudget, CallPhase,
       subVars, cfgVars, taskVars, nodeVars
  <1>11. ASSUME NEW t \in TaskIds, NEW a \in Attempts, FinalizeFailure(t, a)
         PROVE  TypeInv'
    <2>1. attempts[t] \in Attempts
      BY <1>11 DEF FinalizeFailure, owns_active_lease
    <2>2. FailOrRetry(t, attempts[t])
      BY <1>11 DEF FinalizeFailure
    <2>3. TypeOK'
      BY <1>11, <2>1, <2>2, FailOrRetryType DEF FinalizeFailure, Close, TypeOK,
         subVars, nodeVars, RowStatus, CallPhase
    <2>4. AttemptBudget'
      BY <1>11, <2>1, <2>2, FailOrRetryType DEF FinalizeFailure, TypeOK,
         AttemptBudget, Attempts
    <2> QED BY <2>3, <2>4
  <1>12. ASSUME NEW c \in Configs, NEW g \in Generations, NEW a \in Attempts,
                CompleteProvision(c, g, a)
         PROVE  TypeInv'
    <2> DEFINE t == Provision(c, g)
    <2>1. t \in TaskIds /\ a = attempts[t] /\ task[t] = "in_progress"
      BY <1>12, TaskIdForms DEF CompleteProvision, Succeeds, owns_active_lease
    <2>2. /\ UNCHANGED <<subVars, attempts, nodeVars>>
          /\ leaseLive' \in [TaskIds -> BOOLEAN]
          /\ attemptRow' \in [TaskIds \X Attempts -> RowStatus]
          /\ call' \in [TaskIds \X Attempts -> CallPhase]
      BY <1>12, <2>1 DEF CompleteProvision, Succeeds, Close, TypeOK, RowStatus,
         CallPhase
    <2>3. CASE /\ status' = [status EXCEPT ![c] = "active"]
               /\ task' = [task EXCEPT ![t] = "succeeded"]
               /\ UNCHANGED <<desired, generation, due>>
      BY <2>1, <2>2, <2>3 DEF TypeOK, AttemptBudget, ConfigStatus, TaskStatus,
         subVars, nodeVars
    <2>4. CASE /\ g = generation[c]
               /\ BeginRevoke(c)
               /\ CompleteAndFollowUp(t, Revoke(c, g + 1))
      <3>1. g + 1 \in Generations
        BY <2>4 DEF BeginRevoke, TypeOK, Generations
      <3>2. Revoke(c, g + 1) \in TaskIds /\ Revoke(c, g + 1) # t
        BY <3>1, TaskIdForms DEF Provision, Revoke
      <3>3. TypeOK'
        BY <2>1, <2>2, <2>4, <3>1, <3>2 DEF BeginRevoke, CompleteAndFollowUp,
           TypeOK, ConfigStatus, TaskStatus, subVars, nodeVars
      <3>4. AttemptBudget'
        BY <2>1, <2>2, <2>4, <3>2 DEF CompleteAndFollowUp, TypeOK, AttemptBudget
      <3> QED BY <3>3, <3>4
    <2>5. CASE /\ CompleteAndFollowUp(t, Revoke(c, generation[c]))
               /\ UNCHANGED cfgVars
      <3>1. Revoke(c, generation[c]) \in TaskIds /\ Revoke(c, generation[c]) # t
        BY TaskIdForms DEF Provision, Revoke, TypeOK
      <3>2. TypeOK'
        BY <2>1, <2>2, <2>5, <3>1 DEF CompleteAndFollowUp, TypeOK, TaskStatus,
           subVars, cfgVars, nodeVars
      <3>3. AttemptBudget'
        BY <2>1, <2>2, <2>5, <3>1 DEF CompleteAndFollowUp, TypeOK, AttemptBudget
      <3> QED BY <3>2, <3>3
    <2> QED
      BY <1>12, <2>3, <2>4, <2>5 DEF CompleteProvision, CurrentProvision
  <1>13. ASSUME NEW c \in Configs, NEW g \in Generations, NEW a \in Attempts,
                CompleteRevoke(c, g, a)
         PROVE  TypeInv'
    <2> DEFINE t == Revoke(c, g)
    <2>1. t \in TaskIds /\ a = attempts[t] /\ task[t] = "in_progress"
      BY <1>13, TaskIdForms DEF CompleteRevoke, Succeeds, owns_active_lease
    <2>2. TypeOK'
      BY <1>13, <2>1 DEF CompleteRevoke, Succeeds, Close, TypeOK, ConfigStatus,
         TaskStatus, RowStatus, CallPhase, subVars, nodeVars
    <2>3. AttemptBudget'
      BY <1>13, <2>1 DEF CompleteRevoke, Succeeds, TypeOK, AttemptBudget
    <2> QED BY <2>2, <2>3
  <1>14. ASSUME NEW t \in TaskIds, RetryDelayOver(t) PROVE TypeInv'
    BY <1>14 DEF RetryDelayOver, TypeOK, AttemptBudget, subVars, cfgVars, nodeVars
  <1>15. ASSUME NEW t \in TaskIds, LeaseRunsOut(t) PROVE TypeInv'
    BY <1>15 DEF LeaseRunsOut, TypeOK, AttemptBudget, subVars, cfgVars, nodeVars
  <1>16. ASSUME NEW t \in TaskIds, RecoverStale(t) PROVE TypeInv'
    <2>1. attempts[t] \in Attempts
      BY <1>16 DEF RecoverStale, lease_is_expired, TypeOK, AttemptBudget, Attempts
    <2>2. FailOrRetry(t, attempts[t])
      BY <1>16 DEF RecoverStale
    <2>3. TypeOK'
      BY <1>16, <2>1, <2>2, FailOrRetryType DEF RecoverStale, TypeOK,
         subVars, nodeVars, RowStatus
    <2>4. AttemptBudget'
      BY <1>16, <2>1, <2>2, FailOrRetryType DEF RecoverStale, TypeOK,
         AttemptBudget, Attempts
    <2> QED BY <2>3, <2>4
  <1>17. CASE UNCHANGED vars
    BY <1>17 DEF vars, subVars, cfgVars, taskVars, nodeVars, TypeOK, AttemptBudget
  <1> QED
    BY <1>1, <1>2, <1>4, <1>5, <1>6, <1>7, <1>8, <1>9, <1>10, <1>11,
       <1>12, <1>13, <1>14, <1>15, <1>16, <1>17 DEF Next, Dispatch

\* Rows stay within their check constraints, and no task ever spends more
\* than max_attempts: dispatch, a missing credential, a failed call and lease
\* recovery share one budget.
THEOREM TypeCorrect == Spec => [](TypeOK /\ AttemptBudget)
  BY InitType, NextType, PTL DEF Spec, TypeInv

-----------------------------------------------------------------------------
(* The inductive invariant.  TaskFollowsConfiguration alone is not         *)
(* inductive: that a new generation finds no task of its own, and that a   *)
(* late provision finds its follow-up already there, needs to know which   *)
(* generations have tasks (TasksOfGenerations) and how intent, generation  *)
(* and status go together (IntentShape).                                   *)

IntentShape ==
    \A c \in Configs :
        \/ /\ desired[c] = "active"
           /\ generation[c] = 1
           /\ status[c] \in {"absent", "provisioning", "active", "failed"}
        \/ /\ desired[c] = "revoked"
           /\ generation[c] >= 2
           /\ status[c] \in {"revoking", "revoke_failed", "revoked"}

TasksOfGenerations ==
    \A c \in Configs, g \in Generations :
        /\ task[Provision(c, g)] # "absent" => g = 1 /\ Exists(c)
        /\ task[Revoke(c, g)] # "absent" => 2 <= g /\ g <= generation[c]

CoreInv ==
    /\ IntentShape
    /\ TasksOfGenerations
    /\ TaskFollowsConfiguration
    /\ OnlyLatestIsOpen

LEMMA InitCore == Init => CoreInv
  <1> SUFFICES ASSUME Init PROVE CoreInv
    OBVIOUS
  <1>1. IntentShape
    BY DEF Init, IntentShape
  <1>2. TasksOfGenerations
    BY TaskIdForms DEF Init, TasksOfGenerations
  <1>3. TaskFollowsConfiguration
    BY DEF Init, TaskFollowsConfiguration
  <1>4. OnlyLatestIsOpen
    BY DEF Init, OnlyLatestIsOpen, Exists, Configs
  <1> QED BY <1>1, <1>2, <1>3, <1>4 DEF CoreInv

\* Moving a live task to another live status strands no configuration.
LEMMA LiveTaskFollows ==
    ASSUME TypeInv, TaskFollowsConfiguration, NEW t \in TaskIds,
           task[t] \in {"pending", "in_progress"},
           NEW s \in {"pending", "in_progress"},
           task' = [task EXCEPT ![t] = s], UNCHANGED <<status, generation>>
    PROVE  TaskFollowsConfiguration'
  <1> SUFFICES ASSUME NEW c \in Configs
               PROVE  LET p == task'[Provision(c, generation[c])]
                          r == task'[Revoke(c, generation[c])]
                      IN  /\ status[c] = "provisioning"  => p \in {"pending", "in_progress"}
                          /\ status[c] = "active"        => p = "succeeded"
                          /\ status[c] = "failed"        => p = "failed"
                          /\ status[c] = "revoking"      => r \in {"pending", "in_progress"}
                          /\ status[c] = "revoke_failed" => r = "failed"
                          /\ status[c] = "revoked"       => r = "succeeded"
    BY DEF TaskFollowsConfiguration
  <1> DEFINE p == Provision(c, generation[c])
             r == Revoke(c, generation[c])
  <1>1. p \in TaskIds /\ r \in TaskIds
    BY TaskIdForms DEF TypeInv, TypeOK
  <1>2. /\ task'[p] = (IF p = t THEN s ELSE task[p])
        /\ task'[r] = (IF r = t THEN s ELSE task[r])
    BY <1>1 DEF TypeInv, TypeOK
  <1> QED
    BY <1>1, <1>2 DEF TaskFollowsConfiguration

\* A new generation adds its revoke task and no other.
LEMMA NewGenerationTasks ==
    ASSUME TypeInv, TasksOfGenerations, NEW c \in Configs,
           NEW g \in Generations, g = generation[c] + 1,
           generation' = [generation EXCEPT ![c] = g],
           \A d \in Configs : status[d] # "absent" => status'[d] # "absent",
           \A u \in TaskIds :
              u # Revoke(c, g) /\ task'[u] # "absent" => task[u] # "absent"
    PROVE  TasksOfGenerations'
  <1> USE ConstantsOK DEF TypeInv, TypeOK
  <1>1. ASSUME NEW d \in Configs, NEW h \in Generations,
               task'[Provision(d, h)] # "absent"
        PROVE  h = 1 /\ status'[d] # "absent"
    <2>1. Provision(d, h) \in TaskIds /\ Provision(d, h) # Revoke(c, g)
      BY TaskIdForms DEF Provision, Revoke
    <2> QED BY <1>1, <2>1 DEF TasksOfGenerations, Exists
  <1>2. ASSUME NEW d \in Configs, NEW h \in Generations,
               task'[Revoke(d, h)] # "absent"
        PROVE  2 <= h /\ h <= generation'[d]
    <2>1. Revoke(d, h) \in TaskIds
      BY TaskIdForms
    <2>2. generation[d] \in Nat /\ generation[d] >= 1 /\ h \in Nat
      BY DEF Generations
    <2>3. CASE Revoke(d, h) = Revoke(c, g)
      <3>1. d = c /\ h = g
        BY <2>3 DEF Revoke
      <3> QED BY <2>2, <3>1
    <2>4. CASE Revoke(d, h) # Revoke(c, g)
      <3>1. 2 <= h /\ h <= generation[d]
        BY <1>2, <2>1, <2>4 DEF TasksOfGenerations
      <3>2. generation[d] <= generation'[d]
        BY <2>2
      <3>3. generation'[d] \in Nat
        BY <2>2 DEF Generations
      <3> QED BY <2>2, <3>1, <3>2, <3>3
    <2> QED BY <2>3, <2>4
  <1> QED
    BY <1>1, <1>2 DEF TasksOfGenerations, Exists

\* Giving up or rescheduling a live task keeps the rows in step.
LEMMA FailOrRetryCore ==
    ASSUME TypeInv, CoreInv, NEW t \in TaskIds, NEW n \in Attempts,
           task[t] \in {"pending", "in_progress"},
           FailOrRetry(t, n), UNCHANGED <<desired, generation>>
    PROVE  CoreInv'
  <1> USE ConstantsOK DEF CoreInv, TypeInv, TypeOK
  <1>1. CASE n < MaxAttempts
    <2>1. /\ task' = [task EXCEPT ![t] = "pending"]
          /\ UNCHANGED <<status, desired, generation>>
      BY <1>1 DEF FailOrRetry, Attempts
    <2>2. IntentShape'
      BY <2>1 DEF IntentShape
    <2>3. TasksOfGenerations'
      BY <2>1, TaskIdForms DEF TasksOfGenerations, Exists
    <2>4. TaskFollowsConfiguration'
      BY <2>1, LiveTaskFollows
    <2>5. OnlyLatestIsOpen'
      BY <2>1 DEF OnlyLatestIsOpen, Exists
    <2> QED BY <2>2, <2>3, <2>4, <2>5
  <1>2. CASE n >= MaxAttempts
    <2>1. /\ task' = [task EXCEPT ![t] = "failed"]
          /\ MarkConfigurationFailure(t)
          /\ UNCHANGED <<desired, generation>>
      BY <1>2 DEF FailOrRetry, Attempts
    <2>2. PICK c \in Configs, g \in Generations :
            t = Provision(c, g) \/ t = Revoke(c, g)
      BY TaskIdForms DEF Operations, Provision, Revoke
    <2>3. CASE t = Provision(c, g)
      <3>1. status' = [status EXCEPT ![c] =
                          IF CurrentProvision(c, g) THEN "failed" ELSE @]
        BY <2>1, <2>3 DEF MarkConfigurationFailure, Provision
      <3>2. g = 1
        BY <2>3 DEF TasksOfGenerations
      <3>3. IntentShape'
        BY <2>1, <3>1 DEF IntentShape, CurrentProvision
      <3>4. TasksOfGenerations'
        BY <2>1, <2>3, <3>1, TaskIdForms DEF TasksOfGenerations, Exists,
           CurrentProvision
      <3>5. TaskFollowsConfiguration'
        BY <2>1, <2>3, <3>1, <3>2, TaskIdForms DEF TaskFollowsConfiguration,
           CurrentProvision, IntentShape, Provision, Revoke
      <3>6. OnlyLatestIsOpen'
        BY <2>1, <3>1 DEF OnlyLatestIsOpen, Exists, CurrentProvision
      <3> QED BY <3>3, <3>4, <3>5, <3>6
    <2>4. CASE t = Revoke(c, g)
      <3>1. status' = [status EXCEPT ![c] =
                          IF CurrentRevoke(c, g) THEN "revoke_failed" ELSE @]
        BY <2>1, <2>4 DEF MarkConfigurationFailure, Revoke
      <3>2. IntentShape'
        BY <2>1, <3>1 DEF IntentShape, CurrentRevoke
      <3>3. TasksOfGenerations'
        BY <2>1, <2>4, <3>1, TaskIdForms DEF TasksOfGenerations, Exists,
           CurrentRevoke
      <3>4. TaskFollowsConfiguration'
        BY <2>1, <2>4, <3>1, TaskIdForms DEF TaskFollowsConfiguration,
           CurrentRevoke, IntentShape, Provision, Revoke
      <3>5. OnlyLatestIsOpen'
        BY <2>1, <3>1 DEF OnlyLatestIsOpen, Exists, CurrentRevoke
      <3> QED BY <3>2, <3>3, <3>4, <3>5
    <2> QED BY <2>2, <2>3, <2>4
  <1> QED
    BY <1>1, <1>2 DEF Attempts

\* Steps that leave configurations and task statuses alone.
LEMMA CoreUnchanged ==
    ASSUME CoreInv, UNCHANGED <<status, desired, generation, task>>
    PROVE  CoreInv'
  BY DEF CoreInv, IntentShape, TasksOfGenerations, TaskFollowsConfiguration,
     OnlyLatestIsOpen, Exists

LEMMA NextCore == TypeInv /\ CoreInv /\ [Next]_vars => CoreInv'
  <1> SUFFICES ASSUME TypeInv, CoreInv, [Next]_vars PROVE CoreInv'
    OBVIOUS
  <1>1. CASE PeriodChanges \/ SubscriptionEnds
    BY <1>1, CoreUnchanged DEF PeriodChanges, SubscriptionEnds,
       cfgVars, taskVars
  <1>2. ASSUME NEW c \in Configs, ProvisionVpn(c) PROVE CoreInv'
    <2> USE ConstantsOK DEF CoreInv, TypeInv, TypeOK
    <2>0. 1 \in Generations
      BY DEF Generations
    <2>1. 1 \in Generations /\ Provision(c, 1) \in TaskIds
      BY <2>0, TaskIdForms
    <2>2. status[c] = "absent"
      BY <1>2 DEF ProvisionVpn, Exists, Configs
    <2>3. /\ desired[c] = "active" /\ generation[c] = 1
          /\ task[Provision(c, 1)] = "absent"
      BY <2>1, <2>2 DEF IntentShape, TasksOfGenerations, Exists
    <2>4. /\ status' = [status EXCEPT ![c] = "provisioning"]
          /\ task' = [task EXCEPT ![Provision(c, 1)] = "pending"]
          /\ UNCHANGED <<desired, generation>>
      BY <1>2, <2>3 DEF ProvisionVpn, create_task
    <2>5. IntentShape'
      BY <2>3, <2>4 DEF IntentShape
    <2>6. TasksOfGenerations'
      BY <2>1, <2>4, TaskIdForms DEF TasksOfGenerations, Exists, Provision, Revoke
    <2>7. TaskFollowsConfiguration'
      BY <2>1, <2>3, <2>4, TaskIdForms DEF TaskFollowsConfiguration, Provision,
         Revoke
    <2>8. \A d \in Configs : d < c => status[d] = "revoked"
      <3> SUFFICES ASSUME NEW d \in Configs, d < c PROVE status[d] = "revoked"
        OBVIOUS
      <3>1. c - 1 \in Configs /\ Exists(c - 1) /\ status[c - 1] = "revoked"
        BY <1>2 DEF ProvisionVpn, Replaceable, Configs
      <3>2. d = c - 1 \/ d < c - 1
        BY DEF Configs
      <3> QED BY <3>1, <3>2 DEF OnlyLatestIsOpen
    <2>9. OnlyLatestIsOpen'
      BY <1>2, <2>2, <2>4, <2>8 DEF OnlyLatestIsOpen, ProvisionVpn, Exists, Configs
    <2> QED BY <2>5, <2>6, <2>7, <2>9
  <1>3. ASSUME NEW c \in Configs, NEW r \in RevokeReason, RevokeVpn(c, r)
        PROVE  CoreInv'
    <2> USE ConstantsOK DEF CoreInv, TypeInv, TypeOK
    <2> DEFINE g == generation[c] + 1
    <2>1. g \in Generations /\ g > generation[c] /\ g >= 2
      BY <1>3 DEF RevokeVpn, BeginRevoke, Generations
    <2>2. Revoke(c, g) \in TaskIds
      BY <2>1, TaskIdForms
    <2>3. task[Revoke(c, g)] = "absent"
      BY <2>1, <2>2 DEF TasksOfGenerations, Generations
    <2>4. /\ status' = [status EXCEPT ![c] = "revoking"]
          /\ desired' = [desired EXCEPT ![c] = "revoked"]
          /\ generation' = [generation EXCEPT ![c] = g]
          /\ task' = [task EXCEPT ![Revoke(c, g)] = "pending"]
      BY <1>3, <2>3 DEF RevokeVpn, BeginRevoke, create_task
    <2>5. status[c] \notin {"absent", "revoked"}
      BY <1>3 DEF RevokeVpn, CanRevoke
    <2>6. IntentShape'
      BY <2>1, <2>4 DEF IntentShape
    <2>7. TasksOfGenerations'
      BY <2>1, <2>2, <2>4, NewGenerationTasks
    <2>8. TaskFollowsConfiguration'
      BY <2>1, <2>2, <2>4, TaskIdForms DEF TaskFollowsConfiguration, Provision,
         Revoke
    <2>9. OnlyLatestIsOpen'
      BY <2>4, <2>5 DEF OnlyLatestIsOpen, Exists
    <2> QED BY <2>6, <2>7, <2>8, <2>9
  <1>4. ASSUME NEW t \in TaskIds, Prepare(t) PROVE CoreInv'
    <2> USE ConstantsOK DEF CoreInv, TypeInv, TypeOK
    <2>1. /\ task[t] = "pending"
          /\ task' = [task EXCEPT ![t] = "in_progress"]
          /\ UNCHANGED <<status, desired, generation>>
      BY <1>4 DEF Prepare, can_dispatch, cfgVars
    <2>2. IntentShape' /\ OnlyLatestIsOpen'
      BY <2>1 DEF IntentShape, OnlyLatestIsOpen, Exists
    <2>3. TasksOfGenerations'
      BY <2>1, TaskIdForms DEF TasksOfGenerations, Exists
    <2>4. TaskFollowsConfiguration'
      BY <2>1, LiveTaskFollows
    <2> QED BY <2>2, <2>3, <2>4
  <1>5. ASSUME NEW t \in TaskIds,
               DeferUnavailableNode(t) \/ RetryDelayOver(t) \/ LeaseRunsOut(t)
        PROVE  CoreInv'
    BY <1>5, CoreUnchanged DEF DeferUnavailableNode, RetryDelayOver,
       LeaseRunsOut, cfgVars
  <1>6. ASSUME NEW t \in TaskIds, PreflightFailure(t) PROVE CoreInv'
    <2>1. attempts[t] + 1 \in Attempts
      BY <1>6, ConstantsOK DEF PreflightFailure, can_dispatch, TypeInv, TypeOK,
         AttemptBudget, Attempts
    <2> QED
      BY <1>6, <2>1, FailOrRetryCore DEF PreflightFailure, can_dispatch
  <1>7. ASSUME NEW t \in TaskIds, NEW a \in Attempts,
               Remote(t, a) \/ FinalizeStaleAttempt(t, a)
        PROVE  CoreInv'
    BY <1>7, CoreUnchanged DEF Remote, NodeSucceeds, NodeFails,
       OvertakenProvision, RequestLost, CallTimesOut, WorkerCrashes,
       FinalizeStaleAttempt, cfgVars, taskVars
  <1>8. ASSUME NEW t \in TaskIds, NEW a \in Attempts, FinalizeFailure(t, a)
        PROVE  CoreInv'
    BY <1>8, FailOrRetryCore DEF FinalizeFailure, owns_active_lease
  <1>9. ASSUME NEW t \in TaskIds, RecoverStale(t) PROVE CoreInv'
    <2>1. attempts[t] \in Attempts
      BY <1>9, ConstantsOK DEF RecoverStale, lease_is_expired, TypeInv, TypeOK,
         AttemptBudget, Attempts
    <2> QED
      BY <1>9, <2>1, FailOrRetryCore DEF RecoverStale, lease_is_expired
  <1>10. ASSUME NEW c \in Configs, NEW g \in Generations, NEW a \in Attempts,
                CompleteProvision(c, g, a)
         PROVE  CoreInv'
    <2> USE ConstantsOK DEF CoreInv, TypeInv, TypeOK
    <2> DEFINE t == Provision(c, g)
    <2>1. t \in TaskIds /\ task[t] = "in_progress"
      BY <1>10, TaskIdForms DEF CompleteProvision, Succeeds, owns_active_lease
    <2>2. g = 1 /\ Exists(c)
      BY <2>1 DEF TasksOfGenerations
    <2>3. CASE CurrentProvision(c, g) /\ period
      <3>1. /\ status' = [status EXCEPT ![c] = "active"]
            /\ task' = [task EXCEPT ![t] = "succeeded"]
            /\ UNCHANGED <<desired, generation>>
        BY <1>10, <2>3 DEF CompleteProvision
      <3>2. IntentShape' /\ OnlyLatestIsOpen'
        BY <2>3, <3>1 DEF IntentShape, OnlyLatestIsOpen, Exists, CurrentProvision
      <3>3. TasksOfGenerations'
        BY <2>1, <3>1, TaskIdForms DEF TasksOfGenerations, Exists
      <3>4. TaskFollowsConfiguration'
        BY <2>1, <2>3, <3>1, TaskIdForms DEF TaskFollowsConfiguration,
           CurrentProvision, Provision, Revoke
      <3> QED BY <3>2, <3>3, <3>4
    <2>4. CASE CurrentProvision(c, g) /\ ~period
      <3> DEFINE f == Revoke(c, g + 1)
      <3>1. /\ status' = [status EXCEPT ![c] = "revoking"]
            /\ desired' = [desired EXCEPT ![c] = "revoked"]
            /\ generation' = [generation EXCEPT ![c] = g + 1]
            /\ g + 1 \in Generations
        BY <1>10, <2>4 DEF CompleteProvision, CurrentProvision, BeginRevoke,
           Generations
      <3>2. f \in TaskIds /\ f # t
        BY <3>1, TaskIdForms DEF Provision, Revoke
      <3>3. task[f] = "absent"
        BY <2>4, <3>1, <3>2 DEF TasksOfGenerations, CurrentProvision, Generations
      <3>4. task' = [task EXCEPT ![t] = "succeeded", ![f] = "pending"]
        BY <1>10, <2>1, <2>4, <3>2, <3>3 DEF CompleteProvision, CurrentProvision,
           CompleteAndFollowUp
      <3>5. IntentShape' /\ OnlyLatestIsOpen'
        BY <2>2, <2>4, <3>1 DEF IntentShape, OnlyLatestIsOpen, Exists,
           CurrentProvision
      <3>6. TasksOfGenerations'
        BY <2>1, <2>4, <3>1, <3>2, <3>4, NewGenerationTasks
           DEF CurrentProvision
      <3>7. TaskFollowsConfiguration'
        BY <2>1, <3>1, <3>2, <3>4, TaskIdForms DEF TaskFollowsConfiguration,
           Provision, Revoke
      <3> QED BY <3>5, <3>6, <3>7
    <2>5. CASE ~CurrentProvision(c, g)
      <3> DEFINE f == Revoke(c, generation[c])
      <3>1. desired[c] = "revoked"
        BY <2>1, <2>2, <2>5 DEF IntentShape, TaskFollowsConfiguration,
           CurrentProvision, Exists
      <3>2. f \in TaskIds /\ f # t /\ task[f] # "absent"
        BY <3>1, TaskIdForms DEF IntentShape, TaskFollowsConfiguration,
           Provision, Revoke
      <3>3. /\ task' = [task EXCEPT ![t] = "succeeded"]
            /\ UNCHANGED <<status, desired, generation>>
        BY <1>10, <2>1, <2>5, <3>2 DEF CompleteProvision, CompleteAndFollowUp,
           cfgVars
      <3>4. IntentShape' /\ OnlyLatestIsOpen'
        BY <3>3 DEF IntentShape, OnlyLatestIsOpen, Exists
      <3>5. TasksOfGenerations'
        BY <2>1, <3>3, TaskIdForms DEF TasksOfGenerations, Exists
      <3>6. TaskFollowsConfiguration'
        BY <2>1, <3>1, <3>3, TaskIdForms DEF TaskFollowsConfiguration,
           IntentShape, Provision, Revoke
      <3> QED BY <3>4, <3>5, <3>6
    <2> QED BY <2>3, <2>4, <2>5
  <1>11. ASSUME NEW c \in Configs, NEW g \in Generations, NEW a \in Attempts,
                CompleteRevoke(c, g, a)
         PROVE  CoreInv'
    <2> USE ConstantsOK DEF CoreInv, TypeInv, TypeOK
    <2> DEFINE t == Revoke(c, g)
    <2>1. t \in TaskIds /\ task[t] = "in_progress"
      BY <1>11, TaskIdForms DEF CompleteRevoke, Succeeds, owns_active_lease
    <2>2. /\ status' = [status EXCEPT ![c] =
                           IF CurrentRevoke(c, g) THEN "revoked" ELSE @]
          /\ task' = [task EXCEPT ![t] = "succeeded"]
          /\ UNCHANGED <<desired, generation>>
      BY <1>11 DEF CompleteRevoke
    <2>3. IntentShape' /\ OnlyLatestIsOpen'
      BY <2>2 DEF IntentShape, OnlyLatestIsOpen, Exists, CurrentRevoke
    <2>4. TasksOfGenerations'
      BY <2>1, <2>2, TaskIdForms DEF TasksOfGenerations, Exists, CurrentRevoke
    <2>5. TaskFollowsConfiguration'
      BY <2>1, <2>2, TaskIdForms DEF TaskFollowsConfiguration, IntentShape,
         CurrentRevoke, Provision, Revoke
    <2> QED BY <2>3, <2>4, <2>5
  <1>12. CASE UNCHANGED vars
    BY <1>12, CoreUnchanged DEF vars, cfgVars, taskVars
  <1> QED
    BY <1>1, <1>2, <1>3, <1>4, <1>5, <1>6, <1>7, <1>8, <1>9, <1>10, <1>11,
       <1>12 DEF Next, Dispatch

LEMMA CoreInvariant == Spec => [](TypeInv /\ CoreInv)
  BY InitType, NextType, InitCore, NextCore, PTL DEF Spec

\* Every configuration that waits for its node has a runnable task of its own
\* generation, and every settled one its terminal task.
THEOREM NoStrandedConfiguration == Spec => []TaskFollowsConfiguration
  BY CoreInvariant, PTL DEF CoreInv

\* A subscription never has two configurations that are still being managed.
THEOREM SingleOpenConfiguration == Spec => []OnlyLatestIsOpen
  BY CoreInvariant, PTL DEF CoreInv

-----------------------------------------------------------------------------
(* What the node has done.  A request or a recorded key belongs to a task  *)
(* that exists, so no revocation can reach the node while the              *)
(* configuration is still in its first generation.                         *)

NodeInv ==
    /\ \A x \in wire : task[x[1]] # "absent"
    /\ \A t \in journal : task[t] # "absent"
    /\ \A t \in TaskIds, a \in Attempts :
          call[<<t, a>>] = "succeeded" => t \in journal
    /\ \A t \in TaskIds : task[t] = "succeeded" => t \in journal
    /\ \A c \in Configs :
          generation[c] = 1 /\ Provision(c, 1) \in journal => client[c]

LEMMA InitNode == Init => NodeInv
  BY DEF Init, NodeInv

\* Steps in which the node does nothing, no row disappears, no generation
\* goes back, no call turns into a success, and a task succeeds only when its
\* key is recorded.
LEMMA NodeQuiet ==
    ASSUME TypeInv, NodeInv,
           \A x \in wire' : x \in wire \/ task'[x[1]] # "absent",
           UNCHANGED <<journal, client>>,
           \A t \in TaskIds : task[t] # "absent" => task'[t] # "absent",
           \A t \in TaskIds, a \in Attempts :
              call'[<<t, a>>] = "succeeded" => call[<<t, a>>] = "succeeded",
           \A t \in TaskIds :
              task'[t] = "succeeded" => task[t] = "succeeded" \/ t \in journal,
           \A c \in Configs : generation'[c] = 1 => generation[c] = 1
    PROVE  NodeInv'
  <1>1. \A x \in wire : x[1] \in TaskIds
    BY DEF TypeInv, TypeOK
  <1>2. journal \subseteq TaskIds
    BY DEF TypeInv, TypeOK
  <1>3. \A x \in wire' : task'[x[1]] # "absent"
    BY <1>1 DEF NodeInv
  <1>4. \A t \in journal' : task'[t] # "absent"
    BY <1>2 DEF NodeInv
  <1>5. \A t \in TaskIds, a \in Attempts :
          call'[<<t, a>>] = "succeeded" => t \in journal'
    BY DEF NodeInv
  <1>6. \A t \in TaskIds : task'[t] = "succeeded" => t \in journal'
    BY DEF NodeInv
  <1>7. \A c \in Configs :
          generation'[c] = 1 /\ Provision(c, 1) \in journal' => client'[c]
    BY DEF NodeInv
  <1> QED BY <1>3, <1>4, <1>5, <1>6, <1>7 DEF NodeInv

LEMMA NodeHandles ==
    ASSUME TypeInv, CoreInv, NodeInv, NEW t \in TaskIds, NEW a \in Attempts,
           NodeSucceeds(t, a) \/ NodeFails(t, a) \/ OvertakenProvision(t, a)
           \/ RequestLost(t, a)
    PROVE  NodeInv'
  <1> USE ConstantsOK DEF TypeInv, TypeOK
  <1>1. /\ task[t] # "absent"
        /\ UNCHANGED <<task, generation>>
        /\ wire' \subseteq wire
        /\ journal' \subseteq journal \cup {t}
        /\ journal \subseteq journal'
    BY DEF NodeSucceeds, NodeFails, OvertakenProvision, RequestLost, cfgVars,
       taskVars, NodeInv
  <1>2. \A u \in TaskIds, b \in Attempts :
          call'[<<u, b>>] = "succeeded" =>
              call[<<u, b>>] = "succeeded" \/ (u = t /\ t \in journal')
    BY DEF NodeSucceeds, NodeFails, OvertakenProvision, RequestLost, Answer
  <1>3. ASSUME NEW c \in Configs, generation[c] = 1
        PROVE  Provision(c, 1) \in journal' => client'[c]
    <2>1. CASE t[1] # c
      <3>1. t # Provision(c, 1)
        BY <2>1 DEF Provision
      <3>2. client'[c] = client[c]
        BY <2>1, TaskIdForms DEF NodeSucceeds, NodeFails,
           OvertakenProvision, RequestLost, Effect
      <3> QED BY <1>1, <1>3, <3>1, <3>2 DEF NodeInv
    <2>2. CASE t[1] = c
      <3>1. t[2] = "provision_client"
        <4> SUFFICES ASSUME t[2] = "revoke_client" PROVE FALSE
          BY TaskIdForms DEF Operations
        <4>1. t = Revoke(c, t[3]) /\ t[3] \in Generations
          BY <2>2, TaskIdForms DEF Revoke
        <4> QED
          BY <1>1, <1>3, <4>1 DEF CoreInv, TasksOfGenerations, Generations
      <3>2. t \in journal /\ client[c] => client'[c]
        BY <2>2, <3>1 DEF NodeSucceeds, NodeFails,
           OvertakenProvision, RequestLost, Effect
      <3>3. t \in journal' /\ t \notin journal => client'[c] = TRUE
        BY <2>2, <3>1 DEF NodeSucceeds, NodeFails,
           OvertakenProvision, RequestLost, Effect
      <3>4. t = Provision(c, 1)
        <4>1. t = Provision(c, t[3]) /\ t[3] \in Generations
          BY <2>2, <3>1, TaskIdForms DEF Provision
        <4>2. t[3] = 1
          BY <1>1, <1>3, <4>1 DEF CoreInv, TasksOfGenerations, Generations
        <4> QED BY <4>1, <4>2
      <3> QED BY <1>1, <1>3, <3>2, <3>3, <3>4 DEF NodeInv
    <2> QED BY <2>1, <2>2
  <1>4. \A x \in wire' : task'[x[1]] # "absent"
    BY <1>1 DEF NodeInv
  <1>5. \A u \in journal' : task'[u] # "absent"
    BY <1>1 DEF NodeInv
  <1>6. \A u \in TaskIds, b \in Attempts :
          call'[<<u, b>>] = "succeeded" => u \in journal'
    BY <1>1, <1>2 DEF NodeInv
  <1>7. \A u \in TaskIds : task'[u] = "succeeded" => u \in journal'
    BY <1>1 DEF NodeInv
  <1> QED
    BY <1>1, <1>3, <1>4, <1>5, <1>6, <1>7 DEF NodeInv

LEMMA NextNode == TypeInv /\ CoreInv /\ NodeInv /\ [Next]_vars => NodeInv'
  <1> SUFFICES ASSUME TypeInv, CoreInv, NodeInv, [Next]_vars PROVE NodeInv'
    OBVIOUS
  <1> USE ConstantsOK
  <1>1. CASE PeriodChanges \/ SubscriptionEnds
    BY <1>1 DEF PeriodChanges, SubscriptionEnds, NodeInv,
       cfgVars, taskVars, nodeVars
  <1>2. ASSUME NEW c \in Configs, ProvisionVpn(c) PROVE NodeInv'
    <2>1. 1 \in Generations
      BY DEF Generations
    <2>2. Provision(c, 1) \in TaskIds
      BY <2>1, TaskIdForms
    <2> QED
      BY <1>2, <2>2, NodeQuiet DEF ProvisionVpn, create_task, nodeVars, TypeInv,
         TypeOK
  <1>3. ASSUME NEW c \in Configs, NEW r \in RevokeReason, RevokeVpn(c, r)
        PROVE  NodeInv'
    <2>1. generation[c] + 1 \in Generations
      BY <1>3 DEF RevokeVpn, BeginRevoke, TypeInv, TypeOK, Generations
    <2>2. Revoke(c, generation[c] + 1) \in TaskIds
      BY <2>1, TaskIdForms
    <2>3. \A d \in Configs : generation'[d] = 1 => generation[d] = 1
      BY <1>3 DEF RevokeVpn, BeginRevoke, TypeInv, TypeOK, Generations
    <2> QED
      BY <1>3, <2>2, <2>3, NodeQuiet DEF RevokeVpn, create_task, nodeVars,
         TypeInv, TypeOK
  <1>4. ASSUME NEW t \in TaskIds, Prepare(t) PROVE NodeInv'
    <2>1. attempts[t] + 1 \in Attempts
      BY <1>4 DEF Prepare, can_dispatch, TypeInv, TypeOK, AttemptBudget, Attempts
    <2> QED
      BY <1>4, <2>1, NodeQuiet DEF Prepare, cfgVars, TypeInv, TypeOK
  <1>5. ASSUME NEW t \in TaskIds,
               DeferUnavailableNode(t) \/ RetryDelayOver(t) \/ LeaseRunsOut(t)
        PROVE  NodeInv'
    BY <1>5 DEF DeferUnavailableNode, RetryDelayOver, LeaseRunsOut, NodeInv,
       cfgVars, nodeVars
  <1>6. ASSUME NEW t \in TaskIds,
               \/ PreflightFailure(t) \/ RecoverStale(t)
               \/ \E a \in Attempts : FinalizeFailure(t, a)
        PROVE  NodeInv'
    <2>1. /\ \E n : FailOrRetry(t, n)
          /\ UNCHANGED <<generation, nodeVars>>
      BY <1>6 DEF PreflightFailure, RecoverStale, FinalizeFailure
    <2>2. \A u \in TaskIds, b \in Attempts :
             call'[<<u, b>>] = "succeeded" => call[<<u, b>>] = "succeeded"
      BY <1>6 DEF PreflightFailure, RecoverStale, FinalizeFailure, Close,
         TypeInv, TypeOK
    <2>3. /\ \A u \in TaskIds : task[u] # "absent" => task'[u] # "absent"
          /\ \A u \in TaskIds : task'[u] = "succeeded" => task[u] = "succeeded"
      BY <2>1 DEF FailOrRetry, TypeInv, TypeOK
    <2> QED
      BY <2>1, <2>2, <2>3, NodeQuiet DEF nodeVars
  <1>7. ASSUME NEW t \in TaskIds, NEW a \in Attempts, Remote(t, a)
        PROVE  NodeInv'
    <2>1. CASE CallTimesOut(t, a) \/ WorkerCrashes(t, a)
      BY <2>1, NodeQuiet DEF CallTimesOut, WorkerCrashes, cfgVars, taskVars,
         nodeVars, TypeInv, TypeOK
    <2> QED BY <1>7, <2>1, NodeHandles DEF Remote
  <1>8. ASSUME NEW t \in TaskIds, NEW a \in Attempts,
               FinalizeStaleAttempt(t, a)
        PROVE  NodeInv'
    BY <1>8, NodeQuiet DEF FinalizeStaleAttempt, Close, cfgVars, taskVars,
       nodeVars, TypeInv, TypeOK
  <1>9. ASSUME NEW c \in Configs, NEW g \in Generations, NEW a \in Attempts,
               CompleteProvision(c, g, a)
        PROVE  NodeInv'
    <2> DEFINE t == Provision(c, g)
    <2>1. t \in TaskIds /\ t \in journal
      BY <1>9, TaskIdForms DEF CompleteProvision, Succeeds,
         accepts_remote_status, NodeInv
    <2>2. /\ UNCHANGED nodeVars
          /\ \A u \in TaskIds, b \in Attempts :
                call'[<<u, b>>] = "succeeded" => call[<<u, b>>] = "succeeded"
      BY <1>9 DEF CompleteProvision, Succeeds, Close, TypeInv, TypeOK
    <2>3. \A d \in Configs : generation'[d] = 1 => generation[d] = 1
      BY <1>9 DEF CompleteProvision, BeginRevoke, cfgVars, TypeInv, TypeOK,
         Generations
    <2>4. /\ \A u \in TaskIds : task[u] # "absent" => task'[u] # "absent"
          /\ \A u \in TaskIds :
                task'[u] = "succeeded" => task[u] = "succeeded" \/ u = t
      <3>1. CASE task' = [task EXCEPT ![t] = "succeeded"]
        BY <2>1, <3>1 DEF TypeInv, TypeOK
      <3>2. ASSUME NEW f, CompleteAndFollowUp(t, f)
            PROVE  /\ \A u \in TaskIds : task[u] # "absent" => task'[u] # "absent"
                   /\ \A u \in TaskIds :
                         task'[u] = "succeeded" => task[u] = "succeeded" \/ u = t
        BY <2>1, <3>2 DEF CompleteAndFollowUp, TypeInv, TypeOK
      <3> QED BY <1>9, <3>1, <3>2 DEF CompleteProvision
    <2> QED BY <2>1, <2>2, <2>3, <2>4, NodeQuiet DEF nodeVars
  <1>10. ASSUME NEW c \in Configs, NEW g \in Generations, NEW a \in Attempts,
                CompleteRevoke(c, g, a)
         PROVE  NodeInv'
    <2> DEFINE t == Revoke(c, g)
    <2>1. t \in TaskIds /\ t \in journal
      BY <1>10, TaskIdForms DEF CompleteRevoke, Succeeds,
         accepts_remote_status, NodeInv
    <2>2. \A u \in TaskIds, b \in Attempts :
             call'[<<u, b>>] = "succeeded" => call[<<u, b>>] = "succeeded"
      BY <1>10 DEF CompleteRevoke, Succeeds, Close, TypeInv, TypeOK
    <2> QED
      BY <1>10, <2>1, <2>2, NodeQuiet DEF CompleteRevoke, Succeeds, nodeVars,
         TypeInv, TypeOK
  <1>11. CASE UNCHANGED vars
    BY <1>11 DEF vars, cfgVars, taskVars, nodeVars, NodeInv
  <1> QED
    BY <1>1, <1>2, <1>3, <1>4, <1>5, <1>6, <1>7, <1>8, <1>9, <1>10, <1>11
       DEF Next, Dispatch

LEMMA NodeInvariant == Spec => [](TypeInv /\ CoreInv /\ NodeInv)
  BY InitType, NextType, InitCore, NextCore, InitNode, NextNode, PTL DEF Spec

\* The local state never runs ahead of the node: an active configuration has
\* its client, a revoked one has had its revocation carried out.
THEOREM LocalStateIsBacked == Spec => [](ActiveClientOnNode /\ RevokedWasExecuted)
  <1>1. TypeInv /\ CoreInv /\ NodeInv => ActiveClientOnNode
    BY TaskIdForms DEF CoreInv, IntentShape, TaskFollowsConfiguration, NodeInv,
       ActiveClientOnNode, TypeInv, TypeOK
  <1>2. TypeInv /\ CoreInv /\ NodeInv => RevokedWasExecuted
    BY TaskIdForms DEF CoreInv, TaskFollowsConfiguration, NodeInv,
       RevokedWasExecuted, TypeInv, TypeOK
  <1> QED BY <1>1, <1>2, NodeInvariant, PTL

-----------------------------------------------------------------------------
(* Intent only moves forward.                                              *)

\* Once revocation is wanted it stays wanted, generations never go back and a
\* revoked configuration is final, whichever late answer arrives.
THEOREM IntentNeverGoesBack == Spec => IntentMovesForward
  <1> DEFINE Forward ==
        \A c \in Configs :
          /\ generation'[c] >= generation[c]
          /\ desired[c] = "revoked" => desired'[c] = "revoked" /\ status'[c] # "active"
          /\ status[c] = "revoked" => status'[c] = "revoked"
  <1>1. ASSUME TypeInv, CoreInv, [Next]_vars PROVE [Forward]_vars
    <2> USE ConstantsOK DEF TypeInv, TypeOK
    <2>0. \A c \in Configs : desired[c] = "revoked" => status[c] \in {"revoking", "revoke_failed", "revoked"}
      BY <1>1 DEF CoreInv, IntentShape
    <2>1. CASE UNCHANGED cfgVars
      BY <1>1, <2>0, <2>1 DEF cfgVars, Generations
    <2>2. ASSUME NEW c \in Configs, ProvisionVpn(c) PROVE Forward
      BY <1>1, <2>0, <2>2 DEF ProvisionVpn, Exists, Configs, Generations
    <2>3. ASSUME NEW c \in Configs, BeginRevoke(c), status[c] # "revoked"
          PROVE  Forward
      BY <1>1, <2>0, <2>3 DEF BeginRevoke, Generations
    <2>4. ASSUME NEW t \in TaskIds, NEW n, FailOrRetry(t, n),
                 UNCHANGED <<desired, generation>>
          PROVE  Forward
      <3>1. \A c \in Configs :
              \/ status'[c] = status[c]
              \/ /\ status[c] \in {"provisioning", "revoking"}
                 /\ status'[c] \in {"failed", "revoke_failed"}
        <4>1. CASE UNCHANGED status
          BY <4>1
        <4>2. CASE MarkConfigurationFailure(t)
          BY <1>1, <4>2, TaskIdForms DEF MarkConfigurationFailure,
             CurrentProvision, CurrentRevoke
        <4> QED BY <2>4, <4>1, <4>2 DEF FailOrRetry
      <3> QED BY <1>1, <2>0, <2>4, <3>1 DEF Generations
    <2>5. ASSUME NEW c \in Configs, NEW g \in Generations, NEW a \in Attempts,
                 CompleteProvision(c, g, a)
          PROVE  Forward
      <3>1. CASE /\ CurrentProvision(c, g)
                 /\ status' = [status EXCEPT ![c] = "active"]
                 /\ UNCHANGED <<desired, generation, due>>
        BY <1>1, <2>0, <3>1 DEF CurrentProvision, Generations
      <3>2. CASE CurrentProvision(c, g) /\ BeginRevoke(c)
        BY <2>3, <3>2 DEF CurrentProvision
      <3>3. CASE UNCHANGED cfgVars
        BY <1>1, <2>0, <3>3 DEF cfgVars, Generations
      <3> QED BY <2>5, <3>1, <3>2, <3>3 DEF CompleteProvision
    <2>6. ASSUME NEW c \in Configs, NEW g \in Generations, NEW a \in Attempts,
                 CompleteRevoke(c, g, a)
          PROVE  Forward
      BY <1>1, <2>0, <2>6 DEF CompleteRevoke, CurrentRevoke, Generations
    <2>7. CASE \/ PeriodChanges \/ SubscriptionEnds
               \/ \E t \in TaskIds : \/ Prepare(t) \/ DeferUnavailableNode(t)
                                     \/ RetryDelayOver(t) \/ LeaseRunsOut(t)
               \/ \E t \in TaskIds, a \in Attempts :
                     Remote(t, a) \/ FinalizeStaleAttempt(t, a)
      <3>1. UNCHANGED cfgVars
        BY <2>7 DEF PeriodChanges, SubscriptionEnds, Prepare,
           DeferUnavailableNode, RetryDelayOver, LeaseRunsOut, Remote,
           NodeSucceeds, NodeFails, OvertakenProvision, RequestLost,
           CallTimesOut, WorkerCrashes,
           FinalizeStaleAttempt
      <3> QED BY <2>1, <3>1
    <2>8. CASE \E c \in Configs, r \in RevokeReason : RevokeVpn(c, r)
      BY <2>3, <2>8 DEF RevokeVpn, CanRevoke
    <2>9. CASE \/ \E t \in TaskIds : PreflightFailure(t) \/ RecoverStale(t)
               \/ \E t \in TaskIds, a \in Attempts : FinalizeFailure(t, a)
      BY <2>4, <2>9 DEF PreflightFailure, RecoverStale, FinalizeFailure
    <2> QED
      BY <1>1, <2>1, <2>2, <2>5, <2>6, <2>7, <2>8, <2>9 DEF Next, Dispatch, vars
  <1> QED BY <1>1, CoreInvariant, PTL DEF Spec, IntentMovesForward
-----------------------------------------------------------------------------
(* VpnNode implements VpnAccess.                                           *)

AccessStep(c) == Access(c)!Next \/ UNCHANGED Access(c)!vars

\* A step that leaves the rows and the clients alone is a step of the
\* subscription, or none.
LEMMA AccessOfQuietStep ==
    ASSUME UNCHANGED <<subscription, period, status, desired, generation, client>>,
           NEW c \in Configs
    PROVE  AccessStep(c)
  BY DEF AccessStep, Access!vars, Access!access, Access!row

\* The failure of an operation fails a row that waits for it.
LEMMA AccessOfFailure ==
    ASSUME TypeInv, NEW t \in TaskIds, NEW n, FailOrRetry(t, n),
           UNCHANGED <<subVars, desired, generation, client>>, NEW c \in Configs
    PROVE  AccessStep(c)
  <1>1. \/ status'[c] = status[c]
        \/ status[c] = "provisioning" /\ status'[c] = "failed"
        \/ status[c] = "revoking" /\ status'[c] = "revoke_failed"
    <2>1. CASE UNCHANGED status
      BY <2>1
    <2>2. CASE MarkConfigurationFailure(t)
      BY <2>2, TaskIdForms DEF MarkConfigurationFailure, CurrentProvision,
         CurrentRevoke, TypeInv, TypeOK
    <2> QED BY <2>1, <2>2 DEF FailOrRetry
  <1>2. CASE status'[c] = status[c]
    BY <1>2 DEF AccessStep, Access!vars, Access!access, Access!row, subVars
  <1>3. CASE status[c] = "provisioning" /\ status'[c] = "failed"
    BY <1>3 DEF AccessStep, Access!Next, Access!FailProvisioning, Access!access,
       subVars
  <1>4. CASE status[c] = "revoking" /\ status'[c] = "revoke_failed"
    BY <1>4 DEF AccessStep, Access!Next, Access!EndRevoke, Access!access, subVars
  <1> QED BY <1>1, <1>2, <1>3, <1>4

\* A new generation of configuration d.
LEMMA AccessOfRevoke ==
    ASSUME TypeInv, NEW d \in Configs, BeginRevoke(d), CanRevoke(d),
           UNCHANGED <<subVars, client>>, NEW c \in Configs
    PROVE  AccessStep(c)
  <1>1. CASE c = d
    BY <1>1 DEF BeginRevoke, CanRevoke, TypeInv, TypeOK, AccessStep, Access!Next,
       Access!BeginRevoke, Access!access, subVars
  <1>2. CASE c # d
    <2>1. status'[c] = status[c] /\ desired'[c] = desired[c] /\ generation'[c] = generation[c]
      BY <1>2 DEF BeginRevoke, TypeInv, TypeOK
    <2> QED BY <2>1 DEF AccessStep, Access!vars, Access!access, Access!row, subVars
  <1> QED BY <1>1, <1>2

\* The clock and the payments.
LEMMA AccessOfSubscription ==
    ASSUME TypeInv, PeriodChanges \/ SubscriptionEnds,
           NEW c \in Configs
    PROVE  AccessStep(c)
  <1>1. /\ UNCHANGED <<status, desired, generation, client>>
        /\ subscription' \in {"active", "ended"}
        /\ subscription = "ended" => subscription' = "ended"
    BY DEF PeriodChanges, SubscriptionEnds, cfgVars, nodeVars,
       TypeInv, TypeOK
  <1>2. period' \in BOOLEAN
    BY DEF PeriodChanges, SubscriptionEnds, TypeInv, TypeOK
  <1> QED
    BY <1>1, <1>2 DEF AccessStep, Access!Next, Access!AccessChanges, Access!row

\* The node: the client of an active configuration was there and stays.
LEMMA AccessOfNode ==
    ASSUME TypeInv, TypeInv', ActiveClientOnNode, ActiveClientOnNode',
           UNCHANGED <<subVars, cfgVars>>, NEW c \in Configs
    PROVE  AccessStep(c)
  <1>1. /\ status'[c] = status[c] /\ desired'[c] = desired[c]
        /\ generation'[c] = generation[c]
        /\ subscription' = subscription /\ period' = period
    BY DEF cfgVars, subVars
  <1>2. client[c] \in BOOLEAN /\ client'[c] \in BOOLEAN
    BY DEF TypeInv, TypeOK
  <1>3. CASE client'[c] = client[c]
    BY <1>1, <1>3 DEF AccessStep, Access!vars, Access!access, Access!row
  <1>4. CASE client'[c] # client[c]
    <2>1. client'[c] = ~client[c]
      BY <1>2, <1>4
    <2>2. status[c] # "active"
      BY <1>1, <1>4, <1>2 DEF ActiveClientOnNode
    <2> QED
      BY <1>1, <2>1, <2>2 DEF AccessStep, Access!Next, Access!ClientChanges,
         Access!access, Access!row
  <1> QED BY <1>3, <1>4

\* The finalization of a provision: access is turned on in paid time and
\* with the client on the node.
LEMMA AccessOfProvision ==
    ASSUME TypeInv, CoreInv, NodeInv, NEW d \in Configs, NEW g \in Generations,
           NEW a \in Attempts, CompleteProvision(d, g, a), NEW c \in Configs
    PROVE  AccessStep(c)
  <1>1. UNCHANGED <<subVars, client>>
    BY DEF CompleteProvision, Succeeds, nodeVars
  <1>2. CASE /\ CurrentProvision(d, g) /\ period
             /\ status' = [status EXCEPT ![d] = "active"]
             /\ UNCHANGED <<desired, generation, due>>
    <2>1. CASE c # d
      <3>1. status'[c] = status[c]
        BY <1>2, <2>1 DEF TypeInv, TypeOK
      <3> QED
        BY <1>1, <1>2, <3>1 DEF AccessStep, Access!vars, Access!access, Access!row,
           subVars
    <2>2. CASE c = d
      <3>1. generation[c] = 1 /\ g = 1
        BY <1>2, <2>2 DEF CurrentProvision, CoreInv, IntentShape
      <3>2. Provision(c, 1) \in journal
        BY <2>2, <3>1, TaskIdForms DEF CompleteProvision, Succeeds,
           accepts_remote_status, NodeInv
      <3>3. client[c]
        BY <3>1, <3>2 DEF NodeInv
      <3>4. status[c] = "provisioning" /\ status'[c] = "active"
        BY <1>2, <2>2 DEF CurrentProvision, TypeInv, TypeOK
      <3> QED
        BY <1>1, <1>2, <3>3, <3>4 DEF AccessStep, Access!Next, Access!Activate,
           Access!access, subVars
    <2> QED BY <2>1, <2>2
  <1>3. CASE CurrentProvision(d, g) /\ BeginRevoke(d)
    BY <1>1, <1>3, AccessOfRevoke DEF CurrentProvision, CanRevoke
  <1>4. CASE UNCHANGED cfgVars
    BY <1>1, <1>4, AccessOfQuietStep DEF cfgVars, subVars
  <1> QED
    BY <1>2, <1>3, <1>4 DEF CompleteProvision

LEMMA AccessOfCompletedRevoke ==
    ASSUME TypeInv, NEW d \in Configs, NEW g \in Generations, NEW a \in Attempts,
           CompleteRevoke(d, g, a), NEW c \in Configs
    PROVE  AccessStep(c)
  <1>1. UNCHANGED <<subVars, client, desired, generation>>
    BY DEF CompleteRevoke, Succeeds, nodeVars
  <1>2. \/ status'[c] = status[c]
        \/ status[c] = "revoking" /\ status'[c] = "revoked"
    BY DEF CompleteRevoke, CurrentRevoke, TypeInv, TypeOK
  <1>3. CASE status'[c] = status[c]
    BY <1>1, <1>3 DEF AccessStep, Access!vars, Access!access, Access!row, subVars
  <1>4. CASE status[c] = "revoking" /\ status'[c] = "revoked"
    BY <1>1, <1>4 DEF AccessStep, Access!Next, Access!EndRevoke, Access!access, subVars
  <1> QED BY <1>2, <1>3, <1>4

LEMMA AccessOfCreation ==
    ASSUME TypeInv, NEW d \in Configs, ProvisionVpn(d), NEW c \in Configs
    PROVE  AccessStep(c)
  <1>1. UNCHANGED <<subVars, client, desired, generation>> /\ CurrentAccess
    BY DEF ProvisionVpn, nodeVars
  <1>2. CASE c = d
    <2>1. status[c] = "absent"
      BY <1>2 DEF ProvisionVpn, Exists, Configs
    <2>2. status'[c] = "provisioning"
      BY <1>2 DEF ProvisionVpn, TypeInv, TypeOK
    <2> QED
      BY <1>1, <2>1, <2>2 DEF AccessStep, Access!Next, Access!Create,
         Access!CurrentAccess, CurrentAccess, Access!access, subVars
  <1>3. CASE c # d
    <2>1. status'[c] = status[c]
      BY <1>3 DEF ProvisionVpn, TypeInv, TypeOK
    <2> QED
      BY <1>1, <2>1 DEF AccessStep, Access!vars, Access!access, Access!row, subVars
  <1> QED BY <1>2, <1>3

\* Every step of VpnNode is a step of VpnAccess, or none, for each
\* configuration.
LEMMA StepImplementsAccess ==
    ASSUME TypeInv, CoreInv, NodeInv, TypeInv', ActiveClientOnNode,
           ActiveClientOnNode', [Next]_vars, NEW c \in Configs
    PROVE  AccessStep(c)
  <1>1. CASE \E d \in Configs, r \in RevokeReason : RevokeVpn(d, r)
    BY <1>1, AccessOfRevoke DEF RevokeVpn, nodeVars
  <1>2. CASE \E t \in TaskIds : PreflightFailure(t) \/ RecoverStale(t)
    BY <1>2, AccessOfFailure DEF PreflightFailure, RecoverStale, nodeVars
  <1>3. CASE \E t \in TaskIds, a \in Attempts : FinalizeFailure(t, a)
    BY <1>3, AccessOfFailure DEF FinalizeFailure, nodeVars
  <1>4. CASE \E t \in TaskIds, a \in Attempts : Remote(t, a)
    <2>1. UNCHANGED <<subVars, cfgVars>>
      BY <1>4 DEF Remote, NodeSucceeds, NodeFails,
         OvertakenProvision, RequestLost, CallTimesOut, WorkerCrashes
    <2> QED BY <2>1, AccessOfNode
  <1>5. CASE \/ \E t \in TaskIds : \/ Prepare(t) \/ DeferUnavailableNode(t)
                                   \/ RetryDelayOver(t) \/ LeaseRunsOut(t)
             \/ \E t \in TaskIds, a \in Attempts : FinalizeStaleAttempt(t, a)
             \/ UNCHANGED vars
    <2>1. UNCHANGED <<subVars, cfgVars>>
      BY <1>5 DEF Prepare, DeferUnavailableNode, RetryDelayOver, LeaseRunsOut,
         FinalizeStaleAttempt, vars
    <2> QED BY <2>1, AccessOfNode
  <1> QED
    BY <1>1, <1>2, <1>3, <1>4, <1>5, AccessOfSubscription, AccessOfCreation,
       AccessOfProvision, AccessOfCompletedRevoke DEF Next, Dispatch

\* The node-backed lifecycle, with its tasks, attempts, leases, lost, late
\* and repeated calls, implements the abstract one for every configuration
\* and every value of the constants.
THEOREM NodeImplementsAccess == Spec => ImplementsAccess
  <1>1. Init => \A c \in Configs : Access(c)!Init
    BY DEF Init, Access!Init
  <1>2. TypeInv /\ CoreInv /\ NodeInv => ActiveClientOnNode
    BY TaskIdForms DEF CoreInv, IntentShape, TaskFollowsConfiguration, NodeInv,
       ActiveClientOnNode, TypeInv, TypeOK
  <1>3. ASSUME TypeInv, CoreInv, NodeInv, (TypeInv /\ CoreInv /\ NodeInv)',
               ActiveClientOnNode, ActiveClientOnNode', [Next]_vars
        PROVE  [\A c \in Configs : Access(c)!Next \/ UNCHANGED Access(c)!vars]_vars
    BY <1>3, StepImplementsAccess DEF AccessStep
  <1> QED BY <1>1, <1>2, <1>3, NodeInvariant, PTL DEF Spec, ImplementsAccess
-----------------------------------------------------------------------------
(* One started attempt for each task in progress.                          *)

\* A task that is not and was not in progress has no started attempt, before
\* and after; nothing changes for the others.
LEMMA OtherTasksKeepAttempts ==
    ASSUME OneStartedAttempt, attempts' = attempts, attemptRow' = attemptRow,
           \A t \in TaskIds : task'[t] = "in_progress" <=> task[t] = "in_progress"
    PROVE  OneStartedAttempt'
  BY DEF OneStartedAttempt

\* The end of attempt n of task t.
LEMMA AttemptEnds ==
    ASSUME TypeInv, OneStartedAttempt, NEW t \in TaskIds, NEW n \in Attempts,
           NEW s \in {"failed", "succeeded"},
           attemptRow' = [attemptRow EXCEPT ![<<t, n>>] = s],
           task[t] = "in_progress" => attempts[t] = n,
           \A u \in TaskIds : u # t => /\ attempts'[u] = attempts[u]
                                       /\ task'[u] = "in_progress" <=> task[u] = "in_progress",
           task'[t] # "in_progress"
    PROVE  OneStartedAttempt'
  <1> SUFFICES ASSUME NEW u \in TaskIds, NEW a \in Attempts
               PROVE  attemptRow'[<<u, a>>] = "started"
                        <=> task'[u] = "in_progress" /\ attempts'[u] = a
    BY DEF OneStartedAttempt
  <1>1. CASE <<u, a>> = <<t, n>>
    BY <1>1 DEF TypeInv, TypeOK
  <1>2. CASE <<u, a>> # <<t, n>>
    <2>1. attemptRow'[<<u, a>>] = attemptRow[<<u, a>>]
      BY <1>2 DEF TypeInv, TypeOK
    <2> QED BY <1>2, <2>1 DEF OneStartedAttempt
  <1> QED BY <1>1, <1>2

LEMMA AttemptFails ==
    ASSUME TypeInv, OneStartedAttempt, NEW t \in TaskIds, NEW n \in Attempts,
           FailOrRetry(t, n), attemptRow' = [attemptRow EXCEPT ![<<t, n>>] = "failed"],
           task[t] = "in_progress" => attempts[t] = n,
           \A u \in TaskIds : u # t => attempts'[u] = attempts[u]
    PROVE  OneStartedAttempt'
  BY AttemptEnds, FailOrRetryType

LEMMA AttemptSucceeds ==
    ASSUME TypeInv, OneStartedAttempt, NEW t \in TaskIds, NEW a \in Attempts,
           Succeeds(t, a), task'[t] = "succeeded",
           \A u \in TaskIds :
              u # t => task'[u] = "in_progress" <=> task[u] = "in_progress"
    PROVE  OneStartedAttempt'
  BY AttemptEnds DEF Succeeds, owns_active_lease

LEMMA NextAttempt == TypeInv /\ OneStartedAttempt /\ [Next]_vars => OneStartedAttempt'
  <1> SUFFICES ASSUME TypeInv, OneStartedAttempt, [Next]_vars PROVE OneStartedAttempt'
    OBVIOUS
  <1> USE ConstantsOK
  <1>1. ASSUME NEW t, create_task(t), UNCHANGED <<attempts, attemptRow>>
        PROVE  OneStartedAttempt'
    BY <1>1, OtherTasksKeepAttempts DEF create_task, TypeInv, TypeOK
  <1>2. CASE UNCHANGED <<task, attempts, attemptRow>>
    BY <1>2 DEF OneStartedAttempt
  <1>3. ASSUME NEW t \in TaskIds, Prepare(t) PROVE OneStartedAttempt'
    <2>1. attempts[t] + 1 \in Attempts
      BY <1>3 DEF Prepare, can_dispatch, TypeInv, TypeOK, AttemptBudget, Attempts
    <2>2. ASSUME NEW u \in TaskIds, NEW a \in Attempts
          PROVE  attemptRow'[<<u, a>>] = "started"
                   <=> task'[u] = "in_progress" /\ attempts'[u] = a
      <3>1. /\ task' = [task EXCEPT ![t] = "in_progress"]
            /\ attempts' = [attempts EXCEPT ![t] = attempts[t] + 1]
            /\ attemptRow' = [attemptRow EXCEPT ![<<t, attempts[t] + 1>>] = "started"]
            /\ task[t] = "pending"
        BY <1>3 DEF Prepare, can_dispatch
      <3>2. CASE u = t
        BY <2>1, <3>1, <3>2 DEF OneStartedAttempt, TypeInv, TypeOK
      <3>3. CASE u # t
        <4>1. attemptRow'[<<u, a>>] = attemptRow[<<u, a>>]
          BY <3>1, <3>3 DEF TypeInv, TypeOK
        <4>2. task'[u] = task[u] /\ attempts'[u] = attempts[u]
          BY <3>1, <3>3 DEF TypeInv, TypeOK
        <4> QED BY <4>1, <4>2 DEF OneStartedAttempt
      <3> QED BY <3>2, <3>3
    <2> QED BY <2>2 DEF OneStartedAttempt
  <1>4. ASSUME NEW t \in TaskIds, PreflightFailure(t) PROVE OneStartedAttempt'
    <2>1. attempts[t] + 1 \in Attempts /\ task[t] = "pending"
      BY <1>4 DEF PreflightFailure, can_dispatch, TypeInv, TypeOK, AttemptBudget, Attempts
    <2>2. \A u \in TaskIds : u # t => attempts'[u] = attempts[u]
      BY <1>4 DEF PreflightFailure, TypeInv, TypeOK
    <2> QED BY <1>4, <2>1, <2>2, AttemptFails DEF PreflightFailure
  <1>5. ASSUME NEW t \in TaskIds, RecoverStale(t) PROVE OneStartedAttempt'
    <2>1. attempts[t] \in Attempts
      BY <1>5 DEF RecoverStale, lease_is_expired, TypeInv, TypeOK, AttemptBudget, Attempts
    <2> QED BY <1>5, <2>1, AttemptFails DEF RecoverStale
  <1>6. ASSUME NEW t \in TaskIds, NEW a \in Attempts, FinalizeFailure(t, a)
        PROVE  OneStartedAttempt'
    BY <1>6, AttemptFails DEF FinalizeFailure, owns_active_lease
  <1>7. ASSUME NEW c \in Configs, NEW g \in Generations, NEW a \in Attempts,
               CompleteRevoke(c, g, a)
        PROVE  OneStartedAttempt'
    <2>1. Revoke(c, g) \in TaskIds
      BY TaskIdForms
    <2>2. task' = [task EXCEPT ![Revoke(c, g)] = "succeeded"] /\ Succeeds(Revoke(c, g), a)
      BY <1>7 DEF CompleteRevoke
    <2> QED BY <2>1, <2>2, AttemptSucceeds DEF TypeInv, TypeOK
  <1>8. ASSUME NEW c \in Configs, NEW g \in Generations, NEW a \in Attempts,
               CompleteProvision(c, g, a)
        PROVE  OneStartedAttempt'
    <2> DEFINE t == Provision(c, g)
    <2>1. t \in TaskIds /\ Succeeds(t, a)
      BY <1>8, TaskIdForms DEF CompleteProvision
    <2>2. ASSUME NEW h, CompleteAndFollowUp(t, Revoke(c, h)) PROVE OneStartedAttempt'
      <3>1. Revoke(c, h) # t
        BY DEF Revoke, Provision
      <3>2. /\ task'[t] = "succeeded"
            /\ \A u \in TaskIds :
                  u # t => task'[u] = "in_progress" <=> task[u] = "in_progress"
        BY <2>1, <2>2, <3>1 DEF CompleteAndFollowUp, TypeInv, TypeOK
      <3> QED BY <2>1, <3>2, AttemptSucceeds
    <2>3. CASE task' = [task EXCEPT ![t] = "succeeded"]
      BY <2>1, <2>3, AttemptSucceeds DEF TypeInv, TypeOK
    <2> QED BY <1>8, <2>2, <2>3 DEF CompleteProvision
  <1>9. CASE \/ PeriodChanges \/ SubscriptionEnds
             \/ \E t \in TaskIds : \/ DeferUnavailableNode(t)
                                   \/ RetryDelayOver(t) \/ LeaseRunsOut(t)
             \/ \E t \in TaskIds, a \in Attempts :
                   Remote(t, a) \/ FinalizeStaleAttempt(t, a)
             \/ UNCHANGED vars
    <2>1. UNCHANGED <<task, attempts, attemptRow>>
      BY <1>9 DEF PeriodChanges, SubscriptionEnds,
         DeferUnavailableNode, RetryDelayOver, LeaseRunsOut, Remote,
         NodeSucceeds, NodeFails, OvertakenProvision, RequestLost,
           CallTimesOut, WorkerCrashes,
         FinalizeStaleAttempt, vars, taskVars
    <2> QED BY <1>2, <2>1
  <1>10. CASE \/ \E c \in Configs : ProvisionVpn(c)
              \/ \E c \in Configs, r \in RevokeReason : RevokeVpn(c, r)
    BY <1>1, <1>10 DEF ProvisionVpn, RevokeVpn
  <1> QED
    BY <1>3, <1>4, <1>5, <1>6, <1>7, <1>8, <1>9, <1>10 DEF Next, Dispatch

\* A late worker never closes the row of its successor, and recovery leaves
\* none open: exactly the running attempt of a task in progress is started,
\* for every number of attempts.
THEOREM AttemptsAreAccounted == Spec => []OneStartedAttempt
  <1>1. Init => OneStartedAttempt
    BY DEF Init, OneStartedAttempt
  <1> QED BY <1>1, InitType, NextType, NextAttempt, PTL DEF Spec
-----------------------------------------------------------------------------
(* Every task is work under a lease.                                       *)

Workers(calls, t) == [a \in Attempts |-> WorkerState(calls[<<t, a>>])]

\* Only a task in progress has a lease, and nobody works for an attempt that
\* has not been made.
LeaseInv ==
    \A t \in TaskIds :
        /\ leaseLive[t] => task[t] = "in_progress"
        /\ \A a \in Attempts : a > attempts[t] => call[<<t, a>>] = "none"

LeasedStep(t) == UNCHANGED Leased(t)!vars \/ Leased(t)!Next

\* A step that changes nothing that the lease of u is about.
LEMMA LeaseQuiet ==
    ASSUME NEW u \in TaskIds, TaskState(task'[u]) = TaskState(task[u]),
           attempts'[u] = attempts[u], leaseLive'[u] = leaseLive[u],
           \A a \in Attempts : call'[<<u, a>>] = call[<<u, a>>]
    PROVE  LeasedStep(u)
  <1>1. \A a \in Attempts : WorkerState(call'[<<u, a>>]) = WorkerState(call[<<u, a>>])
    BY DEF WorkerState
  <1> QED BY <1>1 DEF LeasedStep, Leased!vars

\* The call of attempt a of task t changes, and no other.
LEMMA OneCallChanges ==
    ASSUME TypeInv, NEW t \in TaskIds, NEW a \in Attempts,
           NEW p \in {"waiting", "succeeded", "failed", "closed"},
           call' = [call EXCEPT ![<<t, a>>] = p]
    PROVE  /\ call'[<<t, a>>] = p
           /\ \A u \in TaskIds, b \in Attempts :
                 u # t \/ b # a => call'[<<u, b>>] = call[<<u, b>>]
           /\ Workers(call', t) = [Workers(call, t) EXCEPT ![a] = WorkerState(p)]
  <1>1. /\ call'[<<t, a>>] = p
        /\ \A u \in TaskIds, b \in Attempts :
              u # t \/ b # a => call'[<<u, b>>] = call[<<u, b>>]
    BY DEF TypeInv, TypeOK
  <1> DEFINE W == [Workers(call, t) EXCEPT ![a] = WorkerState(p)]
  <1>2. Workers(call', t) = [b \in Attempts |-> WorkerState(call'[<<t, b>>])]
    BY Zenon DEF Workers
  <1>3. W = [b \in Attempts |-> IF b = a THEN WorkerState(p)
                                ELSE WorkerState(call[<<t, b>>])]
    BY DEF Workers
  <1>4. \A b \in Attempts :
           WorkerState(call'[<<t, b>>]) = IF b = a THEN WorkerState(p)
                                          ELSE WorkerState(call[<<t, b>>])
    BY <1>1
  <1>5. Workers(call', t) = W
    BY <1>2, <1>3, <1>4, Zenon
  <1> QED BY <1>1, <1>5

LEMMA LeaseOfWorker ==
    ASSUME TypeInv, LeaseInv, NEW t \in TaskIds, NEW a \in Attempts,
           Remote(t, a) \/ FinalizeStaleAttempt(t, a), NEW u \in TaskIds
    PROVE  LeasedStep(u)
  <1>1. UNCHANGED <<task, attempts, leaseLive>>
    BY DEF Remote, NodeSucceeds, NodeFails, OvertakenProvision, RequestLost,
       CallTimesOut, WorkerCrashes, FinalizeStaleAttempt, taskVars
  <1>2. TaskState(task'[u]) = TaskState(task[u])
    BY <1>1 DEF TaskState
  <1>3. CASE call' = call
    BY <1>1, <1>2, <1>3, LeaseQuiet
  <1>4. CASE call' # call
    <2>1. PICK p \in {"succeeded", "failed", "closed"} :
             /\ call' = [call EXCEPT ![<<t, a>>] = p]
             /\ call[<<t, a>>] \in {"waiting", "succeeded", "failed"}
             /\ call[<<t, a>>] = "failed" => p = "closed"
      BY <1>4 DEF Remote, NodeSucceeds, NodeFails, OvertakenProvision,
         RequestLost, CallTimesOut, WorkerCrashes, FinalizeStaleAttempt,
         Answer, Answered, Close, TypeInv, TypeOK
    <2>2. CASE u # t
      BY <1>1, <1>2, <2>1, <2>2, OneCallChanges, LeaseQuiet
    <2>3. CASE u = t
      <3>1. Workers(call', t) = [Workers(call, t) EXCEPT ![a] = WorkerState(p)]
        BY <2>1, OneCallChanges
      <3>2. /\ Workers(call, t)[a] # "idle"
            /\ WorkerState(p) \in {"idle", "succeeded", "failed"}
            /\ Workers(call, t)[a] = "failed" => WorkerState(p) = "idle"
        BY <2>1 DEF Workers, WorkerState
      <3>3. Workers(call', t)[a] = WorkerState(p)
        BY <3>1 DEF Workers
      <3>4. Leased(t)!Work(a)
        BY <1>1, <1>2, <2>3, <3>1, <3>2, <3>3 DEF Workers, WorkerState, Leased!Work, Leased!Set
      <3> QED BY <2>3, <3>4 DEF LeasedStep, Leased!Next
    <2> QED BY <2>2, <2>3
  <1> QED BY <1>3, <1>4

LEMMA LeaseOfPrepare ==
    ASSUME TypeInv, LeaseInv, NEW t \in TaskIds, Prepare(t), NEW u \in TaskIds
    PROVE  LeasedStep(u)
  <1> DEFINE a == attempts[t] + 1
  <1>1. a \in Attempts
    BY ConstantsOK DEF Prepare, can_dispatch, TypeInv, TypeOK, AttemptBudget,
       Attempts
  <1>2. call' = [call EXCEPT ![<<t, a>>] = "waiting"]
    BY DEF Prepare
  <1>3. CASE u # t
    <2>1. /\ attempts'[u] = attempts[u] /\ leaseLive'[u] = leaseLive[u]
          /\ TaskState(task'[u]) = TaskState(task[u])
      BY <1>3 DEF Prepare, TypeInv, TypeOK, TaskState
    <2> QED BY <1>1, <1>2, <1>3, <2>1, OneCallChanges, LeaseQuiet
  <1>4. CASE u = t
    <2>1. Workers(call', t) = [Workers(call, t) EXCEPT ![a] = WorkerState("waiting")]
      BY <1>1, <1>2, OneCallChanges
    <2>2. WorkerState("waiting") = "busy"
      BY DEF WorkerState
    <2>3. \A b \in Attempts : b > attempts[t] => Workers(call, t)[b] = "idle"
      BY DEF LeaseInv, WorkerState, Workers
    <2>4. /\ TaskState(task[t]) = "open" /\ TaskState(task'[t]) = "held"
          /\ attempts'[t] = a /\ leaseLive'[t] = TRUE
      BY DEF Prepare, can_dispatch, TaskState, TypeInv, TypeOK
    <2>5. Leased(t)!Take
      BY <1>1, <2>1, <2>2, <2>3, <2>4 DEF Workers, WorkerState, Leased!Take, Leased!Set
    <2> QED BY <1>4, <2>5 DEF LeasedStep, Leased!Next
  <1> QED BY <1>3, <1>4

\* Success, retry or failure is recorded by the worker of the attempt.
LEMMA LeaseOfEnd ==
    ASSUME TypeInv, LeaseInv, NEW t \in TaskIds, NEW a \in Attempts,
           owns_active_lease(t, a), Close(t, a), attempts' = attempts,
           leaseLive' = [leaseLive EXCEPT ![t] = FALSE],
           \/ call[<<t, a>>] = "succeeded" /\ task'[t] = "succeeded"
           \/ call[<<t, a>>] = "failed" /\ task'[t] \in {"pending", "failed"},
           NEW u \in TaskIds, u # t => TaskState(task'[u]) = TaskState(task[u])
    PROVE  LeasedStep(u)
  <1>1. CASE u # t
    <2>1. leaseLive'[u] = leaseLive[u]
      BY <1>1 DEF TypeInv, TypeOK
    <2>2. \A b \in Attempts : call'[<<u, b>>] = call[<<u, b>>]
      BY <1>1, OneCallChanges DEF Close
    <2> QED BY <1>1, <2>1, <2>2, LeaseQuiet
  <1>2. CASE u = t
    <2>1. Workers(call', t) = [Workers(call, t) EXCEPT ![a] = WorkerState("closed")]
      BY OneCallChanges DEF Close
    <2>2. WorkerState("closed") = "idle"
      BY DEF WorkerState
    <2>3. /\ TaskState(task[t]) = "held" /\ attempts[t] = a
          /\ leaseLive[t] = TRUE /\ leaseLive'[t] = FALSE
      BY DEF owns_active_lease, TaskState, TypeInv, TypeOK
    <2>4. CASE call[<<t, a>>] = "succeeded" /\ task'[t] = "succeeded"
      <3>1. Workers(call, t)[a] = "succeeded" /\ TaskState(task'[t]) = "succeeded"
        BY <2>4 DEF Workers, WorkerState, TaskState
      <3>2. Leased(t)!Succeed
        BY <2>1, <2>2, <2>3, <3>1 DEF Workers, WorkerState, Leased!Succeed, Leased!Set
      <3> QED BY <1>2, <3>2 DEF LeasedStep, Leased!Next
    <2>5. CASE call[<<t, a>>] = "failed" /\ task'[t] \in {"pending", "failed"}
      <3>1. Workers(call, t)[a] = "failed" /\ TaskState(task'[t]) \in {"open", "failed"}
        BY <2>5 DEF Workers, WorkerState, TaskState
      <3>2. Leased(t)!GiveUp
        BY <2>1, <2>2, <2>3, <3>1 DEF Workers, WorkerState, Leased!GiveUp, Leased!Set
      <3> QED BY <1>2, <3>2 DEF LeasedStep, Leased!Next
    <2> QED BY <2>4, <2>5
  <1> QED BY <1>1, <1>2

\* An attempt is spent without a call, or its lease has run out.
LEMMA LeaseOfFailure ==
    ASSUME TypeInv, LeaseInv, NEW t \in TaskIds,
           PreflightFailure(t) \/ RecoverStale(t), NEW u \in TaskIds
    PROVE  LeasedStep(u)
  <1> USE ConstantsOK
  <1>1. PICK n \in Attempts : FailOrRetry(t, n)
    BY DEF PreflightFailure, RecoverStale, can_dispatch, lease_is_expired,
       TypeInv, TypeOK, AttemptBudget, Attempts
  <1>2. /\ call' = call /\ leaseLive' = [leaseLive EXCEPT ![t] = FALSE]
        /\ ~leaseLive[t]
        /\ \A v \in TaskIds :
              v # t => task'[v] = task[v] /\ attempts'[v] = attempts[v]
        /\ task'[t] \in {"pending", "failed"}
    BY <1>1, FailOrRetryType DEF PreflightFailure, RecoverStale, can_dispatch,
       lease_is_expired, FailOrRetry, LeaseInv, TypeInv, TypeOK
  <1>3. \A v \in TaskIds : leaseLive'[v] = leaseLive[v]
    BY <1>2 DEF TypeInv, TypeOK
  <1>4. Workers(call', u) = Workers(call, u)
    BY <1>2 DEF Workers, WorkerState
  <1>5. CASE u # t
    <2>1. TaskState(task'[u]) = TaskState(task[u])
      BY <1>2, <1>5 DEF TaskState
    <2> QED BY <1>2, <1>3, <1>5, <2>1, LeaseQuiet
  <1>6. CASE u = t
    <2>1. TaskState(task'[t]) \in {"open", "failed"}
      BY <1>2 DEF TaskState
    <2>2. CASE PreflightFailure(t)
      <3>1. TaskState(task[t]) = "open" /\ attempts'[t] = attempts[t] + 1
        BY <2>2 DEF PreflightFailure, can_dispatch, TaskState, TypeInv, TypeOK
      <3>2. Leased(t)!Spend
        BY <1>3, <1>4, <1>6, <2>1, <3>1 DEF Workers, WorkerState, Leased!Spend
      <3> QED BY <1>6, <3>2 DEF LeasedStep, Leased!Next
    <2>3. CASE RecoverStale(t)
      <3>1. TaskState(task[t]) = "held" /\ attempts'[t] = attempts[t] /\ ~leaseLive[t]
        BY <2>3 DEF RecoverStale, lease_is_expired, TaskState, TypeInv, TypeOK
      <3>2. Leased(t)!Recover
        BY <1>3, <1>4, <1>6, <2>1, <3>1 DEF Workers, WorkerState, Leased!Recover
      <3> QED BY <1>6, <3>2 DEF LeasedStep, Leased!Next
    <2> QED BY <2>2, <2>3
  <1> QED BY <1>5, <1>6

LEMMA LeaseOfSuccess ==
    ASSUME TypeInv, LeaseInv, NEW c \in Configs, NEW g \in Generations,
           NEW a \in Attempts, CompleteProvision(c, g, a) \/ CompleteRevoke(c, g, a),
           NEW u \in TaskIds
    PROVE  LeasedStep(u)
  <1>1. CASE CompleteRevoke(c, g, a)
    <2> DEFINE t == Revoke(c, g)
    <2>1. t \in TaskIds /\ Succeeds(t, a) /\ task' = [task EXCEPT ![t] = "succeeded"]
      BY <1>1, TaskIdForms DEF CompleteRevoke
    <2>2. task'[t] = "succeeded" /\ (u # t => task'[u] = task[u])
      BY <2>1 DEF TypeInv, TypeOK
    <2> HIDE DEF t
    <2> QED BY <2>1, <2>2, LeaseOfEnd DEF Succeeds, accepts_remote_status
  <1>2. CASE CompleteProvision(c, g, a)
    <2> DEFINE t == Provision(c, g)
    <2>1. t \in TaskIds /\ Succeeds(t, a)
      BY <1>2, TaskIdForms DEF CompleteProvision
    <2>2. ASSUME NEW h, CompleteAndFollowUp(t, Revoke(c, h))
          PROVE  /\ task'[t] = "succeeded"
                 /\ u # t => TaskState(task'[u]) = TaskState(task[u])
      <3>1. Revoke(c, h) # t
        BY DEF Revoke, Provision
      <3> QED BY <2>1, <2>2, <3>1 DEF CompleteAndFollowUp, TypeInv, TypeOK, TaskState
    <2>3. task' = [task EXCEPT ![t] = "succeeded"]
             => task'[t] = "succeeded" /\ (u # t => task'[u] = task[u])
      BY <2>1 DEF TypeInv, TypeOK
    <2>4. /\ task'[t] = "succeeded"
          /\ u # t => TaskState(task'[u]) = TaskState(task[u])
      BY <1>2, <2>2, <2>3 DEF CompleteProvision
    <2> HIDE DEF t
    <2> QED BY <2>1, <2>4, LeaseOfEnd DEF Succeeds, accepts_remote_status
  <1> QED BY <1>1, <1>2

LEMMA LeaseOfClock ==
    ASSUME TypeInv, LeaseInv, NEW t \in TaskIds, LeaseRunsOut(t), NEW u \in TaskIds
    PROVE  LeasedStep(u)
  <1>1. UNCHANGED <<task, attempts, call>>
    BY DEF LeaseRunsOut
  <1>2. CASE u # t
    <2>1. leaseLive'[u] = leaseLive[u]
      BY <1>2 DEF LeaseRunsOut, TypeInv, TypeOK
    <2> QED BY <1>1, <2>1, LeaseQuiet
  <1>3. CASE u = t
    <2>1. leaseLive[t] = TRUE /\ leaseLive'[t] = FALSE
      BY DEF LeaseRunsOut, TypeInv, TypeOK
    <2>2. Leased(t)!Expire
      BY <1>1, <2>1 DEF Leased!Expire
    <2> QED BY <1>3, <2>2 DEF LeasedStep, Leased!Next
  <1> QED BY <1>2, <1>3

LEMMA LeaseOfRows ==
    ASSUME TypeInv, NEW u \in TaskIds,
           \/ PeriodChanges \/ SubscriptionEnds
           \/ \E c \in Configs : ProvisionVpn(c)
           \/ \E c \in Configs, r \in RevokeReason : RevokeVpn(c, r)
           \/ \E t \in TaskIds : DeferUnavailableNode(t) \/ RetryDelayOver(t)
           \/ UNCHANGED vars
    PROVE  LeasedStep(u)
  <1>1. UNCHANGED <<attempts, leaseLive, call>>
    BY DEF PeriodChanges, SubscriptionEnds, ProvisionVpn, RevokeVpn,
       DeferUnavailableNode, RetryDelayOver, vars, taskVars
  <1>2. ASSUME NEW t, create_task(t) PROVE TaskState(task'[u]) = TaskState(task[u])
    BY <1>2 DEF create_task, TaskState, TypeInv, TypeOK
  <1>3. TaskState(task'[u]) = TaskState(task[u])
    BY <1>2 DEF PeriodChanges, SubscriptionEnds, ProvisionVpn, RevokeVpn,
       DeferUnavailableNode, RetryDelayOver, vars, taskVars
  <1> QED BY <1>1, <1>3, LeaseQuiet

LEMMA StepIsLeased ==
    ASSUME TypeInv, LeaseInv, [Next]_vars, NEW u \in TaskIds
    PROVE  LeasedStep(u)
  <1>1. CASE \E t \in TaskIds, a \in Attempts : FinalizeFailure(t, a)
    <2>1. PICK t \in TaskIds, a \in Attempts : FinalizeFailure(t, a)
      BY <1>1
    <2>2. /\ owns_active_lease(t, a) /\ Close(t, a) /\ attempts' = attempts
          /\ call[<<t, a>>] = "failed" /\ FailOrRetry(t, a)
      BY <2>1 DEF FinalizeFailure, owns_active_lease
    <2>3. /\ task'[t] \in {"pending", "failed"} /\ (u # t => task'[u] = task[u])
          /\ leaseLive' = [leaseLive EXCEPT ![t] = FALSE]
      BY <2>2, FailOrRetryType DEF FailOrRetry
    <2> QED BY <2>2, <2>3, LeaseOfEnd
  <1> QED
    BY <1>1, LeaseOfRows, LeaseOfPrepare, LeaseOfFailure, LeaseOfWorker,
       LeaseOfSuccess, LeaseOfClock DEF Next, Dispatch

\* A task that loses or keeps its lease, and calls that go on.
LEMMA LeaseInvKept ==
    ASSUME TypeInv, LeaseInv, attempts' = attempts,
           \A u \in TaskIds : leaseLive'[u] => leaseLive[u] /\ task'[u] = task[u],
           \A u \in TaskIds, b \in Attempts :
              call[<<u, b>>] = "none" => call'[<<u, b>>] = "none"
    PROVE  LeaseInv'
  BY DEF LeaseInv

LEMMA NextLease ==
    ASSUME TypeInv, LeaseInv, [Next]_vars
    PROVE  LeaseInv'
  <1> USE ConstantsOK
  <1>1. ASSUME NEW t, create_task(t), UNCHANGED <<attempts, leaseLive, call>>
        PROVE  LeaseInv'
    <2>1. \A u \in TaskIds : task[u] = "in_progress" => task'[u] = task[u]
      BY <1>1 DEF create_task, TypeInv, TypeOK
    <2> QED BY <1>1, <2>1 DEF LeaseInv
  <1>2. ASSUME NEW t \in TaskIds, Prepare(t) PROVE LeaseInv'
    <2>1. attempts[t] + 1 \in Attempts
      BY <1>2 DEF Prepare, can_dispatch, TypeInv, TypeOK, AttemptBudget, Attempts
    <2>2. /\ call' = [call EXCEPT ![<<t, attempts[t] + 1>>] = "waiting"]
          /\ \A u \in TaskIds :
                /\ u # t => /\ task'[u] = task[u] /\ leaseLive'[u] = leaseLive[u]
                            /\ attempts'[u] = attempts[u]
                /\ u = t => task'[u] = "in_progress" /\ attempts'[u] = attempts[u] + 1
      BY <1>2 DEF Prepare, TypeInv, TypeOK
    <2>3. \A u \in TaskIds, b \in Attempts :
             u # t \/ b # attempts[t] + 1 => call'[<<u, b>>] = call[<<u, b>>]
      BY <2>1, <2>2, OneCallChanges
    <2>4. \A u \in TaskIds : attempts[u] \in Nat
      BY DEF TypeInv, TypeOK
    <2> QED BY <2>1, <2>2, <2>3, <2>4 DEF LeaseInv, Attempts
  <1>3. ASSUME NEW t \in TaskIds, PreflightFailure(t) \/ RecoverStale(t)
        PROVE  LeaseInv'
    <2>1. PICK n \in Attempts : FailOrRetry(t, n)
      BY <1>3 DEF PreflightFailure, RecoverStale, can_dispatch, lease_is_expired,
         TypeInv, TypeOK, AttemptBudget, Attempts
    <2>2. \A u \in TaskIds : leaseLive'[u] => leaseLive[u] /\ task'[u] = task[u]
      BY <2>1, FailOrRetryType DEF FailOrRetry, TypeInv, TypeOK
    <2>3. /\ call' = call
          /\ \A u \in TaskIds : attempts[u] \in Nat /\ attempts'[u] >= attempts[u]
      BY <1>3 DEF PreflightFailure, RecoverStale, TypeInv, TypeOK
    <2>4. \A u \in TaskIds : attempts'[u] \in Nat
      BY <1>3 DEF PreflightFailure, RecoverStale, TypeInv, TypeOK
    <2> QED BY <2>2, <2>3, <2>4 DEF LeaseInv, Attempts
  <1>4. ASSUME NEW t \in TaskIds, NEW a \in Attempts, owns_active_lease(t, a),
               Answered(t, a), Close(t, a), attempts' = attempts,
               leaseLive' = [leaseLive EXCEPT ![t] = FALSE],
               \A u \in TaskIds :
                  u # t /\ task[u] = "in_progress" => task'[u] = task[u]
        PROVE  LeaseInv'
    <2>1. \A u \in TaskIds : leaseLive'[u] => leaseLive[u] /\ task'[u] = task[u]
      BY <1>4 DEF LeaseInv, TypeInv, TypeOK
    <2>2. \A u \in TaskIds, b \in Attempts :
             call[<<u, b>>] = "none" => call'[<<u, b>>] = "none"
      BY <1>4 DEF Close, Answered, TypeInv, TypeOK
    <2> QED BY <1>4, <2>1, <2>2, LeaseInvKept
  <1>5. ASSUME NEW t \in TaskIds, NEW a \in Attempts, FinalizeFailure(t, a)
        PROVE  LeaseInv'
    <2>1. /\ owns_active_lease(t, a) /\ Answered(t, a) /\ Close(t, a)
          /\ attempts' = attempts /\ FailOrRetry(t, a)
      BY <1>5 DEF FinalizeFailure, owns_active_lease, Answered
    <2>2. /\ leaseLive' = [leaseLive EXCEPT ![t] = FALSE]
          /\ \A u \in TaskIds : u # t => task'[u] = task[u]
      BY <2>1, FailOrRetryType DEF FailOrRetry
    <2> QED BY <1>4, <2>1, <2>2
  <1>6. ASSUME NEW c \in Configs, NEW g \in Generations, NEW a \in Attempts,
               CompleteProvision(c, g, a) \/ CompleteRevoke(c, g, a)
        PROVE  LeaseInv'
    <2>1. ASSUME NEW t \in TaskIds, Succeeds(t, a),
                 \A u \in TaskIds :
                    u # t /\ task[u] = "in_progress" => task'[u] = task[u]
          PROVE  LeaseInv'
      BY <1>4, <2>1 DEF Succeeds, accepts_remote_status, Answered
    <2>2. ASSUME NEW t \in TaskIds, Succeeds(t, a), NEW f,
                 \/ task' = [task EXCEPT ![t] = "succeeded"]
                 \/ CompleteAndFollowUp(t, f)
          PROVE  LeaseInv'
      BY <2>1, <2>2 DEF CompleteAndFollowUp, TypeInv, TypeOK
    <2>3. CASE CompleteRevoke(c, g, a)
      BY <2>2, <2>3, TaskIdForms DEF CompleteRevoke
    <2>4. CASE CompleteProvision(c, g, a)
      BY <2>2, <2>4, TaskIdForms DEF CompleteProvision
    <2> QED BY <1>6, <2>3, <2>4
  <1>7. ASSUME NEW t \in TaskIds, NEW a \in Attempts,
               Remote(t, a) \/ FinalizeStaleAttempt(t, a)
        PROVE  LeaseInv'
    <2>1. /\ UNCHANGED <<task, attempts, leaseLive>>
          /\ \A u \in TaskIds, b \in Attempts :
                call[<<u, b>>] = "none" => call'[<<u, b>>] = "none"
      BY <1>7 DEF Remote, NodeSucceeds, NodeFails, OvertakenProvision,
         RequestLost, CallTimesOut, WorkerCrashes, FinalizeStaleAttempt,
         Answer, Answered, Close, taskVars, TypeInv, TypeOK
    <2> QED BY <2>1 DEF LeaseInv
  <1>8. ASSUME NEW t \in TaskIds, LeaseRunsOut(t) PROVE LeaseInv'
    BY <1>8 DEF LeaseRunsOut, LeaseInv, TypeInv, TypeOK
  <1>9. CASE \/ PeriodChanges \/ SubscriptionEnds
             \/ \E t \in TaskIds : DeferUnavailableNode(t) \/ RetryDelayOver(t)
             \/ UNCHANGED vars
    BY <1>9 DEF PeriodChanges, SubscriptionEnds, DeferUnavailableNode,
       RetryDelayOver, vars, taskVars, LeaseInv
  <1>10. CASE \/ \E c \in Configs : ProvisionVpn(c)
              \/ \E c \in Configs, r \in RevokeReason : RevokeVpn(c, r)
    BY <1>1, <1>10 DEF ProvisionVpn, RevokeVpn
  <1> QED
    BY <1>2, <1>3, <1>5, <1>6, <1>7, <1>8, <1>9, <1>10 DEF Next, Dispatch

\* Every task is work under a lease, for every number of attempts: success is
\* recorded once, by the worker of the running attempt, for an answer of its
\* own and while its lease runs; nobody else ends an attempt before its lease
\* has run out, and no attempt follows an end.
THEOREM TasksAreLeased == Spec => ImplementsLeasedTask
  <1>1. Init => \A t \in TaskIds : Leased(t)!Init
    BY DEF Init, Leased!Init, TaskState, WorkerState
  <1>2. Init => LeaseInv
    BY DEF Init, LeaseInv
  <1>3. ASSUME TypeInv, LeaseInv, [Next]_vars
        PROVE  [\A t \in TaskIds : \/ UNCHANGED RowAndCalls(t)
                                  \/ UNCHANGED Leased(t)!vars
                                  \/ Leased(t)!Next]_vars
    BY <1>3, StepIsLeased DEF LeasedStep
  <1> QED
    BY <1>1, <1>2, <1>3, InitType, NextType, NextLease, PTL
    DEF Spec, ImplementsLeasedTask
=============================================================================
