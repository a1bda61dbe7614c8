# ProjectVPN: a TLA+ verification development

ProjectVPN (`src/src/shop_bot`) sells VPN subscriptions. Customers order through
a Telegram bot, pay at a payment provider, and get a VPN client on a node (or, on
the legacy path, in a panel). PostgreSQL holds all business state; Redis/ARQ only
delivers jobs and may lose, repeat or delay them. The modules in this directory
model the parts that decide who has access, check them with TLC on small
instances and prove their main invariants with TLAPS for every instance.

## Inventory

| Part | State | Operations | Modelled by |
|---|---|---|---|
| VPN configurations on nodes | `vpn_configurations` (status, desired_state, generation) | `ProvisionVpn`, `RevokeVpn` | `VpnAccess` (abstract), `VpnNode`, `PanelTask` |
| Node tasks | `node_tasks` (status, attempts, lease), `node_task_attempts` | `DispatchNodeTask`: claim, defer, call, finalize, `recover_stale` | `Lease`, `LeasedTask` (abstract), `VpnNode` |
| Node agent, journal retirement | journal of idempotency keys, clients, `journal_retired_at` | provision, revoke, replay, reclaim, retire | `NodeJournal`; as one step in `VpnNode` |
| Invoice creation | `payment_attempts` in status `created` with a lease | `CreatePayment` | `Lease` (abstract), `InvoiceCreation` |
| Payment events | `payment_events`, `payment_orders`, `provider_transactions` | `IngestWebhook`, `ProcessPayment`, `recover_payment_events`, manual settlement | `Entitlement` (abstract), `Settlement` |
| Subscriptions | `subscriptions`, `subscription_periods` | `ActivateSubscription`, refund, expiry | `Settlement` |
| Reconciliation | `maintenance_leases` | `ReconcileSubscriptions` | `Reconciliation`; expiry also in `Settlement` |
| Panel tasks | `panel_provision_tasks`, `panel_revoke_tasks` | dispatch, compensate, recover | `PanelTask` |
| Node health, selection | `node_status`, probe leases, capacity | `SyncNodeStatus`, selection and locking in `ProvisionVpn` | `NodeHealth` |
| Worker, cron, job queue | none of their own | start the use cases | lost, repeated and late jobs, and fairness, in every module |
| Bot, HTTP API, admin panel | none of their own | call the use cases | not modelled (input and output) |

How the parts interact. A paid event makes `ProcessPayment` mark the order paid,
extend the subscription and enqueue provisioning. `ProvisionVpn` writes a
configuration and a node task in one transaction. A worker claims the task in a
second transaction, calls the node outside every transaction, and finalizes in a
third. Expiry, refunds and administrators enqueue revocations, which start a new
*generation* of the configuration; an operation of an older generation may no
longer change it. Cron jobs look for due tasks, expired leases, received events
and anomalies, so that nothing depends on the delivery of a job.

What is hard here: the transaction that claims work and the one that finalizes
it are separated by a call that can time out and still be carried out; leases run
out while their owner is alive; provisioning and revocation of one client race;
notifications arrive twice, out of order, under different keys or before the
identifier they refer to is stored. `PROJECT.json` lists these as hazards, each
at its line, with the properties that would notice it going wrong.

What makes each part correct: a configuration never waits for work that nobody
does, and never claims more than the node has done (`VpnNode`); one invoice per
order is recorded, by the owner of the claim (`InvoiceCreation`); every paid
order grants its time exactly once, only for money received, and loses it only
when it is refunded (`Settlement`); a client in the panel is there while its
configuration is active and gone once it is revoked, as far as the code can know
(`PanelTask`); repairs are made by one run at a time, reach everything that needs
them and do not touch paid access, but for a job that has read its clock before the
payment (`Reconciliation`); a node gets no more
configurations than it has room for, and only while it can serve them
(`NodeHealth`).

## Modelling conventions

* One action is one database transaction, or one thing outside every transaction
  (the call, the node, the provider, the clock). Transactions that lock every row
  they decide on are atomic. Where the code reads a row without a lock and writes
  it later, the read and the write are two actions (`InvoiceCreation`).
* A job carries a row id and may run at any time: its action is enabled whenever
  the row allows it, so loss, repetition and delay of jobs are covered.
* Time is abstracted to the events that matter ("the lease has run out", "the
  retry delay is over"); only `Settlement` has a clock, because periods add up.
* Unique indexes are part of the model where the code relies on them (the identity
  of a node task, the provider's payment id). The others are left out, and a
  property shows that the locks already suffice.
* Operators commented `Mutant:` are plausible bugs. They are used by no action;
  `PROJECT.json` names the definition each stands in for and the property that
  then fails.

## VpnAccess

What the lifecycle of one configuration promises, whichever backend carries it
out: a configuration is created only with current access, turned on only in paid
time and with its client there, its intent only moves towards revocation, each
revocation begins a new generation, and the client of an active configuration is
left alone. `VpnNode` implements it (`ImplementsAccess`, checked by `vpn_replace`
for each of two configurations, proved as `NodeImplementsAccess`). `PanelTask`
implements it too (checked by `panel`, proved as `PanelImplementsAccess`), with one
reservation that is part of the refinement mapping: the panel does not know whose
call it carries out, so a client that was deleted by a worker which had lost its
task counts as there.

Of the subscription it assumes little: one that has ended stays ended, and a
funded period may come and go at any time. That paid time may be under way in a
subscription that has ended is real: the running period of two is refunded, the
expiry job ends the subscription between them, and the later one begins.
`Settlement` keeps to the assumption (`ProvidesAccess`, proved as
`SubscriptionsProvideAccess`): a row of `subscriptions` appears in the initial
state of `VpnAccess`, with a paid period under way, and from then on does what
`AccessChanges` allows. This is what joins the modules of payments to those of
configurations.

## Entitlement

What a customer is promised for one order: once it is settled it buys its days, at
one time and once; they are not moved; they are withdrawn at most once and only
when the refunds have reached the amount. `Settlement` implements it for each
order (`ImplementsEntitlement`, proved as `SettlementImplementsEntitlement`). The
converse, that a full refund always withdraws the days, is not promised: the code
does not keep it (`settle_refund_first`).

## Lease and LeasedTask

Five parts of the program claim a row by writing a token and an expiry into it, call
something outside every transaction, and finalize only if the token is still theirs.
`Lease` says once what they all promise: a row is taken when it is free or its lease
has run out, with a token nobody else works with; it is given back by the holder of
its token or cleared after the expiry; whoever was overtaken changes nothing.

| Module | Token | Holders at work | Checked by | Proved as |
|---|---|---|---|---|
| `InvoiceCreation` | the open attempt of the order | callers of the gateway | `invoice_claim` | `ClaimIsLease` |
| `NodeJournal` | `owner` of each key | handlers of the agent | `journal` | `RowsAreLeased` |
| `NodeHealth` | `token` of each node | probes | `node_health` | `ProbesAreLeased` |
| `Reconciliation` | `owner` of the lease | runs | `reconciliation` | `RunsAreLeased` |
| `VpnNode`, `PanelTask` | the running claim of each task | workers | through `LeasedTask` | `TaskIsLease` |

`LeasedTask` is what the dispatchers add: claims are numbered, each claim has one
worker, success is recorded once and only by the worker of the running claim, for
its own work and while its lease runs, and a task at its end stays there. It
implements `Lease` (`TaskIsLease`); `VpnNode` implements it for every task
(`ImplementsLeasedTask`, checked by `vpn_retry`, proved as `TasksAreLeased`), and
`PanelTask` for its provision and revoke tasks (`PanelTasksAreLeased`). The latter is
a theorem only: TLC takes too long to follow one more refinement in run `panel`.

`InvoiceCreation` implements `Lease` but not `LeasedTask`: it finalizes a claim whose
lease has run out, and by way of `invoice_reclaim` an attempt that was finalized is
replaced as if it had failed. As a lease this is still sound, because the claim
was given back before.

## VpnNode

State: the status, desired state and generation of each configuration of one
subscription, the tasks by physical operation (configuration, operation,
generation), their attempts and leases, the calls as their workers see them, the
requests on the way, the keys the node has completed and the clients it has.

| Action | Code |
|---|---|
| `ProvisionVpn`, `RevokeVpn` | `provision_vpn.py`, `revoke_vpn.py`: the branches that write |
| `Prepare`, `DeferUnavailableNode`, `PreflightFailure` | `DispatchNodeTask._prepare` |
| `NodeSucceeds`, `NodeFails`, `OvertakenProvision`, `RequestLost`, `CallTimesOut`, `WorkerCrashes` | the call, the agent, the worker |
| `FinalizeStaleAttempt`, `FinalizeFailure`, `CompleteProvision`, `CompleteRevoke` | `DispatchNodeTask._finalize` |
| `RecoverStale` | `DispatchNodeTask.recover_stale` |
| `PeriodChanges`, `SubscriptionEnds` | the subscription as seen from here |

The branches of `ProvisionVpn` and `RevokeVpn` that repair a configuration
without a running task are not actions: `TaskFollowsConfiguration`, which is
proved, says that their condition never holds. The agent is one step per
request: it changes the client and records the key, replays a recorded key, or
fails before, during or after the change. `OvertakenProvision` is a handler that
lost its row to a repetition of its request: `NodeJournal` shows that it can still
add the client after the key was recorded, and nothing else. The journal keeps its
records here; `NodeJournal` has the agent in full.

Runs. `vpn_retry` (one configuration, two generations, two attempts) checks the rows,
tasks and client against each other under lost, late and repeated calls, and each task
against `LeasedTask`. Two generations are the smallest number that lets provision and
revoke race, two attempts the smallest with a retry and a boundary. `vpn_replace` has
two configurations and one attempt. `vpn_live` has three generations (a provision, a
failed and a second revocation) and one attempt. Deadlock is not checked: an instance
stops when its last permitted generation has settled.

Fairness (`FairSpec`): `dispatch_due`, `recover_stale` and the reconciliation run
every minute or every few minutes, calls have a timeout, the clock moves: weak
fairness. A dispatch is strongly fair: a node that is unavailable again and again
is not unavailable for ever.

`vpn_late_provision` is a disagreement between the code and its own comment and
test: a provision that succeeds after its configuration was revoked asks for a
"fresh physical operation", but the unique index returns the finished revoke, so
the client stays on the node and nothing looks for it.

## NodeJournal

The agent's side of a task in full: the rows of its journal, the handlers of the
requests that are under way, the client in the node's XUI, and the retirement of
records by the panel. There is one client; key 1 is its provision, the others are
revocations. One action is one transaction of the agent's SQLite database
(`ClaimNew`, `ClaimInProgress`, `ClaimReplay`, `Reclaim`,
`Complete`, `MarkRetryable`, `RetireJournal`), one call of the runtime (`Cleanup`,
`Apply`, `RuntimeFails`), or one step of `RetireNodeJournalRecords`
(`LoadCandidates`, `RetireStops`, `mark_task_journal_retired`). A handler may end
anywhere (`HandlerStops`), and callers that gave up leave their requests behind.

Leases are measured in XUI requests: each is given up after
`request_timeout_seconds`, and the lease of a handler that is alive runs out only
when it may need more of them than `LeaseRequests`. The settings guarantee 3, the
defaults 4, and the longest operation needs 5.

Run. `journal` has two keys, three requests (one that fails, one that repeats it,
one that overtakes), a batch with room for both keys and leases of 3, with fairness
of the minutely job, of an agent that is not unreachable for ever and of a worker
that does not stop in every run. Deadlock is not checked: an instance stops when
its requests are used up. The agent's answer to a key that comes with another body
is left out: the panel sends the stored payload unchanged, so nothing asks for it.

`ExecutingIsOwner` is stated for the handlers whose requests fit in the lease. A
repeated provision does not fit in the lease of 60 seconds that is the default
with timeouts of 15 seconds: it may be overtaken while it is alive, although
`test_node_agent_operation_lease_exceeds_remote_timeout_margin`
(`tests/unit/test_production_config.py`) means to exclude that. It does no harm to
the client, because three requests cover the cleanup (`CompletedProvisionOnNode`;
with a lease of two requests it fails).

Two limits of the retirement protocol are listed as hazards: a request that is
still on the way when its record is retired is carried out again, and records
that a crash leaves in progress keep their place in the batch for ever.

## InvoiceCreation

State: the attempts of one order, the lease of the open claim, the request that
holds the order lock (with what it has read), the processes that own claims and
what the gateway told them. `Read` and `TakeClaim` are the two halves of
`_prepare_order`; `FinalizeOwnedClaim` and `FailOwnedClaim` are the second
transaction, which locks the attempt only. The provider may return an old invoice
for the same idempotency key, make a new one, or make one and lose the answer.

`invoice_claim` uses three attempts and three invoices, so that two superseded
callers can be alive at once. `invoice_reclaim` shows a lost update: a
finalization that commits between `Read` and `TakeClaim` is overwritten. The
attempt is then failed although it carries an invoice, a second claim is open, and
a payment of the first invoice will be ignored as stale.

## Settlement

State: the orders of one user with their attempt and the payment as the provider
knows it, the stored events, refunds, subscriptions, periods and a clock. One
action per transaction of `ProcessPayment` (`RejectEvent`, `IgnoreEvent`,
`ProcessPaid`, `ProcessUnsuccessful`, `ProcessRefund`), one for each of ingestion,
manual settlement and expiry. The kinds of notification are those of YooKassa:
the event key contains the type of the notification and the status fetched when
it arrives, so one payment can be reported as paid under two keys.

The expiry job lists lapsed subscriptions at the time of its batch and ends them
later, one transaction each, looking the period up at the time of the batch
(`ListLapsed`, `ExpireSubscription`). A payment in between does not save the
subscription (`tests/unit/test_vpn_p0_races.py` has it so), and
`RunningAccessIsKept` excepts exactly that case.

`settle` has two orders, two tariffs (symmetric), a price of two so that refunds
can be partial, every notification of one order and the paid one of the other,
and at most three stored events: enough for a paid event, its repetition under
another key and a refund, in any order, beside a manual settlement. Periods run
consecutively, lapse, and are refunded before, during and after, with a clock of
one tick and periods of one. Of the second order only the paid notification is
sent, and only after its payment's identifier is stored (`OtherIsPaid`); whatever else
a payment can do, the first order does. `ReceivedCanBeSettled` says that the recovery job
can always take up a stored event; `recover_payment_events` runs every minute and
at start-up, so a lost job delays an event and no more.

`settle_refund_first` shows that a full refund which is processed before the paid
event leaves the period funded; the code notices the missing period and only
writes an audit event. Two more consequences are visible in the model and
listed as hazards: a paid notification that arrives before the provider's
identifier is stored is rejected for good, and the expiry job ends a subscription
that a refund had kept for the sake of a later funded period.

## PanelTask

The panel keeps no journal, so a provision whose outcome is in doubt is
*compensated*: the client is deleted before it is added again. State: the
configuration, its provision task (task 1) and its revoke tasks (one for each later
generation) with attempts and leases, the flag `compensation_required`, the workers
by task and attempt, and the client in the panel.

| Action | Code |
|---|---|
| `ProvisionVpn`, `RevokeVpn` | their panel branches |
| `PrepareProvision`, `PrepareRevoke` | `_prepare` of the two dispatchers |
| `CallSucceeds`, `CallFails`, `WorkerStops` | the panel, a lost answer, a crash |
| `Finalize` | the transactions after the call: success, late success, failure, end of a compensation |
| `CompensateAfterLocalFailure` | the branch for an error in the transaction that follows a successful call |
| `RecoverProvision`, `RecoverRevoke` | `recover_stale` of the two dispatchers |

`overtaken` remembers which kinds of call were made by a worker that had lost its
task; the panel cannot refuse them, so `ActiveClientInPanel` and
`NoClientAfterRevocation` are stated for behaviours without the kind that would
break them. They still cover every retry, compensation and recovery.
`TaskFollowsConfiguration` is weaker than in `VpnNode`: a dispatcher may cancel a
provision and leave the revocation to the compensation, without a revoke task.

Run `panel`: two generations, two permitted attempts, three claims of the provision
(recovery does not look at `max_attempts`, so one more than permitted) and two of
the revocation. Deadlock is not checked, since claims run out.

## Reconciliation

`ReconcileSubscriptions` with its lease, its paged list of six kinds of anomaly and
the jobs it queues, for one subscription and its latest configuration (entity 1)
among others that are always listed. State: the rows, the queued jobs, the lease
and, for each worker, where its run is, its batch and its cursor. `acquire_lease`,
`renew_lease` and `release_lease` keep the names of the code; `Run` is a step of the
loop: list a batch, end one lapsed subscription, queue one job, go on or stop.
`RunJob` is what a job does to the rows, with the guards of `ProvisionVpn` and
`RevokeVpn`; the tasks themselves are in `VpnNode` and `PanelTask`. The revocations
an administrator forces are there too, and not in this module.

An expiration job reads `now` in `execute`, waits for the lock of the subscription in
`_prepare_plan`, and then looks the period up at that old `now`. What this wait can
change is modelled where it arises: `PeriodBegins` may turn a waiting expiration job
into one that is `overtaken`, which will not find the period that has begun, and
revokes an active configuration although the subscription has access again; when
that period ends the job is like any other (`CaughtUp`). No other case needs a step of
its own: a job that began without a period finds none now either, and one that began
with a period which has lapsed skips, as it would have at its beginning.
`PaidAccessIsKept` excepts exactly the end of an overtaken job, as
`RunningAccessIsKept` excepts an expiry batch listed before the period began; the unit
test `test_stale_expiration_revoke_does_not_revoke_renewed_subscription` runs a job
that begins after the renewal, and does not reach it. The damage passes:
`EntitledIsServed` holds with such jobs, because the reconciliation provisions the
next configuration, unless its revocation fails. (`ProvisionVpn` reads its clock after
the lock.)

Faults: a worker dies and leaves its lease, a run outlives its lease, the queue
refuses a job. `RunsDoNotOverlap` excludes only the second. `ImplementsLease` covers all
three: a run which was overtaken does not take away the lease of its successor.

Run `reconciliation`: two workers, a batch of one, two batches a run and one anomaly
in front that never goes away, so that the cursor must move past it; one fault of
any kind. Fairness: cron starts runs and jobs come to their end (weak), a node has
room and carries tasks out every now and then (strong). `NotCrowdedOut` is a
condition of both liveness properties: each run begins at the front, so anomalies
that stay and fill `batch_size * max_batches_per_run` places hide all others. A
failed revocation of a user who has paid again is repeated by nothing;
`EntitledIsServed` excepts it, and it is listed as a hazard.

## NodeHealth

What the panel knows of its nodes and how it places configurations. State: the
nodes with `node_status`, the claim of a probe (token and lease), the probes and
placements under way, the row locks and the configurations that occupy a slot.
`claim_due_probe_targets`, `finalize_probe`, `upsert_node_status` and
`mark_node_unreachable` are the transactions of `SyncNodeStatus` and its repository,
`sync_node` an administrator's sync, which has no token. A placement is `Select`
(unlocked reads), `LockNode`, `Revalidate`, and `Place` or `PlacementEnds`. The
weighted random choice is a choice among the candidates it may return.

Run `node_health`: one node with two slots, two probes, three placements. With two
nodes the state space is out of TLC's reach; the theorems hold for any number. Fairness:
a node that stays due is claimed and answers in the end (strong), leases of workers
that have gone run out and transactions end (weak). A new node has no status row and
cron does not claim it, so `StaleIsProbed` starts from a node that has a status; and
health is stale after 180 seconds while cron probes every five minutes, so a node is
stale for part of every cycle. Both are listed as hazards.

## Runs at a glance

| Run | Checks | Shows |
|---|---|---|
| `vpn_retry` | `TaskFollowsConfiguration`, `ActiveClientOnNode`, `RevokedWasExecuted`, `AttemptBudget`, `OneStartedAttempt`, `ImplementsLeasedTask` | rows, tasks and client agree through lost, late and repeated calls; refinement of `LeasedTask` |
| `vpn_replace` | `OnlyLatestIsOpen`, `IntentMovesForward`, `ImplementsAccess` | one client at a time, no way back, refinement of `VpnAccess` |
| `vpn_live` | `OperationsSettle`, `LostAccessIsRevoked` | operations end, lost access is revoked |
| `vpn_late_provision` | `LateProvisionIsCleanedUp` | violated: no fresh cleanup |
| `invoice_claim` | `OneOpenClaim`, `LateAnswerIsFenced`, `ImplementsLease` | one claim, late callers are fenced |
| `invoice_reclaim` | `ReclaimOrFinalize` | violated: lost update |
| `settle` | `PaidExactlyOnce`, `GrantedMeansPaid`, `PeriodsDoNotOverlap`, `ReceivedCanBeSettled`, `RunningAccessIsKept`, `ImplementsEntitlement`, `ProvidesAccess` | time is granted once, for money, and not lost; refinement of `Entitlement`, and of what `VpnAccess` assumes |
| `settle_refund_first` | `FullRefundUnfunds` | violated: refund before payment |
| `journal` | `ExecutingIsOwner`, `AnsweredIsRecorded`, `CompletedProvisionOnNode`, `ImplementsLease`, `JournalIsEmptied` | the agent's journal under crashes and retirement |
| `panel` | `TaskFollowsConfiguration`, `ActiveClientInPanel`, `NoClientAfterRevocation`, `ImplementsAccess` | compensation and recovery in the panel |
| `reconciliation` | `RunsDoNotOverlap`, `ImplementsLease`, `PaidAccessIsKept`, `LostAccessIsRemoved`, `EntitledIsServed` | repairs are exclusive and complete; only an overtaken job touches paid access |
| `node_health` | `NoOverbooking`, `PlacedOnUsableNode`, `OvertakenProbeIsDropped`, `ImplementsLease`, `StaleIsProbed` | probes and placements compete for a node |

## Proofs

All theorems are for every value of the constants, from the named assumptions
only (the bounds are positive; at least two generations).

* `VpnNodeProofs`. The invariant has three layers. `TypeInv` is the type invariant
  with the attempt budget (a pending task has an attempt left), which is what
  keeps attempt numbers in range. `CoreInv` adds the shape of intent (a revoked
  intent has a generation above 1, tasks exist only for generations that have been
  reached), `TaskFollowsConfiguration` and `OnlyLatestIsOpen`: each needs the
  others, since a configuration may be replaced only if its predecessor is
  revoked, and a task is fresh only if its generation is new. `NodeInv` relates
  answers, journal and client. Theorems: `TypeCorrect`, `NoStrandedConfiguration`,
  `SingleOpenConfiguration`, `LocalStateIsBacked`, `IntentNeverGoesBack`,
  `AttemptsAreAccounted`, and `NodeImplementsAccess`: every action is, for each
  configuration, a step of `VpnAccess` or a stutter; that the node leaves the
  client of an active row alone is what needs `NodeInv`. `TasksAreLeased` adds
  `LeaseInv`: only a task in progress has a lease, and no call has been made for an
  attempt that has not been made, so that the next claim finds no worker.
* `LeasedTaskProofs`. `TaskIsLease` needs only that a held task has a claim among
  `Claims` (`WorkersInv`); the rest is in the actions of `LeasedTask`.
* `InvoiceCreationProofs`. `OneOpenClaim` is inductive together with: an attempt
  has no invoice before its claim is finalized, and a request that takes over no
  claim has seen none. For
  the lease, what the locked read has seen must stay true until the write: a request
  that holds the order lock has seen no claim with a running lease, and none can
  begin behind it (`NoLiveClaimToTake`); nobody works for an attempt that has not been
  made (`FreshAttempts`). Theorems: `OneClaimPerOrder` (with the types),
  `LateAnswersAreFenced`, `ClaimIsLease`.
* `NodeJournalProofs`. `AnsweredIsRecorded` is inductive with "only terminal tasks
  are being retired", whatever the leases. Ownership rests on `ProtectedOwns`: a
  handler whose calls fit in its lease owns its row and the lease is running, hence
  `HandlersKeepTheirRows`. With `LeaseRequests >= 3` these include every handler
  that deletes, hence `CompletedProvisionIsReal`: an overtaken handler can only add
  the client once more. `RowsAreLeased` holds whatever `LeaseRequests` is: it is
  about who may end a row, not about who keeps it. Theorems: `TypeCorrect`,
  `SuccessStaysRecorded`, `HandlersKeepTheirRows`, `CompletedProvisionIsReal`,
  `RowsAreLeased`.
* `SettlementProofs`. `PaidExactlyOnce` and `GrantedMeansPaid` are inductive with
  "a stored event that can settle an order was true, and stays true". For the
  types, `PeriodInv` bounds the end of every period by the number of paid orders
  (`Horizon`), and for `PeriodsDoNotOverlap` it says that a period belongs to a
  subscription that exists. `PartialRefundKeepsAccess`, which no run checks, rests
  on refunds only growing. For subscriptions and refinement, `StepKinds` reduces every action to one
  of three kinds: it grants an order, it processes a refund, or it leaves the
  periods alone and at most the expiry job ends a subscription. With
  `BatchesArePast` (a batch of the expiry job is not ahead of the clock) a period
  that is under way now and had begun when the batch was made was current then, so
  the job did not pick its subscription up: `RunningAccessEndsForCause`. That an order
  is granted only before it has a period, and loses its funding only at a full
  refund, gives the refinement of `Entitlement`. `EveryEventHasAnOutcome` says of
  every received event that some branch of `ProcessPayment` is open to it. The hard case
  is a payment: the order needs either a last period to extend (`LastPeriods`) or a place
  for a new subscription, and there is one because each subscription was begun by a
  paid order (`SubsAreNumbered`, and the cardinality of the paid orders). Theorems: `TypeCorrect`,
  `EntitlementExactlyOnce`, `NoAccessWithoutMoney`, `PaidTimeIsNotGivenTwice`,
  `PartialRefundsRevokeNothing`, `RunningAccessEndsForCause`,
  `SubscriptionsProvideAccess`, `SettlementImplementsEntitlement`,
  `EveryEventHasAnOutcome`.
* `PanelTaskProofs`. `RowInv` is about rows and tasks. `TaskFollowsConfiguration`
  is not inductive: it needs the shape of intent, tasks only for generations that
  have been reached, and `CompensationDeletes`, that the owner of a provision which
  has to be compensated never adds the client. Without that, the owner could fail
  the task as a provision and leave a row in `revoking` to nobody. `ClientInv` is
  about the panel: what the owner of a task has added is there (`MadeIsThere`), what
  it has deleted is gone (`DeletedIsGone`), each as long as `overtaken` does not
  contain the other kind of call. Only a claim makes an owner and only a call changes
  the client; every other action is a `QuietStep`, in which rows change only with
  what their own worker has done (`RowsFollowWorkers`). For the lease of a task, `FreshClaims` keeps later
  attempts free of workers; a provision counts as work that succeeded while its client
  has been added and not deleted again, so that a compensation ends in a failure.
  Theorems: `TypeCorrect`, `NoStrandedConfiguration`, `ActiveClientIsKept`,
  `RevokedClientIsGone`, `PanelImplementsAccess`, `PanelTasksAreLeased`.
* `ReconciliationProofs`. `OwnerIsAtWork` (without an overrun, who works owns the
  lease and it is running) gives `OneRunAtATime`. `ForceIsForLeaving` (a forced
  revocation is queued, or listed, only while the configuration is already on its
  way out) gives `PaidAccessStays`: besides forced jobs only an overtaken one can
  ignore paid access, and it is over with that step, which is the exception.
  `RunsAreLeased` holds with overruns and crashes: the token tells a run from the one
  that overtook it. Theorems: `TypeCorrect`, `OneRunAtATime`, `RunsAreLeased`,
  `PaidAccessStays`.
* `NodeHealthProofs`. `RoomIsKept` (between the check and the insertion the slot is
  still free, because other placements wait for the lock), `CapacityIsKnown` (the
  stored capacity is unknown or the node's own) and `OvertakenHasNoToken`. For the
  lease, `TokenIsAtWork`: a token in a row is that of a probe which is under way for
  that row, never of one that has gone on to another node.
  Theorems: `TypeCorrect`, `NodesAreNotOverbooked`, `PlacementsAreOnUsableNodes`,
  `LateProbesAreDropped`, `ProbesAreLeased`.

Only model-checked: the liveness properties (`OperationsSettle`,
`LostAccessIsRevoked`, `JournalIsEmptied`, `LostAccessIsRemoved`,
`EntitledIsServed`, `StaleIsProbed`) and `ReceivedCanBeSettled`, since fairness and
`ENABLED` are out of the prover's reach. For `ReceivedCanBeSettled` there is a theorem
that comes close: `EveryEventHasAnOutcome` states it with the guards of the branches
(`HasOutcome`) in place of `ENABLED`; TLC finds the two equal in every reachable state
of the instance of run `settle`. Every other property of a passing run is a theorem.
The three violated properties have counterexamples, not proofs.

## Limits and possible extensions

* `NodeJournal` does not implement the agent of `VpnNode` step by step: the client
  changes at `Apply` and the key is recorded at `Complete`, and a revocation may come in
  between. The two are joined by reading, not by a theorem: `VpnNode` allows what
  `AnsweredIsRecorded` and `CompletedProvisionOnNode` leave possible, an overtaken
  provision included.
* `Settlement` has one payment attempt for each order. `OneOpenClaim` and `ClaimIsLease`
  make that the normal case; `invoice_reclaim` is the exception.

* The dispatchers read the clock of their look at the period (`completed_at`) just
  before the transaction that finalizes a provision; the two are one step in
  `VpnNode`, `PanelTask` and `Reconciliation`. A payment committed in between can
  cancel a provision that is paid for; the reconciliation queues the next one.
* `recover_payment_events` lists 100 events at a time; `Settlement` has fewer.

## Not modelled

Signatures and the store of nonces (cryptography; what a refused request does is in
`NodeJournal` and `VpnNode`). Formats of payloads and of VPN links. The bot's
dialogue, the HTTP API and the admin panel's pages, which keep no state that the
use cases rely on: they call the actions above. Migrations. The creation of tariffs,
servers and endpoints, plain inserts that nothing competes with.
