# ceph-ai: a TLA+ verification project

ceph-ai watches Ceph clusters, asks a language model to diagnose what it finds,
and repairs what policy or an operator allows. Its safety rests on a handful of
protocols between processes that share one SQL database and one RabbitMQ queue:
how a diagnosis request is delivered, who may run a repair, what a restart may
repeat, when an Incident may be called resolved, who may take a node out of
service, and which backups are still there when they are needed. This directory specifies
those protocols in TLA+, checks them with TLC on small instances and proves the
most important properties with TLAPS for all of them. Paths are relative to
`src/`.

## 1. The system

### Processes

| Process | Entry point | Loops |
|---|---|---|
| Watcher | `watcher/main.py` | poll Ceph health, open and close Incidents, publish them, verify repairs |
| Remediation watcher | `watcher/remediation_main.py` | the watcher's remediation-side polls |
| Worker | `worker/main.py` `_main` | supervised loops: incident consumer, delegated-AI consumer, approved-action poller, backup scheduler, RGW audit, Failure Lab, Telegram outbox, incident outbox, heartbeat |
| Dashboard | `dashboard/` (FastAPI) | approve, reject, cancel; the Telegram approval bot does the same |
| Code-repair supervisor | `worker/code_repair_supervisor.py` | repairs and deploys the program itself |

They share the SQL database (`shared/db.py`, SQLite or PostgreSQL; every step
below is one short transaction) and RabbitMQ. Nothing else is shared, so every
interaction is a row somebody else reads, or a message.

### Inventory

| Component | State | Operations | What is hard | What makes it correct |
|---|---|---|---|---|
| Incident delivery: `shared/incident_outbox.py`, `worker/main.py`, `watcher/publisher.py` | `incident_outbox` rows with a producer status, a consumer status, two claim tokens, two leases; the queue and its dead-letter queue | enqueue, claim, publish, mark sent or failed, reconcile; claim consumer, diagnose, done, release, retry, dead-letter | publishes whose outcome is unknown, redelivery, leases ending under their holder, restarts between any two transactions | nothing is lost silently; a settled row stays settled; a new Incident is diagnosed in the end |
| Action lifecycle: `worker/llm/router_client.py`, `dashboard/routes/actions.py`, `shared/incident_actions.py`, `worker/autonomy_runtime.py`, `watcher/verify.py`, `watcher/main.py` | the pair (Incident status, Action status) | propose, route to approval, approve, reject, claim and run, record, verify, resolve, reconcile at start | five writers, no version column, read-check-write transactions, a claim that looks only at the Incident | a rejected Action is not run; an approved one runs once; RESOLVED means the cluster was asked |
| Autonomous execution: `worker/llm/router_client.py` `_maybe_execute_safe_action`, `worker/autonomy_runtime.py` | per-cluster lease, daily counters, cool-downs | check limits, acquire lease, run, record, release, reconcile expired | lease ending under a running command, early returns that skip the release | one autonomous repair per cluster at a time |
| Resolve grace: `watcher/resolve_grace.py` | per-process dictionary of quiet periods | decide, reset | a fault that flaps, a poll gap, a restart | an Incident is closed only after an uninterrupted quiet period |
| Remediation state machine: `shared/remediation_state_machine.py` | none (pure) | transition, recover, canonical state | every path must fail closed | no path to EXECUTING without an authorisation |
| Telegram outbox: `shared/telegram_outbox.py` | `telegram_outbox` rows | enqueue, claim, send, mark, replay | as for incident delivery | an alert is not lost |
| Delegated investigations: `shared/ai_delegation.py`, `worker/delegated_tasks.py` | tasks and subtasks with leases and attempts | claim, renew, run subtasks, aggregate, cancel, watchdog | lease renewal racing take-over and cancellation | a late owner writes nothing |
| AI budget: `shared/ai_budget.py` | reservations | reserve, settle, expire | check-then-act on the sum spent | the hard limit is not passed |
| Backup: `worker/backup/`, `dashboard/routes/backups.py` | `backup_jobs` rows, objects on the targets, snapshots of the image | request, claim, snapshot, export, upload, record, clean up, retain, cancel, restore | an export that fails, is cancelled or dies at any point; cleanup that fails; retention by two counts | the base of the next incremental survives, a failed run leaves nothing, no full that something depends on is deleted |
| Snapshot store and query cache: `shared/cluster_snapshot.py`, `shared/ceph_query_cache.py` | versioned snapshots, cache files, locks | publish, claim refresh, read, invalidate | a stale refresh over a newer one | readers never go back in time |
| Model registry, trust engine, online learning: `shared/model_registry.py`, `shared/trust_engine.py`, `shared/online_learning_consumer.py` | model versions, evidence | register, promote, block, roll back | promotion on stale evidence | a blocked model is not active |
| Failure Lab: `shared/failure_lab_fault.py`, `shared/reproduction_approval.py` | run files, proposals | inject, observe, undo; approve, claim | a crash between injection and undo | one fault at a time, always undone |
| Node upgrade gate: `shared/node_upgrade_gate.py`, `dashboard/routes/upgrade.py`, `worker/executor/cluster_deploy.py` | one lock row per cluster, one gate row per node and attempt with what Prepare did to the cluster | prepare, abort, confirm; approve, reject; the phases and the rollback | two requests at once, phases that take effect and raise, restarts in between, flags that were set before | one node out of service at a time; a failed Prepare is undone, no more and no less |
| Vitastor operations: `vitastor/` | SSH workflows | deploy, upgrade, backup | partial failure across hosts | resumable |
| Dashboard, API, templates, notifications, deployment scripts | | | presentation and I/O | |

## 2. Plan

Modules, in the order of importance. Each has an `MC...` module with the model
values and symmetry sets of its runs.

1. `IncidentDelivery`: outbox, queue, consumer claim. Proofs:
   `IncidentDeliveryProofs`.
2. `ActionLifecycle`: the (Incident, Action) pair and its five writers. Proofs:
   `ActionLifecycleProofs`. `Approval`: what an approval queue promises the
   operator, implemented by `ActionLifecycle`; the refinement is proved with it.
3. `AutonomousExecution`: lease, limits, grace periods, recovery. Proofs:
   `AutonomousExecutionProofs`.
4. `Outbox`: what a transactional outbox promises, implemented by
   `IncidentDelivery`. Proof of the refinement: `OutboxRefinementProofs`.
5. `NodeUpgradeGate`: the lock and the phases of a node's reinstallation. Proofs:
   `NodeUpgradeGateProofs`.
6. `RbdBackup`: requests, exports, cleanup and retention of one image. Proofs:
   `RbdBackupProofs`, and `RbdBackupRetentionProofs` for what retention keeps.

Not written, in this order: `TelegramOutbox` as a second implementation of
`Outbox`; `ResolveGrace` and `RemediationStateMachine`; `DelegatedTasks`,
`AiBudget`, `SnapshotStore`. For the existing modules: what survives of
`OneRunPerApproval` and `ApprovalKept` with several Workers, `OneInTime` without
`NoRepeats`, and the restore process reading a chain that retention thins out.

## 3. The modules and the code

### IncidentDelivery

A step of the model is one database transaction, one call to the broker, or one
loss of it. What a process read in an earlier transaction is in its local state
(`handler[w].seenClaim`, `seenStatus`, `dispatcher[d].seen`).

| Variable | Code |
|---|---|
| `incident`, `verifies` | `incidents.status`, `incidents.verify_attempts` |
| `outbox` | producer columns of `incident_outbox`: status, attempts, claim token, lease |
| `consumer` | its consumer columns: status, claim token, lease |
| `queue`, `dlq` | the durable queue as a bag of (event, retry header), the dead-letter queue |
| `watcher` | the Watcher's fast path after its commit (`watcher/main.py` 370-390) |
| `dispatcher` | `_claim_one`, publish, `_mark_sent`/`_mark_failed`, `reconcile_stale` |
| `handler` | `_handle_message`: claim, load, DIAGNOSING, diagnose, done or failed, republish, ack or reject |

Conditional updates (`UPDATE ... WHERE status ...`) test the current row, a plain
assignment does not: that is where two processes differ from one. A publish may
take effect and still raise, a connection may be lost with deliveries
unacknowledged, and a restart forgets the local state and nothing else.
A message dead-lettered by a failed load stays in `dlq`.

`Outbox` says what this protocol is for, without claims, leases, queues or
handlers: a row is recorded before the broker sees its event, is SENT only when
the broker has accepted the event, what was accepted stays accepted, and only an
accepted event is handled. `IncidentDelivery` implements it as
`Promise == INSTANCE Outbox WITH ...`: `row` merges PENDING and PROCESSING into
DUE; `accepted` is every event that is handled or still *kept* (in the queue,
dead-lettered, or with a handler that will not give it up); `done` is `handled`.
`accepted` is not a variable of the code: that it never shrinks is what `NoSilentLoss`
is about, and the refinement fails as soon as a handler lets go of the last copy.

### ActionLifecycle

| Variable | Code |
|---|---|
| `incident`, `action`, `verifies` | `incidents.status`, `actions.status`, `incidents.verify_attempts` |
| `fault` | whether Ceph reports the check now; it changes at any time |
| `messages` | diagnosis requests not yet acknowledged |
| `handler` | `diagnose_incident` and what it writes (`write_diagnosing`, `propose`, `restore`, `route`, `route_raises`, `diagnosis_raises`) |
| `poller` | `_execute_approved_action`: load, re-check, claim, run, record |
| `operator` | `approve_action_core`, `reject_action_core`: read, SSH conflict check, write |
| `process` | `starting` until `reconcile_interrupted_approved_executions` ran, or failed |
| `approvals`, `runs`, `refused` | history: approvals given and commands started; Incidents whose last diagnosis the database did not let record its outcome |

The Watcher's writers are single transactions: `resolve_recovered`,
`reconcile_terminal`, `verify_passed`, `verify_inconclusive`, `verify_failed`;
`reconcile_stuck_rbd` belongs to the poller's tick. `reuse_pending`, `restore` and
`propose_duplicate` are the three ways in which a diagnosis finds an Action there
already. A database error on the way to DIAGNOSING (`write_refused`), or in the
FAILED that ends a diagnosis (`Refused` in `diagnosis_raises` and `route_raises`),
is only logged, and the message is dead-lettered or acknowledged. The poller's list
of approved identifiers is no step of its own, because every identifier is loaded
again. An insertion that the unique index refuses while an approval is stored is
`approve_refused`. The thread of the backup scheduler
calls the same claim as the poller; to the claim it is one more Worker.

`Approval` says what an approval is for, without Incidents, claims or restarts: a
request waits, is granted, starts its command at most once for that grant, may lose
the grant unused, may be sent back to wait for another one, and stays closed once it
is closed. `ActionLifecycle` implements it for operators' requests as
`Promise == INSTANCE Approval WITH ...`. A grant is still good (`Unused`) while the
pair is (APPROVED, APPROVED), or between the claim and the run of the command;
everything else that is stored as APPROVED (executing, interrupted by a restart, a
result that could not be recorded) is `spent`, and nothing brings it back but a new
approval. That is what the pair of statuses has to tell the claim, and the columns
alone do not say it.

### AutonomousExecution

| Variable | Code |
|---|---|
| `incident`, `action`, `graced` | the two statuses and `actions.grace_until` |
| `lease` | the cluster's row in `autopilot_leases`, and whether `expires_at` is ahead |
| `recent` | Actions with `executed_at` within the hour, which the limit counts |
| `thread` | `_maybe_execute_safe_action`, called by a handler (diagnosis) or by a poller (grace over); also what the poller's `reconcile_expired_executions` has read |
| `cancelling` | an operator who saw GRACE_PENDING and is about to cancel |
| `inTime`, `robbed` | history: threads whose lease has not run out; those of them whose lease a recovery deleted |

`acquire_lease` deletes an expired lease first, whoever holds it; `release_lease`
deletes by Action. `reconcile_expired_executions` is three steps: the EXECUTING row
(`reconcile_read`), the lease of its Action (`reconcile_lease`), and the commit
(`reconcile_write`). The session does not flush early (`shared/db.py:81`), so its
`DELETE` is part of the commit, and names the lease by its primary key, the cluster
(`shared/models.py:696`): it deletes whatever lease the cluster has by then.
`gates_block` stands for every gate before the limits; that a
gate blocks or passes is a choice at each call. `refuse`, `lease_refused` and
`raises` are the early returns and the catch-all, each with what it writes and
with the lease it leaves behind.

### NodeUpgradeGate

| Variable | Code |
|---|---|
| `gate` | `node_upgrade_gates`: host, state, and the journal of Prepare (`flags_added`, MON removed) that `_persist_gate_marker` writes |
| `lock` | `node_upgrade_gate_lock.active_gate_id` |
| `action` | the gate's Prepare, Abort and Recover Actions; EXECUTING is an APPROVED Action whose Incident is EXECUTING |
| `confirming`, `approving` | requests between their last check and their write |
| `worker` | `cluster_deploy.run`: the Action, the phase, what the phase still has to do, whether the rollback failed |
| `remover`, `setter` | the cluster: who took a monitor out of the monmap, who set a flag |
| `before`, `stuck`, `lost` | history: flags older than the last Prepare; gates left to the operators; gates one of whose commands raised after it took effect |

The phases in which Prepare changes the cluster are one step a command, each with
its journal entry, and a command may take effect and raise. The phases that only
touch the node are one step that succeeds or fails. `undo_mon`, `undo_flags` and
`fail` are `_rollback_failed_prepare` and `_fail_node_upgrade_gate`. A request, an
approval or a rejection of an operator may come between any two steps.

### RbdBackup

| Variable | Code |
|---|---|
| `action`, `incident`, `class`, `cancelled` | the request's Action and Incident, its classification, `cancelled_at` |
| `policy` | what `gate.classify_action` says of a backup now |
| `run` | `_execute_approved_action` and `_run_rbd_backup`: where a Worker is, the previous fulls it read, the keys its sweep protects |
| `job` | the `backup_jobs` rows of a run: the one claimed before the export, and the others, which its commit adds |
| `aged` | rows older than `STALE_RUNNING_TIMEOUT_SECONDS` |
| `objects`, `snapshots` | what the targets store; the `backup-*` snapshots of the image |
| `excused`, `faults` | history: runs of which a fault may have left something |

A run is named by its Action, so an Action that already has a row is not executed
again (`ActionLifecycle` has those executions). The targets do not change. A fault
is a restart, a delete or a `snap rm` that fails, an upload or a `snap create` that
raises after it took effect; every other failure is free (`refuse`, `give_up`).
`claim_image` also has the branch for an image another Worker claimed, which one
Worker never takes.

## 4. The runs

### What they check

| Run | Instance | Properties and what they would catch |
|---|---|---|
| `delivery_safety` | 1 Worker, 2 dispatchers, 2 retries, 1 verification retry, 1 restart | `NoSilentLoss`: a confirmed event that was not handled is ready, unacknowledged or dead-lettered. Fails when the original is acknowledged before the retry is published, when a claim is taken for done, when a restart drops a delivery. `SettledIsFinal`: a publisher whose lease ended does not undo SENT, a handler whose lease ended does not undo DONE; the one exception stated is a reconciler that read the row while it was DEAD. `OutboxKept`: every step is one of `Outbox`, or none. The state constraint `OneDifficultyAtATime` keeps both dispatchers racing in the first round of diagnosis, also across a restart, and one of them at work while a failed diagnosis is retried and in the round a verification retry starts; that round begins with the first event's row settled and has no restart or retry of its own. The theorems have no such limit. |
| `delivery_live` | 1 of each, 2 attempts, 1 restart | `NewIncidentDiagnosed`, `SentEventuallySettled`. |
| `lifecycle_safety` | 2 health checks and 1 request, 1 Worker, 1 operator, 2 restarts, 2 approvals | `InterruptedIsFound`: an execution cut short is always the pair (EXECUTING, APPROVED) that the next start looks for. `OneRunPerApproval`: a request runs at most once for each approval. `ApprovalKept`: every step is one of `Approval`, or none; it fails when a decision writes over a closed request, or when a grant that a restart used up can start the command again. The state constraint `OneTwice` keeps the second approval to the request, before any health check has an Action and with one restart at most, the second restart to states in which a health check is still to be diagnosed, and what an Incident leaves whose diagnosis the database refused, or a message of a FAILED one, to states in which the request still waits for its operator. |
| `lifecycle_live` | 1 health check, 2 Workers, 2 restarts | `DiagnosisConcludes`: nobody is left to conclude a diagnosis only where the database refused to record it; fails when giving up leaves the status as it is. `ZombieEventuallyCancelled`, `RecoveryIsClosed`. |
| `autonomy_safety` | 3 Actions, 2 Workers, no grace, limit 1 | `OneInTime`: no two commands under leases that have not run out, unless a recovery deleted the lease of one of them; fails when an acquisition does not ask whether the lease is free. `RunsOnce`. `LimitOvershoot`: the limit of the hour is passed by no more Actions than other threads were past the check; fails when the comparison lets one more through. Two Actions cannot pass limit 1 by more than two Workers allow, so there is a third; `TwoInDifficulty` keeps restarts, verification retries and Incidents the Watcher closes to states in which one of the three is still untouched, and a restart and a verification retry together, or two pollers at work, to those in which two are. |
| `autonomy_live` | 1 repeatable Action, grace, redelivery, restart | `ExecutionConcluded`, `GraceConcluded`. |
| `gate_safety` | 3 nodes, two MON, one of them OSD too, one with neither role, 2 flags, 2 gates | `MidFlightHoldsLock`: no second Prepare gets past the claim while a node is on its way out. `LockExplained`: a held lock waits for something, or one of four named events left it. `MonOutAccounted`: a monitor that is out belongs to a gate that is not DONE. `FailedPrepareUndone`: the rollback leaves nothing, unless a command raised after it took effect. `EarlierFlagsSurvive`: rollback and Abort clear no flag that was set before. `OneInDifficulty` lets one of the gates be overtaken at its Confirm, be left to the operators or have a command that raised after it took effect, while the other goes well, and the operators set one flag at most once both gates are there. |
| `backup_safety` | 3 backups and a sweep, 2 targets, 1 Worker, 1 fault | `BaseSnapshotKept`: the snapshot of the latest full, which every incremental is a diff from, is there. `SnapshotsAccounted`, `ObjectsAccounted`: what is left on the image and on the targets has an owner or a fault to blame. `BasesStored`: retention deletes no full that the next or a stored incremental needs. |

Each module's `TypeOK` is in its safety run. Four more runs end in a
counterexample on purpose. Each one states what a comment or docstring of the
program says and shows what the code does instead:

- `lifecycle_rerun`, `NeverRerun`. `worker/autonomy_runtime.py:77` says of
  executions a stopped Worker left behind that they are never run again. The
  start-up looks for Incidents that are EXECUTING, and the Watcher may have
  resolved the Incident meanwhile: the Action is still APPROVED, the claim
  succeeds, the command runs a second time.
- `autonomy_grace`, `GraceNotClosed`. `watcher/main.py:185` says an Incident in
  its grace period is not closed while the Action can resume. A diagnosis
  redelivered after a restart takes the Incident out of GRACE_PENDING first.
- `backup_scheduled`, `RequestIsExecuted`. `worker/backup/scheduler.py:9` says a
  job that is due is proposed and immediately executed. The scheduler and the
  Dashboard create the Incident EXECUTING, and the execution claim
  (`worker/llm/router_client.py:3659`) wants an Incident that is not: the request
  stays APPROVED, is polled for ever, and makes every further request a conflict.
  What does run is a request that a changed policy sent back for approval, because
  the approval writes APPROVED to the Incident too; `backup_safety` is about those.
- `backup_restorable`, `RecoveryPointsRestorable`. `dashboard/routes/backups.py:143`
  calls its recovery points restorable with their exact chain. Retention keeps the
  newest `keep_incremental_count` incrementals and leaves the rows of the deleted
  ones SUCCESS; a newer incremental of the same full needs them all.

### Bounds

| Bound | Code | Here | Why that is enough |
|---|---|---|---|
| `MAX_ATTEMPTS` | 8 (`shared/incident_outbox.py:23`) | 1, 2 | an attempt adds one to a counter that is compared with the maximum; 1 reaches DEAD at once, 2 the way back to PENDING |
| `MaxRetries` | `worker_max_retries`, 3 | 1, 2 | 1 gives up at once, 2 republishes once |
| `MaxVerify` | `incident_verify_max_attempts`, 2 | 1, 2 | 2 is one retry, a new event beside the first one's leftovers (under `OneDifficultyAtATime`); 1 in `delivery_live`; the theorems have any number |
| `MaxCopies` | unbounded | 1 (per message) | one copy ready while another is unacknowledged is already a duplicate; a publish waits for room. 0 in `autonomy_safety`: see `RunsOnce` below |
| `MaxCrashes`, `MaxRestarts` | unbounded | 0-2 | one restart between any two steps, two where the run is about what the first restart left |
| `MaxApprovals` | unbounded | 1, 2 | also where `runs` stops counting, one above it, so an excess is still seen; the second approval is the one after a withdrawal |
| `Gate`, `Flag`, `Host` | unbounded, 4, any | 2, 2, 3 | a gate races one other; a flag set before and one set by Prepare; every case of the two roles that the phases tell apart |
| `Requests`, `MaxOpen` | unbounded | 4, 1 | a full, an incremental on it, the full that makes the first one surplus, and a sweep. One request in flight, as `run-now` has it; a cancelled one that still runs is not in flight, so the next request meets it |
| `MaxFaults` | unbounded | 1 | one fault between any two steps. `KeepFull` orphans of faults make retention evict every good full, so `BasesStored` is about fewer faults than that |
| `Slots`, `KeepFull`, `KeepIncremental` | 2; 3 and 7 in the shipped `backup_policy.yaml`, 1 and 0 where it says nothing | 2, 1, 1 | the code's own targets, and the smallest counts with which a full is surplus while an incremental is kept; the theorems have any number |
| `MaxHour` | `autopilot_max_actions_per_hour` | 1 | the second Action meets the limit, the third passes it if `LimitOvershoot` is broken |

One cluster, up to three Incidents: Incidents meet only in the claim on a
command, the lease and the limits. Two are enough for the claim and the lease, and
three for a limit of one that two threads overrun. The theorems below have none of
these bounds and none of the state constraints.

### Fairness

- `_supervise` (`worker/main.py`) restarts every loop of the Worker, and the
  processes run under a supervisor: each handler, poller and dispatcher that can
  take a step takes one (weak fairness per thread).
- Time passes: leases expire (weak fairness of the expirations).
- The outbox loop reconciles once a minute whatever else it dispatches, and each
  tick of the poller looks at every EXECUTING Action and every Action in grace:
  strong fairness of those reads, because the row may come and go between ticks.
- The broker is not down for ever: a dispatcher that publishes again and again is
  confirmed in the end (strong fairness of `dispatch_publish_ok`).
- The Watcher polls for ever: weak fairness of its resolver, its reconcile and its
  verification.

Nothing is assumed of operators, of the Watcher's fast path, of which way a choice
goes (a gate, a verdict, an exception), or of restarts. `CHECK_DEADLOCK FALSE`
stands in the delivery and autonomy runs because there every Incident may be
settled and nothing left to do, and in the gate and backup runs because there every
gate or request may be used up; in the lifecycle runs Ceph can always change its
report, so deadlock is checked.

## 5. The theorems

All of them hold for every value of the constants that satisfies the module's
assumption (`DeliveryAssumption`, `LifecycleAssumption`, `AutonomyAssumption`,
`GateAssumption`, `BackupAssumption`: there is an Incident or an Action, the null value is not a process, counters are
naturals, and the maxima the code clamps to at least one are not zero).

### Delivery

`TypeCorrect`, `NothingDropped` (`NoSilentLoss`) and `SettledStays`
(`SettledIsFinal`). The invariant `IInv` is, besides the types:

- `RetryBudget`: a handler about to republish has a retry left.
- `NothingLost`: a confirmed event is handled or *kept*. Holding an
  unacknowledged delivery is not enough for the induction: at `ack` the handler
  is about to give it up. `Keeps` leaves those steps out.
- `HandledFirst`: whoever is at `done` or `ack`, and every DONE claim, has the
  event handled. This is why the acknowledgement loses nothing.
- `ClaimsOpen`: a claim in progress never started from DONE; nor a dispatcher's
  from SENT. With the condition of the update this gives `SettledIsFinal`.
- `RedriveReal`, `NoEarlyRow`: a row that is inserted was not there, so an
  insertion never writes over a settled row.

### Action lifecycle

`LifecycleTypeCorrect` without further assumption. `InterruptedExecutionFound`
(`InterruptedIsFound`) and `RequestRunsOncePerApproval` (`OneRunPerApproval`) under
`OneOfEach`: one Worker process and one operator at a time, as in the deployment;
section 6 says what happens without it. `Exclusion` says what an earlier read still
tells about the row: nobody but the decider changes an Action under decision except
to REJECTED (`DecisionOpen`), a diagnosis that is about to route is the only one to
decide (`RoutingUndecided`, `RoutingAlone`), and the poller's Action stays APPROVED
(`ExecutingApproved`), hence EXECUTING implies APPROVED. For requests
`RequestInv` adds that no diagnosis touches them (`Undiagnosed`), that an approved
one is APPROVED or EXECUTING (`Paired`), that the claim is held up to the record
(`ClaimHeld`), and counts: an approval not yet used is one more than the runs so
far (`Counted`). `DiagnosisIsConcluded` (`DiagnosisConcludes`) holds for any number
of Workers and operators under `OneHealthCheck`: with two, the one that loses the
in-flight constraint stays DIAGNOSING (section 6). It says that an Incident is
DIAGNOSING with nobody to conclude it only after the database refused its row
(`refused`), and not that this cannot happen: section 6 lists where it does. It is
inductive together with `NoRequestDiagnosed`: handlers work for health checks only, so with a single one none
finds its own command in flight elsewhere (`NoDuplicate`).

`ApprovalRefined` (`Spec => ApprovalKept`), under `OneOfEach`: every step moves the
decision of a request as `Approval` allows, or leaves it alone. To the invariants
above it needs `RequestDecision`: what an operator is about to write was read as
PENDING_APPROVAL, and still is, because nobody else decides a request meanwhile.
With two operators that is not so (section 6). `Approval` has a theorem of its
own, `GrantStartsOnce`: closing, forfeiting and asking again, in any order and any
number of times, never let a command start more often than it was granted. It is
inductive with `Counted`, a grant still good has not been counted yet.

### Autonomous execution

`AutonomyTypeCorrect` without further assumption. `LeaseExcludes` (`OneInTime`) and
`RunsAtMostOnce` (`RunsOnce`) under `NoRepeats`: no grace period (the default
setting), no repeatable Action, and messages that come back only from a Worker that
stopped; any number of Workers, restarts and verification retries. The invariant
`Exclusion`: an Action that a diagnosis would still execute is in one pair of hands,
the queue's or one handler's, and has not run (`Undecided`); no two threads execute
the same Action (`OneExecutes`); before the run it has not run (`Unstarted`); a
lease that has not run out is the one in the table, held for that thread's Action
(`Held`). The last one needs `OneExecutes`: the lease names an Action, not a thread,
so a second thread on the same Action would release the first one's lease. It leaves
out the `robbed` threads, whose live lease a recovery deleted for the one it had
looked up: the theorem says that there is no other way to two commands in time, and
section 6 how this one comes about.

`LimitNearlyKept` (`LimitOvershoot`) needs no assumption: it holds with grace
periods, repeatable Actions and duplicate messages, for any number of threads. The
count grows long after the check, when a result is recorded, so the invariant looks
ahead (`WithinOvershoot`): the Actions counted, together with those of a thread that
has passed the check and not recorded a result yet (`Passed`), are at most the limit
less one and one for each thread that executes. A check adds one Action to `Passed`,
and only while fewer than the limit are counted; a record moves one from `Passed` to
the count (`CountedFromPassed`); and `Passed` has no more Actions than there are
executing threads.

### Outbox

`OutboxRefined` (`Spec => OutboxKept`): the initial states of `IncidentDelivery` are
initial states of `Outbox`, and every step is a step of it or leaves `row`,
`accepted` and `done` alone. The invariants of the delivery proofs carry it:
`NothingLost` says that what was confirmed is accepted, and the steps of a handler
need that it keeps the event until it is handled, dead-lettered or back in the
queue.

### Node upgrade gate

All six properties of the run: `TypeCorrect`, `LockHeld`, `LockHasCause`,
`MonsAccounted`, `FlagsSurvive`, `PrepareUndone`, for any number of hosts, gates and
flags and any assignment of roles. The invariants behind them: `RunKnown` and
`StatesAgree` tie the Worker's phase to the state of the gate it is on and to the
status of its Action; `LockAgrees` says which states hold the lock and that a
released gate never takes it back; `MonsKnown` and `FlagsKnown` tie the journal in
the row to the cluster, with the window between a command and its entry;
`UndoKnown` says what a rollback has undone by the time `fail` releases the lock.

### Backup

The run's five properties, under `OneWorker` (section 6 says what happens with
two), for any number of requests and targets, any retention and any number of
faults: `TypeCorrect`, `BaseKept` (`BaseSnapshotKept`), `SnapshotsOwned`
(`SnapshotsAccounted`), `ObjectsOwned` (`ObjectsAccounted`) and `BasesKept`
(`BasesStored`). `Core` ties the Worker's place in a run to the row of its
Action (RUNNING from the claim on, FAILED before its snapshot is dropped,
SUCCESS before it tidies up) and says that turns are given out in order.
`BaseKnown` is why the base survives: what was read before the claim is still
the latest full when the run commits, and a run that tidies up is the last one
claimed, so that a full one is itself the latest and the ones it removes are
earlier. `SnapshotsKnown` and `ObjectsKnown` follow what a run has taken and
uploaded: up to `step` targets hold its export while it goes on, and none after
`clean` unless a delete failed.

`BasesKept` is a counting argument, because the sweep keeps the newest objects and
does not ask which of them a row accounts for. A failed run may have left a full
export on a target, which takes the place of a good one. `LeftoverCounted`: the runs
that may have left something are at most as many as the faults. `CopiesKnown`: a run
leaves at most one object on a target. `StampsKnown`: newer on a target means claimed
later. So on each target the full exports newer than the latest recorded one are of
different runs, all of them leftovers: fewer than `KeepFull`, as long as the faults
are, and the sweep stops before the latest one. The bases of stored incrementals it
spares by their key (`NeededKnown`), which it read when no other run could add one.

### Not proved

Liveness and everything that rests on ENABLED is model-checked only.
`ZombieEventuallyCancelled` and `RecoveryIsClosed` are checked for one health check.
Every invariant and every action property of the passing runs is proved, and so are
both refinements.

## 6. What the code permits and no property forbids

TLC reaches each of these; the hazards list names their lines.

- A closed Incident is reopened by a handler that checked its status just before.
- A diagnosis runs twice when the Worker stops before its claim is DONE, or when
  two handlers take over the same expired claim.
- A DEAD row of a verification retry is not sent again (only NEW Incidents are).
- Two Workers run an approved command twice: the claim tests the Incident, not
  the Action. This is why `OneRunPerApproval` and `ApprovalKept` have one Worker.
- An approval that read the Action before the Watcher cancelled it writes APPROVED
  over REJECTED, which `shared/incident_actions.py:17` calls final.
- A second operator's decision overwrites the first one's. A rejection that is
  written late also takes the Incident out of EXECUTING, and with it the claim: a
  poller that has already loaded the Action again, after a result that could not be
  recorded, then runs the command a second time. This is why `OneOfEach` has one
  operator too.
- A repeated diagnosis may restore RESOLVED from an old Action while the fault
  is present; the next one opens it again.
- After a failed start-up reconcile the pair stays EXECUTING until the next start.
- The database refuses a row at the end of a diagnosis, and the Incident stays
  DIAGNOSING with no message and nobody at work on it: a repeated diagnosis that
  fails to load it or to write DIAGNOSING again (`worker/main.py:237-244`); the
  fallback FAILED, which is only logged before the message is dead-lettered
  (`worker/main.py:266-288`); the FAILED after a routing error, which is swallowed,
  and the message acknowledged (`worker/llm/router_client.py:1642-1657`). The
  Watcher still closes it when Ceph stops reporting the check. This is what
  `refused` in `DiagnosisConcludes` stands for.
- Two health checks diagnosed to the same command leave the loser DIAGNOSING.
  This is why `DiagnosisConcludes` has one.
- With a grace period, a message redelivered after a restart finds PENDING an
  Action that the poller resumes, and both execute it. This is why `RunsOnce`
  has no grace.
- The lease lasts 900 s, a command may be silent for 1800 s: when the lease runs
  out a second command starts beside the first. `OneInTime` speaks of leases that
  have not run out.
- A recovery deletes the live lease of another Action, and two commands run under
  leases that have not run out: `reconcile_expired_executions` finds the expired lease
  of an EXECUTING Action (`worker/autonomy_runtime.py:125`); before it commits (156),
  a second Action's `acquire_lease` deletes that lease and inserts its own; the
  commit's DELETE names the cluster, takes the new lease, and a third Action acquires
  while the second runs. Without `\ robbed`, `OneInTime` fails in `autonomy_safety`
  after 25 states. So the "cluster-wide mutex" of `AutopilotLease`'s docstring
  (`shared/models.py:693`) is not kept, and what the comment at
  `worker/autonomy_runtime.py:33` expects of the lease ("still serializes actual
  writes") does not hold.
- The limits are counted before the lease is taken: threads that passed the check
  together are all executed, one after the other. `LimitOvershoot` says by how much
  the limit can be passed, not that it is kept.
- A cancellation that races the poller's resumption may be overwritten; an Action
  whose poller stopped just after writing PENDING is taken up by nobody.
- Confirm re-checks the gate and writes RECOVERING without a condition
  (`dashboard/routes/upgrade.py:1624`): an Abort that came in between is
  overwritten, as is a second Confirm whose Recover has ended, and Recover may run
  after its gate gave the lock back. This is why `MidFlightHoldsLock` leaves
  RECOVERING out. `shared/models.py:2434` says the state moves strictly forward and
  that FAILED is terminal; here DONE and FAILED become RECOVERING, and then DONE.
- An Abort or a Recover that fails is not rolled back but gives the lock back: the
  next Prepare may take a monitor out while the one of the FAILED gate is still out.
  `MonOutAccounted` names FAILED for this.
- A rejected request, a refused preflight and a restart leave the gate and the lock
  as they are; Abort and Recover that both wait for approval refuse each other.
- A `ceph osd set` or `ceph mon rm` that raises after it took effect is not in the
  journal, so nothing undoes it. Recover clears every maintenance flag, also those
  it did not set.
- Two Workers that back up one image: the previous fulls are read before the image
  is claimed, a stale row is failed whatever became of it, and a sweep works from
  keys it read earlier. `BaseSnapshotKept`, `SnapshotsAccounted` and `BasesStored`
  have one Worker, as `compose.yaml` deploys.
- Cancelling a job rejects the newest Action for its image, which need not be the
  one that runs it; the result later overwrites REJECTED.

## 7. What is not modelled

- In the modelled parts: alerts and log lines, request identifiers, statistics,
  unparseable messages, back-off lengths, deactivated clusters, Incidents owned by
  a monitor with its own resolver, what each policy gate evaluates, the daily limit
  and cool-down (they behave as the hourly one).
- In `AutonomousExecution`: the database refusing DIAGNOSING, which dead-letters the
  message (`IncidentDelivery` and `ActionLifecycle` have it).
- `watcher/resolve_grace.py`'s quiet period: the resolver may act
  whenever the fault is gone, which is more than the code does.
- Of the node upgrade gate: what a phase does on the node, several clusters at once,
  the other lifecycle operations of `cluster_deploy.py`.
- Of backups: an approval withdrawn because the change-risk evidence changed (one
  withdrawn because the policy changed is modelled), the FAILED that the poller
  records when `_run_rbd_backup` raises (the Action stays as it was, or is closed
  INCONCLUSIVE by a start-up), metadata backups, repairs of missing copies, restores
  and drills, changes of the targets between runs, and the `full/pool/image` prefix
  that also matches an image whose name it begins.
- Telegram outbox, delegated investigations, AI budget, snapshots: in the plan,
  section 2.
- Detection rules, monitors, forecasts, executors, collectors, templates,
  migrations, code repair and Vitastor: data analysis, I/O over SSH, or
  presentation, whose effect on the protocols is a choice in the models.
