------------------------- MODULE AutonomousExecution -------------------------
(***************************************************************************)
(* SAFE Actions that run without an approval on one cluster                *)
(* (worker/llm/router_client.py, worker/autonomy_runtime.py): the gates,   *)
(* the hourly limit, the cluster's lease, the run and its record, the grace*)
(* period an operator may cancel, and the recovery of executions whose     *)
(* Worker died.                                                            *)
(*                                                                         *)
(* Abstractions.  An Action has an Incident of its own.  A gate (the kill  *)
(* switch among them, which stops new Actions only) may block or pass at   *)
(* any time.  The limit per day and the cool-down behave like the limit per*)
(* hour, so only that one counts, and a cool-down is one more gate.  The   *)
(* row of a remediation case is not kept: whether an executed Action still *)
(* awaits its verification is open.  What happens to an Action once it     *)
(* waits for approval is ActionLifecycle's.                                *)
(***************************************************************************)
EXTENDS Naturals, FiniteSets

CONSTANTS Action,      \* SAFE Actions of one cluster
          Worker,      \* Worker processes: one handler, one poller each
          NoAction,    \* the lease is free
          Unlimited,   \* Actions exempt from the limit (restart_osd_daemon)
          Idempotent,  \* Actions run again when the fault remains (msgr2)
          Grace,       \* settings.autopilot_grace_period_seconds > 0
          MaxHour,     \* settings.autopilot_max_actions_per_hour
          MaxVerify,   \* bound: verification retries of an Action
          MaxCopies,   \* bound: copies of a message in work elsewhere
          MaxCrashes   \* bound: Worker restarts

ASSUME AutonomyAssumption ==
    /\ Action # {} /\ IsFiniteSet(Action)
    /\ IsFiniteSet(Worker)
    /\ NoAction \notin Action
    /\ Unlimited \subseteq Action
    /\ Idempotent \subseteq Action
    /\ Grace \in BOOLEAN
    /\ MaxHour \in Nat \ {0}
    /\ MaxVerify \in Nat
    /\ MaxCopies \in Nat
    /\ MaxCrashes \in Nat

VARIABLES incident,    \* [Action -> status]   its row in table incidents
          action,      \* [Action -> status]   its row in table actions
          graced,      \* Actions whose grace_until is set
          messages,    \* [Action -> Nat]      diagnosis requests
          lease,       \* the cluster's row in autopilot_leases
          recent,      \* Actions with executed_at in the last hour
          thread,      \* [Thread -> thread]   handlers and pollers
          cancelling,  \* Actions an operator saw in grace and cancels
          inTime,      \* history: threads whose lease has not run out
          robbed,      \* history: those whose lease a recovery deleted
          ran,         \* history: times the command was started
          verifies, copies, crashes   \* counters the bounds apply to

rows == <<incident, action>>
counters == <<verifies, copies, crashes>>
vars == <<incident, action, graced, messages, lease, recent, thread,
          cancelling, inTime, robbed, ran, counters>>

-----------------------------------------------------------------------------
Thread == Worker \X {"handler", "poller"}
IsHandler(t) == t[2] = "handler"

IncidentStatus == {"NEW", "DIAGNOSING", "GRACE_PENDING", "PENDING_APPROVAL",
                   "EXECUTING", "VERIFYING", "AUTO_FIXED", "RESOLVED",
                   "REJECTED", "FAILED"}
ActionStatus == {"ABSENT", "PENDING", "GRACE_PENDING", "PENDING_APPROVAL",
                 "EXECUTING", "AUTO_EXECUTED", "REJECTED", "FAILED",
                 "INCONCLUSIVE"}

NonProcessable == {"AUTO_FIXED", "VERIFYING", "RESOLVED", "REJECTED", "FAILED"}
Recoverable == {"NEW", "DIAGNOSING", "PENDING_APPROVAL", "EXECUTING", "FAILED"}
Cancellable == {"PENDING", "PENDING_APPROVAL"}

(* Where _maybe_execute_safe_action is; "blocked" is about to park the     *)
(* Action, the last line is what else a handler or a poller does.          *)
Executing == {"gates", "acquire", "mark", "run", "release", "blocked"}
Pc == Executing \cup {"idle", "write", "diagnose", "done", "resume",
                      "reconcile", "expired", "missing"}

At(pc, a) == [pc |-> pc, on |-> a]
Idle == At("idle", NoAction)
ThreadState == [pc : Pc \ {"idle"}, on : Action] \cup {Idle}

TypeOK ==
    /\ incident \in [Action -> IncidentStatus]
    /\ action \in [Action -> ActionStatus]
    /\ graced \in SUBSET Action
    /\ messages \in [Action -> Nat]
    /\ lease \in [holder : Action \cup {NoAction}, live : BOOLEAN]
    /\ recent \in SUBSET Action
    /\ thread \in [Thread -> ThreadState]
    /\ cancelling \in SUBSET Action
    /\ inTime \in SUBSET Thread
    /\ robbed \in SUBSET Thread
    /\ ran \in [Action -> Nat]
    /\ verifies \in [Action -> 0 .. MaxVerify]
    /\ copies \in 0 .. MaxCopies
    /\ crashes \in 0 .. MaxCrashes

NoLease == [holder |-> NoAction, live |-> FALSE]

Init ==
    /\ incident = [a \in Action |-> "NEW"]
    /\ action = [a \in Action |-> "ABSENT"]
    /\ graced = {}
    /\ messages = [a \in Action |-> 1]
    /\ lease = NoLease
    /\ recent = {}
    /\ thread = [t \in Thread |-> Idle]
    /\ cancelling = {}
    /\ inTime = {}
    /\ robbed = {}
    /\ ran = [a \in Action |-> 0]
    /\ verifies = [a \in Action |-> 0]
    /\ copies = 0
    /\ crashes = 0

-----------------------------------------------------------------------------
(* Both rows of a in one transaction, whatever is in them now.             *)
Write(a, s, i) ==
    /\ action' = [action EXCEPT ![a] = s]
    /\ incident' = [incident EXCEPT ![a] = i]

WriteIncident(a, i) ==
    /\ incident' = [incident EXCEPT ![a] = i]
    /\ UNCHANGED action

My(t) == thread[t].on
Go(t, pc) == thread' = [thread EXCEPT ![t].pc = pc]

(* _maybe_execute_safe_action returns: a handler has its message still to  *)
(* acknowledge, a poller goes on with its tick.                            *)
Return(t) ==
    thread' = [thread EXCEPT ![t] = IF IsHandler(t) THEN At("done", My(t))
                                    ELSE Idle]

-----------------------------------------------------------------------------
(* The diagnosis.                                                          *)

(* _handle_message, the status check: a stale message is acknowledged.     *)
load_incident(t, a) ==
    /\ IsHandler(t) /\ thread[t].pc = "idle"
    /\ messages[a] > 0
    /\ messages' = [messages EXCEPT ![a] = @ - 1]
    /\ thread' = [thread EXCEPT ![t] =
         At(IF incident[a] \in NonProcessable THEN "done" ELSE "write", a)]
    /\ UNCHANGED <<rows, graced, lease, recent, cancelling, inTime, robbed,
                   ran, counters>>

write_diagnosing(t) ==
    /\ thread[t].pc = "write"
    /\ WriteIncident(My(t), "DIAGNOSING")
    /\ Go(t, "diagnose")
    /\ UNCHANGED <<graced, messages, lease, recent, cancelling, inTime, robbed,
                   ran, counters>>

(* No Action yet, or one left PENDING by a diagnosis that died: it is      *)
(* executed.                                                               *)
ReusableInconclusive(a) ==                          \* mutant of Reusable
    action[a] \in {"ABSENT", "PENDING", "INCONCLUSIVE", "EXECUTING"}
Reusable(a) == action[a] \in {"ABSENT", "PENDING"}

propose(t) ==
    /\ thread[t].pc = "diagnose"
    /\ Reusable(My(t))
    /\ action' = [action EXCEPT ![My(t)] = "PENDING"]
    /\ Go(t, "gates")
    /\ UNCHANGED <<incident, graced, messages, lease, recent, cancelling,
                   inTime, robbed, ran, counters>>

(* An Action that was executed awaits its verification again, is executed  *)
(* again if that is harmless, or was verified.  Any other Action has the   *)
(* Incident follow it, and one that the table does not list is FAILED.     *)
CopiedStatus(s) == {s}                        \* mutant of RestoredStatus
RestoredStatus(s) ==
    CASE s \in {"PENDING_APPROVAL", "REJECTED"} -> {s}
      [] s = "AUTO_EXECUTED" -> {"VERIFYING", "AUTO_FIXED"}
      [] OTHER -> {"FAILED"}

restore(t) ==
    /\ thread[t].pc = "diagnose"
    /\ ~Reusable(My(t))
    /\ \E i \in RestoredStatus(action[My(t)]) :
         /\ i = "VERIFYING" => My(t) \notin Idempotent
         /\ WriteIncident(My(t), i)
    /\ Go(t, "done")
    /\ UNCHANGED <<graced, messages, lease, recent, cancelling, inTime, robbed,
                   ran, counters>>

execute_again(t) ==
    /\ thread[t].pc = "diagnose"
    /\ action[My(t)] = "AUTO_EXECUTED" /\ My(t) \in Idempotent
    /\ action' = [action EXCEPT ![My(t)] = "PENDING"]
    /\ Go(t, "gates")
    /\ UNCHANGED <<incident, graced, messages, lease, recent, cancelling,
                   inTime, robbed, ran, counters>>

ack(t) ==
    /\ thread[t].pc = "done"
    /\ thread' = [thread EXCEPT ![t] = Idle]
    /\ UNCHANGED <<rows, graced, messages, lease, recent, cancelling, inTime,
                   robbed, ran, counters>>

-----------------------------------------------------------------------------
(* _maybe_execute_safe_action.                                             *)

(* Whatever a gate finds, it reads nothing others write here; those before *)
(* the grace period block, too.                                            *)
gates_block(t) ==
    /\ thread[t].pc = "gates"
    /\ Go(t, "blocked")
    /\ UNCHANGED <<rows, graced, messages, lease, recent, cancelling, inTime,
                   robbed, ran, counters>>

GraceOver(t) == Grace => My(t) \in graced

start_grace(t) ==
    /\ thread[t].pc = "gates"
    /\ ~GraceOver(t)
    /\ graced' = graced \cup {My(t)}
    /\ Write(My(t), "GRACE_PENDING", "GRACE_PENDING")
    /\ Return(t)
    /\ UNCHANGED <<messages, lease, recent, cancelling, inTime, robbed, ran,
                   counters>>

(* A hard failure of the contract, or a destructive command.               *)
refuse(t) ==
    /\ thread[t].pc = "gates"
    /\ GraceOver(t)
    /\ Write(My(t), "FAILED", "FAILED")
    /\ Return(t)
    /\ UNCHANGED <<graced, messages, lease, recent, cancelling, inTime, robbed,
                   ran, counters>>

(* check_limits.                                                           *)
Spent == {a \in recent : action[a] = "AUTO_EXECUTED"}
LimitPassed(a) ==                                   \* mutant of the next
    a \notin Unlimited /\ Cardinality(Spent) > MaxHour
LimitReached(a) == a \notin Unlimited /\ Cardinality(Spent) >= MaxHour

check_limits(t) ==
    /\ thread[t].pc = "gates"
    /\ GraceOver(t)
    /\ ~LimitReached(My(t))
    /\ Go(t, "acquire")
    /\ UNCHANGED <<rows, graced, messages, lease, recent, cancelling, inTime,
                   robbed, ran, counters>>

(* acquire_lease: an expired lease is deleted, then the row is inserted;   *)
(* the cluster is its primary key.                                         *)
LeaseFreeAnyway == TRUE                             \* mutant of LeaseFree
LeaseFree == lease.holder = NoAction \/ ~lease.live

acquire_lease(t) ==
    /\ thread[t].pc = "acquire"
    /\ LeaseFree
    /\ lease' = [holder |-> My(t), live |-> TRUE]
    /\ inTime' = inTime \cup {t}
    /\ Go(t, "mark")
    /\ UNCHANGED <<rows, graced, messages, recent, cancelling, robbed, ran,
                   counters>>

lease_refused(t) ==
    /\ thread[t].pc = "acquire"
    /\ ~LeaseFree
    /\ Go(t, "blocked")
    /\ UNCHANGED <<rows, graced, messages, lease, recent, cancelling, inTime,
                   robbed, ran, counters>>

(* Every refusal parks the Action in a transaction of its own.             *)
route_to_approval(t) ==
    /\ thread[t].pc = "blocked"
    /\ Write(My(t), "PENDING_APPROVAL", "PENDING_APPROVAL")
    /\ Return(t)
    /\ UNCHANGED <<graced, messages, lease, recent, cancelling, inTime, robbed,
                   ran, counters>>

(* EXECUTING, whatever is in the rows; then the command starts.            *)
mark_executing(t) ==
    /\ thread[t].pc = "mark"
    /\ Write(My(t), "EXECUTING", "EXECUTING")
    /\ ran' = [ran EXCEPT ![My(t)] = @ + 1]
    /\ Go(t, "run")
    /\ UNCHANGED <<graced, messages, lease, recent, cancelling, inTime, robbed,
                   counters>>

(* _record_execution_result, once the command ended well on every host or  *)
(* failed on one.                                                          *)
record_result(t) ==
    /\ thread[t].pc = "run"
    /\ \/ /\ Write(My(t), "AUTO_EXECUTED", "VERIFYING")
          /\ recent' = recent \cup {My(t)}
       \/ /\ Write(My(t), "FAILED", "FAILED")
          /\ UNCHANGED recent
    /\ Go(t, "release")
    /\ UNCHANGED <<graced, messages, lease, cancelling, inTime, robbed, ran,
                   counters>>

(* release_lease deletes the lease of this Action, no other one.           *)
Released(a) == IF lease.holder = a THEN NoLease ELSE lease

release_lease(t) ==
    /\ thread[t].pc = "release"
    /\ lease' = Released(My(t))
    /\ inTime' = inTime \ {t}
    /\ robbed' = robbed \ {t}
    /\ Return(t)
    /\ UNCHANGED <<rows, graced, messages, recent, cancelling, ran,
                   counters>>

(* The lease stays until it expires after an exception: diagnose_incident  *)
(* records FAILED, if the database takes it, a poller's tick just ends; and*)
(* when the message names no hosts: FAILED, with no release.               *)
raises(t) ==
    /\ thread[t].pc \in Executing
    /\ \/ /\ IsHandler(t) \/ thread[t].pc = "run"
          /\ Write(My(t), "FAILED", "FAILED")
       \/ UNCHANGED rows
    /\ inTime' = inTime \ {t}
    /\ robbed' = robbed \ {t}
    /\ Return(t)
    /\ UNCHANGED <<graced, messages, lease, recent, cancelling, ran,
                   counters>>

-----------------------------------------------------------------------------
(* A poller's tick.                                                        *)

(* reconcile_expired_executions, the EXECUTING row it reads.               *)
reconcile_read(t, a) ==
    /\ ~IsHandler(t) /\ thread[t].pc = "idle"
    /\ action[a] = "EXECUTING"
    /\ thread' = [thread EXCEPT ![t] = At("reconcile", a)]
    /\ UNCHANGED <<rows, graced, messages, lease, recent, cancelling, inTime,
                   robbed, ran, counters>>

(* Then the lease of its Action: recover_after_worker_restart lets an      *)
(* active one be.                                                          *)
OrphanedIfNone(a) == lease.holder # a               \* mutant of Orphaned
Orphaned(a) == ~(lease.holder = a /\ lease.live)

reconcile_lease(t) ==
    /\ thread[t].pc = "reconcile"
    /\ IF Orphaned(My(t))
       THEN Go(t, IF lease.holder = My(t) THEN "expired" ELSE "missing")
       ELSE thread' = [thread EXCEPT ![t] = Idle]
    /\ UNCHANGED <<rows, graced, messages, lease, recent, cancelling, inTime,
                   robbed, ran, counters>>

(* The commit.  The lease found expired is deleted by its primary key, the *)
(* cluster: the row that is there now goes, whoever acquired it meanwhile. *)
reconcile_write(t) ==
    /\ thread[t].pc \in {"expired", "missing"}
    /\ Write(My(t), "INCONCLUSIVE", "FAILED")
    /\ IF thread[t].pc = "expired"
       THEN /\ lease' = NoLease
            /\ robbed' = robbed \cup
                 {u \in inTime : lease.live /\ My(u) = lease.holder}
       ELSE UNCHANGED <<lease, robbed>>
    /\ thread' = [thread EXCEPT ![t] = Idle]
    /\ UNCHANGED <<graced, messages, recent, cancelling, inTime, ran,
                   counters>>

(* _process_due_grace_actions_once, for every Action whose grace is over.  *)
DueOnBothRows(a) ==                                 \* mutant of Due
    action[a] = "GRACE_PENDING" /\ incident[a] = "GRACE_PENDING"
Due(a) == action[a] = "GRACE_PENDING"

grace_read(t, a) ==
    /\ ~IsHandler(t) /\ thread[t].pc = "idle"
    /\ Due(a)
    /\ thread' = [thread EXCEPT ![t] = At("resume", a)]
    /\ UNCHANGED <<rows, graced, messages, lease, recent, cancelling, inTime,
                   robbed, ran, counters>>

(* It is executed, unless what was stored to execute it cannot be read.    *)
grace_resume(t) ==
    /\ thread[t].pc = "resume"
    /\ \/ /\ Write(My(t), "PENDING", "DIAGNOSING")
          /\ Go(t, "gates")
       \/ /\ Write(My(t), "PENDING_APPROVAL", "PENDING_APPROVAL")
          /\ Return(t)
    /\ UNCHANGED <<graced, messages, lease, recent, cancelling, inTime, robbed,
                   ran, counters>>

-----------------------------------------------------------------------------
(* cancel_grace_action_core reads GRACE_PENDING, then writes REJECTED.     *)
open_cancel(a) ==
    /\ action[a] = "GRACE_PENDING"
    /\ cancelling' = cancelling \cup {a}
    /\ UNCHANGED <<rows, graced, messages, lease, recent, thread, inTime,
                   robbed, ran, counters>>

cancel_grace(a) ==
    /\ a \in cancelling
    /\ cancelling' = cancelling \ {a}
    /\ Write(a, "REJECTED", "REJECTED")
    /\ UNCHANGED <<graced, messages, lease, recent, thread, inTime, robbed,
                   ran, counters>>

-----------------------------------------------------------------------------
(* The Watcher.                                                            *)

(* _resolve_recovered_incidents; an Action in grace is not cancelled.      *)
resolve_recovered(a) ==
    /\ incident[a] \in Recoverable
    /\ Write(a, IF action[a] \in Cancellable THEN "REJECTED" ELSE action[a],
             "RESOLVED")
    /\ UNCHANGED <<graced, messages, lease, recent, thread, cancelling, inTime,
                   robbed, ran, counters>>

(* verify_pending_incidents: closed, or diagnosed again.                   *)
verify_closed(a) ==
    /\ incident[a] = "VERIFYING"
    /\ \E i \in {"RESOLVED", "FAILED"} : WriteIncident(a, i)
    /\ UNCHANGED <<graced, messages, lease, recent, thread, cancelling, inTime,
                   robbed, ran, counters>>

verify_retry(a) ==
    /\ incident[a] = "VERIFYING"
    /\ verifies[a] < MaxVerify
    /\ verifies' = [verifies EXCEPT ![a] = @ + 1]
    /\ WriteIncident(a, "DIAGNOSING")
    /\ messages' = [messages EXCEPT ![a] = @ + 1]
    /\ UNCHANGED <<graced, lease, recent, thread, cancelling, inTime, robbed,
                   ran, copies, crashes>>

-----------------------------------------------------------------------------
(* Time and faults.                                                        *)

(* autopilot_lease_ttl_seconds pass; the command may go on.                *)
ExpireLease ==
    /\ lease.live
    /\ lease' = [lease EXCEPT !.live = FALSE]
    /\ inTime' = {t \in inTime : My(t) # lease.holder}
    /\ robbed' = {t \in robbed : My(t) # lease.holder}
    /\ UNCHANGED <<rows, graced, messages, recent, thread, cancelling, ran,
                   counters>>

(* They pass for a thread whose row is gone, too.                          *)
RobbedExpires(t) ==
    /\ t \in robbed
    /\ inTime' = inTime \ {t}
    /\ robbed' = robbed \ {t}
    /\ UNCHANGED <<rows, graced, messages, lease, recent, thread, cancelling,
                   ran, counters>>

(* An hour passes since the execution of a.                                *)
HourPasses(a) ==
    /\ a \in recent
    /\ recent' = recent \ {a}
    /\ UNCHANGED <<rows, graced, messages, lease, thread, cancelling, inTime,
                   robbed, ran, counters>>

(* A message is delivered again while its handler goes on (IncidentDelivery*)
(* tells when).                                                            *)
Redeliver(t) ==
    /\ IsHandler(t) /\ thread[t].pc # "idle"
    /\ copies < MaxCopies
    /\ copies' = copies + 1
    /\ messages' = [messages EXCEPT ![My(t)] = @ + 1]
    /\ UNCHANGED <<rows, graced, lease, recent, thread, cancelling, inTime,
                   robbed, ran, verifies, crashes>>

(* A Worker stops, and with it both its threads; the message comes back.   *)
WorkerRestart(w) ==
    LET h == <<w, "handler">>
        p == <<w, "poller">>
    IN /\ crashes < MaxCrashes
       /\ crashes' = crashes + 1
       /\ messages' = IF thread[h].pc = "idle" THEN messages
                      ELSE [messages EXCEPT ![My(h)] = @ + 1]
       /\ thread' = [thread EXCEPT ![h] = Idle, ![p] = Idle]
       /\ inTime' = inTime \ {h, p}
       /\ robbed' = robbed \ {h, p}
       /\ UNCHANGED <<rows, graced, lease, recent, cancelling, ran,
                      verifies, copies>>

-----------------------------------------------------------------------------
ExecuteStep(t) ==
    \/ gates_block(t)
    \/ start_grace(t)
    \/ refuse(t)
    \/ check_limits(t)
    \/ acquire_lease(t)
    \/ lease_refused(t)
    \/ route_to_approval(t)
    \/ mark_executing(t)
    \/ record_result(t)
    \/ release_lease(t)
    \/ raises(t)

DiagnosisStep(t) ==
    \/ \E a \in Action : load_incident(t, a)
    \/ write_diagnosing(t)
    \/ propose(t)
    \/ restore(t)
    \/ execute_again(t)
    \/ ack(t)

TickStep(t) ==
    \/ \E a \in Action : reconcile_read(t, a) \/ grace_read(t, a)
    \/ reconcile_lease(t)
    \/ reconcile_write(t)
    \/ grace_resume(t)

OtherStep(a) ==
    \/ open_cancel(a)
    \/ cancel_grace(a)
    \/ resolve_recovered(a)
    \/ verify_closed(a)
    \/ verify_retry(a)
    \/ HourPasses(a)

Next ==
    \/ \E t \in Thread : \/ ExecuteStep(t) \/ DiagnosisStep(t)
                         \/ TickStep(t) \/ Redeliver(t) \/ RobbedExpires(t)
    \/ \E a \in Action : OtherStep(a)
    \/ \E w \in Worker : WorkerRestart(w)
    \/ ExpireLease

Spec == Init /\ [][Next]_vars

(* A thread that can go on goes on; each tick of a poller looks at every   *)
(* EXECUTING Action and at every Action in grace; leases expire.           *)
Fairness ==
    /\ \A t \in Thread :
         /\ WF_vars(ExecuteStep(t) \/ DiagnosisStep(t) \/ TickStep(t))
         /\ \A a \in Action : /\ SF_vars(reconcile_read(t, a))
                              /\ SF_vars(grace_read(t, a))
    /\ WF_vars(ExpireLease)

FairSpec == Spec /\ Fairness
-----------------------------------------------------------------------------
(* Properties.                                                             *)

(* While its lease has not run out, a command is the only such one on the  *)
(* cluster, "Crash-expiring cluster-wide mutex for autonomous write        *)
(* execution" (AutopilotLease), but for those whose row the recovery of    *)
(* another Action deleted: beside them, a next one may start.              *)
Runs(t) == thread[t].pc = "run" /\ t \in inTime

OneInTime == \A t, u \in Thread \ robbed : Runs(t) /\ Runs(u) => t = u

(* "Never re-run them" (reconcile_expired_executions): a restart, a        *)
(* redelivery after it or a verification retry do not start the command of *)
(* an Action again, unless it is one that may be repeated.                 *)
RunsOnce == \A a \in Action \ Idempotent : ran[a] <= 1

(* The limit is counted before the lease is taken, so Actions counted at   *)
(* the same time may pass it; but by no more than the other threads that   *)
(* execute Actions, and with a single one not at all.  Pollers execute     *)
(* only what was in grace.                                                 *)
Executors == {t \in Thread : Grace \/ IsHandler(t)}
Counting == Spent \ Unlimited
LimitOvershoot ==
    Cardinality(Counting) <= MaxHour - 1 + Cardinality(Executors)

(* No execution stays EXECUTING: whoever ran it records it, or a poller    *)
(* finds its lease gone (reconcile_expired_executions).                    *)
ExecutionConcluded ==
    \A a \in Action : action[a] = "EXECUTING" ~> action[a] # "EXECUTING"

(* Every grace period ends, in a resumed or a cancelled Action.            *)
GraceConcluded ==
    \A a \in Action :
      action[a] = "GRACE_PENDING" ~> action[a] # "GRACE_PENDING"

(* "Generic health reconciliation must never close a grace-period Incident *)
(* while its Action can still resume execution" (_IN_FLIGHT_DEDUPE_STATUSES*)
(* in the Watcher).                                                        *)
GraceNotClosed ==
    \A a \in Action : action[a] = "GRACE_PENDING" => incident[a] # "RESOLVED"
=============================================================================
