--------------------------- MODULE ActionLifecycle ---------------------------
(***************************************************************************)
(* The pair (Incident status, Action status) and everyone who writes it:   *)
(* the Worker's diagnosis and its approved-action poller                   *)
(* (worker/llm/router_client.py, worker/autonomy_runtime.py), operators on *)
(* the Dashboard and on Telegram (dashboard/routes/actions.py), and the    *)
(* Watcher (watcher/main.py, watcher/verify.py).  Each writer reads, works,*)
(* and writes both rows without looking again.                             *)
(*                                                                         *)
(* Abstractions.  An Incident has at most one Action.  A Requested         *)
(* Incident is an operator's request (chat, backup, upgrade...): no health *)
(* check reports it, so the Watcher never finds it recovered, and it is    *)
(* created waiting for approval.  Any other one is a health check, created *)
(* with a diagnosis message.  An Action of a Manual Incident has no        *)
(* command.  Actions need approval here: autonomous execution and grace    *)
(* periods are left out.  The queue delivers at least once: a Worker that  *)
(* restarts gives its message back.                                        *)
(***************************************************************************)
EXTENDS Naturals

CONSTANTS Incident,      \* Incidents, each with its Action
          Requested,     \* those that stand for an operator's request
          Manual,        \* those whose Action has no command
          Rbd,           \* those whose effect can be read from the cluster
          Worker,        \* Worker processes: one consumer, one poller each
          Operator,      \* operators deciding at the same time
          MaxVerify,     \* settings.incident_verify_max_attempts
          MaxApprovals,  \* bound: approvals of one Action; caps runs, too
          MaxRestarts    \* bound: Worker restarts

ASSUME LifecycleAssumption ==
    /\ Incident # {}                  \* an idle thread still names one
    /\ Requested \subseteq Incident
    /\ Manual \subseteq Incident
    /\ Rbd \subseteq Incident
    /\ MaxVerify \in Nat \ {0}
    /\ MaxApprovals \in Nat
    /\ MaxRestarts \in Nat

VARIABLES incident,   \* [Incident -> status]            table incidents
          action,     \* [Incident -> status]            table actions
          verifies,   \* [Incident -> 0 .. MaxVerify]    verify_attempts
          fault,      \* [Incident -> "present"/"gone"]  what Ceph reports
          messages,   \* [Incident -> Nat]               diagnosis requests
          process,    \* [Worker -> "starting"/"running"]
          handler,    \* [Worker -> thread]              diagnose_incident
          poller,     \* [Worker -> thread]              approved actions
          operator,   \* [Operator -> thread]            approve or reject
          approvals,  \* history: approvals of an Action that has a command
          runs,       \* history: times its command was started
          refused,    \* history: Incidents whose last diagnosis could not
                      \* be recorded, the database refusing the status
          restarts    \* Worker restarts so far

rows == <<incident, action>>
history == <<approvals, runs, refused>>
vars == <<incident, action, verifies, fault, messages, process, handler,
          poller, operator, approvals, runs, refused, restarts>>

-----------------------------------------------------------------------------
IncidentStatus == {"NEW", "DIAGNOSING", "PENDING_APPROVAL", "APPROVED",
                   "EXECUTING", "VERIFYING", "RESOLVED", "REJECTED", "FAILED"}
ActionStatus == {"ABSENT", "PENDING", "PENDING_APPROVAL", "APPROVED",
                 "EXECUTED", "FAILED", "REJECTED", "INCONCLUSIVE"}

NonProcessable == {"VERIFYING", "RESOLVED", "REJECTED", "FAILED"}
Terminal == {"RESOLVED", "REJECTED"}                  \* and AUTO_FIXED
Cancellable == {"PENDING", "PENDING_APPROVAL"}
RecoverableOpen == {"NEW", "DIAGNOSING", "PENDING_APPROVAL", "APPROVED",
                    "EXECUTING"}                      \* mutant of Recoverable
Recoverable == {"NEW", "DIAGNOSING", "PENDING_APPROVAL", "APPROVED",
                "EXECUTING", "FAILED"}                \* VERIFYING left out

(* A thread is where it is and the Incident it works on.                   *)
HandlerPc == {"idle", "write", "diagnose", "route"}
PollerPc == {"idle", "check", "claim", "run", "record_ok", "record_failed"}
OperatorPc == {"idle", "approve", "reject"}
Idle == [pc |-> "idle", on |-> CHOOSE i \in Incident : TRUE]

TypeOK ==
    /\ incident \in [Incident -> IncidentStatus]
    /\ action \in [Incident -> ActionStatus]
    /\ verifies \in [Incident -> 0 .. MaxVerify]
    /\ fault \in [Incident -> {"present", "gone"}]
    /\ messages \in [Incident -> Nat]
    /\ process \in [Worker -> {"starting", "running"}]
    /\ handler \in [Worker -> [pc : HandlerPc, on : Incident]]
    /\ poller \in [Worker -> [pc : PollerPc, on : Incident]]
    /\ operator \in [Operator -> [pc : OperatorPc, on : Incident]]
    /\ approvals \in [Incident -> 0 .. MaxApprovals]
    /\ runs \in [Incident -> 0 .. MaxApprovals + 1]
    /\ refused \in SUBSET Incident
    /\ restarts \in 0 .. MaxRestarts

Init ==
    /\ incident = [i \in Incident |->
                     IF i \in Requested THEN "PENDING_APPROVAL" ELSE "NEW"]
    /\ action = [i \in Incident |->
                   IF i \in Requested THEN "PENDING_APPROVAL" ELSE "ABSENT"]
    /\ verifies = [i \in Incident |-> 0]
    /\ fault = [i \in Incident |->
                  IF i \in Requested THEN "gone" ELSE "present"]
    /\ messages = [i \in Incident |-> IF i \in Requested THEN 0 ELSE 1]
    /\ process = [w \in Worker |-> "starting"]
    /\ handler = [w \in Worker |-> Idle]
    /\ poller = [w \in Worker |-> Idle]
    /\ operator = [o \in Operator |-> Idle]
    /\ approvals = [i \in Incident |-> 0]
    /\ runs = [i \in Incident |-> 0]
    /\ refused = {}
    /\ restarts = 0

-----------------------------------------------------------------------------
(* Both rows of i in one transaction, whatever is in them now.             *)
Write(i, a, s) ==
    /\ action' = [action EXCEPT ![i] = a]
    /\ incident' = [incident EXCEPT ![i] = s]

WriteIncident(i, s) ==
    /\ incident' = [incident EXCEPT ![i] = s]
    /\ UNCHANGED action

At(pc, i) == [pc |-> pc, on |-> i]
Handler(w, t) == handler' = [handler EXCEPT ![w] = t]
Poller(w, t) == poller' = [poller EXCEPT ![w] = t]
Receive(i) == messages' = [messages EXCEPT ![i] = @ - 1]
Send(i) == messages' = [messages EXCEPT ![i] = @ + 1]

-----------------------------------------------------------------------------
(* The diagnosis, on behalf of one message.                                *)

(* _handle_message, the status check: a stale message is acknowledged.     *)
load_incident(w, i) ==
    /\ process[w] = "running" /\ handler[w].pc = "idle"
    /\ messages[i] > 0
    /\ Receive(i)
    /\ IF incident[i] \in NonProcessable
       THEN UNCHANGED handler
       ELSE Handler(w, At("write", i))
    /\ UNCHANGED <<rows, verifies, fault, process, poller, operator, history,
                   restarts>>

write_diagnosing(w) ==
    LET i == handler[w].on
    IN /\ handler[w].pc = "write"
       /\ WriteIncident(i, "DIAGNOSING")
       /\ Handler(w, At("diagnose", i))
       /\ refused' = refused \ {i}
       /\ UNCHANGED <<verifies, fault, messages, process, poller, operator,
                      approvals, runs, restarts>>

(* The load or the commit raises: the message goes to the dead letters, and*)
(* is not published again.                                                 *)
Refused(i) ==
    /\ refused' = refused \cup {i}
    /\ UNCHANGED <<rows, messages>>

write_refused(w) ==
    /\ handler[w].pc = "write"
    /\ Refused(handler[w].on)
    /\ Handler(w, Idle)
    /\ UNCHANGED <<verifies, fault, process, poller, operator, approvals,
                   runs, restarts>>

(* diagnose_incident, no Action yet: one is proposed, or none passes the   *)
(* confidence and target gates and the diagnosis ends FAILED.              *)
propose(w) ==
    LET i == handler[w].on
    IN /\ handler[w].pc = "diagnose"
       /\ action[i] = "ABSENT"
       /\ \/ /\ action' = [action EXCEPT ![i] = "PENDING"]
             /\ UNCHANGED incident
             /\ Handler(w, At("route", i))
          \/ /\ WriteIncident(i, "FAILED")
             /\ Handler(w, Idle)
       /\ UNCHANGED <<verifies, fault, messages, process, poller, operator,
                      history, restarts>>

(* uq_actions_idempotency_key_inflight: another health check already has   *)
(* the same command in flight, and the diagnosis returns.                  *)
InFlight == {"PENDING", "PENDING_APPROVAL", "APPROVED"}

propose_duplicate(w) ==
    LET i == handler[w].on
    IN /\ handler[w].pc = "diagnose"
       /\ action[i] = "ABSENT"
       /\ \E j \in Incident \ Requested : action[j] \in InFlight
       /\ Handler(w, Idle)
       /\ UNCHANGED <<rows, verifies, fault, messages, process, poller,
                      operator, history, restarts>>

(* An Action left PENDING by a diagnosis that died is routed again.        *)
reuse_pending(w) ==
    LET i == handler[w].on
    IN /\ handler[w].pc = "diagnose"
       /\ action[i] = "PENDING"
       /\ Handler(w, At("route", i))
       /\ UNCHANGED <<rows, verifies, fault, messages, process, poller,
                      operator, history, restarts>>

(* _INCIDENT_STATUS_FOR_RESOLVED_ACTION: the Incident follows an Action    *)
(* that an earlier diagnosis proposed.                                     *)
CopiedActionStatus(a) == a                \* mutant of ResolvedActionStatus
ResolvedActionStatus(a) ==
    CASE a \in {"PENDING_APPROVAL", "APPROVED", "REJECTED"} -> a
      [] a = "EXECUTED" -> "RESOLVED"
      [] a \in {"FAILED", "INCONCLUSIVE"} -> "FAILED"

restore(w) ==
    LET i == handler[w].on
    IN /\ handler[w].pc = "diagnose"
       /\ action[i] \notin {"ABSENT", "PENDING"}
       /\ WriteIncident(i, ResolvedActionStatus(action[i]))
       /\ Handler(w, Idle)
       /\ UNCHANGED <<verifies, fault, messages, process, poller, operator,
                      history, restarts>>

(* _route_risky_to_approval, or the automatic rejection while a cluster    *)
(* operation is under way.                                                 *)
route(w) ==
    LET i == handler[w].on
    IN /\ handler[w].pc = "route"
       /\ \E s \in {"PENDING_APPROVAL", "REJECTED"} : Write(i, s, s)
       /\ Handler(w, Idle)
       /\ UNCHANGED <<verifies, fault, messages, process, poller, operator,
                      history, restarts>>

(* _route_risky_to_approval raises: FAILED is recorded, or that raises,    *)
(* too, is logged, and the message is acknowledged all the same.           *)
route_raises(w) ==
    LET i == handler[w].on
    IN /\ handler[w].pc = "route"
       /\ \/ Write(i, "FAILED", "FAILED") /\ UNCHANGED <<messages, refused>>
          \/ Refused(i)
       /\ Handler(w, Idle)
       /\ UNCHANGED <<verifies, fault, process, poller, operator, approvals,
                      runs, restarts>>

(* Any other exception: the message is published again; or retries are     *)
(* exhausted, or publishing or acknowledging raised, and the Incident is   *)
(* FAILED; or the database refuses that twice, which is only logged before *)
(* the message goes to the dead letters.                                   *)
RetriesExhaustedUnnoticed(i) == UNCHANGED rows     \* mutant of the next one
RetriesExhausted(i) == WriteIncident(i, "FAILED")

diagnosis_raises(w) ==
    LET i == handler[w].on
    IN /\ handler[w].pc \in {"diagnose", "route"}
       /\ \/ Send(i) /\ UNCHANGED <<rows, refused>>
          \/ /\ RetriesExhausted(i)
             /\ Send(i) \/ UNCHANGED messages
             /\ UNCHANGED refused
          \/ Refused(i)
       /\ Handler(w, Idle)
       /\ UNCHANGED <<verifies, fault, process, poller, operator, approvals,
                      runs, restarts>>

-----------------------------------------------------------------------------
(* Operators.  approve_action_core and reject_action_core read a pending   *)
(* Action, check for conflicts (over SSH, too), then write.                *)
open_decision(o, i) ==
    /\ operator[o].pc = "idle"
    /\ action[i] = "PENDING_APPROVAL"
    /\ \E pc \in {"approve", "reject"} :
         operator' = [operator EXCEPT ![o] = At(pc, i)]
    /\ UNCHANGED <<rows, verifies, fault, messages, process, handler, poller,
                   history, restarts>>

DecidedOpen(o) == UNCHANGED operator      \* mutant: it can be sent again
Decided(o) == operator' = [operator EXCEPT ![o] = Idle]

approve(o) ==
    LET i == operator[o].on
    IN /\ operator[o].pc = "approve"
       /\ approvals[i] < MaxApprovals
       /\ IF i \in Manual
          THEN Write(i, "EXECUTED", "RESOLVED") /\ UNCHANGED approvals
          ELSE /\ Write(i, "APPROVED", "APPROVED")
               /\ approvals' = [approvals EXCEPT ![i] = @ + 1]
       /\ Decided(o)
       /\ UNCHANGED <<verifies, fault, messages, process, handler, poller,
                      runs, refused, restarts>>

(* The proposal expired, or conflicts with another operation.              *)
approve_refused(o) ==
    /\ operator[o].pc = "approve"
    /\ Decided(o)
    /\ UNCHANGED <<rows, verifies, fault, messages, process, handler, poller,
                   history, restarts>>

reject(o) ==
    /\ operator[o].pc = "reject"
    /\ Write(operator[o].on, "REJECTED", "REJECTED")
    /\ Decided(o)
    /\ UNCHANGED <<verifies, fault, messages, process, handler, poller,
                   history, restarts>>

-----------------------------------------------------------------------------
(* _execute_approved_action, for every Action the poller found APPROVED.   *)
load_approved(w, i) ==
    /\ process[w] = "running" /\ poller[w].pc = "idle"
    /\ action[i] = "APPROVED"
    /\ Poller(w, At("check", i))
    /\ UNCHANGED <<rows, verifies, fault, messages, process, handler,
                   operator, history, restarts>>

(* The policy class or the change-risk evidence is no longer what was      *)
(* approved, or the Incident is synthetic.                                 *)
withdraw_approval(w) ==
    LET i == poller[w].on
    IN /\ poller[w].pc = "check"
       /\ \E s \in {"PENDING_APPROVAL", "REJECTED"} : Write(i, s, s)
       /\ Poller(w, Idle)
       /\ UNCHANGED <<verifies, fault, messages, process, handler, operator,
                      history, restarts>>

confirm_approval(w) ==
    /\ poller[w].pc = "check"
    /\ Poller(w, At("claim", poller[w].on))
    /\ UNCHANGED <<rows, verifies, fault, messages, process, handler,
                   operator, history, restarts>>

(* The execution claim: UPDATE ... WHERE status != EXECUTING.              *)
ClaimAnyway(i) == TRUE                    \* mutant of ClaimFree
ClaimFree(i) == incident[i] # "EXECUTING"

claim(w) ==
    LET i == poller[w].on
    IN /\ poller[w].pc = "claim"
       /\ \/ /\ ClaimFree(i)
             /\ WriteIncident(i, "EXECUTING")
             /\ Poller(w, At("run", i))
          \/ /\ ~ClaimFree(i)
             /\ Poller(w, Idle)
             /\ UNCHANGED rows
       /\ UNCHANGED <<verifies, fault, messages, process, handler, operator,
                      history, restarts>>

(* The command starts on the cluster and ends well or not.  The count of   *)
(* runs stops one above any count of approvals.                            *)
OneMore(n) == IF n <= MaxApprovals THEN n + 1 ELSE n

run_command(w) ==
    LET i == poller[w].on
    IN /\ poller[w].pc = "run"
       /\ runs' = [runs EXCEPT ![i] = OneMore(@)]
       /\ \E pc \in {"record_ok", "record_failed"} : Poller(w, At(pc, i))
       /\ UNCHANGED <<rows, verifies, fault, messages, process, handler,
                      operator, approvals, refused, restarts>>

(* Binding, target nodes or live safety refuse before anything runs, or an *)
(* exception ends the execution: FAILED is recorded either way.            *)
execution_refused(w) ==
    /\ poller[w].pc \in {"check", "claim", "run"}
    /\ Poller(w, At("record_failed", poller[w].on))
    /\ UNCHANGED <<rows, verifies, fault, messages, process, handler,
                   operator, history, restarts>>

(* _record_approved_execution_result.  Some requests (CHAT_REQUEST,        *)
(* CLUSTER_UPGRADE) are not verified.                                      *)
AfterSuccess(i) ==
    IF i \in Requested THEN {"VERIFYING", "RESOLVED"} ELSE {"VERIFYING"}

record(w) ==
    LET i == poller[w].on
    IN /\ \/ /\ poller[w].pc = "record_ok"
             /\ \E s \in AfterSuccess(i) : Write(i, "EXECUTED", s)
          \/ /\ poller[w].pc = "record_failed"
             /\ Write(i, "FAILED", "FAILED")
       /\ Poller(w, Idle)
       /\ UNCHANGED <<verifies, fault, messages, process, handler, operator,
                      history, restarts>>

(* The database refuses: the result of a command that ran is recorded      *)
(* FAILED, and a FAILED that cannot be written is only logged.             *)
record_raises(w) ==
    /\ \/ poller[w].pc = "record_ok"
          /\ Poller(w, At("record_failed", poller[w].on))
       \/ poller[w].pc = "record_failed"
          /\ Poller(w, Idle)
    /\ UNCHANGED <<rows, verifies, fault, messages, process, handler,
                   operator, history, restarts>>

Interrupted(i) == action[i] = "APPROVED" /\ incident[i] = "EXECUTING"

(* _reconcile_stuck_rbd_actions_once: the poller reads from the cluster    *)
(* what became of an RBD command nobody recorded for ten minutes.          *)
reconcile_stuck_rbd(w, i) ==
    /\ process[w] = "running" /\ poller[w].pc = "idle"
    /\ i \in Rbd /\ Interrupted(i)
    /\ \E pc \in {"record_ok", "record_failed"} : Poller(w, At(pc, i))
    /\ UNCHANGED <<rows, verifies, fault, messages, process, handler,
                   operator, history, restarts>>

-----------------------------------------------------------------------------
(* A Worker stops at any point and starts again.                           *)
WorkerRestart(w) ==
    /\ process[w] = "running"
    /\ restarts < MaxRestarts
    /\ restarts' = restarts + 1
    /\ process' = [process EXCEPT ![w] = "starting"]
    /\ IF handler[w].pc = "idle" THEN UNCHANGED messages
       ELSE Send(handler[w].on)
    /\ Handler(w, Idle)
    /\ Poller(w, Idle)
    /\ UNCHANGED <<rows, verifies, fault, operator, history>>

(* reconcile_interrupted_approved_executions, before any loop starts.      *)
reconcile_interrupted(w) ==
    /\ process[w] = "starting"
    /\ action' = [i \in Incident |->
                    IF Interrupted(i) THEN "INCONCLUSIVE" ELSE action[i]]
    /\ incident' = [i \in Incident |->
                      IF Interrupted(i) THEN "FAILED" ELSE incident[i]]
    /\ process' = [process EXCEPT ![w] = "running"]
    /\ UNCHANGED <<verifies, fault, messages, handler, poller, operator,
                   history, restarts>>

(* _reconcile_interrupted_approved_actions logs an exception and goes on.  *)
reconcile_raises(w) ==
    /\ process[w] = "starting"
    /\ process' = [process EXCEPT ![w] = "running"]
    /\ UNCHANGED <<rows, verifies, fault, messages, handler, poller, operator,
                   history, restarts>>

-----------------------------------------------------------------------------
(* The Watcher.                                                            *)

(* cancel_pending_actions.                                                 *)
CancelledPending(a) == IF a = "PENDING" THEN "REJECTED" ELSE a  \* mutants of
CancelledApproved(a) ==                                         \* Cancelled
    IF a \in Cancellable \cup {"APPROVED"} THEN "REJECTED" ELSE a
Cancelled(a) == IF a \in Cancellable THEN "REJECTED" ELSE a

(* _resolve_recovered_incidents: health no longer reports the check.       *)
resolve_recovered(i) ==
    /\ i \notin Requested
    /\ fault[i] = "gone"
    /\ incident[i] \in Recoverable
    /\ Write(i, Cancelled(action[i]), "RESOLVED")
    /\ UNCHANGED <<verifies, fault, messages, process, handler, poller,
                   operator, history, restarts>>

(* reconcile_terminal_incident_actions.                                    *)
reconcile_terminal(i) ==
    /\ incident[i] \in Terminal
    /\ action[i] \in Cancellable
    /\ action' = [action EXCEPT ![i] = Cancelled(@)]
    /\ UNCHANGED <<incident, verifies, fault, messages, process, handler,
                   poller, operator, history, restarts>>

(* verify_pending_incidents: without an executed Action, or with a failed  *)
(* contract, it is inconclusive.  MaxVerify bounds the count of attempts.  *)
verify_passed(i) ==
    /\ incident[i] = "VERIFYING"
    /\ action[i] = "EXECUTED" /\ fault[i] = "gone"
    /\ WriteIncident(i, "RESOLVED")
    /\ UNCHANGED <<verifies, fault, messages, process, handler, poller,
                   operator, history, restarts>>

verify_inconclusive(i) ==
    /\ incident[i] = "VERIFYING"
    /\ WriteIncident(i, "FAILED")
    /\ UNCHANGED <<verifies, fault, messages, process, handler, poller,
                   operator, history, restarts>>

verify_failed(i) ==
    /\ incident[i] = "VERIFYING"
    /\ action[i] = "EXECUTED" /\ fault[i] = "present"
    /\ \/ /\ verifies[i] + 1 < MaxVerify
          /\ verifies' = [verifies EXCEPT ![i] = @ + 1]
          /\ WriteIncident(i, "DIAGNOSING")
          /\ Send(i)
       \/ /\ verifies[i] + 1 >= MaxVerify
          /\ verifies' = [verifies EXCEPT ![i] = MaxVerify]
          /\ WriteIncident(i, "FAILED")
          /\ UNCHANGED messages
    /\ UNCHANGED <<fault, process, handler, poller, operator, history,
                   restarts>>

(* Ceph stops reporting the check, or reports it again.                    *)
FaultChanges(i) ==
    /\ i \notin Requested
    /\ fault' = [fault EXCEPT ![i] = IF @ = "gone" THEN "present" ELSE "gone"]
    /\ UNCHANGED <<rows, verifies, messages, process, handler, poller,
                   operator, history, restarts>>

-----------------------------------------------------------------------------
HandlerStep(w) ==
    \/ \E i \in Incident : load_incident(w, i)
    \/ write_diagnosing(w)
    \/ write_refused(w)
    \/ propose(w)
    \/ propose_duplicate(w)
    \/ reuse_pending(w)
    \/ restore(w)
    \/ route(w)
    \/ route_raises(w)
    \/ diagnosis_raises(w)

PollerStep(w) ==
    \/ \E i \in Incident : load_approved(w, i)
    \/ withdraw_approval(w)
    \/ confirm_approval(w)
    \/ claim(w)
    \/ run_command(w)
    \/ execution_refused(w)
    \/ record(w)
    \/ record_raises(w)
    \/ \E i \in Incident : reconcile_stuck_rbd(w, i)

ProcessStep(w) ==
    \/ WorkerRestart(w)
    \/ reconcile_interrupted(w)
    \/ reconcile_raises(w)

OperatorStep(o) ==
    \/ \E i \in Incident : open_decision(o, i)
    \/ approve(o)
    \/ approve_refused(o)
    \/ reject(o)

WatcherStep(i) ==
    \/ resolve_recovered(i)
    \/ reconcile_terminal(i)
    \/ verify_passed(i)
    \/ verify_inconclusive(i)
    \/ verify_failed(i)
    \/ FaultChanges(i)

Next ==
    \/ \E w \in Worker : HandlerStep(w) \/ PollerStep(w) \/ ProcessStep(w)
    \/ \E o \in Operator : OperatorStep(o)
    \/ \E i \in Incident : WatcherStep(i)

Spec == Init /\ [][Next]_vars

(* The Watcher polls, verifies and reconciles for ever; every loop of a    *)
(* running Worker goes on, and a stopped Worker is started again.          *)
Fairness ==
    /\ \A i \in Incident :
         /\ WF_vars(resolve_recovered(i))
         /\ WF_vars(reconcile_terminal(i))
         /\ WF_vars(verify_passed(i) \/ verify_inconclusive(i)
                      \/ verify_failed(i))
    /\ \A w \in Worker :
         /\ WF_vars(HandlerStep(w))
         /\ WF_vars(PollerStep(w))
         /\ WF_vars(reconcile_interrupted(w) \/ reconcile_raises(w))

FairSpec == Spec /\ Fairness
-----------------------------------------------------------------------------
(* Properties.                                                             *)

(* An approval of an operator's request starts its command at most once,   *)
(* across restarts (reconcile_interrupted_approved_executions: "never      *)
(* re-run them"; _execute_approved_action: the atomic execution claim).    *)
OneRunPerApproval == \A i \in Requested : runs[i] <= approvals[i]

(* The promise of an approval queue, kept for operators' requests through  *)
(* restarts, failed reconciles and withdrawn approvals.  A grant is still  *)
(* good while nobody claimed it, or who claimed it is about to run it.     *)
Running(w, i) == poller[w].pc = "run" /\ poller[w].on = i
Unused(i) ==
    \/ action[i] = "APPROVED" /\ incident[i] = "APPROVED"
    \/ \E w \in Worker : Running(w, i)
Decision(i) ==
    CASE action[i] = "PENDING_APPROVAL" -> "waiting"
      [] action[i] = "APPROVED" -> IF Unused(i) THEN "granted" ELSE "spent"
      [] OTHER -> "closed"

Promise == INSTANCE Approval WITH
             Request <- Requested,
             state <- [i \in Requested |-> Decision(i)],
             grants <- [i \in Requested |-> approvals[i]],
             starts <- [i \in Requested |-> runs[i]]

ApprovalKept == Promise!Spec

(* The same for every Incident, those the Watcher resolves included.       *)
NeverRerun == \A i \in Incident : runs[i] <= approvals[i]

(* An Incident that is EXECUTING has an APPROVED Action, so that an        *)
(* execution that stops half way is a pair the next start looks for.       *)
InterruptedIsFound ==
    \A i \in Incident : incident[i] = "EXECUTING" => action[i] = "APPROVED"

(* An Incident is DIAGNOSING only while somebody diagnoses it or is asked  *)
(* to: a diagnosis that ends leaves another status "rather than left       *)
(* stuck" (_INCIDENT_STATUS_FOR_RESOLVED_ACTION's comment), unless the     *)
(* database refused the status of the last one (fallback FAILED update).   *)
DiagnosisConcludes ==
    \A i \in Incident \ refused :
      incident[i] = "DIAGNOSING"
        => \/ messages[i] > 0
           \/ \E w \in Worker : handler[w].pc # "idle" /\ handler[w].on = i

(* A proposal does not outlive its Incident: once that is closed, whoever  *)
(* wrote the proposal meanwhile, it is cancelled (shared/incident_actions).*)
Zombie(i) == incident[i] \in Terminal /\ action[i] \in Cancellable

ZombieEventuallyCancelled == \A i \in Incident : Zombie(i) ~> ~Zombie(i)

(* Once Ceph has stopped reporting a check for good its Incident is closed,*)
(* wherever diagnosis, approval, execution and verification had got to.    *)
RecoveryIsClosed ==
    \A i \in Incident \ Requested :
      <>[](fault[i] = "gone") => []<>(incident[i] \in Terminal)
=============================================================================
