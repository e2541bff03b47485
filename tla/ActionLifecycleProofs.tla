------------------------ MODULE ActionLifecycleProofs ------------------------
(***************************************************************************)
(* Theorems about ActionLifecycle: the state is typed for any number of    *)
(* Workers and operators; where one Worker executes and one operator       *)
(* decides, an interrupted execution is one the next start looks for, and  *)
(* an approved request runs at most once, whatever restarts in between,    *)
(* and the lifecycle of requests implements Approval; and with one health  *)
(* check every diagnosis is concluded that the database lets record it.    *)
(***************************************************************************)
EXTENDS ActionLifecycle, TLAPS

-----------------------------------------------------------------------------
(* Type correctness.                                                       *)

LEMMA IdleThread == Idle \in [pc : {"idle"}, on : Incident]
BY LifecycleAssumption DEF Idle, LifecycleAssumption

LEMMA StatusAfterRestore ==
  ASSUME NEW a \in ActionStatus \ {"ABSENT", "PENDING"}
  PROVE  ResolvedActionStatus(a) \in IncidentStatus
BY DEF ResolvedActionStatus, ActionStatus, IncidentStatus

LEMMA CancelledStatus ==
  ASSUME NEW a \in ActionStatus
  PROVE  /\ Cancelled(a) \in ActionStatus
         /\ Cancelled(a) \in {a, "REJECTED"}
         /\ a = "APPROVED" => Cancelled(a) = a
BY DEF Cancelled, Cancellable, ActionStatus

(* TypeOK, one conjunct after the other.                                   *)
LEMMA WriteTyped ==
  ASSUME TypeOK, NEW i \in Incident, NEW a \in ActionStatus,
         NEW s \in IncidentStatus, Write(i, a, s)
  PROVE  /\ action' \in [Incident -> ActionStatus]
         /\ incident' \in [Incident -> IncidentStatus]
BY DEF TypeOK, Write

LEMMA WriteIncidentTyped ==
  ASSUME TypeOK, NEW i \in Incident, NEW s \in IncidentStatus,
         WriteIncident(i, s)
  PROVE  /\ action' \in [Incident -> ActionStatus]
         /\ incident' \in [Incident -> IncidentStatus]
BY DEF TypeOK, WriteIncident

LEMMA HandlerTyped ==
  ASSUME TypeOK, NEW w \in Worker, HandlerStep(w)
  PROVE  TypeOK'
<1> USE DEF TypeOK, Handler, At, HandlerPc
<1>0. /\ handler[w].on \in Incident
      /\ handler[w].pc \in HandlerPc
  OBVIOUS
<1>a. Idle \in [pc : HandlerPc, on : Incident]
  BY <1>0, IdleThread
<1>1. ASSUME NEW i \in Incident, load_incident(w, i) PROVE TypeOK'
  <2>1. messages' \in [Incident -> Nat]
    BY <1>1 DEF load_incident, Receive
  <2>2. handler' \in [Worker -> [pc : HandlerPc, on : Incident]]
    BY <1>1 DEF load_incident
  <2> QED
    BY <1>1, <2>1, <2>2 DEF load_incident, rows, history
<1>2. CASE write_diagnosing(w)
  BY <1>0, <1>2 DEF write_diagnosing, WriteIncident, IncidentStatus
<1>3. CASE propose(w)
  <2>1. CASE /\ action' = [action EXCEPT ![handler[w].on] = "PENDING"]
             /\ UNCHANGED incident
             /\ Handler(w, At("route", handler[w].on))
    BY <1>0, <1>3, <2>1 DEF propose, history, ActionStatus
  <2>2. CASE WriteIncident(handler[w].on, "FAILED") /\ Handler(w, Idle)
    BY <1>0, <1>a, <1>3, <2>2
       DEF propose, history, WriteIncident, IncidentStatus
  <2> QED
    BY <1>3, <2>1, <2>2 DEF propose
<1>4. CASE reuse_pending(w)
  BY <1>0, <1>4 DEF reuse_pending, rows, history
<1>5. CASE propose_duplicate(w)
  BY <1>a, <1>5 DEF propose_duplicate, rows, history
<1>6. CASE restore(w)
  <2>1. ResolvedActionStatus(action[handler[w].on]) \in IncidentStatus
    BY <1>0, <1>6, StatusAfterRestore DEF restore
  <2> QED
    BY <1>0, <1>a, <1>6, <2>1 DEF restore, history, WriteIncident
<1>7. CASE route(w)
  BY <1>0, <1>a, <1>7
     DEF route, history, Write, IncidentStatus, ActionStatus
<1>8. CASE diagnosis_raises(w)
  <2>1. messages' \in [Incident -> Nat]
    BY <1>0, <1>8 DEF diagnosis_raises, Refused, Send
  <2>2. refused' \in SUBSET Incident
    BY <1>0, <1>8 DEF diagnosis_raises, Refused
  <2>3. /\ incident' \in [Incident -> IncidentStatus]
        /\ action' \in [Incident -> ActionStatus]
    BY <1>0, <1>8 DEF diagnosis_raises, RetriesExhausted, Refused, rows,
                      WriteIncident, IncidentStatus
  <2> QED
    BY <1>a, <1>8, <2>1, <2>2, <2>3 DEF diagnosis_raises
<1>9. CASE write_refused(w)
  BY <1>0, <1>a, <1>9 DEF write_refused, Refused, rows
<1>10. CASE route_raises(w)
  BY <1>0, <1>a, <1>10
     DEF route_raises, Refused, rows, Write, IncidentStatus, ActionStatus
<1> QED
  BY <1>1, <1>2, <1>3, <1>4, <1>5, <1>6, <1>7, <1>8, <1>9, <1>10
     DEF HandlerStep

LEMMA PollerTyped ==
  ASSUME TypeOK, NEW w \in Worker, PollerStep(w)
  PROVE  TypeOK'
<1> USE DEF TypeOK, Poller, At, PollerPc
<1>0. /\ poller[w].on \in Incident
      /\ poller[w].pc \in PollerPc
  OBVIOUS
<1>a. Idle \in [pc : PollerPc, on : Incident]
  BY <1>0, IdleThread
<1>1. ASSUME NEW i \in Incident, load_approved(w, i) PROVE TypeOK'
  BY <1>1 DEF load_approved, rows, history
<1>2. CASE withdraw_approval(w)
  BY <1>0, <1>a, <1>2
     DEF withdraw_approval, history, Write, IncidentStatus, ActionStatus
<1>3. CASE confirm_approval(w)
  BY <1>0, <1>3 DEF confirm_approval, rows, history
<1>4. CASE claim(w)
  <2>1. CASE /\ WriteIncident(poller[w].on, "EXECUTING")
             /\ Poller(w, At("run", poller[w].on))
    BY <1>0, <1>4, <2>1 DEF claim, history, WriteIncident, IncidentStatus
  <2>2. CASE Poller(w, Idle) /\ UNCHANGED rows
    BY <1>0, <1>a, <1>4, <2>2 DEF claim, rows, history
  <2> QED
    BY <1>4, <2>1, <2>2 DEF claim
<1>5. CASE run_command(w)
  <2>1. runs' \in [Incident -> 0 .. MaxApprovals + 1]
    BY <1>0, <1>5, LifecycleAssumption
       DEF run_command, OneMore, LifecycleAssumption
  <2> QED
    BY <1>0, <1>5, <2>1 DEF run_command, rows, history
<1>6. CASE execution_refused(w)
  BY <1>0, <1>6 DEF execution_refused, rows, history
<1>7. CASE record(w)
  <2>1. PICK a \in ActionStatus, s \in IncidentStatus :
          Write(poller[w].on, a, s)
    BY <1>7 DEF record, AfterSuccess, IncidentStatus, ActionStatus
  <2> QED
    BY <1>0, <1>a, <1>7, <2>1 DEF record, history, Write
<1>8. CASE record_raises(w)
  BY <1>0, <1>a, <1>8 DEF record_raises, rows, history
<1>9. ASSUME NEW i \in Incident, reconcile_stuck_rbd(w, i) PROVE TypeOK'
  BY <1>9 DEF reconcile_stuck_rbd, rows, history
<1> QED
  BY <1>1, <1>2, <1>3, <1>4, <1>5, <1>6, <1>7, <1>8, <1>9
     DEF PollerStep

LEMMA ProcessTyped ==
  ASSUME TypeOK, NEW w \in Worker, ProcessStep(w)
  PROVE  TypeOK'
<1>0. /\ handler[w].on \in Incident
      /\ restarts \in Nat /\ MaxRestarts \in Nat
  BY LifecycleAssumption DEF TypeOK, LifecycleAssumption
<1>1. CASE WorkerRestart(w)
  <2>1. /\ Idle \in [pc : HandlerPc, on : Incident]
        /\ Idle \in [pc : PollerPc, on : Incident]
    BY <1>0, IdleThread DEF HandlerPc, PollerPc
  <2>2. messages' \in [Incident -> Nat]
    <3>1. CASE UNCHANGED messages
      BY <3>1 DEF TypeOK
    <3>2. CASE Send(handler[w].on)
      BY <1>0, <3>2 DEF TypeOK, Send
    <3> QED
      BY <1>1, <3>1, <3>2 DEF WorkerRestart
  <2>3. restarts' \in 0 .. MaxRestarts
    BY <1>0, <1>1 DEF WorkerRestart
  <2> QED
    BY <1>1, <2>1, <2>2, <2>3
       DEF TypeOK, WorkerRestart, rows, history, Handler, Poller
<1>2. CASE reconcile_interrupted(w)
  BY <1>2 DEF TypeOK, reconcile_interrupted, history, IncidentStatus,
              ActionStatus
<1>3. CASE reconcile_raises(w)
  BY <1>3 DEF TypeOK, reconcile_raises, rows, history
<1> QED
  BY <1>1, <1>2, <1>3, ProcessStep(w) DEF ProcessStep

LEMMA OperatorTyped ==
  ASSUME TypeOK, NEW o \in Operator, OperatorStep(o)
  PROVE  TypeOK'
<1> USE DEF TypeOK, At, OperatorPc, Decided
<1>0. /\ operator[o].on \in Incident
      /\ MaxApprovals \in Nat
  BY LifecycleAssumption DEF LifecycleAssumption
<1>a. Idle \in [pc : OperatorPc, on : Incident]
  BY <1>0, IdleThread
<1>1. ASSUME NEW i \in Incident, open_decision(o, i) PROVE TypeOK'
  BY <1>1 DEF open_decision, rows, history
<1>2. CASE approve(o)
  <2>1. CASE operator[o].on \in Manual
    BY <1>0, <1>a, <1>2, <2>1 DEF approve, Write, IncidentStatus, ActionStatus
  <2>2. CASE operator[o].on \notin Manual
    <3>1. Write(operator[o].on, "APPROVED", "APPROVED")
      BY <1>2, <2>2 DEF approve
    <3>2. approvals' \in [Incident -> 0 .. MaxApprovals]
      BY <1>0, <1>2, <2>2 DEF approve
    <3> QED
      BY <1>0, <1>a, <1>2, <3>1, <3>2
         DEF approve, Write, IncidentStatus, ActionStatus
  <2> QED
    BY <2>1, <2>2
<1>3. CASE approve_refused(o)
  BY <1>a, <1>3 DEF approve_refused, rows, history
<1>4. CASE reject(o)
  BY <1>0, <1>a, <1>4
     DEF reject, history, Write, IncidentStatus, ActionStatus
<1> QED
  BY <1>1, <1>2, <1>3, <1>4 DEF OperatorStep

LEMMA WatcherTyped ==
  ASSUME TypeOK, NEW i \in Incident, WatcherStep(i)
  PROVE  TypeOK'
<1> USE DEF TypeOK
<1>0. /\ Cancelled(action[i]) \in ActionStatus
      /\ verifies[i] \in Nat /\ MaxVerify \in Nat
  BY CancelledStatus, LifecycleAssumption DEF LifecycleAssumption
<1>1. CASE resolve_recovered(i)
  BY <1>0, <1>1 DEF resolve_recovered, history, Write, IncidentStatus
<1>2. CASE reconcile_terminal(i)
  BY <1>0, <1>2 DEF reconcile_terminal, history
<1>3. CASE verify_passed(i) \/ verify_inconclusive(i)
  BY <1>3 DEF verify_passed, verify_inconclusive, history, WriteIncident,
              IncidentStatus
<1>4. CASE verify_failed(i)
  <2>1. CASE /\ verifies[i] + 1 < MaxVerify
             /\ verifies' = [verifies EXCEPT ![i] = @ + 1]
             /\ WriteIncident(i, "DIAGNOSING")
             /\ Send(i)
    BY <1>0, <1>4, <2>1 DEF verify_failed, history, WriteIncident, Send,
                            IncidentStatus
  <2>2. CASE /\ verifies' = [verifies EXCEPT ![i] = MaxVerify]
             /\ WriteIncident(i, "FAILED")
             /\ UNCHANGED messages
    BY <1>0, <1>4, <2>2 DEF verify_failed, history, WriteIncident,
                            IncidentStatus
  <2> QED
    BY <1>4, <2>1, <2>2 DEF verify_failed
<1>5. CASE FaultChanges(i)
  BY <1>5 DEF FaultChanges, rows, history
<1> QED
  BY <1>1, <1>2, <1>3, <1>4, <1>5 DEF WatcherStep

(* Every column keeps its domain, for any set of Incidents, Workers and    *)
(* operators; in particular no diagnosis restores an Incident to a status  *)
(* of its Action that Incidents do not have (restore).                     *)
THEOREM LifecycleTypeCorrect == Spec => []TypeOK
<1>1. Init => TypeOK
  <2>1. /\ Idle \in [pc : HandlerPc, on : Incident]
        /\ Idle \in [pc : PollerPc, on : Incident]
        /\ Idle \in [pc : OperatorPc, on : Incident]
    BY IdleThread DEF HandlerPc, PollerPc, OperatorPc
  <2> QED
    BY LifecycleAssumption, <2>1
       DEF LifecycleAssumption, Init, TypeOK, IncidentStatus, ActionStatus
<1>2. TypeOK /\ [Next]_vars => TypeOK'
  <2>1. ASSUME TypeOK, UNCHANGED vars PROVE TypeOK'
    BY <2>1 DEF TypeOK, vars
  <2> QED
    BY <2>1, HandlerTyped, PollerTyped, ProcessTyped, OperatorTyped,
       WatcherTyped DEF Next
<1> QED
  BY <1>1, <1>2, PTL DEF Spec

-----------------------------------------------------------------------------
(* Where there is one Worker and one operator, the inductive invariant.    *)

OneOfEach ==
    /\ \A v, w \in Worker : v = w
    /\ \A o, p \in Operator : o = p

(* A Worker that is starting has no thread in the middle of anything.      *)
StartingIsIdle ==
    \A w \in Worker :
      process[w] = "starting" => handler[w].pc = "idle" /\ poller[w].pc = "idle"

(* What the thread's earlier read still tells of the row it will write.    *)
DecisionOpen ==
    \A o \in Operator :
      operator[o].pc # "idle"
        => action[operator[o].on] \in {"PENDING_APPROVAL", "REJECTED"}

RoutingUndecided ==
    \A w \in Worker :
      handler[w].pc = "route"
        => action[handler[w].on] \in {"PENDING", "REJECTED"}

RoutingAlone ==
    \A w \in Worker, o \in Operator :
      handler[w].pc = "route" /\ operator[o].pc # "idle"
        => operator[o].on # handler[w].on

ExecutingApproved ==
    \A w \in Worker :
      poller[w].pc # "idle" => action[poller[w].on] = "APPROVED"

Exclusion ==
    /\ StartingIsIdle
    /\ DecisionOpen
    /\ RoutingUndecided
    /\ RoutingAlone
    /\ ExecutingApproved
    /\ InterruptedIsFound

(* A request is never diagnosed, so its Incident follows its Action.       *)
Undiagnosed(i) ==
    /\ messages[i] = 0
    /\ fault[i] = "gone"
    /\ \A w \in Worker : handler[w].pc # "idle" => handler[w].on # i

Paired(i) ==
    /\ action[i] = "PENDING_APPROVAL" => incident[i] = "PENDING_APPROVAL"
    /\ action[i] = "APPROVED" => incident[i] \in {"APPROVED", "EXECUTING"}

ClaimHeld(i) ==
    \A w \in Worker :
      poller[w].on = i /\ poller[w].pc \in {"run", "record_ok"}
        => incident[i] = "EXECUTING"

Counted(i) ==
    /\ runs[i] <= approvals[i]
    /\ Unused(i) => runs[i] + 1 <= approvals[i]

RequestInv ==
    \A i \in Requested :
      Undiagnosed(i) /\ Paired(i) /\ ClaimHeld(i) /\ Counted(i)

LEMMA ExclusionHandler ==
  ASSUME OneOfEach, TypeOK, Exclusion, NEW w \in Worker, HandlerStep(w)
  PROVE  Exclusion'
<1> USE DEF OneOfEach, TypeOK, Exclusion, StartingIsIdle, DecisionOpen,
            RoutingUndecided, RoutingAlone, ExecutingApproved,
            InterruptedIsFound, Handler, At
<1>a. Idle.pc = "idle"
  BY DEF Idle
<1>1. ASSUME NEW i \in Incident, load_incident(w, i) PROVE Exclusion'
  BY <1>1 DEF load_incident, rows
<1>2. CASE write_diagnosing(w)
  BY <1>2 DEF write_diagnosing, WriteIncident
<1>3. CASE propose(w)
  <2>1. CASE /\ action' = [action EXCEPT ![handler[w].on] = "PENDING"]
             /\ UNCHANGED incident
             /\ Handler(w, At("route", handler[w].on))
    BY <1>3, <2>1 DEF propose
  <2>2. CASE WriteIncident(handler[w].on, "FAILED") /\ Handler(w, Idle)
    BY <1>a, <1>3, <2>2 DEF propose, WriteIncident
  <2> QED
    BY <1>3, <2>1, <2>2 DEF propose
<1>4. CASE reuse_pending(w)
  BY <1>4 DEF reuse_pending, rows
<1>5. CASE propose_duplicate(w)
  BY <1>a, <1>5 DEF propose_duplicate, rows
<1>6. CASE restore(w)
  BY <1>a, <1>6 DEF restore, WriteIncident, ResolvedActionStatus, ActionStatus
<1>7. CASE route(w)
  BY <1>a, <1>7 DEF route, Write
<1>8. CASE diagnosis_raises(w)
  <2>1. CASE UNCHANGED rows
    BY <1>a, <1>8, <2>1 DEF diagnosis_raises, rows
  <2>2. CASE WriteIncident(handler[w].on, "FAILED")
    BY <1>a, <1>8, <2>2 DEF diagnosis_raises, WriteIncident
  <2> QED
    BY <1>8, <2>1, <2>2 DEF diagnosis_raises, RetriesExhausted, Refused
<1>9. CASE write_refused(w)
  BY <1>a, <1>9 DEF write_refused, Refused, rows
<1>10. CASE route_raises(w)
  <2>1. CASE UNCHANGED rows
    BY <1>a, <1>10, <2>1 DEF route_raises, rows
  <2>2. CASE Write(handler[w].on, "FAILED", "FAILED")
    BY <1>a, <1>10, <2>2 DEF route_raises, Write
  <2> QED
    BY <1>10, <2>1, <2>2 DEF route_raises, Refused
<1> QED
  BY <1>1, <1>2, <1>3, <1>4, <1>5, <1>6, <1>7, <1>8, <1>9, <1>10
     DEF HandlerStep

LEMMA ExclusionPoller ==
  ASSUME OneOfEach, TypeOK, Exclusion, NEW w \in Worker, PollerStep(w)
  PROVE  Exclusion'
<1> USE DEF OneOfEach, TypeOK, Exclusion, StartingIsIdle, DecisionOpen,
            RoutingUndecided, RoutingAlone, ExecutingApproved,
            InterruptedIsFound, Poller, At
<1>a. Idle.pc = "idle"
  BY DEF Idle
<1>1. ASSUME NEW i \in Incident, load_approved(w, i) PROVE Exclusion'
  BY <1>1 DEF load_approved, rows
<1>2. CASE withdraw_approval(w)
  BY <1>a, <1>2 DEF withdraw_approval, Write
<1>3. CASE confirm_approval(w)
  BY <1>3 DEF confirm_approval, rows
<1>4. CASE claim(w)
  BY <1>a, <1>4 DEF claim, rows, WriteIncident
<1>5. CASE run_command(w)
  BY <1>5 DEF run_command, rows
<1>6. CASE execution_refused(w)
  BY <1>6 DEF execution_refused, rows
<1>7. CASE record(w)
  BY <1>a, <1>7 DEF record, Write, AfterSuccess
<1>8. CASE record_raises(w)
  BY <1>a, <1>8 DEF record_raises, rows
<1>9. ASSUME NEW i \in Incident, reconcile_stuck_rbd(w, i) PROVE Exclusion'
  BY <1>9 DEF reconcile_stuck_rbd, Interrupted, rows
<1> QED
  BY <1>1, <1>2, <1>3, <1>4, <1>5, <1>6, <1>7, <1>8, <1>9
     DEF PollerStep

LEMMA ExclusionProcess ==
  ASSUME OneOfEach, TypeOK, Exclusion, NEW w \in Worker, ProcessStep(w)
  PROVE  Exclusion'
<1> USE DEF OneOfEach, TypeOK, Exclusion, StartingIsIdle, DecisionOpen,
            RoutingUndecided, RoutingAlone, ExecutingApproved,
            InterruptedIsFound
<1>1. CASE WorkerRestart(w)
  BY <1>1 DEF WorkerRestart, rows, Handler, Poller, Idle
<1>2. CASE reconcile_interrupted(w)
  BY <1>2 DEF reconcile_interrupted, Interrupted
<1>3. CASE reconcile_raises(w)
  BY <1>3 DEF reconcile_raises, rows
<1> QED
  BY <1>1, <1>2, <1>3, ProcessStep(w) DEF ProcessStep

LEMMA ExclusionOperator ==
  ASSUME OneOfEach, TypeOK, Exclusion, NEW o \in Operator, OperatorStep(o)
  PROVE  Exclusion'
<1> USE DEF OneOfEach, TypeOK, Exclusion, StartingIsIdle, DecisionOpen,
            RoutingUndecided, RoutingAlone, ExecutingApproved,
            InterruptedIsFound, At, Decided
<1>a. Idle.pc = "idle"
  BY DEF Idle
<1>1. ASSUME NEW i \in Incident, open_decision(o, i) PROVE Exclusion'
  BY <1>1 DEF open_decision, rows
<1>2. CASE approve(o)
  BY <1>a, <1>2 DEF approve, Write
<1>3. CASE approve_refused(o)
  BY <1>a, <1>3 DEF approve_refused, rows
<1>4. CASE reject(o)
  BY <1>a, <1>4 DEF reject, Write
<1> QED
  BY <1>1, <1>2, <1>3, <1>4 DEF OperatorStep

LEMMA ExclusionWatcher ==
  ASSUME OneOfEach, TypeOK, Exclusion, NEW i \in Incident, WatcherStep(i)
  PROVE  Exclusion'
<1> USE DEF TypeOK, Exclusion, StartingIsIdle, DecisionOpen,
            RoutingUndecided, RoutingAlone, ExecutingApproved,
            InterruptedIsFound
<1>0. Cancelled(action[i]) = action[i]
        \/ (action[i] \in {"PENDING", "PENDING_APPROVAL"}
              /\ Cancelled(action[i]) = "REJECTED")
  BY DEF Cancelled, Cancellable
<1>1. CASE resolve_recovered(i)
  BY <1>0, <1>1 DEF resolve_recovered, Write
<1>2. CASE reconcile_terminal(i)
  BY <1>0, <1>2 DEF reconcile_terminal
<1>3. CASE verify_passed(i) \/ verify_inconclusive(i)
  BY <1>3 DEF verify_passed, verify_inconclusive, WriteIncident
<1>4. CASE verify_failed(i)
  BY <1>4 DEF verify_failed, WriteIncident
<1>5. CASE FaultChanges(i)
  BY <1>5 DEF FaultChanges, rows
<1> QED
  BY <1>1, <1>2, <1>3, <1>4, <1>5 DEF WatcherStep

LEMMA ExclusionInvariant ==
  ASSUME OneOfEach
  PROVE  Spec => [](TypeOK /\ Exclusion)
<1>1. Init => Exclusion
  <2> SUFFICES ASSUME Init PROVE Exclusion
    OBVIOUS
  <2>1. /\ \A w \in Worker : handler[w].pc = "idle" /\ poller[w].pc = "idle"
        /\ \A o \in Operator : operator[o].pc = "idle"
    BY DEF Init, Idle
  <2>2. \A i \in Incident : incident[i] # "EXECUTING"
    BY DEF Init
  <2> QED
    BY <2>1, <2>2
       DEF Exclusion, StartingIsIdle, DecisionOpen, RoutingUndecided,
           RoutingAlone, ExecutingApproved, InterruptedIsFound
<1>2. TypeOK /\ Exclusion /\ [Next]_vars => Exclusion'
  <2>1. ASSUME Exclusion, UNCHANGED vars PROVE Exclusion'
    BY <2>1 DEF Exclusion, StartingIsIdle, DecisionOpen, RoutingUndecided,
                RoutingAlone, ExecutingApproved, InterruptedIsFound, vars
  <2> QED
    BY OneOfEach, <2>1, ExclusionHandler, ExclusionPoller, ExclusionProcess,
       ExclusionOperator, ExclusionWatcher DEF Next
<1> QED
  BY <1>1, <1>2, LifecycleTypeCorrect, PTL DEF Spec

(* Whatever the Watcher, the diagnosis and restarts do in between, an      *)
(* execution that stops half way leaves the pair that                      *)
(* reconcile_interrupted_approved_executions looks for.                    *)
THEOREM InterruptedExecutionFound ==
  ASSUME OneOfEach
  PROVE  Spec => []InterruptedIsFound
<1>1. Exclusion => InterruptedIsFound
  BY DEF Exclusion
<1> QED
  BY <1>1, ExclusionInvariant, OneOfEach, PTL

-----------------------------------------------------------------------------
(* Requests.                                                               *)

LEMMA RequestHandler ==
  ASSUME OneOfEach, TypeOK, Exclusion, RequestInv,
         NEW w \in Worker, HandlerStep(w)
  PROVE  RequestInv'
<1> USE DEF OneOfEach, TypeOK, RequestInv, Undiagnosed, Paired, ClaimHeld,
            Counted, Unused, Running, Handler, At
<1>a. Idle.pc = "idle"
  BY DEF Idle
<1>b. handler[w].pc # "idle" => handler[w].on \notin Requested
  OBVIOUS
<1>1. ASSUME NEW i \in Incident, load_incident(w, i) PROVE RequestInv'
  BY <1>1 DEF load_incident, rows, history, Receive
<1>2. CASE write_diagnosing(w)
  BY <1>b, <1>2 DEF write_diagnosing, WriteIncident
<1>3. CASE propose(w)
  <2>1. CASE /\ action' = [action EXCEPT ![handler[w].on] = "PENDING"]
             /\ UNCHANGED incident
             /\ Handler(w, At("route", handler[w].on))
    BY <1>b, <1>3, <2>1 DEF propose, history
  <2>2. CASE WriteIncident(handler[w].on, "FAILED") /\ Handler(w, Idle)
    BY <1>a, <1>b, <1>3, <2>2 DEF propose, WriteIncident, history
  <2> QED
    BY <1>3, <2>1, <2>2 DEF propose
<1>4. CASE reuse_pending(w)
  BY <1>b, <1>4 DEF reuse_pending, rows, history
<1>5. CASE propose_duplicate(w)
  BY <1>a, <1>5 DEF propose_duplicate, rows, history
<1>6. CASE restore(w)
  BY <1>a, <1>b, <1>6 DEF restore, WriteIncident, history
<1>7. CASE route(w)
  BY <1>a, <1>b, <1>7 DEF route, Write, history
<1>8. CASE diagnosis_raises(w)
  <2>1. \A i \in Requested :
          /\ messages'[i] = messages[i]
          /\ action'[i] = action[i]
          /\ incident'[i] = incident[i]
    BY <1>b, <1>8, LifecycleAssumption
       DEF LifecycleAssumption, diagnosis_raises, RetriesExhausted, Refused,
           rows, WriteIncident, Send
  <2> QED
    BY <1>a, <1>b, <1>8, <2>1 DEF diagnosis_raises
<1>9. CASE write_refused(w)
  BY <1>a, <1>b, <1>9 DEF write_refused, Refused, rows
<1>10. CASE route_raises(w)
  <2>1. \A i \in Requested :
          action'[i] = action[i] /\ incident'[i] = incident[i]
    BY <1>b, <1>10, LifecycleAssumption
       DEF LifecycleAssumption, route_raises, Refused, rows, Write
  <2>2. UNCHANGED messages
    BY <1>10 DEF route_raises, Refused
  <2> QED
    BY <1>a, <1>b, <1>10, <2>1, <2>2 DEF route_raises
<1> QED
  BY <1>1, <1>2, <1>3, <1>4, <1>5, <1>6, <1>7, <1>8, <1>9, <1>10
     DEF HandlerStep

LEMMA RequestPoller ==
  ASSUME OneOfEach, TypeOK, Exclusion, RequestInv,
         NEW w \in Worker, PollerStep(w)
  PROVE  RequestInv'
<1> USE DEF OneOfEach, TypeOK, RequestInv, Undiagnosed, Paired, ClaimHeld,
            Counted, Unused, Running, Poller, At
<1>a. Idle.pc = "idle"
  BY DEF Idle
<1>b. poller[w].pc # "idle" => action[poller[w].on] = "APPROVED"
  BY DEF Exclusion, ExecutingApproved
<1>1. ASSUME NEW i \in Incident, load_approved(w, i) PROVE RequestInv'
  BY <1>1 DEF load_approved, rows, history
<1>2. CASE withdraw_approval(w)
  BY <1>a, <1>b, <1>2 DEF withdraw_approval, Write, history
<1>3. CASE confirm_approval(w)
  BY <1>b, <1>3 DEF confirm_approval, rows, history
<1>4. CASE claim(w)
  <2>1. CASE /\ ClaimFree(poller[w].on)
             /\ WriteIncident(poller[w].on, "EXECUTING")
             /\ Poller(w, At("run", poller[w].on))
    <3>1. poller[w].on \in Requested => Unused(poller[w].on)
      BY <1>b, <1>4, <2>1 DEF claim, ClaimFree
    <3> QED
      BY <1>b, <1>4, <2>1, <3>1 DEF claim, WriteIncident, history
  <2>2. CASE Poller(w, Idle) /\ UNCHANGED rows
    BY <1>a, <1>4, <2>2 DEF claim, rows, history
  <2> QED
    BY <1>4, <2>1, <2>2 DEF claim
<1>5. CASE run_command(w)
  BY <1>b, <1>5, LifecycleAssumption
     DEF run_command, rows, OneMore, LifecycleAssumption
<1>6. CASE execution_refused(w)
  BY <1>b, <1>6 DEF execution_refused, rows, history
<1>7. CASE record(w)
  <2>1. PICK a \in {"EXECUTED", "FAILED"}, s \in IncidentStatus :
          Write(poller[w].on, a, s)
    BY <1>7 DEF record, AfterSuccess, IncidentStatus
  <2> QED
    BY <1>a, <1>b, <1>7, <2>1 DEF record, Write, history
<1>8. CASE record_raises(w)
  BY <1>a, <1>8 DEF record_raises, rows, history
<1>9. ASSUME NEW i \in Incident, reconcile_stuck_rbd(w, i) PROVE RequestInv'
  BY <1>9 DEF reconcile_stuck_rbd, Interrupted, rows, history
<1> QED
  BY <1>1, <1>2, <1>3, <1>4, <1>5, <1>6, <1>7, <1>8, <1>9
     DEF PollerStep

LEMMA RequestProcess ==
  ASSUME OneOfEach, TypeOK, Exclusion, RequestInv,
         NEW w \in Worker, ProcessStep(w)
  PROVE  RequestInv'
<1> USE DEF OneOfEach, TypeOK, RequestInv, Undiagnosed, Paired, ClaimHeld,
            Counted, Unused, Running
<1>1. CASE WorkerRestart(w)
  <2>1. Idle.pc = "idle"
    BY DEF Idle
  <2>2. \A i \in Requested : messages'[i] = 0
    <3>1. CASE UNCHANGED messages
      BY <3>1
    <3>2. CASE handler[w].pc # "idle" /\ Send(handler[w].on)
      BY <3>2 DEF Send
    <3> QED
      BY <1>1, <3>1, <3>2 DEF WorkerRestart
  <2> QED
    BY <1>1, <2>1, <2>2 DEF WorkerRestart, rows, history, Handler, Poller
<1>2. CASE reconcile_interrupted(w)
  <2>1. \A v \in Worker : poller[v].pc = "idle"
    BY <1>2 DEF reconcile_interrupted, Exclusion, StartingIsIdle
  <2>2. ASSUME NEW i \in Incident
        PROVE  \/ Interrupted(i) /\ action'[i] = "INCONCLUSIVE"
               \/ action'[i] = action[i] /\ incident'[i] = incident[i]
    BY <1>2 DEF reconcile_interrupted
  <2>3. UNCHANGED <<messages, fault, handler, poller, runs, approvals>>
    BY <1>2 DEF reconcile_interrupted, history
  <2> QED
    BY LifecycleAssumption, <2>1, <2>2, <2>3 DEF LifecycleAssumption
<1>3. CASE reconcile_raises(w)
  BY <1>3 DEF reconcile_raises, rows, history
<1> QED
  BY <1>1, <1>2, <1>3, ProcessStep(w) DEF ProcessStep

LEMMA RequestOperator ==
  ASSUME OneOfEach, TypeOK, Exclusion, RequestInv,
         NEW o \in Operator, OperatorStep(o)
  PROVE  RequestInv'
<1> USE DEF TypeOK, RequestInv, Undiagnosed, Paired, ClaimHeld,
            Counted, Unused, Running
<1>b. /\ operator[o].pc # "idle" => action[operator[o].on] # "APPROVED"
      /\ \A w \in Worker :
           poller[w].pc # "idle" => action[poller[w].on] = "APPROVED"
  BY DEF Exclusion, DecisionOpen, ExecutingApproved
<1>1. ASSUME NEW i \in Incident, open_decision(o, i) PROVE RequestInv'
  BY <1>1 DEF open_decision, rows, history
<1>2. CASE approve(o)
  <2> DEFINE i == operator[o].on
  <2>0. /\ i \in Incident
        /\ \A w \in Worker : poller[w].pc # "idle" => poller[w].on # i
    BY <1>b, <1>2 DEF approve
  <2>1. CASE i \in Manual
    <3>1. /\ Write(i, "EXECUTED", "RESOLVED")
          /\ UNCHANGED <<fault, messages, handler, poller, runs, approvals>>
      BY <1>2, <2>1 DEF approve
    <3> QED
      BY <2>0, <3>1 DEF Write
  <2>2. CASE i \notin Manual
    <3>1. /\ Write(i, "APPROVED", "APPROVED")
          /\ approvals' = [approvals EXCEPT ![i] = @ + 1]
          /\ UNCHANGED <<fault, messages, handler, poller, runs>>
      BY <1>2, <2>2 DEF approve
    <3>2. \A j \in Requested : Counted(j)'
      BY LifecycleAssumption, <2>0, <3>1 DEF LifecycleAssumption, Write
    <3> QED
      BY <2>0, <3>1, <3>2 DEF Write
  <2> QED
    BY <2>1, <2>2
<1>3. CASE approve_refused(o)
  BY <1>3 DEF approve_refused, rows, history
<1>4. CASE reject(o)
  BY <1>b, <1>4 DEF reject, Write, history
<1> QED
  BY <1>1, <1>2, <1>3, <1>4 DEF OperatorStep

LEMMA RequestWatcher ==
  ASSUME OneOfEach, TypeOK, Exclusion, RequestInv,
         NEW i \in Incident, WatcherStep(i)
  PROVE  RequestInv'
<1> USE DEF TypeOK, RequestInv, Undiagnosed, Paired, ClaimHeld,
            Counted, Unused, Running
<1>1. CASE resolve_recovered(i)
  BY <1>1 DEF resolve_recovered, Write, history
<1>2. CASE reconcile_terminal(i)
  BY <1>2 DEF reconcile_terminal, Cancelled, Cancellable, Terminal, history
<1>3. CASE verify_passed(i) \/ verify_inconclusive(i)
  <2>1. /\ incident[i] = "VERIFYING"
        /\ \E s \in {"RESOLVED", "FAILED"} : WriteIncident(i, s)
        /\ UNCHANGED <<messages, fault, handler, poller, runs, approvals>>
    BY <1>3 DEF verify_passed, verify_inconclusive, history
  <2> QED
    BY <2>1 DEF WriteIncident
<1>4. CASE verify_failed(i)
  <2>1. /\ i \notin Requested
        /\ UNCHANGED <<action, fault, handler, poller, runs, approvals>>
    BY <1>4 DEF verify_failed, WriteIncident, history
  <2>2. \E s \in IncidentStatus : WriteIncident(i, s)
    BY <1>4 DEF verify_failed, IncidentStatus
  <2>3. Send(i) \/ UNCHANGED messages
    BY <1>4 DEF verify_failed
  <2> QED
    <3>1. \A j \in Requested :
            incident'[j] = incident[j] /\ messages'[j] = messages[j]
      BY LifecycleAssumption, <2>1, <2>2, <2>3
         DEF LifecycleAssumption, WriteIncident, Send
    <3> QED
      BY <2>1, <3>1
<1>5. CASE FaultChanges(i)
  BY <1>5 DEF FaultChanges, rows, history
<1> QED
  BY <1>1, <1>2, <1>3, <1>4, <1>5 DEF WatcherStep

LEMMA RequestInvariant ==
  ASSUME OneOfEach
  PROVE  Spec => [](TypeOK /\ Exclusion /\ RequestInv)
<1>1. Init => RequestInv
  <2> SUFFICES ASSUME Init, NEW i \in Requested
               PROVE  Undiagnosed(i) /\ Paired(i) /\ ClaimHeld(i) /\ Counted(i)
    BY DEF RequestInv
  <2>1. \A w \in Worker : handler[w].pc = "idle" /\ poller[w].pc = "idle"
    BY DEF Init, Idle
  <2>2. /\ i \in Incident
        /\ action[i] = "PENDING_APPROVAL" /\ incident[i] = "PENDING_APPROVAL"
        /\ messages[i] = 0 /\ fault[i] = "gone"
        /\ runs[i] = 0 /\ approvals[i] = 0
    BY LifecycleAssumption DEF LifecycleAssumption, Init
  <2> QED
    BY <2>1, <2>2
       DEF Undiagnosed, Paired, ClaimHeld, Counted, Unused, Running
<1>2. TypeOK /\ Exclusion /\ RequestInv /\ [Next]_vars => RequestInv'
  <2>1. ASSUME RequestInv, UNCHANGED vars PROVE RequestInv'
    BY <2>1 DEF RequestInv, Undiagnosed, Paired, ClaimHeld, Counted, Unused,
                Running, vars
  <2> QED
    BY OneOfEach, <2>1, RequestHandler, RequestPoller, RequestProcess,
       RequestOperator, RequestWatcher DEF Next
<1> QED
  BY <1>1, <1>2, ExclusionInvariant, OneOfEach, PTL DEF Spec

(* However often the Worker stops between the claim, the command and its   *)
(* result, and whether or not the reconcile at its start fails, an         *)
(* approval of a request starts its command at most once.                  *)
THEOREM RequestRunsOncePerApproval ==
  ASSUME OneOfEach
  PROVE  Spec => []OneRunPerApproval
<1>1. RequestInv => OneRunPerApproval
  BY DEF RequestInv, Counted, OneRunPerApproval
<1> QED
  BY <1>1, RequestInvariant, OneOfEach, PTL

-----------------------------------------------------------------------------
(* The promise of Approval, kept for requests.                             *)

(* The decision an operator is about to write was read PENDING_APPROVAL,   *)
(* and nobody else decides a request meanwhile.                            *)
RequestDecision ==
    \A o \in Operator :
      operator[o].pc # "idle" /\ operator[o].on \in Requested
        => action[operator[o].on] = "PENDING_APPROVAL"

PromiseInv == TypeOK /\ Exclusion /\ RequestInv /\ RequestDecision

Decisions == [i \in Requested |-> Decision(i)]
Granted == [i \in Requested |-> approvals[i]]
Started == [i \in Requested |-> runs[i]]
PromiseStep == Promise!Next \/ UNCHANGED <<Decisions, Granted, Started>>

(* Where a decision stands depends on its own rows and on who runs it.     *)
LEMMA SameDecision ==
  ASSUME NEW i \in Requested,
         action'[i] = action[i],
         incident'[i] = incident[i] \/ action[i] # "APPROVED",
         \A w \in Worker : Running(w, i)' <=> Running(w, i)
  PROVE  Decision(i)' = Decision(i)
BY DEF Decision, Unused

LEMMA NoDecision ==
  ASSUME UNCHANGED <<approvals, runs>>,
         \A i \in Requested : Decision(i)' = Decision(i)
  PROVE  PromiseStep
BY DEF PromiseStep, Decisions, Granted, Started

LEMMA DecisionMoves ==
  ASSUME NEW i \in Requested, NEW s, Decision(i)' = s,
         \A j \in Requested \ {i} : Decision(j)' = Decision(j)
  PROVE  Decisions' = [Decisions EXCEPT ![i] = s]
BY DEF Decisions

LEMMA DecisionsClose ==
  ASSUME NEW R \in SUBSET Requested, UNCHANGED <<approvals, runs>>,
         \A i \in Requested :
           Decision(i)' = IF i \in R THEN "closed" ELSE Decision(i)
  PROVE  PromiseStep
<1>1. Promise!Close(R)
  BY DEF Promise!Close
<1> QED
  BY <1>1 DEF PromiseStep, Promise!Next

(* A step that leaves the rows of requests, the pollers and the operators  *)
(* alone: the diagnosis, and the Watcher but for what is closed already.   *)
LEMMA RowsKept ==
  ASSUME RequestDecision, UNCHANGED <<poller, operator, approvals, runs>>,
         \A i \in Requested :
           /\ action'[i] = action[i]
           /\ incident'[i] = incident[i] \/ action[i] # "APPROVED"
  PROVE  PromiseStep /\ RequestDecision'
<1>1. \A i \in Requested, w \in Worker : Running(w, i)' <=> Running(w, i)
  BY DEF Running
<1>2. PromiseStep
  BY <1>1, SameDecision, NoDecision
<1>3. RequestDecision'
  BY DEF RequestDecision
<1> QED
  BY <1>2, <1>3

LEMMA HandlerPromises ==
  ASSUME PromiseInv, NEW w \in Worker, HandlerStep(w)
  PROVE  PromiseStep /\ RequestDecision'
<1> USE DEF rows, history
<1>1. handler[w].pc # "idle" => handler[w].on \notin Requested
  BY DEF PromiseInv, RequestInv, Undiagnosed
<1>2. UNCHANGED <<poller, operator, approvals, runs>>
  BY DEF HandlerStep, load_incident, write_diagnosing, propose,
         propose_duplicate, reuse_pending, restore, route, diagnosis_raises,
         write_refused, route_raises
<1>3. \/ UNCHANGED <<action, incident>>
      \/ /\ handler[w].pc # "idle"
         /\ \/ \E s : WriteIncident(handler[w].on, s)
            \/ \E a, s : Write(handler[w].on, a, s)
            \/ /\ action' = [action EXCEPT ![handler[w].on] = "PENDING"]
               /\ UNCHANGED incident
  BY DEF HandlerStep, load_incident, write_diagnosing, propose,
         propose_duplicate, reuse_pending, restore, route, diagnosis_raises,
         write_refused, route_raises, Refused, RetriesExhausted
<1>4. \A i \in Requested : action'[i] = action[i] /\ incident'[i] = incident[i]
  BY <1>1, <1>3, LifecycleAssumption
     DEF LifecycleAssumption, PromiseInv, TypeOK, Write, WriteIncident
<1> QED
  BY <1>2, <1>4, RowsKept DEF PromiseInv

LEMMA OperatorPromises ==
  ASSUME OneOfEach, PromiseInv, NEW o \in Operator, OperatorStep(o)
  PROVE  PromiseStep /\ RequestDecision'
<1> USE DEF PromiseInv
<1>a. operator[o].on \in Incident
  BY DEF TypeOK
<1> PICK i \in Incident : i = operator[o].on
  BY <1>a
<1>0. /\ operator[o].pc # "idle" /\ i \in Requested
           => action[i] = "PENDING_APPROVAL" /\ Decision(i) = "waiting"
      /\ operator \in [Operator -> [pc : OperatorPc, on : Incident]]
      /\ action \in [Incident -> ActionStatus]
      /\ incident \in [Incident -> IncidentStatus]
      /\ approvals \in [Incident -> Nat]
      /\ Requested \subseteq Incident
  BY LifecycleAssumption
     DEF LifecycleAssumption, TypeOK, RequestDecision, Decision
<1>1. UNCHANGED <<poller, runs>>
  BY DEF OperatorStep, open_decision, approve, approve_refused, reject,
         history
<1>2. \A j \in Requested, w \in Worker : Running(w, j)' <=> Running(w, j)
  BY <1>1 DEF Running
<1>3. ASSUME NEW j \in Incident, open_decision(o, j)
      PROVE  PromiseStep /\ RequestDecision'
  <2>1. PromiseStep
    BY <1>2, <1>3, SameDecision, NoDecision DEF open_decision, rows, history
  <2>2. RequestDecision'
    BY <1>0, <1>3 DEF open_decision, rows, At, RequestDecision
  <2> QED
    BY <2>1, <2>2
<1>4. ASSUME Decided(o), operator[o].pc # "idle"
      PROVE  RequestDecision'
  BY <1>0, <1>4 DEF Decided, OneOfEach, Idle, RequestDecision
<1>5. CASE approve_refused(o)
  <2>1. PromiseStep
    BY <1>2, <1>5, SameDecision, NoDecision
       DEF approve_refused, rows, history
  <2> QED
    BY <1>4, <1>5, <2>1 DEF approve_refused
<1>6. ASSUME NEW a \in {"EXECUTED", "REJECTED"}, NEW s \in IncidentStatus,
             Write(i, a, s), operator[o].pc # "idle", UNCHANGED approvals
      PROVE  PromiseStep
  <2>1. CASE i \in Requested
    <3>1. Decision(i)' = "closed"
      BY <1>0, <1>6 DEF Write, Decision
    <3>2. \A j \in Requested \ {i} : Decision(j)' = Decision(j)
      BY <1>0, <1>2, <1>6, SameDecision DEF Write
    <3> QED
      BY <1>1, <1>6, <2>1, <3>1, <3>2, DecisionsClose, {i} \in SUBSET Requested
  <2>2. CASE i \notin Requested
    <3>1. \A j \in Requested : Decision(j)' = Decision(j)
      BY <1>0, <1>2, <1>6, <2>2, SameDecision DEF Write
    <3> QED
      BY <1>1, <1>6, <3>1, NoDecision
  <2> QED
    BY <2>1, <2>2
<1>7. CASE reject(o)
  <2>1. PromiseStep
    BY <1>6, <1>7 DEF reject, history, IncidentStatus
  <2> QED
    BY <1>4, <1>7, <2>1 DEF reject
<1>8. CASE approve(o)
  <2>0. RequestDecision'
    BY <1>4, <1>8 DEF approve
  <2>1. CASE i \in Manual
    BY <1>6, <1>8, <2>0, <2>1 DEF approve, IncidentStatus
  <2>2. CASE i \notin Manual
    <3>1. /\ Write(i, "APPROVED", "APPROVED")
          /\ approvals' = [approvals EXCEPT ![i] = @ + 1]
      BY <1>8, <2>2 DEF approve
    <3>2. \A j \in Requested \ {i} : Decision(j)' = Decision(j)
      BY <1>0, <1>2, <3>1, SameDecision DEF Write
    <3>3. CASE i \in Requested
      <4>1. Decision(i) = "waiting"
        BY <1>0, <1>8, <3>3 DEF approve
      <4>2. Decision(i)' = "granted"
        BY <1>0, <3>1 DEF Write, Decision, Unused
      <4>3. Decisions[i] = "waiting"
            /\ Decisions' = [Decisions EXCEPT ![i] = "granted"]
        BY <3>2, <3>3, <4>1, <4>2, DecisionMoves DEF Decisions
      <4>4. Granted' = [Granted EXCEPT ![i] = @ + 1]
        BY <1>0, <3>1, <3>3 DEF Granted
      <4>5. Promise!Grant(i)
        BY <1>1, <4>3, <4>4
           DEF Promise!Grant, Promise!Move, Decisions, Granted
      <4> QED
        BY <2>0, <3>3, <4>5 DEF PromiseStep, Promise!Next
    <3>4. CASE i \notin Requested
      <4>1. UNCHANGED Decisions
        BY <3>2, <3>4 DEF Decisions
      <4>2. UNCHANGED <<Granted, Started>>
        BY <1>0, <1>1, <3>1, <3>4 DEF Granted, Started
      <4> QED
        BY <2>0, <4>1, <4>2 DEF PromiseStep
    <3> QED
      BY <3>3, <3>4
  <2> QED
    BY <2>1, <2>2
<1> QED
  BY <1>3, <1>5, <1>7, <1>8 DEF OperatorStep

(* A poller writes the Action it works on, which is APPROVED, so no        *)
(* operator is deciding it.                                                *)
LEMMA PollerRows ==
  ASSUME PromiseInv, NEW w \in Worker, PollerStep(w)
  PROVE  RequestDecision'
<1>1. UNCHANGED operator
  BY DEF PollerStep, load_approved, withdraw_approval, confirm_approval, claim,
         run_command, execution_refused, record, record_raises,
         reconcile_stuck_rbd
<1>2. \/ UNCHANGED action
      \/ /\ poller[w].pc # "idle"
         /\ \E a : action' = [action EXCEPT ![poller[w].on] = a]
  BY DEF PollerStep, load_approved, withdraw_approval, confirm_approval, claim,
         run_command, execution_refused, record, record_raises,
         reconcile_stuck_rbd, rows, Write, WriteIncident
<1>3. poller[w].pc # "idle" => action[poller[w].on] = "APPROVED"
  BY DEF PromiseInv, Exclusion, ExecutingApproved
<1> QED
  BY <1>1, <1>2, <1>3, LifecycleAssumption
     DEF LifecycleAssumption, PromiseInv, TypeOK, RequestDecision

LEMMA PollerPromises ==
  ASSUME OneOfEach, PromiseInv, NEW w \in Worker, PollerStep(w)
  PROVE  PromiseStep
<1> USE DEF PromiseInv
<1>a. poller[w].on \in Incident
  BY DEF TypeOK
<1> PICK i \in Incident : i = poller[w].on
  BY <1>a
<1>0. /\ poller \in [Worker -> [pc : PollerPc, on : Incident]]
      /\ action \in [Incident -> ActionStatus]
      /\ incident \in [Incident -> IncidentStatus]
      /\ runs \in [Incident -> 0 .. MaxApprovals + 1]
      /\ Requested \subseteq Incident
      /\ \A v \in Worker : v = w
  BY LifecycleAssumption DEF LifecycleAssumption, TypeOK, OneOfEach
<1>b. poller[w].pc # "idle" => action[i] = "APPROVED"
  BY DEF Exclusion, ExecutingApproved
<1>c. poller[w].pc = "run" /\ i \in Requested => incident[i] = "EXECUTING"
  BY DEF RequestInv, ClaimHeld
<1>d. Idle.pc = "idle"
  BY DEF Idle
<1>e. UNCHANGED approvals
  BY DEF PollerStep, load_approved, withdraw_approval, confirm_approval, claim,
         run_command, execution_refused, record, record_raises,
         reconcile_stuck_rbd, history
<1>1. ASSUME NEW j \in Incident,
             load_approved(w, j) \/ reconcile_stuck_rbd(w, j)
      PROVE  PromiseStep
  <2>1. UNCHANGED <<rows, runs>>
    BY <1>1 DEF load_approved, reconcile_stuck_rbd, history
  <2>2. \A k \in Requested, v \in Worker : Running(v, k)' <=> Running(v, k)
    BY <1>0, <1>1 DEF load_approved, reconcile_stuck_rbd, Poller, At, Running
  <2> QED
    BY <1>e, <2>1, <2>2, SameDecision, NoDecision DEF rows
(* The poller gives up what it had read, and its Action is closed or has   *)
(* to be decided again.                                                    *)
<1>2. ASSUME NEW a \in {"PENDING_APPROVAL", "REJECTED", "EXECUTED", "FAILED"},
             NEW s \in IncidentStatus, Write(i, a, s), Poller(w, Idle),
             poller[w].pc # "idle", UNCHANGED runs
      PROVE  PromiseStep
  <2>1. \A v \in Worker, j \in Requested \ {i} :
          Running(v, j)' <=> Running(v, j)
    BY <1>0, <1>d, <1>2 DEF Running, Poller
  <2>2. \A j \in Requested \ {i} : Decision(j)' = Decision(j)
    BY <1>0, <1>2, <2>1, SameDecision DEF Write
  <2>3. CASE i \notin Requested
    BY <1>e, <1>2, <2>2, <2>3, NoDecision
  <2>4. CASE i \in Requested /\ a # "PENDING_APPROVAL"
    <3>1. Decision(i)' = "closed"
      BY <1>0, <1>2, <2>4 DEF Write, Decision
    <3> QED
      BY <1>e, <1>2, <2>2, <2>4, <3>1, DecisionsClose, {i} \in SUBSET Requested
  <2>5. CASE i \in Requested /\ a = "PENDING_APPROVAL"
    <3>1. Decision(i)' = "waiting"
      BY <1>0, <1>2, <2>5 DEF Write, Decision
    <3>2. Decisions[i] \in {"granted", "spent"}
      BY <1>b, <1>2, <2>5 DEF Decisions, Decision
    <3>3. Decisions' = [Decisions EXCEPT ![i] = "waiting"]
      BY <2>2, <2>5, <3>1, DecisionMoves
    <3>4. Promise!AskAgain(i)
      BY <1>e, <1>2, <3>2, <3>3
         DEF Promise!AskAgain, Promise!Move, Decisions
    <3> QED
      BY <2>5, <3>4 DEF PromiseStep, Promise!Next
  <2> QED
    BY <2>3, <2>4, <2>5
<1>3. CASE withdraw_approval(w)
  BY <1>2, <1>3 DEF withdraw_approval, history, IncidentStatus
<1>4. CASE record(w)
  BY <1>2, <1>4 DEF record, AfterSuccess, history, IncidentStatus
(* The grant is spent when its command starts, or is about to start and    *)
(* does not.                                                               *)
<1>5. ASSUME poller[w].pc = "run", NEW pc \in PollerPc \ {"run"},
             Poller(w, At(pc, i)) \/ Poller(w, Idle), UNCHANGED rows,
             i \in Requested
      PROVE  /\ Decisions[i] = "granted"
             /\ Decisions' = [Decisions EXCEPT ![i] = "spent"]
  <2>1. Decision(i) = "granted"
    BY <1>b, <1>5 DEF Decision, Unused, Running
  <2>2. \A v \in Worker : ~Running(v, i)'
    BY <1>0, <1>d, <1>5 DEF Running, Poller, At
  <2>3. Decision(i)' = "spent"
    BY <1>b, <1>c, <1>5, <2>2 DEF Decision, Unused, rows
  <2>4. \A v \in Worker, j \in Requested \ {i} :
          Running(v, j)' <=> Running(v, j)
    BY <1>0, <1>d, <1>5 DEF Running, Poller, At
  <2>5. \A j \in Requested \ {i} : Decision(j)' = Decision(j)
    BY <1>5, <2>4, SameDecision DEF rows
  <2> QED
    BY <1>5, <2>1, <2>3, <2>5, DecisionMoves DEF Decisions
<1>6. ASSUME NEW pc \in PollerPc, Poller(w, At(pc, i)) \/ Poller(w, Idle),
             UNCHANGED <<rows, runs>>,
             i \notin Requested \/ (pc # "run" /\ poller[w].pc # "run")
      PROVE  PromiseStep
  <2>1. \A v \in Worker, j \in Requested : Running(v, j)' <=> Running(v, j)
    BY <1>0, <1>d, <1>6 DEF Running, Poller, At
  <2> QED
    BY <1>e, <1>6, <2>1, SameDecision, NoDecision DEF rows
<1>7. CASE confirm_approval(w)
  BY <1>6, <1>7 DEF confirm_approval, history, PollerPc
<1>8. CASE record_raises(w)
  BY <1>6, <1>8 DEF record_raises, history, PollerPc
<1>9. CASE run_command(w)
  <2>1. /\ poller[w].pc = "run"
        /\ UNCHANGED rows
        /\ runs' = [runs EXCEPT ![i] = OneMore(@)]
        /\ \E pc \in PollerPc \ {"run"} : Poller(w, At(pc, i))
    BY <1>9 DEF run_command, PollerPc
  <2>2. CASE i \in Requested
    <3>1. Decisions[i] = "granted"
          /\ Decisions' = [Decisions EXCEPT ![i] = "spent"]
      BY <1>5, <2>1, <2>2
    <3>2. runs[i] \in Nat /\ MaxApprovals \in Nat /\ runs[i] <= MaxApprovals
      <4>1. Unused(i)
        BY <2>1 DEF Unused, Running
      <4>2. runs[i] + 1 <= approvals[i] /\ approvals[i] \in 0 .. MaxApprovals
        BY <2>2, <4>1 DEF RequestInv, Counted, TypeOK
      <4> QED
        BY <1>0, <4>2, LifecycleAssumption DEF LifecycleAssumption
    <3>3. Started' = [Started EXCEPT ![i] = @ + 1]
      BY <1>0, <2>1, <2>2, <3>2 DEF Started, OneMore
    <3>4. Promise!Start(i)
      BY <1>e, <3>1, <3>3 DEF Promise!Start, Promise!Move, Decisions, Started
    <3> QED
      BY <2>2, <3>4 DEF PromiseStep, Promise!Next
  <2>3. CASE i \notin Requested
    <3>1. \A v \in Worker, j \in Requested : Running(v, j)' <=> Running(v, j)
      BY <1>0, <2>1, <2>3 DEF Running, Poller, At
    <3>2. UNCHANGED Decisions
      BY <2>1, <3>1, SameDecision DEF Decisions, rows
    <3>3. UNCHANGED <<Granted, Started>>
      BY <1>0, <1>e, <2>1, <2>3 DEF Granted, Started
    <3> QED
      BY <3>2, <3>3 DEF PromiseStep
  <2> QED
    BY <2>2, <2>3
<1>10. CASE execution_refused(w)
  <2>1. /\ poller[w].pc \in {"check", "claim", "run"}
        /\ Poller(w, At("record_failed", i))
        /\ UNCHANGED <<rows, runs>>
        /\ "record_failed" \in PollerPc \ {"run"}
    BY <1>10 DEF execution_refused, history, PollerPc
  <2>2. CASE poller[w].pc = "run" /\ i \in Requested
    <3>1. Decisions[i] = "granted"
          /\ Decisions' = [Decisions EXCEPT ![i] = "spent"]
      BY <1>5, <2>1, <2>2
    <3>2. Promise!Forfeit(i)
      BY <1>e, <2>1, <3>1 DEF Promise!Forfeit, Promise!Move, Decisions
    <3> QED
      BY <2>2, <3>2 DEF PromiseStep, Promise!Next
  <2> QED
    BY <1>6, <2>1, <2>2
<1>11. CASE claim(w)
  <2>1. CASE Poller(w, Idle) /\ UNCHANGED rows
    <3>1. UNCHANGED <<rows, runs>> /\ poller[w].pc = "claim"
          /\ "idle" \in PollerPc
      BY <1>11, <2>1 DEF claim, history, PollerPc
    <3> QED
      BY <1>6, <2>1, <3>1
  <2>2. CASE /\ ClaimFree(i)
             /\ WriteIncident(i, "EXECUTING")
             /\ Poller(w, At("run", i))
    <3>1. UNCHANGED runs /\ poller[w].pc = "claim"
      BY <1>11 DEF claim, history
    <3>2. \A v \in Worker, j \in Requested \ {i} :
            Running(v, j)' <=> Running(v, j)
      BY <1>0, <2>2, <3>1 DEF Running, Poller, At
    <3>3. \A j \in Requested \ {i} : Decision(j)' = Decision(j)
      BY <1>0, <2>2, <3>2, SameDecision DEF WriteIncident
    <3>4. ASSUME i \in Requested PROVE Decision(i)' = Decision(i)
      <4>1. Decision(i) = "granted"
        BY <1>b, <2>2, <3>1, <3>4
           DEF Decision, Unused, ClaimFree, RequestInv, Paired
      <4>2. Decision(i)' = "granted"
        BY <1>0, <1>b, <2>2, <3>1
           DEF Decision, Unused, Running, WriteIncident, Poller, At
      <4> QED
        BY <4>1, <4>2
    <3> QED
      BY <1>e, <3>1, <3>3, <3>4, NoDecision
  <2> QED
    BY <1>11, <2>1, <2>2 DEF claim
<1> QED
  BY <1>1, <1>3, <1>4, <1>7, <1>8, <1>9, <1>10, <1>11 DEF PollerStep

(* A start-up closes what it finds interrupted; a Worker that stops with a *)
(* command about to start has wasted the approval.                         *)
LEMMA ProcessPromises ==
  ASSUME OneOfEach, PromiseInv, NEW w \in Worker, ProcessStep(w)
  PROVE  PromiseStep /\ RequestDecision'
<1> USE DEF PromiseInv
<1>0. /\ poller[w].on \in Incident
      /\ poller \in [Worker -> [pc : PollerPc, on : Incident]]
      /\ Requested \subseteq Incident
      /\ \A v \in Worker : v = w
      /\ Idle.pc = "idle"
      /\ UNCHANGED <<operator, approvals, runs>>
  BY LifecycleAssumption
     DEF LifecycleAssumption, TypeOK, OneOfEach, Idle, ProcessStep,
         WorkerRestart, reconcile_interrupted, reconcile_raises, history
<1>1. CASE reconcile_raises(w)
  <2>1. UNCHANGED <<poller, rows>>
    BY <1>1 DEF reconcile_raises
  <2> QED
    BY <1>0, <2>1, RowsKept DEF rows
<1>2. CASE reconcile_interrupted(w)
  <2> DEFINE R == {i \in Requested : Interrupted(i)}
  <2>1. /\ poller' = poller
        /\ poller[w].pc = "idle"
        /\ \A i \in Incident :
             /\ action'[i] = IF Interrupted(i) THEN "INCONCLUSIVE"
                                               ELSE action[i]
             /\ ~Interrupted(i) => incident'[i] = incident[i]
    BY <1>2 DEF reconcile_interrupted, Exclusion, StartingIsIdle
  <2>2. RequestDecision'
    BY <1>0, <2>1 DEF RequestDecision, Interrupted
  <2>3. ASSUME NEW i \in Requested
        PROVE  Decision(i)' = IF i \in R THEN "closed" ELSE Decision(i)
    <3>1. \A v \in Worker : Running(v, i)' <=> Running(v, i)
      BY <2>1 DEF Running
    <3>2. CASE Interrupted(i)
      BY <1>0, <2>1, <3>2 DEF Decision
    <3>3. CASE ~Interrupted(i)
      BY <1>0, <2>1, <3>1, <3>3, SameDecision
    <3> QED
      BY <3>2, <3>3
  <2>4. PICK S \in SUBSET Requested : S = R
    OBVIOUS
  <2>5. PromiseStep
    BY <1>0, <2>3, <2>4, DecisionsClose
  <2> QED
    BY <2>2, <2>5
<1>3. CASE WorkerRestart(w)
  <2>0. UNCHANGED rows /\ Poller(w, Idle)
    BY <1>3 DEF WorkerRestart
  <2>1. RequestDecision'
    BY <1>0, <2>0 DEF RequestDecision, rows
  <2>2. PICK i \in Incident : i = poller[w].on
    BY <1>0
  <2>3. \A v \in Worker : ~Running(v, i)'
    BY <1>0, <2>0 DEF Running, Poller
  <2>4. \A v \in Worker, j \in Requested \ {i} :
          Running(v, j)' <=> Running(v, j)
    BY <1>0, <2>0, <2>2 DEF Running, Poller
  <2>5. \A j \in Requested \ {i} : Decision(j)' = Decision(j)
    BY <2>0, <2>4, SameDecision DEF rows
  <2>6. CASE i \in Requested /\ poller[w].pc = "run"
    <3>1. action[i] = "APPROVED" /\ incident[i] = "EXECUTING"
      BY <2>2, <2>6
         DEF Exclusion, ExecutingApproved, RequestInv, ClaimHeld
    <3>2. Decisions[i] = "granted"
      BY <2>2, <2>6, <3>1 DEF Decisions, Decision, Unused, Running
    <3>3. Decision(i)' = "spent"
      BY <2>0, <2>3, <3>1 DEF Decision, Unused, rows
    <3>4. Decisions' = [Decisions EXCEPT ![i] = "spent"]
      BY <2>5, <2>6, <3>3, DecisionMoves
    <3>5. Promise!Forfeit(i)
      BY <1>0, <3>2, <3>4 DEF Promise!Forfeit, Promise!Move, Decisions
    <3> QED
      BY <2>1, <2>6, <3>5 DEF PromiseStep, Promise!Next
  <2>7. CASE i \in Requested /\ poller[w].pc # "run"
    <3>1. \A v \in Worker : ~Running(v, i)
      BY <1>0, <2>7 DEF Running
    <3>2. Decision(i)' = Decision(i)
      BY <2>0, <2>3, <2>7, <3>1, SameDecision DEF rows
    <3> QED
      BY <1>0, <2>1, <2>5, <3>2, NoDecision
  <2>8. CASE i \notin Requested
    BY <1>0, <2>1, <2>5, <2>8, NoDecision
  <2> QED
    BY <2>6, <2>7, <2>8
<1> QED
  BY <1>1, <1>2, <1>3 DEF ProcessStep

(* The Watcher resolves no request, and cancels no pending one: that       *)
(* Incident is still PENDING_APPROVAL.                                     *)
LEMMA WatcherPromises ==
  ASSUME PromiseInv, NEW i \in Incident, WatcherStep(i)
  PROVE  PromiseStep /\ RequestDecision'
<1> USE DEF PromiseInv
<1>0. /\ Requested \subseteq Incident
      /\ action \in [Incident -> ActionStatus]
      /\ incident \in [Incident -> IncidentStatus]
      /\ UNCHANGED <<poller, operator, approvals, runs>>
  BY LifecycleAssumption
     DEF LifecycleAssumption, TypeOK, WatcherStep, resolve_recovered,
         reconcile_terminal, verify_passed, verify_inconclusive,
         verify_failed, FaultChanges, history
<1>1. ASSUME NEW s \in IncidentStatus, WriteIncident(i, s),
             incident[i] = "VERIFYING"
      PROVE  PromiseStep /\ RequestDecision'
  <2>1. i \in Requested => action[i] # "APPROVED"
    BY <1>1 DEF RequestInv, Paired
  <2> QED
    BY <1>0, <1>1, <2>1, RowsKept DEF WriteIncident
<1>2. CASE resolve_recovered(i)
  <2>1. i \notin Requested /\ Write(i, Cancelled(action[i]), "RESOLVED")
    BY <1>2 DEF resolve_recovered
  <2>2. \A j \in Requested :
          action'[j] = action[j] /\ incident'[j] = incident[j]
    BY <1>0, <2>1 DEF Write
  <2> QED
    BY <1>0, <2>2, RowsKept
<1>3. CASE reconcile_terminal(i)
  <2>1. /\ action' = [action EXCEPT ![i] = "REJECTED"]
        /\ UNCHANGED incident
        /\ action[i] \in Cancellable /\ incident[i] \in Terminal
    BY <1>3 DEF reconcile_terminal, Cancelled
  <2>2. CASE i \notin Requested
    BY <1>0, <2>1, <2>2, RowsKept
  <2>3. CASE i \in Requested
    <3>1. action[i] = "PENDING"
      BY <2>1, <2>3 DEF Cancellable, Terminal, RequestInv, Paired
    <3>2. RequestDecision'
      BY <1>0, <2>1, <3>1 DEF RequestDecision
    <3>3. Decision(i)' = Decision(i)
      BY <1>0, <2>1, <3>1 DEF Decision
    <3>4. \A j \in Requested \ {i} : Decision(j)' = Decision(j)
      BY <1>0, <2>1, SameDecision DEF Running
    <3> QED
      BY <1>0, <3>2, <3>3, <3>4, NoDecision
  <2> QED
    BY <2>2, <2>3
<1>4. CASE verify_passed(i) \/ verify_inconclusive(i) \/ verify_failed(i)
  BY <1>1, <1>4 DEF verify_passed, verify_inconclusive, verify_failed,
                    IncidentStatus
<1>5. CASE FaultChanges(i)
  BY <1>0, <1>5, RowsKept DEF FaultChanges, rows
<1> QED
  BY <1>2, <1>3, <1>4, <1>5 DEF WatcherStep

(* An approval queue is what operators are promised, and what they get:    *)
(* whatever restarts, refusals, failed reconciles and lost results come    *)
(* between a decision and its command, every step of the lifecycle is, for *)
(* the requests, a step of Approval or leaves its state alone.             *)
THEOREM ApprovalRefined ==
  ASSUME OneOfEach
  PROVE  Spec => ApprovalKept
<1>1. Init => Promise!Init /\ RequestDecision
  <2> SUFFICES ASSUME Init PROVE Promise!Init /\ RequestDecision
    OBVIOUS
  <2>1. \A o \in Operator : operator[o].pc = "idle"
    BY DEF Init, Idle
  <2>2. \A i \in Requested :
          /\ Decision(i) = "waiting"
          /\ approvals[i] = 0 /\ runs[i] = 0
    BY LifecycleAssumption DEF LifecycleAssumption, Init, Decision
  <2> QED
    BY <2>1, <2>2 DEF Promise!Init, RequestDecision
<1>2. PromiseInv /\ [Next]_vars
        => [Promise!Next]_(Promise!vars) /\ RequestDecision'
  <2> SUFFICES ASSUME PromiseInv, [Next]_vars
               PROVE  (Promise!Next \/ UNCHANGED Promise!vars)
                      /\ RequestDecision'
    OBVIOUS
  <2>1. PromiseStep /\ RequestDecision'
    <3>1. CASE UNCHANGED vars
      BY <3>1, RowsKept DEF vars, PromiseInv
    <3> QED
      BY OneOfEach, <3>1, HandlerPromises, PollerRows, PollerPromises,
         ProcessPromises, OperatorPromises, WatcherPromises DEF Next
  <2> QED
    BY <2>1 DEF PromiseStep, Promise!vars, Decisions, Granted, Started
<1> QED
  BY <1>1, <1>2, RequestInvariant, OneOfEach, PTL
     DEF Spec, ApprovalKept, Promise!Spec, PromiseInv

-----------------------------------------------------------------------------
(* Where there is one health check, for any number of Workers.             *)

(* Nothing a health check proposes can be a duplicate of another one's.    *)
OneHealthCheck == \A i, j \in Incident \ Requested : i = j

NoRequestDiagnosed == \A i \in Requested : Undiagnosed(i)

(* Handlers work for health checks only, so none finds its proposal taken. *)
LEMMA NoDuplicate ==
  ASSUME OneHealthCheck, TypeOK, NoRequestDiagnosed,
         NEW w \in Worker
  PROVE  ~propose_duplicate(w)
<1> SUFFICES ASSUME propose_duplicate(w) PROVE FALSE
  OBVIOUS
<1>1. handler[w].on \in Incident \ Requested
  BY DEF TypeOK, propose_duplicate, NoRequestDiagnosed, Undiagnosed
<1>2. action[handler[w].on] \in InFlight
  BY <1>1 DEF propose_duplicate, OneHealthCheck
<1> QED
  BY <1>2 DEF propose_duplicate, InFlight

LEMMA ConcludesHandler ==
  ASSUME OneHealthCheck, TypeOK, NoRequestDiagnosed, DiagnosisConcludes,
         NEW w \in Worker, HandlerStep(w)
  PROVE  NoRequestDiagnosed' /\ DiagnosisConcludes'
<1> USE DEF TypeOK, NoRequestDiagnosed, Undiagnosed, DiagnosisConcludes,
            Handler, At
<1>a. Idle.pc = "idle"
  BY DEF Idle
<1>b. /\ handler[w].on \in Incident
      /\ handler[w].pc # "idle" => handler[w].on \notin Requested
  OBVIOUS
<1>1. ASSUME NEW i \in Incident, load_incident(w, i)
      PROVE  NoRequestDiagnosed' /\ DiagnosisConcludes'
  <2>1. /\ i \notin Requested /\ Receive(i)
        /\ UNCHANGED <<incident, fault, refused>>
    BY <1>1 DEF load_incident, rows, history
  <2>2. CASE incident[i] \in NonProcessable
    BY <1>1, <2>1, <2>2 DEF load_incident, Receive, NonProcessable
  <2>3. CASE incident[i] \notin NonProcessable
    <3>1. /\ handler[w].pc = "idle"
          /\ handler' = [handler EXCEPT ![w] = [pc |-> "write", on |-> i]]
          /\ messages' = [messages EXCEPT ![i] = @ - 1]
      BY <1>1, <2>1, <2>3 DEF load_incident, Receive
    <3>2. NoRequestDiagnosed'
      BY <2>1, <3>1
    <3>3. handler'[w].pc # "idle" /\ handler'[w].on = i
      BY <3>1
    <3>4. ASSUME NEW j \in Incident \ refused, j # i,
                 incident'[j] = "DIAGNOSING"
          PROVE  \/ messages'[j] > 0
                 \/ \E v \in Worker : handler'[v].pc # "idle"
                                      /\ handler'[v].on = j
      <4>1. \/ messages[j] > 0
            \/ \E v \in Worker : handler[v].pc # "idle" /\ handler[v].on = j
        BY <2>1, <3>1, <3>4
      <4>2. CASE messages[j] > 0
        BY <3>1, <3>4, <4>2
      <4>3. CASE \E v \in Worker : handler[v].pc # "idle" /\ handler[v].on = j
        <5>1. PICK v \in Worker : handler[v].pc # "idle" /\ handler[v].on = j
          BY <4>3
        <5>2. v # w
          BY <3>1, <3>4, <5>1
        <5>3. handler'[v] = handler[v]
          BY <3>1, <5>2
        <5> QED
          BY <5>1, <5>3
      <4> QED
        BY <4>1, <4>2, <4>3
    <3> QED
      BY <2>1, <3>2, <3>3, <3>4
  <2> QED
    BY <2>2, <2>3
<1>2. CASE write_diagnosing(w)
  BY <1>b, <1>2 DEF write_diagnosing, WriteIncident
<1>3. CASE propose(w)
  <2>1. CASE /\ action' = [action EXCEPT ![handler[w].on] = "PENDING"]
             /\ UNCHANGED incident
             /\ Handler(w, At("route", handler[w].on))
    BY <1>b, <1>3, <2>1 DEF propose, history
  <2>2. CASE WriteIncident(handler[w].on, "FAILED") /\ Handler(w, Idle)
    BY <1>a, <1>b, <1>3, <2>2 DEF propose, WriteIncident, history
  <2> QED
    BY <1>3, <2>1, <2>2 DEF propose
<1>4. CASE reuse_pending(w)
  BY <1>b, <1>4 DEF reuse_pending, rows, history
<1>5. CASE restore(w)
  <2>1. ResolvedActionStatus(action[handler[w].on]) # "DIAGNOSING"
    BY <1>b, <1>5 DEF restore, ResolvedActionStatus, ActionStatus
  <2> QED
    BY <1>a, <1>b, <1>5, <2>1 DEF restore, WriteIncident, history
<1>6. CASE route(w)
  BY <1>a, <1>b, <1>6 DEF route, Write, history
<1>7. CASE diagnosis_raises(w)
  <2>1. /\ handler' = [handler EXCEPT ![w] = Idle]
        /\ UNCHANGED fault
    BY <1>7 DEF diagnosis_raises
  <2>2. CASE Send(handler[w].on) /\ UNCHANGED <<rows, refused>>
    BY <1>a, <1>b, <1>7, <2>1, <2>2 DEF diagnosis_raises, rows, Send
  <2>3. CASE /\ WriteIncident(handler[w].on, "FAILED")
             /\ Send(handler[w].on) \/ UNCHANGED messages
             /\ UNCHANGED refused
    <3>1. handler[w].pc # "idle"
      BY <1>7 DEF diagnosis_raises
    <3>2. CASE Send(handler[w].on)
      BY <1>a, <1>b, <2>1, <2>3, <3>1, <3>2 DEF WriteIncident, Send
    <3>3. CASE UNCHANGED messages
      BY <1>a, <1>b, <2>1, <2>3, <3>1, <3>3 DEF WriteIncident
    <3> QED
      BY <2>3, <3>2, <3>3
  <2>4. CASE Refused(handler[w].on)
    BY <1>a, <1>b, <2>1, <2>4 DEF Refused, rows
  <2> QED
    BY <1>7, <2>2, <2>3, <2>4 DEF diagnosis_raises, RetriesExhausted
<1>8. CASE write_refused(w)
  BY <1>a, <1>b, <1>8 DEF write_refused, Refused, rows
<1>9. CASE route_raises(w)
  <2>1. /\ handler' = [handler EXCEPT ![w] = Idle]
        /\ UNCHANGED <<messages, fault>>
    BY <1>9 DEF route_raises, Refused
  <2>2. CASE Refused(handler[w].on)
    BY <1>a, <1>b, <2>1, <2>2 DEF Refused, rows
  <2>3. CASE Write(handler[w].on, "FAILED", "FAILED") /\ UNCHANGED refused
    BY <1>a, <1>b, <2>1, <2>3 DEF Write
  <2> QED
    BY <1>9, <2>2, <2>3 DEF route_raises
<1> QED
  BY <1>1, <1>2, <1>3, <1>4, <1>5, <1>6, <1>7, <1>8, <1>9, NoDuplicate
     DEF HandlerStep

LEMMA ConcludesProcess ==
  ASSUME TypeOK, NoRequestDiagnosed, DiagnosisConcludes,
         NEW w \in Worker, ProcessStep(w)
  PROVE  NoRequestDiagnosed' /\ DiagnosisConcludes'
<1> USE DEF TypeOK, NoRequestDiagnosed, Undiagnosed, DiagnosisConcludes
<1>1. CASE WorkerRestart(w)
  <2>a. Idle.pc = "idle"
    BY DEF Idle
  <2>1. CASE handler[w].pc = "idle"
    BY <1>1, <2>a, <2>1 DEF WorkerRestart, rows, history, Handler
  <2>2. CASE handler[w].pc # "idle"
    <3> DEFINE i == handler[w].on
    <3>1. /\ i \in Incident /\ i \notin Requested
          /\ UNCHANGED <<incident, fault, refused>>
          /\ handler' = [handler EXCEPT ![w] = Idle]
          /\ messages' = [messages EXCEPT ![i] = @ + 1]
      BY <1>1, <2>2 DEF WorkerRestart, rows, history, Handler, Send
    <3>2. NoRequestDiagnosed'
      BY <2>a, <3>1
    <3>3. messages'[i] > 0
      BY <3>1
    <3>4. ASSUME NEW j \in Incident \ refused, j # i,
                 incident'[j] = "DIAGNOSING"
          PROVE  \/ messages'[j] > 0
                 \/ \E v \in Worker : handler'[v].pc # "idle"
                                      /\ handler'[v].on = j
      <4>1. \/ messages[j] > 0
            \/ \E v \in Worker : handler[v].pc # "idle" /\ handler[v].on = j
        BY <3>1, <3>4
      <4>2. CASE messages[j] > 0
        BY <3>1, <3>4, <4>2
      <4>3. CASE \E v \in Worker : handler[v].pc # "idle" /\ handler[v].on = j
        <5>1. PICK v \in Worker : handler[v].pc # "idle" /\ handler[v].on = j
          BY <4>3
        <5>2. v # w
          BY <3>1, <3>4, <5>1
        <5>3. handler'[v] = handler[v]
          BY <3>1, <5>2
        <5> QED
          BY <5>1, <5>3
      <4> QED
        BY <4>1, <4>2, <4>3
    <3> QED
      BY <3>1, <3>2, <3>3, <3>4
  <2> QED
    BY <2>1, <2>2
<1>2. CASE reconcile_interrupted(w)
  BY <1>2 DEF reconcile_interrupted, history
<1>3. CASE reconcile_raises(w)
  BY <1>3 DEF reconcile_raises, rows, history
<1> QED
  BY <1>1, <1>2, <1>3, ProcessStep(w) DEF ProcessStep

(* The poller and the operators leave messages and handlers alone, and     *)
(* write no Incident DIAGNOSING.                                           *)
LEMMA ConcludesOthers ==
  ASSUME TypeOK, NoRequestDiagnosed, DiagnosisConcludes,
         \/ \E w \in Worker : PollerStep(w)
         \/ \E o \in Operator : OperatorStep(o)
  PROVE  NoRequestDiagnosed' /\ DiagnosisConcludes'
<1>1. /\ UNCHANGED <<messages, fault, handler, refused>>
      /\ \/ UNCHANGED incident
         \/ \E i \in Incident, s \in IncidentStatus \ {"DIAGNOSING"} :
              incident' = [incident EXCEPT ![i] = s]
  <2>1. ASSUME NEW w \in Worker, PollerStep(w)
        PROVE  /\ UNCHANGED <<messages, fault, handler, refused>>
               /\ \/ UNCHANGED incident
                  \/ \E s \in IncidentStatus \ {"DIAGNOSING"} :
                       incident' = [incident EXCEPT ![poller[w].on] = s]
    <3>1. CASE withdraw_approval(w)
      BY <3>1 DEF withdraw_approval, history, Write, IncidentStatus
    <3>2. CASE claim(w)
      BY <3>2 DEF claim, WriteIncident, rows, history, IncidentStatus
    <3>3. CASE record(w)
      BY <3>3 DEF record, history, Write, AfterSuccess, IncidentStatus
    <3> QED
      BY <2>1, <3>1, <3>2, <3>3
         DEF PollerStep, load_approved, confirm_approval, run_command,
             execution_refused, record_raises, reconcile_stuck_rbd, rows,
             history
  <2>2. ASSUME NEW o \in Operator, OperatorStep(o)
        PROVE  /\ UNCHANGED <<messages, fault, handler, refused>>
               /\ \/ UNCHANGED incident
                  \/ \E s \in IncidentStatus \ {"DIAGNOSING"} :
                       incident' = [incident EXCEPT ![operator[o].on] = s]
    <3>1. CASE approve(o)
      BY <3>1 DEF approve, Write, IncidentStatus
    <3>2. CASE reject(o)
      BY <3>2 DEF reject, history, Write, IncidentStatus
    <3> QED
      BY <2>2, <3>1, <3>2 DEF OperatorStep, open_decision, approve_refused,
                              rows, history
  <2>3. /\ \A w \in Worker : poller[w].on \in Incident
        /\ \A o \in Operator : operator[o].on \in Incident
    BY DEF TypeOK
  <2> QED
    BY <2>1, <2>2, <2>3
<1> QED
  BY <1>1 DEF TypeOK, NoRequestDiagnosed, Undiagnosed, DiagnosisConcludes

LEMMA ConcludesWatcher ==
  ASSUME TypeOK, NoRequestDiagnosed, DiagnosisConcludes,
         NEW i \in Incident, WatcherStep(i)
  PROVE  NoRequestDiagnosed' /\ DiagnosisConcludes'
<1> USE DEF TypeOK, NoRequestDiagnosed, Undiagnosed, DiagnosisConcludes
<1>1. CASE resolve_recovered(i)
  BY <1>1 DEF resolve_recovered, history, Write
<1>2. CASE reconcile_terminal(i)
  BY <1>2 DEF reconcile_terminal, history
<1>3. CASE verify_passed(i) \/ verify_inconclusive(i)
  BY <1>3 DEF verify_passed, verify_inconclusive, history,
                WriteIncident
<1>4. CASE verify_failed(i)
  <2>1. i \notin Requested /\ UNCHANGED <<fault, handler, refused>>
    BY <1>4 DEF verify_failed, history
  <2>2. CASE WriteIncident(i, "DIAGNOSING") /\ Send(i)
    BY <2>1, <2>2 DEF WriteIncident, Send
  <2>3. CASE WriteIncident(i, "FAILED") /\ UNCHANGED messages
    BY <2>1, <2>3 DEF WriteIncident
  <2> QED
    BY <1>4, <2>2, <2>3 DEF verify_failed
<1>5. CASE FaultChanges(i)
  BY <1>5 DEF FaultChanges, rows, history
<1> QED
  BY <1>1, <1>2, <1>3, <1>4, <1>5 DEF WatcherStep

(* However many Workers handle redelivered messages of the one Incident,   *)
(* raise, retry or restart, none leaves it DIAGNOSING with nobody to       *)
(* conclude the diagnosis, but the one to which the database refused the   *)
(* row: its load, its DIAGNOSING, or the FAILED that gives up (Refused).   *)
(* With a second health check the loser of the in-flight constraint does,  *)
(* too (propose_duplicate).                                                *)
THEOREM DiagnosisIsConcluded ==
  ASSUME OneHealthCheck
  PROVE  Spec => []DiagnosisConcludes
<1>1. Init => NoRequestDiagnosed /\ DiagnosisConcludes
  <2>1. Idle.pc = "idle"
    BY DEF Idle
  <2> QED
    BY <2>1, LifecycleAssumption
       DEF LifecycleAssumption, Init, NoRequestDiagnosed, Undiagnosed,
           DiagnosisConcludes
<1>2. TypeOK /\ NoRequestDiagnosed /\ DiagnosisConcludes /\ [Next]_vars
        => NoRequestDiagnosed' /\ DiagnosisConcludes'
  <2>1. ASSUME NoRequestDiagnosed, DiagnosisConcludes, UNCHANGED vars
        PROVE  NoRequestDiagnosed' /\ DiagnosisConcludes'
    BY <2>1 DEF NoRequestDiagnosed, Undiagnosed, DiagnosisConcludes, vars
  <2> QED
    BY OneHealthCheck, <2>1, ConcludesHandler, ConcludesProcess,
       ConcludesOthers, ConcludesWatcher DEF Next
<1> QED
  BY <1>1, <1>2, LifecycleTypeCorrect, PTL DEF Spec
=============================================================================
