---------------------- MODULE AutonomousExecutionProofs ----------------------
(***************************************************************************)
(* Theorems about AutonomousExecution: the state is typed, whatever the    *)
(* settings; and without a grace period, on a queue that gives a message   *)
(* back only when its Worker stopped, no two commands run under a lease    *)
(* that has neither expired nor been deleted by a recovery, and no command *)
(* starts twice; and the hourly limit is passed by no more than the threads*)
(* that count at the same time.                                            *)
(***************************************************************************)
EXTENDS AutonomousExecution, FiniteSetTheorems, TLAPS

-----------------------------------------------------------------------------
(* Type correctness.                                                       *)

LEMMA IdleTyped == Idle \in ThreadState
BY DEF ThreadState, Idle

LEMMA BusyTyped ==
  ASSUME NEW pc \in Pc \ {"idle"}, NEW a \in Action
  PROVE  At(pc, a) \in ThreadState
BY DEF ThreadState, At

(* A thread that is not idle is on an Action.                              *)
LEMMA OnAction ==
  ASSUME TypeOK, NEW t \in Thread, thread[t].pc # "idle"
  PROVE  /\ My(t) \in Action /\ thread[t].pc \in Pc
         /\ thread[t] = At(thread[t].pc, My(t))
BY DEF TypeOK, ThreadState, Idle, At, My

LEMMA GoTyped ==
  ASSUME TypeOK, NEW t \in Thread, thread[t].pc # "idle",
         NEW pc \in Pc \ {"idle"}, Go(t, pc)
  PROVE  thread' \in [Thread -> ThreadState]
<1>1. thread[t] \in [pc : Pc, on : Action]
  BY DEF TypeOK, ThreadState, Idle, At
<1>2. [thread[t] EXCEPT !.pc = pc] = At(pc, My(t))
  BY <1>1 DEF At, My
<1>3. thread' = [thread EXCEPT ![t] = At(pc, My(t))]
  BY <1>2 DEF Go
<1>4. At(pc, My(t)) \in ThreadState
  BY OnAction, BusyTyped
<1> QED
  BY <1>3, <1>4 DEF TypeOK

LEMMA ReturnTyped ==
  ASSUME TypeOK, NEW t \in Thread, thread[t].pc # "idle", Return(t)
  PROVE  thread' \in [Thread -> ThreadState]
<1>1. At("done", My(t)) \in ThreadState
  BY OnAction, BusyTyped DEF Pc
<1>2. CASE IsHandler(t)
  BY <1>1, <1>2 DEF TypeOK, Return
<1>3. CASE ~IsHandler(t)
  BY <1>3, IdleTyped DEF TypeOK, Return
<1> QED
  BY <1>2, <1>3

LEMMA RowsTyped ==
  ASSUME TypeOK, NEW a \in Action, NEW s \in ActionStatus,
         NEW i \in IncidentStatus, Write(a, s, i)
  PROVE  /\ action' \in [Action -> ActionStatus]
         /\ incident' \in [Action -> IncidentStatus]
BY DEF TypeOK, Write

LEMMA ReleasedTyped ==
  ASSUME TypeOK, NEW a \in Action
  PROVE  Released(a) \in [holder : Action \cup {NoAction}, live : BOOLEAN]
BY DEF TypeOK, Released, NoLease

LEMMA ExecuteTyped ==
  ASSUME TypeOK, NEW t \in Thread, ExecuteStep(t)
  PROVE  TypeOK'
<1>0. thread[t].pc # "idle"
  BY DEF ExecuteStep, gates_block, start_grace, refuse, check_limits,
         acquire_lease, lease_refused, route_to_approval, mark_executing,
         record_result, release_lease, raises, Executing
<1>a. My(t) \in Action
  BY <1>0, OnAction
<1>1. CASE gates_block(t)
  <2>1. thread' \in [Thread -> ThreadState]
    BY <1>0, <1>1, GoTyped DEF gates_block, Pc, Executing
  <2> QED
    BY <1>1, <2>1 DEF TypeOK, gates_block, rows, counters
<1>2. CASE start_grace(t)
  <2>1. thread' \in [Thread -> ThreadState]
    BY <1>0, <1>2, ReturnTyped DEF start_grace
  <2>2. /\ action' \in [Action -> ActionStatus]
        /\ incident' \in [Action -> IncidentStatus]
    BY <1>a, <1>2, RowsTyped DEF start_grace, ActionStatus, IncidentStatus
  <2> QED
    BY <1>a, <1>2, <2>1, <2>2 DEF TypeOK, start_grace, counters
<1>3. CASE refuse(t)
  <2>1. thread' \in [Thread -> ThreadState]
    BY <1>0, <1>3, ReturnTyped DEF refuse
  <2>2. /\ action' \in [Action -> ActionStatus]
        /\ incident' \in [Action -> IncidentStatus]
    BY <1>a, <1>3, RowsTyped DEF refuse, ActionStatus, IncidentStatus
  <2> QED
    BY <1>3, <2>1, <2>2 DEF TypeOK, refuse, counters
<1>4. CASE check_limits(t)
  <2>1. thread' \in [Thread -> ThreadState]
    BY <1>0, <1>4, GoTyped DEF check_limits, Pc, Executing
  <2> QED
    BY <1>4, <2>1 DEF TypeOK, check_limits, rows, counters
<1>5. CASE acquire_lease(t)
  <2>1. thread' \in [Thread -> ThreadState]
    BY <1>0, <1>5, GoTyped DEF acquire_lease, Pc, Executing
  <2>2. lease' \in [holder : Action \cup {NoAction}, live : BOOLEAN]
    BY <1>a, <1>5 DEF acquire_lease
  <2> QED
    BY <1>5, <2>1, <2>2 DEF TypeOK, acquire_lease, rows, counters
<1>6. CASE lease_refused(t)
  <2>1. thread' \in [Thread -> ThreadState]
    BY <1>0, <1>6, GoTyped DEF lease_refused, Pc, Executing
  <2> QED
    BY <1>6, <2>1 DEF TypeOK, lease_refused, rows, counters
<1>7. CASE route_to_approval(t)
  <2>1. thread' \in [Thread -> ThreadState]
    BY <1>0, <1>7, ReturnTyped DEF route_to_approval
  <2>2. /\ action' \in [Action -> ActionStatus]
        /\ incident' \in [Action -> IncidentStatus]
    BY <1>a, <1>7, RowsTyped
       DEF route_to_approval, ActionStatus, IncidentStatus
  <2> QED
    BY <1>7, <2>1, <2>2 DEF TypeOK, route_to_approval, counters
<1>8. CASE mark_executing(t)
  <2>1. thread' \in [Thread -> ThreadState]
    BY <1>0, <1>8, GoTyped DEF mark_executing, Pc, Executing
  <2>2. /\ action' \in [Action -> ActionStatus]
        /\ incident' \in [Action -> IncidentStatus]
    BY <1>a, <1>8, RowsTyped
       DEF mark_executing, ActionStatus, IncidentStatus
  <2>3. ran' \in [Action -> Nat]
    BY <1>a, <1>8 DEF TypeOK, mark_executing
  <2> QED
    BY <1>8, <2>1, <2>2, <2>3 DEF TypeOK, mark_executing, counters
<1>9. CASE record_result(t)
  <2>1. thread' \in [Thread -> ThreadState]
    BY <1>0, <1>9, GoTyped DEF record_result, Pc, Executing
  <2>2. /\ action' \in [Action -> ActionStatus]
        /\ incident' \in [Action -> IncidentStatus]
    <3>1. CASE Write(My(t), "AUTO_EXECUTED", "VERIFYING")
      BY <1>a, <3>1, RowsTyped DEF ActionStatus, IncidentStatus
    <3>2. CASE Write(My(t), "FAILED", "FAILED")
      BY <1>a, <3>2, RowsTyped DEF ActionStatus, IncidentStatus
    <3> QED
      BY <1>9, <3>1, <3>2 DEF record_result
  <2>3. recent' \in SUBSET Action
    BY <1>a, <1>9 DEF TypeOK, record_result
  <2> QED
    BY <1>9, <2>1, <2>2, <2>3 DEF TypeOK, record_result, counters
<1>10. CASE release_lease(t)
  <2>1. thread' \in [Thread -> ThreadState]
    BY <1>0, <1>10, ReturnTyped DEF release_lease
  <2>2. lease' \in [holder : Action \cup {NoAction}, live : BOOLEAN]
    BY <1>a, <1>10, ReleasedTyped DEF release_lease
  <2> QED
    BY <1>10, <2>1, <2>2 DEF TypeOK, release_lease, rows, counters
<1>11. CASE raises(t)
  <2>1. thread' \in [Thread -> ThreadState]
    BY <1>0, <1>11, ReturnTyped DEF raises
  <2>2. /\ action' \in [Action -> ActionStatus]
        /\ incident' \in [Action -> IncidentStatus]
    <3>1. CASE Write(My(t), "FAILED", "FAILED")
      BY <1>a, <3>1, RowsTyped DEF ActionStatus, IncidentStatus
    <3>2. CASE UNCHANGED rows
      BY <3>2 DEF TypeOK, rows
    <3> QED
      BY <1>11, <3>1, <3>2 DEF raises
  <2> QED
    BY <1>11, <2>1, <2>2 DEF TypeOK, raises, counters
<1> QED
  BY <1>1, <1>2, <1>3, <1>4, <1>5, <1>6, <1>7, <1>8, <1>9, <1>10, <1>11
     DEF ExecuteStep
LEMMA DiagnosisTyped ==
  ASSUME TypeOK, NEW t \in Thread, DiagnosisStep(t)
  PROVE  TypeOK'
<1>1. ASSUME NEW a \in Action, load_incident(t, a) PROVE TypeOK'
  <2>1. thread' \in [Thread -> ThreadState]
    <3>1. /\ At("done", a) \in ThreadState
          /\ At("write", a) \in ThreadState
      BY BusyTyped DEF Pc
    <3> QED
      BY <1>1, <3>1 DEF TypeOK, load_incident
  <2>2. messages' \in [Action -> Nat]
    BY <1>1 DEF TypeOK, load_incident
  <2> QED
    BY <1>1, <2>1, <2>2 DEF TypeOK, load_incident, rows, counters
<1>2. CASE write_diagnosing(t)
  <2>1. thread[t].pc # "idle" /\ thread' \in [Thread -> ThreadState]
    BY <1>2, GoTyped DEF write_diagnosing, Pc
  <2>2. incident' \in [Action -> IncidentStatus]
    BY <1>2, <2>1, OnAction
       DEF TypeOK, write_diagnosing, WriteIncident, IncidentStatus
  <2> QED
    BY <1>2, <2>1, <2>2 DEF TypeOK, write_diagnosing, WriteIncident, counters
<1>3. CASE propose(t) \/ execute_again(t)
  <2>0. /\ thread[t].pc = "diagnose"
        /\ action' = [action EXCEPT ![My(t)] = "PENDING"]
        /\ Go(t, "gates")
        /\ UNCHANGED <<incident, graced, messages, lease, recent, cancelling,
                       inTime, robbed, ran, counters>>
    BY <1>3 DEF propose, execute_again
  <2>1. thread' \in [Thread -> ThreadState]
    BY <2>0, GoTyped DEF Pc, Executing
  <2>2. action' \in [Action -> ActionStatus]
    BY <2>0 DEF TypeOK, ActionStatus
  <2> QED
    BY <2>0, <2>1, <2>2 DEF TypeOK, counters
<1>4. CASE restore(t)
  <2>1. thread[t].pc # "idle" /\ thread' \in [Thread -> ThreadState]
    BY <1>4, GoTyped DEF restore, Pc
  <2>2. PICK i \in RestoredStatus(action[My(t)]) : WriteIncident(My(t), i)
    BY <1>4 DEF restore
  <2>3. i \in IncidentStatus
    BY <2>2 DEF RestoredStatus, IncidentStatus
  <2>4. incident' \in [Action -> IncidentStatus]
    BY <2>1, <2>2, <2>3, OnAction DEF TypeOK, WriteIncident
  <2> QED
    BY <1>4, <2>1, <2>2, <2>4 DEF TypeOK, restore, WriteIncident, counters
<1>5. CASE ack(t)
  <2>1. thread' \in [Thread -> ThreadState]
    BY <1>5, IdleTyped DEF TypeOK, ack
  <2> QED
    BY <1>5, <2>1 DEF TypeOK, ack, rows, counters
<1> QED
  BY <1>1, <1>2, <1>3, <1>4, <1>5 DEF DiagnosisStep

LEMMA TickTyped ==
  ASSUME TypeOK, NEW t \in Thread, TickStep(t)
  PROVE  TypeOK'
<1>1. ASSUME NEW a \in Action, reconcile_read(t, a) \/ grace_read(t, a)
      PROVE  TypeOK'
  <2>1. thread' \in [Thread -> ThreadState]
    <3>1. /\ At("reconcile", a) \in ThreadState
          /\ At("resume", a) \in ThreadState
      BY BusyTyped DEF Pc
    <3> QED
      BY <1>1, <3>1 DEF TypeOK, reconcile_read, grace_read
  <2> QED
    BY <1>1, <2>1 DEF TypeOK, reconcile_read, grace_read, rows, counters
<1>2. CASE reconcile_lease(t)
  <2>1. CASE Orphaned(My(t))
    <3>1. PICK pc \in {"expired", "missing"} : Go(t, pc)
      BY <1>2, <2>1 DEF reconcile_lease
    <3>2. thread' \in [Thread -> ThreadState]
      BY <1>2, <3>1, GoTyped DEF reconcile_lease, Pc
    <3> QED
      BY <1>2, <3>2 DEF TypeOK, reconcile_lease, rows, counters
  <2>2. CASE ~Orphaned(My(t))
    <3>1. thread' \in [Thread -> ThreadState]
      BY <1>2, <2>2, IdleTyped DEF TypeOK, reconcile_lease
    <3> QED
      BY <1>2, <3>1 DEF TypeOK, reconcile_lease, rows, counters
  <2> QED
    BY <2>1, <2>2
<1>3. CASE reconcile_write(t)
  <2>0. My(t) \in Action
    BY <1>3, OnAction DEF reconcile_write
  <2>1. thread' \in [Thread -> ThreadState]
    BY <1>3, IdleTyped DEF TypeOK, reconcile_write
  <2>2. /\ action' \in [Action -> ActionStatus]
        /\ incident' \in [Action -> IncidentStatus]
    BY <1>3, <2>0, RowsTyped
       DEF reconcile_write, ActionStatus, IncidentStatus
  <2>3. /\ lease' \in [holder : Action \cup {NoAction}, live : BOOLEAN]
        /\ robbed' \in SUBSET Thread
    <3>1. CASE thread[t].pc = "expired"
      <4> DEFINE Losers == {u \in inTime : lease.live /\ My(u) = lease.holder}
      <4>1. lease' = NoLease /\ robbed' = robbed \cup Losers
        BY <1>3, <3>1 DEF reconcile_write
      <4>2. Losers \subseteq Thread
        BY DEF TypeOK
      <4>3. robbed' \in SUBSET Thread
        BY <4>1, <4>2 DEF TypeOK
      <4>4. lease' \in [holder : Action \cup {NoAction}, live : BOOLEAN]
        BY <4>1 DEF NoLease
      <4> QED
        BY <4>3, <4>4
    <3>2. CASE thread[t].pc # "expired"
      BY <1>3, <3>2 DEF TypeOK, reconcile_write
    <3> QED
      BY <3>1, <3>2
  <2> QED
    BY <1>3, <2>1, <2>2, <2>3 DEF TypeOK, reconcile_write, counters
<1>4. CASE grace_resume(t)
  <2>0. thread[t].pc # "idle" /\ My(t) \in Action
    BY <1>4, OnAction DEF grace_resume
  <2>1. thread' \in [Thread -> ThreadState]
    BY <1>4, <2>0, GoTyped, ReturnTyped DEF grace_resume, Pc, Executing
  <2>2. /\ action' \in [Action -> ActionStatus]
        /\ incident' \in [Action -> IncidentStatus]
    <3>1. CASE Write(My(t), "PENDING", "DIAGNOSING")
      BY <2>0, <3>1, RowsTyped DEF ActionStatus, IncidentStatus
    <3>2. CASE Write(My(t), "PENDING_APPROVAL", "PENDING_APPROVAL")
      BY <2>0, <3>2, RowsTyped DEF ActionStatus, IncidentStatus
    <3> QED
      BY <1>4, <3>1, <3>2 DEF grace_resume
  <2> QED
    BY <1>4, <2>1, <2>2 DEF TypeOK, grace_resume, counters
<1> QED
  BY <1>1, <1>2, <1>3, <1>4 DEF TickStep

LEMMA OtherTyped ==
  ASSUME TypeOK, NEW a \in Action, OtherStep(a)
  PROVE  TypeOK'
<1>1. CASE open_cancel(a)
  BY <1>1 DEF TypeOK, open_cancel, rows, counters
<1>2. CASE cancel_grace(a)
  <2>1. /\ action' \in [Action -> ActionStatus]
        /\ incident' \in [Action -> IncidentStatus]
    BY <1>2, RowsTyped DEF cancel_grace, ActionStatus, IncidentStatus
  <2> QED
    BY <1>2, <2>1 DEF TypeOK, cancel_grace, counters
<1>3. CASE resolve_recovered(a)
  <2>1. PICK s \in ActionStatus : Write(a, s, "RESOLVED")
    BY <1>3 DEF TypeOK, resolve_recovered, ActionStatus
  <2>2. /\ action' \in [Action -> ActionStatus]
        /\ incident' \in [Action -> IncidentStatus]
    BY <2>1, RowsTyped DEF IncidentStatus
  <2> QED
    BY <1>3, <2>2 DEF TypeOK, resolve_recovered, counters
<1>4. CASE verify_closed(a)
  <2>1. incident' \in [Action -> IncidentStatus]
    BY <1>4 DEF TypeOK, verify_closed, WriteIncident, IncidentStatus
  <2> QED
    BY <1>4, <2>1 DEF TypeOK, verify_closed, WriteIncident, counters
<1>5. CASE verify_retry(a)
  <2>1. incident' \in [Action -> IncidentStatus]
    BY <1>5 DEF TypeOK, verify_retry, WriteIncident, IncidentStatus
  <2>2. verifies' \in [Action -> 0 .. MaxVerify]
    <3>1. verifies[a] + 1 \in 0 .. MaxVerify
      BY <1>5, AutonomyAssumption
         DEF TypeOK, verify_retry, AutonomyAssumption
    <3> QED
      BY <1>5, <3>1 DEF TypeOK, verify_retry
  <2>3. messages' \in [Action -> Nat]
    BY <1>5 DEF TypeOK, verify_retry
  <2> QED
    BY <1>5, <2>1, <2>2, <2>3 DEF TypeOK, verify_retry, WriteIncident
<1>6. CASE HourPasses(a)
  BY <1>6 DEF TypeOK, HourPasses, rows, counters
<1> QED
  BY <1>1, <1>2, <1>3, <1>4, <1>5, <1>6 DEF OtherStep

LEMMA FaultTyped ==
  ASSUME TypeOK,
         \/ \E t \in Thread : Redeliver(t) \/ RobbedExpires(t)
         \/ \E w \in Worker : WorkerRestart(w)
         \/ ExpireLease
  PROVE  TypeOK'
<1>1. ASSUME NEW t \in Thread, Redeliver(t) PROVE TypeOK'
  <2>1. messages' \in [Action -> Nat]
    BY <1>1, OnAction DEF TypeOK, Redeliver
  <2>2. copies' \in 0 .. MaxCopies
    BY <1>1, AutonomyAssumption DEF TypeOK, Redeliver, AutonomyAssumption
  <2> QED
    BY <1>1, <2>1, <2>2 DEF TypeOK, Redeliver, rows
<1>2. ASSUME NEW w \in Worker, WorkerRestart(w) PROVE TypeOK'
  <2>0. <<w, "handler">> \in Thread /\ <<w, "poller">> \in Thread
    BY DEF Thread
  <2>1. messages' \in [Action -> Nat]
    <3>1. CASE thread[<<w, "handler">>].pc = "idle"
      BY <1>2, <3>1 DEF TypeOK, WorkerRestart
    <3>2. CASE thread[<<w, "handler">>].pc # "idle"
      BY <1>2, <2>0, <3>2, OnAction DEF TypeOK, WorkerRestart
    <3> QED
      BY <3>1, <3>2
  <2>2. thread' \in [Thread -> ThreadState]
    BY <1>2, IdleTyped DEF TypeOK, WorkerRestart
  <2>3. crashes' \in 0 .. MaxCrashes
    BY <1>2, AutonomyAssumption DEF TypeOK, WorkerRestart, AutonomyAssumption
  <2> QED
    BY <1>2, <2>1, <2>2, <2>3 DEF TypeOK, WorkerRestart, rows
<1>3. CASE ExpireLease
  <2>1. lease' \in [holder : Action \cup {NoAction}, live : BOOLEAN]
    BY <1>3 DEF TypeOK, ExpireLease
  <2> QED
    BY <1>3, <2>1 DEF TypeOK, ExpireLease, rows, counters
<1>4. ASSUME NEW t \in Thread, RobbedExpires(t) PROVE TypeOK'
  BY <1>4 DEF TypeOK, RobbedExpires, rows, counters
<1> QED
  BY <1>1, <1>2, <1>3, <1>4

LEMMA TypeStep ==
  ASSUME TypeOK, [Next]_vars
  PROVE  TypeOK'
<1>1. CASE UNCHANGED vars
  BY <1>1 DEF TypeOK, vars, rows, counters
<1> QED
  BY <1>1, ExecuteTyped, DiagnosisTyped, TickTyped, OtherTyped, FaultTyped
     DEF Next

(* Whatever the settings and however many Workers: in particular a         *)
(* redelivered diagnosis restores only statuses that Incidents have.       *)
THEOREM AutonomyTypeCorrect == Spec => []TypeOK
<1>1. Init => TypeOK
  BY AutonomyAssumption, IdleTyped
     DEF AutonomyAssumption, Init, TypeOK, NoLease, IncidentStatus,
         ActionStatus
<1>2. TypeOK /\ [Next]_vars => TypeOK'
  BY TypeStep
<1> QED
  BY <1>1, <1>2, PTL DEF Spec
-----------------------------------------------------------------------------
(* Without a grace period, with no Action that may be repeated, and with   *)
(* messages that come back only from a Worker that stopped.                *)
NoRepeats == ~Grace /\ MaxCopies = 0 /\ Idempotent = {}

(* Then nobody but the handlers executes.                                  *)
NoneInGrace ==
    /\ \A a \in Action : action[a] # "GRACE_PENDING"
    /\ \A t \in Thread :
         ~IsHandler(t) =>
           thread[t].pc \in {"idle", "reconcile", "expired", "missing"}
    /\ \A t \in Thread : thread[t].pc # "resume"

(* An Action that a diagnosis would execute is in one pair of hands, that  *)
(* of the queue or that of one handler, and did not run.                   *)
On(t, a) == thread[t].pc # "idle" /\ thread[t].on = a /\ IsHandler(t)

Alone(a) ==
    /\ \A t, u \in Thread : On(t, a) /\ On(u, a) => t = u
    /\ messages[a] # 0 => messages[a] = 1 /\ \A t \in Thread : ~On(t, a)

Undecided ==
    \A a \in Action :
      Reusable(a) => Alone(a) /\ incident[a] # "VERIFYING" /\ ran[a] = 0

OneExecutes ==
    \A t, u \in Thread :
      /\ thread[t].pc \in Executing /\ thread[u].pc \in Executing
      /\ thread[t].on = thread[u].on
      => t = u

Unstarted ==
    \A t \in Thread :
      thread[t].pc \in {"gates", "acquire", "mark"} => ran[thread[t].on] = 0

AtMostOnce == \A a \in Action : ran[a] <= 1

(* A lease that has neither run out nor been deleted is the one in the     *)
(* table.                                                                  *)
Held ==
    \A t \in inTime \ robbed :
      /\ thread[t].pc \in {"mark", "run", "release"}
      /\ lease = [holder |-> thread[t].on, live |-> TRUE]

Exclusion ==
    /\ NoneInGrace
    /\ Undecided
    /\ OneExecutes
    /\ Unstarted
    /\ AtMostOnce
    /\ Held

LEMMA ExclusionExecute ==
  ASSUME NoRepeats, TypeOK, Exclusion, NEW t \in Thread, ExecuteStep(t)
  PROVE  Exclusion'
<1> DEFINE a == thread[t].on
<1>0. /\ thread[t].pc \in Executing /\ a \in Action /\ IsHandler(t)
      /\ \A u \in Thread : thread[u].pc \in Executing /\ thread[u].on = a
                             => u = t
  <2>1. thread[t].pc \in Executing
    BY DEF ExecuteStep, gates_block, start_grace, refuse, check_limits,
           acquire_lease, lease_refused, route_to_approval, mark_executing,
           record_result, release_lease, raises, Executing
  <2>2. thread[t].pc # "idle" /\ IsHandler(t)
    BY <2>1 DEF Exclusion, NoneInGrace, Executing
  <2>3. a \in Action
    BY <2>2, OnAction DEF My
  <2> QED
    BY <2>1, <2>2, <2>3 DEF Exclusion, OneExecutes
(* Where t goes, and what it does to the rows of its Action.               *)
<1>1. UNCHANGED messages
  BY DEF ExecuteStep, gates_block, start_grace, refuse, check_limits,
         acquire_lease, lease_refused, route_to_approval, mark_executing,
         record_result, release_lease, raises
<1>2. PICK pc \in (Executing \ {"gates"}) \cup {"done"} :
        thread' = [thread EXCEPT ![t] = At(pc, a)]
  <2>1. ASSUME NEW pc \in Executing, Go(t, pc)
        PROVE  thread' = [thread EXCEPT ![t] = At(pc, a)]
    <3>1. thread[t] \in [pc : Pc, on : Action]
      BY <1>0 DEF TypeOK, ThreadState, Idle, At, Executing
    <3>2. [thread[t] EXCEPT !.pc = pc] = At(pc, a)
      BY <3>1 DEF At
    <3> QED
      BY <2>1, <3>2 DEF Go
  <2>2. ASSUME Return(t)
        PROVE  thread' = [thread EXCEPT ![t] = At("done", a)]
    BY <1>0, <2>2 DEF Return, My
  <2> QED
    BY <2>1, <2>2
       DEF ExecuteStep, gates_block, start_grace, refuse, check_limits,
           acquire_lease, lease_refused, route_to_approval, mark_executing,
           record_result, release_lease, raises, Executing
<1>3. /\ ~start_grace(t)
      /\ \/ UNCHANGED rows
         \/ \E s \in ActionStatus \ {"ABSENT", "PENDING", "GRACE_PENDING"},
               i \in IncidentStatus : Write(a, s, i)
  BY DEF ExecuteStep, gates_block, start_grace, refuse, check_limits,
         acquire_lease, lease_refused, route_to_approval, mark_executing,
         record_result, release_lease, raises, NoRepeats, GraceOver,
         ActionStatus, IncidentStatus, rows, My
<1>4. \/ ran' = ran
      \/ /\ thread[t].pc = "mark" /\ pc = "run"
         /\ ran' = [ran EXCEPT ![a] = @ + 1]
         /\ action'[a] = "EXECUTING"
  <2>1. CASE mark_executing(t)
    <3>1. thread'[t].pc = "run"
      BY <2>1 DEF TypeOK, mark_executing, Go
    <3>2. thread'[t].pc = pc
      BY <1>2 DEF TypeOK, At
    <3> QED
      BY <1>0, <2>1, <3>1, <3>2 DEF TypeOK, mark_executing, Write, My
  <2>2. CASE ~mark_executing(t)
    BY <2>2 DEF ExecuteStep, gates_block, start_grace, refuse, check_limits,
                acquire_lease, lease_refused, route_to_approval,
                record_result, release_lease, raises
  <2> QED
    BY <2>1, <2>2
<1>a. ASSUME NEW q, Go(t, q) PROVE pc = q
  BY <1>a, <1>2 DEF Go, TypeOK, At
<1>b. Return(t) => pc = "done"
  BY <1>0, <1>2 DEF Return, TypeOK, At
<1>5. pc \in {"acquire", "mark"} => thread[t].pc \in {"gates", "acquire"}
  BY <1>a, <1>b
     DEF ExecuteStep, gates_block, start_grace, refuse, check_limits,
         acquire_lease, lease_refused, route_to_approval, mark_executing,
         record_result, release_lease, raises
<1>6. \A u \in Thread : thread'[u] = IF u = t THEN At(pc, a) ELSE thread[u]
  BY <1>2 DEF TypeOK
<1>7. NoneInGrace'
  <2>1. \A b \in Action : action'[b] # "GRACE_PENDING"
    BY <1>0, <1>3 DEF TypeOK, Exclusion, NoneInGrace, rows, Write
  <2> QED
    BY <1>0, <1>6, <2>1 DEF Exclusion, NoneInGrace, At, Executing
<1>8. \A u \in Thread, b \in Action : On(u, b)' = On(u, b)
  BY <1>0, <1>6 DEF On, At, Executing
<1>9. Undecided'
  <2> SUFFICES ASSUME NEW b \in Action, Reusable(b)'
               PROVE  /\ Alone(b)' /\ incident'[b] # "VERIFYING"
                      /\ ran'[b] = 0
    BY DEF Undecided
  <2>1. action'[b] = action[b] /\ incident'[b] = incident[b]
    BY <1>0, <1>3 DEF TypeOK, Reusable, rows, Write
  <2>2. ran'[b] = ran[b]
    BY <1>0, <1>4 DEF TypeOK, Reusable
  <2>3. Alone(b) /\ incident[b] # "VERIFYING" /\ ran[b] = 0
    BY <2>1 DEF Reusable, Exclusion, Undecided
  <2> QED
    BY <1>1, <1>8, <2>1, <2>2, <2>3 DEF Alone
<1>10. OneExecutes'
  BY <1>0, <1>6 DEF Exclusion, OneExecutes, At
<1>11. Unstarted'
  <2> SUFFICES ASSUME NEW u \in Thread,
                      thread'[u].pc \in {"gates", "acquire", "mark"}
               PROVE  ran'[thread'[u].on] = 0
    BY DEF Unstarted
  <2>1. CASE u = t
    <3>1. ran[a] = 0
      BY <1>2, <1>5, <1>6, <2>1 DEF Exclusion, Unstarted, At
    <3>2. ran' = ran
      BY <1>4, <1>6, <2>1 DEF At
    <3> QED
      BY <1>6, <2>1, <3>1, <3>2 DEF At
  <2>2. CASE u # t
    <3>1. /\ thread'[u] = thread[u] /\ ran[thread[u].on] = 0
          /\ thread[u].on # a /\ thread[u].pc # "idle"
      BY <1>0, <1>6, <2>2 DEF Exclusion, Unstarted, Executing
    <3>2. thread[u].on \in Action
      BY <3>1, OnAction DEF My
    <3> QED
      BY <1>4, <3>1, <3>2 DEF TypeOK
  <2> QED
    BY <2>1, <2>2
<1>12. AtMostOnce'
  BY <1>0, <1>4 DEF TypeOK, Exclusion, AtMostOnce, Unstarted
<1>13. Held'
  <2>1. CASE acquire_lease(t)
    <3>1. inTime \subseteq robbed
      BY <2>1, OnAction, AutonomyAssumption
         DEF acquire_lease, LeaseFree, Exclusion, Held, TypeOK,
             AutonomyAssumption, My
    <3>2. /\ inTime' = inTime \cup {t} /\ robbed' = robbed
          /\ lease' = [holder |-> a, live |-> TRUE]
      BY <2>1 DEF acquire_lease, My
    <3>3. thread'[t].pc = "mark" /\ thread'[t].on = a
      BY <2>1 DEF acquire_lease, Go, TypeOK
    <3> QED
      BY <3>1, <3>2, <3>3 DEF Held
  <2>2. CASE mark_executing(t) \/ record_result(t)
    <3>1. /\ UNCHANGED <<inTime, robbed, lease>>
          /\ pc \in {"run", "release"}
      BY <1>a, <2>2 DEF mark_executing, record_result
    <3> QED
      BY <1>6, <3>1 DEF TypeOK, Exclusion, Held, At
  <2>3. CASE release_lease(t)
    <3>1. /\ inTime' = inTime \ {t} /\ robbed' = robbed \ {t}
          /\ lease' = Released(a)
      BY <2>3 DEF release_lease, My
    <3>2. ASSUME NEW u \in (inTime \ robbed) \ {t}
          PROVE  thread[u].on # a /\ lease' = lease /\ thread'[u] = thread[u]
      BY <1>0, <1>6, <3>1, <3>2
         DEF TypeOK, Exclusion, Held, Released, Executing
    <3> QED
      BY <3>1, <3>2 DEF Exclusion, Held
  <2>4. CASE raises(t)
    <3>1. /\ inTime' = inTime \ {t} /\ robbed' = robbed \ {t}
          /\ lease' = lease
      BY <2>4 DEF raises
    <3> QED
      BY <1>6, <3>1 DEF TypeOK, Exclusion, Held
  <2>5. CASE ~ \/ acquire_lease(t) \/ mark_executing(t) \/ record_result(t)
               \/ release_lease(t) \/ raises(t)
    <3>1. /\ UNCHANGED <<inTime, robbed, lease>>
          /\ thread[t].pc \in {"gates", "acquire", "blocked"}
      BY <2>5 DEF ExecuteStep, gates_block, start_grace, refuse, check_limits,
                  lease_refused, route_to_approval
    <3> QED
      BY <1>6, <3>1 DEF TypeOK, Exclusion, Held
  <2> QED
    BY <2>1, <2>2, <2>3, <2>4, <2>5
<1> QED
  BY <1>7, <1>9, <1>10, <1>11, <1>12, <1>13 DEF Exclusion
LEMMA ExclusionDiagnosis ==
  ASSUME NoRepeats, TypeOK, Exclusion, NEW t \in Thread, DiagnosisStep(t)
  PROVE  Exclusion'
<1>1. ASSUME NEW a \in Action, load_incident(t, a) PROVE Exclusion'
  <2>1. PICK pc \in {"done", "write"} :
          thread' = [thread EXCEPT ![t] = At(pc, a)]
    BY <1>1 DEF load_incident
  <2>2. /\ thread'[t].pc = pc /\ thread'[t].on = a /\ IsHandler(t)
        /\ thread[t].pc = "idle" /\ messages[a] # 0
        /\ messages' = [messages EXCEPT ![a] = @ - 1]
        /\ UNCHANGED <<action, incident, inTime, robbed, lease, ran>>
        /\ \A u \in Thread \ {t} : thread'[u] = thread[u]
    BY <1>1, <2>1 DEF TypeOK, load_incident, At, rows
  <2>3. NoneInGrace' /\ OneExecutes' /\ Unstarted' /\ AtMostOnce'
    BY <2>2 DEF Exclusion, NoneInGrace, OneExecutes, Unstarted, AtMostOnce,
                Executing
  <2>4. Undecided'
    <3> SUFFICES ASSUME NEW b \in Action, Reusable(b) PROVE Alone(b)'
      BY <2>2 DEF Exclusion, Undecided, Reusable
    <3>1. Alone(b)
      BY DEF Exclusion, Undecided
    <3>2. CASE b = a
      <4>1. messages'[a] = 0 /\ \A u \in Thread : ~On(u, a)
        BY <2>2, <3>1, <3>2 DEF TypeOK, Alone
      <4>2. \A u \in Thread : On(u, a)' => u = t
        BY <2>2, <4>1 DEF On
      <4> QED
        BY <3>2, <4>1, <4>2 DEF Alone
    <3>3. CASE b # a
      <4>1. messages'[b] = messages[b]
        BY <2>2, <3>3 DEF TypeOK
      <4>2. \A u \in Thread : On(u, b)' = On(u, b)
        BY <2>2, <3>3 DEF On
      <4> QED
        BY <3>1, <4>1, <4>2 DEF Alone
    <3> QED
      BY <3>2, <3>3
  <2>5. Held'
    BY <2>2 DEF TypeOK, Exclusion, Held
  <2> QED
    BY <2>3, <2>4, <2>5 DEF Exclusion
<1>2. ASSUME NEW pc \in Pc, NEW a, a = thread[t].on,
             thread[t].pc \in {"write", "diagnose", "done"},
             \/ pc \in {"diagnose", "done"} /\ Go(t, pc)
             \/ pc = "idle" /\ thread' = [thread EXCEPT ![t] = Idle],
             \/ UNCHANGED rows
             \/ pc = "diagnose" /\ WriteIncident(a, "DIAGNOSING")
             \/ ~Reusable(a) /\ \E i \in IncidentStatus : WriteIncident(a, i),
             UNCHANGED <<messages, inTime, robbed, lease, ran>>
      PROVE  Exclusion'
  <2>1. /\ thread'[t].pc = pc /\ pc \notin Executing
        /\ pc # "idle" => thread'[t].on = a
        /\ \A u \in Thread \ {t} : thread'[u] = thread[u]
    <3>1. CASE pc \in {"diagnose", "done"} /\ Go(t, pc)
      <4>1. thread[t] \in [pc : Pc, on : Action]
        BY <1>2 DEF TypeOK, ThreadState, Idle, At
      <4> QED
        BY <1>2, <3>1, <4>1 DEF TypeOK, Go, Executing
    <3>2. CASE pc = "idle" /\ thread' = [thread EXCEPT ![t] = Idle]
      BY <3>2 DEF TypeOK, Idle, At, Executing
    <3> QED
      BY <1>2, <3>1, <3>2
  <2>2. /\ action' = action
        /\ \A b \in Action :
             incident'[b] = "VERIFYING" => \/ incident[b] = "VERIFYING"
                                           \/ ~Reusable(b)
    BY <1>2 DEF TypeOK, WriteIncident, rows
  <2>3. NoneInGrace' /\ OneExecutes' /\ Unstarted' /\ AtMostOnce'
    BY <1>2, <2>1, <2>2
       DEF Exclusion, NoneInGrace, OneExecutes, Unstarted, AtMostOnce,
           Executing
  <2>4. Undecided'
    <3>1. \A u \in Thread, b \in Action : On(u, b)' => On(u, b)
      BY <1>2, <2>1 DEF On
    <3>2. \A b \in Action : Alone(b) => Alone(b)'
      BY <1>2, <3>1 DEF Alone
    <3> QED
      BY <1>2, <2>2, <3>2 DEF Exclusion, Undecided, Reusable
  <2>5. Held'
    BY <1>2, <2>1 DEF TypeOK, Exclusion, Held
  <2> QED
    BY <2>3, <2>4, <2>5 DEF Exclusion
<1>3. CASE write_diagnosing(t)
  BY <1>2, <1>3 DEF write_diagnosing, Pc, My
<1>4. CASE propose(t)
  <2> DEFINE a == thread[t].on
  <2>1. /\ thread[t].pc = "diagnose" /\ Reusable(a) /\ a \in Action
        /\ action' = [action EXCEPT ![a] = "PENDING"]
        /\ UNCHANGED <<incident, messages, inTime, robbed, lease, ran>>
        /\ IsHandler(t)
    BY <1>4, OnAction DEF propose, My, Exclusion, NoneInGrace
  <2>2. /\ thread'[t].pc = "gates" /\ thread'[t].on = a
        /\ \A u \in Thread \ {t} : thread'[u] = thread[u]
    BY <1>4 DEF propose, Go, TypeOK
  <2>3. Alone(a) /\ incident[a] # "VERIFYING" /\ ran[a] = 0
    BY <2>1 DEF Exclusion, Undecided
  <2>4. \A u \in Thread :
          thread[u].pc \in Executing /\ thread[u].on = a => u = t
    BY <2>1, <2>3 DEF Alone, On, Exclusion, NoneInGrace, Executing
  <2>5. NoneInGrace'
    BY <2>1, <2>2 DEF TypeOK, Exclusion, NoneInGrace
  <2>6. OneExecutes'
    BY <2>2, <2>4 DEF Exclusion, OneExecutes
  <2>7. Unstarted' /\ AtMostOnce'
    BY <2>1, <2>2, <2>3 DEF Exclusion, Unstarted, AtMostOnce
  <2>8. Undecided'
    <3>1. \A u \in Thread, b \in Action : On(u, b)' = On(u, b)
      BY <2>1, <2>2 DEF On
    <3>2. \A b \in Action : Alone(b) => Alone(b)'
      BY <2>1, <3>1 DEF Alone
    <3>3. \A b \in Action : Reusable(b)' => Reusable(b)
      BY <2>1 DEF TypeOK, Reusable
    <3> QED
      BY <2>1, <3>2, <3>3 DEF Exclusion, Undecided
  <2>9. Held'
    BY <2>1, <2>2 DEF TypeOK, Exclusion, Held
  <2> QED
    BY <2>5, <2>6, <2>7, <2>8, <2>9 DEF Exclusion
<1>5. CASE restore(t)
  <2>1. PICK i \in RestoredStatus(action[My(t)]) : WriteIncident(My(t), i)
    BY <1>5 DEF restore
  <2>2. i \in IncidentStatus
    BY <2>1 DEF RestoredStatus, IncidentStatus
  <2> QED
    BY <1>2, <1>5, <2>1, <2>2 DEF restore, Pc, My
<1>6. ~execute_again(t)
  BY DEF execute_again, NoRepeats
<1>7. CASE ack(t)
  BY <1>2, <1>7 DEF ack, Pc
<1> QED
  BY <1>1, <1>3, <1>4, <1>5, <1>6, <1>7 DEF DiagnosisStep
LEMMA ExclusionTick ==
  ASSUME NoRepeats, TypeOK, Exclusion, NEW t \in Thread, TickStep(t)
  PROVE  Exclusion'
<1>0. /\ ~grace_resume(t)
      /\ \A a \in Action : ~grace_read(t, a)
  BY DEF grace_resume, grace_read, Due, Exclusion, NoneInGrace
<1>1. ASSUME \A b \in Action : On(t, b)' => On(t, b),
             thread'[t].pc \in {"idle", "reconcile", "expired", "missing"},
             thread[t].pc \in {"idle", "reconcile"},
             \A u \in Thread \ {t} : thread'[u] = thread[u],
             UNCHANGED <<action, incident, messages, inTime, robbed, lease,
                         ran>>
      PROVE  Exclusion'
  <2>1. NoneInGrace' /\ OneExecutes' /\ Unstarted' /\ AtMostOnce'
    BY <1>1 DEF Exclusion, NoneInGrace, OneExecutes, Unstarted, AtMostOnce,
                Executing
  <2>2. Undecided'
    <3>1. \A u \in Thread, b \in Action : On(u, b)' => On(u, b)
      BY <1>1 DEF On
    <3>2. \A b \in Action : Alone(b) => Alone(b)'
      BY <1>1, <3>1 DEF Alone
    <3> QED
      BY <1>1, <3>2 DEF Exclusion, Undecided, Reusable
  <2>3. Held'
    BY <1>1 DEF TypeOK, Exclusion, Held
  <2> QED
    BY <2>1, <2>2, <2>3 DEF Exclusion
<1>2. ASSUME NEW a \in Action, reconcile_read(t, a) PROVE Exclusion'
  <2>1. /\ thread'[t].pc = "reconcile" /\ thread[t].pc = "idle"
        /\ \A u \in Thread \ {t} : thread'[u] = thread[u]
        /\ ~IsHandler(t)
    BY <1>2 DEF TypeOK, reconcile_read, At
  <2> QED
    BY <1>1, <1>2, <2>1 DEF reconcile_read, rows, On
<1>3. CASE reconcile_lease(t)
  <2>1. /\ thread[t].pc = "reconcile"
        /\ thread[t] \in [pc : Pc, on : Action]
    BY <1>3 DEF TypeOK, reconcile_lease, ThreadState, Idle, At
  <2>2. /\ thread'[t].pc \in {"idle", "expired", "missing"}
        /\ thread'[t].pc # "idle" => thread'[t].on = thread[t].on
        /\ \A u \in Thread \ {t} : thread'[u] = thread[u]
    BY <1>3, <2>1 DEF TypeOK, reconcile_lease, Go, Idle, At
  <2> QED
    BY <1>1, <1>3, <2>1, <2>2 DEF reconcile_lease, rows, On
<1>4. CASE reconcile_write(t)
  <2> DEFINE a == thread[t].on
  <2>1. /\ thread'[t].pc = "idle"
        /\ thread[t].pc \in {"expired", "missing"} /\ a \in Action
        /\ \A u \in Thread \ {t} : thread'[u] = thread[u]
        /\ Write(a, "INCONCLUSIVE", "FAILED")
        /\ UNCHANGED <<messages, inTime, ran>>
    <3>1. thread[t].pc \in {"expired", "missing"} /\ a \in Action
      BY <1>4, OnAction DEF reconcile_write, My
    <3> QED
      BY <1>4, <3>1 DEF TypeOK, reconcile_write, Idle, At, My
  <2>2. NoneInGrace' /\ OneExecutes' /\ Unstarted' /\ AtMostOnce'
    BY <2>1
       DEF TypeOK, Exclusion, NoneInGrace, OneExecutes, Unstarted, AtMostOnce,
           Executing, Write
  <2>3. Undecided'
    <3>1. \A u \in Thread, b \in Action : On(u, b)' => On(u, b)
      BY <2>1 DEF On
    <3>2. \A b \in Action : Alone(b) => Alone(b)'
      BY <2>1, <3>1 DEF Alone
    <3> QED
      BY <2>1, <3>2 DEF TypeOK, Exclusion, Undecided, Reusable, Write
(* Whoever held the lease that is deleted counts as robbed of it.          *)
  <2>4. Held'
    <3> SUFFICES ASSUME NEW u \in inTime \ robbed' PROVE
                   /\ thread'[u].pc \in {"mark", "run", "release"}
                   /\ lease' = [holder |-> thread'[u].on, live |-> TRUE]
      BY <2>1 DEF Held
    <3>1. u \notin robbed
      BY <1>4 DEF reconcile_write
    <3>2. /\ thread[u].pc \in {"mark", "run", "release"}
          /\ lease = [holder |-> My(u), live |-> TRUE]
      BY <3>1 DEF Exclusion, Held, My
    <3>3. lease' = lease
      BY <1>4, <3>2 DEF reconcile_write
    <3> QED
      BY <2>1, <3>2, <3>3 DEF TypeOK, My
  <2> QED
    BY <2>2, <2>3, <2>4 DEF Exclusion
<1> QED
  BY <1>0, <1>2, <1>3, <1>4 DEF TickStep

LEMMA ExclusionOther ==
  ASSUME TypeOK, Exclusion, NEW a \in Action, OtherStep(a)
  PROVE  Exclusion'
<1>1. UNCHANGED <<thread, inTime, robbed, lease, ran>>
  BY DEF OtherStep, open_cancel, cancel_grace, resolve_recovered,
         verify_closed, verify_retry, HourPasses
<1>2. \A b \in Action :
        \/ action'[b] = action[b]
           /\ (incident'[b] = "VERIFYING" => incident[b] = "VERIFYING")
        \/ action'[b] = "REJECTED"
  BY DEF TypeOK, OtherStep, open_cancel, cancel_grace, resolve_recovered,
         verify_closed, verify_retry, HourPasses, Write, WriteIncident, rows
<1>3. \A b \in Action : Reusable(b) => messages'[b] = messages[b]
  BY DEF OtherStep, open_cancel, cancel_grace, resolve_recovered,
         verify_closed, verify_retry, HourPasses, Exclusion, Undecided, TypeOK
<1>4. NoneInGrace' /\ OneExecutes' /\ Unstarted' /\ AtMostOnce' /\ Held'
  BY <1>1, <1>2 DEF Exclusion, NoneInGrace, OneExecutes, Unstarted,
                    AtMostOnce, Held
<1>5. Undecided'
  <2> SUFFICES ASSUME NEW b \in Action, Reusable(b)'
               PROVE  /\ Alone(b)' /\ incident'[b] # "VERIFYING"
                      /\ ran'[b] = 0
    BY DEF Undecided
  <2>1. Reusable(b)
    BY <1>2 DEF Reusable
  <2> QED
    BY <1>1, <1>2, <1>3, <2>1 DEF Reusable, Exclusion, Undecided, Alone, On
<1> QED
  BY <1>4, <1>5 DEF Exclusion

LEMMA ExclusionFault ==
  ASSUME NoRepeats, TypeOK, Exclusion,
         \/ \E t \in Thread : Redeliver(t) \/ RobbedExpires(t)
         \/ \E w \in Worker : WorkerRestart(w)
         \/ ExpireLease
  PROVE  Exclusion'
<1>1. \A t \in Thread : ~Redeliver(t)
  BY DEF NoRepeats, TypeOK, Redeliver
<1>2. ASSUME NEW w \in Worker, WorkerRestart(w) PROVE Exclusion'
  <2> DEFINE h == <<w, "handler">>
             p == <<w, "poller">>
  <2>0. h \in Thread /\ p \in Thread /\ IsHandler(h) /\ ~IsHandler(p)
    BY DEF Thread, IsHandler
  <2>1. /\ thread'[h].pc = "idle" /\ thread'[p].pc = "idle"
        /\ \A u \in Thread \ {h, p} : thread'[u] = thread[u]
        /\ inTime' = inTime \ {h, p} /\ robbed' = robbed \ {h, p}
        /\ UNCHANGED <<action, incident, lease, ran>>
    BY <1>2, <2>0 DEF TypeOK, WorkerRestart, Idle, At, rows
  <2>2. NoneInGrace' /\ OneExecutes' /\ Unstarted' /\ AtMostOnce' /\ Held'
    <3>1. NoneInGrace'
      BY <2>1 DEF Exclusion, NoneInGrace
    <3>2. \A u \in Thread : thread'[u].pc # "idle" => thread'[u] = thread[u]
      BY <2>1
    <3>3. OneExecutes' /\ Unstarted' /\ AtMostOnce'
      BY <2>1, <3>2
         DEF Exclusion, OneExecutes, Unstarted, AtMostOnce, Executing
    <3>4. \A u \in inTime' \ robbed' :
            u \in inTime \ robbed /\ thread'[u] = thread[u]
      BY <2>1 DEF TypeOK
    <3>5. Held'
      BY <2>1, <3>4 DEF Exclusion, Held
    <3> QED
      BY <3>1, <3>3, <3>5
  <2>3. Undecided'
    <3> SUFFICES ASSUME NEW b \in Action, Reusable(b) PROVE Alone(b)'
      BY <2>1 DEF Exclusion, Undecided, Reusable
    <3>1. Alone(b)
      BY DEF Exclusion, Undecided
    <3>2. \A u \in Thread : On(u, b)' => On(u, b) /\ u # h
      BY <2>0, <2>1 DEF On
    <3>3. CASE On(h, b)
      <4>1. messages'[b] = 1 /\ \A u \in Thread : ~On(u, b)'
        BY <1>2, <2>0, <3>1, <3>2, <3>3
           DEF TypeOK, WorkerRestart, Alone, On, My
      <4> QED
        BY <4>1 DEF Alone
    <3>4. CASE ~On(h, b)
      <4>1. messages'[b] = messages[b]
        BY <1>2, <2>0, <3>4 DEF TypeOK, WorkerRestart, On, My
      <4> QED
        BY <3>1, <3>2, <4>1 DEF Alone
    <3> QED
      BY <3>3, <3>4
  <2> QED
    BY <2>2, <2>3 DEF Exclusion
<1>3. CASE ExpireLease
  <2>1. /\ inTime' \subseteq robbed'
        /\ UNCHANGED <<action, incident, messages, thread, ran>>
    BY <1>3 DEF ExpireLease, Exclusion, Held, My, rows
  <2> QED
    BY <2>1 DEF Exclusion, NoneInGrace, Undecided, OneExecutes, Unstarted,
                AtMostOnce, Held, Reusable, Alone, On
<1>4. ASSUME NEW t \in Thread, RobbedExpires(t) PROVE Exclusion'
  <2>1. /\ inTime' \ robbed' \subseteq inTime \ robbed
        /\ UNCHANGED <<action, incident, messages, lease, thread, ran>>
    BY <1>4 DEF RobbedExpires, rows
  <2> QED
    BY <2>1 DEF Exclusion, NoneInGrace, Undecided, OneExecutes, Unstarted,
                AtMostOnce, Held, Reusable, Alone, On
<1> QED
  BY <1>1, <1>2, <1>3, <1>4

LEMMA ExclusionInvariant ==
  ASSUME NoRepeats
  PROVE  Spec => [](TypeOK /\ Exclusion)
<1>1. Init => Exclusion
  <2> SUFFICES ASSUME Init PROVE Exclusion
    OBVIOUS
  <2>1. /\ \A t \in Thread : thread[t].pc = "idle"
        /\ inTime = {}
        /\ \A a \in Action : /\ action[a] = "ABSENT" /\ incident[a] = "NEW"
                             /\ messages[a] = 1 /\ ran[a] = 0
    BY DEF Init, Idle, At
  <2> QED
    BY <2>1 DEF Exclusion, NoneInGrace, Undecided, OneExecutes, Unstarted,
                AtMostOnce, Held, Alone, On, Executing
<1>2. TypeOK /\ Exclusion /\ [Next]_vars => Exclusion'
  <2>1. ASSUME Exclusion, UNCHANGED vars PROVE Exclusion'
    BY <2>1 DEF Exclusion, NoneInGrace, Undecided, OneExecutes, Unstarted,
                AtMostOnce, Held, Reusable, Alone, On, vars, rows
  <2> QED
    BY NoRepeats, <2>1, ExclusionExecute, ExclusionDiagnosis, ExclusionTick,
       ExclusionOther, ExclusionFault DEF Next
<1> QED
  BY <1>1, <1>2, AutonomyTypeCorrect, PTL DEF Spec

(* The cluster's lease is a mutex as long as it lasts: releasing one never *)
(* frees another Action's (release_lease), acquiring one waits for the end *)
(* of the last (acquire_lease), and of two commands that run in time one   *)
(* had its row deleted by a recovery that had found it expired under an    *)
(* earlier holder (reconcile_expired_executions).                          *)
THEOREM LeaseExcludes ==
  ASSUME NoRepeats
  PROVE  Spec => []OneInTime
<1>1. TypeOK /\ Exclusion => OneInTime
  BY DEF TypeOK, Exclusion, OneExecutes, Held, OneInTime, Runs, Executing
<1> QED
  BY <1>1, ExclusionInvariant, NoRepeats, PTL

(* However often Workers stop, whatever the Watcher closes or sends to be  *)
(* diagnosed again, and however many Workers there are, the command of an  *)
(* Action starts at most once.                                             *)
THEOREM RunsAtMostOnce ==
  ASSUME NoRepeats
  PROVE  Spec => []RunsOnce
<1>1. Exclusion => RunsOnce
  BY DEF Exclusion, AtMostOnce, RunsOnce
<1> QED
  BY <1>1, ExclusionInvariant, NoRepeats, PTL

-----------------------------------------------------------------------------
(* The hourly limit, whatever the settings.                                *)

(* Without a grace period no poller executes anything.                     *)
GraceUnused == ~Grace => NoneInGrace

LEMMA GraceUnusedStays ==
  ASSUME TypeOK, GraceUnused, [Next]_vars
  PROVE  GraceUnused'
<1> SUFFICES ASSUME ~Grace PROVE NoneInGrace'
  BY DEF GraceUnused
<1> USE DEF GraceUnused, NoneInGrace
<1>1. ASSUME NEW t \in Thread, ExecuteStep(t) PROVE NoneInGrace'
  <2>0. thread[t].pc \in Executing /\ IsHandler(t)
    BY <1>1 DEF ExecuteStep, gates_block, start_grace, refuse, check_limits,
                acquire_lease, lease_refused, route_to_approval,
                mark_executing, record_result, release_lease, raises,
                Executing
  <2>1. \/ UNCHANGED action
        \/ \E s \in ActionStatus \ {"GRACE_PENDING"} :
             action' = [action EXCEPT ![My(t)] = s]
    BY <1>1 DEF ExecuteStep, gates_block, start_grace, refuse, check_limits,
                acquire_lease, lease_refused, route_to_approval,
                mark_executing, record_result, release_lease, raises,
                GraceOver, rows, Write, ActionStatus
  <2>2. \/ \E pc \in Executing : Go(t, pc)
        \/ Return(t)
    BY <1>1 DEF ExecuteStep, gates_block, start_grace, refuse, check_limits,
                acquire_lease, lease_refused, route_to_approval,
                mark_executing, record_result, release_lease, raises,
                Executing
  <2>3. \A u \in Thread \ {t} : thread'[u] = thread[u]
    BY <2>2 DEF Go, Return, TypeOK
  <2>4. thread'[t].pc # "resume"
    <3>1. thread[t] \in [pc : Pc, on : Action]
      BY <2>0 DEF TypeOK, ThreadState, Idle, At, Executing
    <3> QED
      BY <2>0, <2>2, <3>1 DEF Go, Return, TypeOK, Executing, At
  <2> QED
    BY <2>0, <2>1, <2>3, <2>4 DEF TypeOK
<1>2. ASSUME NEW t \in Thread, DiagnosisStep(t) PROVE NoneInGrace'
  <2>1. IsHandler(t)
    BY <1>2 DEF DiagnosisStep, load_incident, write_diagnosing, propose,
                restore, execute_again, ack
  <2>2. UNCHANGED action \/ action' = [action EXCEPT ![My(t)] = "PENDING"]
    BY <1>2 DEF DiagnosisStep, load_incident, write_diagnosing, propose,
                restore, execute_again, ack, WriteIncident, rows
  <2>3. \E s : thread' = [thread EXCEPT ![t] = s]
    BY <1>2 DEF DiagnosisStep, load_incident, write_diagnosing, propose,
                restore, execute_again, ack, Go
  <2>4. thread'[t].pc # "resume"
    <3>1. CASE thread[t].pc = "idle"
      BY <1>2, <3>1
         DEF DiagnosisStep, load_incident, write_diagnosing, propose,
             restore, execute_again, ack, TypeOK, At
    <3>2. CASE thread[t].pc # "idle"
      <4>1. thread[t] \in [pc : Pc, on : Action]
        BY <3>2 DEF TypeOK, ThreadState, Idle, At
      <4>2. \/ \E pc \in {"diagnose", "gates", "done"} : Go(t, pc)
            \/ thread' = [thread EXCEPT ![t] = Idle]
        BY <1>2, <3>2
           DEF DiagnosisStep, load_incident, write_diagnosing, propose,
               restore, execute_again, ack
      <4> QED
        BY <4>1, <4>2 DEF Go, TypeOK, Idle, At
    <3> QED
      BY <3>1, <3>2
  <2> QED
    BY <2>1, <2>2, <2>3, <2>4 DEF TypeOK
<1>3. ASSUME NEW t \in Thread, TickStep(t) PROVE NoneInGrace'
  <2>1. /\ ~grace_resume(t)
        /\ \A a \in Action : ~grace_read(t, a)
    BY DEF grace_resume, grace_read, Due
  <2>2. UNCHANGED action \/ action' = [action EXCEPT ![My(t)] = "INCONCLUSIVE"]
    BY <1>3, <2>1
       DEF TickStep, reconcile_read, reconcile_lease, reconcile_write, Write,
           rows
  <2>3. /\ \E s : thread' = [thread EXCEPT ![t] = s]
        /\ thread'[t].pc \in {"idle", "reconcile", "expired", "missing"}
    <3>1. CASE reconcile_lease(t)
      <4>1. thread[t] \in [pc : Pc, on : Action]
        BY <3>1 DEF reconcile_lease, TypeOK, ThreadState, Idle, At
      <4> QED
        BY <3>1, <4>1 DEF reconcile_lease, Go, TypeOK, Idle, At
    <3>2. CASE ~reconcile_lease(t)
      BY <1>3, <2>1, <3>2
         DEF TickStep, reconcile_read, reconcile_write, TypeOK, Idle, At
    <3> QED
      BY <3>1, <3>2
  <2>4. \A b \in Action : action'[b] # "GRACE_PENDING"
    BY <2>2 DEF TypeOK
  <2>5. \A u \in Thread \ {t} : thread'[u] = thread[u]
    BY <2>3 DEF TypeOK
  <2> QED
    BY <2>3, <2>4, <2>5
<1>4. ASSUME NEW a \in Action, OtherStep(a) PROVE NoneInGrace'
  <2>1. UNCHANGED thread
    BY <1>4 DEF OtherStep, open_cancel, cancel_grace, resolve_recovered,
                verify_closed, verify_retry, HourPasses
  <2>2. UNCHANGED action \/ action' = [action EXCEPT ![a] = "REJECTED"]
    BY <1>4 DEF TypeOK, OtherStep, open_cancel, cancel_grace,
                resolve_recovered, verify_closed, verify_retry, HourPasses,
                Write, WriteIncident, rows
  <2> QED
    BY <2>1, <2>2 DEF TypeOK
<1>5. ASSUME NEW w \in Worker, WorkerRestart(w) PROVE NoneInGrace'
  BY <1>5 DEF WorkerRestart, rows, TypeOK, Idle, At
<1>6. CASE UNCHANGED <<action, thread>>
  BY <1>6
<1> QED
  BY <1>1, <1>2, <1>3, <1>4, <1>5, <1>6
     DEF Next, Redeliver, RobbedExpires, ExpireLease, vars, rows

(* Threads that passed the limit and have not recorded a result yet, and   *)
(* what they may still add to the count.                                   *)
Past == {t \in Thread : thread[t].pc \in {"acquire", "mark", "run"}}
Passed == {a \in Action \ Unlimited : \E t \in Past : My(t) = a}

WithinOvershoot ==
    Cardinality(Counting \cup Passed) <= MaxHour - 1 + Cardinality(Executors)

LEMMA ThreadsFinite ==
  IsFiniteSet(Thread) /\ IsFiniteSet(Executors)
  /\ Cardinality(Executors) \in Nat
<1>1. IsFiniteSet({"handler", "poller"})
  <2>1. IsFiniteSet({} \cup {"handler"})
    BY FS_EmptySet, FS_AddElement
  <2>2. IsFiniteSet(({} \cup {"handler"}) \cup {"poller"})
    BY <2>1, FS_AddElement
  <2>3. {"handler", "poller"} = ({} \cup {"handler"}) \cup {"poller"}
    OBVIOUS
  <2> QED
    BY <2>2, <2>3
<1>2. IsFiniteSet(Thread)
  BY <1>1, FS_Product, AutonomyAssumption DEF AutonomyAssumption, Thread
<1> QED
  BY <1>2, FS_Subset, FS_CardinalityType DEF Executors

(* A limited Action enters the count when the thread it is in records it,  *)
(* and goes past the limit at check_limits only.                           *)
LEMMA CountedFromPassed ==
  ASSUME TypeOK, [Next]_vars
  PROVE  \A a \in Action :
           a \in Spent'
             => \/ a \in Spent
                \/ \E t \in Thread : thread[t].pc = "run" /\ My(t) = a
<1> SUFFICES ASSUME NEW a \in Action, a \in Spent', a \notin Spent
             PROVE  \E t \in Thread : thread[t].pc = "run" /\ My(t) = a
  OBVIOUS
<1> USE DEF Spent
<1>0. a \in recent' /\ action'[a] = "AUTO_EXECUTED"
  OBVIOUS
<1>1. ASSUME UNCHANGED recent \/ recent' \subseteq recent,
             action'[a] = action[a] \/ action'[a] # "AUTO_EXECUTED"
      PROVE  FALSE
  BY <1>0, <1>1
<1>2. ASSUME NEW t \in Thread, ExecuteStep(t)
      PROVE  thread[t].pc = "run" /\ My(t) = a
  <2>1. CASE record_result(t)
    <3>1. My(t) \in Action
      BY <2>1, OnAction DEF record_result
    <3>2. My(t) = a
      BY <1>0, <2>1, <3>1 DEF record_result, Write, TypeOK
    <3> QED
      BY <2>1, <3>2 DEF record_result
  <2>2. CASE ~record_result(t)
    <3>1. UNCHANGED recent
      BY <1>2, <2>2
         DEF ExecuteStep, gates_block, start_grace, refuse, check_limits,
             acquire_lease, lease_refused, route_to_approval, mark_executing,
             release_lease, raises
    <3>2. \/ UNCHANGED action
          \/ \E s \in ActionStatus \ {"AUTO_EXECUTED"} :
               action' = [action EXCEPT ![My(t)] = s]
      BY <1>2, <2>2
         DEF ExecuteStep, gates_block, start_grace, refuse, check_limits,
             acquire_lease, lease_refused, route_to_approval, mark_executing,
             release_lease, raises, rows, Write, ActionStatus
    <3> QED
      BY <1>1, <3>1, <3>2 DEF TypeOK
  <2> QED
    BY <2>1, <2>2
<1>3. ASSUME NEW t \in Thread,
             DiagnosisStep(t) \/ TickStep(t) \/ Redeliver(t)
      PROVE  FALSE
  <2>1. UNCHANGED recent
    BY <1>3 DEF DiagnosisStep, load_incident, write_diagnosing, propose,
                restore, execute_again, ack, TickStep, reconcile_read,
                grace_read, reconcile_lease, reconcile_write,
                grace_resume, Redeliver
  <2>2. \/ UNCHANGED action
        \/ \E s \in ActionStatus \ {"AUTO_EXECUTED"} :
             action' = [action EXCEPT ![My(t)] = s]
    BY <1>3 DEF DiagnosisStep, load_incident, write_diagnosing, propose,
                restore, execute_again, ack, TickStep, reconcile_read,
                grace_read, reconcile_lease, reconcile_write,
                grace_resume, Redeliver, rows, Write, WriteIncident,
                ActionStatus
  <2> QED
    BY <1>1, <2>1, <2>2 DEF TypeOK
<1>4. ASSUME NEW b \in Action, OtherStep(b) PROVE FALSE
  <2>1. recent' \subseteq recent
    BY <1>4 DEF OtherStep, open_cancel, cancel_grace, resolve_recovered,
                verify_closed, verify_retry, HourPasses
  <2>2. \/ UNCHANGED action
        \/ action' = [action EXCEPT ![b] = "REJECTED"]
    BY <1>4 DEF TypeOK, OtherStep, open_cancel, cancel_grace,
                resolve_recovered, verify_closed, verify_retry, HourPasses,
                Write, WriteIncident, rows
  <2> QED
    BY <1>1, <2>1, <2>2 DEF TypeOK
<1>5. ASSUME UNCHANGED <<action, recent>> PROVE FALSE
  BY <1>1, <1>5
<1> QED
  BY <1>2, <1>3, <1>4, <1>5
     DEF Next, WorkerRestart, RobbedExpires, ExpireLease, vars, rows

LEMMA PastFromCheck ==
  ASSUME TypeOK, [Next]_vars
  PROVE  \A t \in Thread :
           t \in Past' => \/ t \in Past /\ My(t)' = My(t)
                          \/ check_limits(t)
<1> SUFFICES ASSUME NEW t \in Thread, t \in Past', ~check_limits(t)
             PROVE  t \in Past /\ My(t)' = My(t)
  OBVIOUS
<1> USE DEF Past
<1>0. thread'[t].pc \in {"acquire", "mark", "run"}
  OBVIOUS
<1>1. ASSUME thread'[t] = thread[t] PROVE t \in Past /\ My(t)' = My(t)
  BY <1>0, <1>1 DEF My
<1>2. CASE ExecuteStep(t)
  <2>1. CASE acquire_lease(t) \/ mark_executing(t)
    <3>1. /\ thread[t].pc \in {"acquire", "mark"}
          /\ \E pc \in {"mark", "run"} : Go(t, pc)
      BY <2>1 DEF acquire_lease, mark_executing
    <3>2. thread[t] \in [pc : Pc, on : Action]
      BY <3>1 DEF TypeOK, ThreadState, Idle, At
    <3>3. thread'[t].on = thread[t].on
      BY <3>1, <3>2 DEF Go, TypeOK
    <3> QED
      BY <3>1, <3>3 DEF My
  <2>2. CASE ~acquire_lease(t) /\ ~mark_executing(t)
    <3>1. \/ \E pc \in {"blocked", "release"} : Go(t, pc)
          \/ Return(t)
      BY <1>2, <2>2
         DEF ExecuteStep, gates_block, start_grace, refuse, lease_refused,
             route_to_approval, record_result, release_lease, raises
    <3>2. thread[t].pc # "idle"
      BY <1>2 DEF ExecuteStep, gates_block, start_grace, refuse,
                  check_limits, acquire_lease, lease_refused,
                  route_to_approval, mark_executing, record_result,
                  release_lease, raises, Executing
    <3>3. thread[t] \in [pc : Pc, on : Action]
      BY <3>2 DEF TypeOK, ThreadState, Idle, At
    <3> QED
      BY <1>0, <3>1, <3>3 DEF Go, Return, TypeOK, Idle, At
  <2> QED
    BY <2>1, <2>2
<1>3. CASE DiagnosisStep(t) \/ TickStep(t)
  <2> DEFINE Onward == {"diagnose", "gates", "done", "expired", "missing"}
  <2>1. \/ \E a \in Action, pc \in Pc \ Executing :
             thread' = [thread EXCEPT ![t] = At(pc, a)]
        \/ thread' = [thread EXCEPT ![t] = Idle]
        \/ thread[t].pc # "idle"
           /\ (Return(t) \/ \E pc \in Onward : Go(t, pc))
    BY <1>3 DEF DiagnosisStep, load_incident, write_diagnosing, propose,
                restore, execute_again, ack, TickStep, reconcile_read,
                grace_read, reconcile_lease, reconcile_write,
                grace_resume, Pc, Executing
  <2>2. CASE thread[t].pc # "idle"
             /\ (Return(t) \/ \E pc \in Onward : Go(t, pc))
    <3>1. thread[t] \in [pc : Pc, on : Action]
      BY <2>2 DEF TypeOK, ThreadState, Idle, At
    <3> QED
      BY <1>0, <2>2, <3>1 DEF Go, Return, TypeOK, Idle, At
  <2> QED
    BY <1>0, <2>1, <2>2 DEF TypeOK, Idle, At, Executing
<1>4. ASSUME NEW u \in Thread, u # t,
             ExecuteStep(u) \/ DiagnosisStep(u) \/ TickStep(u)
      PROVE  thread'[t] = thread[t]
  <2>1. \/ \E s : thread' = [thread EXCEPT ![u] = s]
        \/ \E pc : Go(u, pc)
        \/ Return(u)
    BY <1>4 DEF ExecuteStep, gates_block, start_grace, refuse, check_limits,
                acquire_lease, lease_refused, route_to_approval,
                mark_executing, record_result, release_lease, raises,
                DiagnosisStep, load_incident, write_diagnosing, propose,
                restore, execute_again, ack, TickStep, reconcile_read,
                grace_read, reconcile_lease, reconcile_write,
                grace_resume
  <2> QED
    BY <1>4, <2>1 DEF Go, Return, TypeOK
<1>5. ASSUME NEW w \in Worker, WorkerRestart(w)
      PROVE  thread'[t] = thread[t]
  BY <1>0, <1>5 DEF WorkerRestart, TypeOK, Idle, At
<1>6. CASE UNCHANGED thread
  BY <1>1, <1>6
<1> QED
  BY <1>1, <1>2, <1>3, <1>4, <1>5, <1>6
     DEF Next, Redeliver, OtherStep, open_cancel, cancel_grace,
         resolve_recovered, verify_closed, verify_retry, HourPasses,
         RobbedExpires, ExpireLease, vars

(* Passing the limit finds fewer than MaxHour counted, and what is past it *)
(* is as much as there are threads; nothing else adds to the two.          *)
LEMMA OvershootStep ==
  ASSUME TypeOK, GraceUnused, WithinOvershoot, [Next]_vars
  PROVE  WithinOvershoot'
<1> USE DEF WithinOvershoot
<1>0. /\ IsFiniteSet(Action)
      /\ MaxHour \in Nat \ {0}
      /\ Cardinality(Executors) \in Nat
  BY AutonomyAssumption, ThreadsFinite DEF AutonomyAssumption
<1>1. /\ Counting \subseteq Action /\ Passed \subseteq Action
      /\ Spent \subseteq Action
  BY DEF Counting, Spent, Passed, TypeOK
<1>2. /\ IsFiniteSet(Counting) /\ IsFiniteSet(Passed)
      /\ IsFiniteSet(Counting \cup Passed) /\ IsFiniteSet(Spent)
  BY <1>0, <1>1, FS_Subset
<1>t. TypeOK'
  BY TypeStep
<1>3. Counting' \subseteq Counting \cup Passed
  <2>1. SUFFICES ASSUME NEW a \in Counting'
                 PROVE  a \in Counting \cup Passed
    OBVIOUS
  <2>2. a \in Action /\ a \notin Unlimited /\ a \in Spent'
    BY <1>t DEF Counting, Spent, TypeOK
  <2> QED
    BY <2>2, CountedFromPassed DEF Counting, Passed, Past
<1>4. CASE \E t \in Thread : check_limits(t) /\ My(t) \notin Unlimited
  <2>1. PICK t \in Thread : check_limits(t) /\ My(t) \notin Unlimited
    BY <1>4
  <2>2. Cardinality(Spent) <= MaxHour - 1
    BY <1>0, <1>2, <2>1, FS_CardinalityType DEF check_limits, LimitReached
  <2>3. Counting' = Counting
    BY <2>1 DEF check_limits, Counting, Spent, rows
  <2>4. Cardinality(Counting) <= MaxHour - 1
    <3>1. Cardinality(Counting) <= Cardinality(Spent)
      BY <1>2, FS_Subset DEF Counting
    <3> QED
      BY <1>0, <1>2, <2>2, <3>1, FS_CardinalityType
  <2>5. IsFiniteSet(Passed') /\ Cardinality(Passed') <= Cardinality(Executors)
    <3> DEFINE S == {u \in Past' : thread'[u].on \in Action \ Unlimited}
               f == [u \in S |-> thread'[u].on]
    <3>1. S \subseteq Executors
      BY GraceUnusedStays DEF Past, Executors, GraceUnused, NoneInGrace
    <3>2. IsFiniteSet(S) /\ Cardinality(S) <= Cardinality(Executors)
      BY <3>1, ThreadsFinite, FS_Subset
    <3>3. f \in Surjection(S, Passed')
      <4>1. Passed' = {a \in Action \ Unlimited :
                         \E u \in Past' : thread'[u].on = a}
        BY DEF Passed, My
      <4>2. f \in [S -> Passed']
        BY <4>1
      <4>3. \A a \in Passed' : \E u \in S : f[u] = a
        BY <4>1
      <4> QED
        BY <4>2, <4>3 DEF Surjection
    <3>4. IsFiniteSet(Passed') /\ Cardinality(Passed') <= Cardinality(S)
      BY <3>2, <3>3, FS_Surjection
    <3> QED
      BY <1>0, <3>2, <3>4, FS_CardinalityType
  <2>6. Cardinality(Counting' \cup Passed')
          <= Cardinality(Counting') + Cardinality(Passed')
    <3>1. IsFiniteSet(Counting')
      BY <1>2, <2>3
    <3>2. IsFiniteSet(Counting' \cap Passed')
      BY <3>1, FS_Subset
    <3>3. /\ Cardinality(Counting') \in Nat
          /\ Cardinality(Passed') \in Nat
          /\ Cardinality(Counting' \cap Passed') \in Nat
      BY <2>5, <3>1, <3>2, FS_CardinalityType
    <3>4. Cardinality(Counting' \cup Passed')
            = Cardinality(Counting') + Cardinality(Passed')
                - Cardinality(Counting' \cap Passed')
      BY <2>5, <3>1, FS_Union
    <3> QED
      BY <3>3, <3>4
  <2>7. /\ Cardinality(Counting') \in Nat /\ Cardinality(Passed') \in Nat
        /\ Cardinality(Counting' \cup Passed') \in Nat
        /\ Cardinality(Counting') <= MaxHour - 1
    <3>1. IsFiniteSet(Counting') /\ IsFiniteSet(Counting' \cup Passed')
      BY <1>2, <2>3, <2>5, FS_Union
    <3> QED
      BY <2>3, <2>4, <2>5, <3>1, FS_CardinalityType
  <2>8. (Cardinality(Counting \cup Passed))' <= MaxHour - 1 + Cardinality(Executors)
    BY <1>0, <2>5, <2>6, <2>7
  <2> QED
    BY <2>8 DEF Executors
<1>5. CASE ~\E t \in Thread : check_limits(t) /\ My(t) \notin Unlimited
  <2>1. Passed' \subseteq Counting \cup Passed
    <3>1. SUFFICES ASSUME NEW a \in Passed' PROVE a \in Passed
      OBVIOUS
    <3>2. PICK t \in Thread : t \in Past' /\ My(t)' = a
      BY DEF Passed, Past
    <3>3. a \in Action \ Unlimited
      BY DEF Passed
    <3>4. CASE t \in Past /\ My(t)' = My(t)
      BY <3>2, <3>3, <3>4 DEF Passed
    <3>5. CASE check_limits(t)
      <4>1. thread[t] \in [pc : Pc, on : Action]
        BY <3>5 DEF check_limits, TypeOK, ThreadState, Idle, At
      <4>2. My(t)' = My(t)
        BY <3>5, <4>1 DEF check_limits, Go, My, TypeOK
      <4> QED
        BY <1>5, <3>2, <3>3, <3>5, <4>2
    <3> QED
      BY <3>2, <3>4, <3>5, PastFromCheck
  <2>2. Cardinality(Counting' \cup Passed') <= Cardinality(Counting \cup Passed)
        /\ IsFiniteSet(Counting' \cup Passed')
    BY <1>2, <1>3, <2>1, FS_Subset
  <2> QED
    BY <1>0, <1>2, <2>2, FS_CardinalityType DEF Executors
<1> QED
  BY <1>4, <1>5

(* However many Workers count at the same time, whatever restarts, retries *)
(* and grace periods come between the count and the record, the hourly     *)
(* limit is passed by no more than one Action for each further thread that *)
(* executes; with one Worker and no grace period it is kept (check_limits, *)
(* acquire_lease, _record_execution_result).                               *)
THEOREM LimitNearlyKept == Spec => []LimitOvershoot
<1>1. Init => GraceUnused /\ WithinOvershoot
  <2> SUFFICES ASSUME Init PROVE GraceUnused /\ WithinOvershoot
    OBVIOUS
  <2>1. GraceUnused
    BY DEF Init, GraceUnused, NoneInGrace, Idle, At
  <2>2. Counting \cup Passed = {}
    BY DEF Init, Counting, Spent, Passed, Past, Idle, At
  <2>3. Cardinality(Counting \cup Passed) = 0
    BY <2>2, FS_EmptySet
  <2>4. Cardinality(Executors) \in Nat /\ MaxHour \in Nat \ {0}
    BY ThreadsFinite, AutonomyAssumption DEF AutonomyAssumption
  <2>5. 0 <= MaxHour - 1 + Cardinality(Executors)
    BY <2>4
  <2> QED
    BY <2>1, <2>3, <2>5 DEF WithinOvershoot
<1>2. TypeOK /\ GraceUnused /\ WithinOvershoot /\ [Next]_vars
        => GraceUnused' /\ WithinOvershoot'
  BY GraceUnusedStays, OvershootStep
<1>3. TypeOK /\ WithinOvershoot => LimitOvershoot
  <2> SUFFICES ASSUME TypeOK, WithinOvershoot PROVE LimitOvershoot
    OBVIOUS
  <2>1. /\ IsFiniteSet(Action) /\ Counting \subseteq Action
        /\ Passed \subseteq Action
    BY AutonomyAssumption DEF AutonomyAssumption, Counting, Spent, Passed, TypeOK
  <2>2. /\ IsFiniteSet(Counting \cup Passed) /\ IsFiniteSet(Counting)
        /\ Cardinality(Counting) <= Cardinality(Counting \cup Passed)
    BY <2>1, FS_Subset
  <2> QED
    BY <2>2, FS_CardinalityType, ThreadsFinite, AutonomyAssumption
       DEF WithinOvershoot, LimitOvershoot, AutonomyAssumption
<1> QED
  BY <1>1, <1>2, <1>3, AutonomyTypeCorrect, PTL DEF Spec
=============================================================================
