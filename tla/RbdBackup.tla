------------------------------ MODULE RbdBackup ------------------------------
(***************************************************************************)
(* The backups of one RBD image of the default cluster: the requests of    *)
(* the schedule (worker/backup/scheduler.py) and of the operators          *)
(* (dashboard/routes/backups.py), the claim that lets a Worker execute one *)
(* (worker/llm/router_client.py), the export to every target, its cleanup  *)
(* and the retention sweep (worker/backup/engine.py), and the recovery     *)
(* points the Dashboard derives from what is left.                         *)
(*                                                                         *)
(* Abstractions.  A run is named by its Action: the snapshot, the object   *)
(* key and the run_id are all its own.  The rows of one run are the row    *)
(* claimed for the first target and, once committed, one more per other    *)
(* target.  Ages are compared with the hour after which a RUNNING row is   *)
(* stale, and with the refresh interval of the full exports, by choice.    *)
(***************************************************************************)
EXTENDS Integers, FiniteSets

CONSTANTS Requests,        \* bound: Actions 1 .. Requests, in creation order
          Sweep,           \* the retention_sweep_delete ones among them
          Worker,          \* Worker processes
          Slots,           \* targets 1 .. Slots, in upload order
          KeepFull,        \* retention.keep_full_count
          KeepIncremental, \* retention.keep_incremental_count
          Refresh,         \* full_refresh_every_n_days is set
          MaxOpen,         \* bound: requests in flight at a time
          MaxFaults        \* bound: restarts and cleanups that fail

Request == 1 .. Requests
Slot == 1 .. Slots
NoRequest == 0

ASSUME BackupAssumption ==
    /\ Requests \in Nat /\ Slots \in Nat \ {0}
    /\ Sweep \subseteq Request
    /\ KeepFull \in Nat \ {0} /\ KeepIncremental \in Nat
    /\ Refresh \in BOOLEAN
    /\ MaxOpen \in Nat /\ MaxFaults \in Nat

VARIABLES policy,    \* what gate.classify_action says of a backup Action now
          action,    \* [Request -> Action.status]
          incident,  \* [Request -> Incident.status]
          class,     \* [Request -> Action.classification]
          cancelled, \* Actions with cancelled_at set
          run,       \* [Worker -> what it executes and how far it is]
          job,       \* [Request -> rows of backup_jobs]
          aged,      \* rows whose created_at is over an hour ago
          objects,   \* what the targets store
          snapshots, \* backup-* snapshots of the image
          excused,   \* history: runs a fault may have left something of
          faults     \* history: how many faults there were

vars == <<policy, action, incident, class, cancelled, run, job, aged, objects,
          snapshots, excused, faults>>
requests == <<policy, action, incident, class, cancelled>>
storage == <<objects, snapshots>>
history == <<excused, faults>>

-----------------------------------------------------------------------------
Classification == {"SAFE", "RISKY"}
ActionStatus == {"NONE", "PENDING_APPROVAL", "APPROVED", "REJECTED",
                 "EXECUTED", "FAILED", "INCONCLUSIVE"}
IncidentStatus == {"NONE", "PENDING_APPROVAL", "APPROVED", "EXECUTING",
                   "REJECTED", "VERIFYING", "FAILED"}
InFlight == {"PENDING_APPROVAL", "APPROVED"}

JobStatus == {"NONE", "RUNNING", "SUCCESS", "FAILED"}
JobType == {"full", "incremental"}
(* base: the run whose full export an incremental one is based on; turn:   *)
(* the order of created_at; copied: the rows of the other targets exist.   *)
Rows == [status : JobStatus, type : JobType, base : Request \cup {NoRequest},
         turn : 0 .. Requests, copied : BOOLEAN]
NoRows == [status |-> "NONE", type |-> "full", base |-> NoRequest,
           turn |-> 0, copied |-> FALSE]
Object == [slot : Slot, run : Request, at : Nat \ {0}]

Phase == {"idle", "loaded", "look", "supersede", "plan", "claim", "check",
          "prepare", "export", "upload", "commit", "clean", "mark", "drop",
          "tidy", "protect", "sweep", "succeeded", "failed"}
(* request: the Action; previous: the latest full per target that was read *)
(* before the claim; keep: the runs whose keys the sweep may not delete;   *)
(* seen: the stale row to supersede; step: targets done in this loop.      *)
Run == [request : Request \cup {NoRequest}, pc : Phase,
        previous : [Slot -> Request \cup {NoRequest}],
        keep : SUBSET Request, seen : Request \cup {NoRequest},
        step : 0 .. 2 * Slots]
NoRun == [request |-> NoRequest, pc |-> "idle",
          previous |-> [s \in Slot |-> NoRequest], keep |-> {},
          seen |-> NoRequest, step |-> 0]

(* Targets that have a SUCCESS row of run r.                               *)
Copies(r) == (IF job[r].status = "SUCCESS" THEN {1} ELSE {})
               \cup (IF job[r].copied THEN Slot \ {1} ELSE {})
Stored(r, s) == \E o \in objects : o.run = r /\ o.slot = s

Claimed == {r \in Request : job[r].status # "NONE"}
AnyOf(S) == IF S = {} THEN NoRequest ELSE CHOOSE r \in S : TRUE
LatestOf(S) == AnyOf({r \in S : \A q \in S : job[q].turn <= job[r].turn})
FullsOn(s) == {r \in Request : job[r].type = "full" /\ s \in Copies(r)}
PreviousFulls == [s \in Slot |-> LatestOf(FullsOn(s))]

TypeOK ==
    /\ policy \in Classification
    /\ action \in [Request -> ActionStatus]
    /\ incident \in [Request -> IncidentStatus]
    /\ class \in [Request -> Classification]
    /\ cancelled \subseteq Request
    /\ run \in [Worker -> Run]
    /\ job \in [Request -> Rows]
    /\ aged \subseteq Request
    /\ objects \subseteq Object
    /\ snapshots \subseteq Request
    /\ excused \subseteq Request
    /\ faults \in 0 .. MaxFaults

Init ==
    /\ policy \in Classification
    /\ action = [r \in Request |-> "NONE"]
    /\ incident = [r \in Request |-> "NONE"]
    /\ class = [r \in Request |-> "SAFE"]
    /\ cancelled = {}
    /\ run = [w \in Worker |-> NoRun]
    /\ job = [r \in Request |-> NoRows]
    /\ aged = {}
    /\ objects = {}
    /\ snapshots = {}
    /\ excused = {}
    /\ faults = 0

-----------------------------------------------------------------------------
(* Requests and decisions.                                                 *)

Write(r, a, i) ==
    /\ action' = [action EXCEPT ![r] = a]
    /\ incident' = [incident EXCEPT ![r] = i]

(* _create_scheduled_action, _create_manual_backup_action: the request is  *)
(* created as if it were already executing.                                *)
Create(r) ==
    /\ action[r] = "NONE"
    /\ \A q \in Request : q < r => action[q] # "NONE"
    /\ Cardinality({q \in Request : action[q] \in InFlight}) < MaxOpen
    /\ Write(r, "APPROVED", "EXECUTING")
    /\ UNCHANGED <<policy, class, cancelled, run, job, aged, storage, history>>

schedule(r) == r \notin Sweep /\ Create(r)

run_now(r) == (\A q \in Request : action[q] \notin InFlight) /\ Create(r)

approve(r) ==
    /\ action[r] = "PENDING_APPROVAL"
    /\ Write(r, "APPROVED", "APPROVED")
    /\ UNCHANGED <<policy, class, cancelled, run, job, aged, storage, history>>

reject(r) ==
    /\ action[r] = "PENDING_APPROVAL"
    /\ Write(r, "REJECTED", "REJECTED")
    /\ UNCHANGED <<policy, class, cancelled, run, job, aged, storage, history>>

(* A running Action is still APPROVED, so that cancelling it rejects it.   *)
Cancel(r) ==
    /\ action[r] = "APPROVED"
    /\ cancelled' = cancelled \cup {r}
    /\ Write(r, "REJECTED", "REJECTED")
    /\ UNCHANGED <<policy, class, run, job, aged, storage, history>>

cancel_backup_action(r) == Cancel(r)

(* The newest Action for the image is taken for the one that runs the job. *)
cancel_backup_job(j) ==
    /\ job[j].status = "RUNNING"
    /\ \E r \in Request :
         /\ \A q \in Request : q > r => action[q] # "APPROVED"
         /\ Cancel(r)

-----------------------------------------------------------------------------
(* _execute_approved_action.                                               *)

Go(w, pc) == run' = [run EXCEPT ![w].pc = pc]

At(w, pc) == run[w].pc = pc
Current(w) == run[w].request

(* The policy is stricter, or laxer, than when the Action was created.     *)
(* Change-risk evidence that is no longer what was acknowledged has the    *)
(* same effect, and is left out.                                           *)
withdraw(w, r) ==
    /\ At(w, "idle") /\ action[r] = "APPROVED" /\ class[r] # policy
    /\ class' = [class EXCEPT ![r] = policy]
    /\ Write(r, "PENDING_APPROVAL", "PENDING_APPROVAL")
    /\ UNCHANGED <<policy, cancelled, run, job, aged, storage, history>>

(* Bound: an interrupted Action that already claimed the image is not      *)
(* executed again (ActionLifecycle has the executions of one Action).      *)
load(w, r) ==
    /\ At(w, "idle") /\ action[r] = "APPROVED" /\ class[r] = policy
    /\ job[r].status = "NONE"
    /\ run' = [run EXCEPT ![w] = [NoRun EXCEPT !.request = r, !.pc = "loaded"]]
    /\ UNCHANGED <<requests, job, aged, storage, history>>

(* The claim looks at the Incident alone.                                  *)
ClaimFree(r) == incident[r] # "EXECUTING"

claim(w) ==
    LET r == Current(w) IN
    /\ At(w, "loaded") /\ ClaimFree(r)
    /\ incident' = [incident EXCEPT ![r] = "EXECUTING"]
    /\ Go(w, IF r \in Sweep THEN "protect" ELSE "look")
    /\ UNCHANGED <<policy, action, class, cancelled, job, aged, storage,
                   history>>

claim_taken(w) ==
    /\ At(w, "loaded") /\ ~ClaimFree(Current(w))
    /\ run' = [run EXCEPT ![w] = NoRun]
    /\ UNCHANGED <<requests, job, aged, storage, history>>

record(w) ==
    LET r == Current(w) IN
    /\ run' = [run EXCEPT ![w] = NoRun]
    /\ \/ At(w, "succeeded") /\ Write(r, "EXECUTED", "VERIFYING")
       \/ At(w, "failed") /\ Write(r, "FAILED", "FAILED")
    /\ UNCHANGED <<policy, class, cancelled, job, aged, storage, history>>

-----------------------------------------------------------------------------
(* _run_rbd_backup.                                                        *)

Latest == LatestOf(Claimed)
Fresh == Latest # NoRequest /\ job[Latest].status = "RUNNING"
           /\ Latest \notin aged
Stale == Latest # NoRequest /\ job[Latest].status = "RUNNING"
           /\ Latest \in aged

Status(r, s) == job' = [job EXCEPT ![r].status = s]
(* _mark_running_failed.                                                   *)
FailIfRunning(r) ==
    IF job[r].status = "RUNNING" THEN Status(r, "FAILED") ELSE UNCHANGED job

look(w) ==
    /\ At(w, "look")
    /\ IF Stale
       THEN run' = [run EXCEPT ![w].pc = "supersede", ![w].seen = Latest]
       ELSE Go(w, IF Fresh THEN "succeeded" ELSE "plan")
    /\ UNCHANGED <<requests, job, aged, storage, history>>

(* Whatever became of the row since it was read.                           *)
supersede(w) ==
    /\ At(w, "supersede")
    /\ Status(run[w].seen, "FAILED")
    /\ run' = [run EXCEPT ![w].pc = "plan", ![w].seen = NoRequest]
    /\ UNCHANGED <<requests, aged, storage, history>>

(* _latest_successful_full_jobs_by_slot, read before the claim.            *)
plan(w) ==
    /\ At(w, "plan")
    /\ run' = [run EXCEPT ![w].pc = "claim", ![w].previous = PreviousFulls]
    /\ UNCHANGED <<requests, job, aged, storage, history>>

NeedsFull(p) == (\E s \in Slot : p[s] = NoRequest)
                  \/ (\E s, t \in Slot : p[s] # p[t])
Types(p) == IF NeedsFull(p) THEN {"full"}
            ELSE IF Refresh THEN JobType ELSE {"incremental"}

(* _claim_running_backup: one RUNNING row per image (the partial unique    *)
(* index uq_backup_jobs_active_rbd_run).                                   *)
ImageFree == \A q \in Request : job[q].status # "RUNNING"

Row(type, p) == [status |-> "RUNNING", type |-> type,
                 base |-> IF type = "full" THEN NoRequest ELSE p[1],
                 turn |-> Cardinality(Claimed) + 1, copied |-> FALSE]

(* Another Worker may have claimed the image since this one looked.        *)
claim_image(w) ==
    /\ At(w, "claim")
    /\ IF ImageFree
       THEN /\ \E type \in Types(run[w].previous) :
                 job' = [job EXCEPT ![Current(w)] = Row(type, run[w].previous)]
            /\ Go(w, "check")
       ELSE Go(w, "succeeded") /\ UNCHANGED job
    /\ UNCHANGED <<requests, aged, storage, history>>

check_cancel(w) ==
    /\ At(w, "check") /\ Current(w) \notin cancelled
    /\ Go(w, "prepare")
    /\ UNCHANGED <<requests, job, aged, storage, history>>

(* Cancelled, or no room for the export, or a hook or the snapshot failed. *)
refuse(w) ==
    /\ \/ At(w, "check") /\ Current(w) \in cancelled
       \/ At(w, "prepare")
    /\ FailIfRunning(Current(w))
    /\ Go(w, "failed")
    /\ UNCHANGED <<requests, aged, storage, history>>

Excuse(S) ==
    /\ faults < MaxFaults
    /\ faults' = faults + 1
    /\ excused' = excused \cup (S \ {NoRequest})

(* rbd snap create; it may also raise after it took effect.                *)
snap_create(w) ==
    LET r == Current(w) IN
    /\ At(w, "prepare")
    /\ snapshots' = snapshots \cup {r}
    /\ \/ Go(w, "export") /\ UNCHANGED <<job, history>>
       \/ Go(w, "failed") /\ FailIfRunning(r) /\ Excuse({r})
    /\ UNCHANGED <<requests, aged, objects>>

(* rbd export, or rbd export-diff from the snapshot of the base.           *)
export(w) ==
    LET r == Current(w) IN
    /\ At(w, "export") /\ r \notin cancelled
    /\ job[r].type = "incremental" => job[r].base \in snapshots
    /\ Go(w, "upload")
    /\ UNCHANGED <<requests, job, aged, storage, history>>

Newest(s) == {o \in objects : o.slot = s
                /\ \A p \in objects : p.slot = s => p.at <= o.at}
NextStamp(s) == IF Newest(s) = {} THEN 1
                ELSE (CHOOSE o \in Newest(s) : TRUE).at + 1
Put(r, s) == objects' = objects \cup
                          {[slot |-> s, run |-> r, at |-> NextStamp(s)]}

(* Mutant: an object whose verify() fails is not taken back.               *)
RecordedVerified(w, verified) ==
    IF verified THEN run[w].step + 1 ELSE run[w].step

(* The target is recorded as soon as upload() returns, so that the object  *)
(* is cleaned up when verify() fails; step counts the recorded ones.       *)
Recorded(w, verified) == run[w].step + 1

upload(w) ==
    /\ At(w, "upload") /\ Current(w) \notin cancelled
    /\ Put(Current(w), run[w].step + 1)
    /\ \E verified \in BOOLEAN :
         run' = [run EXCEPT ![w].step = Recorded(w, verified),
                            ![w].pc = IF ~verified THEN "clean"
                                      ELSE IF run[w].step + 1 = Slots
                                           THEN "commit" ELSE "upload"]
    /\ UNCHANGED <<requests, job, aged, snapshots, history>>

(* upload() raises although the target keeps the object.                   *)
upload_raises(w) ==
    LET r == Current(w) IN
    /\ At(w, "upload") /\ r \notin cancelled
    /\ Put(r, run[w].step + 1)
    /\ Go(w, "clean")
    /\ Excuse({r})
    /\ UNCHANGED <<requests, job, aged, snapshots>>

(* The export, an upload or the database fails, or the Action is cancelled.*)
give_up(w) ==
    /\ At(w, "export") \/ At(w, "upload") \/ At(w, "commit")
    /\ Go(w, "clean")
    /\ UNCHANGED <<requests, job, aged, storage, history>>

commit(w) ==
    LET r == Current(w) IN
    /\ At(w, "commit") /\ job[r].status = "RUNNING"
    /\ job' = [job EXCEPT ![r].status = "SUCCESS", ![r].copied = TRUE]
    /\ run' = [run EXCEPT ![w].pc = "tidy", ![w].step = 0]
    /\ UNCHANGED <<requests, aged, storage, history>>

(* The uploaded objects are deleted one by one; a delete may fail.         *)
clean(w) ==
    LET r == Current(w)
        uploaded == {o \in objects : o.run = r /\ o.slot <= run[w].step} IN
    /\ At(w, "clean")
    /\ \E kept \in SUBSET uploaded :
         /\ objects' = (objects \ uploaded) \cup kept
         /\ IF kept = {} THEN UNCHANGED history ELSE Excuse({r})
    /\ run' = [run EXCEPT ![w].pc = "mark", ![w].step = 0]
    /\ UNCHANGED <<requests, job, aged, snapshots>>

mark_failed(w) ==
    /\ At(w, "mark")
    /\ FailIfRunning(Current(w))
    /\ Go(w, "drop")
    /\ UNCHANGED <<requests, aged, storage, history>>

(* _remove_snapshot_best_effort, for each of S.                            *)
Remove(S) ==
    \E kept \in SUBSET (S \cap snapshots) :
        /\ snapshots' = (snapshots \ S) \cup kept
        /\ IF kept = {} THEN UNCHANGED history ELSE Excuse(kept)

drop_snapshot(w) ==
    /\ At(w, "drop")
    /\ Remove({Current(w)})
    /\ Go(w, "failed")
    /\ UNCHANGED <<requests, job, aged, objects>>

(* Mutant: the snapshot of a full is dropped like an incremental's.        *)
ObsoleteOwn(w) == {Current(w)} \cup ({run[w].previous[s] : s \in Slot}
                                       \ {NoRequest})
(* Mutant: the snapshots of earlier fulls stay on the image.               *)
ObsoleteIncremental(w) == IF job[Current(w)].type = "incremental"
                          THEN {Current(w)} ELSE {}
(* An incremental's snapshot is no base; a full's replaces those before.   *)
Obsolete(w) == IF job[Current(w)].type = "incremental" THEN {Current(w)}
               ELSE {run[w].previous[s] : s \in Slot} \ {NoRequest}

tidy(w) ==
    /\ At(w, "tidy")
    /\ Remove(Obsolete(w))
    /\ Go(w, "protect")
    /\ UNCHANGED <<requests, job, aged, objects>>

-----------------------------------------------------------------------------
(* _sweep_retention_after_success: full/ on every target, then             *)
(* incremental/ on every target.                                           *)

(* Mutants: no base is protected; the fulls' empty base is taken for one.  *)
ProtectedNone == {}
ProtectedAny == {job[i].base : i \in {r \in Request : Copies(r) # {}}}
(* _protected_keys: the bases of the incrementals that have a SUCCESS row. *)
Protected == {job[i].base : i \in {r \in Request :
                job[r].type = "incremental" /\ Copies(r) # {}}} \ {NoRequest}

protect(w) ==
    /\ At(w, "protect")
    /\ run' = [run EXCEPT ![w].pc = "sweep", ![w].keep = Protected]
    /\ UNCHANGED <<requests, job, aged, storage, history>>

Swept(w) == [type |-> IF run[w].step < Slots THEN "full" ELSE "incremental",
             slot |-> (run[w].step % Slots) + 1]
Keep(type) == IF type = "full" THEN KeepFull ELSE KeepIncremental

(* What apply_retention may delete on target s, and what it should.        *)
Deletable(type, s, keep) ==
    {o \in objects : o.slot = s /\ job[o.run].type = type /\ o.run \notin keep}
Surplus(type, s, keep) ==
    {o \in Deletable(type, s, keep) :
        Cardinality({p \in Deletable(type, s, keep) : p.at > o.at})
          >= Keep(type)}

(* Newest first; a delete that raises ends the sweep of this target.       *)
apply_retention(w) ==
    LET surplus == Surplus(Swept(w).type, Swept(w).slot, run[w].keep)
        last == run[w].step + 1 = 2 * Slots IN
    /\ At(w, "sweep")
    /\ \E gone \in SUBSET surplus :
         /\ \A o \in gone : \A p \in surplus : p.at > o.at => p \in gone
         /\ objects' = objects \ gone
    /\ run' = [run EXCEPT ![w].pc = IF last THEN "succeeded" ELSE "sweep",
                          ![w].step = IF last THEN 0 ELSE @ + 1]
    /\ UNCHANGED <<requests, job, aged, snapshots, history>>

-----------------------------------------------------------------------------
(* An hour goes by.                                                        *)
hour_passes ==
    /\ aged' = aged \cup {r \in Request : job[r].status = "RUNNING"}
    /\ aged' # aged
    /\ UNCHANGED <<requests, run, job, storage, history>>

Interrupted(r) == action[r] = "APPROVED" /\ incident[r] = "EXECUTING"

(* Worker w stops and starts again; its start-up closes what it finds      *)
(* (reconcile_interrupted_approved_executions).  Or nothing is closed: the *)
(* start-up's writes fail and are logged, or w did not stop but a call     *)
(* outside every try of _run_rbd_backup raised (write_progress).  That the *)
(* poller then records FAILED is left out: nothing here tells it from the  *)
(* INCONCLUSIVE of a start-up.                                             *)
restart(w) ==
    /\ run' = [run EXCEPT ![w] = NoRun]
    /\ Excuse({Current(w)} \cup {run[w].previous[s] : s \in Slot})
    /\ \/ /\ action' = [r \in Request |-> IF Interrupted(r)
                                          THEN "INCONCLUSIVE" ELSE action[r]]
          /\ incident' = [r \in Request |-> IF Interrupted(r)
                                            THEN "FAILED" ELSE incident[r]]
       \/ UNCHANGED <<action, incident>>
    /\ UNCHANGED <<policy, class, cancelled, job, aged, storage>>

-----------------------------------------------------------------------------
RequestStep ==
    \E r \in Request :
        \/ schedule(r) \/ run_now(r)
        \/ approve(r) \/ reject(r)
        \/ cancel_backup_action(r) \/ cancel_backup_job(r)

Poll(w) == \/ \E r \in Request : withdraw(w, r) \/ load(w, r)
           \/ claim(w) \/ claim_taken(w) \/ record(w)

Backup(w) ==
    \/ look(w) \/ supersede(w) \/ plan(w) \/ claim_image(w)
    \/ check_cancel(w) \/ refuse(w) \/ snap_create(w) \/ export(w)
    \/ upload(w) \/ upload_raises(w) \/ give_up(w) \/ commit(w)
    \/ clean(w) \/ mark_failed(w) \/ drop_snapshot(w) \/ tidy(w)

Retention(w) == protect(w) \/ apply_retention(w)

Next == \/ RequestStep
        \/ \E w \in Worker : Poll(w) \/ Backup(w) \/ Retention(w) \/ restart(w)
        \/ hour_passes

Spec == Init /\ [][Next]_vars

(* A running Worker polls for ever and carries on with what it executes.   *)
Fairness == \A w \in Worker : WF_vars(Poll(w) \/ Backup(w) \/ Retention(w))

FairSpec == Spec /\ Fairness

-----------------------------------------------------------------------------
(* Properties.                                                             *)

Working == {"export", "upload", "commit", "clean", "mark", "drop", "tidy"}
Live(r) == \E w \in Worker : Current(w) = r /\ run[w].pc \in Working

(* The next incremental is a diff from the snapshot of the latest full     *)
(* (export_cmd in _run_rbd_backup): that snapshot is on the image whatever *)
(* run failed, was cancelled or was interrupted since.  Without it every   *)
(* later run fails, for no full is due.                                    *)
BaseSnapshotKept ==
    \A s \in Slot : PreviousFulls[s] # NoRequest => PreviousFulls[s] \in snapshots

(* "Remove both best-effort so repeated runs cannot fill the Ceph cluster  *)
(* with orphaned backup-* snapshots" (_run_rbd_backup): a snapshot belongs *)
(* to the latest full, to a run that goes on or is about to remove it, or  *)
(* a fault left it.                                                        *)
SnapshotsAccounted ==
    \A r \in snapshots \ excused :
        \/ \E s \in Slot : r = PreviousFulls[s]
        \/ Live(r)
        \/ \E w \in Worker : At(w, "tidy") /\ r \in Obsolete(w)

(* An object on a target is a recorded copy, or its run goes on, or a      *)
(* fault left it: a run that fails takes back what it uploaded.            *)
ObjectsAccounted ==
    \A o \in objects : \/ o.slot \in Copies(o.run)
                       \/ o.run \in excused
                       \/ Live(o.run)

(* Retention never deletes the full export that the next incremental, or   *)
(* an incremental that is still stored, depends on (_protected_keys,       *)
(* keep_full_count), as long as fewer exports are left over by faults than *)
(* full exports are kept.                                                  *)
Depended(s) == {PreviousFulls[s]} \cup
    {job[i].base : i \in {r \in Request : /\ job[r].type = "incremental"
                                          /\ s \in Copies(r) /\ Stored(r, s)}}
BasesStored ==
    faults < KeepFull =>
        \A s \in Slot : \A f \in Depended(s) \ {NoRequest} : Stored(f, s)

(* The recovery points the Dashboard lists for target s (_recovery_points) *)
(* and the exports a restore needs, in order of creation (_backup_chain).  *)
FullOf(r) == IF job[r].type = "full" THEN r ELSE job[r].base
RecoveryPoints(s) == {r \in Request : s \in Copies(r) /\ s \in Copies(FullOf(r))}
Chain(r, s) == {FullOf(r)} \cup
    {d \in Request : /\ job[d].type = "incremental" /\ s \in Copies(d)
                     /\ job[d].base = FullOf(r)
                     /\ job[d].turn <= job[r].turn}

(* "Return restorable full/incremental points with their exact chain"      *)
(* (_recovery_points): a recovery point whose own export is stored can be  *)
(* restored, for every export of its chain is stored as well.              *)
RecoveryPointsRestorable ==
    \A s \in Slot : \A r \in RecoveryPoints(s) :
        Stored(r, s) => \A c \in Chain(r, s) : Stored(c, s)

(* A request of the schedule or of an operator is executed ("calls         *)
(* DIRECTLY into _execute_approved_action", worker/backup/scheduler.py),   *)
(* unless it is withdrawn, cancelled or interrupted first.                 *)
Executing(r) == \E w \in Worker : Current(w) = r /\ run[w].pc # "loaded"
RequestIsExecuted ==
    \A r \in Request : action[r] = "APPROVED" ~>
                         (action[r] # "APPROVED" \/ Executing(r))

=============================================================================
