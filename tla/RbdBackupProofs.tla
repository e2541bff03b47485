--------------------------- MODULE RbdBackupProofs ---------------------------
(***************************************************************************)
(* Theorems about RbdBackup, for any number of requests and targets, any   *)
(* retention and any number of faults, where one Worker executes: the      *)
(* snapshot of the latest full export is kept, and a snapshot or an object *)
(* is always somebody's.                                                   *)
(*                                                                         *)
(* Core says which row a run is on and how far it is; BaseKnown, that what *)
(* was read before the claim still holds at the commit, for no other run   *)
(* of the image commits in between; SnapshotsKnown and ObjectsKnown follow *)
(* what a run has taken or uploaded until it is recorded or taken back.    *)
(***************************************************************************)
EXTENDS RbdBackup, FiniteSetTheorems, TLAPS

(* One Worker process, the compose file's deployment.                      *)
OneWorker == \A v, w \in Worker : v = w

Unclaimed == {"loaded", "look", "supersede", "plan", "claim"}
Claiming == {"check", "prepare", "export", "upload", "commit", "clean", "mark"}
Counting == {"upload", "commit", "clean", "sweep"}

(* The row of the Action a Worker is on, at each point of its run.         *)
RunKnownAt(w) ==
    /\ run[w].pc # "idle" => run[w].request \in Request
    /\ run[w].pc \in Unclaimed => job[run[w].request].status = "NONE"
    /\ run[w].pc \in Claiming => job[run[w].request].status = "RUNNING"
    /\ run[w].pc = "drop" => job[run[w].request].status = "FAILED"
    /\ run[w].pc = "tidy" => job[run[w].request].status = "SUCCESS"
    /\ run[w].pc = "supersede" => /\ run[w].seen \in Request
                                  /\ job[run[w].seen].status = "RUNNING"
    /\ run[w].pc \notin Counting => run[w].step = 0
    /\ run[w].pc = "upload" => run[w].step < Slots
    /\ run[w].pc \in {"commit", "clean"} => run[w].step <= Slots
    /\ run[w].pc = "sweep" => run[w].step < 2 * Slots
RunKnown == \A w \in Worker : RunKnownAt(w)

(* Turns are given out in order; every object and snapshot has a claimed   *)
(* run.                                                                    *)
JobsKnown ==
    /\ \A r \in Request : /\ (job[r].copied = TRUE) <=> job[r].status = "SUCCESS"
                          /\ job[r].status # "NONE" =>
                               job[r].turn <= Cardinality(Claimed)
    /\ \A o \in objects : job[o.run].status # "NONE"
    /\ \A r \in snapshots : job[r].status # "NONE"

Core == TypeOK /\ RunKnown /\ JobsKnown

LEMMA Constants == /\ 1 \in Slot /\ Slots \in Nat /\ Slots >= 1
                   /\ Requests \in Nat /\ 0 \notin Request
                   /\ Sweep \subseteq Request
BY BackupAssumption DEF BackupAssumption, Slot, Request

LEMMA RunWritten ==
  ASSUME TypeOK, NEW w \in Worker, NEW x \in Run, run' = [run EXCEPT ![w] = x]
  PROVE  /\ run' \in [Worker -> Run] /\ run'[w] = x
         /\ \A v \in Worker \ {w} : run'[v] = run[v]
BY DEF TypeOK

LEMMA Moved ==
  ASSUME TypeOK, NEW w \in Worker, NEW pc \in Phase, Go(w, pc)
  PROVE  /\ run' \in [Worker -> Run]
         /\ run'[w].pc = pc /\ run'[w].request = run[w].request
         /\ run'[w].previous = run[w].previous /\ run'[w].keep = run[w].keep
         /\ run'[w].seen = run[w].seen /\ run'[w].step = run[w].step
BY DEF TypeOK, Go, Run

LEMMA Picked ==
  ASSUME NEW S
  PROVE  (S = {} /\ AnyOf(S) = NoRequest) \/ AnyOf(S) \in S
BY DEF AnyOf

LEMMA LatestKnown ==
  ASSUME NEW S \in SUBSET Request
  PROVE  LatestOf(S) = NoRequest \/ LatestOf(S) \in S
BY Picked DEF LatestOf

LEMMA PreviousKnown ==
  ASSUME TypeOK
  PROVE  /\ PreviousFulls \in [Slot -> Request \cup {NoRequest}]
         /\ \A s \in Slot : PreviousFulls[s] # NoRequest =>
              /\ PreviousFulls[s] \in Request
              /\ job[PreviousFulls[s]].type = "full"
              /\ s \in Copies(PreviousFulls[s])
BY LatestKnown DEF PreviousFulls, FullsOn

LEMMA ClaimedFinite ==
  /\ IsFiniteSet(Claimed) /\ Cardinality(Claimed) \in Nat
  /\ Cardinality(Claimed) <= Requests
  /\ \A r \in Request \ Claimed :
        /\ Cardinality(Claimed \cup {r}) = Cardinality(Claimed) + 1
        /\ Cardinality(Claimed) + 1 <= Requests
<1>1. IsFiniteSet(Request) /\ Cardinality(Request) = Requests
  BY FS_Interval, Constants DEF Request
<1>2. \A S \in SUBSET Request : /\ IsFiniteSet(S) /\ Cardinality(S) \in Nat
                                /\ Cardinality(S) <= Requests
  BY <1>1, FS_Subset, FS_CardinalityType
<1>3. Claimed \in SUBSET Request
  BY DEF Claimed
<1>4. \A r \in Request : Claimed \cup {r} \in SUBSET Request
  BY <1>3
<1> QED
  BY <1>2, <1>3, <1>4, FS_AddElement

LEMMA LookMoves ==
  ASSUME Core, NEW w \in Worker, look(w)
  PROVE  /\ run' \in [Worker -> Run]
         /\ run'[w].request = run[w].request /\ run'[w].step = 0
         /\ \/ run'[w].pc \in {"succeeded", "plan"}
            \/ Stale /\ run'[w].pc = "supersede" /\ run'[w].seen = Latest
<1>1. Latest \in Request \cup {NoRequest}
  BY LatestKnown DEF Latest, Claimed
<1>2. run[w] \in Run /\ run[w].pc = "look" /\ run[w].step = 0
  BY DEF Core, TypeOK, RunKnown, RunKnownAt, look, At, Counting
<1>3. CASE Stale
  <2>1. [run[w] EXCEPT !.pc = "supersede", !.seen = Latest] \in Run
    BY <1>1, <1>2 DEF Run, Phase
  <2>2. run' = [run EXCEPT ![w] =
                  [run[w] EXCEPT !.pc = "supersede", !.seen = Latest]]
    BY <1>3 DEF look
  <2> QED
    BY <1>1, <1>2, <1>3, <2>1, <2>2 DEF Core, TypeOK, Run
<1>4. CASE ~Stale
  <2>1. PICK pc \in {"succeeded", "plan"} : Go(w, pc)
    BY <1>4 DEF look
  <2> QED
    BY <1>2, <2>1, Moved DEF Core, Phase
<1> QED
  BY <1>3, <1>4

LEMMA SupersedeMoves ==
  ASSUME Core, NEW w \in Worker, supersede(w)
  PROVE  /\ run' \in [Worker -> Run]
         /\ run'[w].request = run[w].request /\ run'[w].step = 0
         /\ run'[w].pc = "plan"
<1>1. run[w] \in Run /\ run[w].step = 0
  BY DEF Core, TypeOK, RunKnown, RunKnownAt, supersede, At, Counting
<1>2. [run[w] EXCEPT !.pc = "plan", !.seen = NoRequest] \in Run
  BY <1>1 DEF Run, Phase
<1> QED
  BY <1>1, <1>2 DEF Core, TypeOK, Run, supersede

LEMMA PlanMoves ==
  ASSUME Core, NEW w \in Worker, plan(w)
  PROVE  /\ run' \in [Worker -> Run]
         /\ run'[w].request = run[w].request /\ run'[w].step = 0
         /\ run'[w].pc = "claim" /\ run'[w].previous = PreviousFulls
<1>1. run[w] \in Run /\ run[w].step = 0
  BY DEF Core, TypeOK, RunKnown, RunKnownAt, plan, At, Counting
<1>2. PreviousFulls \in [Slot -> Request \cup {NoRequest}]
  BY PreviousKnown DEF Core
<1>3. PICK p \in [Slot -> Request \cup {NoRequest}] : p = PreviousFulls
  BY <1>2
<1>4. [run[w] EXCEPT !.pc = "claim", !.previous = p] \in Run
  BY <1>1 DEF Run, Phase
<1> QED
  BY <1>1, <1>3, <1>4 DEF Core, TypeOK, Run, plan

LEMMA AnyStep ==
  /\ 0 \in 0 .. 2 * Slots /\ 0 < 2 * Slots
  /\ \A n \in Nat : n < 2 * Slots => n + 1 \in 0 .. 2 * Slots
  /\ \A n \in Nat : n < Slots => n + 1 \in 0 .. 2 * Slots
  /\ \A n \in 0 .. 2 * Slots : n \in Nat
BY Constants

LEMMA StepWritten ==
  ASSUME TypeOK, NEW w \in Worker, NEW pc \in Phase, NEW n \in 0 .. 2 * Slots,
         run' = [run EXCEPT ![w] = [run[w] EXCEPT !.pc = pc, !.step = n]]
  PROVE  /\ run' \in [Worker -> Run]
         /\ run'[w].request = run[w].request /\ run'[w].step = n
         /\ run'[w].previous = run[w].previous /\ run'[w].pc = pc
<1>1. run[w] \in Run
  BY DEF TypeOK
<1>2. [run[w] EXCEPT !.pc = pc, !.step = n] \in Run
  BY <1>1 DEF Run
<1> QED
  BY <1>1, <1>2 DEF TypeOK, Run

LEMMA UploadMoves ==
  ASSUME Core, NEW w \in Worker, upload(w)
  PROVE  /\ run' \in [Worker -> Run]
         /\ run'[w].request = run[w].request
         /\ run'[w].step = run[w].step + 1 /\ run'[w].step <= Slots
         /\ \/ run'[w].pc \in {"clean", "commit"}
            \/ run'[w].pc = "upload" /\ run'[w].step < Slots
<1>1. /\ run[w] \in Run /\ run[w].step \in Nat /\ run[w].step < Slots
  BY AnyStep DEF Core, TypeOK, RunKnown, RunKnownAt, upload, At, Run
<1>2. PICK pc \in {"clean", "commit", "upload"} :
        /\ run' = [run EXCEPT ![w].step = run[w].step + 1, ![w].pc = pc]
        /\ pc = "upload" => run[w].step + 1 # Slots
  BY DEF upload, Recorded
<1>a. run[w].step + 1 \in 0 .. 2 * Slots
  BY <1>1, AnyStep
<1>3. PICK n \in 0 .. 2 * Slots : n = run[w].step + 1
  BY <1>a
<1>4. run' = [run EXCEPT ![w] = [run[w] EXCEPT !.pc = pc, !.step = n]]
  BY <1>2, <1>3
<1>5. pc \in Phase
  BY <1>2 DEF Phase
<1>6. /\ run' \in [Worker -> Run]
      /\ run'[w].request = run[w].request /\ run'[w].step = n
      /\ run'[w].pc = pc
  BY <1>4, <1>5, StepWritten DEF Core
<1>7. n <= Slots /\ (pc = "upload" => n < Slots)
  BY <1>1, <1>2, <1>3, Constants
<1> QED
  BY <1>2, <1>3, <1>6, <1>7

LEMMA StepReset ==
  ASSUME Core, NEW w \in Worker, NEW pc \in Phase,
         run' = [run EXCEPT ![w].pc = pc, ![w].step = 0]
  PROVE  /\ run' \in [Worker -> Run]
         /\ run'[w].request = run[w].request /\ run'[w].step = 0
         /\ run'[w].previous = run[w].previous /\ run'[w].pc = pc
<1>1. run' = [run EXCEPT ![w] = [run[w] EXCEPT !.pc = pc, !.step = 0]]
  OBVIOUS
<1> QED
  BY <1>1, AnyStep, StepWritten DEF Core

LEMMA ProtectMoves ==
  ASSUME Core, NEW w \in Worker, protect(w)
  PROVE  /\ run' \in [Worker -> Run]
         /\ run'[w].request = run[w].request /\ run'[w].step = 0
         /\ run'[w].pc = "sweep"
<1>1. run[w] \in Run /\ run[w].step = 0
  BY DEF Core, TypeOK, RunKnown, RunKnownAt, protect, At, Counting
<1>2. Protected \in SUBSET Request
  BY DEF Core, TypeOK, Rows, Protected
<1>3. PICK k \in SUBSET Request : k = Protected
  BY <1>2
<1>4. [run[w] EXCEPT !.pc = "sweep", !.keep = k] \in Run
  BY <1>1 DEF Run, Phase
<1>5. run' = [run EXCEPT ![w] = [run[w] EXCEPT !.pc = "sweep", !.keep = k]]
  BY <1>3 DEF protect
<1> QED
  BY <1>1, <1>4, <1>5 DEF Core, TypeOK, Run

LEMMA SweepMoves ==
  ASSUME Core, NEW w \in Worker, apply_retention(w)
  PROVE  /\ run' \in [Worker -> Run]
         /\ run'[w].request = run[w].request
         /\ \/ run'[w].pc = "succeeded" /\ run'[w].step = 0
            \/ run'[w].pc = "sweep" /\ run'[w].step < 2 * Slots
<1>1. /\ run[w] \in Run /\ run[w].step \in Nat /\ run[w].step < 2 * Slots
  BY AnyStep DEF Core, TypeOK, RunKnown, RunKnownAt, apply_retention, At, Run
<1>2. CASE run[w].step + 1 = 2 * Slots
  <2>1. run' = [run EXCEPT ![w].pc = "succeeded", ![w].step = 0]
    BY <1>2 DEF apply_retention
  <2> QED
    BY <2>1, StepReset DEF Phase
<1>3. CASE run[w].step + 1 # 2 * Slots
  <2>1. PICK n \in 0 .. 2 * Slots : n = run[w].step + 1
    BY <1>1, AnyStep
  <2>2. run' = [run EXCEPT ![w] = [run[w] EXCEPT !.pc = "sweep", !.step = n]]
    BY <1>3, <2>1 DEF apply_retention
  <2>3. /\ run' \in [Worker -> Run]
        /\ run'[w].request = run[w].request /\ run'[w].step = n
        /\ run'[w].pc = "sweep"
    BY <2>2, StepWritten DEF Core, Phase
  <2>4. n < 2 * Slots
    BY <1>1, <1>3, <2>1, Constants
  <2> QED
    BY <2>3, <2>4
<1> QED
  BY <1>2, <1>3

LEMMA IdleRun ==
  /\ NoRun \in Run
  /\ \A r \in Request :
        [NoRun EXCEPT !.request = r, !.pc = "loaded"] \in Run
<1>1. NoRun \in Run
  BY AnyStep DEF NoRun, Run, Phase, NoRequest
<1>2. ASSUME NEW r \in Request
      PROVE  [NoRun EXCEPT !.request = r, !.pc = "loaded"] \in Run
  BY <1>1 DEF Run, Phase
<1> QED
  BY <1>1, <1>2

(* What the writes to backup_jobs leave.                                   *)
RowsStay == /\ job' \in [Request -> Rows]
            /\ \A q \in Request : /\ job'[q].type = job[q].type
                                  /\ job'[q].base = job[q].base
                                  /\ job'[q].turn = job[q].turn
                                  /\ (job'[q].status = "NONE") <=>
                                        (job[q].status = "NONE")

LEMMA StatusWritten ==
  ASSUME Core, NEW r \in Request, job[r].status \in {"RUNNING", "FAILED"},
         Status(r, "FAILED")
  PROVE  /\ RowsStay
         /\ job'[r].status = "FAILED"
         /\ \A q \in Request : job'[q].copied = job[q].copied
         /\ \A q \in Request \ {r} : job'[q] = job[q]
BY DEF Core, TypeOK, Rows, JobStatus, Status, RowsStay

LEMMA FailedIfRunning ==
  ASSUME Core, NEW r \in Request, FailIfRunning(r)
  PROVE  /\ RowsStay
         /\ job'[r].status # "RUNNING"
         /\ job[r].status = "RUNNING" => job'[r].status = "FAILED"
         /\ job[r].status # "RUNNING" => job'[r] = job[r]
         /\ \A q \in Request : job'[q].copied = job[q].copied
         /\ \A q \in Request \ {r} : job'[q] = job[q]
<1>1. CASE job[r].status = "RUNNING"
  BY <1>1, StatusWritten DEF FailIfRunning
<1>2. CASE job[r].status # "RUNNING"
  BY <1>2 DEF FailIfRunning, Core, TypeOK, RowsStay
<1> QED
  BY <1>1, <1>2

LEMMA Committed ==
  ASSUME Core, NEW r \in Request, job[r].status = "RUNNING",
         job' = [job EXCEPT ![r].status = "SUCCESS", ![r].copied = TRUE]
  PROVE  /\ RowsStay
         /\ job'[r].status = "SUCCESS" /\ job'[r].copied = TRUE
         /\ \A q \in Request \ {r} : job'[q] = job[q]
<1>1. /\ job[r] \in Rows
  BY DEF Core, TypeOK
<1>2. [job[r] EXCEPT !.status = "SUCCESS", !.copied = TRUE] \in Rows
  BY <1>1 DEF Rows, JobStatus
<1>3. job' = [job EXCEPT ![r] =
                [job[r] EXCEPT !.status = "SUCCESS", !.copied = TRUE]]
  OBVIOUS
<1> QED
  BY <1>1, <1>2, <1>3 DEF Core, TypeOK, Rows, RowsStay

LEMMA RowsStayKnown ==
  ASSUME Core, RowsStay
  PROVE  Claimed' = Claimed
BY DEF RowsStay, Claimed

LEMMA OthersKnown ==
  ASSUME OneWorker, NEW w \in Worker, RunKnownAt(w)'
  PROVE  RunKnown'
BY DEF OneWorker, RunKnown

(* A step that writes no row, no object and no snapshot.                   *)
LEMMA RunStep ==
  ASSUME OneWorker, Core, NEW w \in Worker, run' \in [Worker -> Run],
         RunKnownAt(w)',
         UNCHANGED <<policy, action, incident, class, cancelled, job, aged,
                     objects, snapshots, excused, faults>>
  PROVE  Core'
<1>1. TypeOK' /\ JobsKnown'
  BY DEF Core, TypeOK, JobsKnown, Claimed
<1> QED
  BY <1>1, OthersKnown DEF Core

LEMMA Core_look ==
  ASSUME OneWorker, Core, NEW w \in Worker, look(w)
  PROVE  Core'
<1>1. Latest \in Request \cup {NoRequest}
  BY LatestKnown DEF Latest, Claimed
<1>2. RunKnownAt(w)' /\ run' \in [Worker -> Run]
  <2>1. /\ job[run[w].request].status = "NONE" /\ run[w].request \in Request
        /\ job' = job
    BY DEF Core, RunKnown, RunKnownAt, Unclaimed, look, At, storage, history
  <2>2. CASE run'[w].pc \in {"succeeded", "plan"}
    BY <2>1, <2>2, LookMoves DEF RunKnownAt, Unclaimed, Claiming, Counting
  <2>3. CASE Stale /\ run'[w].pc = "supersede" /\ run'[w].seen = Latest
    <3>1. Latest \in Request /\ job[Latest].status = "RUNNING"
      BY <1>1, <2>3 DEF Stale
    <3> QED
      BY <2>1, <2>3, <3>1, LookMoves
         DEF RunKnownAt, Unclaimed, Claiming, Counting
  <2> QED
    BY <2>2, <2>3, LookMoves
<1> QED
  BY <1>2, RunStep DEF look, requests, storage, history

LEMMA Core_plan ==
  ASSUME OneWorker, Core, NEW w \in Worker, plan(w)
  PROVE  Core'
<1>1. RunKnownAt(w)'
  BY PlanMoves DEF Core, RunKnown, RunKnownAt, Unclaimed, Claiming, Counting,
     plan, At, Current, requests, storage,
     history
<1>2. run' \in [Worker -> Run]
  BY PlanMoves DEF plan
<1> QED
  BY <1>1, <1>2, RunStep DEF plan, requests, storage, history

LEMMA Core_protect ==
  ASSUME OneWorker, Core, NEW w \in Worker, protect(w)
  PROVE  Core'
<1>1. RunKnownAt(w)'
  <2>1. run[w].request \in Request /\ job' = job
    BY DEF Core, RunKnown, RunKnownAt, protect, At
  <2> QED
    BY <2>1, ProtectMoves, AnyStep
       DEF RunKnownAt, Unclaimed, Claiming, Counting
<1>2. run' \in [Worker -> Run]
  BY ProtectMoves DEF protect
<1> QED
  BY <1>1, <1>2, RunStep DEF protect, requests, storage, history

LEMMA Core_check_cancel ==
  ASSUME OneWorker, Core, NEW w \in Worker, check_cancel(w)
  PROVE  Core'
<1>1. Go(w, "prepare") /\ "prepare" \in Phase
  BY DEF check_cancel, Phase
<1>2. run' \in [Worker -> Run]
  BY <1>1, Moved DEF Core
<1>3. /\ run'[w].request = run[w].request /\ run'[w].step = run[w].step
      /\ run'[w].pc = "prepare"
  BY <1>1, Moved DEF Core
<1>4. RunKnownAt(w)'
  BY <1>3, Constants DEF Core, RunKnown, RunKnownAt, Unclaimed, Claiming,
                         Counting, check_cancel, At, Current
<1> QED
  BY <1>2, <1>4, RunStep DEF check_cancel, requests, storage, history

LEMMA Core_export ==
  ASSUME OneWorker, Core, NEW w \in Worker, export(w)
  PROVE  Core'
<1>1. Go(w, "upload") /\ "upload" \in Phase
  BY DEF export, Phase
<1>2. run' \in [Worker -> Run]
  BY <1>1, Moved DEF Core
<1>3. /\ run'[w].request = run[w].request /\ run'[w].step = run[w].step
      /\ run'[w].pc = "upload"
  BY <1>1, Moved DEF Core
<1>4. RunKnownAt(w)'
  BY <1>3, Constants DEF Core, RunKnown, RunKnownAt, Unclaimed, Claiming,
                         Counting, export, At, Current
<1> QED
  BY <1>2, <1>4, RunStep DEF export, requests, storage, history

LEMMA Core_give_up ==
  ASSUME OneWorker, Core, NEW w \in Worker, give_up(w)
  PROVE  Core'
<1>1. Go(w, "clean") /\ "clean" \in Phase
  BY DEF give_up, Phase
<1>2. run' \in [Worker -> Run]
  BY <1>1, Moved DEF Core
<1>3. /\ run'[w].request = run[w].request /\ run'[w].step = run[w].step
      /\ run'[w].pc = "clean"
  BY <1>1, Moved DEF Core
<1>a. /\ run[w].step \in Nat /\ run[w].step <= Slots
      /\ run[w].request \in Request
      /\ job[run[w].request].status = "RUNNING"
  <2>1. run[w].step \in Nat
    BY AnyStep DEF Core, TypeOK, Run
  <2> QED
    BY <2>1, Constants DEF Core, RunKnown, RunKnownAt, Claiming, Counting,
                           give_up, At
<1>4. RunKnownAt(w)'
  BY <1>3, <1>a DEF RunKnownAt, Unclaimed, Claiming, Counting, give_up
<1> QED
  BY <1>2, <1>4, RunStep DEF give_up, requests, storage, history

(* A step that writes backup_jobs.                                         *)
LEMMA JobStep ==
  ASSUME OneWorker, Core, NEW w \in Worker, run' \in [Worker -> Run],
         RunKnownAt(w)', RowsStay,
         \A q \in Request : (job'[q].copied = TRUE) <=>
                                job'[q].status = "SUCCESS",
         snapshots' = snapshots, objects' = objects,
         UNCHANGED <<requests, aged>>,
         excused' \subseteq Request, faults' \in 0 .. MaxFaults
  PROVE  Core'
<1>1. TypeOK'
  BY DEF Core, TypeOK, RowsStay, requests
<1>2. Claimed' = Claimed
  BY RowsStayKnown
<1>3. JobsKnown'
  <2>1. \A o \in objects : o.run \in Request
    BY DEF Core, TypeOK, Object
  <2> QED
    BY <1>2, <2>1 DEF Core, TypeOK, JobsKnown, RowsStay
<1> QED
  BY <1>1, <1>3, OthersKnown DEF Core

LEMMA Core_supersede ==
  ASSUME OneWorker, Core, NEW w \in Worker, supersede(w)
  PROVE  Core'
<1>1. /\ run[w].seen \in Request /\ job[run[w].seen].status = "RUNNING"
      /\ run[w].request \in Request /\ job[run[w].request].status = "NONE"
      /\ Status(run[w].seen, "FAILED")
  BY DEF Core, RunKnown, RunKnownAt, Unclaimed, supersede, At
<1>2. /\ RowsStay /\ job'[run[w].seen].status = "FAILED"
      /\ \A q \in Request : job'[q].copied = job[q].copied
      /\ \A q \in Request \ {run[w].seen} : job'[q] = job[q]
  BY <1>1, StatusWritten
<1>3. RunKnownAt(w)'
  BY <1>1, <1>2, SupersedeMoves DEF RunKnownAt, Unclaimed, Claiming, Counting
<1>4. \A q \in Request : (job'[q].copied = TRUE) <=> job'[q].status = "SUCCESS"
  BY <1>1, <1>2 DEF Core, JobsKnown
<1> QED
  BY <1>2, <1>3, <1>4, SupersedeMoves, JobStep
     DEF Core, TypeOK, supersede, storage, history

LEMMA Core_refuse ==
  ASSUME OneWorker, Core, NEW w \in Worker, refuse(w)
  PROVE  Core'
<1>1. /\ run[w].request \in Request /\ job[run[w].request].status = "RUNNING"
      /\ run[w].step = 0
      /\ FailIfRunning(run[w].request) /\ Go(w, "failed")
  BY DEF Core, RunKnown, RunKnownAt, Claiming, Counting, refuse, At, Current
<1>2. /\ RowsStay /\ job'[run[w].request].status = "FAILED"
      /\ \A q \in Request : job'[q].copied = job[q].copied
      /\ \A q \in Request \ {run[w].request} : job'[q] = job[q]
  BY <1>1, FailedIfRunning
<1>3. /\ run' \in [Worker -> Run] /\ run'[w].pc = "failed"
      /\ run'[w].request = run[w].request /\ run'[w].step = 0
  BY <1>1, Moved DEF Core, Phase
<1>4. RunKnownAt(w)'
  BY <1>1, <1>2, <1>3 DEF RunKnownAt, Unclaimed, Claiming, Counting
<1>5. \A q \in Request : (job'[q].copied = TRUE) <=> job'[q].status = "SUCCESS"
  BY <1>1, <1>2 DEF Core, JobsKnown
<1> QED
  BY <1>2, <1>3, <1>4, <1>5, JobStep
     DEF Core, TypeOK, refuse, storage, history

LEMMA Core_mark_failed ==
  ASSUME OneWorker, Core, NEW w \in Worker, mark_failed(w)
  PROVE  Core'
<1>1. /\ run[w].request \in Request /\ job[run[w].request].status = "RUNNING"
      /\ run[w].step = 0
      /\ FailIfRunning(run[w].request) /\ Go(w, "drop")
  BY DEF Core, RunKnown, RunKnownAt, Claiming, Counting, mark_failed, At, Current
<1>2. /\ RowsStay /\ job'[run[w].request].status = "FAILED"
      /\ \A q \in Request : job'[q].copied = job[q].copied
      /\ \A q \in Request \ {run[w].request} : job'[q] = job[q]
  BY <1>1, FailedIfRunning
<1>3. /\ run' \in [Worker -> Run] /\ run'[w].pc = "drop"
      /\ run'[w].request = run[w].request /\ run'[w].step = 0
  BY <1>1, Moved DEF Core, Phase
<1>4. RunKnownAt(w)'
  BY <1>1, <1>2, <1>3 DEF RunKnownAt, Unclaimed, Claiming, Counting
<1>5. \A q \in Request : (job'[q].copied = TRUE) <=> job'[q].status = "SUCCESS"
  BY <1>1, <1>2 DEF Core, JobsKnown
<1> QED
  BY <1>2, <1>3, <1>4, <1>5, JobStep
     DEF Core, TypeOK, mark_failed, storage, history

LEMMA Core_commit ==
  ASSUME OneWorker, Core, NEW w \in Worker, commit(w)
  PROVE  Core'
<1>1. /\ run[w].request \in Request /\ job[run[w].request].status = "RUNNING"
      /\ job' = [job EXCEPT ![run[w].request].status = "SUCCESS",
                           ![run[w].request].copied = TRUE]
  BY DEF Core, RunKnown, RunKnownAt, Claiming, commit, At, Current
<1>2. /\ RowsStay /\ job'[run[w].request].status = "SUCCESS"
      /\ job'[run[w].request].copied = TRUE
      /\ \A q \in Request \ {run[w].request} : job'[q] = job[q]
  BY <1>1, Committed
<1>3. /\ run' \in [Worker -> Run] /\ run'[w].pc = "tidy"
      /\ run'[w].request = run[w].request /\ run'[w].step = 0
  BY StepReset DEF commit, Phase
<1>4. RunKnownAt(w)'
  BY <1>1, <1>2, <1>3 DEF RunKnownAt, Unclaimed, Claiming, Counting
<1>5. \A q \in Request : (job'[q].copied = TRUE) <=> job'[q].status = "SUCCESS"
  BY <1>1, <1>2 DEF Core, JobsKnown
<1> QED
  BY <1>2, <1>3, <1>4, <1>5, JobStep
     DEF Core, TypeOK, commit, storage, history

LEMMA Core_claim_image ==
  ASSUME OneWorker, Core, NEW w \in Worker, claim_image(w)
  PROVE  Core'
<1>1. /\ run[w].request \in Request /\ job[run[w].request].status = "NONE"
      /\ run[w].step = 0 /\ run[w].previous \in [Slot -> Request \cup {NoRequest}]
  BY DEF Core, TypeOK, Run, RunKnown, RunKnownAt, Unclaimed, Counting,
         claim_image, At
<1>2. CASE ImageFree
  <2> DEFINE r == run[w].request
  <2>1. PICK type \in JobType :
          job' = [job EXCEPT ![r] = Row(type, run[w].previous)]
    BY <1>2 DEF claim_image, Types, JobType, Current
  <2>2. Go(w, "check")
    BY <1>2 DEF claim_image
  <2>3. /\ run' \in [Worker -> Run] /\ run'[w].pc = "check"
        /\ run'[w].request = r /\ run'[w].step = 0
    BY <1>1, <2>2, Moved DEF Core, Phase
  <2>a. r \in Request \ Claimed
    BY <1>1 DEF Claimed
  <2>b. Cardinality(Claimed) \in Nat /\ Cardinality(Claimed) + 1 <= Requests
    BY <2>a, ClaimedFinite
  <2>4. Cardinality(Claimed) + 1 \in 0 .. Requests
    BY <2>b, Constants
  <2>5. Row(type, run[w].previous) \in Rows
    BY <1>1, <2>4, Constants DEF Row, Rows, JobStatus
  <2>6. /\ job' \in [Request -> Rows] /\ job'[r] = Row(type, run[w].previous)
        /\ \A q \in Request \ {r} : job'[q] = job[q]
    BY <1>1, <2>1, <2>5 DEF Core, TypeOK
  <2>7. /\ job'[r].status = "RUNNING" /\ job'[r].copied = FALSE
        /\ job'[r].turn = Cardinality(Claimed) + 1
    BY <2>6 DEF Row
  <2>8. Claimed' = Claimed \cup {r}
    BY <1>1, <2>6, <2>7 DEF Claimed
  <2>9. Cardinality(Claimed') = Cardinality(Claimed) + 1
    BY <1>1, <2>8, ClaimedFinite DEF Claimed
  <2>10. RunKnownAt(w)'
    BY <1>1, <2>3, <2>7 DEF RunKnownAt, Unclaimed, Claiming, Counting
  <2>11. TypeOK'
    BY <2>3, <2>6 DEF Core, TypeOK, claim_image, requests, storage, history
  <2>12. JobsKnown'
    <3>1. \A o \in objects : o.run \in Request
      BY DEF Core, TypeOK, Object
    <3>2. \A q \in Request : (job'[q].copied = TRUE) <=> job'[q].status = "SUCCESS"
      BY <2>6, <2>7 DEF Core, JobsKnown
    <3>3. ASSUME NEW q \in Request, job'[q].status # "NONE"
          PROVE  job'[q].turn <= Cardinality(Claimed) + 1
      <4>1. job[q].turn \in Nat
        BY DEF Core, TypeOK, Rows
      <4> QED
        BY <2>6, <2>7, <3>3, <4>1, ClaimedFinite DEF Core, JobsKnown
    <3> QED
      BY <2>6, <2>7, <2>9, <3>1, <3>2, <3>3
         DEF Core, TypeOK, JobsKnown, claim_image, storage
  <2> QED
    BY <2>10, <2>11, <2>12, OthersKnown DEF Core
<1>3. CASE ~ImageFree
  <2>1. Go(w, "succeeded") /\ job' = job
    BY <1>3 DEF claim_image
  <2>2. /\ run' \in [Worker -> Run] /\ run'[w].pc = "succeeded"
        /\ run'[w].request = run[w].request /\ run'[w].step = 0
    BY <1>1, <2>1, Moved DEF Core, Phase
  <2>3. RunKnownAt(w)'
    BY <1>1, <2>1, <2>2 DEF RunKnownAt, Unclaimed, Claiming, Counting
  <2> QED
    BY <2>1, <2>2, <2>3, RunStep
       DEF claim_image, requests, storage, history
<1> QED
  BY <1>2, <1>3

(* A step that writes objects or snapshots, or closes the row of its run.  *)
LEMMA StorageStep ==
  ASSUME OneWorker, Core, NEW w \in Worker, run' \in [Worker -> Run],
         RunKnownAt(w)', RowsStay,
         \A q \in Request : (job'[q].copied = TRUE) <=>
                                job'[q].status = "SUCCESS",
         objects' \subseteq Object,
         \A o \in objects' \ objects : job[o.run].status # "NONE",
         snapshots' \subseteq Request,
         \A r \in snapshots' \ snapshots : job[r].status # "NONE",
         UNCHANGED <<requests, aged>>,
         excused' \subseteq Request, faults' \in 0 .. MaxFaults
  PROVE  Core'
<1>1. TypeOK'
  BY DEF Core, TypeOK, RowsStay, requests
<1>2. Claimed' = Claimed
  BY RowsStayKnown
<1>3. JobsKnown'
  <2>1. \A o \in objects' : o.run \in Request
    BY DEF Object
  <2>2. \A o \in objects' : job'[o.run].status # "NONE"
    BY <2>1 DEF Core, JobsKnown, RowsStay
  <2>3. \A r \in snapshots' : job'[r].status # "NONE"
    BY DEF Core, JobsKnown, RowsStay
  <2>4. \A r \in Request : job'[r].status # "NONE" =>
                             job'[r].turn <= Cardinality(Claimed)
    BY DEF Core, JobsKnown, RowsStay
  <2> QED
    BY <1>2, <2>2, <2>3, <2>4 DEF JobsKnown
<1> QED
  BY <1>1, <1>3, OthersKnown DEF Core

LEMMA RowsUnchanged ==
  ASSUME Core, job' = job
  PROVE  /\ RowsStay
         /\ \A q \in Request : (job'[q].copied = TRUE) <=>
                                job'[q].status = "SUCCESS"
BY DEF Core, TypeOK, JobsKnown, RowsStay

LEMMA Excused ==
  ASSUME Core, NEW S \in SUBSET (Request \cup {NoRequest}), Excuse(S)
  PROVE  /\ excused' \subseteq Request /\ faults' \in 0 .. MaxFaults
         /\ excused' = excused \cup (S \ {NoRequest})
<1>1. /\ MaxFaults \in Nat
      /\ faults \in 0 .. MaxFaults /\ faults < MaxFaults
      /\ faults' = faults + 1
  BY BackupAssumption DEF BackupAssumption, Core, TypeOK, Excuse
<1>2. faults' \in 0 .. MaxFaults
  BY <1>1
<1> QED
  BY <1>2 DEF Core, TypeOK, Excuse

LEMMA MaybeExcused ==
  ASSUME Core, NEW S \in SUBSET (Request \cup {NoRequest}),
         UNCHANGED history \/ Excuse(S)
  PROVE  /\ excused' \subseteq Request /\ faults' \in 0 .. MaxFaults
         /\ excused \subseteq excused'
BY Excused DEF Core, TypeOK, history, Excuse

LEMMA Removed ==
  ASSUME Core, NEW S \in SUBSET (Request \cup {NoRequest}), Remove(S)
  PROVE  /\ snapshots' \subseteq snapshots /\ snapshots \ S \subseteq snapshots'
         /\ excused' \subseteq Request /\ faults' \in 0 .. MaxFaults
         /\ excused \subseteq excused' /\ snapshots' \cap S \subseteq excused'
<1>1. PICK kept \in SUBSET (S \cap snapshots) :
        /\ snapshots' = (snapshots \ S) \cup kept
        /\ IF kept = {} THEN UNCHANGED history ELSE Excuse(kept)
  BY DEF Remove
<1>2. kept \in SUBSET (Request \cup {NoRequest}) /\ NoRequest \notin snapshots
  BY <1>1, Constants DEF Core, TypeOK, NoRequest
<1>3. CASE kept = {}
  BY <1>1, <1>3 DEF history, Core, TypeOK
<1>4. CASE kept # {}
  BY <1>1, <1>2, <1>4, Excused
<1> QED
  BY <1>3, <1>4

LEMMA Stamp ==
  ASSUME Core, NEW r \in Request, NEW s \in Slot
  PROVE  [slot |-> s, run |-> r, at |-> NextStamp(s)] \in Object
<1>1. CASE Newest(s) = {}
  BY <1>1 DEF NextStamp, Object
<1>2. CASE Newest(s) # {}
  <2>1. PICK o \in Newest(s) : o = CHOOSE p \in Newest(s) : TRUE
    BY <1>2
  <2>2. o.at \in Nat
    BY <2>1 DEF Core, TypeOK, Object, Newest
  <2>3. NextStamp(s) = o.at + 1
    BY <1>2, <2>1 DEF NextStamp
  <2> QED
    BY <2>2, <2>3 DEF Object
<1> QED
  BY <1>1, <1>2

LEMMA Core_snap_create ==
  ASSUME OneWorker, Core, NEW w \in Worker, snap_create(w)
  PROVE  Core'
<1> DEFINE r == run[w].request
<1>1. /\ r \in Request /\ job[r].status = "RUNNING" /\ run[w].step = 0
  BY DEF Core, RunKnown, RunKnownAt, Claiming, Counting, snap_create, At
<1>2. /\ snapshots' = snapshots \cup {r} /\ objects' = objects
      /\ UNCHANGED <<requests, aged>>
  BY DEF snap_create, Current
<1>3. CASE Go(w, "export") /\ UNCHANGED <<job, history>>
  <2>1. /\ run' \in [Worker -> Run] /\ run'[w].pc = "export"
        /\ run'[w].request = r /\ run'[w].step = 0
    BY <1>1, <1>3, Moved DEF Core, Phase
  <2>2. RunKnownAt(w)'
    BY <1>1, <1>3, <2>1 DEF RunKnownAt, Unclaimed, Claiming, Counting
  <2>3. excused' \subseteq Request /\ faults' \in 0 .. MaxFaults
    BY <1>3 DEF Core, TypeOK, history
  <2> QED
    BY <1>1, <1>2, <1>3, <2>1, <2>2, <2>3, RowsUnchanged, StorageStep
       DEF Core, TypeOK
<1>4. CASE Go(w, "failed") /\ FailIfRunning(r) /\ Excuse({r})
  <2>1. /\ run' \in [Worker -> Run] /\ run'[w].pc = "failed"
        /\ run'[w].request = r /\ run'[w].step = 0
    BY <1>1, <1>4, Moved DEF Core, Phase
  <2>2. /\ RowsStay /\ job'[r].status = "FAILED"
        /\ \A q \in Request : job'[q].copied = job[q].copied
        /\ \A q \in Request \ {r} : job'[q] = job[q]
    BY <1>1, <1>4, FailedIfRunning
  <2>3. \A q \in Request : (job'[q].copied = TRUE) <=> job'[q].status = "SUCCESS"
    BY <1>1, <2>2 DEF Core, JobsKnown
  <2>4. RunKnownAt(w)'
    BY <1>1, <2>1, <2>2 DEF RunKnownAt, Unclaimed, Claiming, Counting
  <2>5. excused' \subseteq Request /\ faults' \in 0 .. MaxFaults
    BY <1>1, <1>4, Excused
  <2> QED
    BY <1>1, <1>2, <2>1, <2>2, <2>3, <2>4, <2>5, StorageStep
       DEF Core, TypeOK
<1> QED
  BY <1>3, <1>4 DEF snap_create, Current

LEMMA Core_upload ==
  ASSUME OneWorker, Core, NEW w \in Worker, upload(w)
  PROVE  Core'
<1> DEFINE r == run[w].request
<1>1. /\ r \in Request /\ job[r].status = "RUNNING" /\ run[w].step + 1 \in Slot
  <2>1. run[w].step \in Nat
    BY AnyStep DEF Core, TypeOK, Run
  <2> QED
    BY <2>1, Constants DEF Core, RunKnown, RunKnownAt, Claiming, upload, At, Slot
<1>2. /\ objects' = objects \cup {[slot |-> run[w].step + 1, run |-> r,
                                  at |-> NextStamp(run[w].step + 1)]}
      /\ UNCHANGED <<requests, aged, job, snapshots, history>>
  BY DEF upload, Put, Current
<1>3. RunKnownAt(w)'
  BY <1>1, <1>2, UploadMoves DEF RunKnownAt, Unclaimed, Claiming, Counting
<1>4. objects' \subseteq Object
  BY <1>1, <1>2, Stamp DEF Core, TypeOK
<1>5. \A o \in objects' \ objects : job[o.run].status # "NONE"
  BY <1>1, <1>2
<1> QED
  BY <1>2, <1>3, <1>4, <1>5, UploadMoves, RowsUnchanged, StorageStep
     DEF Core, TypeOK, history

LEMMA Core_upload_raises ==
  ASSUME OneWorker, Core, NEW w \in Worker, upload_raises(w)
  PROVE  Core'
<1> DEFINE r == run[w].request
<1>1. /\ r \in Request /\ job[r].status = "RUNNING" /\ run[w].step + 1 \in Slot
      /\ run[w].step <= Slots
  <2>1. run[w].step \in Nat
    BY AnyStep DEF Core, TypeOK, Run
  <2> QED
    BY <2>1, Constants
       DEF Core, RunKnown, RunKnownAt, Claiming, upload_raises, At, Slot
<1>2. /\ objects' = objects \cup {[slot |-> run[w].step + 1, run |-> r,
                                  at |-> NextStamp(run[w].step + 1)]}
      /\ UNCHANGED <<requests, aged, job, snapshots>>
      /\ Go(w, "clean") /\ Excuse({r})
  BY DEF upload_raises, Put, Current
<1>3. /\ run' \in [Worker -> Run] /\ run'[w].pc = "clean"
      /\ run'[w].request = r /\ run'[w].step = run[w].step
  BY <1>1, <1>2, Moved DEF Core, Phase
<1>4. RunKnownAt(w)'
  BY <1>1, <1>2, <1>3 DEF RunKnownAt, Unclaimed, Claiming, Counting
<1>5. objects' \subseteq Object
  BY <1>1, <1>2, Stamp DEF Core, TypeOK
<1>6. \A o \in objects' \ objects : job[o.run].status # "NONE"
  BY <1>1, <1>2
<1>7. excused' \subseteq Request /\ faults' \in 0 .. MaxFaults
  BY <1>1, <1>2, Excused
<1> QED
  BY <1>2, <1>3, <1>4, <1>5, <1>6, <1>7, RowsUnchanged, StorageStep
     DEF Core, TypeOK

LEMMA Core_clean ==
  ASSUME OneWorker, Core, NEW w \in Worker, clean(w)
  PROVE  Core'
<1>1. /\ run[w].request \in Request /\ job[run[w].request].status = "RUNNING"
  BY DEF Core, RunKnown, RunKnownAt, Claiming, clean, At
<1>2. /\ run' \in [Worker -> Run] /\ run'[w].pc = "mark"
      /\ run'[w].request = run[w].request /\ run'[w].step = 0
  BY StepReset DEF clean, Phase
<1>3. /\ objects' \subseteq objects /\ UNCHANGED <<requests, job, aged, snapshots>>
      /\ UNCHANGED history \/ Excuse({run[w].request})
  BY DEF clean, Current
<1>4. excused' \subseteq Request /\ faults' \in 0 .. MaxFaults
  BY <1>1, <1>3, MaybeExcused
<1>5. RunKnownAt(w)'
  BY <1>1, <1>2, <1>3 DEF RunKnownAt, Unclaimed, Claiming, Counting
<1> QED
  BY <1>2, <1>3, <1>4, <1>5, RowsUnchanged, StorageStep DEF Core, TypeOK

LEMMA Core_drop_snapshot ==
  ASSUME OneWorker, Core, NEW w \in Worker, drop_snapshot(w)
  PROVE  Core'
<1>1. run[w].request \in Request /\ run[w].step = 0
  BY DEF Core, RunKnown, RunKnownAt, Counting, drop_snapshot, At
<1>2. /\ Remove({run[w].request}) /\ Go(w, "failed")
      /\ UNCHANGED <<requests, job, aged, objects>>
  BY DEF drop_snapshot, Current
<1>3. /\ run' \in [Worker -> Run] /\ run'[w].pc = "failed"
      /\ run'[w].request = run[w].request /\ run'[w].step = 0
  BY <1>1, <1>2, Moved DEF Core, Phase
<1>4. RunKnownAt(w)'
  BY <1>1, <1>2, <1>3 DEF RunKnownAt, Unclaimed, Claiming, Counting
<1>5. /\ snapshots' \subseteq snapshots
      /\ excused' \subseteq Request /\ faults' \in 0 .. MaxFaults
  BY <1>1, <1>2, Removed
<1> QED
  BY <1>2, <1>3, <1>4, <1>5, RowsUnchanged, StorageStep DEF Core, TypeOK

LEMMA ObsoleteTyped ==
  ASSUME Core, NEW w \in Worker, run[w].request \in Request
  PROVE  Obsolete(w) \in SUBSET (Request \cup {NoRequest})
BY DEF Core, TypeOK, Run, Obsolete, Current

LEMMA Core_tidy ==
  ASSUME OneWorker, Core, NEW w \in Worker, tidy(w)
  PROVE  Core'
<1>1. run[w].request \in Request /\ run[w].step = 0
  BY DEF Core, RunKnown, RunKnownAt, Counting, tidy, At
<1>2. /\ Remove(Obsolete(w)) /\ Go(w, "protect")
      /\ UNCHANGED <<requests, job, aged, objects>>
  BY DEF tidy
<1>3. /\ run' \in [Worker -> Run] /\ run'[w].pc = "protect"
      /\ run'[w].request = run[w].request /\ run'[w].step = 0
  BY <1>1, <1>2, Moved DEF Core, Phase
<1>4. RunKnownAt(w)'
  BY <1>1, <1>2, <1>3 DEF RunKnownAt, Unclaimed, Claiming, Counting
<1>5. /\ snapshots' \subseteq snapshots
      /\ excused' \subseteq Request /\ faults' \in 0 .. MaxFaults
  BY <1>1, <1>2, ObsoleteTyped, Removed
<1> QED
  BY <1>2, <1>3, <1>4, <1>5, RowsUnchanged, StorageStep DEF Core, TypeOK

LEMMA Core_apply_retention ==
  ASSUME OneWorker, Core, NEW w \in Worker, apply_retention(w)
  PROVE  Core'
<1>1. run[w].request \in Request
  BY DEF Core, RunKnown, RunKnownAt, apply_retention, At
<1>2. /\ objects' \subseteq objects
      /\ UNCHANGED <<requests, job, aged, snapshots, history>>
  BY DEF apply_retention
<1>3. RunKnownAt(w)'
  BY <1>1, <1>2, SweepMoves DEF RunKnownAt, Unclaimed, Claiming, Counting
<1> QED
  BY <1>2, <1>3, SweepMoves, RowsUnchanged, StorageStep
     DEF Core, TypeOK, history

(* The requests and the decisions about them.                              *)
LEMMA RequestsTyped ==
  ASSUME Core, NEW r \in Request,
         \/ schedule(r) \/ run_now(r) \/ approve(r) \/ reject(r)
         \/ Cancel(r)
  PROVE  Core'
<1>1. /\ action' \in [Request -> ActionStatus]
      /\ incident' \in [Request -> IncidentStatus]
      /\ class' = class /\ policy' = policy /\ cancelled' \subseteq Request
      /\ UNCHANGED <<run, job, aged, objects, snapshots, excused, faults>>
  BY DEF Core, TypeOK, schedule, run_now, approve, reject, Cancel, Create,
         Write, ActionStatus, IncidentStatus, storage, history
<1> QED
  BY <1>1 DEF Core, TypeOK, RunKnown, RunKnownAt, JobsKnown, Claimed

(* A step that writes requests and no row, object or snapshot.             *)
LEMMA PollStep ==
  ASSUME OneWorker, Core, NEW w \in Worker, run' \in [Worker -> Run],
         RunKnownAt(w)', policy' \in Classification,
         action' \in [Request -> ActionStatus],
         incident' \in [Request -> IncidentStatus],
         class' \in [Request -> Classification], cancelled' \subseteq Request,
         UNCHANGED <<job, aged, objects, snapshots>>,
         excused' \subseteq Request, faults' \in 0 .. MaxFaults
  PROVE  Core'
<1>1. TypeOK' /\ JobsKnown'
  BY DEF Core, TypeOK, JobsKnown, Claimed
<1> QED
  BY <1>1, OthersKnown DEF Core

LEMMA Core_withdraw ==
  ASSUME OneWorker, Core, NEW w \in Worker, NEW r \in Request, withdraw(w, r)
  PROVE  Core'
<1>1. /\ action' \in [Request -> ActionStatus]
      /\ incident' \in [Request -> IncidentStatus]
      /\ class' \in [Request -> Classification]
      /\ UNCHANGED <<policy, cancelled, run, job, aged, objects, snapshots,
                     excused, faults>>
  BY DEF Core, TypeOK, withdraw, Write, ActionStatus, IncidentStatus, storage,
         history
<1>2. RunKnownAt(w)'
  BY <1>1 DEF Core, RunKnown, RunKnownAt
<1> QED
  BY <1>1, <1>2, PollStep DEF Core, TypeOK

LEMMA Core_load ==
  ASSUME OneWorker, Core, NEW w \in Worker, NEW r \in Request, load(w, r)
  PROVE  Core'
<1> DEFINE x == [NoRun EXCEPT !.request = r, !.pc = "loaded"]
<1>1. /\ x \in Run /\ x.pc = "loaded" /\ x.request = r /\ x.step = 0
  BY IdleRun DEF NoRun
<1>2. run' = [run EXCEPT ![w] = x]
  BY DEF load
<1>3. run' \in [Worker -> Run] /\ run'[w] = x
  BY <1>1, <1>2 DEF Core, TypeOK
<1>4. job' = job /\ job[r].status = "NONE"
  BY DEF load
<1>5. RunKnownAt(w)'
  BY <1>1, <1>3, <1>4 DEF RunKnownAt, Unclaimed, Claiming, Counting
<1> QED
  BY <1>3, <1>5, RunStep DEF load, requests, storage, history

LEMMA Stopped ==
  ASSUME Core, NEW w \in Worker, run' = [run EXCEPT ![w] = NoRun]
  PROVE  run' \in [Worker -> Run] /\ RunKnownAt(w)' /\ run'[w] = NoRun
<1>1. NoRun \in Run /\ NoRun.pc = "idle" /\ NoRun.step = 0
  BY IdleRun DEF NoRun
<1>2. run' \in [Worker -> Run] /\ run'[w] = NoRun
  BY <1>1 DEF Core, TypeOK
<1> QED
  BY <1>1, <1>2 DEF RunKnownAt, Unclaimed, Claiming, Counting

LEMMA Core_claim ==
  ASSUME OneWorker, Core, NEW w \in Worker, claim(w)
  PROVE  Core'
<1>1. /\ run[w].request \in Request /\ run[w].step = 0
      /\ job[run[w].request].status = "NONE" /\ job' = job
  BY DEF Core, RunKnown, RunKnownAt, Unclaimed, Counting, claim, At
<1>2. PICK pc \in {"protect", "look"} : Go(w, pc)
  BY DEF claim
<1>3. /\ run' \in [Worker -> Run] /\ run'[w].pc \in {"protect", "look"}
      /\ run'[w].request = run[w].request /\ run'[w].step = 0
  BY <1>1, <1>2, Moved DEF Core, Phase
<1>4. RunKnownAt(w)'
  BY <1>1, <1>3 DEF RunKnownAt, Unclaimed, Claiming, Counting
<1>5. /\ incident' \in [Request -> IncidentStatus]
      /\ UNCHANGED <<policy, action, class, cancelled, job, aged, objects,
                     snapshots, excused, faults>>
  BY DEF Core, TypeOK, claim, IncidentStatus, storage, history
<1> QED
  BY <1>3, <1>4, <1>5, PollStep DEF Core, TypeOK

LEMMA Core_claim_taken ==
  ASSUME OneWorker, Core, NEW w \in Worker, claim_taken(w)
  PROVE  Core'
BY Stopped, RunStep DEF claim_taken, requests, storage, history

LEMMA Core_record ==
  ASSUME OneWorker, Core, NEW w \in Worker, record(w)
  PROVE  Core'
<1>1. /\ action' \in [Request -> ActionStatus]
      /\ incident' \in [Request -> IncidentStatus]
  BY DEF Core, TypeOK, record, Write, ActionStatus, IncidentStatus
<1>2. run' \in [Worker -> Run] /\ RunKnownAt(w)'
  BY Stopped DEF record
<1> QED
  BY <1>1, <1>2, PollStep DEF Core, TypeOK, record, storage, history

LEMMA Core_restart ==
  ASSUME OneWorker, Core, NEW w \in Worker, restart(w)
  PROVE  Core'
<1>1. /\ action' \in [Request -> ActionStatus]
      /\ incident' \in [Request -> IncidentStatus]
  BY DEF Core, TypeOK, restart, ActionStatus, IncidentStatus
<1>2. run' \in [Worker -> Run] /\ RunKnownAt(w)'
  BY Stopped DEF restart
<1>3. {Current(w)} \cup {run[w].previous[s] : s \in Slot}
        \in SUBSET (Request \cup {NoRequest})
  BY DEF Core, TypeOK, Run, Current
<1>4. excused' \subseteq Request /\ faults' \in 0 .. MaxFaults
  BY <1>3, Excused DEF restart
<1> QED
  BY <1>1, <1>2, <1>4, PollStep DEF Core, TypeOK, restart, storage

LEMMA Core_hour_passes ==
  ASSUME Core, hour_passes
  PROVE  Core'
BY DEF Core, TypeOK, RunKnown, RunKnownAt, JobsKnown, Claimed, hour_passes,
       requests, storage, history

LEMMA CoreHolds ==
  ASSUME OneWorker
  PROVE  Spec => []Core
<1>1. Init => Core
  <2> SUFFICES ASSUME Init PROVE Core
    OBVIOUS
  <2>1. NoRows \in Rows /\ NoRows.status = "NONE" /\ NoRows.copied = FALSE
    BY Constants DEF NoRows, Rows, JobStatus, JobType, NoRequest
  <2>2. NoRun \in Run /\ NoRun.pc = "idle" /\ NoRun.step = 0
    BY IdleRun DEF NoRun
  <2>3. 0 \in 0 .. MaxFaults
    BY BackupAssumption DEF BackupAssumption
  <2>4. TypeOK
    BY <2>1, <2>2, <2>3
       DEF Init, TypeOK, ActionStatus, IncidentStatus, Classification
  <2>5. RunKnown
    BY <2>2 DEF Init, RunKnown, RunKnownAt, Unclaimed, Claiming, Counting
  <2>6. JobsKnown
    BY <2>1 DEF Init, JobsKnown
  <2> QED
    BY <2>4, <2>5, <2>6 DEF Core
<1>2. Core /\ [Next]_vars => Core'
  <2> SUFFICES ASSUME Core, [Next]_vars PROVE Core'
    OBVIOUS
  <2>1. CASE RequestStep
    <3>1. PICK r \in Request : \/ schedule(r) \/ run_now(r)
                              \/ approve(r) \/ reject(r) \/ Cancel(r)
      BY <2>1 DEF RequestStep, cancel_backup_action, cancel_backup_job
    <3> QED
      BY <3>1, RequestsTyped
  <2>2. ASSUME NEW w \in Worker, Poll(w) PROVE Core'
    BY <2>2, Core_withdraw, Core_load, Core_claim, Core_claim_taken,
       Core_record DEF Poll
  <2>3. ASSUME NEW w \in Worker, Backup(w) PROVE Core'
    BY <2>3, Core_look, Core_supersede, Core_plan, Core_claim_image,
       Core_check_cancel, Core_refuse, Core_snap_create, Core_export,
       Core_upload, Core_upload_raises, Core_give_up, Core_commit, Core_clean,
       Core_mark_failed, Core_drop_snapshot, Core_tidy DEF Backup
  <2>4. ASSUME NEW w \in Worker, Retention(w) PROVE Core'
    BY <2>4, Core_protect, Core_apply_retention DEF Retention
  <2>5. CASE UNCHANGED vars
    BY <2>5 DEF Core, TypeOK, RunKnown, RunKnownAt, JobsKnown, Claimed, vars
  <2> QED
    BY <2>1, <2>2, <2>3, <2>4, <2>5, Core_restart, Core_hour_passes DEF Next
<1> QED
  BY <1>1, <1>2, PTL DEF Spec

(* The rows, the runs and what they left are of their types, at any number *)
(* of requests and targets, where one Worker polls.                        *)
THEOREM TypeCorrect ==
  ASSUME OneWorker
  PROVE  Spec => []TypeOK
<1>1. Core => TypeOK
  BY DEF Core
<1> QED
  BY <1>1, CoreHolds, PTL

-----------------------------------------------------------------------------
(* The snapshot of the latest full export.                                 *)

Fulls == {r \in Request : job[r].type = "full" /\ job[r].status = "SUCCESS"}
LatestFull == LatestOf(Fulls)

LEMMA CopiesOfRun ==
  ASSUME Core, NEW r \in Request
  PROVE  /\ job[r].status = "SUCCESS" => Copies(r) = Slot
         /\ job[r].status # "SUCCESS" => Copies(r) = {}
BY Constants DEF Core, TypeOK, Rows, JobsKnown, Copies

LEMMA PreviousIsLatest ==
  ASSUME Core, NEW s \in Slot
  PROVE  PreviousFulls[s] = LatestFull
<1>1. FullsOn(s) = Fulls
  BY CopiesOfRun DEF FullsOn, Fulls
<1> QED
  BY <1>1 DEF PreviousFulls, LatestFull

LEMMA LatestFullKnown ==
  \/ LatestFull = NoRequest
  \/ /\ LatestFull \in Request /\ job[LatestFull].type = "full"
     /\ job[LatestFull].status = "SUCCESS"
BY LatestKnown DEF LatestFull, Fulls

(* A step that commits nothing leaves the latest full what it was.         *)
LEMMA FullsSame ==
  ASSUME \A q \in Request :
           /\ (job'[q].status = "SUCCESS") <=> (job[q].status = "SUCCESS")
           /\ job[q].status = "SUCCESS" => /\ job'[q].type = job[q].type
                                           /\ job'[q].turn = job[q].turn
  PROVE  LatestFull' = LatestFull
<1>1. Fulls' = Fulls
  BY DEF Fulls
<1>2. {r \in Fulls : \A q \in Fulls : job'[q].turn <= job'[r].turn}
        = {r \in Fulls : \A q \in Fulls : job[q].turn <= job[r].turn}
  BY DEF Fulls
<1> QED
  BY <1>1, <1>2 DEF LatestFull, LatestOf

(* The latest full is the one claimed last.                                *)
LEMMA LastFullIsLatest ==
  ASSUME Core, NEW r \in Request, job[r].type = "full",
         job[r].status = "SUCCESS",
         \A q \in Claimed \ {r} : job[q].turn < job[r].turn
  PROVE  LatestFull = r
<1>1. Fulls \subseteq Claimed /\ r \in Fulls
  BY DEF Fulls, Claimed
<1>2. \A q \in Request : job[q].turn \in Nat
  BY DEF Core, TypeOK, Rows
<1>3. {p \in Fulls : \A q \in Fulls : job[q].turn <= job[p].turn} = {r}
  BY <1>1, <1>2 DEF Fulls
<1> QED
  BY <1>3 DEF LatestFull, LatestOf, AnyOf

Planned == {"claim", "check", "prepare", "export", "upload", "commit"}
Last == {"check", "prepare", "export", "upload", "commit", "tidy"}

BaseAt(w) ==
    /\ run[w].pc \in Planned =>
         \A s \in Slot : run[w].previous[s] = LatestFull
    /\ run[w].pc = "tidy" =>
         \A s \in Slot : run[w].previous[s] # run[w].request
    /\ run[w].pc \in Last => \A q \in Claimed \ {run[w].request} :
                              job[q].turn < job[run[w].request].turn
    /\ run[w].pc \in {"export", "upload", "commit"} =>
         run[w].request \in snapshots

BaseKnown == /\ \A w \in Worker : BaseAt(w)
             /\ LatestFull # NoRequest => LatestFull \in snapshots

LEMMA OthersBase ==
  ASSUME OneWorker, NEW w \in Worker, BaseAt(w)',
         LatestFull' # NoRequest => LatestFull' \in snapshots'
  PROVE  BaseKnown'
BY DEF OneWorker, BaseKnown

(* The Worker is not, or no longer, between its claim and its tidying up.  *)
LEMMA BaseQuiet ==
  ASSUME OneWorker, BaseKnown, NEW w \in Worker, LatestFull' = LatestFull,
         snapshots \subseteq snapshots', run'[w].pc \notin Planned \cup Last
  PROVE  BaseKnown'
<1>1. BaseAt(w)'
  BY DEF BaseAt, Planned, Last
<1> QED
  BY <1>1, OthersBase DEF BaseKnown

(* The Worker goes on, from its claim to its commit.                       *)
LEMMA BaseAdvances ==
  ASSUME OneWorker, Core, BaseKnown, NEW w \in Worker, job' = job,
         snapshots \subseteq snapshots',
         run'[w].request = run[w].request, run'[w].previous = run[w].previous,
         run[w].pc \in Planned \cap Last, run'[w].pc \in Planned \cap Last,
         run'[w].pc \in {"export", "upload", "commit"} =>
           run[w].request \in snapshots'
  PROVE  BaseKnown'
<1>1. LatestFull' = LatestFull /\ Claimed' = Claimed
  BY FullsSame DEF Claimed
<1>2. BaseAt(w)'
  BY <1>1 DEF BaseKnown, BaseAt, Planned, Last
<1> QED
  BY <1>1, <1>2, OthersBase DEF BaseKnown

LEMMA LatestUnmoved ==
  ASSUME Core, job' = job
  PROVE  LatestFull' = LatestFull
BY FullsSame

LEMMA LatestAfterFailure ==
  ASSUME Core, NEW r \in Request, FailIfRunning(r)
  PROVE  LatestFull' = LatestFull
<1>1. \A q \in Request :
        /\ (job'[q].status = "SUCCESS") <=> (job[q].status = "SUCCESS")
        /\ job'[q].type = job[q].type /\ job'[q].turn = job[q].turn
  BY FailedIfRunning DEF RowsStay
<1> QED
  BY <1>1, FullsSame

LEMMA BasePoll ==
  ASSUME OneWorker, Core, BaseKnown, NEW w \in Worker, Poll(w)
  PROVE  BaseKnown'
<1>1. LatestFull' = LatestFull /\ job' = job /\ snapshots' = snapshots
  BY LatestUnmoved DEF Poll, withdraw, load, claim, claim_taken, record, storage
<1>2. CASE \E r \in Request : withdraw(w, r)
  BY <1>1, <1>2, OthersBase DEF withdraw, BaseKnown, BaseAt, Claimed
<1>3. ASSUME NEW r \in Request, load(w, r) PROVE BaseKnown'
  <2>1. run'[w].pc = "loaded"
    BY <1>3 DEF Core, TypeOK, load, NoRun
  <2> QED
    BY <1>1, <2>1, BaseQuiet DEF Planned, Last
<1>4. CASE claim(w)
  <2>1. PICK pc \in {"protect", "look"} : Go(w, pc)
    BY <1>4 DEF claim
  <2>2. run'[w].pc \in {"protect", "look"}
    BY <2>1, Moved DEF Core, Phase
  <2> QED
    BY <1>1, <2>2, BaseQuiet DEF Planned, Last
<1>5. CASE claim_taken(w) \/ record(w)
  <2>1. run'[w].pc = "idle"
    BY <1>5, Stopped DEF claim_taken, record, NoRun
  <2> QED
    BY <1>1, <2>1, BaseQuiet DEF Planned, Last
<1> QED
  BY <1>2, <1>3, <1>4, <1>5 DEF Poll

LEMMA BaseLook ==
  ASSUME OneWorker, Core, BaseKnown, NEW w \in Worker,
         look(w) \/ supersede(w) \/ protect(w) \/ apply_retention(w)
  PROVE  BaseKnown'
<1>1. CASE supersede(w)
  <2>1. /\ run[w].seen \in Request /\ job[run[w].seen].status = "RUNNING"
        /\ Status(run[w].seen, "FAILED") /\ snapshots' = snapshots
    BY <1>1 DEF Core, RunKnown, RunKnownAt, supersede, At, storage
  <2>2. LatestFull' = LatestFull
    BY <2>1, LatestAfterFailure DEF FailIfRunning
  <2> QED
    BY <1>1, <2>1, <2>2, SupersedeMoves, BaseQuiet DEF Planned, Last
<1>2. CASE look(w) \/ protect(w) \/ apply_retention(w)
  <2>1. job' = job /\ snapshots' = snapshots
    BY <1>2 DEF look, protect, apply_retention, storage
  <2>2. run'[w].pc \notin Planned \cup Last
    BY <1>2, LookMoves, ProtectMoves, SweepMoves DEF Planned, Last
  <2> QED
    BY <2>1, <2>2, LatestUnmoved, BaseQuiet
<1> QED
  BY <1>1, <1>2

LEMMA BasePlan ==
  ASSUME OneWorker, Core, BaseKnown, NEW w \in Worker, plan(w)
  PROVE  BaseKnown'
<1>1. job' = job /\ snapshots' = snapshots /\ LatestFull' = LatestFull
  BY LatestUnmoved DEF plan, storage
<1>2. \A s \in Slot : run'[w].previous[s] = LatestFull
  BY PlanMoves, PreviousIsLatest
<1>3. BaseAt(w)'
  BY <1>1, <1>2, PlanMoves DEF BaseAt, Planned, Last
<1> QED
  BY <1>1, <1>3, OthersBase DEF BaseKnown

LEMMA BaseClaim ==
  ASSUME OneWorker, Core, BaseKnown, NEW w \in Worker, claim_image(w)
  PROVE  BaseKnown'
<1> DEFINE r == run[w].request
<1>1. /\ r \in Request /\ job[r].status = "NONE" /\ snapshots' = snapshots
      /\ \A s \in Slot : run[w].previous[s] = LatestFull
  BY DEF Core, BaseKnown, BaseAt, Planned, RunKnown, RunKnownAt, Unclaimed,
         claim_image, At, storage
<1>2. CASE ImageFree
  <2>1. PICK type \in JobType :
          job' = [job EXCEPT ![r] = Row(type, run[w].previous)]
    BY <1>2 DEF claim_image, Types, JobType, Current
  <2>2. Go(w, "check")
    BY <1>2 DEF claim_image
  <2>3. /\ run'[w].pc = "check" /\ run'[w].request = r
        /\ run'[w].previous = run[w].previous
    BY <2>2, Moved DEF Core, Phase
  <2>4. /\ job'[r] = Row(type, run[w].previous)
        /\ \A q \in Request \ {r} : job'[q] = job[q]
    BY <1>1, <2>1 DEF Core, TypeOK
  <2>5. /\ job'[r].status = "RUNNING"
        /\ job'[r].turn = Cardinality(Claimed) + 1
    BY <2>4 DEF Row
  <2>6. LatestFull' = LatestFull
    BY <1>1, <2>4, <2>5, FullsSame
  <2>7. \A q \in Claimed' \ {r} : job'[q].turn < job'[r].turn
    <3> SUFFICES ASSUME NEW q \in Claimed' \ {r}
                 PROVE  job[q].turn < Cardinality(Claimed) + 1
      BY <2>4, <2>5 DEF Claimed
    <3>1. q \in Request /\ job[q].status # "NONE"
      BY <2>4 DEF Claimed
    <3>2. job[q].turn \in Nat
      BY <3>1 DEF Core, TypeOK, Rows
    <3> QED
      BY <3>1, <3>2, ClaimedFinite DEF Core, JobsKnown
  <2>8. BaseAt(w)'
    BY <1>1, <2>3, <2>6, <2>7 DEF BaseAt
  <2> QED
    BY <1>1, <2>6, <2>8, OthersBase DEF BaseKnown
<1>3. CASE ~ImageFree
  <2>1. Go(w, "succeeded") /\ job' = job
    BY <1>3 DEF claim_image
  <2>2. run'[w].pc = "succeeded"
    BY <2>1, Moved DEF Core, Phase
  <2> QED
    BY <1>1, <2>1, <2>2, LatestUnmoved, BaseQuiet DEF Planned, Last
<1> QED
  BY <1>2, <1>3

LEMMA BaseExport ==
  ASSUME OneWorker, Core, BaseKnown, NEW w \in Worker,
         check_cancel(w) \/ export(w) \/ upload(w)
  PROVE  BaseKnown'
<1>1. job' = job /\ snapshots' = snapshots
  BY DEF check_cancel, export, upload, storage
<1>2. CASE check_cancel(w)
  <2>1. Go(w, "prepare") /\ run[w].pc = "check"
    BY <1>2 DEF check_cancel, At
  <2> QED
    BY <1>1, <2>1, Moved, BaseAdvances DEF Core, Phase, Planned, Last
<1>3. CASE export(w)
  <2>1. Go(w, "upload") /\ run[w].pc = "export" /\ run[w].request \in snapshots
    BY <1>3 DEF export, At, BaseKnown, BaseAt
  <2> QED
    BY <1>1, <2>1, Moved, BaseAdvances DEF Core, Phase, Planned, Last
<1>4. CASE upload(w)
  <2>1. run[w].pc = "upload" /\ run[w].request \in snapshots
    BY <1>4 DEF upload, At, BaseKnown, BaseAt
  <2>2. run'[w].previous = run[w].previous
    BY <1>4 DEF Core, TypeOK, Run, upload
  <2>3. CASE run'[w].pc = "clean"
    BY <1>1, <2>3, LatestUnmoved, BaseQuiet DEF Planned, Last
  <2>4. CASE run'[w].pc \in {"commit", "upload"}
    BY <1>1, <1>4, <2>1, <2>2, <2>4, UploadMoves, BaseAdvances
       DEF Planned, Last
  <2> QED
    BY <1>4, <2>3, <2>4, UploadMoves
<1> QED
  BY <1>2, <1>3, <1>4

LEMMA BaseSnapshot ==
  ASSUME OneWorker, Core, BaseKnown, NEW w \in Worker, snap_create(w)
  PROVE  BaseKnown'
<1>1. /\ run[w].request \in Request /\ run[w].pc = "prepare"
      /\ snapshots' = snapshots \cup {run[w].request}
  BY DEF Core, RunKnown, RunKnownAt, snap_create, At, Current
<1>2. CASE Go(w, "export") /\ job' = job
  BY <1>1, <1>2, Moved, BaseAdvances DEF Core, Phase, Planned, Last
<1>3. CASE Go(w, "failed") /\ FailIfRunning(run[w].request)
  <2>1. run'[w].pc = "failed"
    BY <1>3, Moved DEF Core, Phase
  <2> QED
    BY <1>1, <1>3, <2>1, LatestAfterFailure, BaseQuiet DEF Planned, Last
<1> QED
  BY <1>2, <1>3 DEF snap_create, Current

LEMMA BaseFailure ==
  ASSUME OneWorker, Core, BaseKnown, NEW w \in Worker,
         \/ refuse(w) \/ upload_raises(w) \/ give_up(w) \/ clean(w)
         \/ mark_failed(w)
  PROVE  BaseKnown'
<1>1. snapshots' = snapshots /\ run[w].request \in Request
  BY DEF Core, RunKnown, RunKnownAt, refuse, upload_raises, give_up, clean,
         mark_failed, At, storage
<1>2. LatestFull' = LatestFull
  BY <1>1, LatestUnmoved, LatestAfterFailure
     DEF refuse, upload_raises, give_up, clean, mark_failed, Current
<1>3. run'[w].pc \in {"failed", "clean", "mark", "drop"}
  BY Moved, StepReset
     DEF Core, Phase, refuse, upload_raises, give_up, clean, mark_failed
<1> QED
  BY <1>1, <1>2, <1>3, BaseQuiet DEF Planned, Last

(* A full export that is committed is the latest full.                     *)
LEMMA LatestAfterCommit ==
  ASSUME OneWorker, Core, BaseKnown, NEW w \in Worker, commit(w)
  PROVE  LatestFull' = IF job[run[w].request].type = "full"
                       THEN run[w].request ELSE LatestFull
<1> DEFINE r == run[w].request
<1>1. /\ r \in Request /\ job[r].status = "RUNNING" /\ run[w].pc = "commit"
      /\ job' = [job EXCEPT ![r].status = "SUCCESS", ![r].copied = TRUE]
      /\ \A q \in Claimed \ {r} : job[q].turn < job[r].turn
  BY DEF Core, RunKnown, RunKnownAt, Claiming, BaseKnown, BaseAt, Last, commit,
         At, Current
<1>2. /\ RowsStay /\ job'[r].status = "SUCCESS"
      /\ \A q \in Request \ {r} : job'[q] = job[q]
  BY <1>1, Committed
<1>3. CASE job[r].type = "full"
  <2>1. \A q \in Claimed' \ {r} : job'[q].turn < job'[r].turn
    BY <1>1, <1>2, RowsStayKnown DEF RowsStay, Claimed
  <2>2. job'[r].type = "full"
    BY <1>1, <1>2, <1>3 DEF RowsStay
  <2>3. Fulls' \subseteq Claimed' /\ r \in Fulls'
    BY <1>1, <1>2, <2>2 DEF Fulls, Claimed
  <2>4. \A q \in Fulls' : /\ job'[q].turn \in Nat
                          /\ q # r => job'[q].turn < job'[r].turn
    BY <1>2, <2>1, <2>3 DEF RowsStay, Rows, Fulls
  <2>5. {p \in Fulls' : \A q \in Fulls' : job'[q].turn <= job'[p].turn} = {r}
    <3>1. ASSUME NEW p \in Fulls' PROVE job'[p].turn <= job'[r].turn
      BY <2>3, <2>4
    <3>2. ASSUME NEW p \in Fulls', p # r
          PROVE  ~(job'[r].turn <= job'[p].turn)
      BY <2>3, <2>4, <3>2
    <3> QED
      BY <2>3, <3>1, <3>2
  <2> QED
    BY <1>3, <2>5 DEF LatestFull, LatestOf, AnyOf
<1>4. CASE job[r].type # "full"
  <2>1. Fulls' = Fulls
    BY <1>1, <1>2, <1>4 DEF Fulls, RowsStay
  <2>2. {p \in Fulls : \A q \in Fulls : job'[q].turn <= job'[p].turn}
          = {p \in Fulls : \A q \in Fulls : job[q].turn <= job[p].turn}
    BY <1>2 DEF Fulls, RowsStay
  <2> QED
    BY <1>4, <2>1, <2>2 DEF LatestFull, LatestOf
<1> QED
  BY <1>3, <1>4

LEMMA BaseCommit ==
  ASSUME OneWorker, Core, BaseKnown, NEW w \in Worker, commit(w)
  PROVE  BaseKnown'
<1> DEFINE r == run[w].request
<1>1. /\ r \in Request /\ job[r].status = "RUNNING" /\ run[w].pc = "commit"
      /\ job' = [job EXCEPT ![r].status = "SUCCESS", ![r].copied = TRUE]
      /\ snapshots' = snapshots /\ r \in snapshots
      /\ \A s \in Slot : run[w].previous[s] = LatestFull
      /\ \A q \in Claimed \ {r} : job[q].turn < job[r].turn
  BY DEF Core, RunKnown, RunKnownAt, Claiming, BaseKnown, BaseAt, Planned,
         Last, commit, At, Current, storage
<1>2. /\ RowsStay /\ job'[r].status = "SUCCESS"
      /\ \A q \in Request \ {r} : job'[q] = job[q]
  BY <1>1, Committed
<1>3. /\ run'[w].pc = "tidy" /\ run'[w].request = r
      /\ run'[w].previous = run[w].previous
  BY StepReset DEF commit, Phase
<1>4. Claimed' = Claimed
  BY <1>2, RowsStayKnown
<1>5. \A q \in Claimed' \ {r} : job'[q].turn < job'[r].turn
  BY <1>1, <1>2, <1>4 DEF RowsStay, Claimed
<1>6. BaseAt(w)'
  <2>1. LatestFull # r
    BY <1>1, LatestFullKnown, Constants DEF NoRequest
  <2> QED
    BY <1>1, <1>3, <1>5, <2>1 DEF BaseAt, Planned
<1>7. LatestFull' = NoRequest \/ LatestFull' \in snapshots'
  BY <1>1, LatestAfterCommit DEF BaseKnown
<1> QED
  BY <1>6, <1>7, OthersBase

(* What a run removes is not the snapshot of the latest full: its own when *)
(* it failed or was incremental, the earlier ones when it was full.        *)
LEMMA BaseRemoval ==
  ASSUME OneWorker, Core, BaseKnown, NEW w \in Worker,
         drop_snapshot(w) \/ tidy(w)
  PROVE  BaseKnown'
<1> DEFINE r == run[w].request
<1>1. /\ r \in Request /\ job' = job
      /\ drop_snapshot(w) => job[r].status = "FAILED" /\ Remove({r})
      /\ tidy(w) => job[r].status = "SUCCESS" /\ Remove(Obsolete(w))
  BY DEF Core, RunKnown, RunKnownAt, drop_snapshot, tidy, At, Current
<1>2. LatestFull' = LatestFull
  BY <1>1, LatestUnmoved
<1>3. run'[w].pc \in {"failed", "protect"}
  BY Moved DEF Core, Phase, drop_snapshot, tidy
<1>4. LatestFull # NoRequest => LatestFull \in snapshots'
  <2> SUFFICES ASSUME LatestFull # NoRequest PROVE LatestFull \in snapshots'
    OBVIOUS
  <2>1. /\ LatestFull \in Request /\ LatestFull \in snapshots
        /\ job[LatestFull].status = "SUCCESS" /\ job[LatestFull].type = "full"
    BY LatestFullKnown DEF BaseKnown
  <2>2. CASE drop_snapshot(w)
    BY <1>1, <2>1, <2>2, Removed
  <2>3. CASE tidy(w)
    <3>1. LatestFull \notin Obsolete(w)
      <4>1. CASE job[r].type = "incremental"
        BY <2>1, <4>1 DEF Obsolete, Current
      <4>2. CASE job[r].type # "incremental"
        <5>1. job[r].type = "full" /\ job[r].status = "SUCCESS"
          BY <1>1, <2>3, <4>2 DEF Core, TypeOK, Rows, JobType
        <5>2. /\ \A q \in Claimed \ {r} : job[q].turn < job[r].turn
              /\ \A s \in Slot : run[w].previous[s] # r
          BY <2>3 DEF BaseKnown, BaseAt, Last, tidy, At
        <5>3. LatestFull = r
          BY <1>1, <5>1, <5>2, LastFullIsLatest
        <5> QED
          BY <4>2, <5>2, <5>3 DEF Obsolete, Current
      <4> QED
        BY <4>1, <4>2
    <3> QED
      BY <1>1, <2>1, <2>3, <3>1, ObsoleteTyped, Removed
  <2> QED
    BY <2>2, <2>3
<1>5. BaseAt(w)'
  BY <1>3 DEF BaseAt, Planned, Last
<1> QED
  BY <1>2, <1>4, <1>5, OthersBase

LEMMA BaseHolds ==
  ASSUME OneWorker
  PROVE  Spec => []BaseKnown
<1>1. Init => BaseKnown
  <2> SUFFICES ASSUME Init PROVE BaseKnown
    OBVIOUS
  <2>1. Fulls = {}
    BY DEF Init, Fulls, NoRows
  <2>2. LatestFull = NoRequest
    BY <2>1 DEF LatestFull, LatestOf, AnyOf
  <2> QED
    BY <2>2 DEF Init, BaseKnown, BaseAt, Planned, Last, NoRun
<1>2. Core /\ BaseKnown /\ [Next]_vars => BaseKnown'
  <2> SUFFICES ASSUME Core, BaseKnown, [Next]_vars PROVE BaseKnown'
    OBVIOUS
  <2>1. CASE UNCHANGED <<run, job, snapshots>>
    <3>1. LatestFull' = LatestFull
      BY <2>1, LatestUnmoved
    <3> QED
      BY <2>1, <3>1 DEF BaseKnown, BaseAt, Claimed
  <2>2. CASE RequestStep
    BY <2>1, <2>2
       DEF RequestStep, schedule, run_now, approve, reject, Create, Cancel,
           cancel_backup_action, cancel_backup_job, storage
  <2>3. ASSUME NEW w \in Worker, Backup(w) PROVE BaseKnown'
    BY <2>3, BaseLook, BasePlan, BaseClaim, BaseExport, BaseSnapshot,
       BaseFailure, BaseCommit, BaseRemoval DEF Backup
  <2>4. ASSUME NEW w \in Worker, restart(w) PROVE BaseKnown'
    <3>1. run'[w].pc = "idle"
      BY <2>4, Stopped DEF restart, NoRun
    <3> QED
      BY <2>4, <3>1, LatestUnmoved, BaseQuiet
         DEF restart, storage, Planned, Last
  <2>5. CASE hour_passes \/ UNCHANGED vars
    BY <2>1, <2>5 DEF hour_passes, vars, storage
  <2> QED
    BY <2>2, <2>3, <2>4, <2>5, BasePoll, BaseLook DEF Next, Retention
<1> QED
  BY <1>1, <1>2, CoreHolds, PTL DEF Spec

(* The snapshot the next export-diff starts from, that of the latest full  *)
(* with a SUCCESS row, is on the image, whatever run failed, was cancelled *)
(* or was interrupted since it was taken.                                  *)
THEOREM BaseKept ==
  ASSUME OneWorker
  PROVE  Spec => []BaseSnapshotKept
<1>1. Core /\ BaseKnown => BaseSnapshotKept
  BY PreviousIsLatest DEF BaseKnown, BaseSnapshotKept
<1> QED
  BY <1>1, CoreHolds, BaseHolds, PTL
-----------------------------------------------------------------------------
(* Whose a snapshot or an object is.                                       *)

(* The steps that neither commit nor end a run that may have left          *)
(* something.                                                              *)
Goes(w) == \/ Poll(w) \/ Retention(w)
           \/ look(w) \/ supersede(w) \/ plan(w) \/ claim_image(w)
           \/ check_cancel(w) \/ refuse(w) \/ snap_create(w) \/ export(w)
           \/ upload(w) \/ upload_raises(w) \/ give_up(w) \/ clean(w)
           \/ mark_failed(w)

GoesOn(w) ==
    \/ run[w].pc \notin Working
    \/ /\ run[w].pc # "tidy" /\ run'[w].pc \in Working
       /\ run'[w].request = run[w].request

LEMMA GoesOnSteps ==
  ASSUME Core, NEW w \in Worker, Goes(w)
  PROVE  GoesOn(w)
<1>1. CASE \/ Poll(w) \/ Retention(w)
           \/ look(w) \/ supersede(w) \/ plan(w) \/ claim_image(w)
           \/ check_cancel(w) \/ refuse(w) \/ snap_create(w)
  <2>1. CASE \E r \in Request : withdraw(w, r) \/ load(w, r)
    BY <2>1 DEF withdraw, load, At, GoesOn, Working
  <2> QED
    BY <1>1, <2>1
       DEF Poll, Retention, claim, claim_taken, record, protect,
           apply_retention, look, supersede, plan, claim_image, check_cancel,
           refuse, snap_create, At, GoesOn, Working
<1>2. CASE export(w) \/ upload_raises(w) \/ give_up(w) \/ mark_failed(w)
  <2>1. /\ run[w].pc \in Working \ {"tidy"}
        /\ Go(w, "upload") \/ Go(w, "clean") \/ Go(w, "drop")
    BY <1>2 DEF export, upload_raises, give_up, mark_failed, At, Working
  <2> QED
    BY <2>1, Moved DEF Core, Phase, Working, GoesOn
<1>3. CASE upload(w)
  BY <1>3, UploadMoves DEF upload, At, Working, GoesOn
<1>4. CASE clean(w)
  BY <1>4, StepReset DEF clean, At, Working, GoesOn, Phase
<1> QED
  BY <1>1, <1>2, <1>3, <1>4 DEF Goes

LEMMA GoesSuccess ==
  ASSUME Core, NEW w \in Worker, Goes(w)
  PROVE  /\ LatestFull' = LatestFull
         /\ \A q \in Request :
               (job'[q].status = "SUCCESS") <=> (job[q].status = "SUCCESS")
<1> SUFFICES \A q \in Request :
               /\ (job'[q].status = "SUCCESS") <=> (job[q].status = "SUCCESS")
               /\ job[q].status = "SUCCESS" => /\ job'[q].type = job[q].type
                                               /\ job'[q].turn = job[q].turn
  BY FullsSame
<1>1. CASE job' = job
  BY <1>1
<1>2. CASE refuse(w) \/ snap_create(w) \/ mark_failed(w)
  <2>1. job' = job \/ FailIfRunning(run[w].request)
    BY <1>2 DEF refuse, snap_create, mark_failed, Current
  <2>2. run[w].request \in Request
    BY <1>2 DEF Core, RunKnown, RunKnownAt, refuse, snap_create, mark_failed, At
  <2> QED
    BY <1>1, <2>1, <2>2, FailedIfRunning DEF RowsStay
<1>3. CASE supersede(w)
  <2>1. /\ run[w].seen \in Request /\ job[run[w].seen].status = "RUNNING"
        /\ FailIfRunning(run[w].seen)
    BY <1>3 DEF Core, RunKnown, RunKnownAt, supersede, At, FailIfRunning
  <2> QED
    BY <2>1, FailedIfRunning DEF RowsStay
<1>4. CASE claim_image(w) /\ ImageFree
  <2>1. PICK type \in JobType :
          job' = [job EXCEPT ![run[w].request] = Row(type, run[w].previous)]
    BY <1>4 DEF claim_image, Types, JobType, Current
  <2>2. /\ run[w].request \in Request /\ job[run[w].request].status = "NONE"
    BY <1>4 DEF Core, RunKnown, RunKnownAt, Unclaimed, claim_image, At
  <2>3. /\ job'[run[w].request].status = "RUNNING"
        /\ \A q \in Request \ {run[w].request} : job'[q] = job[q]
    BY <2>1, <2>2 DEF Core, TypeOK, Row
  <2> QED
    BY <2>2, <2>3
<1> QED
  <2>1. CASE Poll(w) \/ Retention(w)
    BY <1>1, <2>1 DEF Poll, Retention, withdraw, load, claim, claim_taken,
                      record, protect, apply_retention
  <2>2. CASE claim_image(w) /\ ~ImageFree
    BY <1>1, <2>2 DEF claim_image
  <2>3. CASE \/ look(w) \/ plan(w) \/ check_cancel(w) \/ export(w)
             \/ upload(w) \/ upload_raises(w) \/ give_up(w) \/ clean(w)
    BY <1>1, <2>3 DEF look, plan, check_cancel, export, upload, upload_raises,
                      give_up, clean
  <2> QED
    BY <1>2, <1>3, <1>4, <2>1, <2>2, <2>3 DEF Goes

LEMMA ExcusedStay ==
  ASSUME Core, [Next]_vars
  PROVE  excused \subseteq excused'
<1>1. \A S : Excuse(S) => excused \subseteq excused'
  BY DEF Excuse
<1>2. \A S : Remove(S) => excused \subseteq excused'
  BY <1>1 DEF Remove, history
<1>3. CASE RequestStep
  BY <1>3 DEF RequestStep, schedule, run_now, approve, reject, Create, Cancel,
              cancel_backup_action, cancel_backup_job, history
<1>4. ASSUME NEW w \in Worker, Poll(w) \/ Retention(w)
      PROVE  excused' = excused
  BY <1>4 DEF Poll, Retention, withdraw, load, claim, claim_taken, record,
              protect, apply_retention, history
<1>5. ASSUME NEW w \in Worker, Backup(w)
      PROVE  excused \subseteq excused'
  <2>1. CASE \/ look(w) \/ supersede(w) \/ plan(w) \/ claim_image(w)
             \/ check_cancel(w) \/ refuse(w) \/ export(w) \/ upload(w)
             \/ give_up(w) \/ commit(w) \/ mark_failed(w)
    BY <2>1 DEF look, supersede, plan, claim_image, check_cancel, refuse,
                export, upload, give_up, commit, mark_failed, history
  <2>2. CASE snap_create(w) \/ upload_raises(w) \/ clean(w)
    BY <1>1, <2>2 DEF snap_create, upload_raises, clean, history
  <2>3. CASE drop_snapshot(w) \/ tidy(w)
    BY <1>2, <2>3 DEF drop_snapshot, tidy
  <2> QED
    BY <1>5, <2>1, <2>2, <2>3 DEF Backup
<1>6. CASE hour_passes \/ UNCHANGED vars
  BY <1>6 DEF hour_passes, vars, history
<1> QED
  BY <1>1, <1>3, <1>4, <1>5, <1>6 DEF Next, restart

Held(w, r) == \/ run[w].request = r /\ run[w].pc \in Working
              \/ run[w].pc = "tidy" /\ r \in Obsolete(w)

SnapshotsKnown ==
    \A r \in snapshots \ excused :
        r = LatestFull \/ \E w \in Worker : Held(w, r)

(* The snapshots there were, while no run ends.                            *)
LEMMA SnapshotsQuiet ==
  ASSUME OneWorker, SnapshotsKnown, NEW w \in Worker, GoesOn(w),
         LatestFull' = LatestFull, excused \subseteq excused',
         \A r \in snapshots' \ excused' :
            r \in snapshots \/ (run'[w].request = r /\ run'[w].pc \in Working)
  PROVE  SnapshotsKnown'
<1> SUFFICES ASSUME NEW r \in snapshots' \ excused'
             PROVE  r = LatestFull \/ Held(w, r)'
  BY DEF SnapshotsKnown
<1>1. CASE run'[w].request = r /\ run'[w].pc \in Working
  BY <1>1 DEF Held
<1>2. CASE r \in snapshots /\ r # LatestFull
  <2>1. Held(w, r)
    BY <1>2 DEF OneWorker, SnapshotsKnown
  <2>2. run[w].request = r /\ run[w].pc \in Working /\ run[w].pc # "tidy"
    BY <2>1 DEF Held, GoesOn, Working
  <2> QED
    BY <2>2 DEF GoesOn, Held
<1> QED
  BY <1>1, <1>2

LEMMA SnapshotsGo ==
  ASSUME OneWorker, Core, SnapshotsKnown, NEW w \in Worker, Goes(w), [Next]_vars
  PROVE  SnapshotsKnown'
<1>1. /\ GoesOn(w) /\ LatestFull' = LatestFull /\ excused \subseteq excused'
  BY GoesOnSteps, GoesSuccess, ExcusedStay
<1>2. CASE snap_create(w)
  <2>1. /\ run[w].request \in Request
        /\ snapshots' = snapshots \cup {run[w].request}
    BY <1>2 DEF Core, RunKnown, RunKnownAt, snap_create, At, Current
  <2>2. CASE Go(w, "export")
    <3>1. run'[w].request = run[w].request /\ run'[w].pc \in Working
      BY <2>2, Moved DEF Core, Phase, Working
    <3> QED
      BY <1>1, <2>1, <3>1, SnapshotsQuiet
  <2>3. CASE Excuse({run[w].request})
    <3>1. run[w].request \in excused'
      BY <2>1, <2>3, Constants DEF Excuse, NoRequest
    <3> QED
      BY <1>1, <2>1, <3>1, SnapshotsQuiet
  <2> QED
    BY <1>2, <2>2, <2>3 DEF snap_create, Current
<1>3. CASE ~snap_create(w)
  <2>1. snapshots' = snapshots
    <3>1. CASE Poll(w) \/ Retention(w)
      BY <3>1 DEF Poll, Retention, withdraw, load, claim, claim_taken, record,
                  protect, apply_retention, storage
    <3> QED
      BY <1>3, <3>1 DEF Goes, look, supersede, plan, claim_image,
         check_cancel, refuse, export, upload, upload_raises, give_up, clean,
         mark_failed, storage
  <2> QED
    BY <1>1, <2>1, SnapshotsQuiet
<1> QED
  BY <1>2, <1>3

LEMMA SnapshotsCommit ==
  ASSUME OneWorker, Core, BaseKnown, SnapshotsKnown, NEW w \in Worker, commit(w)
  PROVE  SnapshotsKnown'
<1> DEFINE r == run[w].request
<1>1. /\ r \in Request /\ job[r].status = "RUNNING" /\ run[w].pc = "commit"
      /\ job' = [job EXCEPT ![r].status = "SUCCESS", ![r].copied = TRUE]
      /\ snapshots' = snapshots /\ excused' = excused
      /\ \A s \in Slot : run[w].previous[s] = LatestFull
  BY DEF Core, RunKnown, RunKnownAt, Claiming, BaseKnown, BaseAt, Planned,
         commit, At, Current, storage, history
<1>2. /\ RowsStay /\ \A q \in Request \ {r} : job'[q] = job[q]
  BY <1>1, Committed
<1>3. /\ run'[w].pc = "tidy" /\ run'[w].request = r
      /\ run'[w].previous = run[w].previous
  BY StepReset DEF commit, Phase
<1> SUFFICES ASSUME NEW p \in snapshots \ excused, p # r
             PROVE  p = LatestFull' \/ Held(w, p)'
  BY <1>1, <1>3 DEF SnapshotsKnown, Held, Working
<1>4. p = LatestFull
  <2>1. p = LatestFull \/ Held(w, p)
    BY DEF OneWorker, SnapshotsKnown
  <2> QED
    BY <1>1, <2>1 DEF Held
<1>5. CASE job[r].type = "full"
  <2>1. p \in snapshots /\ p # NoRequest
    BY Constants DEF Core, TypeOK, NoRequest
  <2>2. job'[r].type = "full"
    BY <1>1, <1>2, <1>5 DEF RowsStay
  <2>3. Obsolete(w)' = {run[w].previous[s] : s \in Slot} \ {NoRequest}
    BY <1>3, <2>2 DEF Obsolete, Current
  <2> QED
    BY <1>1, <1>3, <1>4, <2>1, <2>3, Constants DEF Held
<1>6. CASE job[r].type # "full"
  <2>1. Fulls' = Fulls
    BY <1>1, <1>2, <1>6 DEF Fulls, RowsStay
  <2>2. {q \in Fulls : \A o \in Fulls : job'[o].turn <= job'[q].turn}
          = {q \in Fulls : \A o \in Fulls : job[o].turn <= job[q].turn}
    BY <1>2 DEF Fulls, RowsStay
  <2> QED
    BY <1>4, <2>1, <2>2 DEF LatestFull, LatestOf
<1> QED
  BY <1>5, <1>6

LEMMA SnapshotsRemoved ==
  ASSUME OneWorker, Core, BaseKnown, SnapshotsKnown, NEW w \in Worker,
         drop_snapshot(w) \/ tidy(w)
  PROVE  SnapshotsKnown'
<1> DEFINE r == run[w].request
<1>1. r \in Request /\ LatestFull' = LatestFull
  BY LatestUnmoved
     DEF Core, RunKnown, RunKnownAt, drop_snapshot, tidy, At
<1> SUFFICES ASSUME NEW p \in snapshots' \ excused', p # LatestFull
             PROVE  FALSE
  BY <1>1 DEF SnapshotsKnown
<1>2. CASE drop_snapshot(w)
  <2>1. p \in snapshots /\ p \notin excused /\ p # r
    BY <1>1, <1>2, Removed DEF drop_snapshot, Current
  <2> QED
    BY <1>2, <2>1 DEF OneWorker, SnapshotsKnown, Held, drop_snapshot, At
<1>3. CASE tidy(w)
  <2>1. p \in snapshots /\ p \notin excused /\ p \notin Obsolete(w)
    BY <1>1, <1>3, ObsoleteTyped, Removed DEF tidy
  <2>2. p = r
    BY <2>1 DEF OneWorker, SnapshotsKnown, Held
  <2>3. job[r].type = "full" /\ job[r].status = "SUCCESS"
    BY <1>1, <1>3, <2>1, <2>2 DEF Core, TypeOK, Rows, JobType, RunKnown,
       RunKnownAt, Obsolete, Current, tidy, At
  <2>4. \A q \in Claimed \ {r} : job[q].turn < job[r].turn
    BY <1>3 DEF BaseKnown, BaseAt, Last, tidy, At
  <2> QED
    BY <1>1, <2>2, <2>3, <2>4, LastFullIsLatest
<1> QED
  BY <1>2, <1>3

LEMMA SnapshotsRestart ==
  ASSUME OneWorker, Core, SnapshotsKnown, NEW w \in Worker, restart(w)
  PROVE  SnapshotsKnown'
<1>1. /\ LatestFull' = LatestFull /\ snapshots' = snapshots
      /\ excused' = excused \cup
           (({run[w].request} \cup {run[w].previous[s] : s \in Slot})
              \ {NoRequest})
  BY LatestUnmoved DEF restart, storage, Excuse, Current
<1> SUFFICES ASSUME NEW p \in snapshots \ excused', p # LatestFull
             PROVE  FALSE
  BY <1>1 DEF SnapshotsKnown
<1>2. Held(w, p) /\ p # NoRequest
  BY <1>1, Constants DEF OneWorker, SnapshotsKnown, Core, TypeOK, NoRequest
<1> QED
  BY <1>1, <1>2 DEF Held, Obsolete, Current

LEMMA SnapshotsHold ==
  ASSUME OneWorker
  PROVE  Spec => []SnapshotsKnown
<1>1. Init => SnapshotsKnown
  BY DEF Init, SnapshotsKnown
<1>2. Core /\ BaseKnown /\ SnapshotsKnown /\ [Next]_vars => SnapshotsKnown'
  <2> SUFFICES ASSUME Core, BaseKnown, SnapshotsKnown, [Next]_vars
               PROVE  SnapshotsKnown'
    OBVIOUS
  <2>1. CASE UNCHANGED <<run, job, snapshots, excused>>
    <3>1. LatestFull' = LatestFull
      BY <2>1, LatestUnmoved
    <3> QED
      BY <2>1, <3>1 DEF SnapshotsKnown, Held, Obsolete, Current
  <2>2. CASE RequestStep
    BY <2>1, <2>2
       DEF RequestStep, schedule, run_now, approve, reject, Create, Cancel,
           cancel_backup_action, cancel_backup_job, storage, history
  <2>3. CASE hour_passes \/ UNCHANGED vars
    BY <2>1, <2>3 DEF hour_passes, vars, storage, history
  <2>4. ASSUME NEW w \in Worker, Poll(w) \/ Backup(w) \/ Retention(w)
        PROVE  SnapshotsKnown'
    BY <2>4, SnapshotsGo, SnapshotsCommit, SnapshotsRemoved DEF Goes, Backup
  <2> QED
    BY <2>2, <2>3, <2>4, SnapshotsRestart DEF Next
<1> QED
  BY <1>1, <1>2, CoreHolds, BaseHolds, PTL DEF Spec

(* A backup-* snapshot of the image is the latest full's, or its run goes  *)
(* on or is about to remove it, or a fault left it: failed, cancelled and  *)
(* incremental runs leave none behind, however many there are.             *)
THEOREM SnapshotsOwned ==
  ASSUME OneWorker
  PROVE  Spec => []SnapshotsAccounted
<1>1. Core /\ SnapshotsKnown => SnapshotsAccounted
  BY PreviousIsLatest, Constants
     DEF SnapshotsKnown, Held, SnapshotsAccounted, Live, Current, At
<1> QED
  BY <1>1, CoreHolds, SnapshotsHold, PTL

(* The targets a run has recorded, and nothing else, hold its export.      *)
ObjectsAt(w) ==
    \A o \in objects : o.run = run[w].request /\ o.run \notin excused =>
      /\ run[w].pc \notin {"check", "prepare", "export", "mark", "drop"}
      /\ run[w].pc \in {"upload", "commit", "clean"} => o.slot <= run[w].step

Placed(o) == \/ job[o.run].status = "SUCCESS"
             \/ o.run \in excused
             \/ \E w \in Worker : /\ run[w].request = o.run
                                  /\ run[w].pc \in Working

ObjectsKnown == /\ \A w \in Worker : ObjectsAt(w)
                /\ \A o \in objects : Placed(o)

(* The objects there were, while no run ends.                              *)
LEMMA ObjectsQuiet ==
  ASSUME OneWorker, ObjectsKnown, NEW w \in Worker, GoesOn(w),
         \A o \in objects : (job'[o.run].status = "SUCCESS")
                              <=> (job[o.run].status = "SUCCESS"),
         excused \subseteq excused', ObjectsAt(w)',
         \A o \in objects' \ objects : /\ run'[w].request = o.run
                                       /\ run'[w].pc \in Working
  PROVE  ObjectsKnown'
<1>1. ASSUME NEW o \in objects' PROVE Placed(o)'
  <2>1. CASE o \notin objects
    BY <2>1 DEF Placed
  <2>2. CASE o \in objects
    <3>1. Placed(o)
      BY <2>2 DEF ObjectsKnown
    <3> QED
      BY <2>2, <3>1 DEF Placed, OneWorker, GoesOn
  <2> QED
    BY <2>1, <2>2
<1> QED
  BY <1>1 DEF OneWorker, ObjectsKnown

LEMMA ObjectsGo ==
  ASSUME OneWorker, Core, ObjectsKnown, NEW w \in Worker, Goes(w), [Next]_vars
  PROVE  ObjectsKnown'
<1> DEFINE r == run[w].request
<1>1. /\ GoesOn(w) /\ excused \subseteq excused'
      /\ \A o \in objects : (job'[o.run].status = "SUCCESS")
                              <=> (job[o.run].status = "SUCCESS")
  <2>1. \A o \in objects : o.run \in Request
    BY DEF Core, TypeOK, Object
  <2> QED
    BY <2>1, GoesOnSteps, GoesSuccess, ExcusedStay
<1>2. \A o \in objects : o.run = r /\ o.run \notin excused' =>
        /\ run[w].pc \notin {"check", "prepare", "export", "mark", "drop"}
        /\ run[w].pc \in {"upload", "commit", "clean"} => o.slot <= run[w].step
  BY <1>1 DEF ObjectsKnown, ObjectsAt
<1>3. CASE Poll(w) \/ Retention(w) \/ look(w) \/ supersede(w) \/ plan(w)
  <2>1. objects' \subseteq objects
    <3>1. CASE Poll(w)
      BY <3>1 DEF Poll, withdraw, load, claim, claim_taken, record, storage
    <3>2. CASE Retention(w)
      BY <3>2 DEF Retention, protect, apply_retention, storage
    <3> QED
      BY <1>3, <3>1, <3>2 DEF look, supersede, plan, storage
  <2>2. ObjectsAt(w)'
    <3>1. CASE \E q \in Request : withdraw(w, q)
      BY <3>1 DEF withdraw, ObjectsKnown, ObjectsAt, storage, history
    <3>2. CASE ~\E q \in Request : withdraw(w, q)
      <4>1. run'[w].pc \in {"idle", "loaded", "protect", "look", "plan", "claim",
                            "succeeded", "supersede", "sweep"}
        <5>1. CASE \E q \in Request : load(w, q)
          BY <5>1 DEF load, Core, TypeOK, NoRun
        <5>2. CASE claim(w)
          BY <5>2, Moved DEF claim, Core, Phase
        <5>3. CASE claim_taken(w) \/ record(w)
          BY <5>3, Stopped DEF claim_taken, record, NoRun
        <5> QED
          BY <1>3, <3>2, <5>1, <5>2, <5>3, LookMoves, SupersedeMoves,
             PlanMoves, ProtectMoves, SweepMoves DEF Poll, Retention
      <4> QED
        BY <4>1 DEF ObjectsAt
    <3> QED
      BY <3>1, <3>2
  <2> QED
    BY <1>1, <2>1, <2>2, ObjectsQuiet
<1>4. CASE claim_image(w)
  <2>1. /\ objects' = objects /\ r \in Request /\ job[r].status = "NONE"
    BY <1>4 DEF claim_image, storage, Core, RunKnown, RunKnownAt, Unclaimed, At
  <2>2. run'[w].request = r
    BY <1>4, Moved DEF claim_image, Core, Phase
  <2>3. \A o \in objects : o.run # r
    BY <2>1 DEF Core, JobsKnown
  <2>4. ObjectsAt(w)'
    BY <2>1, <2>2, <2>3 DEF ObjectsAt
  <2> QED
    BY <1>1, <2>1, <2>4, ObjectsQuiet
<1>5. CASE \/ check_cancel(w) \/ refuse(w) \/ snap_create(w) \/ export(w)
           \/ give_up(w) \/ mark_failed(w)
  <2>1. /\ objects' = objects
        /\ \/ /\ run[w].pc \in {"check", "prepare", "export", "mark"}
              /\ \E pc \in Phase : Go(w, pc)
           \/ /\ run[w].pc \in {"upload", "commit"}
              /\ Go(w, "clean")
    BY <1>5 DEF check_cancel, refuse, snap_create, export, give_up,
                mark_failed, At, storage, Phase
  <2>2. CASE /\ run[w].pc \in {"check", "prepare", "export", "mark"}
             /\ \E pc \in Phase : Go(w, pc)
    <3>1. run'[w].request = r
      BY <2>2, Moved DEF Core
    <3>2. ObjectsAt(w)'
      BY <1>2, <2>1, <2>2, <3>1 DEF ObjectsAt
    <3> QED
      BY <1>1, <2>1, <3>2, ObjectsQuiet
  <2>3. CASE run[w].pc \in {"upload", "commit"} /\ Go(w, "clean")
    <3>1. /\ run'[w].request = r /\ run'[w].pc = "clean"
          /\ run'[w].step = run[w].step
      BY <2>3, Moved DEF Core, Phase
    <3>2. ObjectsAt(w)'
      BY <1>2, <2>1, <2>3, <3>1 DEF ObjectsAt
    <3> QED
      BY <1>1, <2>1, <3>2, ObjectsQuiet
  <2> QED
    BY <2>1, <2>2, <2>3
<1>6. CASE upload(w)
  <2>1. /\ objects' = objects \cup {[slot |-> run[w].step + 1, run |-> r,
                                    at |-> NextStamp(run[w].step + 1)]}
        /\ run[w].pc = "upload"
    BY <1>6 DEF upload, Put, At, Current
  <2>2. /\ run'[w].request = r /\ run'[w].step = run[w].step + 1
        /\ run'[w].pc \in {"clean", "commit", "upload"}
    BY <1>6, UploadMoves
  <2>3. /\ run[w].step \in Nat
        /\ \A o \in objects : o.slot \in Nat
    BY AnyStep DEF Core, TypeOK, Run, Object, Slot
  <2>4. ObjectsAt(w)'
    <3> SUFFICES ASSUME NEW o \in objects', o.run = r, o.run \notin excused'
                 PROVE  o.slot <= run[w].step + 1
      BY <2>2 DEF ObjectsAt
    <3>1. CASE o \in objects
      <4>1. o.slot \in Nat /\ o.slot <= run[w].step
        BY <1>2, <2>1, <2>3, <3>1
      <4> QED
        BY <2>3, <4>1
    <3>2. CASE o \notin objects
      BY <2>1, <2>3, <3>2
    <3> QED
      BY <3>1, <3>2
  <2>5. \A o \in objects' \ objects : o.run = r
    BY <2>1
  <2> QED
    BY <1>1, <2>2, <2>4, <2>5, ObjectsQuiet DEF Working
<1>7. CASE upload_raises(w)
  <2>1. /\ \A o \in objects' \ objects : o.run = r
        /\ Go(w, "clean") /\ r \in excused'
    <3>1. r # NoRequest
      BY <1>7, Constants
         DEF Core, RunKnown, RunKnownAt, upload_raises, At, NoRequest
    <3> QED
      BY <1>7, <3>1 DEF upload_raises, Put, Excuse, Current
  <2>2. run'[w].request = r /\ run'[w].pc = "clean"
    BY <2>1, Moved DEF Core, Phase
  <2>3. ObjectsAt(w)'
    BY <2>1, <2>2 DEF ObjectsAt
  <2> QED
    BY <1>1, <2>1, <2>2, <2>3, ObjectsQuiet DEF Working
<1>8. CASE clean(w)
  <2>1. run'[w].request = r /\ run'[w].pc = "mark"
    BY <1>8, StepReset DEF clean, Phase
  <2>2. PICK kept \in SUBSET {o \in objects : o.run = r /\ o.slot <= run[w].step} :
          /\ objects' = (objects \ {o \in objects :
                             o.run = r /\ o.slot <= run[w].step}) \cup kept
          /\ kept # {} => Excuse({r})
    BY <1>8 DEF clean, Current
  <2>3. r # NoRequest /\ run[w].pc = "clean"
    BY <1>8, Constants DEF Core, RunKnown, RunKnownAt, clean, At, NoRequest
  <2>4. \A o \in objects' : o.run = r => r \in excused'
    BY <1>2, <2>2, <2>3 DEF Excuse
  <2>5. ObjectsAt(w)'
    BY <2>1, <2>4 DEF ObjectsAt
  <2>6. objects' \subseteq objects
    BY <2>2
  <2> QED
    BY <1>1, <2>5, <2>6, ObjectsQuiet
<1> QED
  BY <1>3, <1>4, <1>5, <1>6, <1>7, <1>8 DEF Goes

(* A run that ends has committed, has taken back what it uploaded, or is   *)
(* interrupted.                                                            *)
LEMMA ObjectsEnd ==
  ASSUME OneWorker, Core, ObjectsKnown, NEW w \in Worker, [Next]_vars,
         commit(w) \/ drop_snapshot(w) \/ tidy(w) \/ restart(w)
  PROVE  ObjectsKnown'
<1> DEFINE r == run[w].request
<1>1. objects' = objects /\ excused \subseteq excused'
  BY ExcusedStay DEF commit, drop_snapshot, tidy, restart, storage
<1>2. run'[w].pc \in {"tidy", "failed", "protect", "idle"}
  <2>1. CASE commit(w)
    BY <2>1, StepReset DEF commit, Phase
  <2>2. CASE drop_snapshot(w) \/ tidy(w)
    BY <2>2, Moved DEF drop_snapshot, tidy, Core, Phase
  <2>3. CASE restart(w)
    BY <2>3, Stopped DEF restart, NoRun
  <2> QED
    BY <2>1, <2>2, <2>3
<1>3. \A q \in Request :
        job[q].status = "SUCCESS" => job'[q].status = "SUCCESS"
  BY DEF Core, TypeOK, commit, drop_snapshot, tidy, restart
<1>4. ASSUME NEW o \in objects PROVE Placed(o)'
  <2>1. o.run \in Request /\ o.run # NoRequest
    BY Constants DEF Core, TypeOK, Object, NoRequest
  <2>2. CASE job[o.run].status = "SUCCESS" \/ o.run \in excused
    BY <1>1, <1>3, <2>1, <2>2 DEF Placed
  <2>3. CASE o.run = r /\ run[w].pc \in Working /\ o.run \notin excused
    <3>1. CASE commit(w)
      BY <2>1, <2>3, <3>1 DEF commit, Current, Core, TypeOK, Placed
    <3>2. CASE drop_snapshot(w)
      BY <2>3, <3>2 DEF drop_snapshot, At, ObjectsKnown, ObjectsAt
    <3>3. CASE tidy(w)
      BY <1>3, <2>1, <2>3, <3>3
         DEF tidy, At, Core, RunKnown, RunKnownAt, Placed
    <3>4. CASE restart(w)
      BY <2>1, <2>3, <3>4 DEF restart, Excuse, Current, Placed
    <3> QED
      BY <3>1, <3>2, <3>3, <3>4
  <2> QED
    BY <2>2, <2>3 DEF OneWorker, ObjectsKnown, Placed
<1>5. ObjectsAt(w)'
  BY <1>2 DEF ObjectsAt
<1> QED
  BY <1>1, <1>4, <1>5 DEF OneWorker, ObjectsKnown

LEMMA ObjectsHold ==
  ASSUME OneWorker
  PROVE  Spec => []ObjectsKnown
<1>1. Init => ObjectsKnown
  BY DEF Init, ObjectsKnown, ObjectsAt
<1>2. Core /\ ObjectsKnown /\ [Next]_vars => ObjectsKnown'
  <2> SUFFICES ASSUME Core, ObjectsKnown, [Next]_vars PROVE ObjectsKnown'
    OBVIOUS
  <2>1. CASE UNCHANGED <<run, job, objects, excused>>
    BY <2>1 DEF ObjectsKnown, ObjectsAt, Placed
  <2>2. CASE RequestStep
    BY <2>1, <2>2
       DEF RequestStep, schedule, run_now, approve, reject, Create, Cancel,
           cancel_backup_action, cancel_backup_job, storage, history
  <2>3. CASE hour_passes \/ UNCHANGED vars
    BY <2>1, <2>3 DEF hour_passes, vars, storage, history
  <2>4. ASSUME NEW w \in Worker, Poll(w) \/ Backup(w) \/ Retention(w)
        PROVE  ObjectsKnown'
    BY <2>4, ObjectsGo, ObjectsEnd DEF Goes, Backup
  <2> QED
    BY <2>2, <2>3, <2>4, ObjectsEnd DEF Next
<1> QED
  BY <1>1, <1>2, CoreHolds, PTL DEF Spec

(* An object on a target is a recorded copy, or its run goes on, or a      *)
(* fault left it: a run that fails, at whatever target, takes back what it *)
(* uploaded, the object whose verification failed included.                *)
THEOREM ObjectsOwned ==
  ASSUME OneWorker
  PROVE  Spec => []ObjectsAccounted
<1>1. Core /\ ObjectsKnown => ObjectsAccounted
  <2> SUFFICES ASSUME Core, ObjectsKnown, NEW o \in objects
               PROVE  \/ o.slot \in Copies(o.run)
                      \/ o.run \in excused
                      \/ Live(o.run)
    BY DEF ObjectsAccounted
  <2>1. o.run \in Request /\ o.slot \in Slot
    BY DEF Core, TypeOK, Object
  <2> QED
    BY <2>1, CopiesOfRun DEF ObjectsKnown, Placed, Live, Current
<1> QED
  BY <1>1, CoreHolds, ObjectsHold, PTL
==============================================================================
