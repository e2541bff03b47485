----------------------- MODULE RbdBackupRetentionProofs -----------------------
(***************************************************************************)
(* The retention of RbdBackup never deletes an export that the next        *)
(* incremental or a recorded one depends on, for any number of requests    *)
(* and targets, any retention and any number of faults below the number of *)
(* full exports kept, where one Worker executes.                           *)
(*                                                                         *)
(* The sweep counts objects, not rows: what a failed run left on a target  *)
(* takes a place among the full exports kept there, and the latest full    *)
(* loses its place when too many newer leftovers have theirs.  Leftover    *)
(* holds the runs that can have left something and is never larger than    *)
(* the number of faults; CopiesKnown makes of a run at most one object per *)
(* target; StampsKnown makes newer on a target mean claimed later; so the  *)
(* newer objects inject into Leftover, and a sweep stops before the latest *)
(* full.  The bases of incrementals are protected by their key.            *)
(***************************************************************************)
EXTENDS RbdBackupProofs, WellFoundedInduction

(* Between its claim of the image and its commit.                          *)
Claimant == {"check", "prepare", "export", "upload", "commit"}

(* Excused runs that left what no row accounts for.                        *)
Leftover == {r \in excused : job[r].status # "SUCCESS"}
PreviousDone ==
    \A w \in Worker : \A s \in Slot :
        \/ run[w].previous[s] = NoRequest
        \/ job[run[w].previous[s]].status = "SUCCESS"
LeftoverCounted == PreviousDone /\ Cardinality(Leftover) <= faults

(* What a run has uploaded, target after target.                           *)
CopyAt(w) ==
    /\ run[w].pc \in {"check", "prepare", "export"} =>
         \A o \in objects : o.run # run[w].request
    /\ run[w].pc \in {"upload", "commit"} =>
         /\ \A o \in objects : o.run = run[w].request => o.slot <= run[w].step
         /\ \A s \in Slot : s <= run[w].step => Stored(run[w].request, s)
    /\ run[w].pc = "commit" => run[w].step = Slots
OneCopy == \A o, p \in objects : o.run = p.run /\ o.slot = p.slot => o = p
CopiesKnown == (\A w \in Worker : CopyAt(w)) /\ OneCopy

TurnsDistinct == \A q, r \in Claimed : job[q].turn = job[r].turn => q = r
StampOrder == \A o, p \in objects :
                  o.slot = p.slot /\ job[o.run].turn < job[p.run].turn =>
                      o.at < p.at
StampsBounded == \E n \in Nat : \A o \in objects : o.at <= n
StampsKnown == TurnsDistinct /\ StampOrder /\ StampsBounded

(* The full exports that later runs and recorded incrementals start from.  *)
Bases == {job[i].base : i \in {r \in Request :
            job[r].type = "incremental" /\ job[r].status = "SUCCESS"}}
Needed == ({LatestFull} \cup Bases) \ {NoRequest}
NeedAt(w) ==
    /\ run[w].pc \in Claimant /\ job[run[w].request].type = "incremental" =>
         job[run[w].request].base = LatestFull
    /\ run[w].pc = "sweep" => run[w].keep = Protected
BasesDone == \A f \in Bases \ {NoRequest} : job[f].status = "SUCCESS"
NeededStored ==
    faults < KeepFull => \A f \in Needed : \A s \in Slot : Stored(f, s)
NeededKnown == (\A w \in Worker : NeedAt(w)) /\ BasesDone /\ NeededStored

-----------------------------------------------------------------------------
(* Numbers.                                                                *)

LEMMA SmallestOf ==
  ASSUME NEW S \in SUBSET Nat, S # {}
  PROVE  \E m \in S : \A k \in S : m <= k
<1>1. PICK m \in S : \A k \in S : ~(<<k, m>> \in OpToRel(<, Nat))
  BY NatLessThanWellFounded, WFMin
<1>2. \A k \in S : ~(k < m)
  BY <1>1 DEF OpToRel
<1> QED
  BY <1>2

LEMMA LargestOf ==
  ASSUME NEW S \in SUBSET Nat, S # {}, NEW n \in Nat, \A k \in S : k <= n
  PROVE  \E m \in S : \A k \in S : k <= m
<1> DEFINE T == {n - k : k \in S}
<1>1. ASSUME NEW k \in S PROVE n - k \in Nat
  <2>1. k \in Nat /\ k <= n
    OBVIOUS
  <2> QED
    BY <2>1
<1>2. T \in SUBSET Nat /\ T # {}
  BY <1>1
<1>3. PICK d \in T : \A e \in T : d <= e
  <2> HIDE DEF T
  <2> QED
    BY <1>2, SmallestOf
<1>4. PICK m \in S : d = n - m
  OBVIOUS
<1>5. \A k \in S : n - m <= n - k
  BY <1>3, <1>4
<1> QED
  BY <1>5

(* An upload is the newest object of its target.                           *)
LEMMA NewestStamp ==
  ASSUME Core, StampsBounded, NEW s \in Slot
  PROVE  \A o \in objects : o.slot = s => o.at < NextStamp(s)
<1> DEFINE Here == {o \in objects : o.slot = s}
           S == {o.at : o \in Here}
<1> SUFFICES ASSUME NEW o \in objects, o.slot = s
             PROVE  o.at < NextStamp(s)
  OBVIOUS
<1>1. \A p \in objects : p.at \in Nat
  BY DEF Core, TypeOK, Object
<1>2. PICK n \in Nat : \A p \in objects : p.at <= n
  BY DEF StampsBounded
<1>3. PICK m \in S : \A k \in S : k <= m
  <2>1. S \in SUBSET Nat /\ S # {} /\ \A k \in S : k <= n
    BY <1>1, <1>2
  <2> HIDE DEF S
  <2> QED
    BY <2>1, LargestOf
<1>4. \A p \in Newest(s) : p \in Here /\ o.at <= p.at
  BY DEF Newest
<1>5. Newest(s) # {}
  <2>1. PICK p \in Here : m = p.at
    OBVIOUS
  <2> QED
    BY <1>3, <2>1 DEF Newest
<1>6. PICK p \in Newest(s) : NextStamp(s) = p.at + 1
  BY <1>5 DEF NextStamp
<1> QED
  BY <1>1, <1>4, <1>6

-----------------------------------------------------------------------------
(* What a step does to the rows.                                           *)

LEMMA RowSteps ==
  ASSUME Core, [Next]_vars
  PROVE  \/ job' = job
         \/ \E r \in Request : FailIfRunning(r)
         \/ \E w \in Worker : commit(w)
         \/ \E w \in Worker : claim_image(w) /\ ImageFree
<1>1. CASE RequestStep \/ hour_passes \/ UNCHANGED vars
  BY <1>1 DEF RequestStep, schedule, run_now, approve, reject, Create, Cancel,
              cancel_backup_action, cancel_backup_job, hour_passes, vars
<1>2. ASSUME NEW w \in Worker, Poll(w) \/ Retention(w) \/ restart(w)
      PROVE  job' = job
  BY <1>2 DEF Poll, Retention, withdraw, load, claim, claim_taken, record,
              protect, apply_retention, restart
<1>3. ASSUME NEW w \in Worker, refuse(w) \/ snap_create(w) \/ mark_failed(w)
      PROVE  job' = job \/ \E r \in Request : FailIfRunning(r)
  <2>1. run[w].request \in Request
    BY <1>3 DEF Core, RunKnown, RunKnownAt, refuse, snap_create, mark_failed, At
  <2> QED
    BY <1>3, <2>1 DEF refuse, snap_create, mark_failed, Current
<1>4. ASSUME NEW w \in Worker, supersede(w)
      PROVE  \E r \in Request : FailIfRunning(r)
  BY <1>4 DEF Core, RunKnown, RunKnownAt, supersede, At, FailIfRunning
<1>5. ASSUME NEW w \in Worker,
             \/ look(w) \/ plan(w) \/ check_cancel(w) \/ export(w)
             \/ upload(w) \/ upload_raises(w) \/ give_up(w) \/ clean(w)
             \/ drop_snapshot(w) \/ tidy(w) \/ (claim_image(w) /\ ~ImageFree)
      PROVE  job' = job
  BY <1>5 DEF look, plan, check_cancel, export, upload, upload_raises, give_up,
              clean, drop_snapshot, tidy, claim_image
<1> QED
  BY <1>1, <1>2, <1>3, <1>4, <1>5 DEF Next, Backup

LEMMA ImageClaimed ==
  ASSUME Core, NEW w \in Worker, claim_image(w), ImageFree
  PROVE  LET r == run[w].request IN
         /\ r \in Request \ Claimed /\ Claimed' = Claimed \cup {r}
         /\ \E type \in Types(run[w].previous) :
               job'[r] = Row(type, run[w].previous)
         /\ \A q \in Request \ {r} : job'[q] = job[q]
         /\ run'[w].pc = "check" /\ run'[w].request = r
         /\ run'[w].previous = run[w].previous /\ run'[w].keep = run[w].keep
         /\ objects' = objects /\ excused' = excused /\ faults' = faults
<1> DEFINE r == run[w].request
<1>1. r \in Request /\ job[r].status = "NONE"
  BY DEF Core, RunKnown, RunKnownAt, Unclaimed, claim_image, At
<1>2. PICK type \in Types(run[w].previous) :
        job' = [job EXCEPT ![r] = Row(type, run[w].previous)]
  BY DEF claim_image, Current
<1>3. /\ job'[r] = Row(type, run[w].previous)
      /\ \A q \in Request \ {r} : job'[q] = job[q]
  BY <1>1, <1>2 DEF Core, TypeOK
<1>4. job'[r].status = "RUNNING"
  BY <1>3 DEF Row
<1>5. r \notin Claimed /\ Claimed' = Claimed \cup {r}
  BY <1>1, <1>3, <1>4 DEF Claimed
<1>6. /\ run'[w].pc = "check" /\ run'[w].request = r
      /\ run'[w].previous = run[w].previous /\ run'[w].keep = run[w].keep
  <2>1. Go(w, "check")
    BY DEF claim_image
  <2> QED
    BY <2>1, Moved DEF Core, Phase
<1>7. objects' = objects /\ excused' = excused /\ faults' = faults
  BY DEF claim_image, storage, history
<1> QED
  BY <1>1, <1>3, <1>5, <1>6, <1>7

(* A claimed row keeps its type, base and turn; a SUCCESS row stays one.   *)
LEMMA RowsStand ==
  ASSUME Core, [Next]_vars
  PROVE  /\ Claimed \subseteq Claimed'
         /\ \A q \in Claimed : /\ job'[q].type = job[q].type
                               /\ job'[q].base = job[q].base
                               /\ job'[q].turn = job[q].turn
         /\ \A q \in Request :
               job[q].status = "SUCCESS" => job'[q].status = "SUCCESS"
<1>1. CASE job' = job
  BY <1>1 DEF Claimed
<1>2. ASSUME NEW r \in Request, FailIfRunning(r)
      PROVE  /\ RowsStay
             /\ \A q \in Request :
                   job[q].status = "SUCCESS" => job'[q].status = "SUCCESS"
  BY <1>2, FailedIfRunning
<1>3. ASSUME NEW w \in Worker, commit(w)
      PROVE  /\ RowsStay
             /\ \A q \in Request :
                   job[q].status = "SUCCESS" => job'[q].status = "SUCCESS"
  <2>1. /\ run[w].request \in Request
        /\ job[run[w].request].status = "RUNNING"
        /\ job' = [job EXCEPT ![run[w].request].status = "SUCCESS",
                              ![run[w].request].copied = TRUE]
    BY <1>3 DEF Core, RunKnown, RunKnownAt, Claiming, commit, At, Current
  <2> QED
    BY <2>1, Committed
<1>4. ASSUME NEW w \in Worker, claim_image(w), ImageFree
      PROVE  /\ Claimed \subseteq Claimed'
             /\ \A q \in Claimed : job'[q] = job[q]
             /\ \A q \in Request : job[q].status = "SUCCESS" => q \in Claimed
  BY <1>4, ImageClaimed DEF Claimed
<1> QED
  BY <1>1, <1>2, <1>3, <1>4, RowSteps DEF RowsStay, Claimed

-----------------------------------------------------------------------------
(* What can be left over.                                                  *)

(* Nothing but the start of a run and its plan writes what it read of the  *)
(* fulls before it.                                                        *)
LEMMA PreviousSteps ==
  ASSUME OneWorker, Core, [Next]_vars, NEW w \in Worker, NEW s \in Slot
  PROVE  run'[w].previous[s] \in {run[w].previous[s], NoRequest, LatestFull}
<1>1. CASE run' = run
  BY <1>1
<1>2. CASE \/ \E r \in Request : load(w, r)
           \/ claim_taken(w) \/ record(w) \/ restart(w)
  <2>1. CASE \E r \in Request : load(w, r)
    <3>1. PICK r \in Request :
            run'[w] = [NoRun EXCEPT !.request = r, !.pc = "loaded"]
      BY <2>1 DEF Core, TypeOK, load
    <3>2. run'[w].previous = NoRun.previous
      BY <3>1 DEF NoRun
    <3> QED
      BY <3>2 DEF NoRun
  <2>2. CASE claim_taken(w) \/ record(w) \/ restart(w)
    <3>1. run'[w] = NoRun
      BY <2>2 DEF Core, TypeOK, claim_taken, record, restart
    <3> QED
      BY <3>1 DEF NoRun
  <2> QED
    BY <1>2, <2>1, <2>2
<1>3. CASE plan(w)
  BY <1>3, PlanMoves, PreviousIsLatest
<1>4. CASE \/ claim(w) \/ claim_image(w) \/ check_cancel(w) \/ refuse(w)
           \/ snap_create(w) \/ export(w) \/ upload_raises(w) \/ give_up(w)
           \/ mark_failed(w) \/ drop_snapshot(w) \/ tidy(w)
  <2>1. \E pc \in Phase : Go(w, pc)
    BY <1>4 DEF claim, claim_image, check_cancel, refuse, snap_create, export,
                upload_raises, give_up, mark_failed, drop_snapshot, tidy, Phase
  <2> QED
    BY <2>1, Moved DEF Core
<1>5. CASE commit(w) \/ clean(w)
  BY <1>5, StepReset DEF commit, clean, Phase
<1>6. CASE \/ look(w) \/ supersede(w) \/ upload(w) \/ protect(w)
           \/ apply_retention(w)
  <2>1. run'[w].previous = run[w].previous
    <3>1. run \in [Worker -> Run]
      BY DEF Core, TypeOK
    <3>2. CASE look(w) \/ supersede(w)
      BY <3>1, <3>2 DEF Run, look, supersede, Go
    <3>3. CASE upload(w) \/ protect(w) \/ apply_retention(w)
      BY <3>1, <3>3 DEF Run, upload, protect, apply_retention
    <3> QED
      BY <1>6, <3>2, <3>3
  <2> QED
    BY <2>1
<1>7. CASE RequestStep \/ hour_passes \/ UNCHANGED vars
           \/ \E r \in Request : withdraw(w, r)
  BY <1>1, <1>7
     DEF RequestStep, schedule, run_now, approve, reject, Create, Cancel,
         cancel_backup_action, cancel_backup_job, hour_passes, vars, withdraw
<1> QED
  BY <1>2, <1>3, <1>4, <1>5, <1>6, <1>7
     DEF OneWorker, Next, Poll, Backup, Retention

LEMMA PreviousStep ==
  ASSUME OneWorker, Core, PreviousDone, [Next]_vars
  PROVE  PreviousDone'
<1> SUFFICES ASSUME NEW w \in Worker, NEW s \in Slot,
                    run'[w].previous[s] # NoRequest
             PROVE  job'[run'[w].previous[s]].status = "SUCCESS"
  BY DEF PreviousDone
<1>1. run'[w].previous[s] \in {run[w].previous[s], LatestFull}
  BY PreviousSteps
<1>2. run[w].previous[s] \in Request \cup {NoRequest}
  BY DEF Core, TypeOK, Run
<1>3. /\ run'[w].previous[s] \in Request
      /\ job[run'[w].previous[s]].status = "SUCCESS"
  BY <1>1, <1>2, LatestFullKnown DEF PreviousDone
<1> QED
  BY <1>3, RowsStand

(* Each fault excuses at most one run without a SUCCESS row.               *)
LEMMA FaultExcuses ==
  ASSUME OneWorker, Core, PreviousDone, [Next]_vars
  PROVE  \/ excused' = excused /\ faults' = faults
         \/ \E r \in Request \cup {NoRequest} :
              /\ \A q \in excused' \ excused :
                    q = r \/ job[q].status = "SUCCESS"
              /\ faults' = faults + 1
<1>1. CASE \/ RequestStep \/ hour_passes \/ UNCHANGED vars
           \/ \E w \in Worker : Poll(w) \/ Retention(w)
  BY <1>1
     DEF RequestStep, schedule, run_now, approve, reject, Create, Cancel,
         cancel_backup_action, cancel_backup_job, hour_passes, vars, history,
         Poll, Retention, withdraw, load, claim, claim_taken, record, protect,
         apply_retention
<1>2. ASSUME NEW w \in Worker,
             \/ look(w) \/ supersede(w) \/ plan(w) \/ claim_image(w)
             \/ check_cancel(w) \/ refuse(w) \/ export(w) \/ upload(w)
             \/ give_up(w) \/ commit(w) \/ mark_failed(w)
      PROVE  excused' = excused /\ faults' = faults
  BY <1>2 DEF look, supersede, plan, claim_image, check_cancel, refuse, export,
              upload, give_up, commit, mark_failed, history
<1>3. ASSUME NEW w \in Worker,
             \/ snap_create(w) \/ upload_raises(w) \/ clean(w)
             \/ drop_snapshot(w)
      PROVE  \/ excused' = excused /\ faults' = faults
             \/ /\ excused' \ excused \subseteq {run[w].request}
                /\ faults' = faults + 1
  BY <1>3 DEF snap_create, upload_raises, clean, drop_snapshot, Remove, Excuse,
              Current, history
<1>4. ASSUME NEW w \in Worker, tidy(w)
      PROVE  \/ excused' = excused /\ faults' = faults
             \/ /\ \A q \in excused' \ excused : job[q].status = "SUCCESS"
                /\ faults' = faults + 1
  <2>1. \A q \in Obsolete(w) : q = NoRequest \/ job[q].status = "SUCCESS"
    BY <1>4 DEF Core, RunKnown, RunKnownAt, tidy, At, Obsolete, Current,
                PreviousDone
  <2>2. PICK kept \in SUBSET Obsolete(w) :
          IF kept = {} THEN UNCHANGED history ELSE Excuse(kept)
    BY <1>4 DEF tidy, Remove
  <2> QED
    BY <2>1, <2>2 DEF Excuse, history
<1>5. ASSUME NEW w \in Worker, restart(w)
      PROVE  /\ \A q \in excused' \ excused :
                   q = run[w].request \/ job[q].status = "SUCCESS"
             /\ faults' = faults + 1
  BY <1>5 DEF restart, Excuse, Current, PreviousDone
<1>6. \A w \in Worker : run[w].request \in Request \cup {NoRequest}
  BY DEF Core, TypeOK, Run
<1> QED
  BY <1>1, <1>2, <1>3, <1>4, <1>5, <1>6 DEF Next, Backup

LEMMA LeftoverFinite ==
  ASSUME Core
  PROVE  IsFiniteSet(Leftover) /\ Cardinality(Leftover) \in Nat
<1>1. IsFiniteSet(Request)
  BY FS_Interval, Constants DEF Request
<1>2. Leftover \in SUBSET Request
  BY DEF Core, TypeOK, Leftover
<1> QED
  BY <1>1, <1>2, FS_Subset, FS_CardinalityType

LEMMA LeftoverStep ==
  ASSUME OneWorker, Core, Core', LeftoverCounted, [Next]_vars
  PROVE  LeftoverCounted'
<1>1. PreviousDone'
  BY PreviousStep DEF LeftoverCounted
<1>2. /\ \A q \in excused : /\ q \in Request
                            /\ job[q].status = "SUCCESS" =>
                                 job'[q].status = "SUCCESS"
      /\ excused' \subseteq Request
      /\ \A q \in Request : job[q].status = "SUCCESS" =>
                              job'[q].status = "SUCCESS"
  BY RowsStand DEF Core, TypeOK
<1>3. /\ IsFiniteSet(Leftover) /\ Cardinality(Leftover) \in Nat
      /\ Cardinality(Leftover) <= faults /\ faults \in Nat
  BY LeftoverFinite, BackupAssumption
     DEF LeftoverCounted, Core, TypeOK, BackupAssumption
<1>4. CASE excused' = excused /\ faults' = faults
  <2>1. Leftover' \in SUBSET Leftover
    BY <1>2, <1>4 DEF Leftover
  <2>2. /\ Cardinality(Leftover') <= Cardinality(Leftover)
        /\ Cardinality(Leftover') \in Nat
    BY <1>3, <2>1, FS_Subset, FS_CardinalityType
  <2> QED
    BY <1>1, <1>3, <1>4, <2>2 DEF LeftoverCounted
<1>5. ASSUME NEW r \in Request \cup {NoRequest}, faults' = faults + 1,
             \A q \in excused' \ excused : q = r \/ job[q].status = "SUCCESS"
      PROVE  LeftoverCounted'
  <2>1. Leftover' \in SUBSET (Leftover \cup {r})
    BY <1>2, <1>5 DEF Leftover
  <2>2. /\ IsFiniteSet(Leftover \cup {r})
        /\ Cardinality(Leftover \cup {r}) \in Nat
        /\ Cardinality(Leftover \cup {r}) <= Cardinality(Leftover) + 1
    <3>1. /\ IsFiniteSet(Leftover \cup {r})
          /\ Cardinality(Leftover \cup {r}) = IF r \in Leftover
                THEN Cardinality(Leftover) ELSE Cardinality(Leftover) + 1
      BY <1>3, FS_AddElement
    <3> QED
      BY <1>3, <3>1
  <2>3. /\ Cardinality(Leftover') <= Cardinality(Leftover \cup {r})
        /\ Cardinality(Leftover') \in Nat
    BY <2>1, <2>2, FS_Subset, FS_CardinalityType
  <2> QED
    BY <1>1, <1>3, <1>5, <2>2, <2>3 DEF LeftoverCounted
<1> QED
  BY <1>4, <1>5, FaultExcuses DEF LeftoverCounted

-----------------------------------------------------------------------------
(* One object per run and target.                                          *)

LEMMA UploadPuts ==
  ASSUME Core, NEW w \in Worker, upload(w) \/ upload_raises(w)
  PROVE  /\ run[w].pc = "upload" /\ run[w].request \in Request
         /\ run[w].step \in Nat /\ run[w].step + 1 \in Slot
         /\ objects' = objects \cup
              {[slot |-> run[w].step + 1, run |-> run[w].request,
                at |-> NextStamp(run[w].step + 1)]}
         /\ job' = job
<1>1. run[w].pc = "upload" /\ job' = job /\ Put(run[w].request, run[w].step + 1)
  BY DEF upload, upload_raises, At, Current
<1>2. run[w].step \in Nat /\ run[w].step < Slots /\ run[w].request \in Request
  BY <1>1, AnyStep DEF Core, TypeOK, Run, RunKnown, RunKnownAt
<1> QED
  BY <1>1, <1>2, Constants DEF Put, Slot

LEMMA ObjectSteps ==
  ASSUME Core, [Next]_vars
  PROVE  \/ objects' \subseteq objects
         \/ \E w \in Worker : upload(w) \/ upload_raises(w)
<1>1. CASE \/ RequestStep \/ hour_passes \/ UNCHANGED vars
           \/ \E w \in Worker : Poll(w) \/ restart(w)
  BY <1>1
     DEF RequestStep, schedule, run_now, approve, reject, Create, Cancel,
         cancel_backup_action, cancel_backup_job, hour_passes, vars, storage,
         Poll, withdraw, load, claim, claim_taken, record, restart
<1>2. ASSUME NEW w \in Worker,
             \/ look(w) \/ supersede(w) \/ plan(w) \/ claim_image(w)
             \/ check_cancel(w) \/ refuse(w) \/ export(w) \/ snap_create(w)
             \/ give_up(w) \/ commit(w) \/ mark_failed(w) \/ clean(w)
             \/ drop_snapshot(w) \/ tidy(w)
      PROVE  objects' \subseteq objects
  BY <1>2 DEF look, supersede, plan, claim_image, check_cancel, refuse, export,
              snap_create, give_up, commit, mark_failed, clean, drop_snapshot,
              tidy, storage
<1>3. ASSUME NEW w \in Worker, Retention(w)
      PROVE  objects' \subseteq objects
  BY <1>3 DEF Retention, protect, apply_retention, storage
<1> QED
  BY <1>1, <1>2, <1>3 DEF Next, Backup

(* How a run is, or stays, between its claim and its commit.               *)
LEMMA ClaimantSteps ==
  ASSUME OneWorker, Core, [Next]_vars, NEW w \in Worker
  PROVE  \/ run'[w].pc \notin Claimant
         \/ UNCHANGED <<run, job, objects, excused, faults>>
         \/ claim_image(w) /\ ImageFree
         \/ check_cancel(w) \/ export(w) \/ upload(w)
         \/ /\ snap_create(w) /\ job' = job
            /\ run[w].pc = "prepare" /\ run'[w].pc = "export"
            /\ run'[w].request = run[w].request
            /\ run'[w].previous = run[w].previous
<1>1. CASE \/ RequestStep \/ hour_passes \/ UNCHANGED vars
           \/ \E r \in Request : withdraw(w, r)
  BY <1>1
     DEF RequestStep, schedule, run_now, approve, reject, Create, Cancel,
         cancel_backup_action, cancel_backup_job, hour_passes, vars, storage,
         history, withdraw
<1>2. CASE \E r \in Request : load(w, r)
  BY <1>2 DEF Core, TypeOK, load, NoRun, Claimant
<1>3. CASE claim_taken(w) \/ record(w) \/ restart(w)
  BY <1>3, Stopped DEF claim_taken, record, restart, NoRun, Claimant
<1>4. CASE snap_create(w)
  <2>1. CASE Go(w, "export") /\ job' = job
    <3>1. run[w].pc = "prepare"
      BY <1>4 DEF snap_create, At
    <3> QED
      BY <1>4, <2>1, <3>1, Moved DEF Core, Phase
  <2>2. CASE Go(w, "failed")
    BY <2>2, Moved DEF Core, Phase, Claimant
  <2> QED
    BY <1>4, <2>1, <2>2 DEF snap_create
<1>5. CASE \/ claim(w) \/ refuse(w) \/ upload_raises(w) \/ give_up(w)
           \/ mark_failed(w) \/ drop_snapshot(w) \/ tidy(w)
           \/ (claim_image(w) /\ ~ImageFree)
  <2>1. \E pc \in Phase \ Claimant : Go(w, pc)
    BY <1>5 DEF claim, refuse, upload_raises, give_up, mark_failed,
                drop_snapshot, tidy, claim_image, Phase, Claimant
  <2> QED
    BY <2>1, Moved DEF Core
<1>6. CASE commit(w) \/ clean(w)
  BY <1>6, StepReset DEF commit, clean, Phase, Claimant
<1>7. CASE look(w) \/ supersede(w) \/ plan(w) \/ Retention(w)
  BY <1>7, LookMoves, SupersedeMoves, PlanMoves, ProtectMoves, SweepMoves
     DEF Retention, Claimant
<1> QED
  BY <1>1, <1>2, <1>3, <1>4, <1>5, <1>6, <1>7
     DEF OneWorker, Next, Poll, Backup

LEMMA CopyAtStep ==
  ASSUME OneWorker, Core, CopiesKnown, [Next]_vars, NEW w \in Worker
  PROVE  CopyAt(w)'
<1> DEFINE r == run[w].request
<1>1. CopyAt(w) /\ run[w].step \in Nat /\ \A o \in objects : o.slot \in Nat
  BY AnyStep DEF CopiesKnown, Core, TypeOK, Run, Object, Slot
<1>2. CASE run'[w].pc \notin Claimant
  BY <1>2 DEF CopyAt, Claimant
<1>3. CASE UNCHANGED <<run, job, objects, excused, faults>>
  BY <1>1, <1>3 DEF CopyAt, Stored
<1>4. CASE claim_image(w) /\ ImageFree
  <2>1. \A o \in objects : o.run # r
    BY <1>4, ImageClaimed DEF Core, JobsKnown, Claimed
  <2> QED
    BY <1>4, <2>1, ImageClaimed DEF CopyAt
<1>5. CASE snap_create(w) /\ run[w].pc = "prepare" /\ run'[w].pc = "export"
           /\ run'[w].request = r
  BY <1>1, <1>5 DEF CopyAt, snap_create
<1>6. CASE check_cancel(w)
  <2>1. Go(w, "prepare") /\ run[w].pc = "check" /\ objects' = objects
    BY <1>6 DEF check_cancel, At, storage
  <2>2. run'[w].pc = "prepare" /\ run'[w].request = r
    BY <2>1, Moved DEF Core, Phase
  <2> QED
    BY <1>1, <2>1, <2>2 DEF CopyAt
<1>7. CASE export(w)
  <2>1. /\ Go(w, "upload") /\ run[w].pc = "export" /\ objects' = objects
        /\ run[w].step = 0
    BY <1>7 DEF export, At, storage, Core, RunKnown, RunKnownAt, Counting
  <2>2. run'[w].pc = "upload" /\ run'[w].request = r /\ run'[w].step = 0
    BY <2>1, Moved DEF Core, Phase
  <2> QED
    BY <1>1, <2>1, <2>2 DEF CopyAt, Slot
<1>8. CASE upload(w)
  <2>1. /\ run[w].pc = "upload" /\ run[w].step + 1 \in Slot
        /\ objects' = objects \cup {[slot |-> run[w].step + 1, run |-> r,
                                    at |-> NextStamp(run[w].step + 1)]}
    BY <1>8, UploadPuts
  <2>2. /\ run'[w].request = r /\ run'[w].step = run[w].step + 1
        /\ run'[w].pc \in {"clean", "commit", "upload"}
    BY <1>8, UploadMoves
  <2>3. run'[w].pc = "commit" => run'[w].step = Slots
    BY <1>8 DEF upload, Recorded, Core, TypeOK, Run
  <2>4. \A o \in objects' : o.run = r => o.slot <= run[w].step + 1
    BY <1>1, <2>1 DEF CopyAt
  <2>5. \A s \in Slot : s <= run[w].step + 1 => Stored(r, s)'
    <3> SUFFICES ASSUME NEW s \in Slot, s <= run[w].step + 1
                 PROVE  \E o \in objects' : o.run = r /\ o.slot = s
      BY <2>2 DEF Stored
    <3>1. CASE s <= run[w].step
      BY <1>1, <2>1, <3>1 DEF CopyAt, Stored
    <3>2. CASE s = run[w].step + 1
      <4> DEFINE new == [slot |-> s, run |-> r, at |-> NextStamp(s)]
      <4>1. new \in objects'
        BY <2>1, <3>2
      <4>2. new.run = r /\ new.slot = s
        OBVIOUS
      <4> QED
        BY <4>1, <4>2
    <3>3. s <= run[w].step \/ s = run[w].step + 1
      BY <1>1 DEF Slot
    <3> QED
      BY <3>1, <3>2, <3>3
  <2> QED
    BY <2>2, <2>3, <2>4, <2>5 DEF CopyAt, Stored
<1> QED
  BY <1>2, <1>3, <1>4, <1>5, <1>6, <1>7, <1>8, ClaimantSteps

LEMMA CopiesStep ==
  ASSUME OneWorker, Core, CopiesKnown, [Next]_vars
  PROVE  CopiesKnown'
<1>1. OneCopy'
  <2>1. CASE objects' \subseteq objects
    BY <2>1 DEF CopiesKnown, OneCopy
  <2>2. ASSUME NEW w \in Worker, upload(w) \/ upload_raises(w)
        PROVE  OneCopy'
    <3>1. \A o \in objects : ~(o.run = run[w].request
                               /\ o.slot = run[w].step + 1)
      <4>1. /\ CopyAt(w) /\ run[w].pc = "upload" /\ run[w].step \in Nat
            /\ \A o \in objects : o.slot \in Nat
        BY <2>2, UploadPuts DEF CopiesKnown, Core, TypeOK, Object, Slot
      <4>2. \A o \in objects : o.run = run[w].request => o.slot <= run[w].step
        BY <4>1 DEF CopyAt
      <4>3. \A o \in objects : o.slot <= run[w].step => o.slot # run[w].step + 1
        BY <4>1
      <4> QED
        BY <4>2, <4>3
    <3> QED
      BY <2>2, <3>1, UploadPuts DEF CopiesKnown, OneCopy
  <2> QED
    BY <2>1, <2>2, ObjectSteps
<1> QED
  BY <1>1, CopyAtStep DEF CopiesKnown

-----------------------------------------------------------------------------
(* Newer on a target is claimed later.                                     *)

LEMMA ClaimedSame ==
  ASSUME Core, [Next]_vars, \A w \in Worker : ~(claim_image(w) /\ ImageFree)
  PROVE  Claimed' = Claimed
<1>1. CASE job' = job
  BY <1>1 DEF Claimed
<1>2. ASSUME NEW r \in Request, FailIfRunning(r) PROVE RowsStay
  BY <1>2, FailedIfRunning
<1>3. ASSUME NEW w \in Worker, commit(w) PROVE RowsStay
  <2>1. /\ run[w].request \in Request
        /\ job[run[w].request].status = "RUNNING"
        /\ job' = [job EXCEPT ![run[w].request].status = "SUCCESS",
                              ![run[w].request].copied = TRUE]
    BY <1>3 DEF Core, RunKnown, RunKnownAt, Claiming, commit, At, Current
  <2> QED
    BY <2>1, Committed
<1> QED
  BY <1>1, <1>2, <1>3, RowSteps, RowsStayKnown

LEMMA TurnsStep ==
  ASSUME Core, TurnsDistinct, [Next]_vars
  PROVE  TurnsDistinct'
<1>1. \A q \in Claimed : q \in Request /\ job'[q].turn = job[q].turn
  BY RowsStand DEF Claimed
<1>2. CASE \A w \in Worker : ~(claim_image(w) /\ ImageFree)
  BY <1>1, <1>2, ClaimedSame DEF TurnsDistinct
<1>3. ASSUME NEW w \in Worker, claim_image(w), ImageFree PROVE TurnsDistinct'
  <2> DEFINE r == run[w].request
  <2>1. Claimed' = Claimed \cup {r} /\ r \notin Claimed
    BY <1>3, ImageClaimed
  <2>2. job'[r].turn = Cardinality(Claimed) + 1
    <3>1. PICK type \in Types(run[w].previous) :
            job'[r] = Row(type, run[w].previous)
      BY <1>3, ImageClaimed
    <3> QED
      BY <3>1 DEF Row
  <2>3. \A q \in Claimed : job'[q].turn \in Nat
                           /\ job'[q].turn <= Cardinality(Claimed)
    BY <1>1 DEF Core, TypeOK, Rows, JobsKnown, Claimed
  <2>4. \A q \in Claimed : job'[q].turn # job'[r].turn
    BY <2>2, <2>3, ClaimedFinite
  <2> QED
    BY <1>1, <2>1, <2>4 DEF TurnsDistinct
<1> QED
  BY <1>2, <1>3

LEMMA UploadNewest ==
  ASSUME OneWorker, Core, BaseKnown, StampsKnown, NEW w \in Worker,
         upload(w) \/ upload_raises(w)
  PROVE  StampOrder' /\ StampsBounded'
<1> DEFINE r == run[w].request
           here == run[w].step + 1
           new == [slot |-> here, run |-> r, at |-> NextStamp(here)]
<1>1. /\ run[w].pc = "upload" /\ r \in Request /\ here \in Slot
      /\ objects' = objects \cup {new} /\ job' = job
  BY UploadPuts
<1>2. /\ new.slot = here /\ new.run = r /\ new.at = NextStamp(here)
  OBVIOUS
<1>3. NextStamp(here) \in Nat
  <2>1. new \in Object
    BY <1>1, Stamp
  <2> QED
    BY <1>2, <2>1 DEF Object
<1>4. \A o \in objects : /\ o.run \in Claimed /\ o.at \in Nat
                         /\ o.slot = here => o.at < NextStamp(here)
                         /\ job[o.run].turn \in Nat
  <2>1. \A o \in objects : o.slot = here => o.at < NextStamp(here)
    <3> HIDE DEF here
    <3> QED
      BY <1>1, NewestStamp DEF StampsKnown
  <2>2. \A o \in objects : o.run \in Request /\ o.at \in Nat
    BY DEF Core, TypeOK, Object
  <2>3. \A o \in objects : o.run \in Claimed /\ job[o.run].turn \in Nat
    BY <2>2 DEF Core, TypeOK, Rows, JobsKnown, Claimed
  <2> QED
    BY <2>1, <2>2, <2>3
<1>5. \A q \in Claimed \ {r} : job[q].turn < job[r].turn
  BY <1>1 DEF BaseKnown, BaseAt, Last
<1>6. job[r].turn \in Nat
  BY <1>1 DEF Core, TypeOK, Rows
<1> HIDE DEF new, here
<1>7. StampOrder'
  <2> SUFFICES ASSUME NEW o \in objects', NEW p \in objects',
                      o.slot = p.slot, job[o.run].turn < job[p.run].turn
               PROVE  o.at < p.at
    BY <1>1 DEF StampOrder
  <2>1. CASE o \in objects /\ p \in objects
    BY <2>1 DEF StampsKnown, StampOrder
  <2>2. CASE o \in objects /\ p = new
    BY <1>2, <1>4, <2>2
  <2>3. o # new
    <3> SUFFICES ASSUME o = new PROVE FALSE
      OBVIOUS
    <3>1. job[p.run].turn <= job[r].turn
      BY <1>1, <1>2, <1>4, <1>5, <1>6
    <3> QED
      BY <1>1, <1>2, <1>4, <1>6, <3>1
  <2> QED
    BY <1>1, <2>1, <2>2, <2>3
<1>8. StampsBounded'
  <2>1. PICK n \in Nat : \A o \in objects : o.at <= n
    BY DEF StampsKnown, StampsBounded
  <2> DEFINE m == IF NextStamp(here) <= n THEN n ELSE NextStamp(here)
  <2>2. m \in Nat /\ n <= m /\ NextStamp(here) <= m
    BY <1>3
  <2> HIDE DEF m
  <2>3. \A o \in objects' : o.at <= m
    BY <1>1, <1>2, <1>4, <2>1, <2>2
  <2> QED
    BY <2>2, <2>3 DEF StampsBounded
<1> QED
  BY <1>7, <1>8

LEMMA StampsStep ==
  ASSUME OneWorker, Core, BaseKnown, StampsKnown, [Next]_vars
  PROVE  StampsKnown'
<1>1. CASE objects' \subseteq objects
  <2>1. \A o \in objects : job'[o.run].turn = job[o.run].turn
    BY RowsStand DEF Core, TypeOK, Object, JobsKnown, Claimed
  <2>2. StampOrder'
    BY <1>1, <2>1 DEF StampsKnown, StampOrder
  <2>3. StampsBounded'
    BY <1>1 DEF StampsKnown, StampsBounded
  <2> QED
    BY <2>2, <2>3, TurnsStep DEF StampsKnown
<1>2. ASSUME NEW w \in Worker, upload(w) \/ upload_raises(w)
      PROVE  StampsKnown'
  BY <1>2, UploadNewest, TurnsStep DEF StampsKnown
<1> QED
  BY <1>1, <1>2, ObjectSteps

-----------------------------------------------------------------------------
(* The exports that later runs start from.                                 *)

LEMMA SuccessSame ==
  ASSUME Core, [Next]_vars, \A w \in Worker : ~commit(w)
  PROVE  \A q \in Request :
            /\ (job'[q].status = "SUCCESS") <=> (job[q].status = "SUCCESS")
            /\ job[q].status = "SUCCESS" => /\ job'[q].type = job[q].type
                                            /\ job'[q].base = job[q].base
                                            /\ job'[q].turn = job[q].turn
<1>1. ASSUME NEW r \in Request, FailIfRunning(r)
      PROVE  /\ RowsStay
             /\ \A q \in Request :
                  (job'[q].status = "SUCCESS") <=> (job[q].status = "SUCCESS")
  BY <1>1, FailedIfRunning
<1>2. ASSUME NEW w \in Worker, claim_image(w), ImageFree
      PROVE  /\ run[w].request \in Request
             /\ job'[run[w].request].status = "RUNNING"
             /\ job[run[w].request].status # "SUCCESS"
             /\ \A q \in Request \ {run[w].request} : job'[q] = job[q]
  <2>1. PICK type \in Types(run[w].previous) :
          job'[run[w].request] = Row(type, run[w].previous)
    BY <1>2, ImageClaimed
  <2>2. job'[run[w].request].status = "RUNNING"
    BY <2>1 DEF Row
  <2> QED
    BY <1>2, <2>2, ImageClaimed DEF Claimed
<1> QED
  BY <1>1, <1>2, RowSteps DEF RowsStay

LEMMA NeededSame ==
  ASSUME Core, [Next]_vars, \A w \in Worker : ~commit(w)
  PROVE  LatestFull' = LatestFull /\ Bases' = Bases /\ Needed' = Needed
<1>1. LatestFull' = LatestFull
  BY SuccessSame, FullsSame
<1>2. \A i \in Request :
        /\ (job'[i].type = "incremental" /\ job'[i].status = "SUCCESS")
             <=> (job[i].type = "incremental" /\ job[i].status = "SUCCESS")
        /\ job[i].status = "SUCCESS" => job'[i].base = job[i].base
  BY SuccessSame
<1>3. Bases' = Bases
  BY <1>2 DEF Bases
<1> QED
  BY <1>1, <1>3 DEF Needed

LEMMA NeededKnownRuns ==
  ASSUME Core, BasesDone
  PROVE  \A f \in Needed : f \in Request /\ job[f].status = "SUCCESS"
<1>1. Bases \subseteq Request \cup {NoRequest}
  BY DEF Core, TypeOK, Rows, Bases
<1> QED
  BY <1>1, LatestFullKnown DEF Needed, BasesDone

(* What _protected_keys protects.                                          *)
LEMMA ProtectedBases ==
  ASSUME Core
  PROVE  Protected = Bases \ {NoRequest}
<1>1. \A r \in Request : (Copies(r) # {}) <=> job[r].status = "SUCCESS"
  BY CopiesOfRun, Constants
<1> QED
  BY <1>1 DEF Protected, Bases

(* A full export on a target that is newer than the latest full has no     *)
(* SUCCESS row: a fault left it.                                           *)
LEMMA NewerIsLeftover ==
  ASSUME OneWorker, Core, ObjectsKnown, CopiesKnown, StampsKnown,
         NEW w \in Worker, run[w].pc = "sweep",
         NEW o \in objects, o.run = LatestFull,
         NEW p \in objects, p.slot = o.slot, job[p.run].type = "full",
         o.at < p.at
  PROVE  p.run \in Leftover
<1>1. /\ p.run \in Request /\ o.run \in Request /\ o.run # NoRequest
      /\ p.at \in Nat /\ o.at \in Nat
  BY Constants DEF Core, TypeOK, Object, NoRequest
<1>2. CASE job[p.run].status # "SUCCESS"
  <2>1. p.run \in excused
    BY <1>2 DEF ObjectsKnown, Placed, OneWorker, Working
  <2> QED
    BY <1>2, <2>1 DEF Leftover
<1>3. CASE job[p.run].status = "SUCCESS"
  <2>1. p.run \in Fulls /\ LatestFull # NoRequest
    BY <1>1, <1>3 DEF Fulls
  <2>2. LatestFull \in {r \in Fulls : \A q \in Fulls : job[q].turn <= job[r].turn}
    BY <2>1, Picked DEF LatestFull, LatestOf
  <2>3. job[p.run].turn <= job[o.run].turn /\ o.run \in Claimed
        /\ p.run \in Claimed
    BY <1>1, <1>3, <2>1, <2>2 DEF Fulls, Claimed
  <2>4. job[p.run].turn \in Nat /\ job[o.run].turn \in Nat
    BY <1>1 DEF Core, TypeOK, Rows
  <2>5. CASE job[p.run].turn = job[o.run].turn
    <3>1. p = o
      BY <2>3, <2>5 DEF StampsKnown, TurnsDistinct, CopiesKnown, OneCopy
    <3> QED
      BY <1>1, <3>1
  <2>6. CASE job[p.run].turn < job[o.run].turn
    BY <1>1, <2>6 DEF StampsKnown, StampOrder
  <2> QED
    BY <2>3, <2>4, <2>5, <2>6
<1> QED
  BY <1>2, <1>3

(* ... so there are at most as many of them as faults.                     *)
LEMMA NewerCounted ==
  ASSUME OneWorker, Core, ObjectsKnown, CopiesKnown, StampsKnown,
         LeftoverCounted, NEW w \in Worker, run[w].pc = "sweep",
         NEW o \in objects, o.run = LatestFull,
         NEW D \in SUBSET objects,
         \A p \in D : /\ p.slot = o.slot /\ job[p.run].type = "full"
                      /\ o.at < p.at
  PROVE  Cardinality(D) \in Nat /\ Cardinality(D) <= faults
<1> DEFINE runOf == [p \in D |-> p.run]
<1>1. \A p \in D : p.run \in Leftover
  BY NewerIsLeftover
<1>2. \A p, q \in D : p.run = q.run => p = q
  BY DEF CopiesKnown, OneCopy
<1>3. runOf \in Injection(D, Leftover)
  BY <1>1, <1>2 DEF Injection, IsInjective
<1>4. /\ IsFiniteSet(Leftover) /\ Cardinality(Leftover) \in Nat
      /\ Cardinality(Leftover) <= faults /\ faults \in Nat
  BY LeftoverFinite, BackupAssumption
     DEF LeftoverCounted, Core, TypeOK, BackupAssumption
<1>5. IsFiniteSet(D) /\ Cardinality(D) <= Cardinality(Leftover)
  BY <1>3, <1>4, FS_Injection
<1> QED
  BY <1>4, <1>5, FS_CardinalityType

LEMMA SweepSpares ==
  ASSUME OneWorker, Core, ObjectsKnown, CopiesKnown, StampsKnown,
         LeftoverCounted, NeededKnown, faults < KeepFull,
         NEW w \in Worker, apply_retention(w),
         NEW o \in objects, o.run \in Needed
  PROVE  o \in objects'
<1> DEFINE type == Swept(w).type
           s == Swept(w).slot
           keep == run[w].keep
           D == {p \in Deletable(type, s, keep) : p.at > o.at}
<1>1. run[w].pc = "sweep" /\ keep = Protected
  BY DEF apply_retention, At, NeededKnown, NeedAt
<1>2. PICK gone \in SUBSET Surplus(type, s, keep) : objects' = objects \ gone
  BY DEF apply_retention
<1> SUFFICES ASSUME o \in Surplus(type, s, keep) PROVE FALSE
  BY <1>2
<1>3. /\ o.slot = s /\ job[o.run].type = type /\ o.run \notin keep
      /\ Cardinality(D) >= Keep(type)
  BY DEF Surplus, Deletable
<1>4. o.run = LatestFull /\ o.run # NoRequest
  BY <1>1, <1>3, ProtectedBases DEF Needed
<1>5. type = "full"
  BY <1>3, <1>4, LatestFullKnown
<1>6. /\ D \in SUBSET objects
      /\ \A p \in D : /\ p.slot = o.slot /\ job[p.run].type = "full"
                      /\ o.at < p.at
  <2>1. \A p \in D : /\ p \in objects /\ p.slot = s /\ job[p.run].type = "full"
                     /\ p.at > o.at
    BY <1>5 DEF Deletable
  <2>2. \A p \in objects : p.at \in Nat
    BY DEF Core, TypeOK, Object
  <2> QED
    BY <1>3, <2>1, <2>2
<1> HIDE DEF D
<1>7. Cardinality(D) \in Nat /\ Cardinality(D) <= faults
  BY <1>1, <1>4, <1>6, NewerCounted
<1>8. KeepFull \in Nat /\ faults \in Nat
  BY BackupAssumption DEF BackupAssumption, Core, TypeOK
<1> QED
  BY <1>3, <1>5, <1>7, <1>8 DEF Keep

LEMMA ObjectsKept ==
  ASSUME [Next]_vars,
         \A w \in Worker : ~(clean(w) \/ apply_retention(w))
  PROVE  objects \subseteq objects'
<1>1. CASE \/ RequestStep \/ hour_passes \/ UNCHANGED vars
           \/ \E w \in Worker : Poll(w) \/ restart(w) \/ protect(w)
  BY <1>1
     DEF RequestStep, schedule, run_now, approve, reject, Create, Cancel,
         cancel_backup_action, cancel_backup_job, hour_passes, vars, storage,
         Poll, withdraw, load, claim, claim_taken, record, restart, protect
<1>2. ASSUME NEW w \in Worker, Backup(w), ~clean(w)
      PROVE  objects \subseteq objects'
  BY <1>2 DEF Backup, look, supersede, plan, claim_image, check_cancel, refuse,
              export, snap_create, give_up, commit, mark_failed, drop_snapshot,
              tidy, upload, upload_raises, Put, storage
<1> QED
  BY <1>1, <1>2 DEF Next, Retention

(* No step takes an export that is needed from a target, while fewer       *)
(* faults happened than full exports are kept.                             *)
LEMMA NeededKept ==
  ASSUME OneWorker, Core, ObjectsKnown, CopiesKnown, StampsKnown,
         LeftoverCounted, NeededKnown, [Next]_vars, faults < KeepFull,
         NEW f \in Needed, NEW s \in Slot
  PROVE  \E o \in objects' : o.run = f /\ o.slot = s
<1>1. PICK o \in objects : o.run = f /\ o.slot = s
  BY DEF NeededKnown, NeededStored, Stored
<1>2. CASE \A w \in Worker : ~(clean(w) \/ apply_retention(w))
  BY <1>1, <1>2, ObjectsKept
<1>3. ASSUME NEW w \in Worker, clean(w) PROVE o \in objects'
  <2>1. /\ job[run[w].request].status = "RUNNING"
        /\ {p \in objects : p.run # run[w].request} \subseteq objects'
    BY <1>3 DEF Core, RunKnown, RunKnownAt, Claiming, clean, At, Current
  <2>2. f # run[w].request
    BY <2>1, NeededKnownRuns DEF NeededKnown
  <2> QED
    BY <1>1, <2>1, <2>2
<1>4. ASSUME NEW w \in Worker, apply_retention(w) PROVE o \in objects'
  BY <1>1, <1>4, SweepSpares
<1> QED
  BY <1>1, <1>2, <1>3, <1>4

(* What the sweep keeps was read when it began, and no row is written      *)
(* since.                                                                  *)
LEMMA KeepStep ==
  ASSUME OneWorker, Core, NEW w \in Worker, NeedAt(w), [Next]_vars,
         run'[w].pc = "sweep"
  PROVE  run'[w].keep = Protected'
<1>1. job' = job => Protected' = Protected
  BY DEF Protected, Copies
<1>2. CASE \/ RequestStep \/ hour_passes \/ UNCHANGED vars
           \/ \E r \in Request : withdraw(w, r)
  <2>1. run' = run /\ job' = job
    BY <1>2
       DEF RequestStep, schedule, run_now, approve, reject, Create, Cancel,
           cancel_backup_action, cancel_backup_job, hour_passes, vars, withdraw
  <2> QED
    BY <1>1, <2>1 DEF NeedAt
<1>3. CASE protect(w)
  BY <1>1, <1>3 DEF protect, Core, TypeOK
<1>4. CASE apply_retention(w)
  <2>1. run[w].pc = "sweep" /\ job' = job /\ run'[w].keep = run[w].keep
    BY <1>4 DEF apply_retention, At, Core, TypeOK, Run
  <2> QED
    BY <1>1, <2>1 DEF NeedAt
<1>5. CASE \E r \in Request : load(w, r)
  BY <1>5 DEF Core, TypeOK, load, NoRun
<1>6. CASE claim_taken(w) \/ record(w) \/ restart(w)
  BY <1>6, Stopped DEF claim_taken, record, restart, NoRun
<1>7. CASE \/ claim(w) \/ refuse(w) \/ upload_raises(w) \/ give_up(w)
           \/ mark_failed(w) \/ drop_snapshot(w) \/ tidy(w) \/ claim_image(w)
           \/ check_cancel(w) \/ snap_create(w) \/ export(w)
  <2>1. \E pc \in Phase \ {"sweep"} : Go(w, pc)
    BY <1>7 DEF claim, refuse, upload_raises, give_up, mark_failed,
                drop_snapshot, tidy, claim_image, check_cancel, snap_create,
                export, Phase
  <2> QED
    BY <2>1, Moved DEF Core
<1>8. CASE commit(w) \/ clean(w)
  BY <1>8, StepReset DEF commit, clean, Phase
<1>9. CASE look(w) \/ supersede(w) \/ plan(w) \/ upload(w)
  BY <1>9, LookMoves, SupersedeMoves, PlanMoves, UploadMoves
<1> QED
  BY <1>2, <1>3, <1>4, <1>5, <1>6, <1>7, <1>8, <1>9
     DEF OneWorker, Next, Poll, Backup, Retention

(* An incremental is claimed on the latest full, which stays the latest    *)
(* until it is committed.                                                  *)
LEMMA ClaimantBase ==
  ASSUME OneWorker, Core, BaseKnown, NEW w \in Worker, NeedAt(w),
         [Next]_vars, run'[w].pc \in Claimant,
         job'[run'[w].request].type = "incremental"
  PROVE  job'[run'[w].request].base = LatestFull'
<1>1. CASE UNCHANGED <<run, job, objects, excused, faults>>
  BY <1>1, LatestUnmoved DEF NeedAt
<1>2. CASE claim_image(w) /\ ImageFree
  <2> DEFINE r == run[w].request
  <2>1. /\ r \in Request \ Claimed /\ run'[w].request = r
        /\ \A q \in Request \ {r} : job'[q] = job[q]
    BY <1>2, ImageClaimed
  <2>2. PICK type \in Types(run[w].previous) :
          job'[r] = Row(type, run[w].previous)
    BY <1>2, ImageClaimed
  <2>3. /\ job'[r].status = "RUNNING" /\ job'[r].type = type
        /\ type = "incremental" => job'[r].base = run[w].previous[1]
    BY <2>2 DEF Row
  <2>4. run[w].previous[1] = LatestFull
    BY <1>2, Constants DEF claim_image, At, BaseKnown, BaseAt, Planned
  <2>5. LatestFull' = LatestFull
    BY <2>1, <2>3, FullsSame DEF Claimed
  <2> QED
    BY <2>1, <2>3, <2>4, <2>5
<1>3. CASE check_cancel(w) \/ export(w)
  <2>1. /\ run[w].pc \in Claimant /\ job' = job
        /\ \E pc \in Phase : Go(w, pc)
    BY <1>3 DEF check_cancel, export, At, Claimant, Phase
  <2>2. run'[w].request = run[w].request
    BY <2>1, Moved DEF Core
  <2> QED
    BY <2>1, <2>2, LatestUnmoved DEF NeedAt
<1>4. CASE upload(w)
  BY <1>4, UploadPuts, UploadMoves, LatestUnmoved DEF NeedAt, Claimant
<1>5. CASE /\ snap_create(w) /\ job' = job /\ run[w].pc = "prepare"
           /\ run'[w].request = run[w].request
  BY <1>5, LatestUnmoved DEF NeedAt, Claimant
<1> QED
  BY <1>1, <1>2, <1>3, <1>4, <1>5, ClaimantSteps

LEMMA CommitNeeds ==
  ASSUME OneWorker, Core, BaseKnown, NeededKnown, NEW w \in Worker, commit(w)
  PROVE  /\ run[w].request \in Request
         /\ job'[run[w].request].status = "SUCCESS"
         /\ Bases' \subseteq Bases \cup {LatestFull}
         /\ Needed' \subseteq Needed \cup {run[w].request}
<1> DEFINE r == run[w].request
<1>1. /\ r \in Request /\ job[r].status = "RUNNING" /\ run[w].pc = "commit"
      /\ job' = [job EXCEPT ![r].status = "SUCCESS", ![r].copied = TRUE]
  BY DEF Core, RunKnown, RunKnownAt, Claiming, commit, At, Current
<1>2. /\ RowsStay /\ job'[r].status = "SUCCESS"
      /\ \A q \in Request \ {r} : job'[q] = job[q]
  BY <1>1, Committed
<1>3. job[r].type = "incremental" => job[r].base = LatestFull
  BY <1>1 DEF NeededKnown, NeedAt, Claimant
<1>4. Bases' \subseteq Bases \cup {LatestFull}
  <2> SUFFICES ASSUME NEW i \in Request, job'[i].type = "incremental",
                      job'[i].status = "SUCCESS"
               PROVE  job'[i].base \in Bases \cup {LatestFull}
    BY DEF Bases
  <2>1. CASE i = r
    BY <1>1, <1>2, <1>3, <2>1 DEF RowsStay
  <2>2. CASE i # r
    BY <1>2, <2>2 DEF Bases
  <2> QED
    BY <2>1, <2>2
<1>5. LatestFull' \in {r, LatestFull}
  BY LatestAfterCommit
<1> QED
  BY <1>1, <1>2, <1>4, <1>5 DEF Needed

LEMMA NeededStep ==
  ASSUME OneWorker, Core, Core', BaseKnown, ObjectsKnown, CopiesKnown,
         StampsKnown, LeftoverCounted, NeededKnown, [Next]_vars
  PROVE  NeededKnown'
<1>1. \A w \in Worker : NeedAt(w)'
  BY KeepStep, ClaimantBase DEF NeededKnown, NeedAt
<1>2. BasesDone'
  <2> SUFFICES ASSUME NEW f \in Bases', f # NoRequest
               PROVE  job'[f].status = "SUCCESS"
    BY DEF BasesDone
  <2>1. f \in Bases \cup {LatestFull}
    BY NeededSame, CommitNeeds
  <2>2. f \in Request /\ job[f].status = "SUCCESS"
    BY <2>1, NeededKnownRuns DEF Needed, NeededKnown
  <2> QED
    BY <2>2, RowsStand
<1>3. NeededStored'
  <2> SUFFICES ASSUME faults' < KeepFull, NEW f \in Needed', NEW s \in Slot
               PROVE  \E o \in objects' : o.run = f /\ o.slot = s
    BY DEF NeededStored, Stored
  <2>1. faults < KeepFull
    <3>1. faults' = faults \/ faults' = faults + 1
      BY FaultExcuses DEF LeftoverCounted
    <3> QED
      BY <3>1, BackupAssumption DEF BackupAssumption, Core, TypeOK
  <2>2. CASE f \in Needed
    BY <2>1, <2>2, NeededKept
  <2>3. CASE f \notin Needed
    <3>1. PICK w \in Worker : commit(w)
      BY <2>3, NeededSame
    <3>2. f = run[w].request /\ objects' = objects /\ run[w].pc = "commit"
      BY <2>3, <3>1, CommitNeeds DEF commit, storage, At
    <3>3. Stored(f, s)
      BY <3>2 DEF CopiesKnown, CopyAt, Slot
    <3> QED
      BY <3>2, <3>3 DEF Stored
  <2> QED
    BY <2>2, <2>3
<1> QED
  BY <1>1, <1>2, <1>3 DEF NeededKnown

Kept == LeftoverCounted /\ CopiesKnown /\ StampsKnown /\ NeededKnown

LEMMA KeptHolds ==
  ASSUME OneWorker
  PROVE  Spec => []Kept
<1>1. Init => Kept
  <2> SUFFICES ASSUME Init PROVE Kept
    OBVIOUS
  <2>1. Claimed = {} /\ Fulls = {} /\ Bases = {} /\ Leftover = {}
    BY DEF Init, Claimed, Fulls, Bases, Leftover, NoRows
  <2>2. LatestFull = NoRequest
    BY <2>1 DEF LatestFull, LatestOf, AnyOf
  <2>3. LeftoverCounted
    BY <2>1, FS_EmptySet DEF Init, LeftoverCounted, PreviousDone, NoRun
  <2>4. CopiesKnown /\ StampsKnown
    BY <2>1 DEF Init, CopiesKnown, CopyAt, OneCopy, StampsKnown,
       TurnsDistinct, StampOrder, StampsBounded, NoRun
  <2>5. NeededKnown
    BY <2>1, <2>2 DEF Init, NeededKnown, NeedAt, BasesDone, NeededStored,
       Needed, Claimant, NoRun
  <2> QED
    BY <2>3, <2>4, <2>5 DEF Kept
<1>2. Core /\ Core' /\ BaseKnown /\ ObjectsKnown /\ Kept /\ [Next]_vars => Kept'
  BY LeftoverStep, CopiesStep, StampsStep, NeededStep DEF Kept
<1> QED
  BY <1>1, <1>2, CoreHolds, BaseHolds, ObjectsHold, PTL DEF Spec

(* Retention never deletes the full export that the next incremental, or   *)
(* an incremental that is still stored, depends on, as long as fewer       *)
(* exports are left over by faults than full exports are kept: whatever    *)
(* the sweeps, failed deletions, failed verifications and restarts, and    *)
(* however many requests and targets there are.                            *)
THEOREM BasesKept ==
  ASSUME OneWorker
  PROVE  Spec => []BasesStored
<1>1. Core /\ Kept => BasesStored
  <2> SUFFICES ASSUME Core, Kept, faults < KeepFull, NEW s \in Slot,
                      NEW f \in Depended(s) \ {NoRequest}
               PROVE  Stored(f, s)
    BY DEF BasesStored
  <2>1. f \in Needed
    <3>1. CASE f = PreviousFulls[s]
      BY <3>1, PreviousIsLatest DEF Needed
    <3>2. CASE f # PreviousFulls[s]
      <4>1. PICK i \in Request : /\ f = job[i].base
                                 /\ job[i].type = "incremental"
                                 /\ s \in Copies(i)
        BY <3>2 DEF Depended
      <4>2. job[i].status = "SUCCESS"
        BY <4>1, CopiesOfRun
      <4> QED
        BY <4>1, <4>2 DEF Needed, Bases
    <3> QED
      BY <3>1, <3>2
  <2> QED
    BY <2>1 DEF Kept, NeededKnown, NeededStored
<1> QED
  BY <1>1, CoreHolds, KeptHolds, PTL
==============================================================================
