------------------------ MODULE NodeUpgradeGateProofs ------------------------
(* Proofs about NodeUpgradeGate, for every value of its constants.         *)
EXTENDS NodeUpgradeGate, TLAPS

(* The Worker runs the one Action that is EXECUTING, in a phase of its     *)
(* list, and has flags left to set only while it sets them.                *)
RunKnown ==
    /\ \A g \in Gate, k \in Kind :
         action[g][k] = "EXECUTING"
           <=> worker.pc # "idle" /\ worker.gate = g /\ worker.kind = k
    /\ worker.pc \in PreparePhase \cup {"undo_mon", "undo_flags"}
         => worker.kind = "prepare"
    /\ worker.pc \in ReturnPhase => worker.kind # "prepare"
    /\ worker.todo # {} => worker.pc = "set_flags" /\ gate[worker.gate].host \in Osd

(* What the row, its Actions and the requests in progress say of each other*)
Agree(g) ==
    /\ gate[g].state = "ABSENT" => \A k \in Kind : action[g][k] = "NONE"
    /\ g \in confirming => gate[g].state \notin {"ABSENT", "PREPARING"}
    /\ \A k \in Kind : <<g, k>> \in approving
         => action[g][k] \in {"PENDING_APPROVAL", "REJECTED"}
    /\ action[g]["prepare"] \in {"PENDING_APPROVAL", "APPROVED", "REJECTED"}
         => /\ gate[g].state = "PREPARING"
            /\ gate[g].added = {} /\ ~gate[g].removed
    /\ action[g]["prepare"] = "EXECUTING" /\ worker.pc # "end"
         => gate[g].state = "PREPARING"
    /\ \A k \in {"abort", "recover"} :
         action[g][k] # "NONE"
           => gate[g].state \notin {"ABSENT", "PREPARING", "PREPARED"}

StatesAgree == \A g \in Gate : Agree(g)

(* One phase of a run, or its failure handling: anything but its end.      *)
PhaseStep == PrepareStep \/ ReturnStep \/ phase_raises \/ fail

LEMMA Rows ==
    ASSUME TypeOK, NEW g \in Gate
    PROVE  /\ gate[g] \in GateRow
           /\ gate[g].host \in Host /\ gate[g].state \in GateState
           /\ gate[g].added \in SUBSET Flag /\ gate[g].removed \in BOOLEAN
<1>1. gate[g] \in GateRow
  BY DEF TypeOK
<1> QED
  BY <1>1 DEF GateRow

LEMMA RowWritten ==
    ASSUME TypeOK, NEW g \in Gate, NEW r \in GateRow,
           r.added # {} => r.host \in Osd,
           r.removed => r.host \in Mon,
           gate' = [gate EXCEPT ![g] = r]
    PROVE  /\ gate' \in [Gate -> GateRow]
           /\ \A o \in Gate : /\ gate'[o].added # {} => gate'[o].host \in Osd
                              /\ gate'[o].removed => gate'[o].host \in Mon
           /\ gate'[g] = r /\ \A o \in Gate \ {g} : gate'[o] = gate[o]
<1>1. gate \in [Gate -> GateRow]
  BY DEF TypeOK
<1>2. gate'[g] = r /\ \A o \in Gate \ {g} : gate'[o] = gate[o]
  BY <1>1
<1> QED
  BY <1>1, <1>2 DEF TypeOK

(* A field of a row.                                                       *)
LEMMA FieldWritten ==
    ASSUME TypeOK, NEW g \in Gate,
           \/ \E s \in GateState : gate' = [gate EXCEPT ![g].state = s]
           \/ \E S \in SUBSET Flag :
                /\ S # {} => gate[g].host \in Osd
                /\ gate' = [gate EXCEPT ![g].added = S]
           \/ \E b \in BOOLEAN : /\ b => gate[g].host \in Mon
                                 /\ gate' = [gate EXCEPT ![g].removed = b]
           \/ gate' = gate
    PROVE  /\ gate' \in [Gate -> GateRow]
           /\ \A o \in Gate : /\ gate'[o].added # {} => gate'[o].host \in Osd
                              /\ gate'[o].removed => gate'[o].host \in Mon
           /\ gate'[g].host = gate[g].host
           /\ \A o \in Gate \ {g} : gate'[o] = gate[o]
<1>0. gate[g] \in GateRow
  BY Rows
<1>1. ASSUME NEW s \in GateState, gate' = [gate EXCEPT ![g].state = s]
      PROVE  /\ gate' \in [Gate -> GateRow]
             /\ \A o \in Gate : /\ gate'[o].added # {} => gate'[o].host \in Osd
                                /\ gate'[o].removed => gate'[o].host \in Mon
             /\ gate'[g].host = gate[g].host
             /\ \A o \in Gate \ {g} : gate'[o] = gate[o]
  <2> DEFINE r == [gate[g] EXCEPT !.state = s]
  <2>1. r \in GateRow /\ r.host = gate[g].host /\ r.added = gate[g].added
        /\ r.removed = gate[g].removed
    BY <1>0 DEF GateRow
  <2>2. gate' = [gate EXCEPT ![g] = r]
    BY <1>1
  <2>3. /\ gate[g].added # {} => gate[g].host \in Osd
        /\ gate[g].removed => gate[g].host \in Mon
    BY DEF TypeOK
  <2> HIDE DEF r
  <2> QED
    BY <2>1, <2>2, <2>3, RowWritten
<1>2. ASSUME NEW S \in SUBSET Flag, S # {} => gate[g].host \in Osd,
             gate' = [gate EXCEPT ![g].added = S]
      PROVE  /\ gate' \in [Gate -> GateRow]
             /\ \A o \in Gate : /\ gate'[o].added # {} => gate'[o].host \in Osd
                                /\ gate'[o].removed => gate'[o].host \in Mon
             /\ gate'[g].host = gate[g].host
             /\ \A o \in Gate \ {g} : gate'[o] = gate[o]
  <2> DEFINE r == [gate[g] EXCEPT !.added = S]
  <2>1. r \in GateRow /\ r.host = gate[g].host /\ r.added = S
        /\ r.removed = gate[g].removed
    BY <1>0 DEF GateRow
  <2>2. gate' = [gate EXCEPT ![g] = r]
    BY <1>2
  <2>3. gate[g].removed => gate[g].host \in Mon
    BY DEF TypeOK
  <2> HIDE DEF r
  <2> QED
    BY <1>2, <2>1, <2>2, <2>3, RowWritten
<1>3. ASSUME NEW b \in BOOLEAN, b => gate[g].host \in Mon,
             gate' = [gate EXCEPT ![g].removed = b]
      PROVE  /\ gate' \in [Gate -> GateRow]
             /\ \A o \in Gate : /\ gate'[o].added # {} => gate'[o].host \in Osd
                                /\ gate'[o].removed => gate'[o].host \in Mon
             /\ gate'[g].host = gate[g].host
             /\ \A o \in Gate \ {g} : gate'[o] = gate[o]
  <2> DEFINE r == [gate[g] EXCEPT !.removed = b]
  <2>1. r \in GateRow /\ r.host = gate[g].host /\ r.added = gate[g].added
        /\ r.removed = b
    BY <1>0 DEF GateRow
  <2>2. gate' = [gate EXCEPT ![g] = r]
    BY <1>3
  <2>3. gate[g].added # {} => gate[g].host \in Osd
    BY DEF TypeOK
  <2> HIDE DEF r
  <2> QED
    BY <1>3, <2>1, <2>2, <2>3, RowWritten
<1>4. CASE gate' = gate
  BY <1>4 DEF TypeOK
<1> QED
  BY <1>1, <1>2, <1>3, <1>4

(* What a phase makes of the run: the same run in another phase, never idle,*)
(* and with flags to set only in set_flags.                                *)
RunMoves ==
    /\ worker.pc \notin {"idle", "end"} /\ G \in Gate /\ worker.kind \in Kind
    /\ worker' \in Run
    /\ worker'.gate = G /\ worker'.kind = worker.kind /\ worker'.pc # "idle"
    /\ worker'.todo # {} => worker'.pc = "set_flags" /\ Node \in Osd
    /\ worker'.pc \in PreparePhase \cup {"undo_mon", "undo_flags"}
         => worker.kind = "prepare"
    /\ worker'.pc \in ReturnPhase => worker.kind # "prepare"

LEMMA PhaseMoves ==
    ASSUME TypeOK, RunKnown, PhaseStep
    PROVE  RunMoves
<1>0. /\ worker \in Run /\ worker.kind \in Kind /\ worker.todo \in SUBSET Flag
      /\ worker.pc # "idle" => G \in Gate
  BY DEF TypeOK, Run, G
<1> DEFINE Fits(pc) ==
      /\ pc \in Phase \ {"idle"}
      /\ pc \in PreparePhase \cup {"undo_mon", "undo_flags"}
           => worker.kind = "prepare"
      /\ pc \in ReturnPhase => worker.kind # "prepare"
<1>1. /\ Fits("fail") /\ Fits("end")
      /\ worker.kind = "prepare" =>
           /\ Fits("remove_mon") /\ Fits("mark_prepared") /\ Fits("set_flags")
           /\ Fits("undo_mon") /\ Fits("undo_flags")
      /\ worker.kind # "prepare" =>
           Fits("rejoin_mon") /\ Fits("clear_flags") /\ Fits("mark_done")
  BY DEF Phase, PreparePhase, ReturnPhase
<1>2. ASSUME NEW pc, Fits(pc), worker.pc \notin {"idle", "end"}, Goto(pc)
      PROVE  RunMoves
  BY <1>0, <1>2 DEF RunMoves, Goto, Run, G
<1>3. ASSUME NEW pc, Fits(pc), worker.pc \notin {"idle", "end"}, worker.todo = {},
             worker' = [worker EXCEPT !.pc = pc, !.dirty = TRUE]
      PROVE  RunMoves
  BY <1>0, <1>3 DEF RunMoves, Run, G
<1>4. worker.pc \in PreparePhase \cup {"undo_mon", "undo_flags"}
        => worker.kind = "prepare" /\ worker.pc \notin {"idle", "end"}
  BY DEF RunKnown, PreparePhase
<1>5. worker.pc \in ReturnPhase
        => worker.kind # "prepare" /\ worker.pc \notin {"idle", "end"}
  BY DEF RunKnown, ReturnPhase
<1> HIDE DEF Fits
<1>6. ASSUME worker.pc \notin {"idle", "end"}, FailPhase PROVE RunMoves
  <2>1. CASE worker.kind = "prepare"
    BY <1>1, <1>2, <1>6, <2>1 DEF FailPhase
  <2>2. CASE worker.kind # "prepare"
    BY <1>1, <1>2, <1>6, <2>2 DEF FailPhase
  <2> QED
    BY <2>1, <2>2
<1>7. CASE backup
  <2>1. worker.pc = "backup" /\ worker.kind = "prepare"
    BY <1>4, <1>7 DEF backup, At, PreparePhase
  <2> DEFINE S == IF HasOsd(Node) THEN Flag \ Flags ELSE {}
  <2>2. S \in SUBSET Flag /\ (S # {} => Node \in Osd)
    BY DEF HasOsd
  <2>3. worker' = [worker EXCEPT !.pc = "set_flags", !.todo = S]
    BY <1>7 DEF backup
  <2> HIDE DEF S
  <2> QED
    BY <1>0, <2>1, <2>2, <2>3 DEF RunMoves, Run, G, Phase, PreparePhase, ReturnPhase
<1>8. ASSUME NEW f \in Flag, set_flag(f) PROVE RunMoves
  <2>1. worker.pc = "set_flags" /\ worker.kind = "prepare" /\ Node \in Osd
    BY <1>8 DEF set_flag, At, RunKnown, PreparePhase, Node, G
  <2>2. CASE FailPhase
    BY <1>6, <2>1, <2>2
  <2>3. CASE worker' = [worker EXCEPT !.todo = @ \ {f}]
    BY <1>0, <2>1, <2>3 DEF RunMoves, Run, G, ReturnPhase
  <2> QED
    BY <1>8, <2>2, <2>3 DEF set_flag
<1>9. CASE set_flags_done \/ no_mon_to_remove \/ mark_prepared
  BY <1>1, <1>2, <1>4, <1>9 DEF set_flags_done, no_mon_to_remove,
     mark_prepared, At, PreparePhase
<1>10. CASE remove_mon
  BY <1>1, <1>2, <1>4, <1>6, <1>10 DEF remove_mon, At, PreparePhase
<1>11. CASE undo_mon \/ undo_flags
  <2>1. worker.kind = "prepare" /\ worker.pc \notin {"idle", "end"}
        /\ worker.todo = {}
    BY <1>4, <1>11 DEF undo_mon, undo_flags, At, RunKnown
  <2> QED
    BY <1>1, <1>2, <1>3, <1>11, <2>1 DEF undo_mon, undo_flags
<1>12. CASE fail
  BY <1>1, <1>2, <1>12 DEF fail, At
<1>13. CASE phase_raises
  BY <1>4, <1>5, <1>6, <1>13 DEF phase_raises
<1>14. CASE \/ reinstall \/ rejoin_mon \/ flags_stay \/ abort_clear_flags
            \/ recover_clear_flags \/ mark_done
  <2>1. worker.kind # "prepare" /\ worker.pc \notin {"idle", "end"}
    BY <1>5, <1>14 DEF reinstall, rejoin_mon, flags_stay, abort_clear_flags,
       recover_clear_flags, mark_done, At, ReturnPhase
  <2>2. \/ Goto("rejoin_mon") \/ Goto("clear_flags") \/ Goto("mark_done")
        \/ Goto("end") \/ FailPhase
    BY <1>14 DEF reinstall, rejoin_mon, flags_stay, abort_clear_flags,
       recover_clear_flags, mark_done
  <2> QED
    BY <1>1, <1>2, <1>6, <2>1, <2>2
<1> QED
  BY <1>7, <1>8, <1>9, <1>10, <1>11, <1>12, <1>13, <1>14
     DEF PhaseStep, PrepareStep, ReturnStep

(* ... and what it leaves alone.                                           *)
LEMMA PhaseLeaves ==
    ASSUME TypeOK, RunKnown, PhaseStep
    PROVE  /\ action' = action /\ confirming' = confirming
           /\ approving' = approving
           /\ gate' \in [Gate -> GateRow]
           /\ \A o \in Gate : /\ gate'[o].added # {} => gate'[o].host \in Osd
                              /\ gate'[o].removed => gate'[o].host \in Mon
           /\ gate'[G].host = gate[G].host
           /\ \A o \in Gate \ {G} : gate'[o] = gate[o]
<1>0. G \in Gate /\ gate[G].added \in SUBSET Flag /\ gate[G].host \in Host
  BY PhaseMoves, Rows DEF RunMoves
<1>1. action' = action /\ confirming' = confirming /\ approving' = approving
  BY DEF PhaseStep, PrepareStep, ReturnStep, phase_raises, backup, set_flag,
     set_flags_done, remove_mon, no_mon_to_remove, mark_prepared, undo_mon,
     undo_flags, fail, reinstall, rejoin_mon, flags_stay, abort_clear_flags,
     recover_clear_flags, mark_done, requests
<1>2. \/ \E s \in {"PREPARED", "FAILED", "DONE"} : gate' = [gate EXCEPT ![G].state = s]
      \/ gate' = [gate EXCEPT ![G].added = {}]
      \/ \E f \in Flag : set_flag(f) /\ gate' = [gate EXCEPT ![G].added = @ \cup {f}]
      \/ gate' = [gate EXCEPT ![G].removed = FALSE]
      \/ Node \in Mon /\ gate' = [gate EXCEPT ![G].removed = TRUE]
      \/ gate' = gate
  BY DEF PhaseStep, PrepareStep, ReturnStep, phase_raises, backup, set_flag,
     set_flags_done, remove_mon, no_mon_to_remove, mark_prepared, undo_mon,
     undo_flags, fail, reinstall, rejoin_mon, flags_stay, abort_clear_flags,
     recover_clear_flags, mark_done, Removable
<1>3. \/ \E s \in GateState : gate' = [gate EXCEPT ![G].state = s]
      \/ \E S \in SUBSET Flag :
           /\ S # {} => gate[G].host \in Osd
           /\ gate' = [gate EXCEPT ![G].added = S]
      \/ \E b \in BOOLEAN : /\ b => gate[G].host \in Mon
                            /\ gate' = [gate EXCEPT ![G].removed = b]
      \/ gate' = gate
  <2>1. ASSUME NEW f \in Flag, set_flag(f), gate' = [gate EXCEPT ![G].added = @ \cup {f}]
        PROVE  \E S \in SUBSET Flag :
                 /\ S # {} => gate[G].host \in Osd
                 /\ gate' = [gate EXCEPT ![G].added = S]
    <3>1. gate[G].host \in Osd
      BY <2>1 DEF set_flag, RunKnown, G
    <3>2. gate[G].added \cup {f} \in SUBSET Flag
      BY <1>0
    <3> QED
      BY <2>1, <3>1, <3>2
  <2>2. {"PREPARED", "FAILED", "DONE"} \subseteq GateState
    BY DEF GateState, NonTerminal
  <2> QED
    BY <1>2, <2>1, <2>2 DEF Node
<1> QED
  BY <1>0, <1>1, <1>3, FieldWritten

-----------------------------------------------------------------------------
(* Types, the run and the agreement of the states, step by step.           *)
LEMMA PhaseKeeps ==
    ASSUME TypeOK, RunKnown, StatesAgree, PhaseStep
    PROVE  TypeOK' /\ RunKnown' /\ StatesAgree'
<1> USE GateAssumption DEF GateAssumption
<1>1. RunMoves
  BY PhaseMoves
<1>2. /\ action' = action /\ confirming' = confirming /\ approving' = approving
      /\ gate' \in [Gate -> GateRow]
      /\ \A o \in Gate : /\ gate'[o].added # {} => gate'[o].host \in Osd
                         /\ gate'[o].removed => gate'[o].host \in Mon
      /\ gate'[G].host = gate[G].host
      /\ \A o \in Gate \ {G} : gate'[o] = gate[o]
  BY PhaseLeaves
<1>3. G \in Gate /\ worker.gate = G /\ worker.pc \notin {"idle", "end"}
  BY <1>1 DEF RunMoves, G
<1>4. lock' \in {lock, NoGate}
  BY DEF PhaseStep, PrepareStep, ReturnStep, phase_raises, backup, set_flag,
     set_flags_done, remove_mon, no_mon_to_remove, mark_prepared, undo_mon,
     undo_flags, fail, reinstall, rejoin_mon, flags_stay, abort_clear_flags,
     recover_clear_flags, mark_done, DoneReleases, Release
<1>5. stuck' \in {stuck, stuck \cup {G}} /\ lost' \in {lost, lost \cup {G}}
  BY DEF PhaseStep, PrepareStep, ReturnStep, phase_raises, backup, set_flag,
     set_flags_done, remove_mon, no_mon_to_remove, mark_prepared, undo_mon,
     undo_flags, fail, reinstall, rejoin_mon, flags_stay, abort_clear_flags,
     recover_clear_flags, mark_done, history
<1>6. \/ remover' = remover
      \/ \E r \in Gate \cup {NoGate} : remover' = [remover EXCEPT ![Node] = r]
  <2>1. CASE remove_mon
    <3>1. Node \in Mon
      BY <2>1 DEF remove_mon, Removable
    <3> QED
      BY <1>3, <2>1, <3>1 DEF remove_mon, TypeOK
  <2>2. CASE ~remove_mon
    BY <2>2 DEF PhaseStep, PrepareStep, ReturnStep, phase_raises, backup,
       set_flag, set_flags_done, no_mon_to_remove, mark_prepared, undo_mon,
       undo_flags, fail, reinstall, rejoin_mon, flags_stay, abort_clear_flags,
       recover_clear_flags, mark_done, Rejoin, UndoRejoin, cluster
  <2> QED
    BY <2>1, <2>2
<1>7. \/ setter' = setter
      \/ \E f \in Flag : WithFlag(f)
      \/ \E S \in SUBSET Flag : Unset(S)
  <2>1. \A g \in Gate : Journaled(g) \in SUBSET Flag /\ Flags \in SUBSET Flag
    BY DEF Journaled, Flags
  <2>2. CASE undo_flags \/ abort_clear_flags
    BY <1>3, <2>1, <2>2 DEF undo_flags, abort_clear_flags, UnsetOwn, AbortClears
  <2>3. CASE recover_clear_flags
    BY <1>3, <2>1, <2>3 DEF recover_clear_flags
  <2>4. CASE ~(undo_flags \/ abort_clear_flags \/ recover_clear_flags)
    BY <2>4 DEF PhaseStep, PrepareStep, ReturnStep, phase_raises, backup,
       set_flag, set_flags_done, remove_mon, no_mon_to_remove, mark_prepared,
       undo_mon, fail, reinstall, rejoin_mon, flags_stay, mark_done, cluster
  <2> QED
    BY <2>2, <2>3, <2>4
<1>8. before' \subseteq before
  BY DEF PhaseStep, PrepareStep, ReturnStep, phase_raises, backup, set_flag,
     set_flags_done, remove_mon, no_mon_to_remove, mark_prepared, undo_mon,
     undo_flags, fail, reinstall, rejoin_mon, flags_stay, abort_clear_flags,
     recover_clear_flags, mark_done, cluster, UnsetOwn
<1>9. TypeOK'
  <2>1. setter' \in [Flag -> Gate \cup {NoGate, Operator}]
    BY <1>3, <1>7 DEF TypeOK, WithFlag, Unset
  <2>2. remover' \in [Mon -> Gate \cup {NoGate}]
    BY <1>6 DEF TypeOK
  <2>3. stuck' \in SUBSET Gate /\ lost' \in SUBSET Gate /\ before' \in SUBSET Flag
        /\ lock' \in Gate \cup {NoGate}
    BY <1>3, <1>4, <1>5, <1>8 DEF TypeOK
  <2>4. worker' \in Run /\ worker'.gate \in Gate
    BY <1>1, <1>3 DEF RunMoves
  <2> QED
    BY <1>2, <2>1, <2>2, <2>3, <2>4 DEF TypeOK
<1>10. RunKnown'
  BY <1>1, <1>2, <1>3 DEF RunKnown, RunMoves, G, Node
<1>11. StatesAgree'
  <2>1. action[G][worker.kind] = "EXECUTING"
    BY <1>1, <1>3 DEF RunKnown, RunMoves
  <2>2. gate[G].state # "ABSENT"
    BY <1>1, <1>3, <2>1 DEF StatesAgree, Agree, RunMoves
  <2>3. worker.kind = "prepare" => gate[G].state = "PREPARING"
    BY <1>3, <2>1 DEF StatesAgree, Agree
  <2>4. worker.kind # "prepare"
          => gate[G].state \notin {"ABSENT", "PREPARING", "PREPARED"}
    BY <1>1, <1>3, <2>1 DEF StatesAgree, Agree, RunMoves, Kind
  <2>5. \/ gate'[G].state = gate[G].state
        \/ gate'[G].state \in {"FAILED", "DONE"} /\ worker'.pc = "end"
        \/ /\ gate'[G].state = "PREPARED" /\ worker.kind = "prepare"
           /\ worker'.pc = "end"
    <3>1. ASSUME NEW S, \/ gate' = [gate EXCEPT ![G].added = S]
                        \/ gate' = [gate EXCEPT ![G].removed = S]
                        \/ gate' = gate
          PROVE  gate'[G].state = gate[G].state
      BY <1>3, <3>1, Rows DEF TypeOK, GateRow
    <3>2. CASE mark_prepared
      BY <1>3, <3>2, Rows DEF mark_prepared, At, RunKnown, PreparePhase, Goto,
         TypeOK, GateRow, Run
    <3>3. CASE fail \/ mark_done
      <4>1. worker'.pc = "end"
        BY <3>3 DEF fail, mark_done, Goto, TypeOK, Run
      <4> QED
        BY <1>3, <3>3, <4>1, Rows DEF fail, mark_done, TypeOK, GateRow
    <3>4. CASE ~(mark_prepared \/ fail \/ mark_done)
      BY <3>1, <3>4 DEF PhaseStep, PrepareStep, ReturnStep, phase_raises,
         backup, set_flag, set_flags_done, remove_mon, no_mon_to_remove,
         undo_mon, undo_flags, reinstall, rejoin_mon, flags_stay,
         abort_clear_flags, recover_clear_flags
    <3> QED
      BY <3>2, <3>3, <3>4
  <2>6. action[G]["prepare"] \notin {"PENDING_APPROVAL", "APPROVED", "REJECTED"}
    <3>1. CASE worker.kind = "prepare"
      BY <2>1, <3>1
    <3>2. CASE worker.kind # "prepare"
      BY <1>3, <2>4, <3>2 DEF StatesAgree, Agree
    <3> QED
      BY <3>1, <3>2
  <2>7. ASSUME NEW g \in Gate \ {G} PROVE action[g]["prepare"] # "EXECUTING"
    BY <2>7 DEF RunKnown, Kind, G
  <2>8. \A k \in {"abort", "recover"} : worker.kind = "prepare" => action[G][k] = "NONE"
    BY <1>3, <2>3 DEF StatesAgree, Agree
  <2>9. action[G]["prepare"] = "EXECUTING" => worker.kind = "prepare"
    BY <1>3 DEF RunKnown, Kind
  <2>10. ASSUME NEW g \in Gate \ {G} PROVE Agree(g)'
    <3>1. Agree(g) /\ gate'[g] = gate[g] /\ action[g]["prepare"] # "EXECUTING"
      BY <1>2, <2>7, <2>10 DEF StatesAgree
    <3> QED
      BY <1>2, <3>1 DEF Agree
  <2>11. ASSUME NEW g \in Gate, g = G PROVE Agree(g)'
    <3>1. Agree(g)
      BY <2>11 DEF StatesAgree
    <3> QED
      BY <1>2, <2>2, <2>3, <2>4, <2>5, <2>6, <2>8, <2>9, <2>11, <3>1 DEF Agree
  <2> QED
    BY <2>10, <2>11 DEF StatesAgree
<1> QED
  BY <1>9, <1>10, <1>11

RequestStep == \E g \in Gate : Request(g)
DecideStep == \E g \in Gate, k \in Kind : Decide(g, k)
TakeStep == \E g \in Gate, k \in Kind : Take(g, k)
OperatorStep == \E f \in Flag : operator_sets(f) \/ operator_unsets(f)

LEMMA NextSplits ==
    Next => \/ RequestStep \/ DecideStep \/ TakeStep \/ OperatorStep
            \/ PhaseStep \/ end \/ WorkerRestart
  BY DEF Next, WorkerStep, PhaseStep, RequestStep, DecideStep, TakeStep,
     OperatorStep

LEMMA RequestKeeps ==
    ASSUME TypeOK, RunKnown, StatesAgree, RequestStep
    PROVE  TypeOK' /\ RunKnown' /\ StatesAgree'
<1> USE GateAssumption DEF GateAssumption
<1>0. PICK g \in Gate : Request(g)
  BY DEF RequestStep
<1>1. Agree(g) /\ gate[g] \in GateRow /\ "prepare" \in Kind /\ "abort" \in Kind
      /\ "recover" \in Kind
  BY Rows DEF StatesAgree, Kind
<1>2. {"PENDING_APPROVAL", "NONE"} \subseteq ActionStatus
  BY DEF ActionStatus
<1>3. worker.pc # "idle" => worker.gate \in Gate /\ worker.kind \in Kind
                            /\ gate[worker.gate].state # "ABSENT"
  <2>1. worker.pc # "idle" => worker.gate \in Gate /\ worker.kind \in Kind
    BY DEF TypeOK, Run
  <2>2. worker.pc # "idle" => action[worker.gate][worker.kind] = "EXECUTING"
    BY <2>1 DEF RunKnown
  <2> QED
    BY <2>1, <2>2 DEF StatesAgree, Agree
<1>4. worker.todo # {} => worker.pc # "idle"
  BY DEF RunKnown
<1>5. CASE confirm_recheck(g)
  <2>1. /\ gate' = gate /\ action' = action /\ worker' = worker
        /\ approving' = approving /\ confirming' = confirming \cup {g}
        /\ gate[g].state = "PREPARED"
    BY <1>5 DEF confirm_recheck
  <2>2. TypeOK'
    BY <1>5, <2>1 DEF TypeOK, confirm_recheck, cluster, history, Run
  <2>3. RunKnown'
    BY <2>1 DEF RunKnown
  <2>4. ASSUME NEW o \in Gate PROVE Agree(o)'
    BY <2>1 DEF StatesAgree, Agree
  <2> QED
    BY <2>2, <2>3, <2>4 DEF StatesAgree
<1>6. ASSUME NEW s \in GateState \ {"ABSENT", "PREPARING"}, NEW k \in {"abort", "recover"},
             s \notin {"PREPARED"},
             gate[g].state \notin {"ABSENT", "PREPARING"},
             action[g][k] \notin InFlight,
             gate' = [gate EXCEPT ![g].state = s],
             action' = [action EXCEPT ![g][k] = "PENDING_APPROVAL"],
             confirming' \in SUBSET confirming,
             approving' = approving,
             UNCHANGED <<lock, worker, cluster, history>>
      PROVE  TypeOK' /\ RunKnown' /\ StatesAgree'
  <2>1. k \in Kind /\ k # "prepare"
    BY DEF Kind
  <2>2. /\ action' \in [Gate -> [Kind -> ActionStatus]]
        /\ action'[g][k] = "PENDING_APPROVAL"
        /\ \A o \in Gate, l \in Kind :
             o # g \/ l # k => action'[o][l] = action[o][l]
    BY <1>2, <1>6, <2>1 DEF TypeOK
  <2>3. /\ gate' \in [Gate -> GateRow]
        /\ \A o \in Gate : /\ gate'[o].added # {} => gate'[o].host \in Osd
                           /\ gate'[o].removed => gate'[o].host \in Mon
        /\ gate'[g].host = gate[g].host
        /\ \A o \in Gate \ {g} : gate'[o] = gate[o]
    BY <1>6, FieldWritten
  <2>4. gate'[g].state = s
    BY <1>1, <1>6 DEF TypeOK, GateRow
  <2>5. TypeOK'
    BY <1>6, <2>2, <2>3 DEF TypeOK, cluster, history
  <2>6. RunKnown'
    <3>1. \A o \in Gate, l \in Kind :
            action'[o][l] = "EXECUTING" <=> action[o][l] = "EXECUTING"
      BY <1>6, <2>2 DEF InFlight
    <3>2. worker.todo # {} => gate'[worker.gate].host = gate[worker.gate].host
      BY <1>3, <1>4, <2>3
    <3> QED
      BY <1>6, <3>1, <3>2 DEF RunKnown
  <2>7. ASSUME NEW o \in Gate, o # g PROVE Agree(o)'
    <3>1. Agree(o) /\ gate'[o] = gate[o] /\ \A l \in Kind : action'[o][l] = action[o][l]
      BY <2>2, <2>3, <2>7 DEF StatesAgree
    <3> QED
      BY <1>1, <1>6, <3>1 DEF Agree
  <2>8. Agree(g)'
    <3>1. action'[g]["prepare"] = action[g]["prepare"]
      BY <1>1, <2>1, <2>2
    <3>2. action[g]["prepare"] \notin {"PENDING_APPROVAL", "APPROVED", "REJECTED"}
      BY <1>1, <1>6 DEF Agree
    <3>3. ~(action[g]["prepare"] = "EXECUTING" /\ worker.pc # "end")
      BY <1>1, <1>6 DEF Agree
    <3>4. \A l \in Kind : <<g, l>> \in approving
            => action'[g][l] \in {"PENDING_APPROVAL", "REJECTED"}
      BY <1>1, <2>2 DEF Agree
    <3> QED
      BY <1>6, <2>4, <3>1, <3>2, <3>3, <3>4 DEF Agree
  <2> QED
    BY <2>5, <2>6, <2>7, <2>8 DEF StatesAgree
<1>7. CASE abort_node_os_gate(g)
  <2>1. "ABORTING" \in GateState \ {"ABSENT", "PREPARING"}
    BY DEF GateState, NonTerminal
  <2>2. action[g]["abort"] \notin InFlight
    BY <1>7 DEF abort_node_os_gate, InFlight
  <2> QED
    BY <1>6, <1>7, <2>1, <2>2 DEF abort_node_os_gate, requests
<1>8. CASE confirm_node_os_gate(g)
  <2>1. "RECOVERING" \in GateState \ {"ABSENT", "PREPARING"}
    BY DEF GateState, NonTerminal
  <2>2. gate[g].state \notin {"ABSENT", "PREPARING"}
    BY <1>1, <1>8 DEF confirm_node_os_gate, Agree
  <2>3. CASE action[g]["recover"] \in InFlight
    <3>1. /\ gate' = gate /\ action' = action /\ worker' = worker
          /\ approving' = approving /\ confirming' \subseteq confirming
      BY <1>8, <2>3 DEF confirm_node_os_gate
    <3>2. TypeOK'
      BY <1>8, <3>1 DEF TypeOK, confirm_node_os_gate, cluster, history
    <3>3. RunKnown'
      BY <3>1 DEF RunKnown
    <3>4. ASSUME NEW o \in Gate PROVE Agree(o)'
      BY <3>1 DEF StatesAgree, Agree
    <3> QED
      BY <3>2, <3>3, <3>4 DEF StatesAgree
  <2>4. CASE action[g]["recover"] \notin InFlight
    BY <1>6, <1>8, <2>1, <2>2, <2>4 DEF confirm_node_os_gate
  <2> QED
    BY <2>3, <2>4
<1>9. ASSUME NEW h \in Host, prepare_node_os_gate(g, h)
      PROVE  TypeOK' /\ RunKnown' /\ StatesAgree'
  <2> DEFINE r == [NoRow EXCEPT !.host = h, !.state = "PREPARING"]
  <2>0. NoRow \in GateRow /\ "PREPARING" \in GateState
    BY DEF NoRow, GateRow, GateState, NonTerminal
  <2>1. r \in GateRow /\ r.added = {} /\ r.removed = FALSE /\ r.state = "PREPARING"
    BY <2>0 DEF GateRow, NoRow
  <2>2. gate' = [gate EXCEPT ![g] = r]
    BY <1>9 DEF prepare_node_os_gate
  <2> HIDE DEF r
  <2>3. /\ gate' \in [Gate -> GateRow]
        /\ \A o \in Gate : /\ gate'[o].added # {} => gate'[o].host \in Osd
                           /\ gate'[o].removed => gate'[o].host \in Mon
        /\ gate'[g] = r /\ \A o \in Gate \ {g} : gate'[o] = gate[o]
    BY <2>1, <2>2, RowWritten
  <2>4. /\ action' \in [Gate -> [Kind -> ActionStatus]]
        /\ action'[g]["prepare"] = "PENDING_APPROVAL"
        /\ \A o \in Gate, l \in Kind :
             o # g \/ l # "prepare" => action'[o][l] = action[o][l]
    <3>1. action' = [action EXCEPT ![g]["prepare"] = "PENDING_APPROVAL"]
      BY <1>9 DEF prepare_node_os_gate
    <3> QED
      BY <1>1, <1>2, <3>1 DEF TypeOK
  <2>5. \A l \in Kind : action[g][l] = "NONE"
    BY <1>1, <1>9 DEF prepare_node_os_gate, Agree
  <2>6. TypeOK'
    BY <1>9, <2>3, <2>4 DEF TypeOK, prepare_node_os_gate, requests, history, Flags
  <2>7. RunKnown'
    <3>1. worker' = worker
      BY <1>9 DEF prepare_node_os_gate
    <3>2. \A o \in Gate, l \in Kind :
            action'[o][l] = "EXECUTING" <=> action[o][l] = "EXECUTING"
      BY <2>4, <2>5
    <3>3. worker.todo # {} => gate'[worker.gate] = gate[worker.gate]
      BY <1>3, <1>4, <1>9, <2>3 DEF prepare_node_os_gate
    <3> QED
      BY <3>1, <3>2, <3>3 DEF RunKnown
  <2>8. requests' = requests /\ worker' = worker
    BY <1>9 DEF prepare_node_os_gate
  <2>9. ASSUME NEW o \in Gate, o # g PROVE Agree(o)'
    <3>1. Agree(o) /\ gate'[o] = gate[o] /\ \A l \in Kind : action'[o][l] = action[o][l]
      BY <2>3, <2>4, <2>9 DEF StatesAgree
    <3>2. confirming' = confirming /\ approving' = approving /\ worker' = worker
      BY <2>8 DEF requests
    <3> QED
      BY <3>1, <3>2 DEF Agree, Kind
  <2>10. Agree(g)'
    <3>1. g \notin confirming /\ \A l \in Kind : <<g, l>> \notin approving
      BY <1>1, <1>9, <2>5 DEF Agree, prepare_node_os_gate
    <3>2. \A l \in {"abort", "recover"} : action'[g][l] = "NONE"
      BY <2>4, <2>5 DEF Kind
    <3> QED
      BY <2>1, <2>3, <2>4, <2>8, <3>1, <3>2 DEF Agree, requests
  <2> QED
    BY <2>6, <2>7, <2>9, <2>10 DEF StatesAgree
<1> QED
  BY <1>0, <1>5, <1>7, <1>8, <1>9 DEF Request

(* One Action changes its status, and nothing happens to the gates.        *)
LEMMA OneAction ==
    ASSUME TypeOK, StatesAgree, NEW g \in Gate, NEW k \in Kind,
           NEW s \in ActionStatus,
           action' = [action EXCEPT ![g][k] = s],
           gate' = gate, confirming' = confirming, approving' \subseteq approving,
           action[g][k] # "NONE", s # "NONE",
           s # "ENDED" => action[g][k] \in {"PENDING_APPROVAL", "APPROVED", "REJECTED"},
           <<g, k>> \in approving' => s \in {"PENDING_APPROVAL", "REJECTED"},
           \A o \in Gate : action'[o]["prepare"] = "EXECUTING" /\ worker'.pc # "end"
             => \/ o = g /\ k = "prepare" /\ s = "EXECUTING"
                \/ action[o]["prepare"] = "EXECUTING" /\ worker.pc # "end"
    PROVE  /\ action' \in [Gate -> [Kind -> ActionStatus]]
           /\ action'[g][k] = s
           /\ \A o \in Gate, l \in Kind :
                o # g \/ l # k => action'[o][l] = action[o][l]
           /\ StatesAgree'
<1>1. /\ action' \in [Gate -> [Kind -> ActionStatus]]
      /\ action'[g][k] = s
      /\ \A o \in Gate, l \in Kind :
           o # g \/ l # k => action'[o][l] = action[o][l]
  BY DEF TypeOK
<1>2. ASSUME NEW o \in Gate PROVE Agree(o)'
  <2>1. Agree(o)
    BY DEF StatesAgree
  <2>2. gate[o].state = "ABSENT" => \A l \in Kind : action'[o][l] = "NONE"
    BY <1>1, <2>1 DEF Agree
  <2>3. \A l \in Kind : <<o, l>> \in approving'
          => action'[o][l] \in {"PENDING_APPROVAL", "REJECTED"}
    BY <1>1, <2>1 DEF Agree
  <2>4. action'[o]["prepare"] \in {"PENDING_APPROVAL", "APPROVED", "REJECTED"}
          => action[o]["prepare"] \in {"PENDING_APPROVAL", "APPROVED", "REJECTED"}
    BY <1>1 DEF Kind
  <2>5. action'[o]["prepare"] = "EXECUTING" /\ worker'.pc # "end"
          => gate[o].state = "PREPARING"
    BY <2>1 DEF Agree
  <2>6. \A l \in {"abort", "recover"} : action'[o][l] # "NONE" => action[o][l] # "NONE"
    BY <1>1 DEF Kind
  <2> QED
    BY <2>1, <2>2, <2>3, <2>4, <2>5, <2>6 DEF Agree
<1> QED
  BY <1>1, <1>2 DEF StatesAgree

LEMMA DecideKeeps ==
    ASSUME TypeOK, RunKnown, StatesAgree, DecideStep
    PROVE  TypeOK' /\ RunKnown' /\ StatesAgree'
<1>0. PICK g \in Gate, k \in Kind : Decide(g, k)
  BY DEF DecideStep
<1>1. Agree(g)
  BY DEF StatesAgree
<1>2. CASE approve_check(g, k)
  <2>1. /\ gate' = gate /\ action' = action /\ worker' = worker
        /\ confirming' = confirming /\ approving' = approving \cup {<<g, k>>}
        /\ action[g][k] = "PENDING_APPROVAL"
    BY <1>2 DEF approve_check
  <2>2. TypeOK'
    BY <1>2, <2>1 DEF TypeOK, approve_check, cluster, history
  <2>3. RunKnown'
    BY <2>1 DEF RunKnown
  <2>4. ASSUME NEW o \in Gate PROVE Agree(o)'
    BY <2>1 DEF StatesAgree, Agree
  <2> QED
    BY <2>2, <2>3, <2>4 DEF StatesAgree
<1>3. CASE approve_write(g, k) \/ reject(g, k)
  <2>1. PICK s \in {"APPROVED", "REJECTED"} :
          /\ action' = [action EXCEPT ![g][k] = s]
          /\ gate' = gate /\ confirming' = confirming /\ approving' \subseteq approving
          /\ action[g][k] \in {"PENDING_APPROVAL", "REJECTED"}
          /\ <<g, k>> \in approving' => s = "REJECTED"
          /\ worker' = worker
    BY <1>1, <1>3 DEF approve_write, reject, requests, Agree
  <2>2. s \in ActionStatus /\ s # "EXECUTING" /\ s # "ENDED" /\ s # "NONE"
    BY DEF ActionStatus
  <2>3. \A o \in Gate : action'[o]["prepare"] = "EXECUTING"
                          => action[o]["prepare"] = "EXECUTING"
    BY <2>1, <2>2 DEF TypeOK, Kind
  <2>4. /\ action' \in [Gate -> [Kind -> ActionStatus]]
        /\ action'[g][k] = s
        /\ \A o \in Gate, l \in Kind :
             o # g \/ l # k => action'[o][l] = action[o][l]
        /\ StatesAgree'
    BY <2>1, <2>2, <2>3, OneAction
  <2>5. TypeOK'
    BY <1>3, <2>1, <2>4 DEF TypeOK, approve_write, reject, cluster, history, requests
  <2>6. RunKnown'
    BY <2>1, <2>2, <2>4 DEF RunKnown
  <2> QED
    BY <2>4, <2>5, <2>6
<1> QED
  BY <1>0, <1>2, <1>3 DEF Decide

LEMMA TakeKeeps ==
    ASSUME TypeOK, RunKnown, StatesAgree, TakeStep
    PROVE  TypeOK' /\ RunKnown' /\ StatesAgree'
<1>0. PICK g \in Gate, k \in Kind : Take(g, k)
  BY DEF TakeStep
<1>1. Agree(g)
  BY DEF StatesAgree
<1>2. /\ gate' = gate /\ confirming' = confirming /\ approving' = approving
      /\ action[g][k] = "APPROVED" /\ worker.pc = "idle"
      /\ <<g, k>> \notin approving
      /\ UNCHANGED <<lock, cluster, lost>>
  BY <1>0, <1>1 DEF Take, start, withdraw, refused, taken, requests, Idle, Agree
<1>3. \A o \in Gate, l \in Kind : action[o][l] # "EXECUTING"
  BY <1>2 DEF RunKnown
<1>4. CASE withdraw(g, k) \/ refused(g, k)
  <2>1. PICK s \in {"PENDING_APPROVAL", "ENDED"} :
          action' = [action EXCEPT ![g][k] = s]
    BY <1>4 DEF withdraw, refused
  <2>2. s \in ActionStatus /\ s # "EXECUTING" /\ s # "NONE"
    BY DEF ActionStatus
  <2>3. \A o \in Gate : action'[o]["prepare"] # "EXECUTING"
    BY <1>3, <2>1, <2>2 DEF TypeOK, Kind
  <2>4. /\ action' \in [Gate -> [Kind -> ActionStatus]]
        /\ action'[g][k] = s
        /\ \A o \in Gate, l \in Kind :
             o # g \/ l # k => action'[o][l] = action[o][l]
        /\ StatesAgree'
    BY <1>2, <2>1, <2>2, <2>3, OneAction
  <2>5. worker' = worker /\ stuck' \in {stuck, stuck \cup {g}}
    BY <1>4 DEF withdraw, refused
  <2>6. TypeOK'
    BY <1>2, <2>4, <2>5 DEF TypeOK, cluster
  <2>7. RunKnown'
    BY <1>2, <1>3, <2>2, <2>4, <2>5 DEF RunKnown
  <2> QED
    BY <2>4, <2>6, <2>7
<1>5. CASE start(g, k)
  <2>1. PICK pc \in {FirstPhase[k], "fail"} :
          worker' = [NoRun EXCEPT !.gate = g, !.kind = k, !.pc = pc]
    BY <1>5 DEF start
  <2>2. /\ pc \in Phase /\ pc # "idle" /\ pc # "end"
        /\ pc \in PreparePhase \cup {"undo_mon", "undo_flags"} => k = "prepare"
        /\ pc \in ReturnPhase => k # "prepare"
    BY DEF FirstPhase, Kind, Phase, PreparePhase, ReturnPhase
  <2>3. /\ worker' \in Run /\ worker'.gate = g /\ worker'.kind = k
        /\ worker'.pc = pc /\ worker'.todo = {}
    BY <2>1, <2>2 DEF NoRun, Run
  <2>4. PICK s \in {"EXECUTING", "ENDED"} :
          s = "EXECUTING" /\ action' = [action EXCEPT ![g][k] = s]
    BY <1>5 DEF start
  <2>5. /\ s \in ActionStatus /\ s # "NONE"
        /\ action[g][k] # "NONE" /\ approving' \subseteq approving
        /\ s # "ENDED" => action[g][k] \in {"PENDING_APPROVAL", "APPROVED", "REJECTED"}
        /\ <<g, k>> \in approving' => s \in {"PENDING_APPROVAL", "REJECTED"}
    BY <1>2, <2>4 DEF ActionStatus
  <2>9. ASSUME NEW o \in Gate, action'[o]["prepare"] = "EXECUTING", worker'.pc # "end"
        PROVE  o = g /\ k = "prepare" /\ s = "EXECUTING"
    BY <1>3, <2>4, <2>9 DEF TypeOK, Kind
  <2>6. /\ action' \in [Gate -> [Kind -> ActionStatus]]
        /\ action'[g][k] = s
        /\ \A o \in Gate, l \in Kind :
             o # g \/ l # k => action'[o][l] = action[o][l]
        /\ StatesAgree'
    <3>1. action' = [action EXCEPT ![g][k] = s] /\ gate' = gate /\ confirming' = confirming
      BY <1>2, <2>4
    <3> HIDE <2>4
    <3> QED
      BY <2>5, <2>9, <3>1, OneAction
  <2>7. TypeOK'
    BY <1>2, <1>5, <2>3, <2>6 DEF TypeOK, cluster, start
  <2>8. RunKnown'
    BY <1>3, <2>2, <2>3, <2>4, <2>6 DEF RunKnown
  <2> QED
    BY <2>6, <2>7, <2>8
<1> QED
  BY <1>0, <1>4, <1>5 DEF Take

LEMMA EndKeeps ==
    ASSUME TypeOK, RunKnown, StatesAgree, end \/ WorkerRestart
    PROVE  TypeOK' /\ RunKnown' /\ StatesAgree'
<1>1. PICK g \in Gate, k \in Kind : g = G /\ k = worker.kind
  BY DEF end, WorkerRestart, At, Idle, TypeOK, Run, G
<1>2. /\ gate' = gate /\ confirming' = confirming /\ approving' = approving
      /\ action' = [action EXCEPT ![g][k] = "ENDED"]
      /\ worker' = NoRun /\ worker.pc # "idle"
      /\ UNCHANGED <<lock, cluster, lost>>
      /\ stuck' \in {stuck, stuck \cup {g}}
  BY <1>1 DEF end, WorkerRestart, At, Idle, requests, history
<1>3. action[g][k] = "EXECUTING"
      /\ \A o \in Gate, l \in Kind : o # g \/ l # k => action[o][l] # "EXECUTING"
  BY <1>1, <1>2 DEF RunKnown, G
<1>4. <<g, k>> \notin approving
  BY <1>3 DEF StatesAgree, Agree
<1>5. "ENDED" \in ActionStatus
  BY DEF ActionStatus
<1>6. \A o \in Gate : action'[o]["prepare"] # "EXECUTING"
  BY <1>2, <1>3 DEF TypeOK, Kind
<1>7. /\ action' \in [Gate -> [Kind -> ActionStatus]]
      /\ action'[g][k] = "ENDED"
      /\ \A o \in Gate, l \in Kind :
           o # g \/ l # k => action'[o][l] = action[o][l]
      /\ StatesAgree'
  BY <1>2, <1>3, <1>4, <1>5, <1>6, OneAction
<1>8. /\ NoRun \in Run /\ NoRun.pc = "idle" /\ NoRun.todo = {}
  BY DEF NoRun, Run, Phase, Kind
<1>9. TypeOK'
  BY <1>2, <1>7, <1>8 DEF TypeOK, cluster
<1>10. RunKnown'
  BY <1>2, <1>3, <1>7, <1>8 DEF RunKnown, PreparePhase, ReturnPhase
<1> QED
  BY <1>7, <1>9, <1>10

LEMMA OperatorKeeps ==
    ASSUME TypeOK, RunKnown, StatesAgree, OperatorStep \/ UNCHANGED vars
    PROVE  TypeOK' /\ RunKnown' /\ StatesAgree'
<1>1. /\ gate' = gate /\ action' = action /\ worker' = worker /\ lock' = lock
      /\ confirming' = confirming /\ approving' = approving
      /\ remover' = remover /\ stuck' = stuck /\ lost' = lost
      /\ before' \subseteq before
  BY DEF OperatorStep, operator_sets, operator_unsets, vars, requests, history
<1>2. setter' \in [Flag -> Gate \cup {NoGate, Operator}]
  BY DEF OperatorStep, operator_sets, operator_unsets, vars, TypeOK
<1>3. TypeOK'
  BY <1>1, <1>2 DEF TypeOK
<1>4. RunKnown'
  BY <1>1 DEF RunKnown
<1>5. ASSUME NEW g \in Gate PROVE Agree(g)'
  BY <1>1 DEF StatesAgree, Agree
<1> QED
  BY <1>3, <1>4, <1>5 DEF StatesAgree

Core == TypeOK /\ RunKnown /\ StatesAgree

LEMMA CoreInductive == Spec => []Core
<1>1. Init => Core
  <2> SUFFICES ASSUME Init PROVE Core
    OBVIOUS
  <2>1. NoRow \in GateRow /\ NoRow.state = "ABSENT" /\ NoRow.added = {}
        /\ NoRow.removed = FALSE
    BY GateAssumption DEF NoRow, GateRow, GateState, GateAssumption
  <2>2. /\ NoRun \in Run /\ NoRun.pc = "idle" /\ NoRun.todo = {}
    BY DEF NoRun, Run, Phase, Kind
  <2>3. "NONE" \in ActionStatus
    BY DEF ActionStatus
  <2>4. TypeOK
    BY <2>1, <2>2, <2>3 DEF Init, TypeOK
  <2>5. \A g \in Gate, k \in Kind : action[g][k] = "NONE"
    BY DEF Init
  <2>6. RunKnown
    BY <2>2, <2>5 DEF Init, RunKnown, PreparePhase, ReturnPhase
  <2>7. ASSUME NEW g \in Gate PROVE Agree(g)
    BY <2>1, <2>5 DEF Init, Agree, Kind
  <2> QED
    BY <2>4, <2>6, <2>7 DEF Core, StatesAgree
<1>2. Core /\ [Next]_vars => Core'
  BY NextSplits, PhaseKeeps, RequestKeeps, DecideKeeps, TakeKeeps, EndKeeps,
     OperatorKeeps DEF Core
<1> QED
  BY <1>1, <1>2, PTL DEF Spec

(* Type correctness: the rows, the Actions, the requests and the Worker's  *)
(* run stay well formed, and a row never records a flag or a MON that its  *)
(* host has no role for.                                                   *)
THEOREM TypeCorrect == Spec => []TypeOK
  BY CoreInductive, PTL DEF Core

-----------------------------------------------------------------------------
(* Which phases change the state of a gate or the lock.                    *)
LEMMA PhaseOutcome ==
    ASSUME TypeOK, RunKnown, PhaseStep
    PROVE  /\ stuck \subseteq stuck'
           /\ \/ /\ lock' = lock /\ gate'[G].state = gate[G].state
                 /\ worker'.pc # "end"
              \/ /\ lock' = lock /\ gate'[G].state = "PREPARED"
                 /\ worker.kind = "prepare"
              \/ /\ gate'[G].state \in {"DONE", "FAILED"} /\ lock' # G
                 /\ lock' \in {lock, NoGate} /\ (lock' # lock => lock = G)
              \/ /\ gate'[G].state = "FAILED" /\ lock' = lock /\ G \in stuck'
              \/ /\ lock' = lock /\ gate'[G].state = gate[G].state
                 /\ gate[G].state \in {"DONE", "FAILED"}
              \/ /\ lock' = lock /\ gate'[G].state = gate[G].state
                 /\ G \in stuck'
<1> USE GateAssumption DEF GateAssumption
<1>1. PICK g \in Gate : g = G
  BY PhaseMoves DEF RunMoves
<1>2. gate \in [Gate -> GateRow] /\ gate[g] \in GateRow /\ worker \in Run
  BY DEF TypeOK
<1>3. stuck \subseteq stuck'
  BY DEF PhaseStep, PrepareStep, ReturnStep, phase_raises, backup, set_flag,
     set_flags_done, remove_mon, no_mon_to_remove, mark_prepared, undo_mon,
     undo_flags, fail, reinstall, rejoin_mon, flags_stay, abort_clear_flags,
     recover_clear_flags, mark_done, history
<1>4. CASE mark_prepared
  <2>1. worker.kind = "prepare"
    BY <1>4 DEF mark_prepared, At, RunKnown, PreparePhase
  <2>2. gate'[g].state = "PREPARED" /\ lock' = lock
    BY <1>1, <1>2, <1>4 DEF mark_prepared, GateRow
  <2> QED
    BY <1>1, <1>3, <2>1, <2>2
<1>5. CASE mark_done
  <2>1. gate'[g].state = "DONE"
    BY <1>1, <1>2, <1>5 DEF mark_done, GateRow
  <2>2. lock' = IF lock = g THEN NoGate ELSE lock
    BY <1>1, <1>5 DEF mark_done, DoneReleases, Release
  <2> QED
    BY <1>1, <1>3, <2>1, <2>2
<1>6. CASE fail
  <2>0. worker.dirty \in BOOLEAN
    BY <1>2 DEF Run
  <2>1. CASE /\ gate' = [gate EXCEPT ![g].state = "FAILED"]
             /\ \/ lock' = lock /\ g \in stuck'
                \/ lock' = IF lock = g THEN NoGate ELSE lock
    <3>1. gate'[g].state = "FAILED"
      BY <1>2, <2>1 DEF GateRow
    <3> QED
      BY <1>1, <1>3, <2>1, <3>1
  <2>2. CASE gate' = gate /\ lock' = lock /\ gate[G].state \in {"DONE", "FAILED"}
    BY <1>3, <2>2
  <2>3. CASE gate' = gate /\ lock' = lock /\ G \in stuck'
    BY <1>3, <2>3
  <2>4. CASE /\ gate' = [gate EXCEPT ![G].state = "FAILED"]
             /\ lock' = IF LockKept THEN lock ELSE Release(G)
             /\ stuck' = IF worker.dirty THEN stuck \cup {G} ELSE stuck
    <3>1. CASE worker.dirty = TRUE
      <4>1. lock' = lock /\ stuck' = stuck \cup {G}
        BY <2>4, <3>1 DEF LockKept
      <4> QED
        BY <1>1, <2>1, <2>4, <4>1
    <3>2. CASE worker.dirty = FALSE
      <4>1. lock' = Release(G)
        BY <2>4, <3>2 DEF LockKept
      <4>2. lock' = IF lock = g THEN NoGate ELSE lock
        BY <1>1, <4>1 DEF Release
      <4> QED
        BY <1>1, <2>1, <2>4, <4>2
    <3> QED
      BY <2>0, <3>1, <3>2
  <2>5. \/ /\ gate' = [gate EXCEPT ![G].state = "FAILED"]
           /\ lock' = IF LockKept THEN lock ELSE Release(G)
           /\ stuck' = IF worker.dirty THEN stuck \cup {G} ELSE stuck
        \/ gate' = gate /\ lock' = lock /\ gate[G].state \in {"DONE", "FAILED"}
        \/ gate' = gate /\ lock' = lock /\ G \in stuck'
    BY <1>6 DEF fail
  <2> QED
    BY <2>2, <2>3, <2>4, <2>5
<1>7. CASE ~(mark_prepared \/ mark_done \/ fail)
  <2>1. lock' = lock
    BY <1>7 DEF PhaseStep, PrepareStep, ReturnStep, phase_raises, backup,
       set_flag, set_flags_done, remove_mon, no_mon_to_remove, undo_mon,
       undo_flags, reinstall, rejoin_mon, flags_stay, abort_clear_flags,
       recover_clear_flags
  <2>2. ASSUME NEW S, \/ gate' = [gate EXCEPT ![g].added = S]
                      \/ gate' = [gate EXCEPT ![g].removed = S]
                      \/ gate' = gate
        PROVE  gate'[g].state = gate[g].state
    BY <1>2, <2>2 DEF GateRow
  <2>3. gate'[g].state = gate[g].state
    BY <1>1, <1>7, <2>2 DEF PhaseStep, PrepareStep, ReturnStep, phase_raises,
       backup, set_flag, set_flags_done, remove_mon, no_mon_to_remove, undo_mon,
       undo_flags, reinstall, rejoin_mon, flags_stay, abort_clear_flags,
       recover_clear_flags
  <2>4. \/ FailPhase
        \/ \E f \in Flag : set_flag(f) /\ worker' = [worker EXCEPT !.todo = @ \ {f}]
        \/ \E pc \in Phase \ {"end"} : Goto(pc)
        \/ \E pc \in Phase \ {"end"} :
             worker' = [worker EXCEPT !.pc = pc, !.dirty = TRUE]
        \/ backup
    BY <1>7 DEF PhaseStep, PrepareStep, ReturnStep, phase_raises, set_flag,
       set_flags_done, remove_mon, no_mon_to_remove, undo_mon, undo_flags,
       reinstall, rejoin_mon, flags_stay, abort_clear_flags,
       recover_clear_flags, Phase, PreparePhase, ReturnPhase
  <2>5. worker'.pc # "end"
    BY <1>2, <2>4 DEF FailPhase, Goto, backup, set_flag, At, Run
  <2> QED
    BY <1>1, <1>3, <2>1, <2>3, <2>5
<1> QED
  BY <1>4, <1>5, <1>6, <1>7

(* What the lock needs besides: a finished gate has given it back, and     *)
(* after the last phase of a run it is free, or the gate is PREPARED, was  *)
(* left to the operators, or has another Action in flight already.         *)
LockAgrees ==
    /\ MidFlightHoldsLock
    /\ LockExplained
    /\ \A g \in Gate : lock = g /\ gate[g].state \in {"DONE", "FAILED"}
                         => g \in stuck
    /\ worker.pc = "end" /\ lock = worker.gate
         => \/ gate[worker.gate].state = "PREPARED"
            \/ worker.gate \in stuck
            \/ \E k \in Kind : k # worker.kind /\ action[worker.gate][k] \in InFlight

LEMMA PhaseLocks ==
    ASSUME Core, Core', LockAgrees, PhaseStep
    PROVE  LockAgrees'
<1> USE GateAssumption DEF GateAssumption, Core
<1>1. PICK g \in Gate : g = G
  BY PhaseMoves DEF RunMoves
<1>2. /\ action' = action
      /\ \A o \in Gate \ {g} : gate'[o] = gate[o]
  BY <1>1, PhaseLeaves
<1>3. /\ stuck \subseteq stuck'
      /\ \/ /\ lock' = lock /\ gate'[g].state = gate[g].state
            /\ worker'.pc # "end"
         \/ /\ lock' = lock /\ gate'[g].state = "PREPARED"
            /\ worker.kind = "prepare"
         \/ /\ gate'[g].state \in {"DONE", "FAILED"} /\ lock' # g
            /\ lock' \in {lock, NoGate} /\ (lock' # lock => lock = g)
         \/ /\ gate'[g].state = "FAILED" /\ lock' = lock /\ g \in stuck'
         \/ /\ lock' = lock /\ gate'[g].state = gate[g].state
            /\ gate[g].state \in {"DONE", "FAILED"}
         \/ /\ lock' = lock /\ gate'[g].state = gate[g].state
            /\ g \in stuck'
  BY <1>1, PhaseOutcome
<1>4. /\ worker'.gate = g /\ worker'.kind = worker.kind /\ worker.kind \in Kind
      /\ worker.pc # "idle" /\ worker.pc # "end"
      /\ action[g][worker.kind] = "EXECUTING"
  BY <1>1, PhaseMoves DEF RunMoves, RunKnown, G
<1>5. worker.kind = "prepare" => gate[g].state = "PREPARING"
  BY <1>4 DEF StatesAgree, Agree
<1>6. MidFlightHoldsLock'
  BY <1>2, <1>3, <1>5 DEF MidFlightHoldsLock, LockAgrees
<1>7. \A o \in Gate : lock' = o => lock = o
  BY <1>3
<1>8. ASSUME NEW o \in Gate, lock' = o
      PROVE  \/ gate'[o].state = "PREPARED"
             \/ \E k \in Kind : action'[o][k] \in InFlight
             \/ o \in stuck'
  <2>1. CASE o = g
    BY <1>2, <1>4, <2>1 DEF InFlight
  <2>2. CASE o # g
    BY <1>2, <1>3, <1>7, <1>8, <2>2 DEF LockAgrees, LockExplained
  <2> QED
    BY <2>1, <2>2
<1>9. ASSUME NEW o \in Gate, lock' = o, gate'[o].state \in {"DONE", "FAILED"}
      PROVE  o \in stuck'
  <2>1. lock = o
    BY <1>7, <1>9
  <2> QED
    BY <1>2, <1>3, <1>9, <2>1 DEF LockAgrees
<1>10. worker'.pc = "end" /\ lock' = g => gate'[g].state = "PREPARED" \/ g \in stuck'
  BY <1>3, <1>7 DEF LockAgrees
<1> QED
  BY <1>4, <1>6, <1>8, <1>9, <1>10 DEF LockAgrees, LockExplained

LEMMA RequestLocks ==
    ASSUME Core, Core', LockAgrees, RequestStep
    PROVE  LockAgrees'
<1> USE GateAssumption DEF GateAssumption, Core
<1>0. PICK g \in Gate : Request(g)
  BY DEF RequestStep
<1>1. gate[g] \in GateRow /\ gate \in [Gate -> GateRow]
      /\ action \in [Gate -> [Kind -> ActionStatus]]
      /\ "prepare" \in Kind /\ "abort" \in Kind /\ "recover" \in Kind
  BY Rows DEF TypeOK, Kind
<1>2. worker.pc # "idle" => action[worker.gate][worker.kind] = "EXECUTING"
                            /\ worker.gate \in Gate /\ worker.kind \in Kind
  BY DEF RunKnown, TypeOK, Run
<1>3. CASE confirm_recheck(g) \/ UNCHANGED <<gate, lock, action, worker, stuck>>
  BY <1>3 DEF confirm_recheck, history, LockAgrees, MidFlightHoldsLock,
     LockExplained
<1>4. ASSUME NEW k \in {"abort", "recover"}, NEW s \in {"ABORTING", "RECOVERING"},
             s = "ABORTING" => gate[g].state = "PREPARED",
             action[g][k] \notin InFlight,
             gate' = [gate EXCEPT ![g].state = s],
             action' = [action EXCEPT ![g][k] = "PENDING_APPROVAL"],
             UNCHANGED <<lock, worker, stuck>>
      PROVE  LockAgrees'
  <2>1. /\ k \in Kind /\ gate'[g].state = s /\ action'[g][k] \in InFlight
        /\ \A o \in Gate \ {g} : gate'[o] = gate[o]
        /\ \A o \in Gate, l \in Kind :
             o # g \/ l # k => action'[o][l] = action[o][l]
    BY <1>1, <1>4 DEF Kind, GateRow, InFlight
  <2>2. MidFlightHoldsLock'
    BY <1>4, <2>1 DEF LockAgrees, MidFlightHoldsLock
  <2>3. LockExplained'
    BY <1>4, <2>1 DEF LockAgrees, LockExplained
  <2>4. ASSUME worker.pc = "end", worker.gate = g PROVE k # worker.kind
    BY <1>2, <1>4, <2>4 DEF InFlight
  <2>5. ASSUME worker.pc = "end", lock = worker.gate
        PROVE  \/ gate'[worker.gate].state = "PREPARED"
               \/ worker.gate \in stuck
               \/ \E l \in Kind : l # worker.kind /\ action'[worker.gate][l] \in InFlight
    <3>1. CASE worker.gate = g
      BY <2>1, <2>4, <2>5, <3>1
    <3>2. CASE worker.gate # g
      BY <1>2, <2>1, <2>5, <3>2 DEF LockAgrees
    <3> QED
      BY <3>1, <3>2
  <2>6. \A o \in Gate : lock = o /\ gate'[o].state \in {"DONE", "FAILED"}
                          => o \in stuck
    BY <1>4, <2>1 DEF LockAgrees
  <2> QED
    BY <1>4, <2>2, <2>3, <2>5, <2>6 DEF LockAgrees
<1>5. CASE abort_node_os_gate(g)
  BY <1>4, <1>5 DEF abort_node_os_gate, history, InFlight
<1>6. CASE confirm_node_os_gate(g)
  BY <1>3, <1>4, <1>6 DEF confirm_node_os_gate, history
<1>7. ASSUME NEW h \in Host, prepare_node_os_gate(g, h) PROVE LockAgrees'
  <2>1. /\ lock = NoGate /\ lock' = g /\ worker' = worker /\ stuck' = stuck
        /\ gate'[g].state = "PREPARING" /\ action'[g]["prepare"] = "PENDING_APPROVAL"
        /\ \A o \in Gate \ {g} : gate'[o] = gate[o]
        /\ gate[g].state = "ABSENT"
    BY <1>1, <1>7 DEF prepare_node_os_gate, LockFree, history, NoRow, GateRow
  <2>2. MidFlightHoldsLock'
    BY <2>1 DEF LockAgrees, MidFlightHoldsLock
  <2>3. LockExplained'
    BY <1>1, <2>1 DEF LockExplained, InFlight
  <2>4. worker.pc # "idle" => worker.gate # g
    BY <1>1, <1>2, <2>1 DEF StatesAgree, Agree
  <2> QED
    BY <2>1, <2>2, <2>3, <2>4 DEF LockAgrees
<1> QED
  BY <1>0, <1>3, <1>5, <1>6, <1>7 DEF Request

(* An Action changes its status while it is not being executed, or starts: *)
(* it stays in flight, or its gate is left to the operators.               *)
LEMMA DecisionLocks ==
    ASSUME Core, LockAgrees, NEW g \in Gate, NEW k \in Kind,
           NEW s \in {"PENDING_APPROVAL", "APPROVED", "EXECUTING", "ENDED", "REJECTED"},
           action[g][k] # "EXECUTING",
           action' = [action EXCEPT ![g][k] = s],
           s \notin InFlight => g \in stuck',
           stuck \subseteq stuck',
           gate' = gate, lock' = lock,
           worker' = worker \/ worker'.pc # "end"
    PROVE  LockAgrees'
<1>1. \A o \in Gate, l \in Kind :
        action'[o][l] = IF o = g /\ l = k THEN s ELSE action[o][l]
  BY DEF Core, TypeOK
<1>2. MidFlightHoldsLock'
  BY DEF LockAgrees, MidFlightHoldsLock
<1>3. ASSUME NEW o \in Gate, lock = o
      PROVE  \/ gate[o].state = "PREPARED"
             \/ \E l \in Kind : action'[o][l] \in InFlight
             \/ o \in stuck'
  <2>1. CASE o = g
    <3>1. CASE s \in InFlight
      BY <1>1, <2>1, <3>1
    <3>2. CASE s \notin InFlight
      BY <2>1, <3>2
    <3> QED
      BY <3>1, <3>2
  <2>2. CASE o # g
    BY <1>1, <1>3, <2>2 DEF LockAgrees, LockExplained
  <2> QED
    BY <2>1, <2>2
<1>4. \A o \in Gate : lock = o /\ gate[o].state \in {"DONE", "FAILED"} => o \in stuck'
  BY DEF LockAgrees
<1>5. ASSUME worker.pc = "end", worker' = worker, lock = worker.gate
      PROVE  \/ gate[worker.gate].state = "PREPARED"
             \/ worker.gate \in stuck'
             \/ \E l \in Kind : l # worker.kind /\ action'[worker.gate][l] \in InFlight
  <2>1. worker.gate \in Gate
    BY <1>5 DEF Core, TypeOK
  <2>2. CASE s \in InFlight \/ worker.gate # g
    BY <1>1, <1>5, <2>1, <2>2 DEF LockAgrees
  <2>3. CASE s \notin InFlight /\ worker.gate = g
    BY <2>3
  <2> QED
    BY <2>2, <2>3
<1> QED
  BY <1>2, <1>3, <1>4, <1>5 DEF LockAgrees, LockExplained

LEMMA OtherLocks ==
    ASSUME Core, LockAgrees, DecideStep \/ TakeStep \/ OperatorStep \/ UNCHANGED vars
    PROVE  LockAgrees'
<1>1. CASE DecideStep
  <2>0. PICK g \in Gate, k \in Kind : Decide(g, k)
    BY <1>1 DEF DecideStep
  <2>1. CASE approve_check(g, k)
    BY <2>1 DEF approve_check, history, LockAgrees, MidFlightHoldsLock, LockExplained
  <2>2. CASE approve_write(g, k) \/ reject(g, k)
    <3>1. PICK s \in {"APPROVED", "REJECTED"} :
            /\ action' = [action EXCEPT ![g][k] = s]
            /\ s = "REJECTED" => g \in stuck'
            /\ stuck \subseteq stuck' /\ gate' = gate /\ lock' = lock
            /\ worker' = worker
      BY <2>2 DEF approve_write, reject, history
    <3>2. action[g][k] # "EXECUTING"
      BY <2>2 DEF approve_write, reject, Core, StatesAgree, Agree
    <3>3. s \notin InFlight => g \in stuck'
      BY <3>1 DEF InFlight
    <3> QED
      BY <3>1, <3>2, <3>3, DecisionLocks
  <2> QED
    BY <2>0, <2>1, <2>2 DEF Decide
<1>2. CASE TakeStep
  <2>0. PICK g \in Gate, k \in Kind : Take(g, k)
    BY <1>2 DEF TakeStep
  <2>1. PICK s \in {"PENDING_APPROVAL", "EXECUTING", "ENDED"} :
          /\ action' = [action EXCEPT ![g][k] = s]
          /\ s = "ENDED" => g \in stuck'
          /\ stuck \subseteq stuck' /\ gate' = gate /\ lock' = lock
          /\ action[g][k] = "APPROVED"
          /\ worker' = worker \/ \E pc \in {FirstPhase[k], "fail"} :
               worker' = [NoRun EXCEPT !.gate = g, !.kind = k, !.pc = pc]
    BY <2>0 DEF Take, start, withdraw, refused, taken
  <2>2. worker' = worker \/ worker'.pc # "end"
    <3>1. \A pc \in {FirstPhase[k], "fail"} : pc # "end"
      BY DEF FirstPhase, Kind
    <3> QED
      BY <2>1, <3>1 DEF NoRun
  <2>3. s \notin InFlight => g \in stuck'
    BY <2>1 DEF InFlight
  <2> QED
    BY <2>1, <2>2, <2>3, DecisionLocks
<1>3. CASE OperatorStep \/ UNCHANGED vars
  <2>1. UNCHANGED <<gate, lock, action, worker, stuck>>
    BY <1>3 DEF OperatorStep, operator_sets, operator_unsets, vars, history
  <2> QED
    BY <2>1 DEF LockAgrees, MidFlightHoldsLock, LockExplained
<1> QED
  BY <1>1, <1>2, <1>3

LEMMA EndLocks ==
    ASSUME Core, LockAgrees, end \/ WorkerRestart
    PROVE  LockAgrees'
<1>1. PICK g \in Gate, k \in Kind : g = worker.gate /\ k = worker.kind
  BY DEF end, WorkerRestart, At, Idle, Core, TypeOK, Run
<1>2. /\ gate' = gate /\ lock' = lock /\ worker' = NoRun
      /\ action' = [action EXCEPT ![g][k] = "ENDED"]
      /\ stuck \subseteq stuck'
      /\ g \in stuck' \/ worker.pc = "end"
  BY <1>1 DEF end, WorkerRestart, At, history, G
<1>3. \A o \in Gate, l \in Kind :
        action'[o][l] = IF o = g /\ l = k THEN "ENDED" ELSE action[o][l]
  BY <1>2 DEF Core, TypeOK
<1>4. MidFlightHoldsLock'
  BY <1>2 DEF LockAgrees, MidFlightHoldsLock
<1>5. ASSUME NEW o \in Gate, lock = o
      PROVE  \/ gate[o].state = "PREPARED"
             \/ \E l \in Kind : action'[o][l] \in InFlight
             \/ o \in stuck'
  <2>1. CASE o = g
    <3>1. CASE g \in stuck'
      BY <2>1, <3>1
    <3>2. CASE worker.pc = "end"
      <4>1. \/ gate[g].state = "PREPARED"
            \/ g \in stuck
            \/ \E l \in Kind : l # k /\ action[g][l] \in InFlight
        BY <1>1, <1>5, <2>1, <3>2 DEF LockAgrees
      <4> QED
        BY <1>2, <1>3, <2>1, <4>1
    <3> QED
      BY <1>2, <3>1, <3>2
  <2>2. CASE o # g
    BY <1>2, <1>3, <1>5, <2>2 DEF LockAgrees, LockExplained
  <2> QED
    BY <2>1, <2>2
<1>6. worker'.pc # "end"
  BY <1>2 DEF NoRun
<1> QED
  BY <1>2, <1>4, <1>5, <1>6 DEF LockAgrees, LockExplained

LEMMA LocksInductive == Spec => [](Core /\ LockAgrees)
<1>1. Init => LockAgrees
  <2> SUFFICES ASSUME Init PROVE LockAgrees
    OBVIOUS
  <2>1. lock = NoGate /\ worker.pc = "idle" /\ \A g \in Gate : gate[g].state = "ABSENT"
    BY DEF Init, NoRun, NoRow
  <2> QED
    BY <2>1, GateAssumption DEF LockAgrees, MidFlightHoldsLock, LockExplained,
       GateAssumption
<1>2. Core /\ Core' /\ LockAgrees /\ [Next]_vars => LockAgrees'
  BY NextSplits, PhaseLocks, RequestLocks, OtherLocks, EndLocks
<1> QED
  BY <1>1, <1>2, CoreInductive, PTL DEF Spec

(* One node at a time: while a gate is being prepared, waits for its       *)
(* reinstalled node or is being aborted, it holds the cluster's lock, for  *)
(* every number of gates, hosts and requests and whatever restarts between.*)
THEOREM LockHeld == Spec => []MidFlightHoldsLock
  BY LocksInductive, PTL DEF LockAgrees

(* A held lock has a cause: a node that waits for Confirm or Abort, an     *)
(* Action of its gate to end, or a gate left to the operators.             *)
THEOREM LockHasCause == Spec => []LockExplained
  BY LocksInductive, PTL DEF LockAgrees

-----------------------------------------------------------------------------
(* The monitors.  A gate took out only its own host's, and knows it unless *)
(* the command raised; from the end of the rejoin on it is back.           *)
MonOf(m) ==
    LET g == remover[m] IN
    g # NoGate => /\ gate[g].host = m
                  /\ gate[g].state \in NonTerminal \cup {"FAILED"}
                  /\ g \in lost \/ gate[g].removed = TRUE
MonsKnown ==
    /\ \A m \in Mon : MonOf(m)
    /\ worker.pc \in {"clear_flags", "mark_done"}
         => \A m \in Mon : remover[m] # worker.gate

LEMMA PhaseState ==
    ASSUME TypeOK, RunKnown, PhaseStep, ~mark_done
    PROVE  gate'[G].state \in {gate[G].state, "PREPARED", "FAILED"}
<1>1. PICK g \in Gate : g = G
  BY PhaseMoves DEF RunMoves
<1>2. gate \in [Gate -> GateRow] /\ gate[g] \in GateRow
  BY DEF TypeOK
<1>3. ASSUME NEW S, \/ gate' = [gate EXCEPT ![g].added = S]
                    \/ gate' = [gate EXCEPT ![g].removed = S]
                    \/ gate' = gate
                    \/ gate' = [gate EXCEPT ![g].state = "PREPARED"]
                    \/ gate' = [gate EXCEPT ![g].state = "FAILED"]
      PROVE  gate'[g].state \in {gate[g].state, "PREPARED", "FAILED"}
  BY <1>2, <1>3 DEF GateRow
<1> QED
  BY <1>1, <1>3 DEF PhaseStep, PrepareStep, ReturnStep, phase_raises, backup,
     set_flag, set_flags_done, remove_mon, no_mon_to_remove, mark_prepared,
     undo_mon, undo_flags, fail, reinstall, rejoin_mon, flags_stay,
     abort_clear_flags, recover_clear_flags

LEMMA PhaseMons ==
    ASSUME Core, MonsKnown, PhaseStep
    PROVE  MonsKnown'
<1> USE GateAssumption DEF GateAssumption, Core
<1>1. PICK g \in Gate : g = G
  BY PhaseMoves DEF RunMoves
<1>2. /\ gate'[g].host = gate[g].host
      /\ \A o \in Gate \ {g} : gate'[o] = gate[o]
      /\ worker.gate = g /\ worker'.gate = g
      /\ gate \in [Gate -> GateRow] /\ gate[g] \in GateRow /\ worker \in Run
      /\ remover \in [Mon -> Gate \cup {NoGate}]
      /\ lost \subseteq lost'
  <2>1. lost \subseteq lost'
    BY DEF PhaseStep, PrepareStep, ReturnStep, phase_raises, backup, set_flag,
       set_flags_done, remove_mon, no_mon_to_remove, mark_prepared, undo_mon,
       undo_flags, fail, reinstall, rejoin_mon, flags_stay, abort_clear_flags,
       recover_clear_flags, mark_done, history
  <2> QED
    BY <1>1, <2>1, PhaseLeaves, PhaseMoves DEF RunMoves, TypeOK, G
<1>3. Node = gate[g].host
  BY <1>1 DEF Node
<1>4. \A m \in Mon : remover[m] = g => m = Node
  BY <1>3 DEF MonsKnown, MonOf
<1>5. CASE remover' = [remover EXCEPT ![Node] = NoGate]
  <2>1. \A m \in Mon : remover'[m] # g
    BY <1>2, <1>4, <1>5
  <2>2. ASSUME NEW m \in Mon PROVE MonOf(m)'
    <3>1. MonOf(m)
      BY DEF MonsKnown
    <3>2. remover'[m] = NoGate \/ (remover'[m] = remover[m] /\ remover[m] \in Gate \ {g})
      BY <1>2, <1>5, <2>1
    <3> QED
      BY <1>2, <3>1, <3>2 DEF MonOf
  <2> QED
    BY <1>2, <2>1, <2>2 DEF MonsKnown
<1>6. CASE mark_done
  <2>1. /\ worker.pc = "mark_done" /\ remover' = remover
        /\ worker' = [worker EXCEPT !.pc = "end", !.todo = {}]
    BY <1>6 DEF mark_done, At, cluster, Goto
  <2>2. \A m \in Mon : remover[m] # g
    BY <1>2, <2>1 DEF MonsKnown
  <2>3. ASSUME NEW m \in Mon PROVE MonOf(m)'
    BY <1>2, <2>1, <2>2 DEF MonsKnown, MonOf
  <2>4. worker'.pc = "end"
    BY <1>2, <2>1 DEF Run
  <2> QED
    BY <2>3, <2>4 DEF MonsKnown
<1>7. CASE remove_mon
  <2>1. /\ worker.pc = "remove_mon" /\ Node \in Mon
        /\ remover' = [remover EXCEPT ![Node] = IF @ = NoGate THEN g ELSE @]
        /\ \/ gate' = [gate EXCEPT ![g].removed = TRUE]
           \/ gate' = gate /\ g \in lost'
    BY <1>1, <1>7 DEF remove_mon, At, Removable
  <2>2. gate[g].state = "PREPARING"
    BY <1>1, <1>2, <2>1, PhaseMoves DEF RunKnown, StatesAgree, Agree, PreparePhase, RunMoves
  <2>3. gate'[g].state = "PREPARING" /\ (g \in lost' \/ gate'[g].removed = TRUE)
    BY <1>2, <2>1, <2>2 DEF GateRow
  <2>4. ASSUME NEW m \in Mon PROVE MonOf(m)'
    <3>1. CASE remover'[m] = g
      <4>1. m = Node
        BY <1>2, <1>4, <2>1, <3>1
      <4> QED
        BY <1>2, <1>3, <2>3, <3>1, <4>1 DEF MonOf, NonTerminal
    <3>2. CASE remover'[m] # g
      <4>1. remover'[m] = remover[m] /\ MonOf(m)
        BY <1>2, <2>1, <3>2 DEF MonsKnown
      <4> QED
        BY <1>2, <3>2, <4>1 DEF MonOf
    <3> QED
      BY <3>1, <3>2
  <2>5. worker'.pc \notin {"clear_flags", "mark_done"}
    BY <2>1, PhaseMoves DEF RunMoves, RunKnown, PreparePhase, ReturnPhase
  <2> QED
    BY <2>4, <2>5 DEF MonsKnown
<1>8. CASE remover' = remover /\ ~mark_done
  <2>1. gate'[g].state \in {gate[g].state, "PREPARED", "FAILED"}
    BY <1>1, <1>8, PhaseState
  <2>2. (\E m \in Mon : remover[m] = g) => gate'[g].removed = gate[g].removed \/ gate'[g].removed = TRUE \/ g \in lost'
    <3>1. CASE undo_mon
      <4>1. CASE gate' = gate
        BY <4>1
      <4>2. CASE gate' # gate
        <5>1. remover' = [remover EXCEPT ![Node] = NoGate]
          BY <3>1, <4>2 DEF undo_mon, UndoRejoin, Rejoin
        <5>2. \A m \in Mon : remover'[m] # g
          BY <1>2, <1>4, <5>1
        <5> QED
          BY <1>8, <5>2
      <4> QED
        BY <4>1, <4>2
    <3>2. CASE ~undo_mon
      <4>1. ASSUME NEW S, \/ gate' = [gate EXCEPT ![g].added = S]
                          \/ gate' = [gate EXCEPT ![g].state = S]
                          \/ gate' = gate
                          \/ gate' = [gate EXCEPT ![g].removed = TRUE]
            PROVE  gate'[g].removed \in {gate[g].removed, TRUE}
        BY <1>2, <4>1 DEF GateRow
      <4> QED
        BY <1>1, <3>2, <4>1 DEF PhaseStep, PrepareStep, ReturnStep, phase_raises,
           backup, set_flag, set_flags_done, remove_mon, no_mon_to_remove,
           mark_prepared, undo_flags, fail, reinstall, rejoin_mon, flags_stay,
           abort_clear_flags, recover_clear_flags, mark_done
    <3> QED
      BY <3>1, <3>2
  <2>3. ASSUME NEW m \in Mon PROVE MonOf(m)'
    <3>1. MonOf(m) /\ remover'[m] = remover[m]
      BY <1>8 DEF MonsKnown
    <3>2. CASE remover[m] = g
      <4>1. gate'[g].state \in NonTerminal \cup {"FAILED"}
        BY <2>1, <3>1, <3>2 DEF MonOf, NonTerminal
      <4>2. g \in lost' \/ gate'[g].removed = TRUE
        BY <1>2, <2>2, <3>1, <3>2 DEF MonOf
      <4> QED
        BY <1>2, <3>1, <3>2, <4>1, <4>2 DEF MonOf
    <3>3. CASE remover[m] # g
      BY <1>2, <3>1, <3>3 DEF MonOf
    <3> QED
      BY <3>2, <3>3
  <2>4. ASSUME worker'.pc \in {"clear_flags", "mark_done"}, NEW m \in Mon
        PROVE  remover'[m] # g
    <3>1. CASE worker.pc = "clear_flags"
      BY <1>2, <1>8, <3>1 DEF MonsKnown
    <3>2. CASE Node \notin Mon
      BY <1>4, <1>8, <3>2
    <3>3. CASE remover' = [remover EXCEPT ![Node] = NoGate]
      BY <1>2, <1>4, <3>3
    <3>4. CASE rejoin_mon
      BY <3>2, <3>3, <3>4 DEF rejoin_mon, NoMonRole, Rejoin
    <3>5. CASE flags_stay \/ abort_clear_flags \/ recover_clear_flags
      BY <3>1, <3>5 DEF flags_stay, abort_clear_flags, recover_clear_flags, At
    <3>6. CASE ~(rejoin_mon \/ flags_stay \/ abort_clear_flags \/ recover_clear_flags)
      <4>1. \/ FailPhase
            \/ \E f \in Flag : set_flag(f) /\ worker' = [worker EXCEPT !.todo = @ \ {f}]
            \/ \E pc \in Phase \ {"clear_flags", "mark_done"} : Goto(pc)
            \/ \E pc \in Phase \ {"clear_flags", "mark_done"} :
                 worker' = [worker EXCEPT !.pc = pc, !.dirty = TRUE]
            \/ backup
        BY <1>8, <3>6 DEF PhaseStep, PrepareStep, ReturnStep, phase_raises, set_flag,
           set_flags_done, remove_mon, no_mon_to_remove, mark_prepared, undo_mon,
           undo_flags, fail, reinstall, Phase, PreparePhase, ReturnPhase
      <4>2. worker'.pc \notin {"clear_flags", "mark_done"}
        BY <1>2, <4>1 DEF FailPhase, Goto, backup, set_flag, At, Run
      <4> QED
        BY <2>4, <4>2
    <3> QED
      BY <3>4, <3>5, <3>6
  <2> QED
    BY <1>2, <2>3, <2>4 DEF MonsKnown
<1>9. \/ remover' = remover
      \/ remover' = [remover EXCEPT ![Node] = NoGate]
      \/ remove_mon
  BY DEF PhaseStep, PrepareStep, ReturnStep, phase_raises, backup, set_flag,
     set_flags_done, remove_mon, no_mon_to_remove, mark_prepared, undo_mon,
     undo_flags, fail, reinstall, rejoin_mon, flags_stay, abort_clear_flags,
     recover_clear_flags, mark_done, Rejoin, UndoRejoin, cluster
<1> QED
  BY <1>5, <1>6, <1>7, <1>8, <1>9

(* What the steps that are not phases make of the run and of the rows.     *)
LEMMA OtherRuns ==
    ASSUME Core, \/ RequestStep \/ DecideStep \/ TakeStep \/ OperatorStep
                 \/ end \/ WorkerRestart \/ UNCHANGED vars
    PROVE  /\ remover' = remover /\ lost' = lost
           /\ \/ worker' = worker
              \/ /\ worker'.todo = {}
                 /\ worker'.pc \notin {"clear_flags", "mark_done", "undo_flags", "undo_mon"}
                 /\ \/ worker'.pc # "fail"
                    \/ TakeStep /\ worker'.gate \in Gate
                       /\ action[worker'.gate][worker'.kind] = "APPROVED"
           /\ \A g \in Gate :
                \/ gate[g].state = "ABSENT"
                \/ /\ gate'[g].host = gate[g].host
                   /\ gate'[g].added = gate[g].added
                   /\ gate'[g].removed = gate[g].removed
                   /\ gate'[g].state \in {gate[g].state, "RECOVERING", "ABORTING"}
<1>1. gate \in [Gate -> GateRow] /\ worker \in Run
  BY DEF Core, TypeOK
<1>2. remover' = remover /\ lost' = lost
  BY DEF RequestStep, DecideStep, TakeStep, OperatorStep, end, WorkerRestart,
     vars, Request, Decide, Take, prepare_node_os_gate, abort_node_os_gate,
     confirm_recheck, confirm_node_os_gate, approve_check, approve_write, reject,
     start, withdraw, refused, taken, operator_sets, operator_unsets, cluster,
     history
<1>3. \A g \in Gate :
        \/ gate[g].state = "ABSENT"
        \/ /\ gate'[g].host = gate[g].host
           /\ gate'[g].added = gate[g].added
           /\ gate'[g].removed = gate[g].removed
           /\ gate'[g].state \in {gate[g].state, "RECOVERING", "ABORTING"}
  <2>1. CASE RequestStep
    <3>0. PICK g \in Gate : Request(g)
      BY <2>1 DEF RequestStep
    <3>1. CASE gate' = gate
      BY <3>1
    <3>2. ASSUME NEW s \in {"RECOVERING", "ABORTING"}, gate' = [gate EXCEPT ![g].state = s]
          PROVE  \A o \in Gate : /\ gate'[o].host = gate[o].host
                                 /\ gate'[o].added = gate[o].added
                                 /\ gate'[o].removed = gate[o].removed
                                 /\ gate'[o].state \in {gate[o].state, "RECOVERING", "ABORTING"}
      BY <1>1, <3>2 DEF GateRow
    <3>3. ASSUME NEW h \in Host, prepare_node_os_gate(g, h)
          PROVE  gate[g].state = "ABSENT" /\ \A o \in Gate \ {g} : gate'[o] = gate[o]
      BY <1>1, <3>3 DEF prepare_node_os_gate
    <3> QED
      BY <3>0, <3>1, <3>2, <3>3 DEF Request, abort_node_os_gate, confirm_recheck,
         confirm_node_os_gate
  <2>2. CASE ~RequestStep
    <3>1. gate' = gate
      BY <2>2 DEF DecideStep, TakeStep, OperatorStep, end, WorkerRestart, vars,
         Decide, Take, approve_check, approve_write, reject, start, withdraw,
         refused, taken, operator_sets, operator_unsets
    <3> QED
      BY <3>1
  <2> QED
    BY <2>1, <2>2
<1>4. \/ worker' = worker
      \/ /\ worker'.todo = {}
         /\ worker'.pc \notin {"clear_flags", "mark_done", "undo_flags", "undo_mon"}
         /\ \/ worker'.pc # "fail"
            \/ TakeStep /\ worker'.gate \in Gate
               /\ action[worker'.gate][worker'.kind] = "APPROVED"
  <2>1. CASE TakeStep
    <3>0. PICK g \in Gate, k \in Kind : Take(g, k)
      BY <2>1 DEF TakeStep
    <3>1. CASE worker' = worker
      BY <3>1
    <3>2. CASE worker' # worker
      <4>1. PICK pc \in {FirstPhase[k], "fail"} :
              /\ worker' = [NoRun EXCEPT !.gate = g, !.kind = k, !.pc = pc]
              /\ action[g][k] = "APPROVED"
        BY <3>0, <3>2 DEF Take, start, withdraw, refused
      <4>2. pc \notin {"clear_flags", "mark_done", "undo_flags", "undo_mon"}
        BY DEF FirstPhase, Kind
      <4>3. /\ worker'.gate = g /\ worker'.kind = k /\ worker'.pc = pc /\ worker'.todo = {}
        BY <4>1 DEF NoRun
      <4> QED
        BY <2>1, <4>1, <4>2, <4>3
    <3> QED
      BY <3>1, <3>2
  <2>2. CASE end \/ WorkerRestart
    BY <2>2 DEF end, WorkerRestart, NoRun
  <2>3. CASE RequestStep \/ DecideStep \/ OperatorStep \/ UNCHANGED vars
    BY <2>3 DEF RequestStep, DecideStep, OperatorStep, vars, Request, Decide,
       prepare_node_os_gate, abort_node_os_gate, confirm_recheck,
       confirm_node_os_gate, approve_check, approve_write, reject,
       operator_sets, operator_unsets
  <2> QED
    BY <2>1, <2>2, <2>3
<1> QED
  BY <1>2, <1>3, <1>4

LEMMA MonsInductive == Spec => []MonsKnown
<1>1. Init => MonsKnown
  BY DEF Init, MonsKnown, MonOf, NoRun
<1>2. ASSUME Core, MonsKnown,
             \/ RequestStep \/ DecideStep \/ TakeStep \/ OperatorStep
             \/ end \/ WorkerRestart \/ UNCHANGED vars
      PROVE  MonsKnown'
  <2>1. /\ remover' = remover /\ lost' = lost
        /\ \/ worker' = worker
           \/ worker'.pc \notin {"clear_flags", "mark_done"}
        /\ \A g \in Gate :
             \/ gate[g].state = "ABSENT"
             \/ /\ gate'[g].host = gate[g].host
                /\ gate'[g].removed = gate[g].removed
                /\ gate'[g].state \in {gate[g].state, "RECOVERING", "ABORTING"}
    BY <1>2, OtherRuns
  <2>2. ASSUME NEW m \in Mon PROVE MonOf(m)'
    <3>1. MonOf(m) /\ remover[m] \in Gate \cup {NoGate}
      BY <1>2 DEF MonsKnown, Core, TypeOK
    <3> QED
      BY <2>1, <3>1 DEF MonOf, NonTerminal
  <2>3. worker'.pc \in {"clear_flags", "mark_done"}
          => \A m \in Mon : remover'[m] # worker'.gate
    BY <1>2, <2>1 DEF MonsKnown
  <2> QED
    BY <2>2, <2>3 DEF MonsKnown
<1>3. Core /\ MonsKnown /\ [Next]_vars => MonsKnown'
  BY <1>2, NextSplits, PhaseMons
<1> QED
  BY <1>1, <1>3, CoreInductive, PTL DEF Spec

(* A monitor that a gate took out of the monmap stays that gate's business *)
(* until it is back: no gate is DONE while its monitor is out.             *)
THEOREM MonsAccounted == Spec => []MonOutAccounted
<1>1. Core /\ MonsKnown => MonOutAccounted
  BY DEF MonsKnown, MonOf, MonOutAccounted
<1> QED
  BY <1>1, CoreInductive, MonsInductive, PTL

-----------------------------------------------------------------------------
(* The flags.  Those set since before the last Prepare are still set, and  *)
(* the holder of the lock, the last to be prepared, neither recorded one   *)
(* of them nor is about to set one.                                        *)
FlagsKnown ==
    /\ before \subseteq Flags
    /\ \A g \in Gate : lock = g => gate[g].added \cap before = {}
    /\ worker.todo \cap before = {}

LEMMA ClearsKeep ==
    ASSUME Core, FlagsKnown, NEW g \in Gate, g = G,
           NEW S \in SUBSET Journaled(g), UnsetOwn(S)
    PROVE  before' \subseteq before /\ before' \subseteq Flags'
<1> USE GateAssumption DEF GateAssumption
<1>1. /\ setter' = [f \in Flag |-> IF f \in S THEN NoGate ELSE setter[f]]
      /\ before' = IF lock = g THEN before ELSE before \ S
  BY DEF UnsetOwn, Unset
<1>2. S \subseteq gate[g].added
  BY DEF Journaled
<1>3. lock = g => before \cap S = {}
  BY <1>2 DEF FlagsKnown
<1>4. before' \subseteq before /\ before' \cap S = {}
  BY <1>1, <1>3
<1> QED
  BY <1>1, <1>4 DEF FlagsKnown, Flags

LEMMA PhaseFlags ==
    ASSUME Core, FlagsKnown, PhaseStep
    PROVE  FlagsKnown'
<1> USE GateAssumption DEF GateAssumption
<1>1. PICK g \in Gate : g = G
  BY PhaseMoves DEF RunMoves, Core
<1>2. /\ \A o \in Gate \ {g} : gate'[o] = gate[o]
      /\ gate \in [Gate -> GateRow] /\ gate[g] \in GateRow /\ worker \in Run
      /\ setter \in [Flag -> Gate \cup {NoGate, Operator}]
      /\ g # NoGate
  BY <1>1, PhaseLeaves DEF Core, TypeOK
<1>3. \A o \in Gate : lock' = o => lock = o
  BY PhaseOutcome DEF Core
<1>4. ASSUME NEW S, \/ gate' = [gate EXCEPT ![g].state = S]
                    \/ gate' = [gate EXCEPT ![g].removed = S]
                    \/ gate' = [gate EXCEPT ![g].added = {}]
                    \/ gate' = gate
      PROVE  \A o \in Gate : gate'[o].added \subseteq gate[o].added
  BY <1>2, <1>4 DEF GateRow
<1>5. CASE backup
  <2>1. worker' = [worker EXCEPT !.pc = "set_flags",
                     !.todo = IF HasOsd(Node) THEN Flag \ Flags ELSE {}]
        /\ UNCHANGED <<gate, lock, setter, before>>
    BY <1>5 DEF backup, cluster
  <2>2. worker'.todo \subseteq Flag \ Flags
    BY <1>2, <2>1 DEF Run
  <2> QED
    BY <2>1, <2>2 DEF FlagsKnown, Flags
<1>6. ASSUME NEW f \in Flag, set_flag(f) PROVE FlagsKnown'
  <2>1. /\ f \in worker.todo /\ lock' = lock /\ before' = before
        /\ setter' = [setter EXCEPT ![f] = IF @ = NoGate THEN g ELSE @]
        /\ \/ /\ gate' = [gate EXCEPT ![g].added = @ \cup {f}]
              /\ worker' = [worker EXCEPT !.todo = @ \ {f}]
           \/ FailPhase /\ gate' = gate
    BY <1>1, <1>6 DEF set_flag, WithFlag
  <2>2. f \notin before
    BY <2>1 DEF FlagsKnown
  <2>3. worker'.todo \subseteq worker.todo
    BY <1>2, <2>1 DEF FailPhase, Goto, Run
  <2>4. \A o \in Gate : gate'[o].added \subseteq gate[o].added \cup {f}
    BY <1>2, <2>1 DEF GateRow
  <2>5. before \subseteq Flags'
    BY <1>2, <2>1 DEF FlagsKnown, Flags
  <2> QED
    BY <2>1, <2>2, <2>3, <2>4, <2>5 DEF FlagsKnown
<1>7. ASSUME before' \subseteq before, before' \subseteq Flags',
             worker'.todo \subseteq worker.todo,
             \A o \in Gate : gate'[o].added \subseteq gate[o].added
      PROVE  FlagsKnown'
  BY <1>3, <1>7 DEF FlagsKnown
<1>8. worker'.todo \subseteq worker.todo \/ backup
  <2>1. \/ FailPhase
        \/ \E f \in Flag : worker' = [worker EXCEPT !.todo = @ \ {f}]
        \/ \E pc \in Phase : Goto(pc)
        \/ \E pc \in Phase : worker' = [worker EXCEPT !.pc = pc, !.dirty = TRUE]
        \/ backup
    BY DEF PhaseStep, PrepareStep, ReturnStep, phase_raises, set_flag,
       set_flags_done, remove_mon, no_mon_to_remove, mark_prepared, undo_mon,
       undo_flags, fail, reinstall, rejoin_mon, flags_stay, abort_clear_flags,
       recover_clear_flags, mark_done, Phase, PreparePhase, ReturnPhase
  <2> QED
    BY <1>2, <2>1 DEF FailPhase, Goto, Run
<1>9. CASE undo_flags \/ abort_clear_flags
  <2>1. PICK S \in SUBSET Journaled(g) : UnsetOwn(S)
    BY <1>1, <1>9 DEF undo_flags, abort_clear_flags, AbortClears
  <2>2. gate' = [gate EXCEPT ![g].added = {}] \/ gate' = gate
    BY <1>1, <1>9 DEF undo_flags, abort_clear_flags
  <2>3. ~backup
    BY <1>9 DEF undo_flags, abort_clear_flags, backup, At
  <2>4. before' \subseteq before /\ before' \subseteq Flags'
    BY <1>1, <2>1, ClearsKeep
  <2> QED
    BY <1>4, <1>7, <1>8, <2>2, <2>3, <2>4
<1>10. CASE recover_clear_flags
  <2>1. PICK S \in SUBSET Flags : Unset(S) /\ before' = before \ S
    BY <1>10 DEF recover_clear_flags
  <2>2. gate' = gate /\ ~backup
    BY <1>10 DEF recover_clear_flags, backup, At
  <2>3. before' \subseteq before /\ before' \subseteq Flags'
    BY <1>2, <2>1 DEF Unset, Flags, FlagsKnown
  <2> QED
    BY <1>4, <1>7, <1>8, <2>2, <2>3
<1>11. CASE ~(\/ backup \/ undo_flags \/ abort_clear_flags
               \/ recover_clear_flags \/ \E f \in Flag : set_flag(f))
  <2>1. setter' = setter /\ before' = before
    BY <1>11 DEF PhaseStep, PrepareStep, ReturnStep, phase_raises,
       set_flags_done, remove_mon, no_mon_to_remove, mark_prepared, undo_mon,
       fail, reinstall, rejoin_mon, flags_stay, mark_done, cluster
  <2>2. \A o \in Gate : gate'[o].added \subseteq gate[o].added
    BY <1>1, <1>4, <1>11 DEF PhaseStep, PrepareStep, ReturnStep, phase_raises,
       set_flags_done, remove_mon, no_mon_to_remove, mark_prepared, undo_mon,
       fail, reinstall, rejoin_mon, flags_stay, mark_done
  <2> QED
    BY <1>7, <1>8, <1>11, <2>1, <2>2 DEF Flags, FlagsKnown
<1> QED
  BY <1>5, <1>6, <1>9, <1>10, <1>11

LEMMA FlagsInductive == Spec => []FlagsKnown
<1> USE GateAssumption DEF GateAssumption
<1>1. Init => FlagsKnown
  BY DEF Init, FlagsKnown, NoRun
<1>2. ASSUME Core, LockAgrees, FlagsKnown, NEW g \in Gate, NEW h \in Host,
             prepare_node_os_gate(g, h)
      PROVE  FlagsKnown'
  <2>1. /\ lock = NoGate /\ lock' = g /\ before' = Flags /\ setter' = setter
        /\ worker' = worker /\ gate'[g].added = {}
    BY <1>2 DEF prepare_node_os_gate, LockFree, Core, TypeOK, NoRow, GateRow
  <2>2. worker.todo = {}
    <3> SUFFICES ASSUME worker.todo # {} PROVE FALSE
      OBVIOUS
    <3>1. worker.pc = "set_flags" /\ worker.kind = "prepare" /\ worker.gate \in Gate
      BY <1>2 DEF Core, RunKnown, PreparePhase, TypeOK
    <3>2. action[worker.gate]["prepare"] = "EXECUTING"
      BY <1>2, <3>1 DEF Core, RunKnown, Kind
    <3>3. gate[worker.gate].state = "PREPARING"
      BY <1>2, <3>1, <3>2 DEF Core, StatesAgree, Agree
    <3> QED
      BY <1>2, <2>1, <3>1, <3>3 DEF LockAgrees, MidFlightHoldsLock
  <2> QED
    BY <2>1, <2>2 DEF FlagsKnown, Flags
<1>3. ASSUME Core, FlagsKnown,
             \/ RequestStep \/ DecideStep \/ TakeStep \/ OperatorStep
             \/ end \/ WorkerRestart \/ UNCHANGED vars,
             ~(\E g \in Gate, h \in Host : prepare_node_os_gate(g, h))
      PROVE  FlagsKnown'
  <2>1. worker'.todo \subseteq worker.todo
    <3>1. worker' = worker \/ worker'.todo = {}
      BY <1>3, OtherRuns
    <3> QED
      BY <3>1
  <2>2. lock' = lock
    BY <1>3 DEF RequestStep, DecideStep, TakeStep, OperatorStep, end,
       WorkerRestart, vars, Request, Decide, Take, abort_node_os_gate,
       confirm_recheck, confirm_node_os_gate, approve_check, approve_write,
       reject, start, withdraw, refused, taken, operator_sets, operator_unsets
  <2>3. \A o \in Gate : gate'[o].added = gate[o].added
    <3>1. \/ gate' = gate
          \/ \E g \in Gate, s \in {"RECOVERING", "ABORTING"} :
               gate' = [gate EXCEPT ![g].state = s]
      BY <1>3 DEF RequestStep, DecideStep, TakeStep, OperatorStep, end,
         WorkerRestart, vars, Request, Decide, Take, abort_node_os_gate,
         confirm_recheck, confirm_node_os_gate, approve_check, approve_write,
         reject, start, withdraw, refused, taken, operator_sets, operator_unsets
    <3>2. gate \in [Gate -> GateRow]
      BY <1>3 DEF Core, TypeOK
    <3>3. ASSUME NEW g \in Gate, NEW s \in {"RECOVERING", "ABORTING"},
                 gate' = [gate EXCEPT ![g].state = s]
          PROVE  \A o \in Gate : gate'[o].added = gate[o].added
      BY <3>2, <3>3 DEF GateRow
    <3> QED
      BY <3>1, <3>3
  <2>4. before' \subseteq before /\ before' \subseteq Flags'
    <3>1. CASE UNCHANGED <<setter, before>>
      BY <1>3, <3>1 DEF FlagsKnown, Flags
    <3>2. ASSUME NEW f \in Flag, operator_sets(f) \/ operator_unsets(f)
          PROVE  before' \subseteq before /\ before' \subseteq Flags'
      BY <1>3, <3>2 DEF operator_sets, operator_unsets, Flags, FlagsKnown, Core,
         TypeOK
    <3> QED
      BY <1>3, <3>1, <3>2 DEF RequestStep, DecideStep, TakeStep, OperatorStep,
         end, WorkerRestart, vars, Request, Decide, Take, abort_node_os_gate,
         confirm_recheck, confirm_node_os_gate, approve_check, approve_write,
         reject, start, withdraw, refused, taken, cluster
  <2> QED
    BY <1>3, <2>1, <2>2, <2>3, <2>4 DEF FlagsKnown
<1>4. Core /\ LockAgrees /\ FlagsKnown /\ [Next]_vars => FlagsKnown'
  BY <1>2, <1>3, NextSplits, PhaseFlags
<1> QED
  BY <1>1, <1>4, CoreInductive, LocksInductive, PTL DEF Spec

(* A flag the operators had set before a Prepare outlives that Prepare, its*)
(* rollback and its Abort: while the lock is held nobody but an operator or*)
(* a Recover takes it away.                                                *)
THEOREM FlagsSurvive == Spec => []EarlierFlagsSurvive
<1>1. FlagsKnown => EarlierFlagsSurvive
  BY DEF FlagsKnown, EarlierFlagsSurvive
<1> QED
  BY <1>1, FlagsInductive, PTL

-----------------------------------------------------------------------------
(* The rollback.  A flag that a gate set is recorded in its row unless the *)
(* command raised, and a clean rollback has emptied what it has passed.    *)
FlagOf(f) ==
    LET g == setter[f] IN
    g \in Gate => /\ gate[g].state # "ABSENT"
                  /\ g \in lost \/ f \in gate[g].added
UndoKnown ==
    /\ \A f \in Flag : FlagOf(f)
    /\ worker.pc = "undo_flags" /\ worker.dirty = FALSE
         => gate[worker.gate].removed = FALSE
    /\ worker.pc = "fail" /\ worker.kind = "prepare" /\ worker.dirty = FALSE
         => gate[worker.gate].removed = FALSE /\ gate[worker.gate].added = {}

LEMMA PhaseFlagOf ==
    ASSUME Core, UndoKnown, PhaseStep
    PROVE  \A f \in Flag : FlagOf(f)'
<1> USE GateAssumption DEF GateAssumption
<1>1. PICK g \in Gate : g = G
  BY PhaseMoves DEF RunMoves, Core
<1>2. /\ \A o \in Gate \ {g} : gate'[o] = gate[o]
      /\ gate \in [Gate -> GateRow] /\ gate[g] \in GateRow
      /\ setter \in [Flag -> Gate \cup {NoGate, Operator}]
      /\ action[g][worker.kind] = "EXECUTING" /\ worker.kind \in Kind
  BY <1>1, PhaseLeaves, PhaseMoves DEF Core, TypeOK, RunMoves, RunKnown, G
<1>3. lost \subseteq lost'
  BY DEF PhaseStep, PrepareStep, ReturnStep, phase_raises, backup, set_flag,
     set_flags_done, remove_mon, no_mon_to_remove, mark_prepared, undo_mon,
     undo_flags, fail, reinstall, rejoin_mon, flags_stay, abort_clear_flags,
     recover_clear_flags, mark_done, history
<1>4. gate[g].state # "ABSENT" /\ gate'[g].state # "ABSENT"
  <2>1. gate[g].state # "ABSENT"
    BY <1>2 DEF Core, StatesAgree, Agree
  <2>2. CASE mark_done
    BY <1>1, <1>2, <2>1, <2>2 DEF mark_done, GateRow
  <2>3. CASE ~mark_done
    BY <1>1, <2>1, <2>3, PhaseState DEF Core
  <2> QED
    BY <2>1, <2>2, <2>3
<1>5. ASSUME NEW S, \/ gate' = [gate EXCEPT ![g].state = S]
                    \/ gate' = [gate EXCEPT ![g].removed = S]
                    \/ gate' = gate
      PROVE  gate'[g].added = gate[g].added
  BY <1>2, <1>5 DEF GateRow
<1>6. ASSUME \A f \in Flag : setter'[f] \in {setter[f], NoGate},
             \/ gate'[g].added = gate[g].added
             \/ \A f \in gate[g].added : f \in Flag => setter'[f] # g
      PROVE  \A f \in Flag : FlagOf(f)'
  <2> SUFFICES ASSUME NEW f \in Flag, NEW o \in Gate, setter'[f] = o
               PROVE  gate'[o].state # "ABSENT" /\ (o \in lost' \/ f \in gate'[o].added)
    BY DEF FlagOf
  <2>1. setter[f] = o
    BY <1>6
  <2>2. gate[o].state # "ABSENT" /\ (o \in lost \/ f \in gate[o].added)
    BY <2>1 DEF UndoKnown, FlagOf
  <2> QED
    BY <1>2, <1>3, <1>4, <1>6, <2>1, <2>2
<1>7. ASSUME NEW f \in Flag, set_flag(f) PROVE \A e \in Flag : FlagOf(e)'
  <2>1. /\ setter' = [setter EXCEPT ![f] = IF @ = NoGate THEN g ELSE @]
        /\ \/ gate' = [gate EXCEPT ![g].added = @ \cup {f}]
           \/ gate' = gate /\ g \in lost'
    BY <1>1, <1>7 DEF set_flag, WithFlag
  <2>2. gate[g].added \subseteq gate'[g].added /\ (f \in gate'[g].added \/ g \in lost')
    BY <1>2, <2>1 DEF GateRow
  <2> SUFFICES ASSUME NEW e \in Flag, NEW o \in Gate, setter'[e] = o
               PROVE  gate'[o].state # "ABSENT" /\ (o \in lost' \/ e \in gate'[o].added)
    BY DEF FlagOf
  <2>3. CASE setter[e] = o
    <3>1. gate[o].state # "ABSENT" /\ (o \in lost \/ e \in gate[o].added)
      BY <2>3 DEF UndoKnown, FlagOf
    <3> QED
      BY <1>2, <1>3, <1>4, <2>2, <3>1
  <2>4. CASE setter[e] # o
    <3>1. e = f /\ o = g
      BY <1>2, <2>1, <2>4
    <3> QED
      BY <1>4, <2>2, <3>1
  <2> QED
    BY <2>3, <2>4
<1>8. CASE undo_flags \/ abort_clear_flags
  <2>1. \/ UnsetOwn(Journaled(g)) /\ gate' = [gate EXCEPT ![g].added = {}]
        \/ gate' = gate /\ \E S \in SUBSET Journaled(g) : UnsetOwn(S)
    BY <1>1, <1>8 DEF undo_flags, abort_clear_flags, AbortClears
  <2>2. CASE UnsetOwn(Journaled(g)) /\ gate' = [gate EXCEPT ![g].added = {}]
    <3>1. setter' = [f \in Flag |-> IF f \in Journaled(g) THEN NoGate ELSE setter[f]]
      BY <2>2 DEF UnsetOwn, Unset
    <3>2. \A f \in Flag : setter'[f] \in {setter[f], NoGate}
      BY <3>1
    <3>3. \A f \in gate[g].added : f \in Flag => setter'[f] # g
      BY <1>2, <3>1 DEF Journaled, Flags
    <3> QED
      BY <1>6, <3>2, <3>3
  <2>3. CASE gate' = gate /\ \E S \in SUBSET Journaled(g) : UnsetOwn(S)
    <3>1. \A f \in Flag : setter'[f] \in {setter[f], NoGate}
      BY <2>3 DEF UnsetOwn, Unset
    <3> QED
      BY <1>6, <2>3, <3>1
  <2> QED
    BY <2>1, <2>2, <2>3
<1>9. CASE recover_clear_flags
  <2>1. gate' = gate /\ \A f \in Flag : setter'[f] \in {setter[f], NoGate}
    BY <1>9 DEF recover_clear_flags, Unset
  <2> QED
    BY <1>6, <2>1
<1>10. CASE ~(\/ undo_flags \/ abort_clear_flags
               \/ recover_clear_flags \/ \E f \in Flag : set_flag(f))
  <2>1. setter' = setter
    BY <1>10 DEF PhaseStep, PrepareStep, ReturnStep, phase_raises, backup,
       set_flags_done, remove_mon, no_mon_to_remove, mark_prepared, undo_mon,
       fail, reinstall, rejoin_mon, flags_stay, mark_done, cluster
  <2>2. gate'[g].added = gate[g].added
    BY <1>1, <1>5, <1>10 DEF PhaseStep, PrepareStep, ReturnStep, phase_raises,
       backup, set_flags_done, remove_mon, no_mon_to_remove, mark_prepared,
       undo_mon, fail, reinstall, rejoin_mon, flags_stay, mark_done
  <2> QED
    BY <1>6, <2>1, <2>2
<1> QED
  BY <1>7, <1>8, <1>9, <1>10

LEMMA PhaseUndo ==
    ASSUME Core, UndoKnown, PhaseStep
    PROVE  UndoKnown'
<1>1. PICK g \in Gate : g = G
  BY PhaseMoves DEF RunMoves, Core
<1>2. /\ gate \in [Gate -> GateRow] /\ gate[g] \in GateRow /\ worker \in Run
      /\ worker.gate = g /\ worker'.gate = g /\ worker'.kind = worker.kind
      /\ worker.dirty \in BOOLEAN /\ gate[g].removed \in BOOLEAN
      /\ "undo_flags" \notin PreparePhase \cup ReturnPhase
      /\ "fail" \notin PreparePhase \cup ReturnPhase
  BY <1>1, PhaseMoves, Rows DEF Core, TypeOK, RunMoves, G, Run, PreparePhase, ReturnPhase
<1>3. CASE undo_mon
  <2>1. worker.pc = "undo_mon"
    BY <1>3 DEF undo_mon, At
  <2>2. CASE gate' = gate /\ ~gate[G].removed /\ Goto("undo_flags")
    BY <1>1, <1>2, <2>2, PhaseFlagOf DEF UndoKnown, Goto, Run
  <2>3. CASE gate' = [gate EXCEPT ![G].removed = FALSE] /\ Goto("undo_flags")
    <3>1. gate'[g].removed = FALSE /\ worker'.pc = "undo_flags"
      BY <1>1, <1>2, <2>3 DEF GateRow, Goto, Run
    <3> QED
      BY <1>2, <3>1, PhaseFlagOf DEF UndoKnown
  <2>4. CASE worker' = [worker EXCEPT !.pc = "undo_flags", !.dirty = TRUE]
    <3>1. worker'.dirty = TRUE
      BY <1>2, <2>4 DEF Run
    <3> QED
      BY <3>1, PhaseFlagOf DEF UndoKnown
  <2> QED
    BY <1>3, <2>2, <2>3, <2>4 DEF undo_mon
<1>4. CASE undo_flags
  <2>1. worker.pc = "undo_flags"
    BY <1>4 DEF undo_flags, At
  <2>2. CASE gate' = [gate EXCEPT ![G].added = {}] /\ Goto("fail")
    <3>1. /\ gate'[g].removed = gate[g].removed /\ gate'[g].added = {}
          /\ worker'.pc = "fail" /\ worker'.dirty = worker.dirty
      BY <1>1, <1>2, <2>2 DEF GateRow, Goto, Run
    <3>2. worker.dirty = FALSE => gate[g].removed = FALSE
      BY <1>2, <2>1 DEF UndoKnown
    <3> QED
      BY <1>2, <3>1, <3>2, PhaseFlagOf DEF UndoKnown
  <2>3. CASE worker' = [worker EXCEPT !.pc = "fail", !.dirty = TRUE]
    <3>1. worker'.dirty = TRUE
      BY <1>2, <2>3 DEF Run
    <3> QED
      BY <3>1, PhaseFlagOf DEF UndoKnown
  <2> QED
    BY <1>4, <2>2, <2>3 DEF undo_flags
<1>5. CASE ~(undo_mon \/ undo_flags)
  <2>1. \/ FailPhase /\ worker.pc # "fail"
        \/ \E f \in Flag : set_flag(f) /\ worker' = [worker EXCEPT !.todo = @ \ {f}]
        \/ \E pc \in Phase \ {"undo_flags", "fail"} : Goto(pc)
        \/ backup
    BY <1>5 DEF PhaseStep, PrepareStep, ReturnStep, phase_raises, set_flag,
       set_flags_done, remove_mon, no_mon_to_remove, mark_prepared,
       fail, reinstall, rejoin_mon, flags_stay, abort_clear_flags,
       recover_clear_flags, mark_done, Phase, PreparePhase, ReturnPhase, At
  <2>2. \/ worker'.pc \notin {"undo_flags", "fail"}
        \/ worker'.pc = "fail" /\ worker.kind # "prepare"
    BY <1>2, <2>1 DEF FailPhase, Goto, backup, set_flag, At, Run
  <2> QED
    BY <1>2, <2>2, PhaseFlagOf DEF UndoKnown
<1> QED
  BY <1>3, <1>4, <1>5

LEMMA OtherUndo ==
    ASSUME Core, UndoKnown,
           \/ RequestStep \/ DecideStep \/ TakeStep \/ OperatorStep
           \/ end \/ WorkerRestart \/ UNCHANGED vars
    PROVE  UndoKnown'
<1> USE GateAssumption DEF GateAssumption
<1>1. /\ lost' = lost
      /\ \/ worker' = worker
         \/ /\ worker'.pc # "undo_flags"
            /\ \/ worker'.pc # "fail"
               \/ TakeStep /\ worker'.gate \in Gate
                  /\ action[worker'.gate][worker'.kind] = "APPROVED"
      /\ \A g \in Gate :
           \/ gate[g].state = "ABSENT"
           \/ /\ gate'[g].added = gate[g].added
              /\ gate'[g].removed = gate[g].removed
              /\ gate'[g].state \in {gate[g].state, "RECOVERING", "ABORTING"}
  BY OtherRuns
<1>2. setter \in [Flag -> Gate \cup {NoGate, Operator}]
  BY DEF Core, TypeOK
<1>3. \A f \in Flag : setter'[f] \in {setter[f], NoGate, Operator}
  <2>1. CASE setter' = setter
    BY <2>1
  <2>2. ASSUME NEW f \in Flag, operator_sets(f) \/ operator_unsets(f)
        PROVE  \A e \in Flag : setter'[e] \in {setter[e], NoGate, Operator}
    BY <1>2, <2>2 DEF operator_sets, operator_unsets
  <2> QED
    BY <2>1, <2>2 DEF RequestStep, DecideStep, TakeStep, OperatorStep,
       end, WorkerRestart, vars, Request, Decide, Take, prepare_node_os_gate,
       abort_node_os_gate, confirm_recheck, confirm_node_os_gate, approve_check,
       approve_write, reject, start, withdraw, refused, taken, cluster
<1>4. ASSUME NEW f \in Flag PROVE FlagOf(f)'
  <2> SUFFICES ASSUME NEW o \in Gate, setter'[f] = o
               PROVE  gate'[o].state # "ABSENT" /\ (o \in lost' \/ f \in gate'[o].added)
    BY DEF FlagOf
  <2>1. setter[f] = o
    BY <1>3
  <2>2. gate[o].state # "ABSENT" /\ (o \in lost \/ f \in gate[o].added)
    BY <2>1 DEF UndoKnown, FlagOf
  <2> QED
    BY <1>1, <2>2
<1>5. CASE worker' = worker
  <2>1. ASSUME worker.pc \in {"undo_flags", "fail"}
        PROVE  /\ gate'[worker.gate].added = gate[worker.gate].added
               /\ gate'[worker.gate].removed = gate[worker.gate].removed
    <3>1. worker.gate \in Gate /\ worker.kind \in Kind
          /\ action[worker.gate][worker.kind] = "EXECUTING"
      BY <2>1 DEF Core, TypeOK, RunKnown, Run
    <3>2. gate[worker.gate].state # "ABSENT"
      BY <3>1 DEF Core, StatesAgree, Agree
    <3> QED
      BY <1>1, <3>1, <3>2
  <2> QED
    BY <1>4, <1>5, <2>1 DEF UndoKnown
<1>6. CASE worker' # worker
  <2>1. worker'.pc # "undo_flags"
    BY <1>1, <1>6
  <2>2. ASSUME worker'.pc = "fail", worker'.kind = "prepare"
        PROVE  gate'[worker'.gate].removed = FALSE /\ gate'[worker'.gate].added = {}
    <3>1. PICK g \in Gate : g = worker'.gate /\ action[g]["prepare"] = "APPROVED"
      BY <1>1, <1>6, <2>2
    <3>2. /\ gate[g].state = "PREPARING" /\ gate[g].added = {} /\ ~gate[g].removed
          /\ gate[g].removed \in BOOLEAN
      BY <3>1, Rows DEF Core, StatesAgree, Agree
    <3> QED
      BY <1>1, <3>1, <3>2
  <2> QED
    BY <1>4, <2>1, <2>2 DEF UndoKnown
<1> QED
  BY <1>5, <1>6

LEMMA UndoInductive == Spec => []UndoKnown
<1>1. Init => UndoKnown
  BY GateAssumption DEF Init, UndoKnown, FlagOf, NoRun, GateAssumption
<1>2. Core /\ UndoKnown /\ [Next]_vars => UndoKnown'
  BY NextSplits, PhaseUndo, OtherUndo
<1> QED
  BY <1>1, <1>2, CoreInductive, PTL DEF Spec

(* Only the failure handling of its own run turns a gate that is being     *)
(* prepared into FAILED, and it gives the lock back only when clean.       *)
LEMMA FailureIsClean ==
    ASSUME Core, LockAgrees, MonsKnown, UndoKnown, Core', MonsKnown', UndoKnown',
           [Next]_vars, NEW g \in Gate,
           gate[g].state = "PREPARING", gate'[g].state = "FAILED",
           lock' # g, g \notin lost
    PROVE  /\ \A m \in Mon : remover'[m] # g
           /\ \A f \in Flag : setter'[f] # g
<1>1. PhaseStep
  <2>1. ASSUME \/ RequestStep \/ DecideStep \/ TakeStep \/ OperatorStep
               \/ end \/ WorkerRestart \/ UNCHANGED vars
        PROVE  FALSE
    <3>1. gate'[g].state \in {gate[g].state, "RECOVERING", "ABORTING"}
      BY <2>1, OtherRuns
    <3> QED
      BY <3>1
  <2> QED
    BY <2>1, NextSplits
<1>2. g = G /\ worker.gate = g /\ worker.kind \in Kind /\ worker.pc # "idle"
  BY <1>1, PhaseLeaves, PhaseMoves DEF Core, RunMoves, G
<1>3. worker.kind = "prepare"
  <2>1. action[g][worker.kind] = "EXECUTING"
    BY <1>2 DEF Core, RunKnown
  <2> QED
    BY <1>2, <2>1 DEF Core, StatesAgree, Agree, Kind
<1>4. /\ gate \in [Gate -> GateRow] /\ gate[g] \in GateRow /\ worker \in Run
      /\ worker.dirty \in BOOLEAN
  BY DEF Core, TypeOK, Run
<1>5. fail
  <2>1. ASSUME NEW S, \/ gate' = [gate EXCEPT ![g].added = S]
                      \/ gate' = [gate EXCEPT ![g].removed = S]
                      \/ gate' = gate
                      \/ gate' = [gate EXCEPT ![g].state = "PREPARED"]
                      \/ gate' = [gate EXCEPT ![g].state = "DONE"]
        PROVE  FALSE
    BY <1>4, <2>1 DEF GateRow
  <2> QED
    BY <1>1, <1>2, <2>1 DEF PhaseStep, PrepareStep, ReturnStep, phase_raises,
       backup, set_flag, set_flags_done, remove_mon, no_mon_to_remove,
       mark_prepared, undo_mon, undo_flags, reinstall, rejoin_mon, flags_stay,
       abort_clear_flags, recover_clear_flags, mark_done
<1>6. /\ worker.pc = "fail" /\ remover' = remover /\ setter' = setter /\ lost' = lost
      /\ gate' = [gate EXCEPT ![g].state = "FAILED"]
      /\ lock' = IF LockKept THEN lock ELSE Release(G)
  BY <1>2, <1>5 DEF fail, At, cluster
<1>7. lock = g
  BY DEF LockAgrees, MidFlightHoldsLock
<1>8. worker.dirty = FALSE
  <2> SUFFICES ASSUME worker.dirty = TRUE PROVE FALSE
    BY <1>4
  <2> QED
    BY <1>6, <1>7 DEF LockKept
<1>9. gate[g].removed = FALSE /\ gate[g].added = {}
  BY <1>2, <1>3, <1>6, <1>8 DEF UndoKnown
<1>10. ASSUME NEW m \in Mon PROVE remover'[m] # g
  <2>1. MonOf(m)
    BY DEF MonsKnown
  <2>2. g # NoGate
    BY GateAssumption DEF GateAssumption
  <2> QED
    BY <1>6, <1>9, <2>1, <2>2 DEF MonOf
<1>11. ASSUME NEW f \in Flag PROVE setter'[f] # g
  <2>1. FlagOf(f)
    BY DEF UndoKnown
  <2> QED
    BY <1>6, <1>9, <2>1 DEF FlagOf
<1> QED
  BY <1>10, <1>11

(* A Prepare that failed and gave the lock back has left nothing behind:   *)
(* its monitor is in and no flag it set is set, unless a command took      *)
(* effect and raised.                                                      *)
THEOREM PrepareUndone == Spec => FailedPrepareUndone
<1>1. Core /\ LockAgrees /\ MonsKnown /\ UndoKnown /\ Core' /\ MonsKnown' /\ UndoKnown'
        /\ [Next]_vars
      => [\A g \in Gate :
            /\ gate[g].state = "PREPARING" /\ gate'[g].state = "FAILED"
            /\ lock' # g
            /\ g \notin lost
            => /\ \A m \in Mon : remover'[m] # g
               /\ \A f \in Flag : setter'[f] # g]_vars
  BY FailureIsClean
<1> QED
  BY <1>1, CoreInductive, LocksInductive, MonsInductive, UndoInductive, PTL
     DEF Spec, FailedPrepareUndone
=============================================================================
