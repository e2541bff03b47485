--------------------------- MODULE NodeUpgradeGate ---------------------------
(***************************************************************************)
(* Taking one node of a cluster at a time out of service to reinstall its  *)
(* operating system: the gate row and the compare-and-set lock             *)
(* (shared/node_upgrade_gate.py), the operator's three requests            *)
(* (dashboard/routes/upgrade.py), their approval                           *)
(* (dashboard/routes/actions.py) and the Worker's phase lists Prepare,     *)
(* Abort and Recover (worker/executor/cluster_deploy.py).                  *)
(*                                                                         *)
(* Abstractions.  One cluster, hence one lock; one approval of an Action   *)
(* at a time.  What Prepare must be able to undo is one step a command,    *)
(* which may take effect and still raise; any other phase is one step,     *)
(* and a run of phases that only touch the node is one phase that          *)
(* succeeds or fails.  ENDED stands for EXECUTED, FAILED and INCONCLUSIVE; *)
(* EXECUTING for an APPROVED Action whose Incident is EXECUTING.           *)
(***************************************************************************)
EXTENDS Naturals

CONSTANTS Host,        \* nodes of the cluster
          Mon,         \* those with the MON role
          Osd,         \* those with the OSD role
          Flag,        \* _MAINTENANCE_FLAGS
          Gate,        \* rows of node_upgrade_gates, at most one Prepare each
          NoGate,      \* no gate: the lock is free, the MON is in
          Operator     \* who set a flag that no gate set

ASSUME GateAssumption ==
    /\ Host # {}
    /\ Mon \subseteq Host /\ Osd \subseteq Host
    /\ NoGate \notin Gate /\ Operator \notin Gate /\ Operator # NoGate

VARIABLES gate,       \* [Gate -> row]            node_upgrade_gates
          lock,       \* Gate or NoGate           active_gate_id
          action,     \* [Gate -> [Kind -> status]] the gate's three Actions
          confirming, \* gates some Confirm requests saw PREPARED
          approving,  \* Actions an approval has checked, not yet written
          worker,     \* the Worker's run of one gate Action
          remover,    \* [Mon -> who took it out of the monmap]
          setter,     \* [Flag -> who set it]
          before,     \* history: flags set since before the last Prepare
          stuck,      \* history: gates left to the operators
          lost        \* history: gates one of whose commands raised after
                      \*          it took effect

vars == <<gate, lock, action, confirming, approving, worker, remover, setter,
          before, stuck, lost>>
requests == <<confirming, approving>>
cluster == <<remover, setter, before>>
history == <<stuck, lost>>

-----------------------------------------------------------------------------
NonTerminal == {"PREPARING", "PREPARED", "RECOVERING", "ABORTING"}
GateState == NonTerminal \cup {"ABSENT", "DONE", "FAILED"}
Kind == {"prepare", "abort", "recover"}
ActionStatus == {"NONE", "PENDING_APPROVAL", "APPROVED", "EXECUTING",
                 "REJECTED", "ENDED"}
InFlight == {"PENDING_APPROVAL", "APPROVED", "EXECUTING"}

PreparePhase == {"backup", "set_flags", "remove_mon", "mark_prepared"}
ReturnPhase == {"reinstall", "rejoin_mon", "clear_flags", "mark_done"}
Phase == PreparePhase \cup ReturnPhase
            \cup {"idle", "undo_mon", "undo_flags", "fail", "end"}
FirstPhase == [prepare |-> "backup", abort |-> "rejoin_mon",
               recover |-> "reinstall"]

GateRow == [host : Host, state : GateState, added : SUBSET Flag,
            removed : BOOLEAN]
NoRow == [host |-> CHOOSE h \in Host : TRUE, state |-> "ABSENT",
          added |-> {}, removed |-> FALSE]

(* The Worker's run: the Action, the phase, the flags Prepare still has to *)
(* set, and whether a step of the rollback has failed.                     *)
Run == [gate : Gate \cup {NoGate}, kind : Kind, pc : Phase,
        todo : SUBSET Flag, dirty : BOOLEAN]
NoRun == [gate |-> NoGate, kind |-> "prepare", pc |-> "idle", todo |-> {},
          dirty |-> FALSE]

Out == {m \in Mon : remover[m] # NoGate}
Flags == {f \in Flag : setter[f] # NoGate}
FlagsOf(g) == {f \in Flag : setter[f] = g}

(* The markers a row carries are those of the roles its node has.          *)
TypeOK ==
    /\ gate \in [Gate -> GateRow]
    /\ \A g \in Gate : /\ gate[g].added # {} => gate[g].host \in Osd
                       /\ gate[g].removed => gate[g].host \in Mon
    /\ lock \in Gate \cup {NoGate}
    /\ action \in [Gate -> [Kind -> ActionStatus]]
    /\ confirming \in SUBSET Gate
    /\ approving \in SUBSET (Gate \X Kind)
    /\ worker \in Run /\ (worker.pc # "idle" => worker.gate \in Gate)
    /\ remover \in [Mon -> Gate \cup {NoGate}]
    /\ setter \in [Flag -> Gate \cup {NoGate, Operator}]
    /\ before \in SUBSET Flag
    /\ stuck \in SUBSET Gate /\ lost \in SUBSET Gate

Init ==
    /\ gate = [g \in Gate |-> NoRow]
    /\ lock = NoGate
    /\ action = [g \in Gate |-> [k \in Kind |-> "NONE"]]
    /\ confirming = {} /\ approving = {}
    /\ worker = NoRun
    /\ remover = [m \in Mon |-> NoGate]
    /\ setter = [f \in Flag |-> NoGate]
    /\ before = {}
    /\ stuck = {} /\ lost = {}

-----------------------------------------------------------------------------
(* The dashboard.                                                          *)

(* claim_node_upgrade_gate_lock.                                           *)
ClaimAnyway == TRUE                              \* mutant of LockFree
LockFree == lock = NoGate

(* is_node_upgrade_gate_pending, but for g's own row.                      *)
OtherPending(g) ==
    \E o \in Gate \ {g} : gate[o].state \in NonTerminal

(* Prepare: the claim, the gate row and its Action commit together.        *)
prepare_node_os_gate(g, h) ==
    /\ gate[g].state = "ABSENT"
    /\ \A o \in Gate : gate[o].host = h => gate[o].state \notin NonTerminal
    /\ LockFree
    /\ lock' = g
    /\ gate' = [gate EXCEPT ![g] = [NoRow EXCEPT !.host = h,
                                                 !.state = "PREPARING"]]
    /\ action' = [action EXCEPT ![g]["prepare"] = "PENDING_APPROVAL"]
    /\ before' = Flags
    /\ UNCHANGED <<requests, worker, remover, setter, history>>

(* A request finds the newest gate of its host, the last to be prepared.   *)
(* Abort: the reservation is conditional, the read before it advisory.     *)
abort_node_os_gate(g) ==
    /\ gate[g].state = "PREPARED"
    /\ action[g]["abort"] = "NONE"
    /\ gate' = [gate EXCEPT ![g].state = "ABORTING"]
    /\ action' = [action EXCEPT ![g]["abort"] = "PENDING_APPROVAL"]
    /\ UNCHANGED <<lock, requests, worker, cluster, history>>

(* Confirm: after the check of the new system the row is read again ...    *)
confirm_recheck(g) ==
    /\ gate[g].state = "PREPARED"
    /\ confirming' = confirming \cup {g}
    /\ UNCHANGED <<gate, lock, action, approving, worker, cluster, history>>

(* ... and written without a condition, by each of the requests that saw   *)
(* PREPARED.  The unique index refuses a second Recover in flight.         *)
confirm_node_os_gate(g) ==
    /\ g \in confirming
    /\ confirming' \in {confirming, confirming \ {g}}
    /\ \/ /\ action[g]["recover"] \in InFlight
          /\ UNCHANGED <<gate, action>>
       \/ /\ action[g]["recover"] \notin InFlight
          /\ gate' = [gate EXCEPT ![g].state = "RECOVERING"]
          /\ action' = [action EXCEPT ![g]["recover"] = "PENDING_APPROVAL"]
    /\ UNCHANGED <<lock, approving, worker, cluster, history>>

(* approve_action_core, by the request itself or later by an operator: a   *)
(* conflict leaves the Action waiting for another approval.                *)
approve_check(g, k) ==
    /\ action[g][k] = "PENDING_APPROVAL"
    /\ ~OtherPending(g)
    /\ \A o \in Gate, l \in Kind :
         action[o][l] \in InFlight => o = g /\ l = k
    /\ approving' = approving \cup {<<g, k>>}
    /\ UNCHANGED <<gate, lock, action, confirming, worker, cluster, history>>

approve_write(g, k) ==
    /\ <<g, k>> \in approving
    /\ approving' = approving \ {<<g, k>>}
    /\ action' = [action EXCEPT ![g][k] = "APPROVED"]
    /\ UNCHANGED <<gate, lock, confirming, worker, cluster, history>>

(* reject_action_core knows nothing of the gate.                           *)
reject(g, k) ==
    /\ action[g][k] = "PENDING_APPROVAL"
    /\ action' = [action EXCEPT ![g][k] = "REJECTED"]
    /\ stuck' = stuck \cup {g}
    /\ UNCHANGED <<gate, lock, requests, worker, cluster, lost>>

(* The operators change the flags themselves.                              *)
operator_sets(f) ==
    /\ setter[f] = NoGate
    /\ setter' = [setter EXCEPT ![f] = Operator]
    /\ UNCHANGED <<gate, lock, action, requests, worker, remover, before,
                   history>>

operator_unsets(f) ==
    /\ setter[f] # NoGate
    /\ setter' = [setter EXCEPT ![f] = NoGate]
    /\ before' = before \ {f}
    /\ UNCHANGED <<gate, lock, action, requests, worker, remover, history>>

-----------------------------------------------------------------------------
(* The Worker takes an approved Action.                                    *)

Idle == worker.pc = "idle"
taken == <<gate, lock, requests, cluster, lost>>

start(g, k) ==
    /\ Idle /\ action[g][k] = "APPROVED"
    /\ action' = [action EXCEPT ![g][k] = "EXECUTING"]
    /\ \E pc \in {FirstPhase[k], "fail"} :       \* fail: no cluster found
          worker' = [NoRun EXCEPT !.gate = g, !.kind = k, !.pc = pc]
    /\ UNCHANGED <<stuck, taken>>

(* Maintenance window, capacity or backup gate: back to approval.          *)
withdraw(g, k) ==
    /\ Idle /\ action[g][k] = "APPROVED"
    /\ action' = [action EXCEPT ![g][k] = "PENDING_APPROVAL"]
    /\ UNCHANGED <<worker, stuck, taken>>

(* The preflight refuses: the Action FAILED, the gate is not told.         *)
refused(g, k) ==
    /\ Idle /\ action[g][k] = "APPROVED"
    /\ action' = [action EXCEPT ![g][k] = "ENDED"]
    /\ stuck' = stuck \cup {g}
    /\ UNCHANGED <<worker, taken>>

-----------------------------------------------------------------------------
(* The phases.  G and Node are the gate and the host the Worker is on.     *)

G == worker.gate
Node == gate[G].host
At(pc) == worker.pc = pc
Goto(pc) == worker' = [worker EXCEPT !.pc = pc, !.todo = {}]

AnyHost(h) == TRUE                               \* mutant of HasOsd
HasOsd(h) == h \in Osd

(* Only a failed Prepare is rolled back.                                   *)
FailPhase == Goto(IF worker.kind = "prepare" THEN "undo_mon" ELSE "fail")

phase_raises ==
    /\ worker.pc \in PreparePhase \cup ReturnPhase
    /\ FailPhase
    /\ UNCHANGED <<gate, lock, action, requests, cluster, history>>

(* _phase_gate_backup_osd_and_metadata; the flags are read next.           *)
backup ==
    /\ At("backup")
    /\ worker' = [worker EXCEPT !.pc = "set_flags",
                     !.todo = IF HasOsd(Node) THEN Flag \ Flags ELSE {}]
    /\ UNCHANGED <<gate, lock, action, requests, cluster, history>>

WithFlag(f) ==
    setter' = [setter EXCEPT ![f] = IF @ = NoGate THEN G ELSE @]

(* One flag: set, then recorded in the row.  Or it raises when it was set. *)
set_flag(f) ==
    /\ At("set_flags") /\ f \in worker.todo
    /\ WithFlag(f)
    /\ \/ /\ gate' = [gate EXCEPT ![G].added = @ \cup {f}]
          /\ worker' = [worker EXCEPT !.todo = @ \ {f}]
          /\ UNCHANGED lost
       \/ /\ FailPhase
          /\ lost' = lost \cup {G}
          /\ UNCHANGED gate
    /\ UNCHANGED <<lock, action, requests, remover, before, stuck>>

set_flags_done ==
    /\ At("set_flags") /\ worker.todo = {}
    /\ Goto("remove_mon")
    /\ UNCHANGED <<gate, lock, action, requests, cluster, history>>

(* _phase_gate_remove_mon: needs another configured MON; Ceph keeps its    *)
(* last one; "mon rm" of a MON that is out succeeds, and the count after   *)
(* it is then not one less.                                                *)
Removable == Node \in Mon /\ Mon \ {Node} # {} /\ Mon \ Out # {Node}
remove_mon ==
    /\ At("remove_mon") /\ Removable
    /\ remover' = [remover EXCEPT ![Node] = IF @ = NoGate THEN G ELSE @]
    /\ \/ /\ gate' = [gate EXCEPT ![G].removed = TRUE]
          /\ \/ Node \notin Out /\ Goto("mark_prepared")
             \/ FailPhase
          /\ UNCHANGED lost
       \/ /\ FailPhase
          /\ lost' = lost \cup {G}
          /\ UNCHANGED gate
    /\ UNCHANGED <<lock, action, requests, setter, before, stuck>>

no_mon_to_remove ==
    /\ At("remove_mon") /\ Node \notin Mon
    /\ Goto("mark_prepared")
    /\ UNCHANGED <<gate, lock, action, requests, cluster, history>>

mark_prepared ==
    /\ At("mark_prepared")
    /\ gate' = [gate EXCEPT ![G].state = "PREPARED"]
    /\ Goto("end")
    /\ UNCHANGED <<lock, action, requests, cluster, history>>

(* _rollback_failed_prepare: the MON, then the flags, each best effort.    *)
(* The MON may be back although its rejoin raised.                         *)
Rejoin == remover' = [remover EXCEPT ![Node] = NoGate]
RejoinForgotten == UNCHANGED remover             \* mutant of UndoRejoin
UndoRejoin == Rejoin

undo_mon ==
    /\ At("undo_mon")
    /\ \/ /\ ~gate[G].removed
          /\ Goto("undo_flags")
          /\ UNCHANGED <<gate, remover>>
       \/ /\ gate[G].removed
          /\ UndoRejoin /\ gate' = [gate EXCEPT ![G].removed = FALSE]
          /\ Goto("undo_flags")
       \/ /\ gate[G].removed
          /\ Rejoin \/ UNCHANGED remover
          /\ worker' = [worker EXCEPT !.pc = "undo_flags", !.dirty = TRUE]
          /\ UNCHANGED gate
    /\ UNCHANGED <<lock, action, requests, setter, before, history>>

Unset(S) == setter' = [f \in Flag |-> IF f \in S THEN NoGate ELSE setter[f]]
UnsetOwn(S) == /\ Unset(S)
               /\ before' = IF lock = G THEN before ELSE before \ S
Journaled(g) == gate[g].added \cap Flags

(* All of them, or those that came before the one that raised.             *)
undo_flags ==
    /\ At("undo_flags")
    /\ \/ /\ UnsetOwn(Journaled(G))
          /\ gate' = [gate EXCEPT ![G].added = {}]
          /\ Goto("fail")
       \/ /\ gate[G].added # {}
          /\ \E S \in SUBSET Journaled(G) : UnsetOwn(S)
          /\ worker' = [worker EXCEPT !.pc = "fail", !.dirty = TRUE]
          /\ UNCHANGED gate
    /\ UNCHANGED <<lock, action, requests, remover, history>>

(* _fail_node_upgrade_gate: releases the lock unless the rollback failed.  *)
(* Its own failure is swallowed.                                           *)
KeptAnyway == TRUE                               \* mutant of LockKept
LockKept == worker.dirty
Release(g) == IF lock = g THEN NoGate ELSE lock  \* only the holder's

fail ==
    /\ At("fail")
    /\ \/ /\ gate[G].state \notin {"DONE", "FAILED"}
          /\ gate' = [gate EXCEPT ![G].state = "FAILED"]
          /\ lock' = IF LockKept THEN lock ELSE Release(G)
          /\ stuck' = IF worker.dirty THEN stuck \cup {G} ELSE stuck
       \/ /\ gate[G].state \in {"DONE", "FAILED"}
          /\ UNCHANGED <<gate, lock, stuck>>
       \/ /\ stuck' = stuck \cup {G}
          /\ UNCHANGED <<gate, lock>>
    /\ Goto("end")
    /\ UNCHANGED <<action, requests, cluster, lost>>

(* check_disk, configure_base, install_packages,                           *)
(* restore_config_and_keyring, activate_osd.                               *)
reinstall ==
    /\ At("reinstall")
    /\ Goto("rejoin_mon")
    /\ UNCHANGED <<gate, lock, action, requests, cluster, history>>

(* _phase_gate_rejoin_mon, _phase_gate_abort_rejoin_mon: the MON may be    *)
(* in the quorum and refreshing the configuration still raise.             *)
SkipRejoin == TRUE                               \* mutant of NoMonRole
NoMonRole == Node \notin Mon

rejoin_mon ==
    /\ At("rejoin_mon")
    /\ \/ NoMonRole /\ Goto("clear_flags") /\ UNCHANGED remover
       \/ /\ ~NoMonRole /\ Mon \ {Node} # {}
          /\ Rejoin
          /\ Goto("clear_flags") \/ FailPhase
    /\ UNCHANGED <<gate, lock, action, requests, setter, before, history>>

(* Abort clears the flags its Prepare recorded ...                         *)
AllFlags(g) == Flags                             \* mutant of AbortClears
AbortClears(g) == Journaled(g)

NothingToClear ==
    \/ ~HasOsd(Node)
    \/ OtherPending(G)
    \/ worker.kind = "abort" /\ gate[G].added = {}

flags_stay ==
    /\ At("clear_flags") /\ NothingToClear
    /\ Goto("mark_done")
    /\ UNCHANGED <<gate, lock, action, requests, cluster, history>>

abort_clear_flags ==
    /\ At("clear_flags") /\ worker.kind = "abort" /\ ~NothingToClear
    /\ \/ /\ UnsetOwn(AbortClears(G))
          /\ gate' = [gate EXCEPT ![G].added = {}]
          /\ Goto("mark_done")
       \/ /\ \E S \in SUBSET AbortClears(G) : UnsetOwn(S)
          /\ FailPhase
          /\ UNCHANGED gate
    /\ UNCHANGED <<lock, action, requests, remover, history>>

(* ... and Recover every maintenance flag, whoever set it, in one shell    *)
(* command that fails when its last part does.                             *)
recover_clear_flags ==
    /\ At("clear_flags") /\ worker.kind = "recover" /\ ~NothingToClear
    /\ \E S \in SUBSET Flags :
          /\ Unset(S) /\ before' = before \ S
          /\ \/ (S # {} \/ Flags = {}) /\ Goto("mark_done")
             \/ S # Flags /\ FailPhase
    /\ UNCHANGED <<gate, lock, action, requests, remover, history>>

(* _phase_gate_abort_mark_done, _phase_gate_mark_recovered.                *)
HeldOn(g) == lock                                \* mutant of DoneReleases
DoneReleases(g) == Release(g)

mark_done ==
    /\ At("mark_done")
    /\ gate' = [gate EXCEPT ![G].state = "DONE"]
    /\ lock' = DoneReleases(G)
    /\ Goto("end")
    /\ UNCHANGED <<action, requests, cluster, history>>

(* The result is recorded after run() has returned.                        *)
end ==
    /\ At("end")
    /\ action' = [action EXCEPT ![G][worker.kind] = "ENDED"]
    /\ worker' = NoRun
    /\ UNCHANGED <<gate, lock, requests, cluster, history>>

(* The run is lost; the next start-up ends its Action and knows nothing of *)
(* the gate (reconcile_interrupted_approved_executions).                   *)
WorkerRestart ==
    /\ ~Idle
    /\ action' = [action EXCEPT ![G][worker.kind] = "ENDED"]
    /\ stuck' = IF At("end") THEN stuck ELSE stuck \cup {G}
    /\ worker' = NoRun
    /\ UNCHANGED <<gate, lock, requests, cluster, lost>>

-----------------------------------------------------------------------------
Decide(g, k) == approve_check(g, k) \/ approve_write(g, k) \/ reject(g, k)
Request(g) ==
    \/ \E h \in Host : prepare_node_os_gate(g, h)
    \/ abort_node_os_gate(g)
    \/ confirm_recheck(g)
    \/ confirm_node_os_gate(g)
Take(g, k) == start(g, k) \/ withdraw(g, k) \/ refused(g, k)

PrepareStep ==
    \/ backup
    \/ \E f \in Flag : set_flag(f)
    \/ set_flags_done
    \/ remove_mon
    \/ no_mon_to_remove
    \/ mark_prepared
    \/ undo_mon
    \/ undo_flags
ReturnStep ==
    \/ reinstall
    \/ rejoin_mon
    \/ flags_stay
    \/ abort_clear_flags
    \/ recover_clear_flags
    \/ mark_done
WorkerStep == PrepareStep \/ ReturnStep \/ phase_raises \/ fail \/ end

Next ==
    \/ \E g \in Gate : Request(g)
    \/ \E g \in Gate, k \in Kind : Decide(g, k) \/ Take(g, k)
    \/ \E f \in Flag : operator_sets(f) \/ operator_unsets(f)
    \/ WorkerStep
    \/ WorkerRestart

Spec == Init /\ [][Next]_vars

-----------------------------------------------------------------------------
(* A gate that is being prepared, waits for its reinstalled node or is     *)
(* being aborted holds the lock: whatever fails or races, no other node's  *)
(* Prepare gets past the claim.                                            *)
MidFlightHoldsLock ==
    \A g \in Gate :
        gate[g].state \in {"PREPARING", "PREPARED", "ABORTING"} => lock = g

(* Every other Prepare waits for the lock, so a held lock has a cause that *)
(* goes on: the node waits, reinstalled or not, for Confirm or Abort, an   *)
(* Action of its gate is still to end, or the gate was left to the         *)
(* operators, by a rejection, a refused preflight, a restart or a failure  *)
(* of the failure handling itself.                                         *)
LockExplained ==
    \A g \in Gate :
        lock = g => \/ gate[g].state = "PREPARED"
                    \/ \E k \in Kind : action[g][k] \in InFlight
                    \/ g \in stuck

(* A monitor that a gate took out is still that gate's business: the gate  *)
(* is under way or FAILED, never DONE.                                     *)
MonOutAccounted ==
    \A m \in Mon :
        remover[m] # NoGate =>
            gate[remover[m]].state \in NonTerminal \cup {"FAILED"}

(* A Prepare that failed and gave the lock back has undone what it did,    *)
(* unless a command took effect and raised.                                *)
FailedPrepareUndone ==
    [][\A g \in Gate :
          /\ gate[g].state = "PREPARING" /\ gate'[g].state = "FAILED"
          /\ lock' # g
          /\ g \notin lost
          => /\ \A m \in Mon : remover'[m] # g
             /\ \A f \in Flag : setter'[f] # g]_vars

(* A flag that was set before the Prepare outlives its rollback and its    *)
(* Abort.                                                                  *)
EarlierFlagsSurvive == lock # NoGate => before \subseteq Flags
=============================================================================
