------------------------ MODULE MCAutonomousExecution ------------------------
(* Instances of AutonomousExecution for TLC.                               *)
EXTENDS AutonomousExecution, TLC

Alike == Permutations(Worker) \cup Permutations(Action)

(* The state constraint of the safety run: the third Action is there for   *)
(* the limit and for the lease.  While all three have been touched, TLC    *)
(* leaves out restarts, verification retries and what the Watcher closes;  *)
(* a restart and a verification retry together, and two pollers at work at *)
(* the same time, are for one Action alone.                                *)
Untouched == {a \in Action : action[a] = "ABSENT" /\ incident[a] = "NEW"
                             /\ messages[a] = 1}
OneTouched == \E a \in Action : Action \ {a} \subseteq Untouched

Restarted == crashes > 0
Retried == \E a \in Action : verifies[a] > 0
Closed == \E a \in Action : incident[a] = "RESOLVED"
Polling == {t \in Thread : ~IsHandler(t) /\ thread[t].pc # "idle"}

TwoInDifficulty ==
    /\ Restarted \/ Retried \/ Closed => Untouched # {}
    /\ Restarted /\ Retried => OneTouched
    /\ Cardinality(Polling) > 1 => OneTouched
=============================================================================
