-------------------------- MODULE MCActionLifecycle --------------------------
(* Instances of ActionLifecycle for TLC.                                   *)
EXTENDS ActionLifecycle, TLC

Processes == Permutations(Worker) \cup Permutations(Operator)

(* The state constraint of the safety run.  Only a request is approved     *)
(* more than once, before any health check has an Action and with one      *)
(* restart at most.                                                        *)
TwiceApprovedAlone ==
    \A i \in Incident :
      approvals[i] > 1
        => /\ i \in Requested /\ restarts <= 1
           /\ \A j \in Incident \ {i} : action[j] = "ABSENT"

(* A second restart comes while a health check is still to be diagnosed.   *)
TwiceRestartedEarly ==
    restarts > 1
      => \E i \in Incident \ Requested :
           action[i] = "ABSENT" /\ incident[i] = "NEW"

(* The database refuses the outcome of a diagnosis, or a message is left   *)
(* for an Incident that is FAILED, while every request waits for its       *)
(* operator; only one such refusal.                                        *)
Stale(i) == incident[i] = "FAILED" /\ messages[i] > 0
TroubleFirst ==
    refused # {} \/ (\E i \in Incident : Stale(i))
      => /\ \A i \in Requested : action[i] = "PENDING_APPROVAL"
         /\ refused # {} => \E i \in Incident : refused = {i}

OneTwice == TwiceApprovedAlone /\ TwiceRestartedEarly /\ TroubleFirst
=============================================================================
