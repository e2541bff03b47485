------------------------- MODULE MCIncidentDelivery -------------------------
(* Instances of IncidentDelivery for TLC.                                  *)
EXTENDS IncidentDelivery, FiniteSetsExt, TLC

Processes == Permutations(Worker) \cup Permutations(Dispatcher)

(* The state constraint of the safety run.  The dispatchers race in the    *)
(* first round of diagnosis, with a restart anywhere in it; while a failed *)
(* diagnosis is retried, and from the verification retry on, TLC keeps to  *)
(* the states with one dispatcher at work, and the second round has no     *)
(* restart and no failed diagnosis of its own and starts once the first    *)
(* event's row is settled and the Watcher is through with it.              *)
Retrying == \/ \E m \in Msg : m.retry > 0 /\ queue[m] > 0
            \/ \E w \in Worker : handler[w].msg.retry > 0
SecondRound == \E i \in Incident : verifies[i] > 0
AtWork == {d \in Dispatcher : dispatcher[d].pc # "idle"}

OneDifficultyAtATime ==
    /\ Retrying \/ SecondRound => Cardinality(AtWork) <= 1
    /\ SecondRound => /\ crashes = 0 /\ ~Retrying
                      /\ \A i \in Incident :
                           /\ watcher[<<i, 0>>] = "idle"
                           /\ outbox[<<i, 0>>].status \in {"SENT", "DEAD"}
=============================================================================
