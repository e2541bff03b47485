-------------------------------- MODULE Outbox --------------------------------
(***************************************************************************)
(* What a transactional outbox promises, whoever sends and however often:  *)
(* an event reaches the broker only after its row was committed, a row is  *)
(* called SENT only when the broker has accepted the event, what the       *)
(* broker accepted is never taken back, and only an accepted event is      *)
(* handled.  How rows are claimed, leased, retried and reconciled, and     *)
(* where a message is at any moment, is left to the implementation.        *)
(***************************************************************************)
CONSTANT Event

VARIABLES row,       \* [Event -> status]
          accepted,  \* events the broker has accepted
          done       \* events a consumer is through with

vars == <<row, accepted, done>>

Status == {"ABSENT", "DUE", "SENT", "DEAD"}

Init ==
    /\ row = [e \in Event |-> "ABSENT"]
    /\ accepted = {}
    /\ done = {}

Become(e, s) == row' = [row EXCEPT ![e] = s] /\ UNCHANGED <<accepted, done>>

(* The row commits with the change of state it reports.                    *)
Record(e) == row[e] = "ABSENT" /\ Become(e, "DUE")

(* A publish takes effect, whether or not the publisher learns of it.      *)
Accept(e) ==
    /\ row[e] # "ABSENT"
    /\ accepted' = accepted \cup {e}
    /\ UNCHANGED <<row, done>>

Confirm(e) == row[e] = "DUE" /\ e \in accepted /\ Become(e, "SENT")

GiveUp(e) == row[e] = "DUE" /\ Become(e, "DEAD")

(* Delivery is at least once: a row may start again, even one that was     *)
(* sent meanwhile.                                                         *)
Redrive(e) == row[e] \in {"DEAD", "SENT"} /\ Become(e, "DUE")

Handle(e) ==
    /\ e \in accepted
    /\ done' = done \cup {e}
    /\ UNCHANGED <<row, accepted>>

Next ==
    \E e \in Event :
        \/ Record(e)
        \/ Accept(e)
        \/ Confirm(e)
        \/ GiveUp(e)
        \/ Redrive(e)
        \/ Handle(e)

Spec == Init /\ [][Next]_vars
=============================================================================
