----------------------- MODULE IncidentDeliveryProofs -----------------------
(* Proofs about IncidentDelivery, for every value of its constants.        *)
EXTENDS IncidentDelivery, TLAPS

(* A message that is about to be republished has budget left.              *)
RetryBudget ==
    \A w \in Worker :
      handler[w].pc = "republish" => handler[w].msg.retry + 1 < MaxRetries

(* The local state of an idle process is well formed.                      *)
LEMMA IdleTyped ==
    /\ AnyEvent \in Event
    /\ IdleDispatcher \in DispatcherState
    /\ IdleHandler \in HandlerState
    /\ IdleHandler.pc = "idle"
<1> USE DeliveryAssumption DEF DeliveryAssumption
<1>1. PICK i \in Incident : TRUE
  OBVIOUS
<1>2. <<i, 0>> \in Event
  BY DEF Event
<1>3. AnyEvent \in Event
  BY <1>2 DEF AnyEvent
<1>4. [event |-> AnyEvent, retry |-> 0] \in Msg
  BY <1>3 DEF Msg
<1> QED
  BY <1>3, <1>4 DEF IdleDispatcher, IdleHandler, DispatcherState, HandlerState,
     HandlerPc, OutboxStatus, ConsumerStatus, IncidentStatus

(* The steps of the Watcher and the operators preserve the types.          *)
LEMMA WatcherTyped == TypeOK /\ RetryBudget /\ WatcherStep => TypeOK' /\ RetryBudget'
<1> SUFFICES ASSUME TypeOK, RetryBudget, WatcherStep PROVE TypeOK' /\ RetryBudget'
  OBVIOUS
<1> USE DeliveryAssumption DEF DeliveryAssumption
<1>1. ASSUME NEW i \in Incident, build_and_publish_incident(i)
      PROVE  TypeOK' /\ RetryBudget'
  <2>1. <<i, 0>> \in Event BY DEF Event
  <2>2. PendingRow \in OutboxRow
    BY DEF PendingRow, NoRow, OutboxRow, OutboxStatus, Lease, Owner
  <2> QED
    BY <1>1, <2>1, <2>2 DEF TypeOK, RetryBudget, build_and_publish_incident,
       IncidentStatus
<1>2. ASSUME NEW i \in Incident,
             \/ verify_conclusive(i) \/ resolve_recovered(i) \/ action_outcome(i)
      PROVE  TypeOK' /\ RetryBudget'
  BY <1>2 DEF TypeOK, RetryBudget, verify_conclusive, resolve_recovered,
     action_outcome, Closed, NonProcessable, IncidentStatus
<1>3. ASSUME NEW i \in Incident, verify_exhausted(i)
      PROVE  TypeOK' /\ RetryBudget'
  BY <1>3 DEF TypeOK, RetryBudget, verify_exhausted, IncidentStatus
<1>4. ASSUME NEW i \in Incident, verify_retry(i)
      PROVE  TypeOK' /\ RetryBudget'
  <2>1. <<i, verifies[i] + 1>> \in Event BY <1>4 DEF Event, TypeOK, verify_retry, RetryEvent
  <2>2. PendingRow \in OutboxRow
    BY DEF PendingRow, NoRow, OutboxRow, OutboxStatus, Lease, Owner
  <2> QED
    BY <1>4, <2>1, <2>2 DEF TypeOK, RetryBudget, verify_retry, RetryEvent, IncidentStatus
<1>5. ASSUME NEW e \in Event, fast_publish(e)
      PROVE  TypeOK' /\ RetryBudget'
  <2>1. FirstDelivery(e) \in Msg BY DEF FirstDelivery, Msg
  <2> QED
    BY <1>5, <2>1 DEF TypeOK, RetryBudget, fast_publish, PublishConfirmed,
       PublishRaised, Put
<1>6. ASSUME NEW e \in Event, mark_published(e)
      PROVE  TypeOK' /\ RetryBudget'
  BY <1>6 DEF TypeOK, RetryBudget, mark_published, OutboxRow, OutboxStatus, Lease
<1>7. ASSUME WatcherRestart PROVE TypeOK' /\ RetryBudget'
  BY <1>7 DEF TypeOK, RetryBudget, WatcherRestart
<1> QED
  BY <1>1, <1>2, <1>3, <1>4, <1>5, <1>6, <1>7 DEF WatcherStep

(* The steps of a dispatcher, of time and of the faults.                   *)
LEMMA DispatcherTyped ==
    ASSUME TypeOK, RetryBudget, NEW d \in Dispatcher,
           DispatcherStep(d) \/ DispatcherRestart(d)
    PROVE  TypeOK' /\ RetryBudget'
<1> USE DeliveryAssumption, IdleTyped DEF DeliveryAssumption
<1>0. dispatcher[d].event \in Event /\ FirstDelivery(dispatcher[d].event) \in Msg
  BY DEF TypeOK, DispatcherState, FirstDelivery, Msg
<1>1. ASSUME claim_one_select(d) PROVE TypeOK' /\ RetryBudget'
  BY <1>1 DEF TypeOK, RetryBudget, claim_one_select, DispatcherState, OutboxRow, OutboxStatus
<1>2. ASSUME claim_one_update(d) PROVE TypeOK' /\ RetryBudget'
  <2> DEFINE e == dispatcher[d].event
             n == IF outbox[e].attempts < MAX_ATTEMPTS
                  THEN outbox[e].attempts + 1 ELSE MAX_ATTEMPTS
             row == [status |-> "PROCESSING", token |-> d, lease |-> "live",
                     attempts |-> n]
  <2>1. outbox[e].attempts \in 0 .. MAX_ATTEMPTS
    BY <1>0 DEF TypeOK, OutboxRow
  <2>2. n \in 0 .. MAX_ATTEMPTS
    BY <2>1
  <2>3. row \in OutboxRow
    BY <2>2 DEF OutboxRow, OutboxStatus, Owner, Lease
  <2>4. outbox' \in [Event -> OutboxRow]
    <3>1. outbox' = [outbox EXCEPT ![e] = row] \/ outbox' = outbox
      BY <1>2 DEF claim_one_update
    <3> QED
      BY <3>1, <2>3, <1>0 DEF TypeOK
  <2>5. dispatcher' \in [Dispatcher -> DispatcherState]
    BY <1>2 DEF claim_one_update, Idle, TypeOK, DispatcherState, OutboxStatus
  <2> QED
    BY <1>2, <2>4, <2>5 DEF claim_one_update, TypeOK, RetryBudget
<1>3. ASSUME dispatch_publish_ok(d) \/ dispatch_publish_raises(d)
      PROVE TypeOK' /\ RetryBudget'
  <2>1. queue' \in [Msg -> Nat]
    BY <1>0, <1>3 DEF TypeOK, dispatch_publish_ok, dispatch_publish_raises,
       PublishConfirmed, PublishRaised, Put
  <2>2. dispatcher' \in [Dispatcher -> DispatcherState]
    BY <1>3 DEF TypeOK, dispatch_publish_ok, dispatch_publish_raises,
       DispatcherState
  <2> QED
    BY <1>3, <2>1, <2>2 DEF TypeOK, RetryBudget, dispatch_publish_ok,
       dispatch_publish_raises
<1>4. ASSUME mark_sent(d) \/ mark_failed(d) PROVE TypeOK' /\ RetryBudget'
  BY <1>0, <1>4 DEF TypeOK, RetryBudget, mark_sent, mark_failed, Idle,
     OutboxRow, OutboxStatus, Lease
<1>5. ASSUME DispatcherRestart(d) PROVE TypeOK' /\ RetryBudget'
  BY <1>5 DEF TypeOK, RetryBudget, DispatcherRestart, Idle
<1>6. ASSUME NEW e \in Event, reconcile_select(d, e) PROVE TypeOK' /\ RetryBudget'
  BY <1>6 DEF TypeOK, RetryBudget, reconcile_select, Redrivable, DispatcherState
<1>7. ASSUME reconcile_write(d) PROVE TypeOK' /\ RetryBudget'
  <2> DEFINE e == dispatcher[d].event
             row == [outbox[e] EXCEPT !.status = "PENDING", !.attempts = 0,
                                      !.lease = "over"]
  <2>0. outbox[e] \in OutboxRow
    BY <1>0 DEF TypeOK
  <2>1. row \in OutboxRow
    <3>1. 0 \in 0 .. MAX_ATTEMPTS
      OBVIOUS
    <3>2. "PENDING" \in OutboxStatus /\ "over" \in Lease
      BY DEF OutboxStatus, Lease
    <3> QED
      BY <2>0, <3>1, <3>2 DEF OutboxRow
  <2>2. outbox' = [outbox EXCEPT ![e] = row]
    BY <1>7 DEF reconcile_write
  <2> HIDE DEF row
  <2>3. outbox' \in [Event -> OutboxRow]
    BY <1>0, <2>1, <2>2 DEF TypeOK
  <2> QED
    BY <1>7, <2>3 DEF TypeOK, RetryBudget, reconcile_write, Idle
<1> QED
  BY <1>1, <1>2, <1>3, <1>4, <1>5, <1>6, <1>7 DEF DispatcherStep

LEMMA TimeTyped == TypeOK /\ RetryBudget /\ TimeStep => TypeOK' /\ RetryBudget'
<1> SUFFICES ASSUME TypeOK, RetryBudget, NEW e \in Event,
                    \/ ExpireOutboxLease(e)
                    \/ ExpireConsumerLease(e)
             PROVE  TypeOK' /\ RetryBudget'
  BY DEF TimeStep
<1>1. CASE ExpireOutboxLease(e)
  <2> DEFINE row == [outbox[e] EXCEPT !.lease = "over"]
  <2>1. outbox[e] \in OutboxRow
    BY DEF TypeOK
  <2>2. row \in OutboxRow
    BY <2>1 DEF OutboxRow, Lease
  <2>3. outbox' = [outbox EXCEPT ![e] = row]
    BY <1>1 DEF ExpireOutboxLease
  <2> HIDE DEF row
  <2>4. outbox' \in [Event -> OutboxRow]
    BY <2>2, <2>3 DEF TypeOK
  <2> QED
    BY <1>1, <2>4 DEF TypeOK, RetryBudget, ExpireOutboxLease
<1>2. CASE ExpireConsumerLease(e)
  <2> DEFINE row == [consumer[e] EXCEPT !.lease = "over"]
  <2>1. consumer[e] \in ConsumerClaim
    BY DEF TypeOK
  <2>2. row \in ConsumerClaim
    BY <2>1 DEF ConsumerClaim, Lease
  <2>3. consumer' = [consumer EXCEPT ![e] = row]
    BY <1>2 DEF ExpireConsumerLease
  <2> HIDE DEF row
  <2>4. consumer' \in [Event -> ConsumerClaim]
    BY <2>2, <2>3 DEF TypeOK
  <2> QED
    BY <1>2, <2>4 DEF TypeOK, RetryBudget, ExpireConsumerLease
<1> QED
  BY <1>1, <1>2

(* A handler whose local state becomes r, or that goes to another step, is *)
(* well formed again.                                                      *)
LEMMA HandlerMoves ==
    ASSUME TypeOK, RetryBudget, NEW w \in Worker, NEW r \in HandlerState,
           r.pc = "republish" => r.msg.retry + 1 < MaxRetries,
           handler' = [handler EXCEPT ![w] = r]
    PROVE  handler' \in [Worker -> HandlerState] /\ RetryBudget'
  BY DEF TypeOK, RetryBudget

LEMMA HandlerGoes ==
    ASSUME TypeOK, RetryBudget, NEW w \in Worker,
           NEW step \in HandlerPc \ {"republish"}, Goto(w, step)
    PROVE  handler' \in [Worker -> HandlerState] /\ RetryBudget'
<1> DEFINE r == [handler[w] EXCEPT !.pc = step]
<1>1. r \in HandlerState /\ r.pc = step
  BY DEF TypeOK, HandlerState
<1>2. handler' = [handler EXCEPT ![w] = r]
  BY DEF Goto
<1> HIDE DEF r
<1> QED
  BY <1>1, <1>2, HandlerMoves

LEMMA HandlerFinishes ==
    ASSUME TypeOK, RetryBudget, NEW w \in Worker, Finish(w)
    PROVE  handler' \in [Worker -> HandlerState] /\ RetryBudget'
  BY HandlerMoves, IdleTyped DEF Finish

(* What a handler works on, and what it may make of its message and claim. *)
LEMMA HandlerData ==
    ASSUME TypeOK, NEW w \in Worker
    PROVE  /\ handler[w].pc \in HandlerPc
           /\ handler[w].msg \in Msg
           /\ MyEvent(w) \in Event
           /\ MyIncident(w) \in Incident
           /\ Put(handler[w].msg) \in [Msg -> Nat]
           /\ Requeued(w) \in [Msg -> Nat]
<1>1. handler[w] \in HandlerState
  BY DEF TypeOK
<1>2. handler[w].msg \in Msg /\ handler[w].pc \in HandlerPc
  BY <1>1 DEF HandlerState
<1>3. MyEvent(w) \in Event
  BY <1>2 DEF MyEvent, Msg
<1>4. MyIncident(w) \in Incident
  BY <1>3 DEF MyIncident, Event
<1>5. Put(handler[w].msg) \in [Msg -> Nat]
  BY <1>2 DEF TypeOK, Put
<1> QED
  BY <1>2, <1>3, <1>4, <1>5 DEF TypeOK, Requeued

LEMMA ClaimData ==
    ASSUME TypeOK, NEW w \in Worker,
           MarkDone(w, MyEvent(w)) \/ Release(w, MyEvent(w))
    PROVE  consumer' \in [Event -> ConsumerClaim]
<1> DEFINE done == [status |-> "DONE", token |-> NoWorker, lease |-> "over"]
<1>1. done \in ConsumerClaim /\ Unclaimed \in ConsumerClaim
  BY DEF Unclaimed, ConsumerClaim, ConsumerStatus, Owner, Lease
<1>2. \/ consumer' = [consumer EXCEPT ![MyEvent(w)] = done]
      \/ consumer' = [consumer EXCEPT ![MyEvent(w)] = Unclaimed]
      \/ consumer' = consumer
  BY DEF MarkDone, Release
<1> QED
  BY <1>1, <1>2, HandlerData DEF TypeOK

(* The steps of a message handler.                                         *)
LEMMA HandlerTyped ==
    ASSUME TypeOK, RetryBudget, NEW w \in Worker,
           HandlerStep(w) \/ ConsumerRestart(w) \/ LoseConnection(w)
    PROVE  TypeOK' /\ RetryBudget'
<1>0. /\ handler[w] \in HandlerState
      /\ MyEvent(w) \in Event
      /\ MyIncident(w) \in Incident
      /\ handler[w].msg \in Msg
      /\ Requeued(w) \in [Msg -> Nat]
      /\ Put(handler[w].msg) \in [Msg -> Nat]
  BY HandlerData DEF TypeOK
<1>1. ASSUME NEW m \in Msg, receive(w, m) PROVE TypeOK' /\ RetryBudget'
  <2> DEFINE r == [IdleHandler EXCEPT !.pc = "claim_read", !.msg = m]
  <2>1. r \in HandlerState /\ r.pc = "claim_read"
    BY IdleTyped DEF HandlerState, HandlerPc
  <2>2. handler' = [handler EXCEPT ![w] = r]
    BY <1>1 DEF receive
  <2> HIDE DEF r
  <2>3. handler' \in [Worker -> HandlerState] /\ RetryBudget'
    BY <2>1, <2>2, HandlerMoves
  <2> QED
    BY <1>1, <2>3 DEF TypeOK, receive
<1>2. ASSUME claim_consumer_read(w) PROVE TypeOK' /\ RetryBudget'
  <2> DEFINE c == consumer[MyEvent(w)].status
             r == [handler[w] EXCEPT !.pc = "claim_update", !.seenClaim = c]
  <2>1. c \in ConsumerStatus
    BY <1>0 DEF TypeOK, ConsumerClaim
  <2>2. r \in HandlerState /\ r.pc = "claim_update"
    BY <1>0, <2>1 DEF HandlerState, HandlerPc
  <2>3. \/ Goto(w, "ack") \/ Finish(w)
        \/ handler' = [handler EXCEPT ![w] = r]
    BY <1>2 DEF claim_consumer_read, Busy
  <2> HIDE DEF r
  <2>4. handler' \in [Worker -> HandlerState] /\ RetryBudget'
    BY <2>2, <2>3, HandlerMoves, HandlerGoes, HandlerFinishes DEF HandlerPc
  <2> QED
    BY <1>0, <1>2, <2>4 DEF TypeOK, claim_consumer_read, Busy
<1>3. ASSUME claim_consumer_update(w) PROVE TypeOK' /\ RetryBudget'
  <2> DEFINE r == [handler[w] EXCEPT !.pc = "load", !.seenClaim = "PENDING"]
             c == [status |-> "PROCESSING", token |-> w, lease |-> "live"]
  <2>1. r \in HandlerState /\ r.pc = "load"
    BY <1>0 DEF HandlerState, HandlerPc, ConsumerStatus
  <2>2. c \in ConsumerClaim
    BY DEF ConsumerClaim, ConsumerStatus, Owner, Lease
  <2>3. /\ Finish(w) \/ handler' = [handler EXCEPT ![w] = r]
        /\ \/ consumer' = [consumer EXCEPT ![MyEvent(w)] = c]
           \/ consumer' = consumer
    BY <1>3 DEF claim_consumer_update
  <2> HIDE DEF r, c
  <2>4. handler' \in [Worker -> HandlerState] /\ RetryBudget'
    BY <2>1, <2>3, HandlerMoves, HandlerFinishes
  <2> QED
    BY <1>0, <1>3, <2>2, <2>3, <2>4 DEF TypeOK, claim_consumer_update
<1>4. ASSUME load_incident(w) PROVE TypeOK' /\ RetryBudget'
  <2> DEFINE status == incident[MyIncident(w)]
             closed == status \in NonProcessable
             r == [handler[w] EXCEPT !.pc = IF closed THEN "done" ELSE "write",
                                     !.seenStatus = IF closed THEN "ABSENT"
                                                    ELSE status]
  <2>1. status \in IncidentStatus
    BY <1>0 DEF TypeOK
  <2>2. r \in HandlerState /\ r.pc # "republish"
    BY <1>0, <2>1 DEF HandlerState, HandlerPc, IncidentStatus
  <2>3. handler' = [handler EXCEPT ![w] = r]
    BY <1>4 DEF load_incident
  <2> HIDE DEF r
  <2>4. handler' \in [Worker -> HandlerState] /\ RetryBudget'
    BY <2>2, <2>3, HandlerMoves
  <2> QED
    BY <1>0, <1>4, <2>4 DEF TypeOK, load_incident
<1>5. ASSUME write_diagnosing(w) \/ load_raises(w) PROVE TypeOK' /\ RetryBudget'
  <2> DEFINE r(s) == [handler[w] EXCEPT !.pc = s, !.seenStatus = "ABSENT"]
  <2>1. \A s \in {"diagnose", "reject"} : r(s) \in HandlerState /\ r(s).pc = s
    BY <1>0 DEF HandlerState, HandlerPc, IncidentStatus
  <2>2. \E s \in {"diagnose", "reject"} : handler' = [handler EXCEPT ![w] = r(s)]
    BY <1>5 DEF write_diagnosing, load_raises
  <2> HIDE DEF r
  <2>3. handler' \in [Worker -> HandlerState] /\ RetryBudget'
    BY <2>1, <2>2, HandlerMoves
  <2>4. consumer' \in [Event -> ConsumerClaim]
    BY <1>5, ClaimData DEF TypeOK, write_diagnosing, load_raises
  <2> QED
    BY <1>0, <1>5, <2>3, <2>4 DEF TypeOK, write_diagnosing, load_raises,
       IncidentStatus
<1>6. ASSUME give_up(w) \/ fallback(w) \/ ack(w) \/ ack_retry(w) \/ reject(w)
      PROVE  TypeOK' /\ RetryBudget'
  <2>1. handler' \in [Worker -> HandlerState] /\ RetryBudget'
    BY <1>6, HandlerGoes, HandlerFinishes
       DEF give_up, fallback, ack, ack_retry, reject, HandlerPc
  <2> QED
    BY <1>0, <1>6, <2>1 DEF TypeOK, give_up, fallback, ack, ack_retry, reject,
       IncidentStatus
<1>7. ASSUME process_incident(w) PROVE TypeOK' /\ RetryBudget'
  <2>1. handler' \in [Worker -> HandlerState] /\ RetryBudget'
    BY <1>7, HandlerGoes DEF process_incident, HandlerPc
  <2> QED
    BY <1>0, <1>7, <2>1 DEF TypeOK, process_incident, IncidentStatus
<1>8. ASSUME mark_consumer_done(w) PROVE TypeOK' /\ RetryBudget'
  <2>1. handler' \in [Worker -> HandlerState] /\ RetryBudget'
    BY <1>8, HandlerGoes DEF mark_consumer_done, HandlerPc
  <2>2. consumer' \in [Event -> ConsumerClaim]
    BY <1>8, ClaimData DEF mark_consumer_done
  <2> QED
    BY <1>8, <2>1, <2>2 DEF TypeOK, mark_consumer_done
<1>9. ASSUME release_consumer(w) PROVE TypeOK' /\ RetryBudget'
  <2> DEFINE last == handler[w].msg.retry + 1 >= MaxRetries
             r == [handler[w] EXCEPT !.pc = IF last THEN "give_up"
                                            ELSE "republish"]
  <2>1. /\ r \in HandlerState
        /\ r.msg = handler[w].msg
        /\ r.pc = "republish" => ~last
    BY <1>0 DEF HandlerState, HandlerPc
  <2>2. ~last => handler[w].msg.retry + 1 < MaxRetries
    BY <1>0, DeliveryAssumption DEF Msg, DeliveryAssumption
  <2>3. handler' = [handler EXCEPT ![w] = r]
    BY <1>9 DEF release_consumer, Goto
  <2> HIDE DEF r, last
  <2>4. handler' \in [Worker -> HandlerState] /\ RetryBudget'
    BY <2>1, <2>2, <2>3, HandlerMoves
  <2>5. consumer' \in [Event -> ConsumerClaim]
    BY <1>9, ClaimData DEF release_consumer
  <2> QED
    BY <1>9, <2>4, <2>5 DEF TypeOK, release_consumer
<1>10. ASSUME republish(w) PROVE TypeOK' /\ RetryBudget'
  <2>1. [handler[w].msg EXCEPT !.retry = @ + 1] \in Msg
    BY <1>0, <1>10, DeliveryAssumption DEF republish, RepublishFailed, RetryBudget, Msg,
       DeliveryAssumption
  <2>2. queue' \in [Msg -> Nat]
    BY <1>10, <2>1 DEF TypeOK, republish, RepublishFailed, PublishConfirmed, PublishRaised, Put
  <2>3. handler' \in [Worker -> HandlerState] /\ RetryBudget'
    BY <1>10, HandlerGoes DEF republish, RepublishFailed, HandlerPc
  <2> QED
    BY <1>10, <2>2, <2>3 DEF TypeOK, republish, RepublishFailed
<1>11. ASSUME ConsumerRestart(w) PROVE TypeOK' /\ RetryBudget'
  <2>1. handler' \in [Worker -> HandlerState] /\ RetryBudget'
    BY <1>11, HandlerFinishes DEF ConsumerRestart
  <2> QED
    BY <1>0, <1>11, <2>1, DeliveryAssumption
    DEF TypeOK, ConsumerRestart, DeliveryAssumption
<1>12. ASSUME LoseConnection(w) PROVE TypeOK' /\ RetryBudget'
  <2> DEFINE r == [handler[w] EXCEPT !.conn = "lost"]
  <2>1. /\ r \in HandlerState
        /\ r.msg = handler[w].msg
        /\ r.pc = handler[w].pc
    BY <1>0 DEF HandlerState
  <2>2. handler' = [handler EXCEPT ![w] = r]
    BY <1>12 DEF LoseConnection
  <2> HIDE DEF r
  <2>3. handler' \in [Worker -> HandlerState] /\ RetryBudget'
    BY <2>1, <2>2, HandlerMoves DEF RetryBudget
  <2> QED
    BY <1>0, <1>12, <2>3, DeliveryAssumption
    DEF TypeOK, LoseConnection, DeliveryAssumption
<1> QED
  BY <1>1, <1>2, <1>3, <1>4, <1>5, <1>6, <1>7, <1>8, <1>9, <1>10, <1>11, <1>12
     DEF HandlerStep

-----------------------------------------------------------------------------
(* Type correctness: the tables, the queue and every process's local state *)
(* stay well formed, whatever restarts and lost connections happen.        *)
THEOREM TypeCorrect == Spec => []TypeOK
<1> DEFINE Inv == TypeOK /\ RetryBudget
<1>1. Init => Inv
  BY IdleTyped, DeliveryAssumption
     DEF Init, TypeOK, RetryBudget, NoRow, Unclaimed, IncidentStatus,
         OutboxRow, OutboxStatus, ConsumerClaim, ConsumerStatus, Owner, Lease,
         DeliveryAssumption
<1>2. Inv /\ [Next]_vars => Inv'
  <2>1. ASSUME Inv, Next PROVE Inv'
    BY <2>1, WatcherTyped, DispatcherTyped, TimeTyped, HandlerTyped
       DEF Next, FaultStep
  <2>2. ASSUME Inv, UNCHANGED vars PROVE Inv'
    BY <2>2 DEF vars, TypeOK, RetryBudget
  <2> QED
    BY <2>1, <2>2
<1> QED
  BY <1>1, <1>2, PTL DEF Spec

-----------------------------------------------------------------------------
(* The inductive invariant behind the safety properties.                   *)
NothingLost == \A e \in Event : Published(e) => e \in handled \/ Kept(e)

(* What is acknowledged without a new copy, or DONE, was handled.          *)
HandledFirst ==
    /\ \A w \in Worker :
         handler[w].pc \in {"done", "ack"} => MyEvent(w) \in handled
    /\ \A e \in Event : consumer[e].status = "DONE" => e \in handled

(* A claim in progress never started from a settled row.                   *)
ClaimsOpen ==
    /\ \A w \in Worker :
         handler[w].pc = "claim_update" => handler[w].seenClaim # "DONE"
    /\ \A d \in Dispatcher :
         dispatcher[d].pc = "claim_update"
           => dispatcher[d].seen \in {"PENDING", "PROCESSING"}

(* A row that is to be redriven is there.                                  *)
RedriveReal ==
    \A d \in Dispatcher :
      dispatcher[d].pc = "redrive" => outbox[dispatcher[d].event].status # "ABSENT"

(* No row is written before the event it belongs to comes up.              *)
NoEarlyRow ==
    \A e \in Event :
      incident[e[1]] = "ABSENT" \/ verifies[e[1]] < e[2]
        => outbox[e].status = "ABSENT"

(* An event is still kept when messages and dead letters only become more  *)
(* and the one handler that moves keeps what it kept.                      *)
LEMMA StillKept ==
    ASSUME NEW w \in Worker, NEW e \in Event, Kept(e),
           \A m \in Msg : m.event = e /\ queue[m] > 0 => queue'[m] > 0,
           dlq \subseteq dlq',
           \A x \in Worker : x # w => handler'[x] = handler[x],
           Keeps(w, e) => Kept(e)'
    PROVE  Kept(e)'
<1>1. CASE Queued(e)
  BY <1>1 DEF Kept, Queued
<1>2. CASE e \in dlq
  BY <1>2 DEF Kept
<1>3. CASE \E x \in Worker : x # w /\ Keeps(x, e)
  BY <1>3 DEF Kept, Keeps, Holds, MyEvent
<1> QED
  BY <1>1, <1>2, <1>3 DEF Kept

(* A queue that gained a copy of m lost nothing, and has m's event.        *)
LEMMA PutKeeps ==
    ASSUME TypeOK, NEW m \in Msg, queue' = Put(m)
    PROVE  /\ \A n \in Msg : queue[n] > 0 => queue'[n] > 0
           /\ Queued(m.event)'
<1>1. \A n \in Msg : queue'[n] = IF n = m THEN queue[n] + 1 ELSE queue[n]
  BY DEF TypeOK, Put
<1> QED
  BY <1>1 DEF TypeOK, Queued

(* The publishers only add to what the broker has.                         *)
PublisherStep ==
    \/ WatcherStep \/ TimeStep
    \/ \E d \in Dispatcher : DispatcherStep(d) \/ DispatcherRestart(d)

LEMMA PublisherQueues ==
    ASSUME TypeOK, PublisherStep
    PROVE  /\ dlq' = dlq /\ handler' = handler /\ handled' = handled
           /\ \A e \in Event : Kept(e) => Kept(e)'
<1>0. \A e \in Event : FirstDelivery(e) \in Msg /\ FirstDelivery(e).event = e
  BY DeliveryAssumption DEF FirstDelivery, Msg, DeliveryAssumption
<1>1. dlq' = dlq /\ handler' = handler /\ handled' = handled
  BY DEF PublisherStep, WatcherStep, TimeStep, DispatcherStep,
     DispatcherRestart, build_and_publish_incident, verify_conclusive, verify_exhausted,
     verify_retry, RetryEvent, resolve_recovered, action_outcome, fast_publish,
     mark_published, WatcherRestart, ExpireOutboxLease, ExpireConsumerLease,
     reconcile_select, Redrivable, reconcile_write, claim_one_select, claim_one_update,
     dispatch_publish_ok, dispatch_publish_raises, mark_sent, mark_failed
<1> DEFINE QueueStep == \/ queue' = queue
                        \/ \E e \in Event : queue' = Put(FirstDelivery(e))
<1>2. QueueStep
  <2>1. ASSUME WatcherStep \/ TimeStep PROVE QueueStep
    BY <2>1 DEF WatcherStep, TimeStep,
       build_and_publish_incident, verify_conclusive, verify_exhausted,
       verify_retry, RetryEvent, resolve_recovered, action_outcome, fast_publish,
       mark_published, WatcherRestart, ExpireOutboxLease, ExpireConsumerLease,
       PublishConfirmed, PublishRaised
  <2>2. ASSUME NEW d \in Dispatcher, DispatcherStep(d) \/ DispatcherRestart(d)
        PROVE  QueueStep
    BY <2>2 DEF DispatcherStep, DispatcherRestart, claim_one_select,
       claim_one_update, dispatch_publish_ok, dispatch_publish_raises,
       mark_sent, mark_failed, reconcile_select, Redrivable, reconcile_write,
       PublishConfirmed, PublishRaised, TypeOK,
       DispatcherState
  <2> QED
    BY <2>1, <2>2 DEF PublisherStep
<1>3. ASSUME NEW e \in Event, Kept(e) PROVE Kept(e)'
  <2>1. \A m \in Msg : queue[m] > 0 => queue'[m] > 0
    BY <1>0, <1>2, PutKeeps
  <2> QED
    BY <1>1, <1>3, <2>1 DEF Kept, Keeps, Holds, MyEvent, Queued
<1> QED
  BY <1>1, <1>3

(* Whoever gets a confirmation put a copy in the queue.                    *)
LEMMA PublisherKeeps ==
    ASSUME TypeOK, NothingLost, PublisherStep
    PROVE  NothingLost'
<1>0. \A e \in Event : FirstDelivery(e) \in Msg /\ FirstDelivery(e).event = e
  BY DeliveryAssumption DEF FirstDelivery, Msg, DeliveryAssumption
<1>4. ASSUME NEW e \in Event, Published(e)'
      PROVE  Published(e) \/ Queued(e)'
  <2>1. queue' = Put(FirstDelivery(e)) => Queued(e)'
    BY <1>0, PutKeeps
  <2>2. ASSUME NEW f \in Event, fast_publish(f) PROVE Published(e) \/ Queued(e)'
    BY <1>4, <2>1, <2>2 DEF Published, TypeOK, fast_publish, PublishConfirmed
  <2>3. ASSUME WatcherStep, ~\E f \in Event : fast_publish(f)
        PROVE  Published(e)
    <3>1. dispatcher' = dispatcher
      BY <2>3 DEF WatcherStep, build_and_publish_incident, verify_conclusive,
         verify_exhausted, verify_retry, RetryEvent, resolve_recovered, action_outcome,
         mark_published, WatcherRestart
    <3>2. watcher'[e] = "mark" => watcher[e] = "mark"
      BY <2>3 DEF TypeOK, WatcherStep, build_and_publish_incident,
         verify_conclusive, verify_exhausted, verify_retry, RetryEvent, resolve_recovered,
         action_outcome, mark_published, WatcherRestart
    <3>3. outbox'[e].status = "SENT" => outbox[e].status = "SENT" \/ watcher[e] = "mark"
      <4>1. ASSUME NEW i \in Incident,
                   build_and_publish_incident(i) \/ verify_retry(i)
            PROVE  outbox'[e].status = "SENT" => outbox[e].status = "SENT"
        <5>1. PendingRow.status = "PENDING"
          BY DEF PendingRow, NoRow
        <5> QED
          BY <4>1, <5>1 DEF TypeOK, build_and_publish_incident, verify_retry, RetryEvent
      <4>2. ASSUME NEW f \in Event, mark_published(f)
            PROVE  \/ outbox'[e] = outbox[e]
                   \/ watcher[e] = "mark"
        BY <4>2 DEF TypeOK, mark_published
      <4>3. ASSUME \/ WatcherRestart
                   \/ \E i \in Incident : \/ verify_conclusive(i)
                                          \/ verify_exhausted(i)
                                          \/ resolve_recovered(i)
                                          \/ action_outcome(i)
            PROVE  outbox' = outbox
        BY <4>3 DEF WatcherRestart, verify_conclusive, verify_exhausted,
           resolve_recovered, action_outcome
      <4> QED
        BY <2>3, <4>1, <4>2, <4>3 DEF WatcherStep
    <3> QED
      BY <1>4, <3>1, <3>2, <3>3 DEF Published
  <2>4. ASSUME TimeStep PROVE Published(e) \/ Queued(e)'
    BY <1>4, <2>4 DEF TimeStep, Published, TypeOK, OutboxRow,
       ExpireOutboxLease, ExpireConsumerLease
  <2>5. ASSUME NEW d \in Dispatcher, DispatcherStep(d) \/ DispatcherRestart(d)
        PROVE  Published(e) \/ Queued(e)'
    <3>0. IdleDispatcher.pc = "idle"
      BY DEF IdleDispatcher
    <3>1. ASSUME claim_one_select(d) PROVE Published(e)
      BY <1>4, <3>1 DEF Published, TypeOK, claim_one_select
    <3>2. ASSUME claim_one_update(d) PROVE Published(e)
      <4>1. outbox'[e].status = "SENT" => outbox[e].status = "SENT"
        BY <3>2 DEF TypeOK, claim_one_update
      <4>2. watcher'[e] = watcher[e]
        BY <3>2 DEF claim_one_update
      <4>3. ASSUME NEW x \in Dispatcher, dispatcher'[x].pc = "sent"
            PROVE  dispatcher'[x] = dispatcher[x]
        <5>1. x # d => dispatcher'[x] = dispatcher[x]
          BY <3>2, <4>3 DEF TypeOK, claim_one_update, Idle
        <5>2. CASE Idle(d)
          BY <3>0, <4>3, <5>1, <5>2 DEF TypeOK, Idle
        <5>3. CASE dispatcher' = [dispatcher EXCEPT ![d].pc = "publish",
                                                    ![d].seen = "ABSENT"]
          BY <4>3, <5>1, <5>3 DEF TypeOK, DispatcherState
        <5> QED
          BY <3>2, <5>2, <5>3 DEF claim_one_update
      <4> QED
        BY <1>4, <4>1, <4>2, <4>3 DEF Published
    <3>3. ASSUME dispatch_publish_ok(d) PROVE Published(e) \/ Queued(e)'
      BY <1>4, <2>1, <3>3 DEF Published, TypeOK, dispatch_publish_ok,
         PublishConfirmed, DispatcherState
    <3>4. ASSUME dispatch_publish_raises(d) PROVE Published(e)
      BY <1>4, <3>4 DEF Published, TypeOK, dispatch_publish_raises
    <3>5. ASSUME mark_sent(d) PROVE Published(e)
      BY <1>4, <3>0, <3>5 DEF Published, TypeOK, OutboxRow, mark_sent, Idle
    <3>6. ASSUME mark_failed(d) PROVE Published(e)
      BY <1>4, <3>0, <3>6 DEF Published, TypeOK, OutboxRow, mark_failed, Idle
    <3>7. ASSUME DispatcherRestart(d) PROVE Published(e)
      BY <1>4, <3>0, <3>7 DEF Published, TypeOK, DispatcherRestart, Idle
    <3>8. ASSUME NEW f \in Event, reconcile_select(d, f) PROVE Published(e)
      BY <1>4, <3>8 DEF Published, TypeOK, DispatcherState, reconcile_select, Redrivable
    <3>9. ASSUME reconcile_write(d) PROVE Published(e)
      BY <1>4, <3>0, <3>9 DEF Published, TypeOK, OutboxRow, reconcile_write, Idle
    <3> QED
      BY <2>5, <3>1, <3>2, <3>3, <3>4, <3>5, <3>6, <3>7, <3>8, <3>9
         DEF DispatcherStep
  <2> QED
    BY <2>2, <2>3, <2>4, <2>5 DEF PublisherStep
<1> QED
  BY <1>4, PublisherQueues DEF NothingLost, Kept

(* The handlers: a delivery is given back, dead-lettered, republished, or  *)
(* acknowledged after the event was handled.                               *)
LEMMA HandlerKeepsEvent ==
    ASSUME TypeOK, RetryBudget, HandledFirst, NEW w \in Worker,
           HandlerStep(w) \/ ConsumerRestart(w) \/ LoseConnection(w),
           NEW e \in Event, Kept(e)
    PROVE  Kept(e)' \/ e \in handled'
<1>0. /\ handler[w] \in HandlerState
      /\ MyEvent(w) \in Event
      /\ handler[w].msg \in Msg
      /\ handler[w].msg.event = MyEvent(w)
      /\ IdleHandler.pc = "idle"
  BY HandlerData, IdleTyped DEF TypeOK, MyEvent
<1>1. Kept(e)
  OBVIOUS
<1>2. ASSUME NEW step \in HandlerPc \ {"idle", "ack", "ack_retry"},
             \/ Goto(w, step)
             \/ \E r \in HandlerState :
                  /\ handler' = [handler EXCEPT ![w] = r]
                  /\ r.pc = step
                  /\ r.msg = handler[w].msg /\ r.conn = handler[w].conn,
             queue' = queue \/ \E m \in Msg : queue' = Put(m),
             dlq' = dlq
      PROVE  Kept(e)'
  <2>1. /\ \A x \in Worker : x # w => handler'[x] = handler[x]
        /\ handler'[w].pc = step
        /\ handler'[w].msg = handler[w].msg
        /\ handler'[w].conn = handler[w].conn
    BY <1>0, <1>2 DEF TypeOK, Goto, HandlerState
  <2>2. Keeps(w, e) => Kept(e)'
    BY <2>1 DEF Keeps, Kept, Holds, MyEvent
  <2>3. \A m \in Msg : queue[m] > 0 => queue'[m] > 0
    BY <1>2, PutKeeps
  <2> QED
    BY <1>1, <1>2, <2>1, <2>2, <2>3, StillKept
<1>3. ASSUME Finish(w) \/ Goto(w, "ack") \/ Goto(w, "ack_retry"),
             queue' = queue \/ \E m \in Msg : queue' = Put(m),
             dlq \subseteq dlq',
             Keeps(w, e) => Queued(e)' \/ e \in dlq'
      PROVE  Kept(e)'
  <2>1. \A x \in Worker : x # w => handler'[x] = handler[x]
    BY <1>3 DEF TypeOK, Goto, Finish
  <2>2. Keeps(w, e) => Kept(e)'
    BY <1>3 DEF Kept
  <2>3. \A m \in Msg : queue[m] > 0 => queue'[m] > 0
    BY <1>3, PutKeeps
  <2> QED
    BY <1>1, <1>3, <2>1, <2>2, <2>3, StillKept
<1>4. ASSUME queue' = Requeued(w)
      PROVE  /\ queue' = queue \/ \E m \in Msg : queue' = Put(m)
             /\ Keeps(w, e) => Queued(e)'
  BY <1>0, <1>4, PutKeeps DEF Requeued, Keeps, Holds
<1>5. ASSUME NEW m \in Msg, receive(w, m) PROVE Kept(e)'
  <2>1. /\ \A x \in Worker : x # w => handler'[x] = handler[x]
        /\ handler'[w].pc = "claim_read"
        /\ handler'[w].conn = "open"
        /\ handler'[w].msg = m
    BY <1>5 DEF receive, TypeOK, IdleHandler
  <2>2. ~Keeps(w, e)
    BY <1>5 DEF receive, Keeps, Holds
  <2>3. CASE e = m.event
    BY <2>1, <2>3 DEF Kept, Keeps, Holds, MyEvent
  <2>4. CASE e # m.event
    <3>1. \A n \in Msg : n.event = e /\ queue[n] > 0 => queue'[n] > 0
      BY <1>5, <2>4 DEF receive, TypeOK
    <3>2. dlq' = dlq
      BY <1>5 DEF receive
    <3> QED
      BY <1>1, <2>1, <2>2, <3>1, <3>2, StillKept
  <2> QED
    BY <2>3, <2>4
<1>6. ASSUME claim_consumer_read(w) PROVE Kept(e)' \/ e \in handled'
  <2>1. CASE Goto(w, "ack") /\ UNCHANGED queue
             /\ consumer[MyEvent(w)].status = "DONE"
    <3>1. Keeps(w, e) => e \in handled
      BY <1>0, <2>1 DEF Keeps, Holds, HandledFirst
    <3>2. CASE Keeps(w, e)
      BY <1>6, <3>1, <3>2 DEF claim_consumer_read, Busy
    <3>3. CASE ~Keeps(w, e)
      BY <1>3, <1>6, <2>1, <3>3 DEF claim_consumer_read, Busy
    <3> QED
      BY <3>2, <3>3
  <2>2. CASE queue' = Requeued(w) /\ Finish(w)
    BY <1>3, <1>4, <1>6, <2>2 DEF claim_consumer_read, Busy
  <2>3. CASE /\ handler' = [handler EXCEPT ![w].pc = "claim_update",
                       ![w].seenClaim = consumer[MyEvent(w)].status]
             /\ UNCHANGED queue
    <3> DEFINE r == [handler[w] EXCEPT !.pc = "claim_update",
                       !.seenClaim = consumer[MyEvent(w)].status]
    <3>1. r \in HandlerState /\ r.pc = "claim_update"
          /\ r.msg = handler[w].msg /\ r.conn = handler[w].conn
      BY <1>0 DEF TypeOK, HandlerState, HandlerPc, ConsumerClaim
    <3>2. handler' = [handler EXCEPT ![w] = r]
      BY <2>3
    <3> HIDE DEF r
    <3> QED
      BY <1>2, <1>6, <2>3, <3>1, <3>2 DEF claim_consumer_read, Busy, HandlerPc
  <2> QED
    BY <1>6, <2>1, <2>2, <2>3 DEF claim_consumer_read, Busy
<1>7. ASSUME claim_consumer_update(w) PROVE Kept(e)'
  <2>1. CASE queue' = Requeued(w) /\ Finish(w)
    BY <1>3, <1>4, <1>7, <2>1 DEF claim_consumer_update
  <2>2. CASE /\ handler' = [handler EXCEPT ![w].pc = "load",
                                           ![w].seenClaim = "PENDING"]
             /\ UNCHANGED queue
    <3> DEFINE r == [handler[w] EXCEPT !.pc = "load", !.seenClaim = "PENDING"]
    <3>1. r \in HandlerState /\ r.pc = "load"
          /\ r.msg = handler[w].msg /\ r.conn = handler[w].conn
      BY <1>0 DEF HandlerState, HandlerPc, ConsumerStatus
    <3>2. handler' = [handler EXCEPT ![w] = r]
      BY <2>2
    <3> HIDE DEF r
    <3> QED
      BY <1>2, <1>7, <2>2, <3>1, <3>2 DEF claim_consumer_update, HandlerPc
  <2> QED
    BY <1>7, <2>1, <2>2 DEF claim_consumer_update
<1>8. ASSUME load_incident(w) \/ write_diagnosing(w) \/ load_raises(w)
      PROVE  Kept(e)'
  <2>1. PICK step \in {"done", "write", "diagnose", "reject"},
             seen \in IncidentStatus :
          handler' = [handler EXCEPT ![w].pc = step, ![w].seenStatus = seen]
    <3>1. incident[MyIncident(w)] \in IncidentStatus
      BY HandlerData DEF TypeOK
    <3> QED
      BY <1>8, <3>1 DEF load_incident, write_diagnosing, load_raises,
         IncidentStatus
  <2> DEFINE r == [handler[w] EXCEPT !.pc = step, !.seenStatus = seen]
  <2>2. r \in HandlerState /\ r.pc = step
        /\ r.msg = handler[w].msg /\ r.conn = handler[w].conn
    BY <1>0, <2>1 DEF HandlerState, HandlerPc
  <2>3. handler' = [handler EXCEPT ![w] = r]
    BY <2>1
  <2>4. queue' = queue /\ dlq' = dlq
    BY <1>8 DEF load_incident, write_diagnosing, load_raises
  <2>5. step \in HandlerPc \ {"idle", "ack", "ack_retry"}
    BY <2>1 DEF HandlerPc
  <2> HIDE DEF r
  <2> QED
    BY <1>2, <2>2, <2>3, <2>4, <2>5
<1>9. ASSUME process_incident(w) \/ release_consumer(w) \/ give_up(w) \/ fallback(w)
      PROVE  Kept(e)'
  BY <1>2, <1>9 DEF process_incident, release_consumer, give_up, fallback,
     HandlerPc
<1>10. ASSUME mark_consumer_done(w) PROVE Kept(e)' \/ e \in handled'
  <2>1. Keeps(w, e) => e \in handled'
    BY <1>10 DEF mark_consumer_done, Keeps, Holds, HandledFirst
  <2> QED
    BY <1>3, <1>10, <2>1 DEF mark_consumer_done
<1>11. ASSUME republish(w) PROVE Kept(e)'
  <2> DEFINE m == [handler[w].msg EXCEPT !.retry = @ + 1]
  <2>1. m \in Msg /\ m.event = MyEvent(w)
    BY <1>0, <1>11, DeliveryAssumption DEF republish, RepublishFailed, RetryBudget, Msg, MyEvent,
       DeliveryAssumption
  <2>2. CASE PublishConfirmed(m) /\ Goto(w, "ack_retry")
    <3>1. queue' = Put(m) /\ dlq' = dlq
      BY <1>11, <2>2 DEF republish, RepublishFailed, PublishConfirmed
    <3>2. Keeps(w, e) => Queued(e)'
      BY <2>1, <3>1, PutKeeps DEF Keeps, Holds
    <3> QED
      BY <1>3, <2>1, <2>2, <3>1, <3>2
  <2>3. CASE PublishRaised(m) /\ Goto(w, "fallback")
    BY <1>2, <1>11, <2>1, <2>3 DEF republish, RepublishFailed, PublishRaised, HandlerPc
  <2> QED
    BY <1>11, <2>2, <2>3 DEF republish, RepublishFailed
<1>12. ASSUME ack(w) \/ ack_retry(w) PROVE Kept(e)'
  <2>1. ~Keeps(w, e)
    BY <1>12 DEF ack, ack_retry, Keeps
  <2>2. CASE Finish(w)
    BY <1>3, <1>12, <2>1, <2>2 DEF ack, ack_retry
  <2>3. CASE Goto(w, "fallback")
    BY <1>2, <1>12, <2>3 DEF ack, ack_retry, HandlerPc
  <2> QED
    BY <1>12, <2>2, <2>3 DEF ack, ack_retry
<1>13. ASSUME reject(w) PROVE Kept(e)'
  BY <1>3, <1>13 DEF reject, Keeps, Holds
<1>14. ASSUME ConsumerRestart(w) PROVE Kept(e)'
  BY <1>3, <1>4, <1>14 DEF ConsumerRestart
<1>15. ASSUME LoseConnection(w) PROVE Kept(e)'
  <2>1. \A x \in Worker : x # w => handler'[x] = handler[x]
    BY <1>15 DEF LoseConnection, TypeOK
  <2>2. queue' = Put(handler[w].msg) /\ dlq' = dlq
    BY <1>15 DEF LoseConnection
  <2>3. Keeps(w, e) => Queued(e)'
    BY <1>0, <2>2, PutKeeps DEF Keeps, Holds
  <2>4. \A m \in Msg : queue[m] > 0 => queue'[m] > 0
    BY <1>0, <2>2, PutKeeps
  <2> QED
    BY <1>1, <2>1, <2>2, <2>3, <2>4, StillKept DEF Kept
<1> QED
  BY <1>5, <1>6, <1>7, <1>8, <1>9, <1>10, <1>11, <1>12, <1>13, <1>14, <1>15
     DEF HandlerStep

LEMMA HandlerKeeps ==
    ASSUME TypeOK, RetryBudget, NothingLost, HandledFirst, NEW w \in Worker,
           HandlerStep(w) \/ ConsumerRestart(w) \/ LoseConnection(w)
    PROVE  NothingLost' /\ handled \subseteq handled'
<1>1. \A e \in Event : Published(e)' => Published(e)
  BY DEF Published, HandlerStep, receive, claim_consumer_read, Busy,
     claim_consumer_update, load_incident, write_diagnosing, load_raises,
     process_incident, mark_consumer_done, release_consumer, republish, RepublishFailed,
     give_up, fallback, ack, ack_retry, reject, ConsumerRestart,
     LoseConnection
<1>2. handled \subseteq handled'
  BY DEF HandlerStep, receive, claim_consumer_read, Busy,
     claim_consumer_update, load_incident, write_diagnosing, load_raises,
     process_incident, mark_consumer_done, release_consumer, republish, RepublishFailed,
     give_up, fallback, ack, ack_retry, reject, ConsumerRestart,
     LoseConnection
<1> QED
  BY <1>1, <1>2, HandlerKeepsEvent DEF NothingLost

(* The steps of the producers leave the handlers and their claims alone.   *)
LEMMA ProducersSettle ==
    ASSUME TypeOK, HandledFirst, ClaimsOpen,
           \/ UNCHANGED vars \/ WatcherStep \/ TimeStep
           \/ \E d \in Dispatcher : DispatcherStep(d) \/ DispatcherRestart(d)
    PROVE  /\ HandledFirst' /\ ClaimsOpen'
           /\ \A e \in Event : consumer'[e].status = consumer[e].status
<1>1. handler' = handler /\ handled' = handled
  BY DEF vars, WatcherStep, TimeStep, DispatcherStep, DispatcherRestart,
     build_and_publish_incident, verify_conclusive, verify_exhausted,
     verify_retry, RetryEvent, resolve_recovered, action_outcome, fast_publish,
     mark_published, WatcherRestart, ExpireOutboxLease, ExpireConsumerLease,
     reconcile_select, Redrivable, reconcile_write, claim_one_select, claim_one_update,
     dispatch_publish_ok, dispatch_publish_raises, mark_sent, mark_failed
<1>2. \A e \in Event : consumer'[e].status = consumer[e].status
  <2>1. CASE \E f \in Event : ExpireConsumerLease(f)
    BY <2>1 DEF ExpireConsumerLease, TypeOK, ConsumerClaim
  <2>2. CASE ~\E f \in Event : ExpireConsumerLease(f)
    BY <2>2 DEF vars, WatcherStep, TimeStep, DispatcherStep,
       DispatcherRestart, build_and_publish_incident, verify_conclusive,
       verify_exhausted, verify_retry, RetryEvent, resolve_recovered, action_outcome,
       fast_publish, mark_published, WatcherRestart, ExpireOutboxLease,
       reconcile_select, Redrivable, reconcile_write, claim_one_select, claim_one_update,
       dispatch_publish_ok, dispatch_publish_raises, mark_sent, mark_failed
  <2> QED
    BY <2>1, <2>2
<1>3. HandledFirst'
  BY <1>1, <1>2 DEF HandledFirst, MyEvent
<1>4. ASSUME NEW x \in Dispatcher, dispatcher'[x].pc = "claim_update"
      PROVE  dispatcher'[x].seen \in {"PENDING", "PROCESSING"}
  <2>0. IdleDispatcher.pc = "idle"
    BY DEF IdleDispatcher
  <2>1. CASE UNCHANGED vars \/ WatcherStep \/ TimeStep
    <3>1. dispatcher' = dispatcher
      BY <2>1 DEF vars, WatcherStep, TimeStep,
         build_and_publish_incident, verify_conclusive, verify_exhausted,
         verify_retry, RetryEvent, resolve_recovered, action_outcome, fast_publish,
         mark_published, WatcherRestart, ExpireOutboxLease,
         ExpireConsumerLease
    <3> QED
      BY <1>4, <3>1 DEF ClaimsOpen
  <2>2. ASSUME NEW d \in Dispatcher, claim_one_select(d)
        PROVE  dispatcher'[x].seen \in {"PENDING", "PROCESSING"}
    BY <1>4, <2>2 DEF claim_one_select, Claimable, TypeOK, ClaimsOpen
  <2>3. ASSUME NEW d \in Dispatcher, NEW step \in {"publish", "sent", "failed"},
               \/ Idle(d)
               \/ dispatcher' = [dispatcher EXCEPT ![d].pc = step]
               \/ dispatcher' = [dispatcher EXCEPT ![d].pc = step,
                                                   ![d].seen = "ABSENT"]
        PROVE  dispatcher'[x].seen \in {"PENDING", "PROCESSING"}
    <3>1. x # d /\ dispatcher'[x] = dispatcher[x]
      <4>1. CASE Idle(d)
        BY <1>4, <2>0, <4>1 DEF TypeOK, Idle
      <4>2. CASE dispatcher' = [dispatcher EXCEPT ![d].pc = step]
        BY <1>4, <4>2 DEF TypeOK, DispatcherState
      <4>3. CASE dispatcher' = [dispatcher EXCEPT ![d].pc = step,
                                                  ![d].seen = "ABSENT"]
        BY <1>4, <4>3 DEF TypeOK, DispatcherState
      <4> QED
        BY <2>3, <4>1, <4>2, <4>3
    <3> QED
      BY <1>4, <3>1 DEF ClaimsOpen
  <2>4. ASSUME NEW d \in Dispatcher,
               \/ claim_one_update(d) \/ mark_sent(d) \/ mark_failed(d)
               \/ dispatch_publish_ok(d) \/ dispatch_publish_raises(d)
               \/ DispatcherRestart(d) \/ reconcile_write(d)
        PROVE  dispatcher'[x].seen \in {"PENDING", "PROCESSING"}
    BY <2>3, <2>4 DEF reconcile_write, claim_one_update, mark_sent, mark_failed,
       dispatch_publish_ok, dispatch_publish_raises, DispatcherRestart
  <2>5. ASSUME NEW d \in Dispatcher, NEW e \in Event, reconcile_select(d, e)
        PROVE  dispatcher'[x].seen \in {"PENDING", "PROCESSING"}
    <3>1. x # d /\ dispatcher'[x] = dispatcher[x]
      BY <1>4, <2>5 DEF TypeOK, DispatcherState, reconcile_select, Redrivable
    <3> QED
      BY <1>4, <3>1 DEF ClaimsOpen
  <2> QED
    BY <2>1, <2>2, <2>4, <2>5 DEF DispatcherStep
<1> QED
  BY <1>1, <1>2, <1>3, <1>4 DEF ClaimsOpen

(* One handler moves on with local state r.                                *)
LEMMA HandlerSettlesAt ==
    ASSUME TypeOK, HandledFirst, ClaimsOpen, NEW w \in Worker, NEW r,
           handler' = [handler EXCEPT ![w] = r],
           dispatcher' = dispatcher, handled \subseteq handled',
           r.pc \in {"done", "ack"} => r.msg.event \in handled',
           r.pc = "claim_update" => r.seenClaim # "DONE",
           \A e \in Event : consumer'[e].status = "DONE"
                              => consumer[e].status = "DONE" \/ e \in handled'
    PROVE  HandledFirst' /\ ClaimsOpen'
<1>1. handler'[w] = r /\ \A x \in Worker \ {w} : handler'[x] = handler[x]
  BY DEF TypeOK
<1> QED
  BY <1>1 DEF HandledFirst, ClaimsOpen, MyEvent

LEMMA HandlerSettles ==
    ASSUME TypeOK, HandledFirst, ClaimsOpen, NEW w \in Worker,
           HandlerStep(w) \/ ConsumerRestart(w) \/ LoseConnection(w)
    PROVE  /\ HandledFirst' /\ ClaimsOpen'
           /\ \A e \in Event : consumer[e].status = "DONE"
                                 => consumer'[e].status = "DONE"
<1> DEFINE Goal == /\ HandledFirst' /\ ClaimsOpen'
                   /\ \A e \in Event : consumer[e].status = "DONE"
                                         => consumer'[e].status = "DONE"
<1>0. /\ handler[w] \in HandlerState
      /\ MyEvent(w) \in Event
      /\ IdleHandler.pc = "idle"
  BY HandlerData, IdleTyped DEF TypeOK
<1>1. ASSUME NEW step \in HandlerPc \ {"claim_update"}, Goto(w, step),
             dispatcher' = dispatcher, handled \subseteq handled',
             step \in {"done", "ack"} => MyEvent(w) \in handled',
             \A e \in Event : consumer'[e].status = "DONE"
                                => consumer[e].status = "DONE" \/ e \in handled'
      PROVE  HandledFirst' /\ ClaimsOpen'
  <2> DEFINE r == [handler[w] EXCEPT !.pc = step]
  <2>1. r.pc = step /\ r.msg = handler[w].msg
    BY <1>0 DEF HandlerState
  <2>2. handler' = [handler EXCEPT ![w] = r]
    BY <1>1 DEF Goto
  <2> HIDE DEF r
  <2> QED
    BY <1>1, <2>1, <2>2, HandlerSettlesAt DEF MyEvent
<1>2. ASSUME Finish(w), dispatcher' = dispatcher, handled' = handled,
             consumer' = consumer
      PROVE  HandledFirst' /\ ClaimsOpen'
  BY <1>0, <1>2, HandlerSettlesAt DEF Finish
<1>3. ASSUME NEW m \in Msg, receive(w, m) PROVE Goal
  <2> DEFINE r == [IdleHandler EXCEPT !.pc = "claim_read", !.msg = m]
  <2>1. r.pc = "claim_read"
    BY DEF IdleHandler
  <2>2. handler' = [handler EXCEPT ![w] = r]
    BY <1>3 DEF receive
  <2>3. dispatcher' = dispatcher /\ handled' = handled /\ consumer' = consumer
    BY <1>3 DEF receive
  <2> HIDE DEF r
  <2> QED
    BY <2>1, <2>2, <2>3, HandlerSettlesAt
<1>4. ASSUME claim_consumer_read(w) PROVE Goal
  <2>0. dispatcher' = dispatcher /\ handled' = handled /\ consumer' = consumer
    BY <1>4 DEF claim_consumer_read, Busy
  <2>1. CASE Goto(w, "ack") /\ consumer[MyEvent(w)].status = "DONE"
    BY <1>0, <1>1, <2>0, <2>1 DEF HandledFirst, HandlerPc
  <2>2. CASE Finish(w)
    BY <1>2, <2>0, <2>2
  <2>3. CASE /\ handler' = [handler EXCEPT ![w].pc = "claim_update",
                       ![w].seenClaim = consumer[MyEvent(w)].status]
             /\ consumer[MyEvent(w)].status # "DONE"
    <3> DEFINE r == [handler[w] EXCEPT !.pc = "claim_update",
                       !.seenClaim = consumer[MyEvent(w)].status]
    <3>1. r.pc = "claim_update" /\ r.seenClaim # "DONE"
      BY <1>0, <2>3 DEF HandlerState
    <3>2. handler' = [handler EXCEPT ![w] = r]
      BY <2>3
    <3> HIDE DEF r
    <3> QED
      BY <2>0, <3>1, <3>2, HandlerSettlesAt
  <2> QED
    BY <1>4, <2>1, <2>2, <2>3 DEF claim_consumer_read, Busy
<1>5. ASSUME claim_consumer_update(w) PROVE Goal
  <2>0. dispatcher' = dispatcher /\ handled' = handled
    BY <1>5 DEF claim_consumer_update
  <2>1. CASE Finish(w) /\ consumer' = consumer
    BY <1>2, <2>0, <2>1
  <2>2. CASE /\ consumer[MyEvent(w)].status = handler[w].seenClaim
             /\ consumer' = [consumer EXCEPT ![MyEvent(w)] =
                  [status |-> "PROCESSING", token |-> w, lease |-> "live"]]
             /\ handler' = [handler EXCEPT ![w].pc = "load",
                                           ![w].seenClaim = "PENDING"]
    <3> DEFINE r == [handler[w] EXCEPT !.pc = "load", !.seenClaim = "PENDING"]
    <3>1. r.pc = "load"
      BY <1>0 DEF HandlerState
    <3>2. handler' = [handler EXCEPT ![w] = r]
      BY <2>2
    <3>3. consumer[MyEvent(w)].status # "DONE"
      BY <1>5, <2>2 DEF claim_consumer_update, ClaimsOpen
    <3>4. \A e \in Event : consumer'[e].status = "DONE"
                             <=> consumer[e].status = "DONE"
      BY <1>0, <2>2, <3>3 DEF TypeOK
    <3> HIDE DEF r
    <3> QED
      BY <2>0, <3>1, <3>2, <3>4, HandlerSettlesAt
  <2> QED
    BY <1>5, <2>1, <2>2 DEF claim_consumer_update
<1>6. ASSUME load_incident(w) \/ write_diagnosing(w) PROVE Goal
  <2>1. PICK step \in {"done", "write", "diagnose"}, seen \in IncidentStatus :
          /\ handler' = [handler EXCEPT ![w].pc = step, ![w].seenStatus = seen]
          /\ step = "done" => MyEvent(w) \in handled'
    <3>1. incident[MyIncident(w)] \in IncidentStatus
      BY HandlerData DEF TypeOK
    <3> QED
      BY <1>6, <3>1 DEF load_incident, write_diagnosing, IncidentStatus
  <2> DEFINE r == [handler[w] EXCEPT !.pc = step, !.seenStatus = seen]
  <2>2. r.pc = step /\ r.msg = handler[w].msg
    BY <1>0 DEF HandlerState
  <2>3. handler' = [handler EXCEPT ![w] = r]
    BY <2>1
  <2>4. dispatcher' = dispatcher /\ handled \subseteq handled' /\ consumer' = consumer
    BY <1>6 DEF load_incident, write_diagnosing
  <2> HIDE DEF r
  <2> QED
    BY <2>1, <2>2, <2>3, <2>4, HandlerSettlesAt DEF MyEvent
<1>7. ASSUME load_raises(w) PROVE Goal
  <2> DEFINE r == [handler[w] EXCEPT !.pc = "reject", !.seenStatus = "ABSENT"]
  <2>1. r.pc = "reject"
    BY <1>0 DEF HandlerState
  <2>2. handler' = [handler EXCEPT ![w] = r]
    BY <1>7 DEF load_raises
  <2>3. dispatcher' = dispatcher /\ handled' = handled
    BY <1>7 DEF load_raises
  <2>4. \A e \in Event : consumer'[e].status = "DONE"
                           <=> consumer[e].status = "DONE"
    BY <1>0, <1>7 DEF load_raises, Release, OwnsClaim, Unclaimed, TypeOK
  <2> HIDE DEF r
  <2> QED
    BY <2>1, <2>2, <2>3, <2>4, HandlerSettlesAt
<1>8. ASSUME mark_consumer_done(w) PROVE Goal
  <2>1. MyEvent(w) \in handled
    BY <1>8 DEF mark_consumer_done, HandledFirst
  <2>2. \A e \in Event :
          /\ consumer[e].status = "DONE" => consumer'[e].status = "DONE"
          /\ consumer'[e].status = "DONE"
               => consumer[e].status = "DONE" \/ e = MyEvent(w)
    BY <1>0, <1>8 DEF mark_consumer_done, MarkDone, TypeOK
  <2> QED
    BY <1>1, <1>8, <2>1, <2>2 DEF mark_consumer_done, HandlerPc
<1>9. ASSUME release_consumer(w) PROVE Goal
  <2>1. \A e \in Event : consumer'[e].status = "DONE"
                           <=> consumer[e].status = "DONE"
    BY <1>0, <1>9 DEF release_consumer, Release, OwnsClaim, Unclaimed, TypeOK
  <2> QED
    BY <1>1, <1>9, <2>1 DEF release_consumer, HandlerPc
<1>10. ASSUME \/ process_incident(w) \/ republish(w) \/ give_up(w)
              \/ fallback(w) \/ ack(w) \/ ack_retry(w) \/ reject(w)
              \/ ConsumerRestart(w)
       PROVE  Goal
  BY <1>1, <1>2, <1>10 DEF process_incident, republish, RepublishFailed, give_up, fallback, ack,
     ack_retry, reject, ConsumerRestart, HandlerPc
<1>11. ASSUME LoseConnection(w) PROVE Goal
  <2> DEFINE r == [handler[w] EXCEPT !.conn = "lost"]
  <2>1. r.pc = handler[w].pc /\ r.msg = handler[w].msg
        /\ r.seenClaim = handler[w].seenClaim
    BY <1>0 DEF HandlerState
  <2>2. handler' = [handler EXCEPT ![w] = r]
    BY <1>11 DEF LoseConnection
  <2>3. dispatcher' = dispatcher /\ handled' = handled /\ consumer' = consumer
    BY <1>11 DEF LoseConnection
  <2>4. /\ r.pc \in {"done", "ack"} => r.msg.event \in handled'
        /\ r.pc = "claim_update" => r.seenClaim # "DONE"
    BY <2>1, <2>3 DEF HandledFirst, ClaimsOpen, MyEvent
  <2> HIDE DEF r
  <2> QED
    BY <2>2, <2>3, <2>4, HandlerSettlesAt
<1> QED
  BY <1>3, <1>4, <1>5, <1>6, <1>7, <1>8, <1>9, <1>10, <1>11 DEF HandlerStep

-----------------------------------------------------------------------------
(* No step takes a row out of SENT, and none writes a row early: a retry   *)
(* event is the next one of its Incident, and a dispatcher only works on   *)
(* rows that are there.                                                    *)
LEMMA RowsSettle ==
    ASSUME TypeOK, ClaimsOpen, NoEarlyRow, RedriveReal, [Next]_vars
    PROVE  /\ NoEarlyRow'
           /\ \A e \in Event : outbox[e].status = "SENT" /\ ~Redriving(e)
                                 => outbox'[e].status = "SENT"
           /\ \A e \in Event : outbox'[e].status = "ABSENT"
                                 => outbox[e].status = "ABSENT"
<1> DEFINE Goal == /\ NoEarlyRow'
                   /\ \A e \in Event : outbox[e].status = "SENT" /\ ~Redriving(e)
                                         => outbox'[e].status = "SENT"
                   /\ \A e \in Event : outbox'[e].status = "ABSENT"
                                         => outbox[e].status = "ABSENT"
<1>0. /\ \A e \in Event : e[1] \in Incident /\ e[2] \in Nat
      /\ PendingRow.status = "PENDING"
  BY DEF Event, PendingRow, NoRow
<1>1. ASSUME verifies' = verifies,
             \A i \in Incident : incident'[i] = "ABSENT" <=> incident[i] = "ABSENT",
             \A e \in Event :
               /\ outbox'[e].status = "ABSENT" <=> outbox[e].status = "ABSENT"
               /\ outbox[e].status = "SENT" /\ ~Redriving(e)
                    => outbox'[e].status = "SENT"
      PROVE  Goal
  BY <1>0, <1>1 DEF NoEarlyRow
<1>2. ASSUME NEW i \in Incident, build_and_publish_incident(i) PROVE Goal
  <2>1. <<i, 0>> \in Event /\ <<i, 0>>[1] = i
    BY DeliveryAssumption DEF Event, DeliveryAssumption
  <2>2. \A e \in Event : outbox'[e] = IF e = <<i, 0>> THEN PendingRow ELSE outbox[e]
    BY <1>2, <2>1 DEF build_and_publish_incident, TypeOK
  <2>3. /\ outbox[<<i, 0>>].status = "ABSENT" /\ incident'[i] = "NEW"
        /\ \A j \in Incident \ {i} : incident'[j] = incident[j]
    BY <1>2, <2>1 DEF build_and_publish_incident, NoEarlyRow, TypeOK
  <2>4. ASSUME NEW e \in Event, incident'[e[1]] = "ABSENT" \/ verifies'[e[1]] < e[2]
        PROVE  outbox'[e].status = "ABSENT"
    <3>1. verifies' = verifies /\ verifies[i] \in Nat
      BY <1>2 DEF build_and_publish_incident, TypeOK
    <3>2. e # <<i, 0>>
      BY <2>3, <2>4, <3>1
    <3>3. incident[e[1]] = "ABSENT" \/ verifies[e[1]] < e[2]
      BY <1>0, <1>2, <2>3, <2>4, <3>1 DEF build_and_publish_incident
    <3> QED
      BY <2>2, <3>2, <3>3 DEF NoEarlyRow
  <2> QED
    BY <2>2, <2>3, <2>4 DEF NoEarlyRow
<1>3. ASSUME NEW i \in Incident, verify_retry(i) PROVE Goal
  <2> DEFINE n == verifies[i] + 1
  <2>0. verifies[i] \in Nat /\ n < MaxVerify
    BY <1>3 DEF verify_retry, RetryEvent, TypeOK
  <2>1. <<i, n>> \in Event /\ <<i, n>>[1] = i /\ <<i, n>>[2] = n
    BY <2>0, DeliveryAssumption DEF Event, DeliveryAssumption
  <2>2. \A e \in Event : outbox'[e] = IF e = <<i, n>> THEN PendingRow ELSE outbox[e]
    BY <1>3, <2>1 DEF verify_retry, RetryEvent, TypeOK
  <2>3. /\ outbox[<<i, n>>].status = "ABSENT"
        /\ incident[i] = "VERIFYING" /\ incident'[i] = "DIAGNOSING"
        /\ verifies'[i] = n
        /\ \A j \in Incident \ {i} : incident'[j] = incident[j]
                                     /\ verifies'[j] = verifies[j]
    <3>1. verifies[<<i, n>>[1]] < <<i, n>>[2]
      BY <2>0, <2>1
    <3> QED
      BY <1>3, <2>1, <3>1 DEF verify_retry, RetryEvent, NoEarlyRow, TypeOK
  <2>4. ASSUME NEW e \in Event, incident'[e[1]] = "ABSENT" \/ verifies'[e[1]] < e[2]
        PROVE  outbox'[e].status = "ABSENT"
    <3>1. e # <<i, n>>
      BY <2>0, <2>3, <2>4
    <3>2. incident[e[1]] = "ABSENT" \/ verifies[e[1]] < e[2]
      BY <1>0, <2>0, <2>3, <2>4
    <3> QED
      BY <2>2, <3>1, <3>2 DEF NoEarlyRow
  <2> HIDE DEF n
  <2> QED
    BY <2>2, <2>3, <2>4 DEF NoEarlyRow
<1>4. ASSUME NEW i \in Incident, verify_exhausted(i) PROVE Goal
  <2>1. /\ outbox' = outbox /\ verifies[i] <= verifies'[i]
        /\ verifies'[i] \in Nat /\ verifies[i] \in Nat
        /\ incident[i] = "VERIFYING" /\ incident'[i] = "FAILED"
        /\ \A j \in Incident \ {i} : incident'[j] = incident[j]
                                     /\ verifies'[j] = verifies[j]
    BY <1>4, DeliveryAssumption DEF verify_exhausted, TypeOK, DeliveryAssumption
  <2>2. \A e \in Event :
          incident'[e[1]] = "ABSENT" \/ verifies'[e[1]] < e[2]
            => incident[e[1]] = "ABSENT" \/ verifies[e[1]] < e[2]
    BY <1>0, <2>1
  <2> QED
    BY <2>1, <2>2 DEF NoEarlyRow
<1>5. ASSUME \/ \E i \in Incident : \/ verify_conclusive(i)
                                    \/ resolve_recovered(i)
                                    \/ action_outcome(i)
             \/ WatcherRestart \/ UNCHANGED vars
             \/ \E e \in Event : fast_publish(e) \/ ExpireConsumerLease(e)
      PROVE  Goal
  <2>1. outbox' = outbox /\ verifies' = verifies
    BY <1>5 DEF verify_conclusive, resolve_recovered, action_outcome,
       WatcherRestart, vars, fast_publish, ExpireConsumerLease
  <2>2. \A i \in Incident : incident'[i] = "ABSENT" <=> incident[i] = "ABSENT"
    BY <1>5 DEF verify_conclusive, resolve_recovered, action_outcome,
       WatcherRestart, vars, fast_publish, ExpireConsumerLease, TypeOK,
       Closed, NonProcessable
  <2> QED
    BY <1>1, <2>1, <2>2
<1>6. ASSUME NEW e \in Event,
             mark_published(e) \/ ExpireOutboxLease(e)
      PROVE  Goal
  <2>1. verifies' = verifies /\ incident' = incident
    BY <1>6 DEF mark_published, ExpireOutboxLease
  <2>2. \A f \in Event :
          /\ outbox'[f].status = "ABSENT" <=> outbox[f].status = "ABSENT"
          /\ outbox[f].status = "SENT" => outbox'[f].status = "SENT"
    BY <1>6 DEF mark_published, ExpireOutboxLease, TypeOK,
       OutboxRow
  <2> QED
    BY <1>1, <2>1, <2>2
<1>7. ASSUME NEW d \in Dispatcher, DispatcherStep(d) \/ DispatcherRestart(d)
      PROVE  Goal
  <2>1. verifies' = verifies /\ incident' = incident
    BY <1>7 DEF DispatcherStep, DispatcherRestart, claim_one_select,
       claim_one_update, dispatch_publish_ok, dispatch_publish_raises,
       mark_sent, mark_failed, reconcile_select, Redrivable, reconcile_write
  <2>2. dispatcher[d].event \in Event
    BY DEF TypeOK, DispatcherState
  <2>3. \A f \in Event :
          /\ outbox'[f].status = "ABSENT" <=> outbox[f].status = "ABSENT"
          /\ outbox[f].status = "SENT" /\ ~Redriving(f)
               => outbox'[f].status = "SENT"
    <3>1. CASE claim_one_update(d)
      <4>1. CASE outbox' = outbox
        BY <4>1
      <4>2. CASE outbox' # outbox
        <5>1. outbox[dispatcher[d].event].status \in {"PENDING", "PROCESSING"}
          BY <3>1, <4>2 DEF claim_one_update, ClaimsOpen
        <5> QED
          BY <2>2, <3>1, <4>2, <5>1 DEF claim_one_update, TypeOK
      <4> QED
        BY <4>1, <4>2
    <3>2. CASE mark_sent(d) \/ mark_failed(d)
      <4>1. \A f \in Event :
              /\ outbox'[f].status = "ABSENT" <=> outbox[f].status = "ABSENT"
              /\ outbox[f].status = "SENT" => outbox'[f].status = "SENT"
        <5>1. CASE outbox' = outbox
          BY <5>1
        <5>2. CASE OwnsRow(d, dispatcher[d].event) /\ mark_sent(d)
          BY <2>2, <5>2 DEF mark_sent, OwnsRow, TypeOK, OutboxRow
        <5>3. CASE OwnsRow(d, dispatcher[d].event) /\ mark_failed(d)
          BY <2>2, <5>3 DEF mark_failed, OwnsRow, TypeOK, OutboxRow
        <5> QED
          BY <3>2, <5>1, <5>2, <5>3 DEF mark_sent, mark_failed
      <4> QED
        BY <4>1
    <3>3. CASE \/ claim_one_select(d) \/ dispatch_publish_ok(d)
               \/ dispatch_publish_raises(d) \/ DispatcherRestart(d)
      BY <3>3 DEF claim_one_select, dispatch_publish_ok,
         dispatch_publish_raises, DispatcherRestart
    <3>4. CASE \E e \in Event : reconcile_select(d, e)
      BY <3>4 DEF reconcile_select, Redrivable
    <3>5. CASE reconcile_write(d)
      <4>1. outbox[dispatcher[d].event].status # "ABSENT"
        BY <3>5 DEF reconcile_write, RedriveReal
      <4>2. Redriving(dispatcher[d].event)
        BY <3>5 DEF reconcile_write, Redriving
      <4> QED
        <5> DEFINE e == dispatcher[d].event
                   row == [outbox[e] EXCEPT !.status = "PENDING",
                                            !.attempts = 0, !.lease = "over"]
        <5>1. outbox[e] \in OutboxRow
          BY <2>2 DEF TypeOK
        <5>2. row.status = "PENDING"
          BY <5>1 DEF OutboxRow
        <5>3. outbox' = [outbox EXCEPT ![e] = row]
          BY <3>5 DEF reconcile_write
        <5> HIDE DEF row
        <5> QED
          BY <2>2, <4>1, <4>2, <5>2, <5>3 DEF TypeOK
    <3> QED
      BY <1>7, <3>1, <3>2, <3>3, <3>4, <3>5 DEF DispatcherStep
  <2> QED
    BY <1>1, <2>1, <2>3
<1>8. ASSUME NEW w \in Worker,
             HandlerStep(w) \/ ConsumerRestart(w) \/ LoseConnection(w)
      PROVE  Goal
  <2>1. verifies' = verifies /\ outbox' = outbox
    BY <1>8 DEF HandlerStep, receive, claim_consumer_read, Busy,
       claim_consumer_update, load_incident, write_diagnosing, load_raises,
       process_incident, mark_consumer_done, release_consumer, republish, RepublishFailed,
       give_up, fallback, ack, ack_retry, reject, ConsumerRestart,
       LoseConnection
  <2>2. \A i \in Incident : incident'[i] = "ABSENT" => incident[i] = "ABSENT"
    BY <1>8 DEF HandlerStep, receive, claim_consumer_read, Busy,
       claim_consumer_update, load_incident, write_diagnosing, load_raises,
       process_incident, mark_consumer_done, release_consumer, republish, RepublishFailed,
       give_up, fallback, ack, ack_retry, reject, ConsumerRestart,
       LoseConnection, TypeOK
  <2> QED
    BY <1>0, <2>1, <2>2 DEF NoEarlyRow
<1> QED
  BY <1>2, <1>3, <1>4, <1>5, <1>6, <1>7, <1>8 DEF Next, WatcherStep, TimeStep,
     FaultStep

(* A row that is about to be redriven stays there.                         *)
LEMMA RedriveKept ==
    ASSUME TypeOK, RedriveReal, [Next]_vars,
           \A e \in Event : outbox'[e].status = "ABSENT"
                              => outbox[e].status = "ABSENT"
    PROVE  RedriveReal'
<1> SUFFICES ASSUME NEW x \in Dispatcher, dispatcher'[x].pc = "redrive"
             PROVE  \/ dispatcher[x].pc = "redrive" /\ dispatcher'[x] = dispatcher[x]
                    \/ /\ dispatcher'[x].event \in Event
                       /\ outbox[dispatcher'[x].event].status = "DEAD"
  BY DEF RedriveReal, TypeOK, DispatcherState
<1>0. IdleDispatcher.pc = "idle" /\ dispatcher[x] \in DispatcherState
  BY DEF IdleDispatcher, TypeOK
<1>1. CASE dispatcher' = dispatcher
  BY <1>1
<1>2. ASSUME NEW d \in Dispatcher, NEW e \in Event, reconcile_select(d, e)
      PROVE  \/ dispatcher'[x] = dispatcher[x]
             \/ dispatcher'[x].event = e /\ outbox[e].status = "DEAD"
  BY <1>0, <1>2 DEF reconcile_select, Redrivable, TypeOK, DispatcherState
<1>3. ASSUME NEW d \in Dispatcher,
             \/ claim_one_select(d) \/ claim_one_update(d) \/ mark_sent(d)
             \/ mark_failed(d) \/ dispatch_publish_ok(d)
             \/ dispatch_publish_raises(d) \/ DispatcherRestart(d)
             \/ reconcile_write(d)
      PROVE  dispatcher'[x] = dispatcher[x]
  <2>1. x # d
    <3>1. CASE Idle(d)
      BY <1>0, <3>1 DEF Idle, TypeOK
    <3>2. CASE ~Idle(d)
      BY <1>0, <1>3, <3>2 DEF claim_one_select, claim_one_update, mark_sent,
         mark_failed, dispatch_publish_ok, dispatch_publish_raises,
         DispatcherRestart, reconcile_write, TypeOK, DispatcherState
    <3> QED
      BY <3>1, <3>2
  <2> QED
    BY <1>3, <2>1 DEF claim_one_select, claim_one_update, mark_sent,
       mark_failed, dispatch_publish_ok, dispatch_publish_raises,
       DispatcherRestart, reconcile_write, TypeOK, Idle
<1>4. CASE ~\E d \in Dispatcher : DispatcherStep(d) \/ DispatcherRestart(d)
  <2>1. ASSUME UNCHANGED vars \/ WatcherStep \/ TimeStep
        PROVE  dispatcher' = dispatcher
    BY <2>1 DEF vars, WatcherStep, TimeStep,
       build_and_publish_incident, verify_conclusive, verify_exhausted,
       verify_retry, RetryEvent, resolve_recovered, action_outcome, fast_publish,
       mark_published, WatcherRestart, ExpireOutboxLease, ExpireConsumerLease
  <2>2. ASSUME NEW w \in Worker,
               HandlerStep(w) \/ ConsumerRestart(w) \/ LoseConnection(w)
        PROVE  dispatcher' = dispatcher
    BY <2>2 DEF HandlerStep, receive, claim_consumer_read, Busy,
       claim_consumer_update, load_incident, write_diagnosing, load_raises,
       process_incident, mark_consumer_done, release_consumer, republish, RepublishFailed,
       give_up, fallback, ack, ack_retry, reject, ConsumerRestart,
       LoseConnection
  <2> QED
    BY <1>1, <1>4, <2>1, <2>2 DEF Next, FaultStep
<1> QED
  BY <1>1, <1>2, <1>3, <1>4 DEF DispatcherStep

-----------------------------------------------------------------------------
(* The inductive invariant: no single conjunct survives alone, because     *)
(* NothingLost needs what HandledFirst says of an acknowledgement,         *)
(* HandledFirst needs ClaimsOpen, and all need the types.                  *)
IInv == /\ TypeOK /\ RetryBudget
        /\ HandledFirst /\ ClaimsOpen /\ RedriveReal /\ NoEarlyRow
        /\ NothingLost

LEMMA Inductive == Spec => []IInv
<1>1. Init => IInv
  <2> SUFFICES ASSUME Init PROVE IInv
    OBVIOUS
  <2>1. TypeOK /\ RetryBudget
    BY IdleTyped, DeliveryAssumption
       DEF Init, TypeOK, RetryBudget, NoRow, Unclaimed, IncidentStatus,
           OutboxRow, OutboxStatus, ConsumerClaim, ConsumerStatus, Owner,
           Lease, DeliveryAssumption
  <2>2. IdleDispatcher.pc = "idle" /\ IdleHandler.pc = "idle"
    BY DEF IdleDispatcher, IdleHandler
  <2>3. HandledFirst /\ ClaimsOpen /\ RedriveReal /\ NoEarlyRow
    BY <2>2 DEF Init, HandledFirst, ClaimsOpen, RedriveReal, NoEarlyRow, Unclaimed, NoRow
  <2>4. NothingLost
    BY <2>2 DEF Init, NothingLost, Published, NoRow
  <2> QED
    BY <2>1, <2>3, <2>4 DEF IInv
<1>2. IInv /\ [Next]_vars => IInv'
  <2> SUFFICES ASSUME IInv, [Next]_vars PROVE IInv'
    OBVIOUS
  <2>1. TypeOK' /\ RetryBudget'
    <3>1. CASE UNCHANGED vars
      BY <3>1 DEF IInv, vars, TypeOK, RetryBudget
    <3> QED
      BY <3>1, WatcherTyped, DispatcherTyped, TimeTyped, HandlerTyped
         DEF IInv, Next, FaultStep
  <2>2. HandledFirst' /\ ClaimsOpen'
    BY ProducersSettle, HandlerSettles DEF IInv, Next, FaultStep
  <2>3. NoEarlyRow' /\ RedriveReal'
    BY RowsSettle, RedriveKept DEF IInv
  <2>4. NothingLost'
    <3>1. CASE UNCHANGED vars
      BY <3>1 DEF IInv, vars, NothingLost, Published, Kept, Queued, Keeps,
         Holds, MyEvent
    <3> QED
      BY <3>1, PublisherKeeps, HandlerKeeps DEF IInv, Next, FaultStep,
         PublisherStep
  <2> QED
    BY <2>1, <2>2, <2>3, <2>4 DEF IInv
<1> QED
  BY <1>1, <1>2, PTL DEF Spec

(* Never drop silently: whichever process restarts, whichever publish is   *)
(* in doubt and however often a message is delivered, an event whose       *)
(* publish the broker confirmed was handled or is still with the broker.   *)
THEOREM NothingDropped == Spec => []NoSilentLoss
<1>1. IInv => NoSilentLoss
  BY DEF IInv, NothingLost, NoSilentLoss, Kept, Keeps, InSystem
<1> QED
  BY <1>1, Inductive, PTL

(* A SENT row and a DONE claim are never undone, however late the process  *)
(* is that still believes it owns them, but by a reconciler that read the  *)
(* row DEAD.                                                               *)
THEOREM SettledStays == Spec => SettledIsFinal
<1> DEFINE Final == \A e \in Event :
       /\ outbox[e].status = "SENT" /\ ~Redriving(e)
            => outbox'[e].status = "SENT"
       /\ consumer[e].status = "DONE" => consumer'[e].status = "DONE"
<1>1. IInv /\ [Next]_vars => [Final]_vars
  <2> SUFFICES ASSUME IInv, [Next]_vars PROVE Final
    OBVIOUS
  <2>1. \A e \in Event : consumer[e].status = "DONE" => consumer'[e].status = "DONE"
    BY ProducersSettle, HandlerSettles DEF IInv, Next, FaultStep
  <2> QED
    BY <2>1, RowsSettle DEF IInv
<1> QED
  BY <1>1, Inductive, PTL DEF Spec, SettledIsFinal
=============================================================================
