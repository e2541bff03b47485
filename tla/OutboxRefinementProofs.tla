------------------------ MODULE OutboxRefinementProofs ------------------------
(* That the delivery of IncidentDelivery keeps the promise of Outbox.      *)
EXTENDS IncidentDeliveryProofs

(* The row a process is about to publish, settle or redrive is there.      *)
RowsReal ==
    /\ \A e \in Event : watcher[e] # "idle" => outbox[e].status # "ABSENT"
    /\ \A d \in Dispatcher :
         dispatcher[d].pc # "idle"
           => outbox[dispatcher[d].event].status # "ABSENT"

(* What a handler works on was accepted by the broker.                     *)
WorkAccepted ==
    \A w \in Worker : handler[w].pc # "idle" => MyEvent(w) \in Accepted

Rows == [e \in Event |-> RowOf(e)]

(* Any step of the handlers.                                               *)
HandlersStep ==
    \E w \in Worker : HandlerStep(w) \/ ConsumerRestart(w) \/ LoseConnection(w)

LEMMA NextSplits == Next => PublisherStep \/ HandlersStep
  BY DEF Next, FaultStep, PublisherStep, HandlersStep

(* What was accepted stays accepted, what was handled stays handled.       *)
LEMMA AcceptedStays ==
    ASSUME IInv, PublisherStep \/ HandlersStep
    PROVE  Accepted \subseteq Accepted' /\ handled \subseteq handled'
<1>1. CASE PublisherStep
  BY <1>1, PublisherQueues DEF IInv, Accepted
<1>2. CASE HandlersStep
  <2>1. PICK w \in Worker :
          HandlerStep(w) \/ ConsumerRestart(w) \/ LoseConnection(w)
    BY <1>2 DEF HandlersStep
  <2>2. handled \subseteq handled'
    BY <2>1, HandlerKeeps DEF IInv
  <2>3. \A e \in Event : Kept(e) => Kept(e)' \/ e \in handled'
    BY <2>1, HandlerKeepsEvent DEF IInv
  <2> QED
    BY <2>2, <2>3 DEF Accepted
<1> QED
  BY <1>1, <1>2

-----------------------------------------------------------------------------
(* What one handler step may bring into the broker is the event the handler*)
(* works on, or the one whose message it receives.                         *)
LEMMA HandlerAdds ==
    ASSUME IInv, WorkAccepted, NEW w \in Worker,
           HandlerStep(w) \/ ConsumerRestart(w) \/ LoseConnection(w)
    PROVE  /\ Accepted' = Accepted
           /\ handled' = handled \/ handled' = handled \cup {MyEvent(w)}
           /\ handled' # handled => MyEvent(w) \in Accepted
           /\ WorkAccepted'
<1>0. /\ TypeOK /\ RetryBudget
      /\ handler[w] \in HandlerState
      /\ handler[w].msg \in Msg
      /\ MyEvent(w) \in Event
      /\ handler[w].msg.event = MyEvent(w)
      /\ IdleHandler.pc = "idle"
  BY HandlerData, IdleTyped DEF IInv, TypeOK, MyEvent
<1>1. /\ handled' = handled \/ handled' = handled \cup {MyEvent(w)}
      /\ handled' # handled => handler[w].pc # "idle"
  BY DEF HandlerStep, receive, claim_consumer_read, claim_consumer_update,
     load_incident, write_diagnosing, load_raises, process_incident,
     mark_consumer_done, release_consumer, republish, give_up, fallback, ack,
     ack_retry, reject, ConsumerRestart, LoseConnection
<1>2. dlq' = dlq \/ (dlq' = dlq \cup {MyEvent(w)} /\ handler[w].pc # "idle")
  BY DEF HandlerStep, receive, claim_consumer_read, claim_consumer_update,
     load_incident, write_diagnosing, load_raises, process_incident,
     mark_consumer_done, release_consumer, republish, give_up, fallback, ack,
     ack_retry, reject, ConsumerRestart, LoseConnection
(* Where the handler is afterwards.                                        *)
<1> DEFINE Moved ==
      /\ \A x \in Worker \ {w} : handler'[x] = handler[x]
      /\ \/ handler'[w].pc = "idle"
         \/ handler[w].pc # "idle" /\ handler'[w].msg = handler[w].msg
         \/ queue[handler'[w].msg] > 0 /\ handler'[w].msg \in Msg
<1>3. Moved
  <2>1. ASSUME NEW step \in HandlerPc, NEW seen \in IncidentStatus,
               NEW c \in ConsumerStatus, handler[w].pc # "idle",
               \/ Goto(w, step) \/ Finish(w)
               \/ handler' = [handler EXCEPT ![w].pc = step, ![w].seenStatus = seen]
               \/ handler' = [handler EXCEPT ![w].pc = step, ![w].seenClaim = c]
               \/ handler' = [handler EXCEPT ![w].conn = "lost"]
        PROVE  Moved
    BY <1>0, <2>1 DEF TypeOK, Goto, Finish, HandlerState
  <2>2. ASSUME NEW m \in Msg, receive(w, m) PROVE Moved
    BY <1>0, <2>2 DEF TypeOK, receive, IdleHandler
  <2>3. CASE load_incident(w) \/ write_diagnosing(w) \/ load_raises(w)
    <3>1. incident[MyIncident(w)] \in IncidentStatus /\ "ABSENT" \in IncidentStatus
      BY <1>0, HandlerData DEF TypeOK, IncidentStatus
    <3>2. {"done", "write", "diagnose", "reject"} \subseteq HandlerPc
      BY DEF HandlerPc
    <3>3. \E step \in HandlerPc, seen \in IncidentStatus :
            handler' = [handler EXCEPT ![w].pc = step, ![w].seenStatus = seen]
      <4>1. CASE load_incident(w)
        BY <3>1, <3>2, <4>1 DEF load_incident
      <4>2. CASE write_diagnosing(w)
        BY <3>1, <3>2, <4>2 DEF write_diagnosing
      <4>3. CASE load_raises(w)
        BY <3>1, <3>2, <4>3 DEF load_raises
      <4> QED
        BY <2>3, <4>1, <4>2, <4>3
    <3>4. handler[w].pc # "idle" /\ "PENDING" \in ConsumerStatus
      BY <2>3 DEF load_incident, write_diagnosing, load_raises, ConsumerStatus
    <3> QED
      BY <2>1, <3>3, <3>4
  <2>4. CASE claim_consumer_read(w) \/ claim_consumer_update(w)
    <3>1. consumer[MyEvent(w)].status \in ConsumerStatus
          /\ "PENDING" \in ConsumerStatus /\ "ABSENT" \in IncidentStatus
      BY <1>0 DEF TypeOK, ConsumerClaim, ConsumerStatus, IncidentStatus
    <3>2. {"ack", "claim_update", "load"} \subseteq HandlerPc
      BY DEF HandlerPc
    <3>3. handler[w].pc # "idle"
      BY <2>4 DEF claim_consumer_read, claim_consumer_update
    <3>4. CASE claim_consumer_read(w)
      BY <2>1, <3>1, <3>2, <3>3, <3>4 DEF claim_consumer_read
    <3>5. CASE claim_consumer_update(w)
      BY <2>1, <3>1, <3>2, <3>3, <3>5 DEF claim_consumer_update
    <3> QED
      BY <2>4, <3>4, <3>5
  <2>5. CASE \/ process_incident(w) \/ mark_consumer_done(w)
             \/ release_consumer(w) \/ republish(w) \/ give_up(w)
             \/ fallback(w) \/ ack(w) \/ ack_retry(w) \/ reject(w)
             \/ ConsumerRestart(w) \/ LoseConnection(w)
    <3>1. "PENDING" \in ConsumerStatus /\ "ABSENT" \in IncidentStatus
      BY DEF ConsumerStatus, IncidentStatus
    <3>2. /\ handler[w].pc # "idle"
          /\ \/ \E step \in HandlerPc : Goto(w, step)
             \/ Finish(w)
             \/ handler' = [handler EXCEPT ![w].conn = "lost"]
      BY <2>5 DEF process_incident, mark_consumer_done, release_consumer,
         republish, RepublishFailed, give_up, fallback, ack, ack_retry, reject,
         ConsumerRestart, LoseConnection, HandlerPc
    <3>3. "idle" \in HandlerPc
      BY DEF HandlerPc
    <3> QED
      BY <2>1, <3>1, <3>2, <3>3
  <2> QED
    BY <2>2, <2>3, <2>4, <2>5 DEF HandlerStep
(* What the queue gained.                                                  *)
<1>4. \/ \A m \in Msg : queue'[m] <= queue[m]
      \/ /\ handler[w].pc # "idle"
         /\ \E n \in Msg : n.event = MyEvent(w) /\ queue' = Put(n)
  <2>0. \A m \in Msg : queue[m] \in Nat
    BY <1>0 DEF TypeOK
  <2>1. ASSUME NEW m \in Msg, receive(w, m)
        PROVE  \A n \in Msg : queue'[n] <= queue[n]
    BY <1>0, <2>0, <2>1 DEF TypeOK, receive
  <2>2. CASE queue' = queue
    BY <2>0, <2>2
  <2>3. CASE claim_consumer_read(w) \/ claim_consumer_update(w)
    BY <1>0, <2>2, <2>3 DEF claim_consumer_read, claim_consumer_update, Requeued
  <2>4. CASE republish(w)
    <3> DEFINE n == [handler[w].msg EXCEPT !.retry = @ + 1]
    <3>1. n \in Msg /\ n.event = MyEvent(w)
      BY <1>0, <2>4, DeliveryAssumption
         DEF republish, RetryBudget, Msg, MyEvent, DeliveryAssumption
    <3>2. queue' = queue \/ queue' = Put(n)
      BY <2>4 DEF republish, PublishConfirmed, PublishRaised
    <3>3. handler[w].pc # "idle"
      BY <2>4 DEF republish
    <3> HIDE DEF n
    <3> QED
      BY <2>2, <3>1, <3>2, <3>3
  <2>5. CASE ConsumerRestart(w) \/ LoseConnection(w)
    BY <1>0, <2>2, <2>5 DEF ConsumerRestart, LoseConnection, Requeued
  <2>6. CASE \/ load_incident(w) \/ write_diagnosing(w) \/ load_raises(w)
             \/ process_incident(w) \/ mark_consumer_done(w)
             \/ release_consumer(w) \/ give_up(w) \/ fallback(w) \/ ack(w)
             \/ ack_retry(w) \/ reject(w)
    <3>1. queue' = queue
      BY <2>6 DEF load_incident, write_diagnosing, load_raises,
         process_incident, mark_consumer_done, release_consumer, give_up,
         fallback, ack, ack_retry, reject
    <3> QED
      BY <2>2, <3>1
  <2> QED
    BY <2>1, <2>3, <2>4, <2>5, <2>6 DEF HandlerStep
<1>5. Accepted \subseteq Accepted'
  BY AcceptedStays DEF HandlersStep
<1>6. ASSUME NEW e \in Event, e \in Accepted' PROVE e \in Accepted
  <2>1. CASE e \in handled'
    BY <1>1, <2>1 DEF Accepted, WorkAccepted
  <2>2. CASE e \in dlq'
    BY <1>2, <2>2 DEF Accepted, WorkAccepted, Kept
  <2>3. CASE Queued(e)'
    <3>1. PICK m \in Msg : m.event = e /\ queue'[m] > 0
      BY <2>3 DEF Queued
    <3>2. CASE \A n \in Msg : queue'[n] <= queue[n]
      <4>1. queue[m] \in Nat /\ queue'[m] <= queue[m]
        BY <1>0, <3>2 DEF TypeOK
      <4>2. queue'[m] \in Nat
        BY <1>0, HandlerTyped DEF TypeOK
      <4> QED
        BY <3>1, <4>1, <4>2 DEF Accepted, Kept, Queued
    <3>3. ASSUME NEW n \in Msg, n.event = MyEvent(w), queue' = Put(n),
                 handler[w].pc # "idle"
          PROVE  e \in Accepted
      <4>1. CASE m = n
        BY <3>1, <3>3, <4>1 DEF WorkAccepted
      <4>2. CASE m # n
        <5>1. queue'[m] = queue[m]
          BY <1>0, <3>3, <4>2 DEF TypeOK, Put
        <5> QED
          BY <3>1, <5>1 DEF Accepted, Kept, Queued
      <4> QED
        BY <4>1, <4>2
    <3> QED
      BY <1>4, <3>2, <3>3
  <2>4. ASSUME NEW x \in Worker, Keeps(x, e)' PROVE e \in Accepted
    <3>1. CASE x # w
      BY <1>3, <2>4, <3>1 DEF Keeps, Holds, MyEvent, Accepted, Kept
    <3>2. CASE x = w /\ handler[w].pc # "idle" /\ handler'[w].msg = handler[w].msg
      BY <2>4, <3>2 DEF Keeps, Holds, MyEvent, WorkAccepted
    <3>3. CASE x = w /\ queue[handler'[w].msg] > 0 /\ handler'[w].msg \in Msg
      BY <2>4, <3>3 DEF Keeps, Holds, MyEvent, Accepted, Kept, Queued
    <3> QED
      BY <1>3, <2>4, <3>1, <3>2, <3>3 DEF Keeps, Holds
  <2> QED
    BY <1>6, <2>1, <2>2, <2>3, <2>4 DEF Accepted, Kept
<1>7. WorkAccepted'
  <2> SUFFICES ASSUME NEW x \in Worker, handler'[x].pc # "idle"
               PROVE  handler'[x].msg.event \in Accepted
    BY <1>5 DEF WorkAccepted, MyEvent
  <2>1. CASE x # w
    BY <1>3, <2>1 DEF WorkAccepted, MyEvent
  <2>2. CASE x = w /\ handler[w].pc # "idle" /\ handler'[w].msg = handler[w].msg
    BY <2>2 DEF WorkAccepted, MyEvent
  <2>3. CASE x = w /\ queue[handler'[w].msg] > 0 /\ handler'[w].msg \in Msg
    <3>1. handler'[w].msg.event \in Event
      BY <2>3 DEF Msg
    <3> QED
      BY <2>3, <3>1 DEF Accepted, Kept, Queued
  <2> QED
    BY <1>3, <2>1, <2>2, <2>3
<1>8. Accepted' \subseteq Accepted
  <2>1. Accepted' \subseteq Event
    BY DEF Accepted
  <2> QED
    BY <1>6, <2>1
<1> QED
  BY <1>1, <1>5, <1>7, <1>8 DEF WorkAccepted

-----------------------------------------------------------------------------
(* A step that rewrites one row, and a publish that takes effect, are      *)
(* steps of the promise.                                                   *)
PromiseStep == Promise!Next \/ UNCHANGED <<Rows, Accepted, handled>>

LEMMA OneRow ==
    ASSUME NEW e \in Event,
           \A f \in Event \ {e} : outbox'[f] = outbox[f],
           Accepted' = Accepted, handled' = handled,
           \/ RowOf(e)' = RowOf(e)
           \/ RowOf(e) = "ABSENT" /\ RowOf(e)' = "DUE"
           \/ RowOf(e) = "DUE" /\ RowOf(e)' = "SENT" /\ e \in Accepted
           \/ RowOf(e) = "DUE" /\ RowOf(e)' = "DEAD"
           \/ RowOf(e) \in {"DEAD", "SENT"} /\ RowOf(e)' = "DUE"
    PROVE  PromiseStep
<1>1. \A f \in Event \ {e} : RowOf(f)' = RowOf(f)
  BY DEF RowOf
<1>2. Rows' = [Rows EXCEPT ![e] = RowOf(e)']
  BY <1>1 DEF Rows
<1>3. Rows[e] = RowOf(e)
  BY DEF Rows
<1>4. CASE RowOf(e)' = RowOf(e)
  <2>1. Rows' = Rows
    BY <1>1, <1>4 DEF Rows
  <2> QED
    BY <2>1 DEF PromiseStep
<1>5. CASE RowOf(e)' # RowOf(e)
  <2>1. \/ Promise!Record(e) \/ Promise!Confirm(e) \/ Promise!GiveUp(e)
        \/ Promise!Redrive(e)
    BY <1>2, <1>3, <1>5 DEF Promise!Record, Promise!Confirm, Promise!GiveUp,
       Promise!Redrive, Promise!Become, Rows
  <2> QED
    BY <2>1 DEF PromiseStep, Promise!Next
<1> QED
  BY <1>4, <1>5

LEMMA PublisherAccepts ==
    ASSUME IInv, PublisherStep, outbox' = outbox,
           \/ queue' = queue
           \/ \E e \in Event : /\ queue' = Put(FirstDelivery(e))
                               /\ outbox[e].status # "ABSENT"
    PROVE  PromiseStep
<1>0. TypeOK /\ dlq' = dlq /\ handler' = handler /\ handled' = handled
  BY PublisherQueues DEF IInv
<1>1. Rows' = Rows
  BY DEF Rows, RowOf
<1>2. CASE queue' = queue
  <2>1. Accepted' = Accepted
    BY <1>0, <1>2 DEF Accepted, Kept, Queued, Keeps, Holds, MyEvent
  <2> QED
    BY <1>0, <1>1, <2>1 DEF PromiseStep
<1>3. ASSUME NEW e \in Event, queue' = Put(FirstDelivery(e)),
             outbox[e].status # "ABSENT"
      PROVE  PromiseStep
  <2>1. FirstDelivery(e) \in Msg /\ FirstDelivery(e).event = e
    BY DeliveryAssumption DEF FirstDelivery, Msg, DeliveryAssumption
  <2>2. \A m \in Msg \ {FirstDelivery(e)} : queue'[m] = queue[m]
    BY <1>0, <1>3, <2>1 DEF TypeOK, Put
  <2>3. Queued(e)'
    BY <1>0, <1>3, <2>1, PutKeeps
  <2>4. \A f \in Event \ {e} : f \in Accepted' <=> f \in Accepted
    <3> SUFFICES ASSUME NEW f \in Event \ {e}
                 PROVE  f \in Accepted' <=> f \in Accepted
      OBVIOUS
    <3>1. Queued(f)' <=> Queued(f)
      BY <2>1, <2>2 DEF Queued
    <3>2. \A w \in Worker : Keeps(w, f)' <=> Keeps(w, f)
      BY <1>0 DEF Keeps, Holds, MyEvent
    <3> QED
      BY <1>0, <3>1, <3>2 DEF Accepted, Kept
  <2>5. e \in Accepted'
    BY <2>3 DEF Accepted, Kept
  <2>6. Accepted' = Accepted \cup {e}
    <3>1. Accepted' \subseteq Event /\ Accepted \subseteq Event
      BY DEF Accepted
    <3> QED
      BY <2>4, <2>5, <3>1
  <2>7. Promise!Accept(e)
    <3>1. Rows[e] # "ABSENT"
      BY <1>3 DEF Rows, RowOf
    <3> QED
      BY <1>0, <1>1, <2>6, <3>1 DEF Promise!Accept, Rows
  <2> QED
    BY <2>7 DEF PromiseStep, Promise!Next
<1> QED
  BY <1>2, <1>3

LEMMA PublisherPromises ==
    ASSUME IInv, RowsReal, PublisherStep
    PROVE  PromiseStep
<1>0. TypeOK /\ dlq' = dlq /\ handler' = handler /\ handled' = handled
  BY PublisherQueues DEF IInv
<1>1. ASSUME queue' = queue PROVE Accepted' = Accepted
  BY <1>0, <1>1 DEF Accepted, Kept, Queued, Keeps, Holds, MyEvent
<1>2. PendingRow.status = "PENDING"
  BY DEF PendingRow, NoRow
<1>3. \A e \in Event : Published(e) => e \in Accepted
  BY DEF IInv, NothingLost, Accepted
<1>4. ASSUME NEW i \in Incident, build_and_publish_incident(i) PROVE PromiseStep
  <2>1. <<i, 0>> \in Event /\ <<i, 0>>[1] = i
    BY DeliveryAssumption DEF Event, DeliveryAssumption
  <2>2. /\ outbox' = [outbox EXCEPT ![<<i, 0>>] = PendingRow] /\ queue' = queue
        /\ incident[i] = "ABSENT"
    BY <1>4 DEF build_and_publish_incident
  <2>3. outbox[<<i, 0>>].status = "ABSENT"
    BY <2>1, <2>2 DEF IInv, NoEarlyRow
  <2>4. RowOf(<<i, 0>>) = "ABSENT" /\ RowOf(<<i, 0>>)' = "DUE"
    BY <1>0, <1>2, <2>1, <2>2, <2>3 DEF RowOf, TypeOK
  <2>5. \A f \in Event \ {<<i, 0>>} : outbox'[f] = outbox[f]
    BY <1>0, <2>1, <2>2 DEF TypeOK
  <2> QED
    BY <1>0, <1>1, <2>1, <2>2, <2>4, <2>5, OneRow
<1>5. ASSUME NEW i \in Incident, verify_retry(i) PROVE PromiseStep
  <2>0. verifies[i] \in Nat /\ verifies[i] + 1 < MaxVerify
    BY <1>0, <1>5 DEF verify_retry, TypeOK
  <2>1. PICK e \in Event : /\ e = <<i, verifies[i] + 1>>
                           /\ e[1] = i /\ verifies[e[1]] < e[2]
    <3>1. verifies[i] + 1 \in 0 .. MaxVerify - 1
      BY <2>0, DeliveryAssumption DEF DeliveryAssumption
    <3>2. <<i, verifies[i] + 1>> \in Event
      BY <3>1 DEF Event
    <3>3. verifies[i] < verifies[i] + 1
      BY <2>0
    <3> QED
      BY <3>2, <3>3
  <2>2. outbox' = [outbox EXCEPT ![e] = PendingRow] /\ queue' = queue
    BY <1>5, <2>1 DEF verify_retry, RetryEvent
  <2>3. outbox[e].status = "ABSENT"
    BY <2>1 DEF IInv, NoEarlyRow
  <2>4. RowOf(e) = "ABSENT" /\ RowOf(e)' = "DUE"
    BY <1>0, <1>2, <2>1, <2>2, <2>3 DEF RowOf, TypeOK
  <2>5. \A f \in Event \ {e} : outbox'[f] = outbox[f]
    BY <1>0, <2>1, <2>2 DEF TypeOK
  <2> QED
    BY <1>0, <1>1, <2>1, <2>2, <2>4, <2>5, OneRow
<1>6. ASSUME NEW e \in Event, fast_publish(e) PROVE PromiseStep
  <2>1. outbox[e].status # "ABSENT"
    BY <1>6 DEF fast_publish, RowsReal
  <2>2. outbox' = outbox
        /\ (queue' = queue \/ queue' = Put(FirstDelivery(e)))
    BY <1>6 DEF fast_publish, PublishConfirmed, PublishRaised
  <2> QED
    BY <2>1, <2>2, PublisherAccepts
<1>7. ASSUME NEW e \in Event, mark_published(e) PROVE PromiseStep
  <2>1. e \in Accepted
    BY <1>3, <1>7 DEF mark_published, Published
  <2>2. queue' = queue /\ \A f \in Event \ {e} : outbox'[f] = outbox[f]
    BY <1>0, <1>7 DEF mark_published, TypeOK
  <2>3. RowOf(e)' = RowOf(e) \/ (RowOf(e) = "DUE" /\ RowOf(e)' = "SENT")
    BY <1>0, <1>7 DEF mark_published, TypeOK, OutboxRow, RowOf
  <2> QED
    BY <1>0, <1>1, <2>1, <2>2, <2>3, OneRow
<1>8. ASSUME UNCHANGED outbox, UNCHANGED queue PROVE PromiseStep
  BY <1>8, PublisherAccepts
<1>9. CASE \/ WatcherRestart
           \/ \E i \in Incident : \/ verify_conclusive(i) \/ verify_exhausted(i)
                                  \/ resolve_recovered(i) \/ action_outcome(i)
           \/ \E e \in Event : ExpireConsumerLease(e)
  BY <1>8, <1>9 DEF WatcherRestart, verify_conclusive, verify_exhausted,
     resolve_recovered, action_outcome, ExpireConsumerLease
<1>10. ASSUME NEW e \in Event, ExpireOutboxLease(e) PROVE PromiseStep
  <2>1. queue' = queue /\ \A f \in Event \ {e} : outbox'[f] = outbox[f]
    BY <1>0, <1>10 DEF ExpireOutboxLease, TypeOK
  <2>2. RowOf(e)' = RowOf(e)
    BY <1>0, <1>10 DEF ExpireOutboxLease, TypeOK, OutboxRow, RowOf
  <2> QED
    BY <1>0, <1>1, <2>1, <2>2, OneRow
<1>11. ASSUME NEW d \in Dispatcher, DispatcherStep(d) \/ DispatcherRestart(d)
       PROVE  PromiseStep
  <2>0. PICK e \in Event : e = dispatcher[d].event /\ outbox[e] \in OutboxRow
    BY <1>0 DEF TypeOK, DispatcherState
  <2>1. CASE \/ claim_one_select(d) \/ DispatcherRestart(d)
             \/ \E f \in Event : reconcile_select(d, f)
    BY <1>8, <2>1 DEF claim_one_select, DispatcherRestart, reconcile_select
  <2>2. CASE dispatch_publish_ok(d) \/ dispatch_publish_raises(d)
    <3>1. outbox[e].status # "ABSENT"
      BY <2>0, <2>2 DEF dispatch_publish_ok, dispatch_publish_raises, RowsReal
    <3>2. outbox' = outbox
          /\ (queue' = queue \/ queue' = Put(FirstDelivery(e)))
      BY <2>0, <2>2 DEF dispatch_publish_ok, dispatch_publish_raises,
         PublishConfirmed, PublishRaised
    <3> QED
      BY <2>0, <3>1, <3>2, PublisherAccepts
  <2>3. CASE claim_one_update(d)
    <3>1. queue' = queue /\ \A f \in Event \ {e} : outbox'[f] = outbox[f]
      BY <1>0, <2>0, <2>3 DEF claim_one_update, TypeOK
    <3>2. RowOf(e)' = RowOf(e)
      <4>1. CASE outbox' = outbox
        BY <4>1 DEF RowOf
      <4>2. CASE outbox' # outbox
        <5>1. /\ outbox[e].status \in {"PENDING", "PROCESSING"}
              /\ outbox'[e].status = "PROCESSING"
          BY <1>0, <2>0, <2>3, <4>2 DEF claim_one_update, IInv, ClaimsOpen, TypeOK
        <5> QED
          BY <5>1 DEF RowOf
      <4> QED
        BY <4>1, <4>2
    <3> QED
      BY <1>0, <1>1, <2>0, <3>1, <3>2, OneRow
  <2>4. CASE mark_sent(d) \/ mark_failed(d)
    <3>1. queue' = queue /\ \A f \in Event \ {e} : outbox'[f] = outbox[f]
      BY <1>0, <2>0, <2>4 DEF mark_sent, mark_failed, TypeOK
    <3>2. CASE outbox' = outbox
      BY <1>8, <3>1, <3>2
    <3>3. CASE outbox' # outbox /\ mark_sent(d)
      <4>1. e \in Accepted
        BY <1>3, <2>0, <3>3 DEF mark_sent, Published
      <4>2. outbox[e].status = "PROCESSING" /\ outbox'[e].status = "SENT"
        BY <1>0, <2>0, <3>3 DEF mark_sent, OwnsRow, TypeOK, OutboxRow
      <4>3. RowOf(e) = "DUE" /\ RowOf(e)' = "SENT"
        BY <4>2 DEF RowOf
      <4> QED
        BY <1>0, <1>1, <2>0, <3>1, <4>1, <4>3, OneRow
    <3>4. CASE outbox' # outbox /\ mark_failed(d)
      <4>1. /\ outbox[e].status = "PROCESSING"
            /\ outbox'[e].status \in {"DEAD", "PENDING"}
        BY <1>0, <2>0, <3>4 DEF mark_failed, OwnsRow, TypeOK, OutboxRow
      <4>2. RowOf(e) = "DUE" /\ RowOf(e)' \in {"DUE", "DEAD"}
        BY <4>1 DEF RowOf
      <4> QED
        BY <1>0, <1>1, <2>0, <3>1, <4>2, OneRow
    <3> QED
      BY <2>4, <3>2, <3>3, <3>4
  <2>5. CASE reconcile_write(d)
    <3>1. queue' = queue /\ \A f \in Event \ {e} : outbox'[f] = outbox[f]
      BY <1>0, <2>0, <2>5 DEF reconcile_write, TypeOK
    <3>2. outbox[e].status # "ABSENT"
      BY <2>0, <2>5 DEF reconcile_write, RowsReal
    <3>3. outbox'[e].status = "PENDING"
      <4> DEFINE row == [outbox[e] EXCEPT !.status = "PENDING",
                                          !.attempts = 0, !.lease = "over"]
      <4>1. row.status = "PENDING"
        BY <2>0 DEF OutboxRow
      <4>2. outbox' = [outbox EXCEPT ![e] = row]
        BY <2>0, <2>5 DEF reconcile_write
      <4> HIDE DEF row
      <4> QED
        BY <1>0, <2>0, <4>1, <4>2 DEF TypeOK
    <3>4. RowOf(e)' = "DUE" /\ RowOf(e) \in {"DUE", "DEAD", "SENT"}
      BY <2>0, <3>2, <3>3 DEF RowOf, OutboxRow, OutboxStatus
    <3> QED
      BY <1>0, <1>1, <2>0, <3>1, <3>4, OneRow
  <2> QED
    BY <1>11, <2>1, <2>2, <2>3, <2>4, <2>5 DEF DispatcherStep
<1> QED
  BY <1>4, <1>5, <1>6, <1>7, <1>9, <1>10, <1>11
     DEF PublisherStep, WatcherStep, TimeStep

-----------------------------------------------------------------------------
(* The rows that processes hold stay there.                                *)
LEMMA RowsRealStays ==
    ASSUME IInv, RowsReal, [Next]_vars
    PROVE  RowsReal'
<1>0. TypeOK /\ PendingRow.status = "PENDING" /\ IdleDispatcher.pc = "idle"
  BY DEF IInv, PendingRow, NoRow, IdleDispatcher
<1>1. \A e \in Event : outbox'[e].status = "ABSENT" => outbox[e].status = "ABSENT"
  BY RowsSettle DEF IInv
<1>2. ASSUME NEW e \in Event, watcher'[e] # "idle" PROVE outbox'[e].status # "ABSENT"
  <2>1. CASE watcher[e] # "idle"
    BY <1>1, <2>1 DEF RowsReal
  <2>2. CASE watcher[e] = "idle"
    <3>1. \/ UNCHANGED vars \/ PublisherStep \/ HandlersStep
      BY NextSplits
    <3>2. watcher' # watcher
      BY <1>2, <2>2
    <3>3. WatcherStep
      <4>1. UNCHANGED vars \/ TimeStep => watcher' = watcher
        BY DEF vars, TimeStep, ExpireOutboxLease, ExpireConsumerLease
      <4>2. ASSUME NEW d \in Dispatcher, DispatcherStep(d) \/ DispatcherRestart(d)
            PROVE  watcher' = watcher
        BY <4>2 DEF DispatcherStep, DispatcherRestart, claim_one_select,
           claim_one_update, dispatch_publish_ok, dispatch_publish_raises,
           mark_sent, mark_failed, reconcile_select, reconcile_write
      <4>3. ASSUME NEW w \in Worker,
                   HandlerStep(w) \/ ConsumerRestart(w) \/ LoseConnection(w)
            PROVE  watcher' = watcher
        BY <4>3 DEF HandlerStep, receive, claim_consumer_read,
           claim_consumer_update, load_incident, write_diagnosing, load_raises,
           process_incident, mark_consumer_done, release_consumer, republish,
           give_up, fallback, ack, ack_retry, reject, ConsumerRestart,
           LoseConnection
      <4> QED
        BY <3>1, <3>2, <4>1, <4>2, <4>3 DEF PublisherStep, HandlersStep
    <3>4. ASSUME NEW i \in Incident, NEW f,
                 watcher' = [watcher EXCEPT ![f] = "publish"],
                 outbox' = [outbox EXCEPT ![f] = PendingRow]
          PROVE  outbox'[e].status # "ABSENT"
      <4>1. e = f
        BY <1>0, <1>2, <2>2, <3>4 DEF TypeOK
      <4> QED
        BY <1>0, <3>4, <4>1 DEF TypeOK
    <3>5. ASSUME NEW f \in Event, fast_publish(f) \/ mark_published(f)
          PROVE  FALSE
      <4>1. watcher[f] # "idle"
        BY <3>5 DEF fast_publish, mark_published
      <4>2. \A x \in Event \ {f} : watcher'[x] = watcher[x]
        BY <1>0, <3>5 DEF TypeOK, fast_publish, mark_published
      <4> QED
        BY <1>2, <2>2, <4>1, <4>2
    <3>6. ~WatcherRestart
      BY <1>2 DEF WatcherRestart
    <3>7. PICK i \in Incident : \/ build_and_publish_incident(i) \/ verify_retry(i)
      BY <3>2, <3>3, <3>5, <3>6 DEF WatcherStep, verify_conclusive,
         verify_exhausted, resolve_recovered, action_outcome
    <3> QED
      BY <3>4, <3>7 DEF build_and_publish_incident, verify_retry
  <2> QED
    BY <2>1, <2>2
<1>3. ASSUME NEW x \in Dispatcher, dispatcher'[x].pc # "idle"
      PROVE  outbox'[dispatcher'[x].event].status # "ABSENT"
  <2>0. dispatcher[x] \in DispatcherState
    BY <1>0 DEF TypeOK
  <2>1. ASSUME NEW d \in Dispatcher, NEW e \in Event,
               claim_one_select(d) \/ reconcile_select(d, e)
        PROVE  outbox[dispatcher'[x].event].status # "ABSENT"
               /\ dispatcher'[x].event \in Event
    BY <1>0, <1>3, <2>0, <2>1 DEF claim_one_select, reconcile_select, Claimable,
       Redrivable, RowsReal, TypeOK, DispatcherState
  <2>2. CASE /\ dispatcher'[x].event = dispatcher[x].event
             /\ dispatcher[x].pc # "idle"
    BY <1>1, <2>0, <2>2 DEF RowsReal, DispatcherState
  <2>3. ASSUME NEW d \in Dispatcher,
               \/ claim_one_update(d) \/ mark_sent(d)
               \/ mark_failed(d) \/ dispatch_publish_ok(d)
               \/ dispatch_publish_raises(d) \/ DispatcherRestart(d)
               \/ reconcile_write(d)
        PROVE  /\ dispatcher'[x].event = dispatcher[x].event
               /\ dispatcher[x].pc # "idle"
    <3>1. dispatcher[d].pc # "idle"
      BY <2>3 DEF claim_one_update, mark_sent,
         mark_failed, dispatch_publish_ok, dispatch_publish_raises,
         DispatcherRestart, reconcile_write
    <3>2. CASE Idle(d)
      BY <1>0, <1>3, <3>1, <3>2 DEF Idle, TypeOK
    <3>3. CASE ~Idle(d)
      <4>1. \E step \in {"publish", "sent", "failed"} :
              \/ dispatcher' = [dispatcher EXCEPT ![d].pc = step]
              \/ dispatcher' = [dispatcher EXCEPT ![d].pc = step,
                                                  ![d].seen = "ABSENT"]
        BY <2>3, <3>3 DEF claim_one_update, mark_sent, mark_failed,
           dispatch_publish_ok, dispatch_publish_raises, DispatcherRestart,
           reconcile_write
      <4> QED
        BY <1>0, <1>3, <2>0, <3>1, <4>1 DEF TypeOK, DispatcherState
    <3> QED
      BY <3>2, <3>3
  <2>4. CASE dispatcher' = dispatcher
    BY <1>3, <2>2, <2>4
  <2>5. CASE ~\E d \in Dispatcher : DispatcherStep(d) \/ DispatcherRestart(d)
    <3>1. ASSUME UNCHANGED vars \/ WatcherStep \/ TimeStep
          PROVE  dispatcher' = dispatcher
      BY <3>1 DEF vars, WatcherStep, TimeStep, build_and_publish_incident,
         verify_conclusive, verify_exhausted, verify_retry, resolve_recovered,
         action_outcome, fast_publish, mark_published, WatcherRestart,
         ExpireOutboxLease, ExpireConsumerLease
    <3>2. ASSUME NEW w \in Worker,
                 HandlerStep(w) \/ ConsumerRestart(w) \/ LoseConnection(w)
          PROVE  dispatcher' = dispatcher
      BY <3>2 DEF HandlerStep, receive, claim_consumer_read,
         claim_consumer_update, load_incident, write_diagnosing, load_raises,
         process_incident, mark_consumer_done, release_consumer, republish,
         give_up, fallback, ack, ack_retry, reject, ConsumerRestart,
         LoseConnection
    <3> QED
      BY <2>4, <2>5, <3>1, <3>2 DEF Next, FaultStep
  <2>6. ASSUME NEW d \in Dispatcher, NEW e \in Event,
               claim_one_select(d) \/ reconcile_select(d, e)
        PROVE  outbox'[dispatcher'[x].event].status # "ABSENT"
    BY <1>1, <2>1, <2>6
  <2>7. AnyEvent \in Event
    BY IdleTyped
  <2> QED
    BY <2>2, <2>3, <2>5, <2>6, <2>7 DEF DispatcherStep
<1> QED
  BY <1>2, <1>3 DEF RowsReal

LEMMA HandlerPromises ==
    ASSUME IInv, WorkAccepted, HandlersStep
    PROVE  PromiseStep
<1>1. PICK w \in Worker : HandlerStep(w) \/ ConsumerRestart(w) \/ LoseConnection(w)
  BY DEF HandlersStep
<1>2. outbox' = outbox
  BY <1>1 DEF HandlerStep, receive, claim_consumer_read,
     claim_consumer_update, load_incident, write_diagnosing, load_raises,
     process_incident, mark_consumer_done, release_consumer, republish,
     give_up, fallback, ack, ack_retry, reject, ConsumerRestart, LoseConnection
<1>3. Rows' = Rows
  BY <1>2 DEF Rows, RowOf
<1>4. /\ Accepted' = Accepted
      /\ handled' = handled \/ handled' = handled \cup {MyEvent(w)}
      /\ handled' # handled => MyEvent(w) \in Accepted
  BY <1>1, HandlerAdds
<1>5. CASE handled' = handled
  BY <1>3, <1>4, <1>5 DEF PromiseStep
<1>6. CASE handled' # handled
  <2>1. MyEvent(w) \in Event
    BY <1>1, HandlerData DEF IInv
  <2>2. Promise!Handle(MyEvent(w))
    BY <1>3, <1>4, <1>6 DEF Promise!Handle, Rows
  <2> QED
    BY <2>1, <2>2 DEF PromiseStep, Promise!Next
<1> QED
  BY <1>5, <1>6

LEMMA WorkAcceptedStays ==
    ASSUME IInv, WorkAccepted, [Next]_vars
    PROVE  WorkAccepted'
<1>1. CASE UNCHANGED vars
  BY <1>1 DEF vars, WorkAccepted, Accepted, Kept, Queued, Keeps, Holds, MyEvent
<1>2. CASE PublisherStep
  <2>1. handler' = handler /\ Accepted \subseteq Accepted'
    BY <1>2, PublisherQueues, AcceptedStays DEF IInv
  <2> QED
    BY <2>1 DEF WorkAccepted, MyEvent
<1>3. CASE HandlersStep
  BY <1>3, HandlerAdds DEF HandlersStep
<1> QED
  BY <1>1, <1>2, <1>3, NextSplits

(* The outbox keeps its promise: whichever of the Watcher, the dispatchers *)
(* and the handlers restarts or loses its connection or its lease, every   *)
(* step of the delivery is a step of Outbox or leaves its state alone.     *)
THEOREM OutboxRefined == Spec => OutboxKept
<1> DEFINE RInv == IInv /\ RowsReal /\ WorkAccepted
<1>1. Init => Promise!Init
  <2> SUFFICES ASSUME Init PROVE Promise!Init
    OBVIOUS
  <2>1. Rows = [e \in Event |-> "ABSENT"]
    BY DEF Init, Rows, RowOf, NoRow
  <2>2. IdleHandler.pc = "idle"
    BY DEF IdleHandler
  <2>3. \A e \in Event : ~Kept(e)
    BY <2>2 DEF Init, Kept, Queued, Keeps, Holds
  <2>4. Accepted = {}
    BY <2>3 DEF Accepted, Init
  <2> QED
    BY <2>1, <2>4 DEF Promise!Init, Rows, Init
<1>2. Init => RowsReal /\ WorkAccepted
  BY DEF Init, RowsReal, WorkAccepted, IdleDispatcher, IdleHandler
<1>3. IInv /\ RowsReal /\ WorkAccepted /\ [Next]_vars
        => (RowsReal /\ WorkAccepted)'
  BY RowsRealStays, WorkAcceptedStays
<1>4. IInv /\ RowsReal /\ WorkAccepted /\ [Next]_vars
        => [Promise!Next]_(Promise!vars)
  <2> SUFFICES ASSUME IInv, RowsReal, WorkAccepted, [Next]_vars
               PROVE  Promise!Next \/ UNCHANGED Promise!vars
    OBVIOUS
  <2>1. PromiseStep
    <3>1. CASE UNCHANGED vars
      BY <3>1 DEF vars, PromiseStep, Rows, RowOf, Accepted, Kept, Queued,
         Keeps, Holds, MyEvent
    <3> QED
      BY <3>1, NextSplits, PublisherPromises, HandlerPromises
  <2> QED
    BY <2>1 DEF PromiseStep, Promise!vars, Rows
<1> QED
  BY <1>1, <1>2, <1>3, <1>4, Inductive, PTL DEF Spec, OutboxKept, Promise!Spec
=============================================================================
