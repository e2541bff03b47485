--------------------------- MODULE IncidentDelivery ---------------------------
(***************************************************************************)
(* How one diagnosis request travels from the Watcher's database commit to *)
(* the Worker's diagnosis: the transactional outbox                        *)
(* (shared/incident_outbox.py), the Watcher's post-commit publish, the     *)
(* RabbitMQ queue with its dead-letter queue, and the Worker's message     *)
(* handler (worker/main.py), with processes that restart at any step.      *)
(*                                                                         *)
(* Abstractions.  An event is <<incident, n>>: n = 0 is the first          *)
(* diagnosis ("incident:{id}:diagnose"), n > 0 the n-th verification       *)
(* retry.  A claim token is the Worker that took it.  A lease is live until*)
(* time ends it.  A back-off only delays a row, so a PENDING row is        *)
(* always due.  The queue is a bag: redelivery and requeue lose its order. *)
(* PENDING_APPROVAL stands for every processable status a diagnosis leaves *)
(* behind, RESOLVED for every closed status but FAILED.                    *)
(***************************************************************************)
EXTENDS Naturals

CONSTANTS Incident,        \* Incidents
          Worker,          \* message handlers, one per Worker process
          Dispatcher,      \* outbox dispatchers, one per Worker process
          NoWorker,        \* no claim token
          MAX_ATTEMPTS,    \* publish attempts of an outbox row before DEAD
          MaxRetries,      \* settings.worker_max_retries, clamped to >= 1
          MaxVerify,       \* settings.incident_verify_max_attempts, >= 1
          MaxCopies,       \* bound: copies of a message a publish may queue
          MaxCrashes       \* bound: restarts and connection losses

ASSUME DeliveryAssumption ==
    /\ Incident # {}
    /\ NoWorker \notin Worker \cup Dispatcher
    /\ MAX_ATTEMPTS \in Nat \ {0}
    /\ MaxRetries \in Nat \ {0}
    /\ MaxVerify \in Nat \ {0}
    /\ MaxCopies \in Nat \ {0}
    /\ MaxCrashes \in Nat

VARIABLES incident,    \* [Incident -> status]                 table incidents
          verifies,    \* [Incident -> 0 .. MaxVerify]         verify_attempts
          outbox,      \* [Event -> row]      producer side of incident_outbox
          consumer,    \* [Event -> claim]    consumer side of incident_outbox
          queue,       \* [Msg -> Nat]        ready messages of the queue
          dlq,         \* events dead-lettered
          watcher,     \* [Event -> step]     the Watcher's fast path
          dispatcher,  \* [Dispatcher -> ...] dispatch_due
          handler,     \* [Worker -> ...]     _handle_message
          handled,     \* history: events a handler is through with
          crashes      \* restarts and connection losses so far

vars == <<incident, verifies, outbox, consumer, queue, dlq, watcher,
          dispatcher, handler, crashes, handled>>

-----------------------------------------------------------------------------
Event == Incident \X (0 .. MaxVerify - 1)
Msg == [event : Event, retry : 0 .. MaxRetries - 1]

IncidentStatus == {"ABSENT", "NEW", "DIAGNOSING", "PENDING_APPROVAL",
                   "VERIFYING", "RESOLVED", "FAILED"}
NonProcessable == {"VERIFYING", "RESOLVED", "FAILED"}
Closed == {"RESOLVED", "FAILED"}
OutboxStatus == {"ABSENT", "PENDING", "PROCESSING", "SENT", "DEAD"}
ConsumerStatus == {"PENDING", "PROCESSING", "DONE"}

(* The handler's program counter, one value per place it may be            *)
(* interrupted at.                                                         *)
HandlerPc == {"idle", "claim_read", "claim_update", "load", "write",
              "diagnose", "done", "failed", "republish", "give_up",
              "fallback", "ack", "ack_retry", "reject"}

Lease == {"live", "over"}   \* only a PROCESSING row has a live one
Owner == Worker \cup Dispatcher \cup {NoWorker}
OutboxRow == [status : OutboxStatus, attempts : 0 .. MAX_ATTEMPTS,
              token : Owner, lease : Lease]
ConsumerClaim == [status : ConsumerStatus, token : Owner, lease : Lease]

NoRow == [status |-> "ABSENT", attempts |-> 0, token |-> NoWorker,
          lease |-> "over"]
PendingRow == [NoRow EXCEPT !.status = "PENDING"]
Unclaimed == [status |-> "PENDING", token |-> NoWorker, lease |-> "over"]

(* The dispatcher and the handler keep what they read in local variables,  *)
(* reset here once they are no longer used.                                *)
DispatcherState == [pc : {"idle", "claim_update", "publish", "sent", "failed",
                          "redrive"},
                    event : Event, seen : OutboxStatus]
HandlerState == [pc : HandlerPc, msg : Msg, conn : {"open", "lost"},
                 seenClaim : ConsumerStatus, seenStatus : IncidentStatus]

AnyEvent == CHOOSE e \in Event : TRUE
IdleDispatcher == [pc |-> "idle", event |-> AnyEvent, seen |-> "ABSENT"]
IdleHandler == [pc |-> "idle", msg |-> [event |-> AnyEvent, retry |-> 0],
                conn |-> "open", seenClaim |-> "PENDING",
                seenStatus |-> "ABSENT"]

TypeOK ==
    /\ incident \in [Incident -> IncidentStatus]
    /\ verifies \in [Incident -> 0 .. MaxVerify]
    /\ outbox \in [Event -> OutboxRow]
    /\ consumer \in [Event -> ConsumerClaim]
    /\ queue \in [Msg -> Nat]
    /\ dlq \in SUBSET Event
    /\ watcher \in [Event -> {"idle", "publish", "mark"}]
    /\ dispatcher \in [Dispatcher -> DispatcherState]
    /\ handler \in [Worker -> HandlerState]
    /\ handled \in SUBSET Event
    /\ crashes \in 0 .. MaxCrashes

Init ==
    /\ incident = [i \in Incident |-> "ABSENT"]
    /\ verifies = [i \in Incident |-> 0]
    /\ outbox = [e \in Event |-> NoRow]
    /\ consumer = [e \in Event |-> Unclaimed]
    /\ queue = [m \in Msg |-> 0]
    /\ dlq = {}
    /\ watcher = [e \in Event |-> "idle"]
    /\ dispatcher = [d \in Dispatcher |-> IdleDispatcher]
    /\ handler = [w \in Worker |-> IdleHandler]
    /\ handled = {}
    /\ crashes = 0

-----------------------------------------------------------------------------
(* Shorthands for the steps of one process.                                *)
Goto(w, step) == handler' = [handler EXCEPT ![w].pc = step]
Finish(w) == handler' = [handler EXCEPT ![w] = IdleHandler]
Idle(d) == dispatcher' = [dispatcher EXCEPT ![d] = IdleDispatcher]

Put(m) == [queue EXCEPT ![m] = @ + 1]
HasRoom(m) == queue[m] < MaxCopies

FirstDelivery(e) == [event |-> e, retry |-> 0]
MyEvent(w) == handler[w].msg.event
MyIncident(w) == MyEvent(w)[1]

-----------------------------------------------------------------------------
(* The Watcher and the operators.                                          *)

(* build_and_publish_incident: the Incident and its outbox row commit in   *)
(* one transaction; the publish comes after the commit.                    *)
build_and_publish_incident(i) ==
    /\ incident[i] = "ABSENT"
    /\ incident' = [incident EXCEPT ![i] = "NEW"]
    /\ outbox' = [outbox EXCEPT ![<<i, 0>>] = PendingRow]
    /\ watcher' = [watcher EXCEPT ![<<i, 0>>] = "publish"]
    /\ UNCHANGED <<verifies, consumer, queue, dlq, dispatcher, handler,
                   crashes, handled>>

(* verify_pending_incidents: the post-check passed or is inconclusive, the *)
(* fault is still there on the last attempt (MaxVerify bounds the count),  *)
(* or the Incident goes back to diagnosis with a new event.                *)
verify_conclusive(i) ==
    /\ incident[i] = "VERIFYING"
    /\ \E outcome \in Closed : incident' = [incident EXCEPT ![i] = outcome]
    /\ UNCHANGED <<verifies, outbox, consumer, queue, dlq, watcher,
                   dispatcher, handler, crashes, handled>>

verify_exhausted(i) ==
    /\ incident[i] = "VERIFYING"
    /\ verifies[i] + 1 >= MaxVerify
    /\ verifies' = [verifies EXCEPT ![i] = MaxVerify]
    /\ incident' = [incident EXCEPT ![i] = "FAILED"]
    /\ UNCHANGED <<outbox, consumer, queue, dlq, watcher, dispatcher, handler,
                   crashes, handled>>

RetryEvent(i) == <<i, verifies[i] + 1>>

verify_retry(i) ==
    LET e == RetryEvent(i)
    IN /\ incident[i] = "VERIFYING"
       /\ verifies[i] + 1 < MaxVerify
       /\ verifies' = [verifies EXCEPT ![i] = @ + 1]
       /\ incident' = [incident EXCEPT ![i] = "DIAGNOSING"]
       /\ outbox' = [outbox EXCEPT ![e] = PendingRow]
       /\ watcher' = [watcher EXCEPT ![e] = "publish"]
       /\ UNCHANGED <<consumer, queue, dlq, dispatcher, handler, crashes,
                      handled>>

(* _resolve_recovered_incidents: the fault has left Ceph's health.         *)
resolve_recovered(i) ==
    /\ incident[i] \in {"NEW", "DIAGNOSING", "PENDING_APPROVAL", "FAILED"}
    /\ incident' = [incident EXCEPT ![i] = "RESOLVED"]
    /\ UNCHANGED <<verifies, outbox, consumer, queue, dlq, watcher,
                   dispatcher, handler, crashes, handled>>

(* What approval and execution do to an Incident that was diagnosed.       *)
action_outcome(i) ==
    /\ incident[i] = "PENDING_APPROVAL"
    /\ \E s \in NonProcessable : incident' = [incident EXCEPT ![i] = s]
    /\ UNCHANGED <<verifies, outbox, consumer, queue, dlq, watcher,
                   dispatcher, handler, crashes, handled>>

(* A publish returns once the broker confirmed the message; when it raises *)
(* the broker may have taken the message all the same.                     *)
PublishConfirmed(m) == HasRoom(m) /\ queue' = Put(m)
PublishRaised(m) == UNCHANGED queue \/ (HasRoom(m) /\ queue' = Put(m))

(* _publish_all, publish half.                                             *)
fast_publish(e) ==
    /\ watcher[e] = "publish"
    /\ \/ /\ PublishConfirmed(FirstDelivery(e))
          /\ watcher' = [watcher EXCEPT ![e] = "mark"]
       \/ /\ PublishRaised(FirstDelivery(e))
          /\ watcher' = [watcher EXCEPT ![e] = "idle"]
    /\ UNCHANGED <<incident, verifies, outbox, consumer, dlq, dispatcher,
                   handler, crashes, handled>>

(* mark_published: a row the dispatcher claimed meanwhile is left alone.   *)
mark_published(e) ==
    /\ watcher[e] = "mark"
    /\ watcher' = [watcher EXCEPT ![e] = "idle"]
    /\ outbox' = IF outbox[e].status = "PENDING"
                 THEN [outbox EXCEPT ![e].status = "SENT"]
                 ELSE outbox
    /\ UNCHANGED <<incident, verifies, consumer, queue, dlq, dispatcher,
                   handler, crashes, handled>>

(* The Watcher forgets what it was about to publish.                       *)
WatcherRestart ==
    /\ \E e \in Event : watcher[e] # "idle"
    /\ watcher' = [e \in Event |-> "idle"]
    /\ UNCHANGED <<incident, verifies, outbox, consumer, queue, dlq,
                   dispatcher, handler, crashes, handled>>

-----------------------------------------------------------------------------
(* dispatch_due.                                                            *)

Claimable(e) ==
    \/ outbox[e].status = "PENDING"
    \/ outbox[e].status = "PROCESSING" /\ outbox[e].lease = "over"

(* _claim_one, SELECT of a due candidate.                                  *)
claim_one_select(d) ==
    /\ dispatcher[d].pc = "idle"
    /\ \E e \in Event :
         /\ Claimable(e)
         /\ dispatcher' = [dispatcher EXCEPT ![d] =
              [pc |-> "claim_update", event |-> e, seen |-> outbox[e].status]]
    /\ UNCHANGED <<incident, verifies, outbox, consumer, queue, dlq, watcher,
                   handler, crashes, handled>>

(* _claim_one, UPDATE guarded by the status the SELECT saw.  MAX_ATTEMPTS  *)
(* bounds the count: no larger one is told apart from it.                  *)
claim_one_update(d) ==
    LET e == dispatcher[d].event
    IN /\ dispatcher[d].pc = "claim_update"
       /\ \/ /\ outbox[e].status = dispatcher[d].seen
             /\ outbox' = [outbox EXCEPT ![e] =
                  [status |-> "PROCESSING", token |-> d, lease |-> "live",
                   attempts |-> IF @.attempts < MAX_ATTEMPTS
                                THEN @.attempts + 1 ELSE MAX_ATTEMPTS]]
             /\ dispatcher' = [dispatcher EXCEPT ![d].pc = "publish",
                                                 ![d].seen = "ABSENT"]
          \/ /\ outbox[e].status # dispatcher[d].seen
             /\ Idle(d)
             /\ UNCHANGED outbox
       /\ UNCHANGED <<incident, verifies, consumer, queue, dlq, watcher,
                      handler, crashes, handled>>

dispatch_publish_ok(d) ==
    /\ dispatcher[d].pc = "publish"
    /\ PublishConfirmed(FirstDelivery(dispatcher[d].event))
    /\ dispatcher' = [dispatcher EXCEPT ![d].pc = "sent"]
    /\ UNCHANGED <<incident, verifies, outbox, consumer, dlq, watcher,
                   handler, crashes, handled>>

dispatch_publish_raises(d) ==
    /\ dispatcher[d].pc = "publish"
    /\ PublishRaised(FirstDelivery(dispatcher[d].event))
    /\ dispatcher' = [dispatcher EXCEPT ![d].pc = "failed"]
    /\ UNCHANGED <<incident, verifies, outbox, consumer, dlq, watcher,
                   handler, crashes, handled>>

(* _mark_sent and _mark_failed act only on the claim they were given.      *)
OwnsRowUnchecked(d, e) == TRUE                   \* mutant of OwnsRow
OwnsRow(d, e) == outbox[e].token = d /\ outbox[e].status = "PROCESSING"

mark_sent(d) ==
    LET e == dispatcher[d].event
    IN /\ dispatcher[d].pc = "sent"
       /\ outbox' = IF OwnsRow(d, e)
                    THEN [outbox EXCEPT ![e].status = "SENT",
                                        ![e].lease = "over"]
                    ELSE outbox
       /\ Idle(d)
       /\ UNCHANGED <<incident, verifies, consumer, queue, dlq, watcher,
                      handler, crashes, handled>>

mark_failed(d) ==
    LET e == dispatcher[d].event
        next == IF outbox[e].attempts >= MAX_ATTEMPTS THEN "DEAD" ELSE "PENDING"
    IN /\ dispatcher[d].pc = "failed"
       /\ outbox' = IF OwnsRow(d, e)
                    THEN [outbox EXCEPT ![e].status = next,
                                        ![e].lease = "over"]
                    ELSE outbox
       /\ Idle(d)
       /\ UNCHANGED <<incident, verifies, consumer, queue, dlq, watcher,
                      handler, crashes, handled>>

(* CLAIM_LEASE_SECONDS pass while the row is PROCESSING.                   *)
ExpireOutboxLease(e) ==
    /\ outbox[e].status = "PROCESSING" /\ outbox[e].lease = "live"
    /\ outbox' = [outbox EXCEPT ![e].lease = "over"]
    /\ UNCHANGED <<incident, verifies, consumer, queue, dlq, watcher,
                   dispatcher, handler, crashes, handled>>

(* reconcile_stale, in the dispatcher's loop: a DEAD row of an Incident    *)
(* still NEW starts again, an hour after its last failure.  The write does *)
(* not look at what became of the row that was read DEAD.                  *)
RedrivableLate(e) ==                             \* mutant of Redrivable
    incident[e[1]] = "DIAGNOSING" /\ outbox[e].status = "DEAD"
Redrivable(e) == incident[e[1]] = "NEW" /\ outbox[e].status = "DEAD"

reconcile_select(d, e) ==
    /\ dispatcher[d].pc = "idle"
    /\ Redrivable(e)
    /\ dispatcher' = [dispatcher EXCEPT ![d].pc = "redrive", ![d].event = e]
    /\ UNCHANGED <<incident, verifies, outbox, consumer, queue, dlq, watcher,
                   handler, crashes, handled>>

reconcile_write(d) ==
    LET e == dispatcher[d].event
    IN /\ dispatcher[d].pc = "redrive"
       /\ outbox' = [outbox EXCEPT ![e].status = "PENDING", ![e].attempts = 0,
                                   ![e].lease = "over"]
       /\ Idle(d)
       /\ UNCHANGED <<incident, verifies, consumer, queue, dlq, watcher,
                      handler, crashes, handled>>

DispatcherRestart(d) ==
    /\ dispatcher[d].pc # "idle"
    /\ crashes < MaxCrashes
    /\ crashes' = crashes + 1
    /\ Idle(d)
    /\ UNCHANGED <<incident, verifies, outbox, consumer, queue, dlq, watcher,
                   handler, handled>>

-----------------------------------------------------------------------------
(* _handle_message_without_context, one handler per Worker (prefetch 1).   *)

(* Give the message back; a handler whose channel is gone no longer has    *)
(* it, because the broker already made it ready again.                     *)
RequeuedNever(w) == queue                        \* mutant of Requeued
Requeued(w) == IF handler[w].conn = "open" THEN Put(handler[w].msg) ELSE queue

receive(w, m) ==
    /\ handler[w].pc = "idle"
    /\ queue[m] > 0
    /\ queue' = [queue EXCEPT ![m] = @ - 1]
    /\ handler' = [handler EXCEPT ![w] =
                     [IdleHandler EXCEPT !.pc = "claim_read", !.msg = m]]
    /\ UNCHANGED <<incident, verifies, outbox, consumer, dlq, watcher,
                   dispatcher, crashes, handled>>

(* claim_consumer, SELECT: DONE is acknowledged, a live claim is BUSY.     *)
BusyForever(claim) == claim.status = "PROCESSING" \* mutant of Busy
Busy(claim) == claim.status = "PROCESSING" /\ claim.lease = "live"

claim_consumer_read(w) ==
    LET claim == consumer[MyEvent(w)]
    IN /\ handler[w].pc = "claim_read"
       /\ \/ /\ claim.status = "DONE"
             /\ Goto(w, "ack")
             /\ UNCHANGED queue
          \/ /\ Busy(claim)
             /\ queue' = Requeued(w)
             /\ Finish(w)
          \/ /\ claim.status # "DONE" /\ ~Busy(claim)
             /\ handler' = [handler EXCEPT ![w].pc = "claim_update",
                                           ![w].seenClaim = claim.status]
             /\ UNCHANGED queue
       /\ UNCHANGED <<incident, verifies, outbox, consumer, dlq, watcher,
                      dispatcher, crashes, handled>>

(* claim_consumer, UPDATE guarded by the status the SELECT saw.            *)
claim_consumer_update(w) ==
    LET e == MyEvent(w)
    IN /\ handler[w].pc = "claim_update"
       /\ \/ /\ consumer[e].status = handler[w].seenClaim
             /\ consumer' = [consumer EXCEPT ![e] =
                  [status |-> "PROCESSING", token |-> w, lease |-> "live"]]
             /\ handler' = [handler EXCEPT ![w].pc = "load",
                                           ![w].seenClaim = "PENDING"]
             /\ UNCHANGED queue
          \/ /\ consumer[e].status # handler[w].seenClaim
             /\ queue' = Requeued(w)
             /\ Finish(w)
             /\ UNCHANGED consumer
       /\ UNCHANGED <<incident, verifies, outbox, dlq, watcher, dispatcher,
                      crashes, handled>>

OwnsClaim(w, e) == consumer[e].token = w /\ consumer[e].status = "PROCESSING"

(* mark_consumer_done and release_consumer, without effect once another    *)
(* handler took the claim.                                                 *)
MarkSent(w, e) ==                                \* mutant of MarkDone
    consumer' = IF OwnsClaim(w, e)
                THEN [consumer EXCEPT ![e].status = "SENT"] ELSE consumer
MarkDone(w, e) ==
    consumer' = IF OwnsClaim(w, e)
                THEN [consumer EXCEPT ![e] = [status |-> "DONE",
                        token |-> NoWorker, lease |-> "over"]]
                ELSE consumer
Release(w, e) ==
    consumer' = IF OwnsClaim(w, e)
                THEN [consumer EXCEPT ![e] = Unclaimed]
                ELSE consumer

(* The status check before the diagnosis.                                  *)
load_incident(w) ==
    /\ handler[w].pc = "load"
    /\ LET status == incident[MyIncident(w)]
       IN handler' = [handler EXCEPT
            ![w].pc = IF status \in NonProcessable THEN "done" ELSE "write",
            ![w].seenStatus = IF status \in NonProcessable THEN "ABSENT"
                              ELSE status]
    /\ handled' = IF incident[MyIncident(w)] \in NonProcessable
                  THEN handled \cup {MyEvent(w)} ELSE handled
    /\ UNCHANGED <<incident, verifies, outbox, consumer, queue, dlq, watcher,
                   dispatcher, crashes>>

(* status = DIAGNOSING and commit, unconditional in the database.  The ORM *)
(* writes nothing when the row it loaded was DIAGNOSING, unless a failed   *)
(* grouping rolled the load back.                                          *)
write_diagnosing(w) ==
    /\ handler[w].pc = "write"
    /\ \/ incident' = [incident EXCEPT ![MyIncident(w)] = "DIAGNOSING"]
       \/ handler[w].seenStatus = "DIAGNOSING" /\ UNCHANGED incident
    /\ handler' = [handler EXCEPT ![w].pc = "diagnose",
                                  ![w].seenStatus = "ABSENT"]
    /\ UNCHANGED <<verifies, outbox, consumer, queue, dlq, watcher,
                   dispatcher, crashes, handled>>

(* A database error on the way to DIAGNOSING: release and dead-letter.     *)
load_raises(w) ==
    /\ handler[w].pc \in {"load", "write"}
    /\ Release(w, MyEvent(w))
    /\ handler' = [handler EXCEPT ![w].pc = "reject",
                                  ![w].seenStatus = "ABSENT"]
    /\ UNCHANGED <<incident, verifies, outbox, queue, dlq, watcher,
                   dispatcher, crashes, handled>>

(* process_incident: what the diagnosis may leave the Incident in, then a  *)
(* normal return or an exception.                                          *)
process_incident(w) ==
    /\ handler[w].pc = "diagnose"
    /\ \/ UNCHANGED incident
       \/ \E s \in {"PENDING_APPROVAL", "VERIFYING", "FAILED"} :
            incident' = [incident EXCEPT ![MyIncident(w)] = s]
    /\ \/ Goto(w, "done") /\ handled' = handled \cup {MyEvent(w)}
       \/ Goto(w, "failed") /\ UNCHANGED handled
    /\ UNCHANGED <<verifies, outbox, consumer, queue, dlq, watcher,
                   dispatcher, crashes>>

mark_consumer_done(w) ==
    /\ handler[w].pc = "done"
    /\ MarkDone(w, MyEvent(w))
    /\ Goto(w, "ack")
    /\ UNCHANGED <<incident, verifies, outbox, queue, dlq, watcher,
                   dispatcher, crashes, handled>>

release_consumer(w) ==
    /\ handler[w].pc = "failed"
    /\ Release(w, MyEvent(w))
    /\ Goto(w, IF handler[w].msg.retry + 1 >= MaxRetries
               THEN "give_up" ELSE "republish")
    /\ UNCHANGED <<incident, verifies, outbox, queue, dlq, watcher,
                   dispatcher, crashes, handled>>

(* _republish_with_incremented_retry.                                      *)
RepublishFailedUnnoticed(w) == Goto(w, "ack_retry") \* mutant of the next
RepublishFailed(w) == Goto(w, "fallback")

republish(w) ==
    LET m == [handler[w].msg EXCEPT !.retry = @ + 1]
    IN /\ handler[w].pc = "republish"
       /\ \/ PublishConfirmed(m) /\ Goto(w, "ack_retry")
          \/ PublishRaised(m) /\ RepublishFailed(w)
       /\ UNCHANGED <<incident, verifies, outbox, consumer, dlq, watcher,
                      dispatcher, crashes, handled>>

(* _set_incident_status(FAILED), unconditional.                            *)
give_up(w) ==
    /\ handler[w].pc = "give_up"
    /\ incident' = [incident EXCEPT ![MyIncident(w)] = "FAILED"]
    /\ Goto(w, "reject")
    /\ UNCHANGED <<verifies, outbox, consumer, queue, dlq, watcher,
                   dispatcher, crashes, handled>>

(* The recovery path itself failed: FAILED if the database takes it, then  *)
(* dead-letter.                                                            *)
fallback(w) ==
    /\ handler[w].pc = "fallback"
    /\ \/ incident' = [incident EXCEPT ![MyIncident(w)] = "FAILED"]
       \/ UNCHANGED incident
    /\ Goto(w, "reject")
    /\ UNCHANGED <<verifies, outbox, consumer, queue, dlq, watcher,
                   dispatcher, crashes, handled>>

(* ack() after a finished message; an exception is only logged.            *)
ack(w) ==
    /\ handler[w].pc = "ack"
    /\ Finish(w)
    /\ UNCHANGED <<incident, verifies, outbox, consumer, queue, dlq, watcher,
                   dispatcher, crashes, handled>>

(* ack() after a republish; an exception is a failure of the recovery.     *)
ack_retry(w) ==
    /\ handler[w].pc = "ack_retry"
    /\ \/ handler[w].conn = "open" /\ Finish(w)
       \/ handler[w].conn = "lost" /\ Goto(w, "fallback")
    /\ UNCHANGED <<incident, verifies, outbox, consumer, queue, dlq, watcher,
                   dispatcher, crashes, handled>>

(* reject(requeue=False).                                                  *)
reject(w) ==
    /\ handler[w].pc = "reject"
    /\ dlq' = IF handler[w].conn = "open" THEN dlq \cup {MyEvent(w)} ELSE dlq
    /\ Finish(w)
    /\ UNCHANGED <<incident, verifies, outbox, consumer, queue, watcher,
                   dispatcher, crashes, handled>>

(* CONSUMER_CLAIM_LEASE_SECONDS pass; the handler may still be running.    *)
ExpireConsumerLease(e) ==
    /\ consumer[e].status = "PROCESSING" /\ consumer[e].lease = "live"
    /\ consumer' = [consumer EXCEPT ![e].lease = "over"]
    /\ UNCHANGED <<incident, verifies, outbox, queue, dlq, watcher,
                   dispatcher, handler, crashes, handled>>

(* The consumer dies, or _supervise restarts it: the channel closes and    *)
(* the broker makes the unacknowledged message ready again.                *)
ConsumerRestart(w) ==
    /\ handler[w].pc # "idle"
    /\ crashes < MaxCrashes
    /\ crashes' = crashes + 1
    /\ queue' = Requeued(w)
    /\ Finish(w)
    /\ UNCHANGED <<incident, verifies, outbox, consumer, dlq, watcher,
                   dispatcher, handled>>

(* The channel is lost and the handler does not notice: the message is     *)
(* ready again while the handler works on.                                 *)
LoseConnection(w) ==
    /\ handler[w].pc # "idle" /\ handler[w].conn = "open"
    /\ crashes < MaxCrashes
    /\ crashes' = crashes + 1
    /\ queue' = Put(handler[w].msg)
    /\ handler' = [handler EXCEPT ![w].conn = "lost"]
    /\ UNCHANGED <<incident, verifies, outbox, consumer, dlq, watcher,
                   dispatcher, handled>>

-----------------------------------------------------------------------------
WatcherStep ==
    \/ \E i \in Incident : \/ build_and_publish_incident(i)
                           \/ verify_conclusive(i)
                           \/ verify_exhausted(i)
                           \/ verify_retry(i)
                           \/ resolve_recovered(i)
                           \/ action_outcome(i)
    \/ \E e \in Event : fast_publish(e) \/ mark_published(e)
    \/ WatcherRestart

DispatcherStep(d) ==
    \/ claim_one_select(d)
    \/ claim_one_update(d)
    \/ dispatch_publish_ok(d)
    \/ dispatch_publish_raises(d)
    \/ mark_sent(d)
    \/ mark_failed(d)
    \/ \E e \in Event : reconcile_select(d, e)
    \/ reconcile_write(d)

HandlerStep(w) ==
    \/ \E m \in Msg : receive(w, m)
    \/ claim_consumer_read(w)
    \/ claim_consumer_update(w)
    \/ load_incident(w)
    \/ write_diagnosing(w)
    \/ load_raises(w)
    \/ process_incident(w)
    \/ mark_consumer_done(w)
    \/ release_consumer(w)
    \/ republish(w)
    \/ give_up(w)
    \/ fallback(w)
    \/ ack(w)
    \/ ack_retry(w)
    \/ reject(w)

TimeStep ==
    \E e \in Event : ExpireOutboxLease(e) \/ ExpireConsumerLease(e)

FaultStep ==
    \/ \E d \in Dispatcher : DispatcherRestart(d)
    \/ \E w \in Worker : ConsumerRestart(w) \/ LoseConnection(w)

Next ==
    \/ WatcherStep
    \/ \E d \in Dispatcher : DispatcherStep(d)
    \/ \E w \in Worker : HandlerStep(w)
    \/ TimeStep
    \/ FaultStep

Spec == Init /\ [][Next]_vars

(* _supervise restarts every loop of the Worker, so each loop that can     *)
(* take a step takes one; time passes; the outbox loop reconciles once a   *)
(* minute, whatever else it dispatches; and the broker is not down forever:*)
(* a dispatcher that keeps publishing is confirmed sometimes.              *)
Fairness ==
    /\ \A d \in Dispatcher :
         /\ WF_vars(DispatcherStep(d))
         /\ SF_vars(dispatch_publish_ok(d))
         /\ \A e \in Event : SF_vars(reconcile_select(d, e))
    /\ \A w \in Worker : WF_vars(HandlerStep(w))
    /\ \A e \in Event : /\ WF_vars(ExpireOutboxLease(e))
                        /\ WF_vars(ExpireConsumerLease(e))

FairSpec == Spec /\ Fairness
-----------------------------------------------------------------------------
(* Properties.                                                             *)

(* A publisher holds the broker's confirmation for e, or the row says so.  *)
Published(e) ==
    \/ outbox[e].status = "SENT"
    \/ watcher[e] = "mark"
    \/ \E d \in Dispatcher :
         dispatcher[d].pc = "sent" /\ dispatcher[d].event = e

Queued(e) == \E m \in Msg : m.event = e /\ queue[m] > 0

(* w has an unacknowledged delivery of e.                                  *)
Holds(w, e) ==
    handler[w].pc # "idle" /\ handler[w].conn = "open" /\ MyEvent(w) = e

InSystem(e) == Queued(e) \/ e \in dlq \/ \E w \in Worker : Holds(w, e)

(* "Never drop silently" (the handler's docstring): an event whose publish *)
(* was confirmed has been handled, or the broker still has it, ready,      *)
(* unacknowledged or dead-lettered.                                        *)
NoSilentLoss ==
    \A e \in Event : Published(e) => e \in handled \/ InSystem(e)

(* The promise of the outbox, kept through claims, leases, restarts and    *)
(* duplicates.  A row under claim is still due; the broker has accepted    *)
(* what was handled or is somewhere it will be delivered from: ready, dead-*)
(* lettered, or unacknowledged by a handler that is not yet about to       *)
(* acknowledge it.                                                         *)
Keeps(w, e) == Holds(w, e) /\ handler[w].pc \notin {"ack", "ack_retry"}
Kept(e) == Queued(e) \/ e \in dlq \/ \E w \in Worker : Keeps(w, e)
Accepted == {e \in Event : e \in handled \/ Kept(e)}

RowOf(e) == IF outbox[e].status \in {"PENDING", "PROCESSING"} THEN "DUE"
            ELSE outbox[e].status

Promise == INSTANCE Outbox WITH row <- [e \in Event |-> RowOf(e)],
                                accepted <- Accepted,
                                done <- handled

OutboxKept == Promise!Spec

(* Neither a late dispatcher nor a late handler, whose claim another took  *)
(* over, undoes a SENT row or a DONE claim; only a reconciler that read    *)
(* the row while it was still DEAD may have it sent once more.             *)
Redriving(e) ==
    \E d \in Dispatcher :
      dispatcher[d].pc = "redrive" /\ dispatcher[d].event = e

SettledIsFinal ==
    [][\A e \in Event :
         /\ outbox[e].status = "SENT" /\ ~Redriving(e)
              => outbox'[e].status = "SENT"
         /\ consumer[e].status = "DONE" => consumer'[e].status = "DONE"]_vars

(* A committed Incident does not stay NEW, whatever the broker does in     *)
(* between: it is diagnosed, closed, or visible in the dead-letter queue.  *)
NewIncidentDiagnosed ==
    \A i \in Incident :
      incident[i] = "NEW" ~> (incident[i] # "NEW" \/ <<i, 0>> \in dlq)

(* An event that was sent is eventually done or dead-lettered, whichever   *)
(* handler restarts or loses its lease on the way.                         *)
SentEventuallySettled ==
    \A e \in Event :
      outbox[e].status = "SENT" ~> (consumer[e].status = "DONE" \/ e \in dlq)
=============================================================================
