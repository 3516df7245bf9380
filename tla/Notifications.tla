---------------------------- MODULE Notifications ----------------------------
(***************************************************************************)
(* Outbound notifications: the durable queue of deliveries, the worker     *)
(* that sends them, and the operator's controls                            *)
(* (na_sso/notifications.py).                                              *)
(*                                                                         *)
(* The worker reads a delivery row, awaits the destination, and then       *)
(* writes the columns that differ from what it read; the operator's        *)
(* handlers write the same rows while it waits.                            *)
(***************************************************************************)
EXTENDS Naturals

CONSTANTS
  Endpoints,    \* webhook destinations of the notification policy
  Email,        \* the e-mail channel
  Events,       \* the events that occur, by dedupe key
  MaxAttempts,  \* policy.max_attempts
  MaxRequeues   \* bound: deliveries requeued by hand

ASSUME NotificationsAssumption ==
  Email \notin Endpoints /\ MaxAttempts \in Nat \ {0} /\ MaxRequeues \in Nat

VARIABLES
  queue,     \* the webhook_deliveries rows
  disabled,  \* the destinations disabled at run time (WebhookEndpointState)
  batch,     \* the deliveries the worker has still to take in this scan
  sending,   \* the delivery that awaits its destination, as a set of at most one
  received,  \* history: the deliveries that reached their destination
  requeued   \* deliveries requeued by hand so far

notifyVars == <<queue, disabled, batch, sending, received, requeued>>

Delivery == (Endpoints \cup {Email}) \X Events
Destination(d) == d[1]

\* "none" stands for a delivery without a row; due for next_attempt_at.
Status == {"none", "pending", "retrying", "delivered", "failed", "disabled"}

Row == [status : Status, attempts : Nat, due : BOOLEAN]

NotifyTypeOK ==
  /\ queue \in [Delivery -> Row]
  /\ disabled \subseteq Endpoints
  /\ batch \subseteq Delivery
  /\ sending \subseteq [id : Delivery, seen : Row]
  /\ \A a, b \in sending : a = b
  /\ received \subseteq Delivery
  /\ requeued \in Nat
-----------------------------------------------------------------------------
Waits(row) == row.status \in {"pending", "retrying"}
Queued == [status |-> "pending", attempts |-> 0, due |-> TRUE]

\* enqueue_notification: one row per active destination that has none yet.
Enqueue(e) ==
  /\ queue' = [d \in Delivery |->
       IF d[2] = e /\ Destination(d) \notin disabled /\ queue[d].status = "none"
       THEN Queued ELSE queue[d]]
  /\ UNCHANGED <<disabled, batch, sending, received, requeued>>

(***************************************************************************)
(* deliver_due_once.                                                       *)
(***************************************************************************)
WorkerIdle == batch = {} /\ sending = {}

\* The rows that wait and whose next_attempt_at has passed, at most 100.
Due == {d \in Delivery : Waits(queue[d]) /\ queue[d].due}

ScanReads(found) ==
  /\ WorkerIdle
  /\ batch' = found
  /\ UNCHANGED <<queue, disabled, sending, received, requeued>>

Scan == \E found \in (SUBSET Due) \ {{}} : ScanReads(found)

\* The row no longer waits.
Skip(d) ==
  /\ sending = {} /\ d \in batch
  /\ ~Waits(queue[d])
  /\ batch' = batch \ {d}
  /\ UNCHANGED <<queue, disabled, sending, received, requeued>>

\* The destination was disabled in the meantime.
Withhold(d) ==
  /\ sending = {} /\ d \in batch
  /\ Waits(queue[d]) /\ Destination(d) \in disabled
  /\ queue' = [queue EXCEPT ![d].status = "disabled", ![d].due = FALSE]
  /\ batch' = batch \ {d}
  /\ UNCHANGED <<disabled, sending, received, requeued>>

\* Mutant of Send: the row leaves the queue before its destination answers.
SendAndForget(d) ==
  /\ sending = {} /\ d \in batch
  /\ Waits(queue[d]) /\ Destination(d) \notin disabled
  /\ sending' = {[id |-> d, seen |-> queue[d]]}
  /\ queue' = [queue EXCEPT ![d].due = FALSE]
  /\ batch' = batch \ {d}
  /\ UNCHANGED <<disabled, received, requeued>>

Send(d) ==
  /\ sending = {} /\ d \in batch
  /\ Waits(queue[d]) /\ Destination(d) \notin disabled
  /\ sending' = {[id |-> d, seen |-> queue[d]]}
  /\ batch' = batch \ {d}
  /\ UNCHANGED <<queue, disabled, received, requeued>>

\* Mutant of Result: a refusal counts as success.
ResultNotRefused(seen, outcome) ==
  IF outcome # "lost" THEN "delivered"
  ELSE IF seen.attempts + 1 >= MaxAttempts THEN "failed" ELSE "retrying"

\* The status after an attempt that ended in outcome.
Result(seen, outcome) ==
  IF outcome = "ok" THEN "delivered"
  ELSE IF seen.attempts + 1 >= MaxAttempts THEN "failed" ELSE "retrying"

\* The commit: a column is written when the worker's value differs from what it
\* read; the attempt count and next_attempt_at always do.
Answered(s, outcome) ==
  LET result == Result(s.seen, outcome)
  IN [queue EXCEPT
        ![s.id].status   = IF result # s.seen.status THEN result ELSE @,
        ![s.id].attempts = s.seen.attempts + 1,
        ![s.id].due      = result = "retrying"]

\* The destination answers with success, it receives the message and the answer
\* is lost, or it does not receive or refuses it.
Outcome == {"ok", "lost", "refused"}

Arrived(s, outcome) ==
  received' = IF outcome \in {"ok", "lost"} THEN received \cup {s.id} ELSE received

DestinationAnswers(s, outcome) ==
  /\ queue' = Answered(s, outcome)
  /\ sending' = {}
  /\ Arrived(s, outcome)
  /\ UNCHANGED <<disabled, batch, requeued>>

Answer == \E s \in sending, outcome \in Outcome : DestinationAnswers(s, outcome)

\* The process stops, or the commit fails and notification_worker drops the rest
\* of the scan: nothing is written, whatever the destination received.
NotifyRestart ==
  /\ batch' = {} /\ sending' = {}
  /\ \/ UNCHANGED received
     \/ \E s \in sending : Arrived(s, "ok")
  /\ UNCHANGED <<queue, disabled, requeued>>

(***************************************************************************)
(* The operator's handlers.                                                *)
(***************************************************************************)
\* Mutant of Disable: the rows that were tried before stay in the queue.
DisablePendingOnly(e) ==
  /\ disabled' = disabled \cup {e}
  /\ queue' = [d \in Delivery |->
       IF Destination(d) = e /\ queue[d].status = "pending"
       THEN [queue[d] EXCEPT !.status = "disabled", !.due = FALSE] ELSE queue[d]]
  /\ UNCHANGED <<batch, sending, received, requeued>>

\* notification_endpoint_toggle.
Disable(e) ==
  /\ disabled' = disabled \cup {e}
  /\ queue' = [d \in Delivery |->
       IF Destination(d) = e /\ Waits(queue[d])
       THEN [queue[d] EXCEPT !.status = "disabled", !.due = FALSE] ELSE queue[d]]
  /\ UNCHANGED <<batch, sending, received, requeued>>

Enable(e) ==
  /\ disabled' = disabled \ {e}
  /\ queue' = [d \in Delivery |->
       IF Destination(d) = e /\ queue[d].status = "disabled"
       THEN [queue[d] EXCEPT !.status = "pending", !.due = TRUE] ELSE queue[d]]
  /\ UNCHANGED <<batch, sending, received, requeued>>

\* notification_delivery_retry.
Requeue(d) ==
  /\ requeued < MaxRequeues /\ requeued' = requeued + 1
  /\ queue[d].status \in {"failed", "disabled"}
  /\ Destination(d) \notin disabled
  /\ queue' = [queue EXCEPT ![d] = Queued]
  /\ UNCHANGED <<disabled, batch, sending, received>>

NotifyInit ==
  /\ queue = [d \in Delivery |-> [status |-> "none", attempts |-> 0, due |-> FALSE]]
  /\ disabled = {} /\ batch = {} /\ sending = {} /\ received = {} /\ requeued = 0

Take(d) == Skip(d) \/ Withhold(d) \/ Send(d)

NotifyNext ==
  \/ \E e \in Events : Enqueue(e)
  \/ Scan
  \/ \E d \in Delivery : Skip(d) \/ Withhold(d) \/ Send(d) \/ Requeue(d)
  \/ Answer
  \/ \E e \in Endpoints : Disable(e) \/ Enable(e)

NotifySpec == NotifyInit /\ [][NotifyNext \/ NotifyRestart]_notifyVars

(***************************************************************************)
(* Fairness: the loop of notification_worker scans every                   *)
(* delivery_scan_seconds, a post has a timeout, and restarts and operators *)
(* do not always come between the same two steps of one delivery.          *)
(***************************************************************************)
ScanReadsDelivery(d) == \E found \in SUBSET Due : d \in found /\ ScanReads(found)

AnswerTo(d) ==
  \E s \in sending, outcome \in Outcome :
    s.id = d /\ DestinationAnswers(s, outcome)

NotifyFairness ==
  \A d \in Delivery :
    /\ SF_notifyVars(ScanReadsDelivery(d))
    /\ SF_notifyVars(Take(d))
    /\ SF_notifyVars(AnswerTo(d))
-----------------------------------------------------------------------------
\* A delivery that waits will be taken up, and has attempts left: neither an
\* operator's control during a post nor a restart leaves one that no scan finds
\* or that is tried beyond the policy.
WaitingIsServed ==
  \A d \in Delivery :
    Waits(queue[d]) => queue[d].due /\ queue[d].attempts < MaxAttempts

\* A destination that is enabled again gets its held deliveries back: none stays
\* disabled for a destination that is not.
HeldOnlyWhileDisabled ==
  \A d \in Delivery :
    queue[d].status = "disabled" => Destination(d) \in disabled

\* A delivery recorded as delivered reached its destination.
DeliveredWasReceived ==
  \A d \in Delivery : queue[d].status = "delivered" => d \in received

\* What the delivery rows say is so, whatever came between a post and its
\* answer: what waits is served, what is held back has to be, and what is
\* delivered was received.
QueueIsTrue == WaitingIsServed /\ HeldOnlyWhileDisabled /\ DeliveredWasReceived

\* A delivered message is not sent again by anything that happens later.
DeliveredStays ==
  [][\A d \in Delivery :
       queue[d].status = "delivered" => queue'[d].status = "delivered"]_notifyVars

\* Every delivery comes to an end, whatever its destination answers.
DeliveryEnds ==
  \A d \in Delivery : Waits(queue[d]) ~> ~Waits(queue[d])
=============================================================================
