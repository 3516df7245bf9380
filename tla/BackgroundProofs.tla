-------------------------- MODULE BackgroundProofs --------------------------
(***************************************************************************)
(* Theorems about the work behind the pages (MCBackground): Notifications  *)
(* and TargetCredentials for any destinations, events, targets and bounds, *)
(* and SshKeys for any keys, dates and number of operations in between.    *)
(***************************************************************************)
EXTENDS Notifications, TargetCredentials, SshKeys, TLAPS
-----------------------------------------------------------------------------
(***************************************************************************)
(* Notifications.                                                          *)
(***************************************************************************)
\* A row that may still be sent has attempts left; one that waits is found by a
\* scan.
RowServed(row) ==
  /\ row.status \in {"pending", "retrying", "disabled"} => row.attempts < MaxAttempts
  /\ Waits(row) => row.due

\* The delivery in flight was waiting when it was read and is not recorded as
\* delivered until its destination answers.
InFlight ==
  \A s \in sending :
    /\ Waits(s.seen) /\ s.seen.attempts < MaxAttempts
    /\ queue[s.id].status # "delivered"

NotifyInv ==
  /\ NotifyTypeOK
  /\ \A d \in Delivery : RowServed(queue[d])
  /\ HeldOnlyWhileDisabled
  /\ DeliveredWasReceived
  /\ InFlight

\* The queue starts without rows.
LEMMA NotifyStarts == NotifyInit => NotifyInv
<1> SUFFICES ASSUME NotifyInit PROVE NotifyInv
  OBVIOUS
<1> USE DEF NotifyInit
<1>1. \A d \in Delivery : queue[d] = [status |-> "none", attempts |-> 0, due |-> FALSE]
  OBVIOUS
<1>2. NotifyTypeOK
  BY DEF NotifyTypeOK, Row, Status
<1>3. QED
  BY <1>1, <1>2 DEF NotifyInv, RowServed, Waits, HeldOnlyWhileDisabled,
     DeliveredWasReceived, InFlight

\* A step of the worker or the operator that waits for no destination: each row
\* stays, or becomes one the invariant admits, and none that is delivered moves.
DeliveredKept ==
  \A d \in Delivery :
    queue[d].status = "delivered" => queue'[d].status = "delivered"

Calm(row, next) ==
  /\ next \in Row
  /\ RowServed(next)
  /\ row.status = "delivered" => next.status = "delivered"
  /\ next.status = "delivered" => row.status = "delivered"

\* What a step must show when it changes neither the history nor what is in
\* flight, unless it takes up a delivery that waits.
LEMMA CalmStep ==
  ASSUME NotifyInv,
         queue' \in [Delivery -> Row],
         \A d \in Delivery : Calm(queue[d], queue'[d]),
         HeldOnlyWhileDisabled',
         disabled' \subseteq Endpoints,
         batch' \subseteq Delivery,
         requeued' \in Nat,
         received' \in SUBSET Delivery, received \subseteq received',
         sending' \subseteq sending
  PROVE  NotifyInv' /\ DeliveredKept
<1>1. NotifyTypeOK'
  BY DEF NotifyInv, NotifyTypeOK
<1>2. (\A d \in Delivery : RowServed(queue[d]))'
  BY DEF Calm, RowServed
<1>3. DeliveredWasReceived'
  BY DEF NotifyInv, DeliveredWasReceived, Calm
<1>4. InFlight'
  BY DEF NotifyInv, NotifyTypeOK, InFlight, Calm, Waits
<1>5. DeliveredKept
  BY DEF DeliveredKept, Calm
<1>6. QED
  BY <1>1, <1>2, <1>3, <1>4, <1>5 DEF NotifyInv

\* A row that stays is calm.
LEMMA StillRow ==
  ASSUME NotifyInv, NEW d \in Delivery
  PROVE  Calm(queue[d], queue[d])
BY DEF NotifyInv, NotifyTypeOK, Calm

\* A freshly queued row is served.
LEMMA QueuedServed == Queued \in Row /\ RowServed(Queued) /\ Queued.status = "pending"
BY NotificationsAssumption DEF Queued, Row, Status, RowServed, Waits

\* A held row: it keeps its attempts and is no longer due.
LEMMA HeldRow ==
  ASSUME NEW row \in Row, RowServed(row), Waits(row)
  PROVE  /\ [row EXCEPT !.status = "disabled", !.due = FALSE] \in Row
         /\ RowServed([row EXCEPT !.status = "disabled", !.due = FALSE])
         /\ Calm(row, [row EXCEPT !.status = "disabled", !.due = FALSE])
BY DEF Row, Status, RowServed, Waits, Calm

\* A held row that is released.
LEMMA ReleasedRow ==
  ASSUME NEW row \in Row, RowServed(row), row.status = "disabled"
  PROVE  Calm(row, [row EXCEPT !.status = "pending", !.due = TRUE])
BY DEF Row, Status, RowServed, Waits, Calm

\* enqueue_notification only fills rows that are not there.
LEMMA EnqueueKeeps ==
  ASSUME NotifyInv, NEW e \in Events, Enqueue(e)
  PROVE  NotifyInv' /\ DeliveredKept
<1> USE DEF Enqueue
<1>1. ASSUME NEW d \in Delivery
      PROVE  /\ queue'[d] \in {queue[d], Queued}
             /\ queue'[d] # queue[d] => queue[d].status = "none"
  OBVIOUS
<1>2. ASSUME NEW d \in Delivery PROVE Calm(queue[d], queue'[d])
  BY <1>1, StillRow, QueuedServed DEF Calm
<1>3. queue' \in [Delivery -> Row]
  <2>1. \A d \in Delivery : queue'[d] \in Row
    BY <1>2 DEF Calm
  <2>2. QED
    BY <2>1
<1>4. HeldOnlyWhileDisabled'
  BY <1>1, QueuedServed DEF HeldOnlyWhileDisabled, NotifyInv
<1>5. QED
  BY <1>2, <1>3, <1>4, CalmStep DEF NotifyInv, NotifyTypeOK

\* The scan, and what it passes over, leave every row alone.
LEMMA ScanKeeps ==
  ASSUME NotifyInv, Scan \/ \E d \in Delivery : Skip(d)
  PROVE  NotifyInv' /\ DeliveredKept
<1>1. /\ UNCHANGED <<queue, disabled, sending, received, requeued>>
      /\ batch' \subseteq Delivery
  BY DEF Scan, ScanReads, Skip, Due, NotifyInv, NotifyTypeOK
<1>2. QED
  BY <1>1, StillRow, CalmStep DEF NotifyInv, NotifyTypeOK, HeldOnlyWhileDisabled

\* A delivery whose destination was disabled is held back.
LEMMA WithholdKeeps ==
  ASSUME NotifyInv, NEW d \in Delivery, Withhold(d)
  PROVE  NotifyInv' /\ DeliveredKept
<1> DEFINE held == [queue[d] EXCEPT !.status = "disabled", !.due = FALSE]
<1>1. queue' = [queue EXCEPT ![d] = held]
  BY DEF Withhold
<1>2. Calm(queue[d], held)
  BY HeldRow DEF Withhold, NotifyInv, NotifyTypeOK
<1> HIDE DEF held
<1>3. held \in Row
  BY <1>2 DEF Calm
<1>4. \A x \in Delivery : Calm(queue[x], queue'[x])
  BY <1>1, <1>2, StillRow DEF NotifyInv, NotifyTypeOK
<1>5. queue' \in [Delivery -> Row]
  BY <1>1, <1>3 DEF NotifyInv, NotifyTypeOK
<1>6. HeldOnlyWhileDisabled'
  BY <1>1 DEF Withhold, NotifyInv, NotifyTypeOK, HeldOnlyWhileDisabled
<1>7. batch' \subseteq Delivery
  BY DEF Withhold, NotifyInv, NotifyTypeOK
<1>8. QED
  BY <1>4, <1>5, <1>6, <1>7, CalmStep DEF Withhold, NotifyInv, NotifyTypeOK

\* A delivery is read while it waits, and then awaits its destination.
LEMMA SendKeeps ==
  ASSUME NotifyInv, NEW d \in Delivery, Send(d)
  PROVE  NotifyInv' /\ DeliveredKept
<1> USE DEF Send
<1>1. queue[d] \in Row
  BY DEF NotifyInv, NotifyTypeOK
<1>2. NotifyTypeOK'
  BY <1>1 DEF NotifyInv, NotifyTypeOK
<1>3. InFlight'
  BY <1>1 DEF NotifyInv, InFlight, RowServed, Waits
<1>4. QED
  BY <1>2, <1>3 DEF NotifyInv, RowServed, Waits, HeldOnlyWhileDisabled,
     DeliveredWasReceived, DeliveredKept

\* The row the worker writes after an attempt, whatever the operator made of it
\* in the meantime: it is served, held as it was, or ended.
Written(row, seen, result) ==
  [row EXCEPT !.status = IF result # seen.status THEN result ELSE @,
              !.attempts = seen.attempts + 1,
              !.due = result = "retrying"]

LEMMA AnsweredRow ==
  ASSUME NEW row \in Row, NEW seen \in Row, NEW outcome \in Outcome,
         Waits(seen), seen.attempts < MaxAttempts, row.status # "delivered"
  PROVE  LET next == Written(row, seen, Result(seen, outcome))
         IN /\ next \in Row
            /\ RowServed(next)
            /\ next.status = "disabled" => row.status = "disabled"
            /\ next.status = "delivered" => outcome = "ok"
<1> DEFINE next == Written(row, seen, Result(seen, outcome))
<1>0. seen.attempts + 1 \in Nat /\ MaxAttempts \in Nat
  BY NotificationsAssumption DEF Row
<1>1. CASE outcome = "ok"
  <2>1. Result(seen, outcome) = "delivered"
    BY <1>1 DEF Result
  <2>2. next = [row EXCEPT !.status = "delivered", !.attempts = seen.attempts + 1,
                           !.due = FALSE]
    BY <2>1 DEF Written, Waits
  <2> HIDE DEF next
  <2>3. /\ next \in Row
        /\ next.status = "delivered"
    BY <1>0, <2>2 DEF Row, Status
  <2>4. QED
    BY <1>1, <2>3 DEF next, RowServed, Waits
<1>2. CASE outcome # "ok" /\ seen.attempts + 1 >= MaxAttempts
  <2>1. Result(seen, outcome) = "failed"
    BY <1>2 DEF Result
  <2>2. next = [row EXCEPT !.status = "failed", !.attempts = seen.attempts + 1,
                           !.due = FALSE]
    BY <2>1 DEF Written, Waits
  <2> HIDE DEF next
  <2>3. /\ next \in Row
        /\ next.status = "failed"
    BY <1>0, <2>2 DEF Row, Status
  <2>4. QED
    BY <2>3 DEF next, RowServed, Waits
<1>3. CASE outcome # "ok" /\ ~ (seen.attempts + 1 >= MaxAttempts)
  <2>1. Result(seen, outcome) = "retrying"
    BY <1>3 DEF Result
  <2> DEFINE status == IF "retrying" # seen.status THEN "retrying" ELSE row.status
  <2>2. next = [row EXCEPT !.status = status, !.attempts = seen.attempts + 1,
                           !.due = TRUE]
    BY <2>1 DEF Written
  <2>3. status \in Status /\ status \in {"retrying", row.status}
    BY DEF Row, Status
  <2> HIDE DEF next, status
  <2>4. /\ next \in Row
        /\ next.status = status
        /\ next.attempts = seen.attempts + 1
        /\ next.due = TRUE
    BY <1>0, <2>2, <2>3 DEF Row
  <2>5. RowServed(next)
    BY <1>0, <1>3, <2>4 DEF RowServed
  <2>6. QED
    BY <2>3, <2>4, <2>5 DEF next
<1>4. QED
  BY <1>1, <1>2, <1>3

\* An answer keeps the invariant, through every control the operator used while
\* the destination was awaited.
LEMMA AnswerKeeps ==
  ASSUME NotifyInv, Answer
  PROVE  NotifyInv' /\ DeliveredKept
<1>1. PICK s \in sending, outcome \in Outcome : DestinationAnswers(s, outcome)
  BY DEF Answer
<1> DEFINE d    == s.id
           next == Written(queue[s.id], s.seen, Result(s.seen, outcome))
<1>2. /\ d \in Delivery /\ s.seen \in Row
      /\ Waits(s.seen) /\ s.seen.attempts < MaxAttempts
      /\ queue[d].status # "delivered" /\ queue[d] \in Row
  BY DEF NotifyInv, NotifyTypeOK, InFlight
<1>3. /\ next \in Row
      /\ RowServed(next)
      /\ next.status = "disabled" => queue[d].status = "disabled"
      /\ next.status = "delivered" => outcome = "ok"
  BY <1>2, AnsweredRow
<1>4. queue' = [queue EXCEPT ![d] = next]
  BY <1>1 DEF DestinationAnswers, Answered, Written
<1>5. /\ sending' = {} /\ UNCHANGED <<disabled, batch, requeued>>
      /\ received \subseteq received' /\ received' \subseteq received \cup {d}
      /\ outcome = "ok" => d \in received'
  BY <1>1 DEF DestinationAnswers, Arrived
<1> HIDE DEF d, next
<1>6. /\ queue \in [Delivery -> Row]
      /\ queue'[d] = next
      /\ \A x \in Delivery \ {d} : queue'[x] = queue[x]
  BY <1>2, <1>4 DEF NotifyInv, NotifyTypeOK
<1>7. NotifyTypeOK'
  BY <1>2, <1>3, <1>4, <1>5, <1>6 DEF NotifyInv, NotifyTypeOK
<1>8. \A x \in Delivery : RowServed(queue'[x])
  BY <1>3, <1>6 DEF NotifyInv
<1>9. HeldOnlyWhileDisabled'
  BY <1>2, <1>3, <1>5, <1>6 DEF NotifyInv, HeldOnlyWhileDisabled
<1>10. DeliveredWasReceived'
  BY <1>2, <1>3, <1>5, <1>6 DEF NotifyInv, DeliveredWasReceived
<1>11. DeliveredKept
  BY <1>2, <1>6 DEF DeliveredKept
<1>12. (\A x \in Delivery : RowServed(queue[x]))'
  BY <1>8 DEF RowServed, Waits
<1>13. QED
  BY <1>5, <1>7, <1>9, <1>10, <1>11, <1>12 DEF NotifyInv, InFlight

\* A restart forgets the scan and what was in flight; the message may have
\* arrived.
LEMMA NotifyRestartKeeps ==
  ASSUME NotifyInv, NotifyRestart
  PROVE  NotifyInv' /\ DeliveredKept
<1>1. /\ UNCHANGED <<queue, disabled, requeued>> /\ batch' = {} /\ sending' = {}
      /\ received \subseteq received' /\ received' \subseteq Delivery
  BY DEF NotifyRestart, Arrived, NotifyInv, NotifyTypeOK
<1>2. QED
  BY <1>1, StillRow, CalmStep DEF NotifyInv, NotifyTypeOK, HeldOnlyWhileDisabled

\* Disabling a destination holds its waiting deliveries.
LEMMA DisableKeeps ==
  ASSUME NotifyInv, NEW e \in Endpoints, Disable(e)
  PROVE  NotifyInv' /\ DeliveredKept
<1>1. ASSUME NEW d \in Delivery PROVE Calm(queue[d], queue'[d])
  <2>1. queue[d] \in Row /\ RowServed(queue[d])
    BY DEF NotifyInv, NotifyTypeOK
  <2>2. CASE Destination(d) = e /\ Waits(queue[d])
    BY <2>1, <2>2, HeldRow DEF Disable
  <2>3. CASE ~ (Destination(d) = e /\ Waits(queue[d]))
    <3>1. queue'[d] = queue[d]
      BY <2>3 DEF Disable
    <3>2. QED
      BY <3>1, StillRow
  <2>4. QED
    BY <2>2, <2>3
<1>2. queue' \in [Delivery -> Row]
  <2>1. \A d \in Delivery : queue'[d] \in Row
    BY <1>1 DEF Calm
  <2>2. QED
    BY <2>1 DEF Disable
<1>3. HeldOnlyWhileDisabled'
  BY DEF Disable, NotifyInv, HeldOnlyWhileDisabled
<1>4. disabled' \subseteq Endpoints
  BY DEF Disable, NotifyInv, NotifyTypeOK
<1>5. QED
  BY <1>1, <1>2, <1>3, <1>4, CalmStep DEF Disable, NotifyInv, NotifyTypeOK

\* Enabling a destination releases every delivery held for it.
LEMMA EnableKeeps ==
  ASSUME NotifyInv, NEW e \in Endpoints, Enable(e)
  PROVE  NotifyInv' /\ DeliveredKept
<1>1. ASSUME NEW d \in Delivery
      PROVE  /\ Calm(queue[d], queue'[d])
             /\ queue'[d].status = "disabled"
                  => queue[d].status = "disabled" /\ Destination(d) # e
  <2>1. queue[d] \in Row /\ RowServed(queue[d])
    BY DEF NotifyInv, NotifyTypeOK
  <2>2. CASE Destination(d) = e /\ queue[d].status = "disabled"
    <3> DEFINE next == [queue[d] EXCEPT !.status = "pending", !.due = TRUE]
    <3>1. Calm(queue[d], next)
      BY <2>1, <2>2, ReleasedRow
    <3>2. next.status = "pending"
      BY <2>1 DEF Row
    <3>3. queue'[d] = next
      BY <2>2 DEF Enable
    <3> HIDE DEF next
    <3>4. QED
      BY <3>1, <3>2, <3>3
  <2>3. CASE ~ (Destination(d) = e /\ queue[d].status = "disabled")
    <3>1. queue'[d] = queue[d]
      BY <2>3 DEF Enable
    <3>2. QED
      BY <2>3, <3>1, StillRow
  <2>4. QED
    BY <2>2, <2>3
<1>2. queue' \in [Delivery -> Row]
  <2>1. \A d \in Delivery : queue'[d] \in Row
    BY <1>1 DEF Calm
  <2>2. QED
    BY <2>1 DEF Enable
<1>3. HeldOnlyWhileDisabled'
  BY <1>1 DEF Enable, NotifyInv, HeldOnlyWhileDisabled
<1>4. QED
  BY <1>1, <1>2, <1>3, CalmStep DEF Enable, NotifyInv, NotifyTypeOK

\* A delivery that was given up or held is queued again, for a destination that
\* is enabled.
LEMMA RequeueKeeps ==
  ASSUME NotifyInv, NEW d \in Delivery, Requeue(d)
  PROVE  NotifyInv' /\ DeliveredKept
<1>1. queue' = [queue EXCEPT ![d] = Queued] /\ queue[d].status # "delivered"
  BY DEF Requeue
<1>2. \A x \in Delivery : queue'[x] = IF x = d THEN Queued ELSE queue[x]
  BY <1>1 DEF NotifyInv, NotifyTypeOK
<1>3. ASSUME NEW x \in Delivery PROVE Calm(queue[x], queue'[x])
  BY <1>1, <1>2, StillRow, QueuedServed DEF Calm
<1>4. queue' \in [Delivery -> Row]
  BY <1>1, QueuedServed DEF NotifyInv, NotifyTypeOK
<1>5. HeldOnlyWhileDisabled'
  BY <1>2, QueuedServed DEF Requeue, NotifyInv, HeldOnlyWhileDisabled
<1>6. requeued' \in Nat
  BY DEF Requeue, NotifyInv, NotifyTypeOK
<1>7. QED
  BY <1>3, <1>4, <1>5, <1>6, CalmStep DEF Requeue, NotifyInv, NotifyTypeOK

\* Every step keeps the invariant and what is delivered.
LEMMA NotifyStep ==
  ASSUME NotifyInv, [NotifyNext \/ NotifyRestart]_notifyVars
  PROVE  NotifyInv' /\ DeliveredKept
<1>1. CASE UNCHANGED notifyVars
  BY <1>1, StillRow, CalmStep
     DEF notifyVars, NotifyInv, NotifyTypeOK, HeldOnlyWhileDisabled
<1>2. CASE \E e \in Events : Enqueue(e)
  BY <1>2, EnqueueKeeps
<1>3. CASE Scan \/ \E d \in Delivery : Skip(d)
  BY <1>3, ScanKeeps
<1>4. CASE \E d \in Delivery : Withhold(d)
  BY <1>4, WithholdKeeps
<1>5. CASE \E d \in Delivery : Send(d)
  BY <1>5, SendKeeps
<1>6. CASE Answer
  BY <1>6, AnswerKeeps
<1>7. CASE \E e \in Endpoints : Disable(e)
  BY <1>7, DisableKeeps
<1>8. CASE \E e \in Endpoints : Enable(e)
  BY <1>8, EnableKeeps
<1>9. CASE \E d \in Delivery : Requeue(d)
  BY <1>9, RequeueKeeps
<1>10. CASE NotifyRestart
  BY <1>10, NotifyRestartKeeps
<1>11. QED
  BY <1>1, <1>2, <1>3, <1>4, <1>5, <1>6, <1>7, <1>8, <1>9, <1>10 DEF NotifyNext

\* The invariant of the delivery queue.
LEMMA NotifyInvariant == NotifySpec => []NotifyInv
<1>1. NotifyInv /\ [NotifyNext \/ NotifyRestart]_notifyVars => NotifyInv'
  BY NotifyStep
<1>2. QED
  BY <1>1, NotifyStarts, PTL DEF NotifySpec

\* For any destinations, events and bounds, rows, scans and posts are in their types.
THEOREM NotifyTypeCorrect == NotifySpec => []NotifyTypeOK
<1>1. NotifyInv => NotifyTypeOK
  BY DEF NotifyInv
<1>2. QED
  BY <1>1, NotifyInvariant, PTL

\* For any destinations, events and attempt limit, a delivery that waits is found by
\* a scan and has attempts left, none is left disabled for a destination that is
\* enabled, and what is recorded as delivered reached its destination, through posts
\* that overlap an operator's controls and restarts.
THEOREM QueueTrue == NotifySpec => []QueueIsTrue
<1>1. NotifyInv => WaitingIsServed
  BY DEF NotifyInv, RowServed, Waits, WaitingIsServed
<1>2. NotifyInv => HeldOnlyWhileDisabled /\ DeliveredWasReceived
  BY DEF NotifyInv
<1>3. NotifyInv => QueueIsTrue
  BY <1>1, <1>2 DEF QueueIsTrue
<1>4. QED
  BY <1>3, NotifyInvariant, PTL

\* A delivered message is never queued again.
THEOREM DeliveredIsFinal == NotifySpec => DeliveredStays
<1>1. NotifyInv /\ [NotifyNext \/ NotifyRestart]_notifyVars
        => [DeliveredKept]_notifyVars
  BY NotifyStep
<1>2. [DeliveredKept]_notifyVars
        => [\A d \in Delivery :
              queue[d].status = "delivered" => queue'[d].status = "delivered"]_notifyVars
  BY DEF DeliveredKept
<1>3. QED
  BY <1>1, <1>2, NotifyInvariant, PTL DEF NotifySpec, DeliveredStays
-----------------------------------------------------------------------------
(***************************************************************************)
(* TargetCredentials: types.  That a verified revision was probed is not a *)
(* theorem: credentials may be saved while a probe is awaited (ProbeRace). *)
(***************************************************************************)
\* No target has credentials at first.
LEMMA CredStarts == CredInit => CredTypeOK
<1> SUFFICES ASSUME CredInit PROVE CredTypeOK
  OBVIOUS
<1> DEFINE none == [revision |-> 0, verified |-> FALSE, failure |-> "", again |-> FALSE]
<1>1. none \in Credential
  BY DEF Credential, FailureKinds
<1>2. cred = [t \in Targets |-> none]
  BY DEF CredInit
<1> HIDE DEF none
<1>3. accepts \in [Targets -> SUBSET (1..MaxRevision)]
  BY DEF CredInit
<1>4. QED
  BY <1>1, <1>2, <1>3 DEF CredInit, CredTypeOK

\* What a row becomes when credentials are saved or a probe is recorded.
LEMMA SavedRow ==
  ASSUME NEW c \in Credential
  PROVE  Saved(c) \in Credential
<1> DEFINE r1 == [c EXCEPT !.revision = @ + 1]
           r2 == [r1 EXCEPT !.verified = FALSE]
           r3 == [r2 EXCEPT !.failure = ""]
           r4 == [r3 EXCEPT !.again = FALSE]
<1>1. r1 \in Credential
  BY DEF Credential
<1>2. r2 \in Credential
  <2> HIDE DEF r1
  <2>1. QED
    BY <1>1 DEF Credential
<1>3. r3 \in Credential
  <2> HIDE DEF r2
  <2>1. QED
    BY <1>2 DEF Credential, FailureKinds
<1>4. r4 \in Credential
  <2> HIDE DEF r3
  <2>1. QED
    BY <1>3 DEF Credential
<1>5. Saved(c) = r4
  BY DEF Saved
<1>6. QED
  BY <1>4, <1>5

LEMMA RecordedRow ==
  ASSUME NEW c \in Credential, NEW failure \in FailureKinds
  PROVE  Recorded(c, failure) \in Credential
<1>1. CASE failure = ""
  BY <1>1 DEF Recorded, Credential
<1>2. CASE failure # ""
  <2> DEFINE verified == c.verified /\ failure # "authentication"
  <2>1. verified \in BOOLEAN
    BY DEF Credential
  <2>2. Recorded(c, failure) =
          [c EXCEPT !.verified = verified, !.failure = failure, !.again = TRUE]
    BY <1>2 DEF Recorded
  <2> HIDE DEF verified
  <2>3. QED
    BY <2>1, <2>2 DEF Credential
<1>3. QED
  BY <1>1, <1>2

\* Every step keeps the types.
LEMMA CredTypeStep ==
  ASSUME CredTypeOK, [CredNext \/ CredRestart]_credVars
  PROVE  CredTypeOK'
<1>1. ASSUME NEW t \in Targets, SaveCredentials(t)
      PROVE  CredTypeOK'
  <2>1. cred[t] \in Credential
    BY DEF CredTypeOK
  <2>2. Saved(cred[t]) \in Credential
    BY <2>1, SavedRow
  <2>3. cred' = [cred EXCEPT ![t] = Saved(cred[t])]
    BY <1>1 DEF SaveCredentials
  <2>4. cred' \in [Targets -> Credential]
    BY <2>2, <2>3 DEF CredTypeOK
  <2>5. [target |-> t, revision |-> cred[t].revision + 1, by |-> "task"] \in Probe
    BY <2>1 DEF Credential, Probe
  <2>6. QED
    BY <1>1, <2>4, <2>5 DEF SaveCredentials, CredTypeOK
<1>2. ASSUME NEW t \in Targets, NEW by \in {"task", "worker"}, Await(t, by),
             due' \subseteq Targets, UNCHANGED <<cred, accepts, proved>>
      PROVE  CredTypeOK'
  BY <1>2 DEF CredTypeOK, Credential, Await, Probe
<1>3. ASSUME NEW p \in awaited, NEW failure \in FailureKinds, ProbeFinds(p, failure)
      PROVE  CredTypeOK'
  <2>1. p.target \in Targets /\ p.revision \in Nat /\ cred[p.target] \in Credential
    BY DEF CredTypeOK, Probe
  <2>2. Recorded(cred[p.target], failure) \in Credential
    BY <2>1, RecordedRow
  <2>3. cred' = [cred EXCEPT ![p.target] = Recorded(cred[p.target], failure)]
    BY <1>3 DEF ProbeFinds
  <2>4. cred' \in [Targets -> Credential]
    BY <2>1, <2>2, <2>3 DEF CredTypeOK
  <2>5. proved' \in [Targets -> SUBSET Nat]
    BY <1>3, <2>1 DEF ProbeFinds, CredTypeOK
  <2>6. QED
    BY <1>3, <2>4, <2>5 DEF ProbeFinds, CredTypeOK
<1>4. ASSUME NEW t \in Targets, TargetChangesItsMind(t)
      PROVE  CredTypeOK'
  BY <1>4 DEF TargetChangesItsMind, CredTypeOK
<1>5. CASE ProbeScan \/ CredRestart \/ UNCHANGED credVars
  BY <1>5 DEF ProbeScan, ProbeScanFinds, Failing, CredRestart, credVars, CredTypeOK
<1>6. QED
  BY <1>1, <1>2, <1>3, <1>4, <1>5
     DEF CredNext, TestConnection, WorkerProbes, ProbeReturns, CredTypeOK

\* For any targets and bounds, credentials and probes are in their types.
THEOREM CredTypeCorrect == CredSpec => []CredTypeOK
BY CredStarts, CredTypeStep, PTL DEF CredSpec
-----------------------------------------------------------------------------
(***************************************************************************)
(* SshKeys: a revoked key that is on the target is on its way out, and a   *)
(* rotation whose synchronization failed keeps the old key.                *)
(***************************************************************************)
\* A synchronization under an administrator's operation runs as long as that
\* operation does.
OtherRuns == session.by = "other" => other = "running"

\* A rotation that waits, or is being synchronized, is for a key that was
\* enrolled; the synchronization carries the key unless it was revoked first.
RotationsEnrolled ==
  /\ \A then \in waiting : then # Nothing => key[then.new] # "none"
  /\ session.then # Nothing =>
       session.then.new \in session.keys \/ key[session.then.new] = "revoked"

SshInv == SshTypeOK /\ RevocationIsPending /\ OtherRuns /\ RotationsEnrolled

\* What follows a call, beyond Nothing, is a pair of keys.
LEMMA Rotation ==
  ASSUME NEW then \in Follow, then # Nothing
  PROVE  then.new \in Keys /\ then.old \in Keys /\ then.old # NoKey
BY SshKeysAssumption DEF Follow

LEMMA SshStarts == SshInit => SshInv
<1> SUFFICES ASSUME SshInit PROVE SshInv
  OBVIOUS
<1>1. NoSession \in [by : {"none", "handler", "other", "retry"},
                     keys : SUBSET Keys, then : Follow]
  BY DEF NoSession, Follow
<1>2. 0 \in 0..MaxOthers
  BY SshKeysAssumption
<1>3. retryDue \in BOOLEAN /\ key \in [Keys -> {"none", "active", "revoked"}]
  BY DEF SshInit
<1>4. SshTypeOK
  BY <1>1, <1>2, <1>3 DEF SshInit, SshTypeOK
<1>5. QED
  BY <1>4 DEF SshInit, SshInv, RevocationIsPending, OtherRuns, RotationsEnrolled,
     NoSession

\* Keys that are revoked, by whom ever, make a table of keys in which no key is
\* new and only they have changed.
LEMMA RevokedTable ==
  ASSUME SshTypeOK, NEW S \in SUBSET Keys
  PROVE  /\ Revoked(S) \in [Keys -> {"none", "active", "revoked"}]
         /\ \A k \in Keys : Revoked(S)[k] = "none" => key[k] = "none"
         /\ \A k \in Keys : key[k] = "revoked" => Revoked(S)[k] = "revoked"
BY DEF SshTypeOK, Revoked

\* A call that waits makes revocations pending, whatever else changes.
LEMMA WaitingSuffices ==
  ASSUME SyncIsComing' PROVE RevocationIsPending'
BY DEF RevocationIsPending

LEMMA EnrollKeeps ==
  ASSUME SshInv, NEW new \in Keys, NEW old \in Keys \cup {NoKey}, Enroll(new, old)
  PROVE  SshInv'
<1> DEFINE call == IF old = NoKey THEN Nothing ELSE [new |-> new, old |-> old]
<1>1. call \in Follow /\ (call # Nothing => call.new = new)
  BY DEF Follow
<1>2. /\ waiting' = waiting \cup {call}
      /\ key' = [key EXCEPT ![new] = "active"] /\ key[new] = "none"
      /\ UNCHANGED <<onTarget, other, retryDue, session, others>>
  BY DEF Enroll
<1> HIDE DEF call
<1>3. SshTypeOK'
  BY <1>1, <1>2 DEF SshInv, SshTypeOK
<1>4. RevocationIsPending'
  BY <1>2, WaitingSuffices DEF SyncIsComing
<1>5. \A k \in Keys : /\ key'[k] = "none" => key[k] = "none"
                      /\ key[k] = "revoked" => key'[k] = "revoked"
  BY <1>2 DEF SshInv, SshTypeOK
<1>6. RotationsEnrolled'
  <2>1. \A then \in waiting' : then # Nothing => key'[then.new] # "none"
    <3>1. key'[new] = "active"
      BY <1>2 DEF SshInv, SshTypeOK
    <3>2. QED
      BY <1>1, <1>2, <1>5, <3>1, Rotation DEF SshInv, SshTypeOK, RotationsEnrolled
  <2>2. QED
    BY <1>2, <1>5, <2>1, Rotation DEF SshInv, SshTypeOK, RotationsEnrolled
<1>7. QED
  BY <1>2, <1>3, <1>4, <1>6 DEF SshInv, OtherRuns

LEMMA RevokeKeeps ==
  ASSUME SshInv, NEW S \in SUBSET Keys, Revoke(S)
  PROVE  SshInv'
<1>1. /\ waiting' = waiting \cup {Nothing} /\ key' = Revoked(S)
      /\ UNCHANGED <<onTarget, other, retryDue, session, others>>
  BY DEF Revoke, Synchronizes
<1>2. SshTypeOK
  BY DEF SshInv
<1>3. SshTypeOK'
  BY <1>1, <1>2, RevokedTable DEF SshTypeOK, Follow
<1>4. RevocationIsPending'
  BY <1>1, WaitingSuffices DEF SyncIsComing
<1>5. RotationsEnrolled'
  BY <1>1, <1>2, RevokedTable, Rotation DEF SshInv, SshTypeOK, RotationsEnrolled
<1>6. QED
  BY <1>1, <1>3, <1>4, <1>5 DEF SshInv, OtherRuns

\* What follows a call leaves a table of keys in which only keys that were active
\* have become revoked, and then a call waits.
LEMMA ContinuesTable ==
  ASSUME SshTypeOK, NEW then \in Follow, NEW succeeded \in BOOLEAN,
         NEW rest \in SUBSET waiting, Continues(then, succeeded, rest)
  PROVE  /\ key' \in [Keys -> {"none", "active", "revoked"}]
         /\ waiting' \in SUBSET Follow
         /\ waiting' \subseteq rest \cup {Nothing} /\ rest \subseteq waiting'
         /\ \A k \in Keys : key'[k] = "none" => key[k] = "none"
         /\ \A k \in Keys : key[k] = "revoked" => key'[k] = "revoked"
         /\ key' # key => waiting' # {} /\ then # Nothing /\ succeeded
<1>1. CASE then.old # NoKey /\ succeeded
  <2>1. then # Nothing
    BY <1>1 DEF Nothing
  <2>2. then.old \in Keys
    BY <2>1, Rotation
  <2>3. key' = key \/ key' = Revoked({then.old})
    BY <1>1 DEF Continues
  <2>4. waiting' = rest \cup {Nothing}
    BY <1>1 DEF Continues
  <2>5. Nothing \in Follow /\ rest \subseteq Follow
    BY DEF Follow, SshTypeOK
  <2>6. {then.old} \in SUBSET Keys /\ key \in [Keys -> {"none", "active", "revoked"}]
    BY <2>2 DEF SshTypeOK
  <2>7. QED
    BY <1>1, <2>1, <2>3, <2>4, <2>5, <2>6, RevokedTable
<1>2. CASE ~(then.old # NoKey /\ succeeded)
  BY <1>2 DEF Continues, SshTypeOK
<1>3. QED
  BY <1>1, <1>2

LEMMA ReturnsNoneKeeps ==
  ASSUME SshInv, NEW then \in waiting, CallReturnsNone(then)
  PROVE  SshInv'
<1>1. /\ other = "queued" /\ session = NoSession
      /\ Continues(then, TRUE, waiting \ {then})
      /\ UNCHANGED <<onTarget, other, retryDue, session, others>>
  BY DEF CallReturnsNone, SyncSucceeded
<1>2. then \in Follow /\ SshTypeOK
  BY DEF SshInv, SshTypeOK
<1>3. /\ key' \in [Keys -> {"none", "active", "revoked"}]
      /\ waiting' \in SUBSET Follow /\ waiting' \subseteq waiting \cup {Nothing}
      /\ \A k \in Keys : key'[k] = "none" => key[k] = "none"
  BY <1>1, <1>2, ContinuesTable
<1>4. SshTypeOK'
  BY <1>1, <1>2, <1>3 DEF SshTypeOK
<1>5. RevocationIsPending'
  BY <1>1, WaitingSuffices DEF SyncIsComing
<1>6. RotationsEnrolled'
  BY <1>1, <1>2, <1>3, Rotation DEF SshInv, SshTypeOK, RotationsEnrolled, NoSession
<1>7. QED
  BY <1>1, <1>4, <1>5, <1>6 DEF SshInv, OtherRuns

\* A synchronization that begins carries the keys that are active.
LEMMA BeginKeeps ==
  ASSUME SshInv, NEW by \in {"handler", "other", "retry"}, NEW then \in Follow,
         session' = [by |-> by, keys |-> ActiveKeys, then |-> then],
         then # Nothing => then \in waiting,
         waiting' \subseteq waiting, other' \in {"none", "queued", "passed", "running"},
         by = "other" => other' = "running",
         UNCHANGED <<key, onTarget, retryDue, others>>
  PROVE  SshInv'
<1>1. session'.keys \subseteq Keys /\ \A k \in session'.keys : key[k] = "active"
  BY DEF ActiveKeys
<1>2. SshTypeOK'
  BY <1>1 DEF SshInv, SshTypeOK
<1>3. session' # NoSession
  BY DEF NoSession
<1>4. RevocationIsPending'
  BY <1>1, <1>3 DEF RevocationIsPending
<1>5. RotationsEnrolled'
  <2>1. ASSUME then # Nothing
        PROVE  then.new \in session'.keys \/ key'[then.new] = "revoked"
    <3>1. then.new \in Keys /\ key[then.new] # "none"
      BY <2>1, Rotation DEF SshInv, RotationsEnrolled
    <3>2. QED
      BY <3>1 DEF SshInv, SshTypeOK, ActiveKeys
  <2>2. QED
    BY <2>1 DEF SshInv, RotationsEnrolled
<1>6. QED
  BY <1>2, <1>4, <1>5 DEF SshInv, OtherRuns

LEMMA EndKeeps ==
  ASSUME SshInv, NEW status \in {"succeeded", "failed"}, NEW took \in BOOLEAN,
         SessionEnds(status, took)
  PROVE  SshInv'
<1>1. /\ session \in [by : {"none", "handler", "other", "retry"},
                      keys : SUBSET Keys, then : Follow]
      /\ SshTypeOK
  BY DEF SshInv, SshTypeOK
<1>2. /\ status = "succeeded" => took
      /\ onTarget' = IF took THEN session.keys ELSE onTarget
      /\ retryDue' = (status = "failed")
      /\ other' = IF session.by = "other" THEN "none" ELSE other
      /\ session' = NoSession /\ others' = others
  BY DEF SessionEnds
<1>3. /\ key' \in [Keys -> {"none", "active", "revoked"}]
      /\ waiting' \in SUBSET Follow
      /\ waiting \subseteq waiting' /\ waiting' \subseteq waiting \cup {Nothing}
      /\ \A k \in Keys : key'[k] = "none" => key[k] = "none"
      /\ key' # key => waiting' # {}
  <2>1. CASE session.by = "handler"
    <3> DEFINE good == SyncSucceeded(TRUE, status)
    <3>1. good \in BOOLEAN
      BY DEF SyncSucceeded
    <3>2. Continues(session.then, good, waiting)
      BY <2>1 DEF SessionEnds
    <3> HIDE DEF good
    <3>3. QED
      BY <1>1, <3>1, <3>2, ContinuesTable
  <2>2. CASE session.by # "handler"
    BY <1>1, <2>2 DEF SessionEnds, SshTypeOK
  <2>3. QED
    BY <2>1, <2>2
<1>4. SshTypeOK'
  <2>1. NoSession \in [by : {"none", "handler", "other", "retry"},
                       keys : SUBSET Keys, then : Follow]
    BY DEF NoSession, Follow
  <2>2. retryDue' \in BOOLEAN /\ onTarget' \subseteq Keys
    BY <1>1, <1>2 DEF SshTypeOK
  <2>3. QED
    BY <1>1, <1>2, <1>3, <2>1, <2>2 DEF SshTypeOK
<1>5. RevocationIsPending'
  <2>1. CASE key' # key
    BY <1>3, <2>1, WaitingSuffices DEF SyncIsComing
  <2>2. CASE key' = key
    <3>1. SyncIsComing => SyncIsComing'
      BY <1>2, <1>3 DEF SyncIsComing, SshInv, OtherRuns
    <3>2. session'.keys = {}
      BY <1>2 DEF NoSession
    <3>3. ASSUME NEW k \in Keys, key[k] = "revoked", k \in onTarget', ~retryDue'
          PROVE  SyncIsComing'
      <4>1. k \in session.keys
        BY <1>2, <3>3
      <4>2. QED
        BY <3>1, <3>3, <4>1 DEF SshInv, RevocationIsPending
    <3>4. QED
      BY <2>2, <3>2, <3>3 DEF RevocationIsPending
  <2>3. QED
    BY <2>1, <2>2
<1>6. RotationsEnrolled'
  BY <1>1, <1>2, <1>3, Rotation DEF SshInv, SshTypeOK, RotationsEnrolled, NoSession
<1>7. OtherRuns'
  BY <1>2 DEF OtherRuns, NoSession
<1>8. QED
  BY <1>4, <1>5, <1>6, <1>7 DEF SshInv

\* The end of a session is where a replaced key is revoked.
EndOnly == \A then \in Follow :
  (session.then = then /\ then # Nothing /\ session' = NoSession
   /\ key[then.old] = "active" /\ key'[then.old] = "revoked")
    => then.new \in onTarget' \/ key[then.new] = "revoked"

LEMMA EndRotates ==
  ASSUME SshInv, NEW status \in {"succeeded", "failed"}, NEW took \in BOOLEAN,
         SessionEnds(status, took)
  PROVE  EndOnly
<1> SUFFICES ASSUME NEW then \in Follow, session.then = then, then # Nothing,
                    key[then.old] = "active", key'[then.old] = "revoked"
             PROVE  then.new \in onTarget' \/ key[then.new] = "revoked"
  BY DEF EndOnly
<1>1. session.by = "handler" /\ Continues(then, SyncSucceeded(TRUE, status), waiting)
  BY DEF SessionEnds
<1>2. status = "succeeded"
  BY <1>1 DEF Continues, SyncSucceeded
<1>3. onTarget' = session.keys
  BY <1>2 DEF SessionEnds
<1>4. QED
  BY <1>3 DEF SshInv, RotationsEnrolled

\* Elsewhere no session with a rotation ends.
LEMMA EndsNowhereElse ==
  ASSUME session' = session \/ session = NoSession
  PROVE  EndOnly
BY DEF EndOnly, NoSession

LEMMA SshStep ==
  ASSUME SshInv, [SshNext]_sshVars
  PROVE  SshInv' /\ EndOnly
<1>1. ASSUME NEW new \in Keys, NEW old \in Keys \cup {NoKey}, Enroll(new, old)
      PROVE  SshInv' /\ EndOnly
  BY <1>1, EnrollKeeps, EndsNowhereElse DEF Enroll
<1>2. ASSUME NEW S \in SUBSET Keys, Revoke(S) \/ ExpireDue(S)
      PROVE  SshInv' /\ EndOnly
  BY <1>2, RevokeKeeps, EndsNowhereElse DEF ExpireDue, Revoke
<1>3. CASE RequestOther
  <2>1. others' \in 0..MaxOthers
    BY <1>3, SshKeysAssumption DEF RequestOther, SshInv, SshTypeOK
  <2>2. SshTypeOK' /\ RotationsEnrolled' /\ OtherRuns'
    BY <1>3, <2>1 DEF RequestOther, SshInv, SshTypeOK, OtherRuns, RotationsEnrolled,
       NoSession
  <2>3. RevocationIsPending'
    BY <1>3, WaitingSuffices DEF RequestOther, SyncIsComing
  <2>4. QED
    BY <1>3, <2>2, <2>3, EndsNowhereElse DEF RequestOther, SshInv
<1>4. ASSUME NEW then \in waiting, CallReturnsNone(then)
      PROVE  SshInv' /\ EndOnly
  BY <1>4, ReturnsNoneKeeps, EndsNowhereElse DEF CallReturnsNone
<1>5. ASSUME NEW then \in waiting, CallBegins(then)
      PROVE  SshInv' /\ EndOnly
  <2>1. then \in Follow
    BY DEF SshInv, SshTypeOK
  <2>2. SshInv'
    BY <1>5, <2>1, BeginKeeps DEF CallBegins
  <2>3. QED
    BY <1>5, <2>2, EndsNowhereElse DEF CallBegins
<1>6. CASE OtherBegins
  <2>1. Nothing \in Follow
    BY DEF Follow
  <2>2. SshInv'
    BY <1>6, <2>1, BeginKeeps DEF OtherBegins
  <2>3. QED
    BY <1>6, <2>2, EndsNowhereElse DEF OtherBegins
<1>7. CASE RetryBegins
  <2>1. Nothing \in Follow /\ other \in {"none", "queued", "passed", "running"}
    BY DEF Follow, SshInv, SshTypeOK
  <2>2. SshInv'
    BY <1>7, <2>1, BeginKeeps DEF RetryBegins
  <2>3. QED
    BY <1>7, <2>2, EndsNowhereElse DEF RetryBegins
<1>8. ASSUME NEW status \in {"succeeded", "failed"}, NEW took \in BOOLEAN,
             SessionEnds(status, took)
      PROVE  SshInv' /\ EndOnly
  BY <1>8, EndKeeps, EndRotates
<1>9. CASE UNCHANGED sshVars
  <2>1. SshInv'
    BY <1>9 DEF sshVars, SshInv, SshTypeOK, RevocationIsPending, SyncIsComing,
       OtherRuns, RotationsEnrolled
  <2>2. QED
    BY <1>9, <2>1, EndsNowhereElse DEF sshVars
<1>10. QED
  BY <1>1, <1>2, <1>3, <1>4, <1>5, <1>6, <1>7, <1>8, <1>9
     DEF SshNext, SyncBegins, SyncEnds

LEMMA SshInvariant == SshSpec => []SshInv
<1>1. SshInv /\ [SshNext]_sshVars => SshInv'
  BY SshStep
<1>2. QED
  BY <1>1, SshStarts, PTL DEF SshSpec

\* For any keys and operations in between, keys, calls and sessions are in their
\* types.
THEOREM SshTypeCorrect == SshSpec => []SshTypeOK
<1>1. SshInv => SshTypeOK
  BY DEF SshInv
<1>2. QED
  BY <1>1, SshInvariant, PTL

\* For any keys and operations in between, a revoked key that is on the target, or
\* that a running synchronization puts back there, is on its way out.
THEOREM RevocationPends == SshSpec => []RevocationIsPending
<1>1. SshInv => RevocationIsPending
  BY DEF SshInv
<1>2. QED
  BY <1>1, SshInvariant, PTL

\* For any keys and operations in between, a rotation whose own synchronization
\* failed keeps the old key.
THEOREM RotationKeepsOld == SshSpec => FailedRotationKeepsOld
<1>1. SshInv /\ [SshNext]_sshVars => [EndOnly]_sshVars
  BY SshStep
<1>2. [EndOnly]_sshVars =>
        [\A then \in Follow :
           (session.then = then /\ then # Nothing /\ session' = NoSession
            /\ key[then.old] = "active" /\ key'[then.old] = "revoked")
             => then.new \in onTarget' \/ key[then.new] = "revoked"]_sshVars
  BY DEF EndOnly
<1>3. QED
  BY <1>1, <1>2, SshInvariant, PTL DEF SshSpec, FailedRotationKeepsOld
=============================================================================
