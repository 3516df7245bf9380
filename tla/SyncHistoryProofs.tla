------------------------- MODULE SyncHistoryProofs -------------------------
(***************************************************************************)
(* What SyncEngine records of the past stays true, for any targets,        *)
(* capabilities and bounds: a failure is always scheduled, and a success   *)
(* is never overwritten.  What it records as running is one at a time, and *)
(* when nothing runs or waits any more, nothing is recorded as pending.    *)
(*                                                                         *)
(* All are about the session that was opened before the others acted and   *)
(* writes from its cache: the invariants relate what it saw to what is     *)
(* stored now.                                                             *)
(***************************************************************************)
EXTENDS SyncEngineProofs
-----------------------------------------------------------------------------
(***************************************************************************)
(* The inductive invariant.                                                *)
(***************************************************************************)
\* A session works for an operation; the target it calls is pending and not
\* scheduled in its cache; the targets it works on carry an operation.  Nobody
\* else writes the operation column, and what is recorded as failed now was so
\* when the session read it.
Sees(s) ==
  /\ s.op # NoOp
  /\ s.rows[s.at].state = "pending"
  /\ ~s.rows[s.at].retry
  /\ s.rows[s.at].op # NoOp
  /\ \A t \in s.todo : s.rows[t].op # NoOp
  /\ \A t \in Targets : s.rows[t].op = rows[t].op
  /\ \A t \in Targets : rows[t].state = "failed" => s.rows[t].state = "failed"

\* While the account exists, the operation of a session has not succeeded.
Open(s) ==
  user.exists /\ s.op \in 1..Len(ops) => ops[s.op].status # "succeeded"

History ==
  /\ TypeOK
  /\ FailedIsScheduled
  /\ \A s \in sess : Sees(s)
  /\ \A s \in sess : Open(s)
-----------------------------------------------------------------------------
(***************************************************************************)
(* The operation table: successes are kept.                                *)
(***************************************************************************)
\* Table n continues table o: the successes of o are those of n, and what n
\* adds has not succeeded.
Continues(o, n) ==
  /\ n \in Seq(Operation)
  /\ Len(o) <= Len(n)
  /\ \A i \in 1..Len(o) :
       (o[i].status = "succeeded") <=> (n[i].status = "succeeded")
  /\ \A i \in 1..Len(n) : i > Len(o) => n[i].status # "succeeded"

\* A commit of a session writes the status of its own operation only, and that
\* only when the session changed it.
LEMMA FlushOpAt ==
  ASSUME NEW s, s.op \in Nat, NEW o \in Seq(Operation),
         NEW status \in OperationStatus
  PROVE  /\ FlushOp(s, o, status) \in Seq(Operation)
         /\ Len(FlushOp(s, o, status)) = Len(o)
         /\ \A j \in 1..Len(o) :
              FlushOp(s, o, status)[j].status
                = IF j = s.op THEN Dirty(o[j].status, s.status, status)
                              ELSE o[j].status
<1>1. CASE status # s.status
  <2>1. FlushOp(s, o, status) = [o EXCEPT ![s.op].status = status]
    BY <1>1 DEF FlushOp, Dirty
  <2>2. QED
    BY <1>1, <2>1, StatusUpdate DEF Dirty
<1>2. CASE status = s.status
  <2>1. FlushOp(s, o, status) = [o EXCEPT ![s.op].status = @]
    BY <1>2 DEF FlushOp, Dirty
  <2>2. FlushOp(s, o, status) = o
    <3>1. CASE s.op \in 1..Len(o)
      <4>1. o[s.op] \in Operation
        BY <3>1, ElementOfSeq
      <4>2. [o[s.op] EXCEPT !.status = @] = o[s.op]
        BY <4>1 DEF Operation
      <4>3. QED
        BY <2>1, <4>2, LenProperties
    <3>2. CASE s.op \notin 1..Len(o)
      BY <2>1, <3>2, LenProperties
    <3>3. QED
      BY <3>1, <3>2
  <2>3. QED
    BY <1>2, <2>2 DEF Dirty
<1>3. QED
  BY <1>1, <1>2

\* request_operation cancels none but an unfinished operation: the table it
\* returns continues the one it is given.  It works under a numbered operation
\* and neither creates nor removes the account.
LEMMA RequestContinues ==
  ASSUME NEW cmd \in Command, NEW u \in UserRow, NEW o \in Seq(Operation)
  PROVE  /\ Continues(o, Request(cmd, u, o).ops)
         /\ Request(cmd, u, o).op # NoOp
         /\ Request(cmd, u, o).user.exists = u.exists
<1>1. Len(o) \in Nat /\ u.active \in Nat
  BY LenProperties DEF UserRow
<1>2. CASE Mode(cmd, u, o) = "reuse"
  <2>1. ActiveOperation(u, o) # {}
    BY <1>2 DEF Mode, DecideTransition, Unfinished
  <2>2. u.active # NoOp
    BY <2>1 DEF ActiveOperation
  <2>3. Request(cmd, u, o) = [op |-> u.active, user |-> u, ops |-> o]
    BY <1>2 DEF Request
  <2>4. QED
    BY <1>1, <2>2, <2>3 DEF Continues
<1>3. CASE Mode(cmd, u, o) # "reuse"
  <2> DEFINE kept == IF Mode(cmd, u, o) = "supersede"
                     THEN [o EXCEPT ![u.active].status = "cancelled"]
                     ELSE o
             added == [cmd |-> cmd, status |-> "queued"]
  <2>1. /\ kept \in Seq(Operation) /\ Len(kept) = Len(o)
        /\ \A i \in 1..Len(o) :
             (o[i].status = "succeeded") <=> (kept[i].status = "succeeded")
    <3>1. CASE Mode(cmd, u, o) = "supersede"
      <4>1. u.active # NoOp /\ o[u.active].status \notin TerminalStatus
        BY <3>1 DEF Mode, DecideTransition, Unfinished, ActiveOperation
      <4>2. o[u.active].status # "succeeded"
        BY <4>1 DEF TerminalStatus
      <4>3. kept = [o EXCEPT ![u.active].status = "cancelled"]
        BY <3>1
      <4>4. "cancelled" \in OperationStatus
        BY DEF OperationStatus, TerminalStatus
      <4> HIDE DEF kept
      <4>5. QED
        BY <1>1, <4>2, <4>3, <4>4, StatusUpdate
    <3>2. CASE Mode(cmd, u, o) # "supersede"
      BY <3>2
    <3>3. QED
      BY <3>1, <3>2
  <2>2. added \in Operation /\ added.status # "succeeded"
    BY DEF Operation, OperationStatus
  <2>3. Request(cmd, u, o) =
          [op |-> Len(o) + 1, user |-> [u EXCEPT !.active = Len(o) + 1],
           ops |-> Append(kept, added)]
    BY <1>3 DEF Request
  <2>4. [u EXCEPT !.active = Len(o) + 1].exists = u.exists
    BY DEF UserRow
  <2> HIDE DEF kept, added
  <2>5. Continues(o, Append(kept, added))
    BY <1>1, <2>1, <2>2, AppendProperties DEF Continues
  <2>6. QED
    <3> DEFINE next == [u EXCEPT !.active = Len(o) + 1]
               table == Append(kept, added)
    <3>1. Request(cmd, u, o) = [op |-> Len(o) + 1, user |-> next, ops |-> table]
      BY <2>3
    <3>2. next.exists = u.exists /\ Continues(o, table)
      BY <2>4, <2>5
    <3> HIDE DEF next, table
    <3>3. QED
      BY <1>1, <3>1, <3>2 DEF NoOp
<1>4. QED
  BY <1>2, <1>3
-----------------------------------------------------------------------------
(***************************************************************************)
(* The rows: a stale session does not unschedule a failure.                *)
(***************************************************************************)
\* The session's row before and after: the operation is cleared nowhere, a new
\* failure is scheduled and was not before, an old one is left alone.
Follows(seen, new) ==
  /\ new.op # seen.op => new.op # NoOp
  /\ new.state = "failed" /\ seen.state # "failed" =>
       new.retry /\ ~seen.retry /\ new.op # NoOp
  /\ new.state = "failed" /\ seen.state = "failed" => new.retry = seen.retry

\* A commit of such a row leaves a failure scheduled, whatever became of the
\* stored row in between, and the session's operation in it.
LEMMA FlushFollows ==
  ASSUME NEW stored \in TargetRow, NEW seen \in TargetRow, NEW new \in TargetRow,
         seen.op = stored.op,
         stored.state = "failed" =>
           seen.state = "failed" /\ stored.retry /\ stored.op # NoOp,
         Follows(seen, new)
  PROVE  /\ FlushRow(stored, seen, new).state = "failed" =>
              /\ FlushRow(stored, seen, new).retry
              /\ FlushRow(stored, seen, new).op # NoOp
              /\ new.state = "failed"
         /\ FlushRow(stored, seen, new).op = new.op
<1> DEFINE row == FlushRow(stored, seen, new)
<1>1. /\ row.state = Dirty(stored.state, seen.state, new.state)
      /\ row.op = Dirty(stored.op, seen.op, new.op)
      /\ row.retry = Dirty(stored.retry, seen.retry, new.retry)
  BY DEF FlushRow, TargetRow
<1> HIDE DEF row
<1>2. row.op = new.op
  BY <1>1 DEF Dirty
<1>3. ASSUME row.state = "failed"
      PROVE  row.retry /\ row.op # NoOp /\ new.state = "failed"
  <2>1. CASE new.state = seen.state
    <3>1. stored.state = "failed"
      BY <1>1, <1>3, <2>1 DEF Dirty
    <3>2. seen.state = "failed" /\ stored.retry /\ stored.op # NoOp
      BY <3>1
    <3>3. new.state = "failed" /\ new.retry = seen.retry
      BY <2>1, <3>2 DEF Follows
    <3>4. row.retry
      BY <1>1, <3>2, <3>3 DEF Dirty
    <3>5. row.op # NoOp
      BY <1>2, <3>2 DEF Follows
    <3>6. QED
      BY <3>3, <3>4, <3>5
  <2>2. CASE new.state # seen.state
    <3>1. new.state = "failed"
      BY <1>1, <1>3, <2>2 DEF Dirty
    <3>2. new.retry /\ ~seen.retry /\ new.op # NoOp
      BY <2>2, <3>1 DEF Follows
    <3>3. row.retry
      BY <1>1, <3>2 DEF Dirty
    <3>4. QED
      BY <1>2, <3>1, <3>2, <3>3
  <2>3. QED
    BY <2>1, <2>2
<1>4. QED
  BY <1>2, <1>3 DEF row
-----------------------------------------------------------------------------
(***************************************************************************)
(* The synchronization.                                                    *)
(***************************************************************************)
\* A session and its computed rows, account and table that keep the invariant
\* when they are committed.
Sound(s, r, st, o) ==
  /\ s.op # NoOp
  /\ \A t \in Targets : s.rows[t].op = rows[t].op
  /\ \A t \in Targets : rows[t].state = "failed" => s.rows[t].state = "failed"
  /\ \A t \in s.todo : r[t].op # NoOp
  /\ \A t \in Targets : Follows(s.rows[t], r[t])
  /\ st \in {s.status, "running"}
  /\ Continues(ops, o)
  /\ s.op \in 1..Len(o) => o[s.op].status # "succeeded"

\* Passing over targets fails none of them and moves none to another operation.
LEMMA SettleFollows ==
  ASSUME NEW s, NEW u, NEW r \in [Targets -> TargetRow], NEW Q
  PROVE  \A t \in Targets :
           /\ Settle(s, u, r, Q)[t].op = r[t].op
           /\ Settle(s, u, r, Q)[t].state = "failed" => Settle(s, u, r, Q)[t] = r[t]
<1>1. ASSUME NEW t \in Targets
      PROVE  /\ Settle(s, u, r, Q)[t].op = r[t].op
             /\ Settle(s, u, r, Q)[t].state = "failed"
                  => Settle(s, u, r, Q)[t] = r[t]
  <2> DEFINE new == Settle(s, u, r, Q)[t]
  <2>1. \/ new = r[t]
        \/ new = [r[t] EXCEPT !.state = "unsupported", !.retry = FALSE]
    BY <1>1 DEF Settle
  <2>2. r[t] \in TargetRow
    BY <1>1
  <2> HIDE DEF new
  <2>3. new.op = r[t].op /\ (new.state = "failed" => new = r[t])
    BY <2>1, <2>2 DEF TargetRow
  <2>4. QED
    BY <2>3 DEF new
<1>2. QED
  BY <1>1

\* The answer of a connector fails a row only with its retry scheduled, and
\* leaves the row's operation alone.
LEMMA RowAfterScheduled ==
  ASSUME NEW s, NEW row \in TargetRow, NEW outcome
  PROVE  /\ RowAfter(s, row, outcome).op = row.op
         /\ RowAfter(s, row, outcome).state = "failed"
              => RowAfter(s, row, outcome).retry
<1>1. StateAfterSuccess(s, row) # "failed"
  BY DEF StateAfterSuccess
<1> DEFINE succeeded == StateAfterSuccess(s, row)
<1> HIDE DEF succeeded
<1>2. CASE outcome = "ok"
  <2>1. RowAfter(s, row, outcome)
          = [row EXCEPT !.state = succeeded, !.retry = FALSE]
    BY <1>2 DEF RowAfter, succeeded
  <2>2. succeeded # "failed"
    BY <1>1 DEF succeeded
  <2>3. QED
    BY <2>1, <2>2 DEF TargetRow
<1>3. CASE outcome = "invalid"
  <2>1. RowAfter(s, row, outcome) = [row EXCEPT !.state = "unsupported"]
    BY <1>3 DEF RowAfter
  <2>2. QED
    BY <2>1 DEF TargetRow
<1>4. CASE outcome \notin {"ok", "invalid"}
  <2>1. RowAfter(s, row, outcome)
          = [row EXCEPT !.state = "failed", !.retry = TRUE]
    BY <1>4 DEF RowAfter
  <2>2. QED
    BY <2>1 DEF TargetRow
<1>5. QED
  BY <1>2, <1>3, <1>4

\* The rows a session commits keep a failure scheduled.
LEMMA CommitScheduled ==
  ASSUME FailedIsScheduled, TypeOK, NEW s, NEW new \in [Targets -> TargetRow],
         s.rows \in [Targets -> TargetRow],
         \A t \in Targets : s.rows[t].op = rows[t].op,
         \A t \in Targets : rows[t].state = "failed" => s.rows[t].state = "failed",
         \A t \in Targets : Follows(s.rows[t], new[t]),
         rows' = [t \in Targets |-> FlushRow(rows[t], s.rows[t], new[t])]
  PROVE  /\ FailedIsScheduled'
         /\ \A t \in Targets : new[t].op = rows'[t].op
         /\ \A t \in Targets : rows'[t].state = "failed" => new[t].state = "failed"
<1>1. ASSUME NEW t \in Targets
      PROVE  /\ rows'[t].state = "failed" =>
                  rows'[t].retry /\ rows'[t].op # NoOp /\ new[t].state = "failed"
             /\ rows'[t].op = new[t].op
  <2>1. /\ rows[t] \in TargetRow /\ s.rows[t] \in TargetRow
        /\ new[t] \in TargetRow
    BY <1>1 DEF TypeOK
  <2>2. rows[t].state = "failed" =>
          s.rows[t].state = "failed" /\ rows[t].retry /\ rows[t].op # NoOp
    BY <1>1 DEF FailedIsScheduled
  <2>3. s.rows[t].op = rows[t].op /\ Follows(s.rows[t], new[t])
    BY <1>1
  <2>4. rows'[t] = FlushRow(rows[t], s.rows[t], new[t])
    BY <1>1
  <2>5. QED
    BY <2>1, <2>2, <2>3, <2>4, FlushFollows
<1>2. QED
  BY <1>1 DEF FailedIsScheduled

\* The successes of the stored table survive a commit of the session.
LEMMA CommitKeeps ==
  ASSUME TypeOK, NEW s, s.op \in Nat, NEW o, NEW status \in OperationStatus,
         Continues(ops, o),
         s.op \in 1..Len(o) => o[s.op].status # "succeeded",
         ops' = FlushOp(s, o, status)
  PROVE  /\ \A i \in 1..Len(ops) :
              /\ i \in 1..Len(ops')
              /\ ops[i].status = "succeeded" => ops'[i].status = "succeeded"
         /\ status \in {s.status, "running"} =>
              (s.op \in 1..Len(ops') => ops'[s.op].status # "succeeded")
<1>1. o \in Seq(Operation) /\ Len(ops) \in Nat /\ Len(o) \in Nat
  BY LenProperties DEF Continues, TypeOK
<1>2. /\ Len(ops') = Len(o)
      /\ \A j \in 1..Len(o) :
           ops'[j].status = IF j = s.op THEN Dirty(o[j].status, s.status, status)
                                        ELSE o[j].status
  BY <1>1, FlushOpAt
<1>3. Len(ops) <= Len(o)
  BY DEF Continues
<1>4. ASSUME NEW i \in 1..Len(ops), ops[i].status = "succeeded"
      PROVE  ops'[i].status = "succeeded"
  <2>1. i \in 1..Len(o) /\ o[i].status = "succeeded"
    BY <1>1, <1>3, <1>4 DEF Continues
  <2>2. QED
    BY <1>2, <2>1
<1>5. ASSUME status \in {s.status, "running"}, s.op \in 1..Len(ops')
      PROVE  ops'[s.op].status # "succeeded"
  <2>1. s.op \in 1..Len(o) /\ o[s.op].status # "succeeded"
    BY <1>2, <1>5
  <2>2. ops'[s.op].status = Dirty(o[s.op].status, s.status, status)
    BY <1>2, <2>1
  <2>3. QED
    BY <1>5, <2>1, <2>2 DEF Dirty
<1>6. QED
  BY <1>1, <1>2, <1>3, <1>4, <1>5

\* What a step of the synchronization, or of a handler, must leave.
Recorded ==
  /\ FailedIsScheduled'
  /\ \A s \in sess' : Sees(s)'
  /\ \A s \in sess' : Open(s)'
  /\ \A i \in 1..Len(ops) :
       /\ i \in 1..Len(ops')
       /\ ops[i].status = "succeeded" => ops'[i].status = "succeeded"

\* The start of the next attempt.
LEMMA StartAttemptRecorded ==
  ASSUME TypeOK, FailedIsScheduled, NEW s, NEW u, NEW r, NEW st, NEW o,
         Computed(s, u, r, st, o), Sound(s, r, st, o),
         NEW Q, NEW t \in s.todo, StartAttempt(s, u, r, st, o, Q, t)
  PROVE  Recorded
<1> DEFINE settled == Settle(s, u, r, Q)
           new == [settled EXCEPT ![t].state = "pending", ![t].retry = FALSE]
           next == [s EXCEPT !.user = u, !.rows = new, !.status = st,
                             !.todo = @ \ (Q \cup {t}), !.at = t,
                             !.doing = OperationFor(s, u, r[t])]
<1>1. /\ s \in SessionAt(Targets \cup {NoTarget}) /\ r \in [Targets -> TargetRow]
      /\ st \in OperationStatus
  BY DEF Computed
<1>2. /\ s.rows \in [Targets -> TargetRow] /\ s.op \in Nat
      /\ s.todo \subseteq Targets /\ t \in Targets
  BY <1>1 DEF SessionAt
<1>3. settled \in [Targets -> TargetRow]
  BY <1>1, SettleType
<1>4. \A x \in Targets : /\ Follows(s.rows[x], settled[x])
                         /\ settled[x].op = r[x].op
  <2>1. \A x \in Targets : Follows(s.rows[x], r[x])
    BY DEF Sound
  <2>2. \A x \in Targets :
          /\ settled[x].op = r[x].op
          /\ settled[x].state = "failed" => settled[x] = r[x]
    BY <1>1, SettleFollows
  <2> HIDE DEF settled
  <2>3. QED
    BY <2>1, <2>2 DEF Follows
<1>5. /\ rows' = [x \in Targets |-> FlushRow(rows[x], s.rows[x], new[x])]
      /\ ops' = FlushOp(s, o, st)
      /\ sess' = {next}
  BY DEF StartAttempt
<1>6. /\ next.op = s.op /\ next.rows = new /\ next.at = t
      /\ next.todo \subseteq s.todo
  BY <1>1 DEF SessionAt
<1> HIDE DEF settled, next
<1>6a. Attempted(settled, t, new)
  BY DEF Attempted
<1> HIDE DEF new
<1>7. /\ new \in [Targets -> TargetRow]
      /\ new[t].state = "pending" /\ ~new[t].retry /\ new[t].op = settled[t].op
      /\ \A x \in Targets : x # t => new[x] = settled[x]
  BY ONLY <1>2, <1>3, <1>6a, AttemptRow
<1>8. /\ new[t].state = "pending" /\ ~new[t].retry
      /\ \A x \in Targets : new[x].op = r[x].op
      /\ \A x \in Targets : x # t => new[x] = settled[x]
  BY <1>2, <1>4, <1>7
<1>9. ASSUME NEW x \in Targets
      PROVE  Follows(s.rows[x], new[x])
  <2>1. CASE x = t
    BY <1>2, <1>4, <1>8, <2>1 DEF Follows
  <2>2. CASE x # t
    BY <1>4, <1>8, <1>9, <2>2
  <2>3. QED
    BY <2>1, <2>2
<1>10. /\ \A x \in Targets : s.rows[x].op = rows[x].op
       /\ \A x \in Targets : rows[x].state = "failed" => s.rows[x].state = "failed"
  BY DEF Sound
<1>11. /\ FailedIsScheduled'
       /\ \A x \in Targets : new[x].op = rows'[x].op
       /\ \A x \in Targets : rows'[x].state = "failed" => new[x].state = "failed"
  BY <1>2, <1>5, <1>7, <1>9, <1>10, CommitScheduled
<1>12. /\ Continues(ops, o)
       /\ s.op \in 1..Len(o) => o[s.op].status # "succeeded"
       /\ st \in {s.status, "running"}
  BY DEF Sound
<1>13. /\ \A i \in 1..Len(ops) :
            /\ i \in 1..Len(ops')
            /\ ops[i].status = "succeeded" => ops'[i].status = "succeeded"
       /\ s.op \in 1..Len(ops') => ops'[s.op].status # "succeeded"
  BY <1>1, <1>2, <1>5, <1>12, CommitKeeps
<1>14. \A x \in s.todo : new[x].op # NoOp
  BY <1>2, <1>8 DEF Sound
<1>15. Sees(next)'
  BY <1>2, <1>6, <1>8, <1>11, <1>14 DEF Sees, Sound
<1>16. Open(next)'
  BY <1>6, <1>13 DEF Open
<1>17. QED
  BY <1>5, <1>11, <1>13, <1>15, <1>16 DEF Recorded

\* The end of an operation.
LEMMA EndOperationRecorded ==
  ASSUME TypeOK, FailedIsScheduled, NEW s, NEW u, NEW r, NEW st, NEW o,
         Computed(s, u, r, st, o), Sound(s, r, st, o),
         EndOperation(s, u, r, st, o)
  PROVE  Recorded
<1> DEFINE new   == Settle(s, u, r, s.todo)
           final == FinalStatus(s, new, st)
<1>1. /\ s \in SessionAt(Targets \cup {NoTarget}) /\ r \in [Targets -> TargetRow]
      /\ st \in OperationStatus
  BY DEF Computed
<1>2. s.rows \in [Targets -> TargetRow] /\ s.op \in Nat
  BY <1>1 DEF SessionAt
<1>3. new \in [Targets -> TargetRow] /\ final \in OperationStatus
  BY <1>1, SettleType, FinalStatusType
<1>4. \A x \in Targets : Follows(s.rows[x], new[x])
  <2>1. \A x \in Targets : Follows(s.rows[x], r[x])
    BY DEF Sound
  <2>2. \A x \in Targets : /\ new[x].op = r[x].op
                           /\ new[x].state = "failed" => new[x] = r[x]
    BY <1>1, SettleFollows
  <2> HIDE DEF new
  <2>3. QED
    BY <2>1, <2>2 DEF Follows
<1>5. /\ rows' = [x \in Targets |-> FlushRow(rows[x], s.rows[x], new[x])]
      /\ ops' = FlushOp(s, o, final)
      /\ sess' = {}
  BY DEF EndOperation
<1> HIDE DEF new, final
<1>6. /\ \A x \in Targets : s.rows[x].op = rows[x].op
      /\ \A x \in Targets : rows[x].state = "failed" => s.rows[x].state = "failed"
      /\ Continues(ops, o)
      /\ s.op \in 1..Len(o) => o[s.op].status # "succeeded"
  BY DEF Sound
<1>7. FailedIsScheduled'
  BY <1>2, <1>3, <1>4, <1>5, <1>6, CommitScheduled
<1>8. \A i \in 1..Len(ops) :
        /\ i \in 1..Len(ops')
        /\ ops[i].status = "succeeded" => ops'[i].status = "succeeded"
  BY <1>2, <1>3, <1>5, <1>6, CommitKeeps
<1>9. QED
  BY <1>5, <1>7, <1>8 DEF Recorded

LEMMA AdvanceRecorded ==
  ASSUME TypeOK, FailedIsScheduled, NEW s, NEW u, NEW r, NEW st, NEW o,
         Computed(s, u, r, st, o), Sound(s, r, st, o), Advance(s, u, r, st, o)
  PROVE  Recorded
<1>1. CASE EndOperation(s, u, r, st, o)
  BY <1>1, EndOperationRecorded
<1>2. CASE \E Q, t : t \in s.todo /\ StartAttempt(s, u, r, st, o, Q, t)
  BY <1>2, StartAttemptRecorded
<1>3. QED
  BY <1>1, <1>2 DEF Advance
-----------------------------------------------------------------------------
(***************************************************************************)
(* The steps of the synchronization keep the invariant.                    *)
(***************************************************************************)
\* A table continues itself.
LEMMA ContinuesItself ==
  ASSUME TypeOK
  PROVE  Continues(ops, ops)
BY LenProperties DEF Continues, TypeOK

\* The operation a call works under is numbered, and its table continues the
\* stored one.
LEMMA ChosenContinues ==
  ASSUME TypeOK, NEW c \in Call
  PROVE  Chosen(c).op # NoOp /\ Continues(ops, Chosen(c).ops)
<1>1. CASE GivenOp(c) # NoOp
  <2>1. Chosen(c) = [op |-> GivenOp(c), user |-> user, ops |-> ops]
    BY <1>1 DEF Chosen
  <2>2. QED
    BY <1>1, <2>1, ContinuesItself
<1>2. CASE GivenOp(c) = NoOp
  <2>1. CommandFor(c) \in Command /\ user \in UserRow /\ ops \in Seq(Operation)
    BY DEF CommandFor, Command, TypeOK
  <2>2. Chosen(c) = Request(CommandFor(c), user, ops)
    BY <1>2 DEF Chosen
  <2>3. QED
    BY <2>1, <2>2, RequestContinues
<1>3. QED
  BY <1>1, <1>2

\* A synchronization starts from the rows as they are, and claims those in its
\* scope for an operation that may be resumed.
LEMMA StartsRecorded ==
  ASSUME History, SyncStarts
  PROVE  Recorded
<1>1. PICK c \in Call :
        /\ Starting(c).status \in Resumable
        /\ Computed(Starting(c), Resumed(Chosen(c)), Claimed(c), "running",
                    Chosen(c).ops)
        /\ Advance(Starting(c), Resumed(Chosen(c)), Claimed(c), "running",
                   Chosen(c).ops)
  BY StartsComputed DEF History
<1>2. Chosen(c).ops[Chosen(c).op].status \in Resumable
  BY <1>1 DEF Starting
<1>4. TypeOK /\ FailedIsScheduled /\ rows \in [Targets -> TargetRow]
  BY DEF History, TypeOK
<1>5. Chosen(c).op # NoOp /\ Continues(ops, Chosen(c).ops)
  BY <1>1, <1>4, ChosenContinues
<1>6. /\ Starting(c).op = Chosen(c).op
      /\ Starting(c).rows = rows
      /\ Starting(c).todo \subseteq Scope(c) \cap Targets
  BY DEF Starting, Scope
<1>7. ASSUME NEW t \in Targets
      PROVE  /\ Follows(rows[t], Claimed(c)[t])
             /\ t \in Scope(c) => Claimed(c)[t].op = Chosen(c).op
  <2>1. rows[t] \in TargetRow
    BY <1>4, <1>7
  <2>2. CASE t \in Scope(c)
    <3>1. Claimed(c)[t] = [rows[t] EXCEPT !.op = Chosen(c).op]
      BY <1>7, <2>2 DEF Claimed
    <3>2. /\ Claimed(c)[t].op = Chosen(c).op
          /\ Claimed(c)[t].state = rows[t].state
          /\ Claimed(c)[t].retry = rows[t].retry
      BY <2>1, <3>1 DEF TargetRow
    <3>3. QED
      BY <1>5, <3>2 DEF Follows
  <2>3. CASE t \notin Scope(c)
    BY <1>7, <2>3 DEF Claimed, Follows
  <2>4. QED
    BY <2>2, <2>3
<1>8. Chosen(c).ops[Chosen(c).op].status # "succeeded"
  BY <1>2 DEF Resumable
<1>9. Sound(Starting(c), Claimed(c), "running", Chosen(c).ops)
  <2>1. \A t \in Starting(c).todo : Claimed(c)[t].op # NoOp
    BY <1>5, <1>6, <1>7
  <2>2. QED
    BY <1>5, <1>6, <1>7, <1>8, <2>1 DEF Sound
<1>10. QED
  BY <1>1, <1>4, <1>9, AdvanceRecorded

\* The answer of a connector is recorded on the row the session called.
LEMMA ReturnsRecorded ==
  ASSUME History, NEW s \in sess, NEW outcome, ReturnsWith(s, outcome)
  PROVE  Recorded
<1> DEFINE r == [s.rows EXCEPT ![s.at] = RowAfter(s, @, outcome)]
<1>1. TypeOK /\ FailedIsScheduled /\ Sees(s) /\ Open(s) /\ user.exists
  BY DEF History, ReturnsWith
<1>2. Computed(s, s.user, r, s.status, ops) /\ Advance(s, s.user, r, s.status, ops)
  BY <1>1, ReturnsComputed DEF ReturnsWith
<1>3. /\ s.at \in Targets /\ s.todo \subseteq Targets
      /\ s.rows \in [Targets -> TargetRow]
  <2>1. s \in SessionAt(Targets)
    BY <1>1, AnsweredType
  <2>2. QED
    BY <2>1 DEF SessionAt
<1>4. ASSUME NEW t \in Targets
      PROVE  Follows(s.rows[t], r[t]) /\ r[t].op = s.rows[t].op
  <2>1. CASE t # s.at
    <3>1. r[t] = s.rows[t]
      BY <1>3, <1>4, <2>1
    <3>2. QED
      BY <3>1 DEF Follows
  <2>2. CASE t = s.at
    <3>1. r[t] = RowAfter(s, s.rows[t], outcome) /\ s.rows[t] \in TargetRow
      BY <1>3, <2>2
    <3>2. s.rows[t].state = "pending" /\ ~s.rows[t].retry /\ s.rows[t].op # NoOp
      BY <1>1, <2>2 DEF Sees
    <3> HIDE DEF r
    <3>3. /\ r[t].op = s.rows[t].op
          /\ r[t].state = "failed" => r[t].retry
      BY <3>1, RowAfterScheduled
    <3>4. QED
      BY <3>2, <3>3 DEF Follows
  <2>3. QED
    BY <2>1, <2>2
<1> HIDE DEF r
<1>5. \A t \in s.todo : r[t].op # NoOp
  BY <1>1, <1>3, <1>4 DEF Sees
<1>6. Continues(ops, ops)
  BY <1>1, ContinuesItself
<1>7. Sound(s, r, s.status, ops)
  BY <1>1, <1>4, <1>5, <1>6 DEF Sound, Sees, Open
<1>8. QED
  BY <1>1, <1>2, <1>7, AdvanceRecorded
-----------------------------------------------------------------------------
(***************************************************************************)
(* The handlers, the worker and a restart.                                 *)
(***************************************************************************)
\* What everything outside the session leaves: it takes rows out of failure,
\* never into it, writes no operation column, continues the operation table
\* unless it removes the account, and opens no session.
Handled ==
  /\ \A t \in Targets : /\ rows'[t].op = rows[t].op
                        /\ rows'[t].state = "failed" => rows'[t] = rows[t]
  /\ sess' \subseteq sess
  /\ user'.exists => user.exists /\ Continues(ops, ops')
  /\ \A i \in 1..Len(ops) :
       /\ i \in 1..Len(ops')
       /\ ops[i].status = "succeeded" => ops'[i].status = "succeeded"

LEMMA HandledRecorded ==
  ASSUME History, Handled
  PROVE  Recorded
<1>1. FailedIsScheduled'
  BY DEF History, Handled, FailedIsScheduled
<1>2. ASSUME NEW s \in sess'
      PROVE  Sees(s)'
  <2>1. Sees(s)
    BY <1>2 DEF History, Handled
  <2>2. \A t \in Targets : s.rows[t].op = rows'[t].op
    BY <2>1 DEF Sees, Handled
  <2>3. \A t \in Targets : rows'[t].state = "failed" => s.rows[t].state = "failed"
    BY <2>1 DEF Sees, Handled
  <2>4. QED
    BY <2>1, <2>2, <2>3 DEF Sees
<1>3. ASSUME NEW s \in sess', user'.exists, s.op \in 1..Len(ops')
      PROVE  ops'[s.op].status # "succeeded"
  <2>1. Open(s) /\ user.exists /\ Continues(ops, ops') /\ s.op \in 1..Len(ops')
    BY <1>3 DEF History, Handled
  <2>2. CASE s.op \in 1..Len(ops)
    BY <2>1, <2>2 DEF Open, Continues
  <2>3. CASE s.op \notin 1..Len(ops)
    <3>1. Len(ops) \in Nat /\ Len(ops') \in Nat
      BY <2>1, LenProperties DEF History, TypeOK, Continues
    <3>2. s.op > Len(ops)
      BY <2>1, <2>3, <3>1
    <3>3. QED
      BY <2>1, <3>2 DEF Continues
  <2>4. QED
    BY <2>2, <2>3
<1>4. \A s \in sess' : Open(s)'
  BY <1>3 DEF Open
<1>5. QED
  BY <1>1, <1>2, <1>4 DEF Recorded, Handled

\* A table that continues the stored one keeps its successes.
LEMMA ContinuedKeeps ==
  ASSUME TypeOK, Continues(ops, ops')
  PROVE  \A i \in 1..Len(ops) :
           /\ i \in 1..Len(ops')
           /\ ops[i].status = "succeeded" => ops'[i].status = "succeeded"
<1>1. Len(ops) \in Nat /\ Len(ops') \in Nat /\ Len(ops) <= Len(ops')
  BY LenProperties DEF TypeOK, Continues
<1>2. QED
  BY <1>1 DEF Continues

\* The operation table is left alone.
LEMMA OpsUnchanged ==
  ASSUME TypeOK, ops' = ops
  PROVE  Continues(ops, ops')
BY ContinuesItself

\* Marking a row pending, held or unassigned takes it out of failure.
LEMMA SetPendingHandled ==
  ASSUME TypeOK, NEW selected, NEW requireChange, NEW remoteAbsent,
         SetPending(selected, requireChange, remoteAbsent)
  PROVE  \A t \in Targets :
           /\ rows'[t].op = rows[t].op
           /\ rows'[t].state = "failed" => rows'[t] = rows[t]
BY DEF SetPending, TypeOK, TargetRow

\* The administrator's handlers.
LEMMA AdministerHandled ==
  ASSUME TypeOK, Administer
  PROVE  Handled
<1>1. user \in UserRow /\ ops \in Seq(Operation)
  BY DEF TypeOK
<1>2. \A cmd \in {"update", "delete", "restore"} :
        /\ Continues(ops, Request(cmd, user, ops).ops)
        /\ Request(cmd, user, ops).user.exists = user.exists
        /\ Request(cmd, user, ops).user \in UserRow
  BY <1>1, RequestContinues, RequestType DEF Command
<1>3. CASE UpdateUser
  <2>1. PICK selected, disabled :
          /\ user' = [Request("update", user, ops).user EXCEPT !.disabled = disabled]
          /\ ops' = Request("update", user, ops).ops
          /\ SetPending(selected, FALSE, FALSE)
          /\ sess' = sess
    BY <1>3 DEF UpdateUser
  <2>2. user'.exists = user.exists /\ Continues(ops, ops')
    BY <1>2, <2>1 DEF UserRow
  <2>3. QED
    BY <2>1, <2>2, ContinuedKeeps, SetPendingHandled DEF Handled
<1>4. CASE ResetPassword
  <2>1. PICK selected, disabled :
          /\ user' = [Request("update", user, ops).user EXCEPT
                        !.disabled = disabled, !.kind = "reset",
                        !.secret = NoPwd, !.pwd = @ + 1]
          /\ ops' = Request("update", user, ops).ops
          /\ SetPending(selected, TRUE, FALSE)
          /\ sess' = sess
    BY <1>4 DEF ResetPassword
  <2>2. user'.exists = user.exists /\ Continues(ops, ops')
    BY <1>2, <2>1 DEF UserRow
  <2>3. QED
    BY <2>1, <2>2, ContinuedKeeps, SetPendingHandled DEF Handled
<1>5. CASE DeleteUser
  <2>1. /\ user' = [Request("delete", user, ops).user EXCEPT
                      !.desired = "delete", !.deleted = FALSE]
        /\ ops' = Request("delete", user, ops).ops
        /\ SetPending(Assigned, FALSE, FALSE)
        /\ sess' = sess
    BY <1>5 DEF DeleteUser
  <2>2. user'.exists = user.exists /\ Continues(ops, ops')
    BY <1>2, <2>1 DEF UserRow
  <2>3. QED
    BY <2>1, <2>2, ContinuedKeeps, SetPendingHandled DEF Handled
<1>6. CASE RestoreUser
  <2>1. /\ user' = [Request("restore", user, ops).user EXCEPT
                      !.desired = "ensure", !.deleted = FALSE,
                      !.disabled = FALSE, !.kind = "reset", !.secret = NoPwd,
                      !.pwd = @ + 1]
        /\ ops' = Request("restore", user, ops).ops
        /\ SetPending(Assigned \cap available, TRUE, TRUE)
        /\ sess' = sess
    BY <1>6 DEF RestoreUser
  <2>2. user'.exists = user.exists /\ Continues(ops, ops')
    BY <1>2, <2>1 DEF UserRow
  <2>3. QED
    BY <2>1, <2>2, ContinuedKeeps, SetPendingHandled DEF Handled
<1>7. CASE PurgeUser
  <2> DEFINE purge == [cmd |-> "purge", status |-> "succeeded"]
  <2>1. ops' = Append(ops, purge) /\ purge \in Operation
    BY <1>7 DEF PurgeUser, Operation, Command, OperationStatus, TerminalStatus
  <2> HIDE DEF purge
  <2>2. \A i \in 1..Len(ops) : i \in 1..Len(ops') /\ ops'[i] = ops[i]
    BY <1>1, <2>1, LenProperties, AppendProperties
  <2>3. ~user'.exists
    BY <1>1, <1>7 DEF PurgeUser, UserRow
  <2>4. QED
    BY <1>7, <2>2, <2>3 DEF PurgeUser, Handled
<1>8. CASE \E t \in Targets : RetryTarget(t)
  BY <1>8, OpsUnchanged, ContinuedKeeps DEF RetryTarget, Handled
<1>9. QED
  BY <1>3, <1>4, <1>5, <1>6, <1>7, <1>8 DEF Administer

\* credential_handoff makes waiting rows pending.
LEMMA HandoffHandled ==
  ASSUME TypeOK, NEW u \in UserRow, NEW p, CredentialHandoff(u, p)
  PROVE  /\ user'.exists = u.exists
         /\ \A t \in Targets :
              /\ rows'[t].op = rows[t].op
              /\ rows'[t].state = "failed" => rows'[t] = rows[t]
<1>1. \/ user' = u
      \/ user' = [u EXCEPT !.secret = p]
  BY DEF CredentialHandoff
<1>2. \/ rows' = rows
      \/ rows' = [t \in Targets |->
                    IF t \in Waiting THEN [rows[t] EXCEPT !.state = "pending"]
                                     ELSE rows[t]]
  BY DEF CredentialHandoff
<1>3. user'.exists = u.exists
  BY <1>1 DEF UserRow
<1>4. ASSUME NEW t \in Targets
      PROVE  /\ rows'[t].op = rows[t].op
             /\ rows'[t].state = "failed" => rows'[t] = rows[t]
  <2>1. rows[t] \in TargetRow
    BY <1>4 DEF TypeOK
  <2>2. rows'[t] = rows[t] \/ rows'[t] = [rows[t] EXCEPT !.state = "pending"]
    BY <1>2, <1>4
  <2>3. QED
    BY <2>1, <2>2 DEF TargetRow
<1>5. QED
  BY <1>3, <1>4

\* The user's own actions.
LEMMA UserActionHandled ==
  ASSUME TypeOK, Login \/ ChangePassword \/ KeepPassword
  PROVE  Handled
<1>1. user \in UserRow /\ user.pwd + 1 \in Nat
  BY DEF TypeOK, UserRow
<1>2. ops' = ops /\ sess' = sess
  BY DEF Login, ChangePassword, KeepPassword
<1>3. \E p : \E u \in UserRow : CredentialHandoff(u, p) /\ u.exists = user.exists
  <2>1. CASE Login
    BY <1>1, <2>1 DEF Login
  <2>2. CASE ChangePassword
    <3> DEFINE u == [user EXCEPT !.kind = "none", !.pwd = @ + 1]
    <3>1. u \in UserRow /\ u.exists = user.exists
      BY <1>1 DEF UserRow, Kinds
    <3>2. CredentialHandoff(u, user.pwd + 1)
      BY <2>2 DEF ChangePassword
    <3> HIDE DEF u
    <3>3. QED
      BY <3>1, <3>2
  <2>3. CASE KeepPassword
    <3> DEFINE u == [user EXCEPT !.kind = "none"]
    <3>1. u \in UserRow /\ u.exists = user.exists
      BY <1>1 DEF UserRow, Kinds
    <3>2. CredentialHandoff(u, user.pwd)
      BY <2>3 DEF KeepPassword
    <3> HIDE DEF u
    <3>3. QED
      BY <3>1, <3>2
  <2>4. QED
    BY <2>1, <2>2, <2>3
<1>4. /\ user'.exists = user.exists
      /\ \A t \in Targets :
           /\ rows'[t].op = rows[t].op
           /\ rows'[t].state = "failed" => rows'[t] = rows[t]
  BY <1>3, HandoffHandled
<1>5. QED
  BY <1>2, <1>4, OpsUnchanged, ContinuedKeeps DEF Handled

\* The retry worker and a restart.
LEMMA WorkerHandled ==
  ASSUME TypeOK, WorkerExpires \/ WorkerScans \/ WorkerCalls \/ Restart
  PROVE  Handled
<1>1. ops' = ops /\ sess' \subseteq sess
  BY DEF WorkerExpires, WorkerScans, ScanFinds, WorkerCalls, Restart
<1>2. user'.exists = user.exists
  <2>1. CASE WorkerExpires
    BY <2>1 DEF WorkerExpires, TypeOK, UserRow
  <2>2. CASE WorkerScans \/ WorkerCalls
    BY <2>2 DEF WorkerScans, ScanFinds, WorkerCalls
  <2>3. CASE Restart
    BY <2>3 DEF Restart, TypeOK, UserRow
  <2>4. QED
    BY <2>1, <2>2, <2>3
<1>3. ASSUME NEW t \in Targets
      PROVE  /\ rows'[t].op = rows[t].op
             /\ rows'[t].state = "failed" => rows'[t] = rows[t]
  <2>1. rows[t] \in TargetRow
    BY <1>3 DEF TypeOK
  <2>2. \/ rows'[t] = rows[t]
        \/ rows'[t] = [rows[t] EXCEPT !.state = "pending_expiry_disable",
                                      !.retry = FALSE]
        \/ rows'[t] = [rows[t] EXCEPT !.state = "chpw", !.retry = FALSE]
    BY <1>3 DEF WorkerExpires, WorkerScans, ScanFinds, WorkerCalls, Restart
  <2>3. QED
    BY <2>1, <2>2 DEF TargetRow
<1>4. QED
  BY <1>1, <1>2, <1>3, OpsUnchanged, ContinuedKeeps DEF Handled
-----------------------------------------------------------------------------
(***************************************************************************)
(* Every step.                                                             *)
(***************************************************************************)
LEMMA NextRecorded ==
  ASSUME ConstantsAssumption, History, [Next]_vars
  PROVE  Recorded
<1>0. TypeOK
  BY DEF History
<1>1. CASE SyncStarts
  BY <1>1, StartsRecorded
<1>2. CASE ConnectorReturns
  BY <1>2, ReturnsRecorded DEF ConnectorReturns
<1>3. CASE SyncDropped \/ SyncRaises \/ SessionLost
  <2>1. UNCHANGED <<user, rows, ops>> /\ sess' \subseteq sess
    BY <1>3 DEF SyncDropped, SyncRaises, SessionLost
  <2>2. Handled
    BY <1>0, <2>1, OpsUnchanged, ContinuedKeeps DEF Handled
  <2>3. QED
    BY <2>2, HandledRecorded
<1>4. CASE Administer
  BY <1>0, <1>4, AdministerHandled, HandledRecorded
<1>5. CASE Login \/ ChangePassword \/ KeepPassword
  BY <1>0, <1>5, UserActionHandled, HandledRecorded
<1>6. CASE WorkerExpires \/ WorkerScans \/ WorkerCalls \/ Restart
  BY <1>0, <1>6, WorkerHandled, HandledRecorded
<1>7. CASE (\E t \in Targets : ProbeChanges(t)) \/ UNCHANGED vars
  <2>1. UNCHANGED <<user, rows, ops, sess>>
    BY <1>7 DEF ProbeChanges, vars
  <2>2. Handled
    BY <1>0, <2>1, OpsUnchanged, ContinuedKeeps DEF Handled
  <2>3. QED
    BY <2>2, HandledRecorded
<1>8. QED
  BY <1>1, <1>2, <1>3, <1>4, <1>5, <1>6, <1>7 DEF Next, Synchronize

\* No account starts with a failed target or a session.
LEMMA InitHistory ==
  ASSUME Init
  PROVE  History
<1>1. TypeOK /\ sess = {}
  BY InitType DEF Init
<1>2. FailedIsScheduled
  BY DEF Init, Created, Established, RowIn, FailedIsScheduled
<1>3. QED
  BY <1>1, <1>2 DEF History

\* The invariant holds in every reachable state.
LEMMA HistoryHolds == Spec => []History
<1>1. Init => History
  BY InitHistory
<1>2. History /\ [Next]_vars => History'
  <2>1. ASSUME History, [Next]_vars
        PROVE  History'
    <3>1. TypeOK'
      BY <2>1, ConstantsAssumption, NextType DEF History
    <3>2. Recorded
      BY <2>1, ConstantsAssumption, NextRecorded
    <3>3. QED
      BY <3>1, <3>2 DEF History, Recorded
  <2>2. QED
    BY <2>1
<1>3. QED
  BY <1>1, <1>2, PTL DEF Spec

\* A target recorded as failed has a retry scheduled and an operation to
\* repair, for any targets and whatever handlers wrote the row while a session
\* held an older copy of it: no failure is left that retry_due would not take
\* up.
THEOREM FailuresStayScheduled == Spec => []FailedIsScheduled
<1>1. History => FailedIsScheduled
  BY DEF History
<1>2. QED
  BY <1>1, HistoryHolds, PTL

\* An operation that succeeded stays so: no retry, superseding delete or stale
\* session reopens it or overwrites its outcome.
THEOREM SuccessIsFinal == Spec => SucceededStays
<1> DEFINE Stays ==
      \A i \in DOMAIN ops :
        ops[i].status = "succeeded" => ops'[i].status = "succeeded"
<1>1. ASSUME History, [Next]_vars
      PROVE  Stays
  <2>1. DOMAIN ops = 1..Len(ops)
    BY <1>1, LenProperties DEF History, TypeOK
  <2>2. Recorded
    BY <1>1, ConstantsAssumption, NextRecorded
  <2>3. QED
    BY <2>1, <2>2 DEF Recorded
<1>2. Spec => [][Stays]_vars
  BY <1>1, HistoryHolds, PTL DEF Spec
<1>3. QED
  BY <1>2 DEF SucceededStays
-----------------------------------------------------------------------------
(***************************************************************************)
(* The conflict rule: one unfinished operation.                            *)
(*                                                                         *)
(* decide_transition rejects a command while another is unfinished, so     *)
(* that update and restore start on a free account.  Three paths do not    *)
(* apply it, and the theorem excludes what they do beside an unfinished    *)
(* operation: resume_operation reopens a failed one, a deletion supersedes *)
(* the one a session is working for, whose last commit clears              *)
(* active_operation_id over the deletion's, and a purge clears it too.     *)
(***************************************************************************)
\* The unfinished operations of table o.
Ongoing(o) == {i \in 1..Len(o) : o[i].status \notin TerminalStatus}

Alone ==
  /\ SyncStarts /\ Chosen(Head(calls)).ops[Chosen(Head(calls)).op].status
                     \in {"failed", "partially_failed"}
       => Ongoing(ops) = {}
  /\ DeleteUser /\ sess # {} => Mode("delete", user, ops) = "reuse"
  /\ PurgeUser => Ongoing(ops) = {}

ActsAlone == [][Alone]_vars

\* The unfinished operation is the account's, and a session works for it.
WorksFor(s) ==
  /\ s.op = user.active /\ s.user.active = s.op
  /\ s.op \in Ongoing(ops)
  /\ s.status = "running" /\ ops[s.op].status = "running"

\* Operation IDs are of operations that exist.
Referenced ==
  /\ user.active <= Len(ops)
  /\ \A t \in Targets : rows[t].op <= Len(ops)
  /\ \A i \in 1..Len(calls) : calls[i].op <= Len(ops)
  /\ \A d \in worker.due : d.op <= Len(ops)

Single ==
  /\ Ongoing(ops) \subseteq {user.active}
  /\ \A s \in sess : WorksFor(s)

OneAtATime == History /\ Single /\ Referenced

\* request_operation, where it does not reject: a new operation starts when
\* none is unfinished, or cancels the one that is, and a deletion may go on
\* with an earlier one.  The account points to the only unfinished operation.
Pointed(u, o) == Ongoing(o) \subseteq {u.active} /\ u.active <= Len(o)

Granted(cmd, u, o, q) ==
  /\ q.user.active = q.op
  /\ Ongoing(q.ops) = {q.op}
  /\ Len(o) <= Len(q.ops)
  /\ cmd # "delete" => Ongoing(o) = {}
  /\ Mode(cmd, u, o) = "reuse" => q.user = u /\ q.ops = o

\* get_active_operation finds the unfinished operation, where there is one.
LEMMA ActiveOngoing ==
  ASSUME NEW u \in UserRow, NEW o \in Seq(Operation), Pointed(u, o)
  PROVE  Unfinished(ActiveOperation(u, o)) <=> Ongoing(o) # {}
<1>1. Len(o) \in Nat /\ u.active \in Nat
  BY LenProperties DEF UserRow
<1>2. Unfinished(ActiveOperation(u, o))
        <=> u.active # NoOp /\ o[u.active].status \notin TerminalStatus
  BY DEF Unfinished, ActiveOperation
<1>3. Ongoing(o) # {} => u.active \in Ongoing(o)
  BY DEF Pointed
<1>4. u.active # NoOp /\ o[u.active].status \notin TerminalStatus
        <=> u.active \in Ongoing(o)
  BY <1>1 DEF Ongoing, NoOp, Pointed
<1>5. QED
  BY <1>2, <1>3, <1>4

LEMMA RequestSingle ==
  ASSUME NEW cmd \in {"update", "delete", "restore", "expire",
                      "credential_handoff"},
         NEW u \in UserRow, NEW o \in Seq(Operation),
         Mode(cmd, u, o) # "reject", Pointed(u, o)
  PROVE  Granted(cmd, u, o, Request(cmd, u, o))
<1> USE DEF Pointed, Granted
<1>1. Len(o) \in Nat /\ u.active \in Nat
  BY LenProperties DEF UserRow
<1>2. Unfinished(ActiveOperation(u, o)) <=> Ongoing(o) # {}
  BY ActiveOngoing
<1>3. \/ Mode(cmd, u, o) = "start" /\ Ongoing(o) = {}
      \/ cmd = "delete" /\ Ongoing(o) # {} /\ Mode(cmd, u, o) \in {"reuse", "supersede"}
  BY <1>2 DEF Mode, DecideTransition
<1>4. CASE Mode(cmd, u, o) = "reuse"
  <2>1. Request(cmd, u, o) = [op |-> u.active, user |-> u, ops |-> o]
    BY <1>4 DEF Request
  <2>2. cmd = "delete" /\ Ongoing(o) = {u.active}
    BY <1>3, <1>4
  <2>3. QED
    BY <1>1, <2>1, <2>2
<1>5. CASE Mode(cmd, u, o) # "reuse"
  <2> DEFINE kept == IF Mode(cmd, u, o) = "supersede"
                     THEN [o EXCEPT ![u.active].status = "cancelled"]
                     ELSE o
             added == [cmd |-> cmd, status |-> "queued"]
             table == Append(kept, added)
             next  == [u EXCEPT !.active = Len(o) + 1]
  <2>1. kept \in Seq(Operation) /\ Len(kept) = Len(o) /\ Ongoing(kept) = {}
    <3>1. CASE Mode(cmd, u, o) = "supersede"
      <4>1. kept = [o EXCEPT ![u.active].status = "cancelled"]
        BY <3>1
      <4>2. "cancelled" \in OperationStatus /\ "cancelled" \in TerminalStatus
        BY DEF OperationStatus, TerminalStatus
      <4> HIDE DEF kept
      <4>3. /\ kept \in Seq(Operation) /\ Len(kept) = Len(o)
            /\ \A j \in 1..Len(o) :
                 kept[j].status = IF j = u.active THEN "cancelled" ELSE o[j].status
        BY <1>1, <4>1, <4>2, StatusUpdate
      <4>4. QED
        BY <4>2, <4>3 DEF Ongoing
    <3>2. CASE Mode(cmd, u, o) # "supersede"
      BY <1>3, <1>5, <3>2
    <3>3. QED
      BY <3>1, <3>2
  <2>2. added \in Operation /\ added.status = "queued"
    BY DEF Operation, OperationStatus, Command
  <2>3. Request(cmd, u, o) = [op |-> Len(o) + 1, user |-> next, ops |-> table]
    BY <1>5 DEF Request
  <2>4. next.active = Len(o) + 1
    BY DEF UserRow
  <2> HIDE DEF kept, added, next
  <2>5. /\ Len(table) = Len(o) + 1 /\ table[Len(o) + 1] = added
        /\ \A i \in 1..Len(o) : table[i] = kept[i]
    BY <1>1, <2>1, <2>2, AppendProperties
  <2> HIDE DEF table
  <2>6. Ongoing(table) = {Len(o) + 1}
    <3>1. "queued" \notin TerminalStatus
      BY DEF TerminalStatus
    <3>2. \A i \in 1..Len(o) : kept[i].status \in TerminalStatus
      BY <2>1 DEF Ongoing
    <3>3. \A i \in 1..Len(o) + 1 : i \in 1..Len(o) \/ i = Len(o) + 1
      BY <1>1
    <3>4. Len(o) + 1 \in 1..Len(o) + 1
      BY <1>1
    <3>5. QED
      BY <1>1, <2>2, <2>5, <3>1, <3>2, <3>3, <3>4 DEF Ongoing
  <2>7. QED
    BY <1>1, <1>3, <1>5, <2>3, <2>4, <2>5, <2>6
<1>6. QED
  BY <1>4, <1>5
-----------------------------------------------------------------------------
(***************************************************************************)
(* The session.                                                            *)
(***************************************************************************)
\* A session whose last commit left the account as it sees it, and that works
\* for the only operation of its table that may be unfinished.
Sole(s, u, r, o) ==
  /\ s.user.active = user.active /\ u.active = s.op
  /\ s.op # NoOp /\ s.op \in 1..Len(o) /\ o[s.op].status = s.status
  /\ Ongoing(o) \subseteq {s.op}
  /\ Len(ops) <= Len(o)
  /\ \A t \in Targets : r[t].op <= Len(o)

\* The operation table after such a session's commit of a status.
LEMMA FlushSole ==
  ASSUME NEW s \in SessionAt(Targets \cup {NoTarget}), NEW u, NEW r,
         NEW o \in Seq(Operation), NEW status \in OperationStatus,
         Sole(s, u, r, o), ops' = FlushOp(s, o, status)
  PROVE  /\ Len(ops') = Len(o)
         /\ ops'[s.op].status = status
         /\ Ongoing(ops') = IF status \in TerminalStatus THEN {} ELSE {s.op}
<1>1. s.op \in Nat /\ Len(o) \in Nat
  BY LenProperties DEF SessionAt
<1>2. /\ Len(ops') = Len(o)
      /\ \A j \in 1..Len(o) :
           ops'[j].status = IF j = s.op THEN Dirty(o[j].status, s.status, status)
                                        ELSE o[j].status
  BY <1>1, FlushOpAt
<1>3. ops'[s.op].status = status
  BY <1>2 DEF Sole, Dirty
<1>4. \A j \in 1..Len(o) : j # s.op => ops'[j].status \in TerminalStatus
  BY <1>2 DEF Sole, Ongoing
<1>5. s.op \in 1..Len(ops')
  BY <1>2 DEF Sole
<1>6. QED
  BY <1>2, <1>3, <1>4, <1>5 DEF Ongoing

\* The operation columns after its commit.
LEMMA FlushReferenced ==
  ASSUME NEW m \in Nat, NEW s, NEW new \in [Targets -> TargetRow],
         rows \in [Targets -> TargetRow], s.rows \in [Targets -> TargetRow],
         \A t \in Targets : rows[t].op <= m /\ new[t].op <= m,
         rows' = [t \in Targets |-> FlushRow(rows[t], s.rows[t], new[t])]
  PROVE  \A t \in Targets : rows'[t].op <= m
<1>1. ASSUME NEW t \in Targets
      PROVE  rows'[t].op <= m
  <2>1. rows'[t] = FlushRow(rows[t], s.rows[t], new[t]) /\ rows[t] \in TargetRow
    BY <1>1
  <2>2. rows'[t].op \in {rows[t].op, new[t].op}
    BY <2>1 DEF FlushRow, Dirty, TargetRow
  <2>3. QED
    BY <1>1, <2>2
<1>2. QED
  BY <1>1

\* What a step must leave, besides what waits.
LeavesSingle ==
  /\ Single'
  /\ Len(ops) <= Len(ops')
  /\ user'.active <= Len(ops')
  /\ \A t \in Targets : rows'[t].op <= Len(ops')

LEMMA StartAttemptSingle ==
  ASSUME TypeOK, Referenced, NEW s, NEW u, NEW r, NEW o,
         Computed(s, u, r, "running", o), Sole(s, u, r, o),
         NEW Q, NEW t \in s.todo, StartAttempt(s, u, r, "running", o, Q, t)
  PROVE  LeavesSingle /\ worker' = worker
<1> DEFINE settled == Settle(s, u, r, Q)
           new == [settled EXCEPT ![t].state = "pending", ![t].retry = FALSE]
           next == [s EXCEPT !.user = u, !.rows = new, !.status = "running",
                             !.todo = @ \ (Q \cup {t}), !.at = t,
                             !.doing = OperationFor(s, u, r[t])]
<1>1. /\ s \in SessionAt(Targets \cup {NoTarget}) /\ r \in [Targets -> TargetRow]
      /\ u \in UserRow /\ o \in Seq(Operation)
  BY DEF Computed
<1>2. /\ s.rows \in [Targets -> TargetRow] /\ s.user \in UserRow /\ s.op \in Nat
      /\ t \in Targets
  BY <1>1 DEF SessionAt
<1>3. user \in UserRow /\ rows \in [Targets -> TargetRow] /\ Len(ops) \in Nat
  BY LenProperties DEF TypeOK
<1>4. /\ user' = FlushUser(user, s.user, u, FALSE)
      /\ rows' = [x \in Targets |-> FlushRow(rows[x], s.rows[x], new[x])]
      /\ ops' = FlushOp(s, o, "running")
      /\ sess' = {next}
      /\ worker' = worker
  BY DEF StartAttempt
<1>5. settled \in [Targets -> TargetRow]
      /\ \A x \in Targets : settled[x].op = r[x].op
  BY <1>1, SettleType, SettleFollows
<1>6. next.op = s.op /\ next.user = u /\ next.status = "running"
  BY <1>1 DEF SessionAt
<1> HIDE DEF settled, next
<1>16. Attempted(settled, t, new)
  BY DEF Attempted
<1> HIDE DEF new
<1>7. new \in [Targets -> TargetRow] /\ \A x \in Targets : new[x].op = r[x].op
  <2>1. /\ new \in [Targets -> TargetRow] /\ new[t].op = settled[t].op
        /\ \A x \in Targets : x # t => new[x] = settled[x]
    BY ONLY <1>2, <1>5, <1>16, AttemptRow
  <2>2. QED
    BY <1>5, <2>1
<1>8. "running" \in OperationStatus /\ "running" \notin TerminalStatus
  BY DEF OperationStatus, TerminalStatus
<1>9. /\ Len(ops') = Len(o) /\ ops'[s.op].status = "running"
      /\ Ongoing(ops') = {s.op}
  BY <1>1, <1>4, <1>8, FlushSole
<1>10. user'.active = s.op
  BY <1>2, <1>3, <1>4 DEF FlushUser, Dirty, UserRow, Sole
<1>11. Len(o) \in Nat /\ Len(ops) <= Len(o) /\ s.op <= Len(o)
  BY <1>1, LenProperties DEF Sole
<1>12. \A x \in Targets : rows[x].op <= Len(o)
  BY <1>3, <1>11 DEF Referenced, TargetRow
<1>13. \A x \in Targets : rows'[x].op <= Len(o)
  BY <1>2, <1>3, <1>4, <1>7, <1>11, <1>12, FlushReferenced DEF Sole
<1>14. WorksFor(next)'
  BY <1>6, <1>9, <1>10 DEF WorksFor, Sole
<1>15. QED
  BY <1>4, <1>9, <1>10, <1>11, <1>13, <1>14 DEF LeavesSingle, Single

LEMMA EndOperationSingle ==
  ASSUME TypeOK, Referenced, NEW s, NEW u, NEW r, NEW o,
         Computed(s, u, r, "running", o), Sole(s, u, r, o),
         EndOperation(s, u, r, "running", o)
  PROVE  LeavesSingle /\ worker'.due = worker.due
<1> DEFINE new   == Settle(s, u, r, s.todo)
           final == FinalStatus(s, new, "running")
           clean == final = "succeeded"
           ended == [u EXCEPT
                       !.active = IF final \in TerminalStatus /\ @ = s.op
                                  THEN NoOp ELSE @,
                       !.secret = IF clean /\ s.desired # "delete"
                                           /\ Consumed(s, new)
                                  THEN NoPwd ELSE @]
           deletes == clean /\ s.desired = "delete"
<1>1. /\ s \in SessionAt(Targets \cup {NoTarget}) /\ r \in [Targets -> TargetRow]
      /\ u \in UserRow /\ o \in Seq(Operation) /\ "running" \in OperationStatus
  BY DEF Computed
<1>2. /\ s.rows \in [Targets -> TargetRow] /\ s.user \in UserRow /\ s.op \in Nat
  BY <1>1 DEF SessionAt
<1>3. /\ user \in UserRow /\ rows \in [Targets -> TargetRow]
      /\ worker \in Worker /\ Len(ops) \in Nat
  BY LenProperties DEF TypeOK
<1>4. /\ user' = FlushUser(user, s.user, ended, deletes)
      /\ rows' = [x \in Targets |-> FlushRow(rows[x], s.rows[x], new[x])]
      /\ ops' = FlushOp(s, o, final)
      /\ sess' = {}
      /\ Release(s.by)
  BY DEF EndOperation
<1>5. new \in [Targets -> TargetRow]
      /\ \A x \in Targets : new[x].op = r[x].op
  BY <1>1, SettleType, SettleFollows
<1>6. final \in OperationStatus
  BY <1>1, FinalStatusType
<1>7. ended.active = IF final \in TerminalStatus THEN NoOp ELSE s.op
  BY <1>1 DEF UserRow, Sole
<1> HIDE DEF new, final, ended, deletes
<1>8. /\ Len(ops') = Len(o)
      /\ Ongoing(ops') = IF final \in TerminalStatus THEN {} ELSE {s.op}
  BY <1>1, <1>4, <1>6, FlushSole
<1>9. user'.active = ended.active
  BY <1>2, <1>3, <1>4 DEF FlushUser, Dirty, UserRow, Sole
<1>10. Len(o) \in Nat /\ Len(ops) <= Len(o) /\ s.op <= Len(o)
  BY <1>1, LenProperties DEF Sole
<1>11. \A x \in Targets : rows[x].op <= Len(o)
  BY <1>3, <1>10 DEF Referenced, TargetRow
<1>12. \A x \in Targets : rows'[x].op <= Len(o)
  BY <1>2, <1>3, <1>4, <1>5, <1>10, <1>11, FlushReferenced DEF Sole
<1>13. worker'.due = worker.due
  BY <1>3, <1>4 DEF Release, Worker
<1>14. user'.active <= Len(ops')
  BY <1>7, <1>8, <1>9, <1>10 DEF NoOp
<1>15. QED
  BY <1>4, <1>7, <1>8, <1>9, <1>10, <1>12, <1>13, <1>14 DEF LeavesSingle, Single

LEMMA AdvanceSingle ==
  ASSUME TypeOK, Referenced, NEW s, NEW u, NEW r, NEW o,
         Computed(s, u, r, "running", o), Sole(s, u, r, o),
         Advance(s, u, r, "running", o)
  PROVE  LeavesSingle /\ worker'.due = worker.due
<1>1. CASE EndOperation(s, u, r, "running", o)
  BY <1>1, EndOperationSingle
<1>2. CASE \E Q, t : t \in s.todo /\ StartAttempt(s, u, r, "running", o, Q, t)
  BY <1>2, StartAttemptSingle
<1>3. QED
  BY <1>1, <1>2 DEF Advance

\* A call works under an operation that exists.
LEMMA GivenReferenced ==
  ASSUME TypeOK, Referenced, NEW c \in Call, c.op <= Len(ops),
         GivenOp(c) # NoOp
  PROVE  GivenOp(c) \in 1..Len(ops)
<1>1. /\ Len(ops) \in Nat /\ c.op \in Nat
      /\ c.target \in Targets \cup {NoTarget}
      /\ \A t \in Targets : rows[t].op \in Nat /\ rows[t].op <= Len(ops)
  BY LenProperties DEF TypeOK, Call, TargetRow, Referenced
<1>2. GivenOp(c) \in {c.op, NoOp} \cup {rows[t].op : t \in Targets}
  BY <1>1 DEF GivenOp, Repaired
<1>3. QED
  BY <1>1, <1>2 DEF NoOp

\* A synchronization that starts works for the only unfinished operation of
\* the table it goes on with.
LEMMA StartsSole ==
  ASSUME OneAtATime, SyncStarts, Alone
  PROVE  \E c \in Call :
           /\ c = Head(calls) /\ calls' = Tail(calls) /\ available' = available
           /\ Computed(Starting(c), Resumed(Chosen(c)), Claimed(c), "running",
                       Chosen(c).ops)
           /\ Advance(Starting(c), Resumed(Chosen(c)), Claimed(c), "running",
                      Chosen(c).ops)
           /\ Sole(Starting(c), Resumed(Chosen(c)), Claimed(c), Chosen(c).ops)
<1>1. PICK c \in Call :
        /\ c = Head(calls)
        /\ Starting(c).status \in Resumable
        /\ Computed(Starting(c), Resumed(Chosen(c)), Claimed(c), "running",
                    Chosen(c).ops)
        /\ Advance(Starting(c), Resumed(Chosen(c)), Claimed(c), "running",
                   Chosen(c).ops)
        /\ calls' = Tail(calls) /\ available' = available
  BY StartsComputed DEF OneAtATime, History
<1>2. /\ TypeOK /\ Referenced /\ Single
      /\ user \in UserRow /\ ops \in Seq(Operation) /\ Len(ops) \in Nat
      /\ rows \in [Targets -> TargetRow]
  BY LenProperties DEF OneAtATime, History, TypeOK
<1>3. c.op <= Len(ops)
  <2>1. calls \in Seq(Call) /\ calls # <<>>
    BY <1>2 DEF TypeOK, SyncStarts, LockFree
  <2>2. c = calls[1] /\ 1 \in 1..Len(calls)
    BY <1>1, <2>1, HeadTailProperties, EmptySeq, LenProperties
  <2>3. QED
    BY <1>2, <2>2 DEF Referenced
<1> DEFINE q == Chosen(c)
<1>4. /\ q.op \in 1..Len(q.ops) /\ q.op # NoOp
      /\ Len(ops) <= Len(q.ops) /\ Len(q.ops) \in Nat
      /\ q.user \in UserRow
      /\ q.ops[q.op].status \in {"queued", "running"} =>
           q.user.active = q.op /\ Ongoing(q.ops) = {q.op}
      /\ q.ops[q.op].status \in {"failed", "partially_failed"} =>
           Ongoing(q.ops) = {}
  <2>1. CASE GivenOp(c) # NoOp
    <3>1. q.op = GivenOp(c) /\ q.user = user /\ q.ops = ops
      BY <2>1 DEF Chosen
    <3>2. q.op \in 1..Len(ops) /\ q.op # NoOp
      BY <1>2, <1>3, <2>1, <3>1, GivenReferenced
    <3>3. q.ops[q.op].status \in {"failed", "partially_failed"} =>
            Ongoing(ops) = {}
      BY <1>1 DEF Alone
    <3>4. ops[q.op].status \in {"queued", "running"} => q.op \in Ongoing(ops)
      BY <3>2 DEF Ongoing, TerminalStatus
    <3> HIDE DEF q
    <3>5. ops[q.op].status \in {"queued", "running"} =>
            user.active = q.op /\ Ongoing(ops) = {q.op}
      BY <1>2, <3>4 DEF Single
    <3>6. QED
      BY <1>2, <3>1, <3>2, <3>3, <3>5
  <2>2. CASE GivenOp(c) = NoOp
    <3> DEFINE cmd == CommandFor(c)
    <3>1. /\ q = Request(cmd, user, ops)
          /\ Mode(cmd, user, ops) # "reject"
      BY <1>1, <2>2 DEF Chosen, SyncStarts, Conflicts
    <3>2. cmd \in {"update", "delete", "restore", "expire", "credential_handoff"}
      BY DEF CommandFor
    <3>3. cmd \in Command
      BY <3>2 DEF Command
    <3> HIDE DEF cmd, q
    <3>4. q.op # NoOp /\ q.op \in Nat /\ q.ops \in Seq(Operation) /\ q.user \in UserRow
      BY <1>2, <3>1, <3>3, RequestContinues, RequestType
    <3>5. /\ q.user.active = q.op /\ Ongoing(q.ops) = {q.op}
          /\ Len(ops) <= Len(q.ops)
      <4>1. Pointed(user, ops)
        BY <1>2 DEF Single, Referenced, Pointed
      <4>2. Granted(cmd, user, ops, q)
        BY <1>2, <3>1, <3>2, <4>1, RequestSingle
      <4>3. QED
        BY <4>2 DEF Granted
    <3>6. q.op \in Ongoing(q.ops)
      BY <3>5
    <3>7. q.op \in 1..Len(q.ops) /\ q.ops[q.op].status \notin TerminalStatus
      BY <3>6 DEF Ongoing
    <3>8. QED
      BY <3>4, <3>5, <3>7, LenProperties DEF TerminalStatus
  <2>3. QED
    BY <2>1, <2>2
<1>5. /\ Starting(c).user = user /\ Starting(c).op = q.op
      /\ Starting(c).status = q.ops[q.op].status
  BY DEF Starting
<1> HIDE DEF q
<1>6. q.ops[q.op].status \in Resumable
  BY <1>1, <1>5
<1>7. Resumed(q).active = q.op
  BY <1>4 DEF Resumed, UserRow
<1>8. \A t \in Targets : Claimed(c)[t].op <= Len(q.ops)
  <2>1. ASSUME NEW t \in Targets
        PROVE  Claimed(c)[t].op <= Len(q.ops)
    <3>1. rows[t] \in TargetRow
      BY <1>2, <2>1
    <3>2. Claimed(c)[t].op \in {rows[t].op, q.op}
      BY <2>1, <3>1 DEF Claimed, TargetRow, q
    <3>3. rows[t].op <= Len(ops) /\ rows[t].op \in Nat
      BY <1>2, <2>1, <3>1 DEF Referenced, TargetRow
    <3>4. QED
      BY <1>2, <1>4, <3>2, <3>3
  <2>2. QED
    BY <2>1
<1>9. Ongoing(q.ops) \subseteq {q.op}
  BY <1>4, <1>6 DEF Resumable
<1>10. Sole(Starting(c), Resumed(q), Claimed(c), q.ops)
  BY <1>4, <1>5, <1>7, <1>8, <1>9 DEF Sole
<1>11. /\ Computed(Starting(c), Resumed(q), Claimed(c), "running", q.ops)
       /\ Advance(Starting(c), Resumed(q), Claimed(c), "running", q.ops)
  BY <1>1 DEF q
<1>12. QED
  BY <1>1, <1>10, <1>11 DEF q

LEMMA StartsSingle ==
  ASSUME OneAtATime, SyncStarts, Alone
  PROVE  LeavesSingle /\ worker'.due = worker.due /\ calls' = Tail(calls)
<1>1. TypeOK /\ Referenced
  BY DEF OneAtATime, History
<1>2. QED
  BY <1>1, StartsSole, AdvanceSingle

\* So does one whose connector call returns.
LEMMA ReturnsSole ==
  ASSUME OneAtATime, NEW s \in sess, NEW outcome, ReturnsWith(s, outcome)
  PROVE  LET r == [s.rows EXCEPT ![s.at] = RowAfter(s, @, outcome)]
         IN /\ Computed(s, s.user, r, "running", ops)
            /\ Advance(s, s.user, r, "running", ops)
            /\ Sole(s, s.user, r, ops)
            /\ calls' = calls /\ available' = available
<1> DEFINE r == [s.rows EXCEPT ![s.at] = RowAfter(s, @, outcome)]
<1>1. TypeOK /\ Referenced /\ Sees(s) /\ WorksFor(s)
  BY DEF OneAtATime, History, Single
<1>2. s.status = "running"
  BY <1>1 DEF WorksFor
<1>3. /\ Computed(s, s.user, r, "running", ops)
      /\ Advance(s, s.user, r, "running", ops)
      /\ calls' = calls /\ available' = available
  BY <1>1, <1>2, ReturnsComputed DEF ReturnsWith
<1>4. s \in SessionAt(Targets) /\ ops \in Seq(Operation)
  BY <1>1, AnsweredType DEF TypeOK
<1>5. /\ s.rows \in [Targets -> TargetRow] /\ s.at \in Targets
      /\ Len(ops) \in Nat
  BY <1>4, LenProperties DEF SessionAt
<1>6. ASSUME NEW t \in Targets
      PROVE  r[t].op <= Len(ops)
  <2>1. r[t].op = s.rows[t].op
    <3>1. s.rows[t] \in TargetRow
      BY <1>5, <1>6
    <3>2. RowAfter(s, s.rows[t], outcome).op = s.rows[t].op
      BY <3>1, RowAfterScheduled
    <3>3. r[t] \in {s.rows[t], RowAfter(s, s.rows[t], outcome)}
      BY <1>5, <1>6
    <3>4. QED
      BY <3>2, <3>3
  <2>2. s.rows[t].op = rows[t].op /\ rows[t].op <= Len(ops)
    BY <1>1, <1>6 DEF Sees, Referenced
  <2>3. QED
    BY <2>1, <2>2
<1> HIDE DEF r
<1>7. Sole(s, s.user, r, ops)
  BY <1>1, <1>5, <1>6 DEF Sole, WorksFor, Ongoing, Sees, OneAtATime, Single
<1>8. QED
  BY <1>3, <1>7 DEF r

LEMMA ReturnsSingle ==
  ASSUME OneAtATime, NEW s \in sess, NEW outcome, ReturnsWith(s, outcome)
  PROVE  LeavesSingle /\ worker'.due = worker.due /\ calls' = calls
<1> DEFINE r == [s.rows EXCEPT ![s.at] = RowAfter(s, @, outcome)]
<1>1. TypeOK /\ Referenced
  BY DEF OneAtATime, History
<1>2. /\ Computed(s, s.user, r, "running", ops) /\ Advance(s, s.user, r, "running", ops)
      /\ Sole(s, s.user, r, ops) /\ calls' = calls
  BY ReturnsSole
<1> HIDE DEF r
<1>3. QED
  BY <1>1, <1>2, AdvanceSingle
-----------------------------------------------------------------------------
(***************************************************************************)
(* The handlers, the worker and a restart.                                 *)
(***************************************************************************)
\* The waiting calls name operations of the table.
QueueReferenced == \A i \in 1..Len(calls) : calls[i].op <= Len(ops)

LEMMA QueueKept ==
  ASSUME TypeOK, OneAtATime, Len(ops') \in Nat, Len(ops) <= Len(ops'),
         \/ calls' \in {calls, <<>>}
         \/ calls # <<>> /\ calls' = Tail(calls)
         \/ \E c \in Call : c.op <= Len(ops') /\ calls' = Append(calls, c)
  PROVE  QueueReferenced'
<1>1. /\ calls \in Seq(Call) /\ Len(calls) \in Nat /\ Len(ops) \in Nat
      /\ \A i \in 1..Len(calls) : calls[i].op \in Nat /\ calls[i].op <= Len(ops)
  <2>1. calls \in Seq(Call) /\ Len(calls) \in Nat /\ Len(ops) \in Nat
    BY LenProperties DEF TypeOK
  <2>2. \A i \in 1..Len(calls) : calls[i] \in Call
    BY <2>1, ElementOfSeq
  <2>3. QED
    BY <2>1, <2>2 DEF OneAtATime, Referenced, Call
<1>2. \A i \in 1..Len(calls) : calls[i].op <= Len(ops')
  BY <1>1
<1>3. CASE calls' = calls
  BY <1>2, <1>3 DEF QueueReferenced
<1>4. CASE calls' = <<>>
  <2>1. Len(calls') = 0
    BY <1>4
  <2>2. QED
    BY <2>1 DEF QueueReferenced
<1>5. CASE calls # <<>> /\ calls' = Tail(calls)
  <2>1. /\ Len(Tail(calls)) = Len(calls) - 1
        /\ \A i \in 1..Len(Tail(calls)) : Tail(calls)[i] = calls[i + 1]
    BY <1>1, <1>5, HeadTailProperties
  <2>2. \A i \in 1..Len(Tail(calls)) : i + 1 \in 1..Len(calls)
    BY <1>1, <2>1
  <2>3. \A i \in 1..Len(Tail(calls)) : Tail(calls)[i].op <= Len(ops')
    BY <1>2, <2>1, <2>2
  <2>4. QED
    BY <1>5, <2>3 DEF QueueReferenced
<1>6. ASSUME NEW c \in Call, c.op <= Len(ops'), calls' = Append(calls, c)
      PROVE  QueueReferenced'
  <2>1. /\ Len(calls') = Len(calls) + 1
        /\ \A i \in 1..Len(calls) : calls'[i] = calls[i]
        /\ calls'[Len(calls) + 1] = c
    BY <1>1, <1>6, AppendProperties
  <2>2. QED
    BY <1>1, <1>2, <1>6, <2>1 DEF QueueReferenced
<1>7. QED
  BY <1>3, <1>4, <1>5, <1>6

\* A step that writes neither the operations nor which one is the account's,
\* and opens no session.
Apart ==
  /\ user'.active = user.active /\ ops' = ops /\ sess' \subseteq sess
  /\ \A t \in Targets : rows'[t].op = rows[t].op

LEMMA ApartSingle ==
  ASSUME OneAtATime, Apart
  PROVE  LeavesSingle
<1>1. Len(ops) \in Nat
  BY LenProperties DEF OneAtATime, History, TypeOK
<1>2. Single'
  BY DEF OneAtATime, Single, Apart, WorksFor, Ongoing
<1>3. QED
  BY <1>1, <1>2 DEF LeavesSingle, Apart, OneAtATime, Referenced

\* A step that requests an operation for a free account, or goes on with the
\* one it has.
LEMMA RequestedSingle ==
  ASSUME OneAtATime, NEW cmd \in {"update", "delete", "restore"},
         Mode(cmd, user, ops) # "reject",
         cmd = "delete" /\ sess # {} => Mode(cmd, user, ops) = "reuse",
         user'.active = Request(cmd, user, ops).user.active,
         ops' = Request(cmd, user, ops).ops,
         sess' = sess,
         \A t \in Targets : rows'[t].op = rows[t].op
  PROVE  LeavesSingle /\ Request(cmd, user, ops).op <= Len(ops')
<1> DEFINE q == Request(cmd, user, ops)
<1>1. /\ TypeOK /\ Referenced /\ Single
      /\ user \in UserRow /\ ops \in Seq(Operation)
  BY DEF OneAtATime, History, TypeOK
<1>2. Granted(cmd, user, ops, q)
  <2>1. Pointed(user, ops)
    BY <1>1 DEF Single, Referenced, Pointed
  <2>2. QED
    BY <1>1, <2>1, RequestSingle
<1>3. /\ q.user.active = q.op /\ Ongoing(q.ops) = {q.op}
      /\ Len(ops) <= Len(q.ops)
      /\ cmd # "delete" => Ongoing(ops) = {}
      /\ Mode(cmd, user, ops) = "reuse" => q.user = user /\ q.ops = ops
  BY <1>2 DEF Granted
<1>4. q.op \in Nat /\ q.ops \in Seq(Operation)
  BY <1>1, RequestType DEF Command
<1>5. Mode(cmd, user, ops) = "reuse" => user'.active = user.active /\ ops' = ops
  BY <1>3
<1> HIDE DEF q
<1>6. user'.active = q.op /\ ops' = q.ops
  BY <1>3 DEF q
<1>7. Len(ops) \in Nat /\ Len(q.ops) \in Nat
  BY <1>1, <1>4, LenProperties
<1>8. q.op \in 1..Len(q.ops)
  BY <1>3 DEF Ongoing
<1>9. Ongoing(ops') = {user'.active}
  BY <1>3, <1>6
<1>10. \A s \in sess' : WorksFor(s)'
  <2>1. CASE sess = {}
    BY <2>1
  <2>2. CASE sess # {}
    <3>1. Ongoing(ops) # {}
      BY <1>1, <2>2 DEF Single, WorksFor
    <3>2. cmd = "delete"
      BY <1>3, <3>1
    <3>3. user'.active = user.active /\ ops' = ops
      BY <1>5, <2>2, <3>2
    <3>4. QED
      BY <1>1, <3>3 DEF Single, WorksFor, Ongoing
  <2>3. QED
    BY <2>1, <2>2
<1>11. \A t \in Targets : rows'[t].op <= Len(ops')
  <2>1. \A t \in Targets : rows[t].op \in Nat /\ rows[t].op <= Len(ops)
    BY <1>1 DEF TypeOK, TargetRow, Referenced
  <2>2. QED
    BY <1>3, <1>6, <1>7, <2>1
<1>12. QED
  BY <1>3, <1>6, <1>7, <1>8, <1>9, <1>10, <1>11 DEF LeavesSingle, Single, q

\* What is queued with such an operation.
LEMMA EnqueueCall ==
  ASSUME NEW action \in Desired \cup {"stored"},
         NEW target \in Targets \cup {NoTarget},
         NEW actor \in {"system", "verified-login", "password-expiry"},
         NEW op \in Nat, NEW by \in {"task", "worker"}, NEW m, op <= m,
         calls' = Append(calls, [action |-> action, target |-> target,
                                 actor |-> actor, op |-> op, by |-> by])
  PROVE  \E c \in Call : c.op <= m /\ calls' = Append(calls, c)
<1> DEFINE c == [action |-> action, target |-> target, actor |-> actor,
                 op |-> op, by |-> by]
<1>1. c \in Call /\ c.op <= m
  BY DEF Call
<1>2. calls' = Append(calls, c)
  OBVIOUS
<1> HIDE DEF c
<1>3. QED
  BY <1>1, <1>2

\* What a step leaves of the invariant.
Leaves ==
  /\ LeavesSingle
  /\ QueueReferenced'
  /\ \A d \in worker'.due : d.op <= Len(ops')

\* What is due stays valid while it is not added to.
LEMMA DueKept ==
  ASSUME OneAtATime, Len(ops') \in Nat, Len(ops) <= Len(ops'),
         worker'.due \subseteq worker.due
  PROVE  \A d \in worker'.due : d.op <= Len(ops')
<1>1. Len(ops) \in Nat /\ worker \in Worker
  BY LenProperties DEF OneAtATime, History, TypeOK
<1>2. \A d \in worker.due : d.op \in Nat /\ d.op <= Len(ops)
  BY <1>1 DEF Worker, OneAtATime, Referenced
<1>3. QED
  BY <1>1, <1>2

LEMMA AdministerSingle ==
  ASSUME OneAtATime, Administer, Alone, ops' \in Seq(Operation)
  PROVE  Leaves
<1>1. /\ TypeOK /\ user \in UserRow /\ ops \in Seq(Operation)
      /\ Len(ops) \in Nat /\ Len(ops') \in Nat /\ Handled
      /\ calls \in Seq(Call) /\ worker \in Worker
  BY AdministerHandled, LenProperties DEF OneAtATime, History, TypeOK
<1>2. \A t \in Targets : rows'[t].op = rows[t].op
  BY <1>1 DEF Handled
<1>3. worker' = worker
  BY DEF Administer, UpdateUser, ResetPassword, DeleteUser, RestoreUser,
         PurgeUser, RetryTarget
<1>4. \A cmd \in {"update", "delete", "restore"} :
        /\ Request(cmd, user, ops).op \in Nat
        /\ Request(cmd, user, ops).user \in UserRow
  BY <1>1, RequestType DEF Command
<1>5. ASSUME NEW cmd \in {"update", "delete", "restore"},
             NEW action \in Desired \cup {"stored"},
             Mode(cmd, user, ops) # "reject",
             cmd = "delete" /\ sess # {} => Mode(cmd, user, ops) = "reuse",
             user'.active = Request(cmd, user, ops).user.active,
             ops' = Request(cmd, user, ops).ops, sess' = sess,
             Enqueue(action, NoTarget, "system", Request(cmd, user, ops).op, "task")
      PROVE  Leaves
  <2>1. LeavesSingle /\ Request(cmd, user, ops).op <= Len(ops')
    BY <1>2, <1>5, RequestedSingle
  <2>2. \E c \in Call : c.op <= Len(ops') /\ calls' = Append(calls, c)
    <3>1. Request(cmd, user, ops).op \in Nat
      BY <1>4, <1>5
    <3> DEFINE op == Request(cmd, user, ops).op
    <3>2. calls' = Append(calls, [action |-> action, target |-> NoTarget,
                                  actor |-> "system", op |-> op, by |-> "task"])
      BY <1>5 DEF Enqueue
    <3>3. op \in Nat /\ op <= Len(ops')
      BY <2>1, <3>1
    <3> HIDE DEF op
    <3>4. QED
      BY <1>5, <3>2, <3>3, EnqueueCall
  <2>3. Len(ops) <= Len(ops')
    BY <2>1 DEF LeavesSingle
  <2>4. QED
    BY <1>1, <1>3, <2>1, <2>2, <2>3, QueueKept, DueKept DEF Leaves
<1>6. CASE UpdateUser
  <2>1. PICK disabled \in FormStatus :
          /\ user' = [Request("update", user, ops).user EXCEPT !.disabled = disabled]
          /\ ops' = Request("update", user, ops).ops /\ sess' = sess
          /\ Enqueue("stored", NoTarget, "system",
                     Request("update", user, ops).op, "task")
          /\ Mode("update", user, ops) # "reject"
    BY <1>6 DEF UpdateUser
  <2>2. user'.active = Request("update", user, ops).user.active
    BY <1>4, <2>1 DEF UserRow
  <2>3. QED
    BY <1>5, <2>1, <2>2
<1>7. CASE ResetPassword
  <2>1. PICK disabled \in FormStatus :
          /\ user' = [Request("update", user, ops).user EXCEPT
                        !.disabled = disabled, !.kind = "reset",
                        !.secret = NoPwd, !.pwd = @ + 1]
          /\ ops' = Request("update", user, ops).ops /\ sess' = sess
          /\ Enqueue("stored", NoTarget, "system",
                     Request("update", user, ops).op, "task")
          /\ Mode("update", user, ops) # "reject"
    BY <1>7 DEF ResetPassword
  <2>2. user'.active = Request("update", user, ops).user.active
    BY <1>4, <2>1 DEF UserRow
  <2>3. QED
    BY <1>5, <2>1, <2>2
<1>8. CASE DeleteUser
  <2>1. /\ user' = [Request("delete", user, ops).user EXCEPT
                      !.desired = "delete", !.deleted = FALSE]
        /\ ops' = Request("delete", user, ops).ops /\ sess' = sess
        /\ Enqueue("delete", NoTarget, "system",
                   Request("delete", user, ops).op, "task")
    BY <1>8 DEF DeleteUser
  <2>2. user'.active = Request("delete", user, ops).user.active
    BY <1>4, <2>1 DEF UserRow
  <2>3. Mode("delete", user, ops) # "reject"
    BY DEF Mode, DecideTransition
  <2>4. sess # {} => Mode("delete", user, ops) = "reuse"
    BY <1>8 DEF Alone
  <2>5. QED
    BY <1>5, <2>1, <2>2, <2>3, <2>4 DEF Desired
<1>9. CASE RestoreUser
  <2>1. /\ user' = [Request("restore", user, ops).user EXCEPT
                      !.desired = "ensure", !.deleted = FALSE,
                      !.disabled = FALSE, !.kind = "reset", !.secret = NoPwd,
                      !.pwd = @ + 1]
        /\ ops' = Request("restore", user, ops).ops /\ sess' = sess
        /\ Enqueue("stored", NoTarget, "system",
                   Request("restore", user, ops).op, "task")
        /\ Mode("restore", user, ops) # "reject"
    BY <1>9 DEF RestoreUser
  <2>2. user'.active = Request("restore", user, ops).user.active
    BY <1>4, <2>1 DEF UserRow
  <2>3. QED
    BY <1>5, <2>1, <2>2
<1>10. CASE PurgeUser
  <2> DEFINE purge == [cmd |-> "purge", status |-> "succeeded"]
  <2>1. /\ ops' = Append(ops, purge) /\ purge \in Operation
        /\ purge.status \in TerminalStatus
        /\ sess' = sess /\ calls' = calls
    BY <1>10 DEF PurgeUser, Operation, Command, OperationStatus, TerminalStatus
  <2> HIDE DEF purge
  <2>2. /\ Len(ops') = Len(ops) + 1 /\ ops'[Len(ops) + 1] = purge
        /\ \A i \in 1..Len(ops) : ops'[i] = ops[i]
    BY <1>1, <2>1, AppendProperties
  <2>3. Ongoing(ops) = {} /\ Single /\ Referenced
    BY <1>10 DEF Alone, OneAtATime
  <2>4. Ongoing(ops') = {}
    BY <1>1, <2>1, <2>2, <2>3 DEF Ongoing
  <2>5. sess' = {}
    BY <2>1, <2>3 DEF Single, WorksFor
  <2>6. user'.active = NoOp
    BY <1>1, <1>10 DEF PurgeUser, UserRow
  <2>7. \A t \in Targets : rows'[t].op <= Len(ops')
    <3>1. \A t \in Targets : rows[t].op \in Nat /\ rows[t].op <= Len(ops)
      BY <1>1, <2>3 DEF TypeOK, TargetRow, Referenced
    <3>2. QED
      BY <1>1, <1>2, <2>2, <3>1
  <2>8. LeavesSingle
    BY <1>1, <2>2, <2>4, <2>5, <2>6, <2>7 DEF LeavesSingle, Single, NoOp
  <2>9. QED
    BY <1>1, <1>3, <2>1, <2>2, <2>8, QueueKept, DueKept DEF Leaves
<1>11. ASSUME NEW t \in Targets, RetryTarget(t)
       PROVE  Leaves
  <2>1. /\ UNCHANGED <<user, rows, ops, sess>>
        /\ Enqueue("stored", t, "system", rows[t].op, "task")
    BY <1>11 DEF RetryTarget
  <2>2. LeavesSingle
    BY <2>1, ApartSingle DEF Apart
  <2>3. rows[t].op \in Nat /\ rows[t].op <= Len(ops')
    BY <1>1, <1>11, <2>1 DEF TypeOK, TargetRow, OneAtATime, Referenced
  <2>4. \E c \in Call : c.op <= Len(ops') /\ calls' = Append(calls, c)
    <3> DEFINE op == rows[t].op
    <3>1. calls' = Append(calls, [action |-> "stored", target |-> t,
                                  actor |-> "system", op |-> op, by |-> "task"])
      BY <2>1 DEF Enqueue
    <3>2. op \in Nat /\ op <= Len(ops') /\ t \in Targets \cup {NoTarget}
      BY <1>11, <2>3
    <3> HIDE DEF op
    <3>3. QED
      BY <3>1, <3>2, EnqueueCall
  <2>5. QED
    BY <1>1, <1>3, <2>1, <2>2, <2>4, QueueKept, DueKept DEF Leaves
<1>12. QED
  BY <1>6, <1>7, <1>8, <1>9, <1>10, <1>11 DEF Administer

\* The user's own actions request no operation.
LEMMA UserActionSingle ==
  ASSUME OneAtATime, Login \/ ChangePassword \/ KeepPassword
  PROVE  Leaves
<1>1. /\ TypeOK /\ user \in UserRow /\ Len(ops) \in Nat /\ Handled
  BY UserActionHandled, LenProperties DEF OneAtATime, History, TypeOK
<1>2. ops' = ops /\ sess' = sess /\ worker' = worker
  BY DEF Login, ChangePassword, KeepPassword
<1>3. user'.active = user.active
  <2>1. \/ user' = user
        \/ \E p : user' = [user EXCEPT !.secret = p]
        \/ \E k, v, p : user' = [[user EXCEPT !.kind = k, !.pwd = v] EXCEPT !.secret = p]
        \/ \E k, v : user' = [user EXCEPT !.kind = k, !.pwd = v]
        \/ \E k : user' = [user EXCEPT !.kind = k]
        \/ \E k, p : user' = [[user EXCEPT !.kind = k] EXCEPT !.secret = p]
    BY DEF Login, ChangePassword, KeepPassword, CredentialHandoff
  <2>2. QED
    BY <1>1, <2>1 DEF UserRow
<1>4. LeavesSingle
  BY <1>1, <1>2, <1>3, ApartSingle DEF Apart, Handled
<1>5. \/ calls' = calls
      \/ Enqueue("stored", NoTarget, "verified-login", NoOp, "task")
  BY DEF Login, ChangePassword, KeepPassword, CredentialHandoff
<1>6. calls' = calls \/ \E c \in Call : c.op <= Len(ops') /\ calls' = Append(calls, c)
  <2>1. ASSUME Enqueue("stored", NoTarget, "verified-login", NoOp, "task")
        PROVE  \E c \in Call : c.op <= Len(ops') /\ calls' = Append(calls, c)
    <3>1. NoOp \in Nat /\ NoOp <= Len(ops')
      BY <1>1, <1>2 DEF NoOp
    <3>2. QED
      BY <2>1, <3>1, EnqueueCall DEF Enqueue
  <2>2. QED
    BY <1>5, <2>1
<1>7. QED
  BY <1>1, <1>2, <1>4, <1>6, QueueKept, DueKept DEF Leaves

\* The retry worker takes up operations the rows refer to.
LEMMA WorkerSingle ==
  ASSUME OneAtATime, WorkerExpires \/ WorkerScans \/ WorkerCalls \/ Restart
  PROVE  Leaves
<1>1. /\ TypeOK /\ user \in UserRow /\ Len(ops) \in Nat /\ Handled
      /\ worker \in Worker /\ rows \in [Targets -> TargetRow]
  BY WorkerHandled, LenProperties DEF OneAtATime, History, TypeOK
<1>2. ops' = ops /\ sess' \subseteq sess
  BY DEF WorkerExpires, WorkerScans, ScanFinds, WorkerCalls, Restart
<1>3. user'.active = user.active
  <2>1. \/ user' = user
        \/ user' = [user EXCEPT !.kind = "expired"]
        \/ \E p : user' = [user EXCEPT !.secret = p]
    BY DEF WorkerExpires, WorkerScans, ScanFinds, WorkerCalls, Restart
  <2>2. QED
    BY <1>1, <2>1 DEF UserRow
<1>4. LeavesSingle
  BY <1>1, <1>2, <1>3, ApartSingle DEF Apart, Handled
<1>5. \A d \in worker.due : /\ d.op \in Nat /\ d.op <= Len(ops)
                            /\ d.target \in Targets \cup {NoTarget}
  BY <1>1 DEF Worker, OneAtATime, Referenced
<1>6. CASE WorkerExpires
  <2>1. worker'.due = {[target |-> NoTarget, op |-> NoOp]} /\ calls' = calls
    BY <1>1, <1>6 DEF WorkerExpires, Worker
  <2>2. \A d \in worker'.due : d.op <= Len(ops')
    BY <1>1, <1>2, <2>1 DEF NoOp
  <2>3. QED
    BY <1>1, <1>2, <1>4, <2>1, <2>2, QueueKept DEF Leaves
<1>7. CASE WorkerScans
  <2>1. PICK due \in SUBSET Scheduled : ScanFinds(due)
    BY <1>7 DEF WorkerScans
  <2>2. /\ worker'.due = {[target |-> t, op |-> rows[t].op] : t \in due}
        /\ calls' = calls /\ due \subseteq Targets
    BY <1>1, <2>1 DEF ScanFinds, Worker, Scheduled
  <2>3. \A d \in worker'.due : d.op <= Len(ops')
    BY <1>2, <2>2 DEF OneAtATime, Referenced
  <2>4. QED
    BY <1>1, <1>2, <1>4, <2>2, <2>3, QueueKept DEF Leaves
<1>8. CASE WorkerCalls
  <2>1. PICK d \in worker.due :
          /\ worker' = [worker EXCEPT !.due = @ \ {d}, !.waiting = TRUE]
          /\ calls' = Append(calls,
               [action |-> "stored", target |-> d.target, op |-> d.op,
                actor |-> IF d.target = NoTarget THEN "password-expiry" ELSE "system",
                by |-> "worker"])
    BY <1>8 DEF WorkerCalls
  <2>2. worker'.due \subseteq worker.due
    BY <1>1, <2>1 DEF Worker
  <2>3. \E c \in Call : c.op <= Len(ops') /\ calls' = Append(calls, c)
    <3> DEFINE call == [action |-> "stored", target |-> d.target, op |-> d.op,
                        actor |-> IF d.target = NoTarget THEN "password-expiry"
                                                         ELSE "system",
                        by |-> "worker"]
    <3>1. call \in Call /\ call.op <= Len(ops')
      BY <1>2, <1>5, <2>1 DEF Call
    <3>2. calls' = Append(calls, call)
      BY <2>1
    <3> HIDE DEF call
    <3>3. QED
      BY <3>1, <3>2
  <2>4. QED
    BY <1>1, <1>2, <1>4, <2>2, <2>3, QueueKept, DueKept DEF Leaves
<1>9. CASE Restart
  <2>1. worker'.due = {} /\ calls' = <<>>
    BY <1>9 DEF Restart, IdleWorker
  <2>2. QED
    BY <1>1, <1>2, <1>4, <2>1, QueueKept, DueKept DEF Leaves
<1>10. QED
  BY <1>6, <1>7, <1>8, <1>9

\* What a session that goes on, or ends, leaves waiting.
LEMMA SynchronizeSingle ==
  ASSUME OneAtATime, Synchronize, Alone, ops' \in Seq(Operation)
  PROVE  Leaves
<1>1. /\ TypeOK /\ worker \in Worker /\ Len(ops) \in Nat /\ Len(ops') \in Nat
  BY LenProperties DEF OneAtATime, History, TypeOK
<1>2. ASSUME LeavesSingle, worker'.due = worker.due,
             calls' = calls \/ (calls # <<>> /\ calls' = Tail(calls))
      PROVE  Leaves
  BY <1>1, <1>2, QueueKept, DueKept DEF Leaves, LeavesSingle
<1>3. CASE SyncStarts
  <2>1. calls # <<>>
    BY <1>3 DEF SyncStarts, LockFree
  <2>2. QED
    BY <1>2, <1>3, <2>1, StartsSingle
<1>4. CASE ConnectorReturns
  <2>1. PICK s \in sess : \E outcome \in Answers(s) : ReturnsWith(s, outcome)
    BY <1>4 DEF ConnectorReturns
  <2>2. PICK outcome \in Outcomes : ReturnsWith(s, outcome)
    BY <2>1 DEF Answers
  <2>3. LeavesSingle /\ worker'.due = worker.due /\ calls' = calls
    BY <2>1, <2>2, ReturnsSingle
  <2>4. QED
    BY <1>2, <2>3
<1>5. CASE SyncDropped \/ SyncRaises \/ SessionLost
  <2>1. UNCHANGED <<user, rows, ops>> /\ sess' \subseteq sess
    BY <1>5 DEF SyncDropped, SyncRaises, SessionLost
  <2>2. calls' = calls \/ (calls # <<>> /\ calls' = Tail(calls))
    BY <1>5 DEF SyncDropped, SyncRaises, SessionLost, LockFree
  <2>3. worker'.due = worker.due
    BY <1>1, <1>5 DEF SyncDropped, SyncRaises, SessionLost, Release, Worker
  <2>4. LeavesSingle
    BY <2>1, ApartSingle DEF Apart
  <2>5. QED
    BY <1>2, <2>2, <2>3, <2>4
<1>6. QED
  BY <1>3, <1>4, <1>5 DEF Synchronize

\* Every step.
LEMMA NextSingle ==
  ASSUME OneAtATime, Alone, Next, History'
  PROVE  OneAtATime'
<1>1. TypeOK /\ ops' \in Seq(Operation) /\ Len(ops) \in Nat
  BY LenProperties DEF OneAtATime, History, TypeOK
<1>2. CASE Synchronize
  BY <1>1, <1>2, SynchronizeSingle DEF OneAtATime, Leaves, LeavesSingle,
                                       Referenced, QueueReferenced
<1>3. CASE Administer
  BY <1>1, <1>3, AdministerSingle DEF OneAtATime, Leaves, LeavesSingle,
                                      Referenced, QueueReferenced
<1>4. CASE Login \/ ChangePassword \/ KeepPassword
  BY <1>4, UserActionSingle DEF OneAtATime, Leaves, LeavesSingle,
                                Referenced, QueueReferenced
<1>5. CASE WorkerExpires \/ WorkerScans \/ WorkerCalls \/ Restart
  BY <1>5, WorkerSingle DEF OneAtATime, Leaves, LeavesSingle,
                            Referenced, QueueReferenced
<1>6. CASE \E t \in Targets : ProbeChanges(t)
  <2>1. UNCHANGED <<user, rows, ops, calls, sess, worker>>
    BY <1>6 DEF ProbeChanges
  <2>2. QED
    BY <2>1 DEF OneAtATime, Single, WorksFor, Ongoing, Referenced
<1>7. QED
  BY <1>2, <1>3, <1>4, <1>5, <1>6 DEF Next

LEMMA InitSingle ==
  ASSUME Init
  PROVE  OneAtATime
<1>1. History /\ TypeOK /\ sess = {} /\ worker.due = {}
  BY InitHistory DEF History, Init, IdleWorker
<1>2. CASE Created
  <2>1. /\ user.active = 1
        /\ ops = <<[cmd |-> "create", status |-> "queued"]>>
        /\ \A t \in Targets : rows[t].op = 0
        /\ Len(calls) = 1 /\ calls[1].op = 1
    BY <1>2 DEF Created, NewUser, RowIn, NoOp
  <2>2. Len(ops) = 1 /\ \A i \in 1..Len(ops) : i = 1
    BY <2>1
  <2>3. \A i \in 1..Len(calls) : i = 1
    BY <2>1
  <2>4. QED
    BY <1>1, <2>1, <2>2, <2>3 DEF OneAtATime, Single, Referenced, Ongoing
<1>3. CASE Established
  <2>1. /\ user.active = 0 /\ Len(ops) = 0 /\ Len(calls) = 0
        /\ \A t \in Targets : rows[t].op = 0
    BY <1>3 DEF Established, NewUser, RowIn, NoOp
  <2>2. QED
    BY <1>1, <2>1 DEF OneAtATime, Single, Referenced, Ongoing
<1>4. QED
  BY <1>2, <1>3 DEF Init

\* The conflict rule holds for any targets, capabilities and bounds, through
\* retries, restarts, deletions and restores, where no failed operation is
\* reopened beside an unfinished one, no deletion supersedes an operation that
\* a session is working for, and no purge overtakes an operation: at most one
\* operation of an account is unfinished, the one the account points to.
THEOREM OneOperation == Spec /\ ActsAlone => []OneUnfinished
<1>1. Init => OneAtATime
  BY InitSingle
<1>2. OneAtATime /\ History' /\ [Next]_vars /\ [Alone]_vars => OneAtATime'
  <2>1. ASSUME OneAtATime, History', [Next]_vars, [Alone]_vars
        PROVE  OneAtATime'
    <3>1. CASE UNCHANGED vars
      BY <2>1, <3>1 DEF OneAtATime, Single, WorksFor, Ongoing, Referenced, vars
    <3>2. CASE Next /\ Alone
      BY <2>1, <3>2, NextSingle
    <3>3. QED
      BY <2>1, <3>1, <3>2
  <2>2. QED
    BY <2>1
<1>3. OneAtATime => OneUnfinished
  <2>1. ASSUME OneAtATime, NEW i \in DOMAIN ops, ops[i].status \notin TerminalStatus
        PROVE  user.active = i
    <3>1. DOMAIN ops = 1..Len(ops)
      BY <2>1, LenProperties DEF OneAtATime, History, TypeOK
    <3>2. i \in Ongoing(ops)
      BY <2>1, <3>1 DEF Ongoing
    <3>3. QED
      BY <2>1, <3>2 DEF OneAtATime, Single
  <2>2. QED
    BY <2>1 DEF OneUnfinished
<1>4. Spec /\ ActsAlone => []OneAtATime
  BY <1>1, <1>2, HistoryHolds, PTL DEF Spec, ActsAlone
<1>5. QED
  BY <1>3, <1>4, PTL
-----------------------------------------------------------------------------
(***************************************************************************)
(* Rest means settled, for the requests decide_transition keeps apart.     *)
(*                                                                         *)
(* A deletion, a retry by hand or of the worker, a probe or a restart may  *)
(* leave a target pending that nothing takes up: each is a way out of the  *)
(* rule that every pending target is waited for.  Updates, disables,       *)
(* administrator resets, sign-ins, password choices and expiries keep it,  *)
(* whatever the connectors answer.                                         *)
(***************************************************************************)
Plain == {"update", "disable", "reset", "login", "password", "keep", "expire"}

\* The account is wanted and reached; all the worker does is to expire it.
Undisturbed ==
  /\ user.exists /\ user.desired = "ensure" /\ available = Targets
  /\ worker.alive /\ \A d \in worker.due : d.target = NoTarget /\ d.op = NoOp

\* A synchronization is to come, after the session.
Waits == calls # <<>> \/ worker.due # {}

\* The waiting calls are for the whole account; the one that names an operation
\* is the one that operation waits for.
QueueServed ==
  /\ \A i \in 1..Len(calls) :
       /\ calls[i].action = "stored" /\ calls[i].target = NoTarget
       /\ calls[i].op # NoOp => calls[i].op \in Ongoing(ops) /\ sess = {}
  /\ \A i, j \in 1..Len(calls) :
       calls[i].op # NoOp /\ calls[j].op # NoOp => i = j

\* An unfinished operation is worked on or waits in the queue.
Attended ==
  \A k \in Ongoing(ops) : sess # {} \/ \E i \in 1..Len(calls) : calls[i].op = k

\* What a session does not see is a sign-in or an expiry, which waits behind it,
\* and what it sees as pending it still has to do.
Tracks(s) ==
  /\ s.desired = "ensure"
  /\ \A t \in Targets :
       /\ \/ rows[t].state = s.rows[t].state
          \/ rows[t].assigned /\ Waits
       /\ s.rows[t].state \notin PresentedTerminal => t \in s.todo \cup {s.at}

\* A pending target is in the scope of the next synchronization.
Reachable ==
  \A t \in Targets :
    rows[t].state \notin PresentedTerminal =>
      \/ rows[t].assigned \/ rows[t].state = "pending_disable"
      \/ \E s \in sess : t = s.at

Rests ==
  sess = {} /\ ~Waits => \A t \in Targets : rows[t].state \in PresentedTerminal

Calm ==
  /\ Undisturbed /\ QueueServed /\ Attended
  /\ \A s \in sess : Tracks(s)
  /\ Reachable /\ Rests

\* Which states are presented as final.
LEMMA FinalStates ==
  /\ {"failed", "unsupported", "awaiting_credentials", "ok", "unassigned", "chpw",
      "expired_disabled", "not_assigned"} \subseteq PresentedTerminal
  /\ "pending" \notin PresentedTerminal /\ "pending_disable" \notin PresentedTerminal
BY DEF PresentedTerminal, SyncState

\* A commit writes the state the session changed, and never the assignment.
LEMMA FlushState ==
  ASSUME NEW stored \in TargetRow, NEW seen \in TargetRow, NEW new \in TargetRow
  PROVE  /\ FlushRow(stored, seen, new).state
              = IF new.state # seen.state THEN new.state ELSE stored.state
         /\ FlushRow(stored, seen, new).assigned = stored.assigned
BY DEF FlushRow, Dirty, TargetRow

\* A session and its computed rows, before a commit: what is still to do is the
\* only thing it has computed as pending.
Tracked(s, r) ==
  /\ s.desired = "ensure"
  /\ \A t \in Targets :
       /\ \/ rows[t].state = s.rows[t].state
          \/ rows[t].assigned /\ Waits'
       /\ r[t].state = s.rows[t].state \/ r[t].state \in PresentedTerminal
       /\ r[t].state \notin PresentedTerminal => t \in s.todo
       /\ rows[t].state \notin PresentedTerminal =>
            \/ rows[t].assigned \/ rows[t].state = "pending_disable"
            \/ s.rows[t].state \notin PresentedTerminal /\ r[t].state \in PresentedTerminal

\* What a commit writes, and what it leaves: P holds the target of the attempt
\* that starts with it, if any.
Writes(r, new, P) ==
  \A t \in Targets : IF t \in P THEN new[t].state = "pending"
                     ELSE \/ new[t].state = r[t].state
                          \/ new[t].state \in PresentedTerminal

Written(new, P) ==
  \A t \in Targets :
    /\ \/ rows'[t].state = new[t].state
       \/ rows'[t].assigned /\ Waits'
    /\ rows'[t].state \notin PresentedTerminal =>
         \/ rows'[t].assigned \/ rows'[t].state = "pending_disable" \/ t \in P

LEMMA CommitTracked ==
  ASSUME rows \in [Targets -> TargetRow], NEW s, s.rows \in [Targets -> TargetRow],
         NEW r, Tracked(s, r), NEW new \in [Targets -> TargetRow], NEW P,
         Writes(r, new, P),
         rows' = [t \in Targets |-> FlushRow(rows[t], s.rows[t], new[t])]
  PROVE  Written(new, P)
<1>1. ASSUME NEW t \in Targets
      PROVE  /\ \/ rows'[t].state = new[t].state
                \/ rows'[t].assigned /\ Waits'
             /\ rows'[t].state \notin PresentedTerminal =>
                  \/ rows'[t].assigned \/ rows'[t].state = "pending_disable" \/ t \in P
  <2>1. rows[t] \in TargetRow /\ s.rows[t] \in TargetRow /\ new[t] \in TargetRow
    BY <1>1
  <2>2. rows'[t] = FlushRow(rows[t], s.rows[t], new[t])
    BY <1>1
  <2>3. /\ rows'[t].state = IF new[t].state # s.rows[t].state THEN new[t].state
                                                              ELSE rows[t].state
        /\ rows'[t].assigned = rows[t].assigned
    BY ONLY <2>1, <2>2, FlushState
  <2>4. /\ \/ rows[t].state = s.rows[t].state
           \/ rows[t].assigned /\ Waits'
        /\ r[t].state = s.rows[t].state \/ r[t].state \in PresentedTerminal
        /\ rows[t].state \notin PresentedTerminal =>
             \/ rows[t].assigned \/ rows[t].state = "pending_disable"
             \/ s.rows[t].state \notin PresentedTerminal /\ r[t].state \in PresentedTerminal
    BY <1>1 DEF Tracked
  <2>5. t \notin P => new[t].state = r[t].state \/ new[t].state \in PresentedTerminal
    BY <1>1 DEF Writes
  <2>6. CASE new[t].state # s.rows[t].state
    BY ONLY <2>3, <2>4, <2>5, <2>6
  <2>7. CASE new[t].state = s.rows[t].state
    BY ONLY <2>3, <2>4, <2>5, <2>7
  <2>8. QED
    BY <2>6, <2>7
<1>2. QED
  BY <1>1 DEF Written

\* The targets passed without a connector call end in a final state.
LEMMA PassedFinal ==
  ASSUME NEW s, NEW u, NEW r \in [Targets -> TargetRow], NEW Q \in SUBSET Passed(s, u, r)
  PROVE  \A t \in Targets :
           /\ \/ Settle(s, u, r, Q)[t].state = r[t].state
              \/ Settle(s, u, r, Q)[t].state \in PresentedTerminal
           /\ t \in Q => Settle(s, u, r, Q)[t].state \in PresentedTerminal
<1>1. ASSUME NEW t \in Targets
      PROVE  /\ \/ Settle(s, u, r, Q)[t].state = r[t].state
                \/ Settle(s, u, r, Q)[t].state \in PresentedTerminal
             /\ t \in Q => Settle(s, u, r, Q)[t].state \in PresentedTerminal
  <2>1. r[t] \in TargetRow
    BY <1>1
  <2>2. [r[t] EXCEPT !.state = "unsupported", !.retry = FALSE].state = "unsupported"
    BY <2>1 DEF TargetRow
  <2>3. CASE t \in Q /\ Unsupported(s, u, t, r[t])
    <3>1. Settle(s, u, r, Q)[t] = [r[t] EXCEPT !.state = "unsupported", !.retry = FALSE]
      BY <1>1, <2>3 DEF Settle
    <3>2. QED
      BY <2>2, <3>1, FinalStates
  <2>4. CASE ~(t \in Q /\ Unsupported(s, u, t, r[t]))
    <3>1. Settle(s, u, r, Q)[t] = r[t]
      BY <1>1, <2>4 DEF Settle
    <3>2. t \in Q => r[t].state = "awaiting_credentials"
      BY <2>4 DEF Passed, WaitsForPassword
    <3>3. QED
      BY <3>1, <3>2, FinalStates
  <2>5. QED
    BY <2>3, <2>4
<1>2. QED
  BY <1>1

\* What a step of the session leaves of the account's targets.
Settling ==
  /\ \A s \in sess' : Tracks(s)'
  /\ Reachable' /\ Rests'

LEMMA StartAttemptSettles ==
  ASSUME TypeOK, NEW s, NEW u, NEW r, NEW st, NEW o, Computed(s, u, r, st, o),
         Tracked(s, r), NEW Q \in SUBSET Passed(s, u, r),
         NEW t \in s.todo, StartAttempt(s, u, r, st, o, Q, t)
  PROVE  Settling /\ sess' # {}
<1> DEFINE settled == Settle(s, u, r, Q)
           new == [settled EXCEPT ![t].state = "pending", ![t].retry = FALSE]
           next == [s EXCEPT !.user = u, !.rows = new, !.status = st,
                             !.todo = @ \ (Q \cup {t}), !.at = t,
                             !.doing = OperationFor(s, u, r[t])]
<1>1. s \in SessionAt(Targets \cup {NoTarget}) /\ r \in [Targets -> TargetRow]
  BY DEF Computed
<1>2. /\ s.rows \in [Targets -> TargetRow] /\ rows \in [Targets -> TargetRow]
      /\ t \in Targets
  BY <1>1 DEF SessionAt, TypeOK
<1>3. settled \in [Targets -> TargetRow]
  BY <1>1, SettleType
<1>4. \A x \in Targets :
        /\ settled[x].state = r[x].state \/ settled[x].state \in PresentedTerminal
        /\ x \in Q => settled[x].state \in PresentedTerminal
  BY <1>1, PassedFinal
<1>5. /\ rows' = [x \in Targets |-> FlushRow(rows[x], s.rows[x], new[x])]
      /\ sess' = {next}
  BY DEF StartAttempt
<1>6. /\ next.rows = new /\ next.at = t /\ next.desired = s.desired
      /\ next.by = s.by /\ next.todo = s.todo \ (Q \cup {t})
  BY <1>1 DEF SessionAt
<1>7. Attempted(settled, t, new)
  BY DEF Attempted
<1> HIDE DEF settled, next, new
<1>8. /\ new \in [Targets -> TargetRow] /\ new[t].state = "pending"
      /\ \A x \in Targets : x # t => new[x] = settled[x]
  BY ONLY <1>2, <1>3, <1>7, AttemptRow
<1>9. Writes(r, new, {t})
  BY <1>4, <1>8 DEF Writes
<1>10. Written(new, {t})
  BY <1>2, <1>5, <1>8, <1>9, CommitTracked
<1>11. \A x \in Targets :
         new[x].state \notin PresentedTerminal => x \in next.todo \cup {next.at}
  <2>1. ASSUME NEW x \in Targets, new[x].state \notin PresentedTerminal, x # t
        PROVE  x \in s.todo /\ x \notin Q
    <3>1. x \notin Q /\ r[x].state \notin PresentedTerminal
      BY <1>4, <1>8, <2>1
    <3>2. QED
      BY <2>1, <3>1 DEF Tracked
  <2>2. QED
    BY <1>6, <2>1
<1>12. Tracks(next)'
  BY <1>6, <1>10, <1>11 DEF Tracks, Tracked, Written
<1>13. Reachable'
  BY <1>5, <1>6, <1>10 DEF Reachable, Written
<1>14. QED
  BY <1>5, <1>12, <1>13 DEF Settling, Rests

\* An operation whose targets are all in a final state ends.
LEMMA EndsFinal ==
  ASSUME NEW s, s.desired = "ensure", NEW new \in [Targets -> TargetRow], NEW st,
         \A t \in Targets : new[t].state \in PresentedTerminal
  PROVE  FinalStatus(s, new, st) \in TerminalStatus
<1>1. Done(s, new) = Owned(s, new)
  <2>1. ASSUME NEW t \in Targets
        PROVE  SyncStateTerminal(new[t].state, s.desired, new[t].assigned, FALSE)
    <3>1. new[t].state \in PresentedTerminal /\ "unassigned" \in PresentedTerminal
      BY <2>1, FinalStates
    <3>2. Normalise(new[t].state, new[t].assigned, FALSE)
            \in {new[t].state, "unassigned"}
      BY DEF Normalise
    <3>3. Normalise(new[t].state, new[t].assigned, FALSE) \in PresentedTerminal
      BY <3>1, <3>2
    <3>4. s.desired # "delete"
      OBVIOUS
    <3>5. QED
      BY <3>3, <3>4 DEF SyncStateTerminal
  <2>2. QED
    BY <2>1 DEF Done, Owned
<1>2. FinalStatus(s, new, st) \in {"partially_failed", "failed", "succeeded"}
  BY <1>1 DEF FinalStatus
<1>3. QED
  BY <1>2 DEF TerminalStatus

LEMMA EndOperationSettles ==
  ASSUME TypeOK, NEW s, NEW u, NEW r, NEW o, Computed(s, u, r, "running", o),
         Tracked(s, r), Sole(s, u, r, o), s.todo \subseteq Passed(s, u, r),
         EndOperation(s, u, r, "running", o)
  PROVE  Settling /\ Ongoing(ops') = {}
<1> DEFINE new == Settle(s, u, r, s.todo)
           final == FinalStatus(s, new, "running")
<1>1. /\ s \in SessionAt(Targets \cup {NoTarget}) /\ r \in [Targets -> TargetRow]
      /\ o \in Seq(Operation) /\ "running" \in OperationStatus
  BY DEF Computed
<1>2. s.rows \in [Targets -> TargetRow] /\ rows \in [Targets -> TargetRow]
  BY <1>1 DEF SessionAt, TypeOK
<1>3. new \in [Targets -> TargetRow]
  BY <1>1, SettleType
<1>4. \A x \in Targets :
        /\ new[x].state = r[x].state \/ new[x].state \in PresentedTerminal
        /\ x \in s.todo => new[x].state \in PresentedTerminal
  BY <1>1, PassedFinal
<1>5. /\ rows' = [x \in Targets |-> FlushRow(rows[x], s.rows[x], new[x])]
      /\ ops' = FlushOp(s, o, final)
      /\ sess' = {}
  BY DEF EndOperation
<1>6. final \in OperationStatus
  BY <1>1, FinalStatusType
<1> HIDE DEF new
<1>7. \A x \in Targets : new[x].state \in PresentedTerminal
  <2>1. ASSUME NEW x \in Targets, new[x].state \notin PresentedTerminal
        PROVE  FALSE
    <3>1. x \notin s.todo /\ r[x].state \notin PresentedTerminal
      BY <1>4, <2>1
    <3>2. QED
      BY <2>1, <3>1 DEF Tracked
  <2>2. QED
    BY <2>1
<1>8. final \in TerminalStatus
  BY <1>3, <1>7, EndsFinal DEF Tracked
<1> HIDE DEF final
<1>9. Ongoing(ops') = {}
  BY <1>1, <1>5, <1>6, <1>8, FlushSole
<1>10. Writes(r, new, {})
  BY <1>4 DEF Writes
<1>11. Written(new, {})
  BY <1>2, <1>3, <1>5, <1>10, CommitTracked
<1>12. Reachable' /\ Rests'
  BY <1>7, <1>11 DEF Reachable, Rests, Written
<1>13. QED
  BY <1>5, <1>9, <1>12 DEF Settling

\* The account and the worker stay as they are, whatever the session does.
LEMMA AdvanceSettles ==
  ASSUME TypeOK, Undisturbed, NEW s, NEW u, NEW r, NEW o,
         Computed(s, u, r, "running", o), Tracked(s, r), Sole(s, u, r, o),
         Advance(s, u, r, "running", o), available' = available
  PROVE  /\ Settling /\ Undisturbed'
         /\ sess' # {} \/ Ongoing(ops') = {}
<1>1. /\ user \in UserRow /\ s \in SessionAt(Targets \cup {NoTarget})
  BY DEF TypeOK, Computed
<1>2. s.todo \subseteq Targets /\ worker \in Worker
  BY <1>1 DEF SessionAt, TypeOK
<1>3. PICK Q \in SUBSET Passed(s, u, r) :
        \/ \E t \in s.todo \ Passed(s, u, r) : StartAttempt(s, u, r, "running", o, Q, t)
        \/ Q = s.todo /\ EndOperation(s, u, r, "running", o)
  BY DEF Advance
<1>4. ASSUME NEW v, NEW b, user' = FlushUser(user, s.user, v, b),
             worker' = worker \/ Release(s.by)
      PROVE  Undisturbed'
  <2>1. user'.exists = user.exists /\ user'.desired = user.desired
    BY <1>1, <1>4 DEF FlushUser, UserRow
  <2>2. worker'.alive = worker.alive /\ worker'.due = worker.due
    BY <1>2, <1>4 DEF Release, Worker
  <2>3. QED
    BY <2>1, <2>2 DEF Undisturbed
<1>5. CASE \E t \in s.todo \ Passed(s, u, r) : StartAttempt(s, u, r, "running", o, Q, t)
  <2>1. PICK t \in s.todo : StartAttempt(s, u, r, "running", o, Q, t)
    BY <1>5
  <2>2. Settling /\ sess' # {}
    BY <2>1, StartAttemptSettles
  <2>3. user' = FlushUser(user, s.user, u, FALSE) /\ worker' = worker
    BY <2>1 DEF StartAttempt
  <2>4. QED
    BY <1>4, <2>2, <2>3
<1>6. CASE Q = s.todo /\ EndOperation(s, u, r, "running", o)
  <2>1. Settling /\ Ongoing(ops') = {}
    BY <1>3, <1>6, EndOperationSettles
  <2>2. (\E v, b : user' = FlushUser(user, s.user, v, b)) /\ Release(s.by)
    BY <1>6 DEF EndOperation
  <2>3. QED
    BY <1>4, <2>1, <2>2
<1>7. QED
  BY <1>3, <1>5, <1>6
-----------------------------------------------------------------------------
\* The commands of these requests start on a free account or not at all.
LEMMA ModeFree ==
  ASSUME NEW cmd \in {"update", "expire", "credential_handoff"},
         NEW u \in UserRow, NEW o \in Seq(Operation), Pointed(u, o)
  PROVE  Mode(cmd, u, o) = IF Ongoing(o) = {} THEN "start" ELSE "reject"
BY ActiveOngoing DEF Mode, DecideTransition

\* The head of the queue, and what waits behind it.
LEMMA HeadServed ==
  ASSUME OneAtATime, Calm, LockFree
  PROVE  /\ Head(calls) \in Call /\ Head(calls) = calls[1] /\ 1 \in 1..Len(calls)
         /\ Head(calls).target = NoTarget /\ Head(calls).action = "stored"
         /\ GivenOp(Head(calls)) = Head(calls).op
         /\ CommandFor(Head(calls)) \in {"update", "expire", "credential_handoff"}
         /\ DesiredOf(Head(calls)) = "ensure"
         /\ Head(calls).op # NoOp => Head(calls).op \in Ongoing(ops)
         /\ Len(Tail(calls)) = Len(calls) - 1
         /\ \A i \in 1..Len(Tail(calls)) :
              Tail(calls)[i] = calls[i + 1] /\ i + 1 \in 1..Len(calls) /\ i + 1 # 1
<1>1. calls \in Seq(Call) /\ calls # <<>> /\ Len(calls) \in Nat
  BY LenProperties DEF OneAtATime, History, TypeOK, LockFree
<1>2. /\ Head(calls) = calls[1] /\ 1 \in 1..Len(calls)
      /\ Len(Tail(calls)) = Len(calls) - 1
      /\ \A i \in 1..Len(Tail(calls)) : Tail(calls)[i] = calls[i + 1]
  BY <1>1, HeadTailProperties, EmptySeq, LenProperties
<1>3. \A i \in 1..Len(Tail(calls)) : i + 1 \in 1..Len(calls) /\ i + 1 # 1
  BY <1>1, <1>2
<1> DEFINE c == Head(calls)
<1>4. /\ c.target = NoTarget /\ c.action = "stored"
      /\ c.op # NoOp => c.op \in Ongoing(ops)
  BY <1>2 DEF Calm, QueueServed
<1>5. c \in Call
  BY <1>1, <1>2, ElementOfSeq
<1> HIDE DEF c
<1>6. GivenOp(c) = c.op
  BY <1>4 DEF GivenOp, Repaired
<1>7. DesiredOf(c) = "ensure"
  BY <1>4 DEF DesiredOf, Calm, Undisturbed
<1>8. CommandFor(c) \in {"update", "expire", "credential_handoff"}
  BY <1>7 DEF CommandFor
<1>9. QED
  BY <1>2, <1>3, <1>4, <1>5, <1>6, <1>7, <1>8 DEF c

\* The operation it starts or goes on with is unfinished, and no call behind it
\* has one.
LEMMA HeadTakesUp ==
  ASSUME OneAtATime, Calm, LockFree, ~Conflicts(Head(calls))
  PROVE  /\ Chosen(Head(calls)).ops[Chosen(Head(calls)).op].status
              \in {"queued", "running"}
         /\ \A i \in 1..Len(Tail(calls)) : Tail(calls)[i].op = NoOp
<1> DEFINE c == Head(calls)
           q == Chosen(c)
           cmd == CommandFor(c)
<1>1. /\ c \in Call /\ c = calls[1] /\ 1 \in 1..Len(calls) /\ GivenOp(c) = c.op
      /\ cmd \in {"update", "expire", "credential_handoff"}
      /\ c.op # NoOp => c.op \in Ongoing(ops)
      /\ \A i \in 1..Len(Tail(calls)) :
           Tail(calls)[i] = calls[i + 1] /\ i + 1 \in 1..Len(calls) /\ i + 1 # 1
  BY HeadServed
<1>2. /\ user \in UserRow /\ ops \in Seq(Operation) /\ Len(ops) \in Nat
      /\ Pointed(user, ops)
  BY LenProperties DEF OneAtATime, History, TypeOK, Single, Referenced, Pointed
<1>3. q.ops \in Seq(Operation) /\ q.op \in Nat
  BY <1>1, ChosenType DEF OneAtATime, History
<1>4. ~Conflicts(c)
  OBVIOUS
<1>5. q = IF c.op # NoOp THEN [op |-> c.op, user |-> user, ops |-> ops]
                         ELSE Request(cmd, user, ops)
  BY <1>1 DEF Chosen
<1>6. c.op = NoOp => Mode(cmd, user, ops) # "reject"
  BY <1>1, <1>4 DEF Conflicts
<1>7. ASSUME NEW i \in 1..Len(Tail(calls))
      PROVE  Tail(calls)[i].op = NoOp \/ (c.op = NoOp /\ Tail(calls)[i].op \in Ongoing(ops))
  BY <1>1 DEF Calm, QueueServed
<1> HIDE DEF c, q, cmd
<1>8. CASE c.op # NoOp
  <2>1. q.op = c.op /\ q.ops = ops
    BY <1>5, <1>8
  <2>2. q.op \in Ongoing(q.ops)
    BY <1>1, <1>8, <2>1
  <2>3. q.ops[q.op].status \in {"queued", "running"}
    <3>1. q.op \in 1..Len(q.ops) /\ q.ops[q.op].status \notin TerminalStatus
      BY <2>2 DEF Ongoing
    <3>2. q.ops[q.op] \in Operation
      BY <1>3, <3>1, ElementOfSeq
    <3>3. QED
      BY <3>1, <3>2 DEF Operation, OperationStatus
  <2>4. QED
    BY <1>7, <1>8, <2>3 DEF c, q
<1>9. CASE c.op = NoOp
  <2>1. q = Request(cmd, user, ops) /\ Mode(cmd, user, ops) # "reject"
    BY <1>5, <1>6, <1>9
  <2>2. Ongoing(ops) = {}
    BY <1>1, <1>2, <2>1, ModeFree
  <2>3. Granted(cmd, user, ops, q)
    <3>1. cmd \in {"update", "delete", "restore", "expire", "credential_handoff"}
      BY <1>1
    <3>2. QED
      BY ONLY <1>2, <2>1, <3>1, RequestSingle
  <2>4. q.op \in 1..Len(q.ops) /\ q.ops[q.op].status \notin TerminalStatus
    BY <2>3 DEF Granted, Ongoing
  <2>5. q.ops[q.op] \in Operation
    BY <1>3, <2>4, ElementOfSeq
  <2>6. q.ops[q.op].status \in {"queued", "running"}
    BY <2>4, <2>5 DEF Operation, OperationStatus
  <2>7. QED
    BY <1>7, <2>2, <2>6 DEF c, q
<1>10. QED
  BY <1>8, <1>9

-----------------------------------------------------------------------------
\* The steps these requests leave possible: what the queue holds can always be
\* taken up, and the account stays.
LEMMA PlainSteps ==
  ASSUME OneAtATime, Calm, Requests \subseteq Plain, Next
  PROVE  \/ SyncStarts \/ ConnectorReturns
         \/ LockFree /\ Conflicts(Head(calls)) /\ SyncDropped
         \/ UpdateUser \/ ResetPassword \/ Login \/ ChangePassword \/ KeepPassword
         \/ WorkerExpires \/ WorkerCalls
<1>1. user.exists /\ \A x \in Requests : x \in Plain
  BY DEF Calm, Undisturbed
<1>2. ~SyncRaises
  <2>1. ASSUME SyncRaises
        PROVE  FALSE
    <3>1. LockFree /\ ~Conflicts(Head(calls))
      BY <2>1 DEF SyncRaises
    <3>2. Chosen(Head(calls)).ops[Chosen(Head(calls)).op].status \in {"queued", "running"}
      BY <3>1, HeadTakesUp
    <3>3. Chosen(Head(calls)).ops[Chosen(Head(calls)).op].status \notin Resumable
      BY <2>1 DEF SyncRaises
    <3>4. QED
      BY <3>2, <3>3 DEF Resumable
  <2>2. QED
    BY <2>1
<1>3. ~SessionLost
  BY <1>1 DEF SessionLost
<1>4. ~DeleteUser /\ ~RestoreUser /\ ~PurgeUser /\ \A t \in Targets : ~RetryTarget(t)
  BY <1>1 DEF DeleteUser, RestoreUser, PurgeUser, RetryTarget, Plain
<1>5. ~WorkerScans
  BY <1>1 DEF WorkerScans, ScanFinds, Plain
<1>6. (\A t \in Targets : ~ProbeChanges(t)) /\ ~Restart
  BY <1>1 DEF ProbeChanges, Restart, Plain
<1>7. SyncDropped => LockFree /\ Conflicts(Head(calls))
  BY <1>1 DEF SyncDropped
<1>8. QED
  BY <1>2, <1>3, <1>4, <1>5, <1>6, <1>7 DEF Next, Synchronize, Administer

\* None of them leaves a second operation unfinished.
LEMMA CalmAlone ==
  ASSUME OneAtATime, Calm, Requests \subseteq Plain
  PROVE  Alone
<1>1. ~DeleteUser /\ ~PurgeUser
  BY DEF DeleteUser, PurgeUser, Plain
<1>2. SyncStarts =>
        Chosen(Head(calls)).ops[Chosen(Head(calls)).op].status \in {"queued", "running"}
  BY HeadTakesUp DEF SyncStarts
<1>3. QED
  BY <1>1, <1>2 DEF Alone

\* A synchronization starts on every pending target.
LEMMA StartsCalm ==
  ASSUME OneAtATime, Calm, Alone, SyncStarts
  PROVE  Calm'
<1>1. LockFree /\ sess = {} /\ ~Conflicts(Head(calls))
  BY DEF SyncStarts, LockFree
<1>2. PICK c \in Call :
        /\ c = Head(calls) /\ calls' = Tail(calls) /\ available' = available
        /\ Computed(Starting(c), Resumed(Chosen(c)), Claimed(c), "running",
                    Chosen(c).ops)
        /\ Advance(Starting(c), Resumed(Chosen(c)), Claimed(c), "running",
                   Chosen(c).ops)
        /\ Sole(Starting(c), Resumed(Chosen(c)), Claimed(c), Chosen(c).ops)
  BY StartsSole
<1>3. /\ c.target = NoTarget /\ DesiredOf(c) = "ensure"
      /\ \A i \in 1..Len(Tail(calls)) :
           /\ Tail(calls)[i] = calls[i + 1] /\ i + 1 \in 1..Len(calls)
           /\ Tail(calls)[i].op = NoOp
  BY <1>1, <1>2, HeadServed, HeadTakesUp
<1>4. TypeOK /\ rows \in [Targets -> TargetRow]
  BY DEF OneAtATime, History, TypeOK
<1>5. ASSUME NEW t \in Targets
      PROVE  /\ Claimed(c)[t].state = rows[t].state
             /\ rows[t].state \notin PresentedTerminal =>
                  /\ rows[t].assigned \/ rows[t].state = "pending_disable"
                  /\ t \in Scope(c) \cap available
  <2>1. rows[t] \in TargetRow
    BY <1>4, <1>5
  <2>2. Claimed(c)[t].state = rows[t].state
    BY <1>5, <2>1 DEF Claimed, TargetRow
  <2>3. ASSUME rows[t].state \notin PresentedTerminal
        PROVE  /\ rows[t].assigned \/ rows[t].state = "pending_disable"
               /\ t \in Scope(c) \cap available
    <3>1. rows[t].assigned \/ rows[t].state = "pending_disable"
      BY <1>1, <1>5, <2>3 DEF Calm, Reachable
    <3>2. rows[t].state # "chpw"
      BY <2>3, FinalStates
    <3>3. t \in available
      BY <1>5 DEF Calm, Undisturbed
    <3>4. QED
      BY <1>3, <1>5, <3>1, <3>2, <3>3 DEF Scope
  <2>4. QED
    BY <2>2, <2>3
<1> DEFINE s == Starting(c)
<1>6. /\ s.desired = "ensure" /\ s.rows = rows
      /\ s.todo = Scope(c) \cap available
  BY <1>3 DEF Starting
<1> HIDE DEF s
<1>7. Tracked(s, Claimed(c))
  BY <1>5, <1>6 DEF Tracked
<1>8. Settling /\ Undisturbed' /\ (sess' # {} \/ Ongoing(ops') = {})
  BY <1>2, <1>4, <1>7, AdvanceSettles DEF s, Calm
<1>9. QueueServed'
  BY <1>2, <1>3 DEF Calm, QueueServed
<1>10. QED
  BY <1>8, <1>9 DEF Calm, Settling, Attended

\* The target whose call returns is settled.
LEMMA ReturnsCalm ==
  ASSUME OneAtATime, Calm, ConnectorReturns
  PROVE  Calm'
<1>1. PICK s \in sess, outcome \in Outcomes : ReturnsWith(s, outcome)
  BY DEF ConnectorReturns, Answers
<1> DEFINE r == [s.rows EXCEPT ![s.at] = RowAfter(s, @, outcome)]
<1>2. /\ Computed(s, s.user, r, "running", ops)
      /\ Advance(s, s.user, r, "running", ops)
      /\ Sole(s, s.user, r, ops)
      /\ calls' = calls /\ available' = available /\ worker'.due = worker.due
  BY <1>1, ReturnsSole, ReturnsSingle
<1>3. /\ TypeOK /\ Sees(s) /\ Tracks(s) /\ \A z \in sess : z = s
      /\ Ongoing(ops) # {}
  BY <1>1 DEF OneAtATime, History, TypeOK, Calm, Single, WorksFor
<1>4. s.rows \in [Targets -> TargetRow] /\ s.at \in Targets
  BY <1>1, <1>3, AnsweredType DEF SessionAt
<1>5. r[s.at].state \in PresentedTerminal /\ \A t \in Targets : t # s.at => r[t] = s.rows[t]
  <2>1. s.rows[s.at] \in TargetRow
    BY <1>4
  <2>2. StateAfterSuccess(s, s.rows[s.at]) \in {"ok", "unassigned", "chpw", "expired_disabled"}
    BY DEF StateAfterSuccess
  <2>3. RowAfter(s, s.rows[s.at], outcome).state
          \in {"ok", "unassigned", "chpw", "expired_disabled", "unsupported", "failed"}
    BY <2>1, <2>2 DEF RowAfter, TargetRow
  <2>4. r[s.at] = RowAfter(s, s.rows[s.at], outcome)
    BY <1>4
  <2>5. QED
    BY <1>4, <2>3, <2>4, FinalStates
<1> HIDE DEF r
<1>6. Tracked(s, r)
  <2>1. ASSUME NEW t \in Targets
        PROVE  /\ \/ rows[t].state = s.rows[t].state
                  \/ rows[t].assigned /\ Waits'
               /\ r[t].state = s.rows[t].state \/ r[t].state \in PresentedTerminal
               /\ r[t].state \notin PresentedTerminal => t \in s.todo
               /\ rows[t].state \notin PresentedTerminal =>
                    \/ rows[t].assigned \/ rows[t].state = "pending_disable"
                    \/ /\ s.rows[t].state \notin PresentedTerminal
                       /\ r[t].state \in PresentedTerminal
    <3>1. /\ \/ rows[t].state = s.rows[t].state
             \/ rows[t].assigned /\ Waits'
          /\ s.rows[t].state \notin PresentedTerminal => t \in s.todo \cup {s.at}
      BY <1>2, <1>3, <2>1 DEF Tracks, Waits
    <3>2. rows[t].state \notin PresentedTerminal =>
            rows[t].assigned \/ rows[t].state = "pending_disable" \/ t = s.at
      BY <1>3, <2>1 DEF Calm, Reachable
    <3>3. s.rows[s.at].state \notin PresentedTerminal
      BY <1>3, FinalStates DEF Sees
    <3>4. QED
      BY <1>5, <2>1, <3>1, <3>2, <3>3
  <2>2. QED
    BY <1>3, <2>1 DEF Tracks, Tracked
<1>7. Settling /\ Undisturbed' /\ (sess' # {} \/ Ongoing(ops') = {})
  BY <1>2, <1>3, <1>6, AdvanceSettles DEF Calm
<1>8. QueueServed'
  <2>1. \A i \in 1..Len(calls) : calls[i].op = NoOp
    BY <1>1 DEF Calm, QueueServed
  <2>2. QED
    BY <1>2, <2>1 DEF Calm, QueueServed
<1>9. QED
  BY <1>7, <1>8 DEF Calm, Settling, Attended

\* A call is dropped for an operation that another call waits to work on.
LEMMA DroppedCalm ==
  ASSUME OneAtATime, Calm, LockFree, Conflicts(Head(calls)), SyncDropped
  PROVE  Calm'
<1> DEFINE c == Head(calls)
<1>1. /\ c = calls[1] /\ 1 \in 1..Len(calls) /\ GivenOp(c) = c.op
      /\ CommandFor(c) \in {"update", "expire", "credential_handoff"}
      /\ Len(Tail(calls)) = Len(calls) - 1
      /\ \A i \in 1..Len(Tail(calls)) :
           Tail(calls)[i] = calls[i + 1] /\ i + 1 \in 1..Len(calls)
  BY HeadServed
<1>2. /\ user \in UserRow /\ ops \in Seq(Operation) /\ calls \in Seq(Call)
      /\ Len(calls) \in Nat /\ Pointed(user, ops) /\ worker \in Worker
  BY LenProperties DEF OneAtATime, History, TypeOK, Single, Referenced, Pointed
<1>3. c.op = NoOp /\ Mode(CommandFor(c), user, ops) = "reject"
  BY <1>1 DEF Conflicts
<1>4. /\ calls' = Tail(calls)
      /\ worker'.alive = worker.alive /\ worker'.due = worker.due
      /\ UNCHANGED <<user, rows, ops, available, sess>> /\ sess = {}
  BY <1>2 DEF SyncDropped, Release, LockFree, Worker
<1> HIDE DEF c
<1>5. Ongoing(ops) # {}
  BY <1>1, <1>2, <1>3, ModeFree
<1>6. PICK k \in Ongoing(ops), j \in 1..Len(calls) : calls[j].op = k
  BY <1>4, <1>5 DEF Calm, Attended
<1>7. k # NoOp
  BY <1>6 DEF Ongoing, NoOp
<1>8. j # 1
  BY <1>1, <1>3, <1>6, <1>7
<1>9. /\ j - 1 \in 1..Len(Tail(calls)) /\ j - 1 + 1 = j
  BY <1>1, <1>2, <1>6, <1>8
<1>10. Tail(calls)[j - 1].op = k /\ Tail(calls) # <<>>
  <2>1. Tail(calls)[j - 1] = calls[j]
    BY <1>1, <1>9
  <2>2. Len(Tail(calls)) # 0
    BY <1>1, <1>2, <1>9
  <2>3. Tail(calls) = <<>> => Len(Tail(calls)) = 0
    BY Len(<<>>) = 0
  <2>4. QED
    BY <1>6, <2>1, <2>2, <2>3
<1>11. Ongoing(ops) = {k}
  BY <1>2, <1>6 DEF Pointed
<1>12. Attended'
  BY <1>4, <1>9, <1>10, <1>11 DEF Attended
<1>13. QueueServed'
  <2>1. ASSUME NEW i \in 1..Len(Tail(calls))
        PROVE  /\ Tail(calls)[i].action = "stored" /\ Tail(calls)[i].target = NoTarget
               /\ Tail(calls)[i].op # NoOp => Tail(calls)[i].op \in Ongoing(ops)
    BY <1>1, <2>1 DEF Calm, QueueServed
  <2>2. ASSUME NEW i \in 1..Len(Tail(calls)), NEW i2 \in 1..Len(Tail(calls)),
               Tail(calls)[i].op # NoOp, Tail(calls)[i2].op # NoOp
        PROVE  i = i2
    <3>1. i + 1 = i2 + 1
      BY <1>1, <2>2 DEF Calm, QueueServed
    <3>2. QED
      BY <1>1, <1>2, <2>2, <3>1
  <2>3. QED
    BY <1>4, <2>1, <2>2 DEF QueueServed
<1>14. QED
  BY <1>4, <1>10, <1>12, <1>13 DEF Calm, Undisturbed, Reachable, Rests, Waits

\* An administrator's request finds the account free, marks targets pending and
\* waits in the queue with the operation it started.
LEMMA RequestedCalm ==
  ASSUME OneAtATime, Calm, Mode("update", user, ops) # "reject",
         NEW selected, NEW requireChange \in BOOLEAN,
         SetPending(selected, requireChange, FALSE),
         ops' = Request("update", user, ops).ops,
         Enqueue("stored", NoTarget, "system", Request("update", user, ops).op, "task"),
         user'.exists = user.exists, user'.desired = user.desired,
         UNCHANGED <<available, sess, worker>>
  PROVE  Calm'
<1> DEFINE q == Request("update", user, ops)
           call == [action |-> "stored", target |-> NoTarget, actor |-> "system",
                    op |-> q.op, by |-> "task"]
<1>1. /\ user \in UserRow /\ ops \in Seq(Operation) /\ calls \in Seq(Call)
      /\ Len(calls) \in Nat /\ Pointed(user, ops) /\ rows \in [Targets -> TargetRow]
  BY LenProperties DEF OneAtATime, History, TypeOK, Single, Referenced, Pointed
<1>2. Ongoing(ops) = {}
  BY <1>1, ModeFree
<1>3. Granted("update", user, ops, q)
  BY <1>1, RequestSingle
<1>4. Ongoing(ops') = {q.op}
  BY <1>3 DEF Granted
<1>5. sess = {} /\ \A i \in 1..Len(calls) : calls[i].op = NoOp
  BY <1>2 DEF OneAtATime, Single, WorksFor, Calm, QueueServed
<1>6. /\ calls' = Append(calls, call) /\ call.action = "stored"
      /\ call.target = NoTarget /\ call.op = q.op
      /\ call \in Call
  <2>1. q.op \in Nat
    BY <1>1, RequestType DEF Command
  <2>2. QED
    BY <2>1 DEF Enqueue, Call
<1> HIDE DEF call, q
<1>7. /\ Len(calls') = Len(calls) + 1 /\ calls' # <<>>
      /\ calls'[Len(calls) + 1] = call
      /\ \A i \in 1..Len(calls) : calls'[i] = calls[i]
  BY <1>1, <1>6, AppendProperties
<1>8. \A i \in 1..Len(calls') : i \in 1..Len(calls) \/ i = Len(calls) + 1
  BY <1>1, <1>7
<1>9. sess' = {}
  BY <1>5
<1>10. QueueServed'
  <2>1. ASSUME NEW i \in 1..Len(calls')
        PROVE  /\ calls'[i].action = "stored" /\ calls'[i].target = NoTarget
               /\ calls'[i].op = IF i = Len(calls) + 1 THEN q.op ELSE NoOp
    <3>1. CASE i \in 1..Len(calls)
      <4>1. i # Len(calls) + 1
        BY <1>1, <3>1
      <4>2. QED
        BY <1>5, <1>7, <3>1, <4>1 DEF Calm, QueueServed
    <3>2. CASE i = Len(calls) + 1
      BY <1>6, <1>7, <3>2
    <3>3. QED
      BY <1>8, <3>1, <3>2
  <2>2. QED
    BY <1>4, <1>9, <2>1 DEF QueueServed
<1>11. Attended'
  <2>1. Len(calls) + 1 \in 1..Len(calls')
    BY <1>1, <1>7
  <2>2. QED
    BY <1>4, <1>6, <1>7, <2>1 DEF Attended
<1>12. Reachable'
  <2>1. ASSUME NEW t \in Targets, rows'[t].state \notin PresentedTerminal
        PROVE  rows'[t].assigned \/ rows'[t].state = "pending_disable"
    <3>1. rows[t] \in TargetRow
      BY <1>1, <2>1
    <3>2. \/ rows'[t].assigned
          \/ rows'[t].state = "pending_disable"
          \/ rows'[t] = rows[t]
      BY <2>1, <3>1 DEF SetPending, TargetRow
    <3>3. CASE rows'[t] = rows[t]
      BY <1>5, <2>1, <3>3 DEF Calm, Reachable
    <3>4. QED
      BY <3>2, <3>3
  <2>2. QED
    BY <2>1 DEF Reachable
<1>13. Undisturbed'
  BY DEF Calm, Undisturbed
<1>14. QED
  BY <1>7, <1>9, <1>10, <1>11, <1>12, <1>13 DEF Calm, Rests, Waits

LEMMA AdministerCalm ==
  ASSUME OneAtATime, Calm, UpdateUser \/ ResetPassword
  PROVE  Calm'
<1>1. user \in UserRow /\ ops \in Seq(Operation)
  BY DEF OneAtATime, History, TypeOK
<1>2. /\ Request("update", user, ops).user \in UserRow
      /\ Request("update", user, ops).user.exists = user.exists
      /\ Request("update", user, ops).user.desired = user.desired
  <2>1. Request("update", user, ops).user \in {user, [user EXCEPT !.active = Len(ops) + 1]}
    BY DEF Request
  <2>2. Len(ops) + 1 \in Nat
    BY <1>1, LenProperties
  <2>3. QED
    BY <1>1, <2>1, <2>2 DEF UserRow
<1>3. CASE UpdateUser
  <2>1. PICK selected, disabled :
          /\ user' = [Request("update", user, ops).user EXCEPT !.disabled = disabled]
          /\ SetPending(selected, FALSE, FALSE)
          /\ ops' = Request("update", user, ops).ops
          /\ Enqueue("stored", NoTarget, "system",
                     Request("update", user, ops).op, "task")
    BY <1>3 DEF UpdateUser
  <2>2. user'.exists = user.exists /\ user'.desired = user.desired
    BY <1>2, <2>1 DEF UserRow
  <2>3. Mode("update", user, ops) # "reject" /\ UNCHANGED <<available, sess, worker>>
    BY <1>3 DEF UpdateUser
  <2>4. FALSE \in BOOLEAN
    OBVIOUS
  <2>5. QED
    BY ONLY OneAtATime, Calm, <2>1, <2>2, <2>3, <2>4, RequestedCalm
<1>4. CASE ResetPassword
  <2>1. PICK selected, disabled :
          /\ user' = [Request("update", user, ops).user EXCEPT
                        !.disabled = disabled, !.kind = "reset",
                        !.secret = NoPwd, !.pwd = @ + 1]
          /\ SetPending(selected, TRUE, FALSE)
          /\ ops' = Request("update", user, ops).ops
          /\ Enqueue("stored", NoTarget, "system",
                     Request("update", user, ops).op, "task")
    BY <1>4 DEF ResetPassword
  <2>2. user'.exists = user.exists /\ user'.desired = user.desired
    BY <1>2, <2>1 DEF UserRow
  <2>3. Mode("update", user, ops) # "reject" /\ UNCHANGED <<available, sess, worker>>
    BY <1>4 DEF ResetPassword
  <2>4. TRUE \in BOOLEAN
    OBVIOUS
  <2>5. QED
    BY ONLY OneAtATime, Calm, <2>1, <2>2, <2>3, <2>4, RequestedCalm
<1>5. QED
  BY <1>3, <1>4

\* A call without an operation joins the queue.
LEMMA JoinedCalm ==
  ASSUME OneAtATime, Calm, NEW call \in Call,
         call.action = "stored", call.target = NoTarget, call.op = NoOp,
         calls' = Append(calls, call), UNCHANGED <<ops, sess>>
  PROVE  QueueServed' /\ Attended' /\ calls' # <<>>
<1>1. calls \in Seq(Call) /\ Len(calls) \in Nat
  BY LenProperties DEF OneAtATime, History, TypeOK
<1>2. /\ Len(calls') = Len(calls) + 1 /\ calls' # <<>>
      /\ calls'[Len(calls) + 1] = call
      /\ \A i \in 1..Len(calls) : calls'[i] = calls[i]
  BY <1>1, AppendProperties
<1>3. \A i \in 1..Len(calls') : i \in 1..Len(calls) \/ i = Len(calls) + 1
  BY <1>1, <1>2
<1>4. QueueServed'
  <2>1. ASSUME NEW i \in 1..Len(calls')
        PROVE  /\ calls'[i].action = "stored" /\ calls'[i].target = NoTarget
               /\ calls'[i].op # NoOp =>
                    /\ i \in 1..Len(calls) /\ calls'[i].op = calls[i].op
                    /\ calls'[i].op \in Ongoing(ops) /\ sess = {}
    BY <1>2, <1>3, <2>1 DEF Calm, QueueServed
  <2>2. ASSUME NEW i \in 1..Len(calls'), NEW j \in 1..Len(calls'),
               calls'[i].op # NoOp, calls'[j].op # NoOp
        PROVE  i = j
    BY <2>1, <2>2 DEF Calm, QueueServed
  <2>3. QED
    BY <2>1, <2>2 DEF QueueServed
<1>5. Attended'
  <2>1. ASSUME NEW k \in Ongoing(ops), sess = {}
        PROVE  \E i \in 1..Len(calls') : calls'[i].op = k
    <3>1. PICK i \in 1..Len(calls) : calls[i].op = k
      BY <2>1 DEF Calm, Attended
    <3>2. i \in 1..Len(calls') /\ calls'[i].op = k
      BY <1>1, <1>2, <3>1
    <3>3. QED
      BY <3>2
  <2>2. QED
    BY <2>1 DEF Attended
<1>6. QED
  BY <1>2, <1>4, <1>5

\* Assigned targets are marked while a synchronization is to come.
LEMMA MarkedCalm ==
  ASSUME Calm, \A t \in Targets : rows'[t] = rows[t] \/ rows'[t].assigned,
         sess' = sess, Waits'
  PROVE  (\A s \in sess' : Tracks(s)') /\ Reachable'
<1>1. ASSUME NEW s \in sess
      PROVE  Tracks(s)'
  <2>1. Tracks(s)
    BY <1>1 DEF Calm
  <2>2. QED
    BY <2>1 DEF Tracks
<1>2. Reachable'
  BY DEF Calm, Reachable
<1>3. QED
  BY <1>1, <1>2

\* A sign-in makes assigned targets pending and queues for them, or does nothing.
LEMMA HandoffCalm ==
  ASSUME OneAtATime, Calm, NEW u \in UserRow, NEW p, CredentialHandoff(u, p),
         u.exists = user.exists, u.desired = user.desired,
         UNCHANGED <<ops, available, sess, worker>>
  PROVE  Calm'
<1>1. /\ calls \in Seq(Call) /\ Len(calls) \in Nat /\ rows \in [Targets -> TargetRow]
  BY LenProperties DEF OneAtATime, History, TypeOK
<1>2. user' \in {u, [u EXCEPT !.secret = p]}
  BY DEF CredentialHandoff
<1>3. user'.exists = user.exists /\ user'.desired = user.desired
  BY <1>2 DEF UserRow
<1>4. Undisturbed'
  BY <1>3 DEF Calm, Undisturbed
<1>5. CASE UNCHANGED <<rows, calls>>
  BY <1>4, <1>5 DEF Calm, QueueServed, Attended, Tracks, Reachable, Rests, Waits
<1>6. CASE ~ UNCHANGED <<rows, calls>>
  <2> DEFINE call == [action |-> "stored", target |-> NoTarget,
                      actor |-> "verified-login", op |-> NoOp, by |-> "task"]
  <2>1. /\ rows' = [t \in Targets |->
                     IF t \in Waiting THEN [rows[t] EXCEPT !.state = "pending"]
                                      ELSE rows[t]]
        /\ calls' = Append(calls, call)
    BY <1>6 DEF CredentialHandoff, Enqueue
  <2>2. /\ call \in Call /\ call.action = "stored" /\ call.target = NoTarget
        /\ call.op = NoOp
    BY DEF Call, NoOp
  <2> HIDE DEF call
  <2>3. QueueServed' /\ Attended' /\ calls' # <<>>
    BY <2>1, <2>2, JoinedCalm
  <2>4. ASSUME NEW t \in Targets
        PROVE  \/ rows'[t] = rows[t]
               \/ rows'[t].assigned /\ rows'[t].state = "pending"
    <3>1. rows[t] \in TargetRow
      BY <1>1, <2>4
    <3>2. CASE t \in Waiting
      <4>1. rows'[t] = [rows[t] EXCEPT !.state = "pending"] /\ rows[t].assigned
        BY <2>1, <2>4, <3>2 DEF Waiting, Assigned
      <4>2. QED
        BY <3>1, <4>1 DEF TargetRow
    <3>3. CASE t \notin Waiting
      BY <2>1, <2>4, <3>3
    <3>4. QED
      BY <3>2, <3>3
  <2>5. (\A s \in sess' : Tracks(s)') /\ Reachable'
    BY <2>3, <2>4, MarkedCalm DEF Waits
  <2>6. QED
    BY <1>4, <2>3, <2>5 DEF Calm, Rests, Waits
<1>7. QED
  BY <1>5, <1>6

LEMMA UserActionCalm ==
  ASSUME OneAtATime, Calm, Login \/ ChangePassword \/ KeepPassword
  PROVE  Calm'
<1>1. user \in UserRow /\ user.pwd + 1 \in Nat
  BY DEF OneAtATime, History, TypeOK, UserRow
<1>2. UNCHANGED <<ops, available, sess, worker>>
  BY DEF Login, ChangePassword, KeepPassword
<1>3. CASE Login
  BY <1>1, <1>2, <1>3, HandoffCalm DEF Login
<1>4. CASE ChangePassword
  <2> DEFINE u == [user EXCEPT !.kind = "none", !.pwd = @ + 1]
  <2>1. u \in UserRow /\ u.exists = user.exists /\ u.desired = user.desired
    BY <1>1 DEF UserRow, Kinds
  <2>2. CredentialHandoff(u, user.pwd + 1)
    BY <1>4 DEF ChangePassword
  <2> HIDE DEF u
  <2>3. QED
    BY <1>2, <2>1, <2>2, HandoffCalm
<1>5. CASE KeepPassword
  <2> DEFINE u == [user EXCEPT !.kind = "none"]
  <2>1. u \in UserRow /\ u.exists = user.exists /\ u.desired = user.desired
    BY <1>1 DEF UserRow, Kinds
  <2>2. CredentialHandoff(u, user.pwd)
    BY <1>5 DEF KeepPassword
  <2> HIDE DEF u
  <2>3. QED
    BY <1>2, <2>1, <2>2, HandoffCalm
<1>6. QED
  BY <1>3, <1>4, <1>5

\* The worker marks an account as expired, and asks for its synchronization.
LEMMA ExpiresCalm ==
  ASSUME OneAtATime, Calm, WorkerExpires
  PROVE  Calm'
<1>1. user \in UserRow /\ worker \in Worker /\ rows \in [Targets -> TargetRow]
  BY DEF OneAtATime, History, TypeOK
<1>2. /\ user' = [user EXCEPT !.kind = "expired"]
      /\ worker' = [worker EXCEPT !.due = {[target |-> NoTarget, op |-> NoOp]}]
      /\ UNCHANGED <<ops, available, calls, sess>>
  BY DEF WorkerExpires
<1>3. /\ user'.exists = user.exists /\ user'.desired = user.desired
      /\ worker'.alive = worker.alive
      /\ worker'.due = {[target |-> NoTarget, op |-> NoOp]}
  BY <1>1, <1>2 DEF UserRow, Worker
<1>4. ASSUME NEW t \in Targets
      PROVE  rows'[t] = rows[t] \/ rows'[t].assigned
  <2>1. rows[t] \in TargetRow
    BY <1>1, <1>4
  <2>2. \/ rows'[t] = rows[t]
        \/ /\ rows'[t] = [rows[t] EXCEPT !.state = "pending_expiry_disable", !.retry = FALSE]
           /\ rows[t].assigned
    BY <1>4 DEF WorkerExpires, Assigned
  <2>3. QED
    BY <2>1, <2>2 DEF TargetRow
<1>5. Waits'
  BY <1>3 DEF Waits
<1>6. (\A s \in sess' : Tracks(s)') /\ Reachable'
  BY <1>2, <1>4, <1>5, MarkedCalm
<1>7. Undisturbed'
  BY <1>2, <1>3 DEF Calm, Undisturbed
<1>8. QueueServed' /\ Attended' /\ Rests'
  BY <1>2, <1>5 DEF Calm, QueueServed, Attended, Rests
<1>9. QED
  BY <1>6, <1>7, <1>8 DEF Calm

LEMMA WorkerCallsCalm ==
  ASSUME OneAtATime, Calm, WorkerCalls
  PROVE  Calm'
<1>1. worker \in Worker
  BY DEF OneAtATime, History, TypeOK
<1>2. PICK d \in worker.due :
        /\ worker' = [worker EXCEPT !.due = @ \ {d}, !.waiting = TRUE]
        /\ calls' = Append(calls,
             [action |-> "stored", target |-> d.target, op |-> d.op,
              actor |-> IF d.target = NoTarget THEN "password-expiry" ELSE "system",
              by |-> "worker"])
  BY DEF WorkerCalls
<1> DEFINE call == [action |-> "stored", target |-> d.target, op |-> d.op,
                    actor |-> IF d.target = NoTarget THEN "password-expiry"
                                                     ELSE "system",
                    by |-> "worker"]
<1>3. d.target = NoTarget /\ d.op = NoOp
  BY <1>2 DEF Calm, Undisturbed
<1>4. /\ call \in Call /\ call.action = "stored" /\ call.target = NoTarget
      /\ call.op = NoOp
  BY <1>3 DEF Call, NoOp
<1>5. calls' = Append(calls, call) /\ UNCHANGED <<user, rows, ops, available, sess>>
  BY <1>2 DEF WorkerCalls
<1> HIDE DEF call
<1>6. QueueServed' /\ Attended' /\ calls' # <<>>
  BY <1>4, <1>5, JoinedCalm
<1>7. Waits'
  BY <1>6 DEF Waits
<1>8. (\A s \in sess' : Tracks(s)') /\ Reachable'
  BY <1>5, <1>7, MarkedCalm
<1>9. Undisturbed'
  <2>1. worker'.alive = worker.alive /\ worker'.due \subseteq worker.due
    BY <1>1, <1>2 DEF Worker
  <2>2. QED
    BY <1>5, <2>1 DEF Calm, Undisturbed
<1>10. QED
  BY <1>6, <1>7, <1>8, <1>9 DEF Calm, Rests

\* A new account waits for its first password, an established one for nothing.
LEMMA InitCalm ==
  ASSUME Init
  PROVE  Calm
<1>1. /\ sess = {} /\ available = Targets /\ worker = IdleWorker
      /\ user.exists /\ user.desired = "ensure"
      /\ worker.alive /\ worker.due = {}
      /\ \A t \in Targets : rows[t].state \in {"chpw", "ok", "not_assigned"}
  BY DEF Init, Created, Established, NewUser, RowIn, IdleWorker
<1>2. \A t \in Targets : rows[t].state \in PresentedTerminal
  BY <1>1, FinalStates
<1>3. CASE Created
  <2>1. /\ ops = <<[cmd |-> "create", status |-> "queued"]>> /\ Len(calls) = 1
        /\ calls[1].action = "stored" /\ calls[1].target = NoTarget
        /\ calls[1].op = 1
    BY <1>3 DEF Created
  <2>2. \A i \in 1..Len(calls) : i = 1
    BY <2>1
  <2>3. Ongoing(ops) = {1}
    <3>1. Len(ops) = 1 /\ ops[1].status = "queued"
      BY <2>1
    <3>2. 1..Len(ops) = {1}
      BY <3>1
    <3>3. QED
      BY <3>1, <3>2 DEF Ongoing, TerminalStatus
  <2>4. 1 \in 1..Len(calls)
    BY <2>1
  <2>5. QueueServed /\ Attended
    BY <1>1, <2>1, <2>2, <2>3, <2>4 DEF QueueServed, Attended
  <2>6. QED
    BY <1>1, <1>2, <2>5 DEF Calm, Undisturbed, Reachable, Rests, Waits
<1>4. CASE Established
  <2>1. Len(calls) = 0 /\ Len(ops) = 0
    BY <1>4 DEF Established
  <2>2. Ongoing(ops) = {} /\ 1..Len(calls) = {}
    BY <2>1 DEF Ongoing
  <2>3. QED
    BY <1>1, <1>2, <2>2 DEF Calm, Undisturbed, QueueServed, Attended, Reachable, Rests
<1>5. QED
  BY <1>3, <1>4 DEF Init

\* Every step of these requests keeps both invariants.
LEMMA CalmHolds ==
  ASSUME Requests \subseteq Plain
  PROVE  Spec => [](OneAtATime /\ Calm)
<1>1. Init => OneAtATime /\ Calm
  BY InitSingle, InitCalm
<1>2. OneAtATime /\ Calm /\ History' /\ [Next]_vars => OneAtATime' /\ Calm'
  <2>1. ASSUME OneAtATime, Calm, History', [Next]_vars
        PROVE  OneAtATime' /\ Calm'
    <3>1. CASE UNCHANGED vars
      <4>1. OneAtATime'
        BY <2>1, <3>1 DEF OneAtATime, Single, WorksFor, Ongoing, Referenced, vars
      <4>2. Calm'
        BY <2>1, <3>1 DEF Calm, Undisturbed, QueueServed, Attended, Ongoing,
                          Tracks, Reachable, Rests, Waits, vars
      <4>3. QED
        BY <4>1, <4>2
    <3>2. CASE Next
      <4>1. Alone
        BY <2>1, CalmAlone
      <4>2. OneAtATime'
        BY <2>1, <3>2, <4>1, NextSingle
      <4>3. Calm'
        BY <2>1, <3>2, <4>1, PlainSteps, StartsCalm, ReturnsCalm,
           DroppedCalm, AdministerCalm, UserActionCalm, ExpiresCalm,
           WorkerCallsCalm
      <4>4. QED
        BY <4>2, <4>3
    <3>3. QED
      BY <2>1, <3>1, <3>2
  <2>2. QED
    BY <2>1
<1>3. QED
  BY <1>1, <1>2, HistoryHolds, PTL DEF Spec

\* Rest means settled, for any targets, capabilities, connector outcomes and
\* bounds: where an account sees updates, disables, administrator resets,
\* sign-ins, password choices and expiries, in any order and while sessions with
\* older caches are under way, then once nothing waits and no session runs every
\* operation has ended and no target is left in a pending state that nothing
\* would take up.
THEOREM QuietIsSettled ==
  ASSUME Requests \subseteq Plain
  PROVE  Spec => []QuietMeansSettled
<1>1. OneAtATime /\ Calm => QuietMeansSettled
  <2>1. ASSUME OneAtATime, Calm, Quiet
        PROVE  /\ \A i \in DOMAIN ops : ops[i].status \in TerminalStatus
               /\ \A t \in Targets : rows[t].state \in PresentedTerminal
    <3>1. DOMAIN ops = 1..Len(ops)
      BY <2>1, LenProperties DEF OneAtATime, History, TypeOK
    <3>2. ~Waits /\ sess = {} /\ 1..Len(calls) = {}
      BY <2>1 DEF Quiet, Waits
    <3>3. Ongoing(ops) = {}
      BY <2>1, <3>2 DEF Calm, Attended
    <3>4. QED
      BY <2>1, <3>1, <3>2, <3>3 DEF Ongoing, Calm, Rests
  <2>2. QED
    BY <2>1 DEF QuietMeansSettled
<1>2. QED
  BY <1>1, CalmHolds, PTL

\* Under these requests the conflict rule needs no assumption: no step acts
\* beside an unfinished operation, and one operation is unfinished at most.
THEOREM PlainActsAlone ==
  ASSUME Requests \subseteq Plain
  PROVE  Spec => ActsAlone /\ []OneUnfinished
<1>1. OneAtATime /\ Calm => Alone
  BY CalmAlone
<1>2. Spec => ActsAlone
  BY <1>1, CalmHolds, PTL DEF ActsAlone
<1>3. QED
  BY <1>2, OneOperation, PTL
=============================================================================
