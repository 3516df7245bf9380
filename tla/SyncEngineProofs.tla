-------------------------- MODULE SyncEngineProofs --------------------------
(***************************************************************************)
(* Theorems about SyncEngine for any targets, capabilities and bounds.     *)
(***************************************************************************)
EXTENDS SyncEngine, SequenceTheorems, TLAPS
-----------------------------------------------------------------------------
(***************************************************************************)
(* The operation table.                                                    *)
(***************************************************************************)
\* A changed status keeps the operation table well typed, and changes nothing
\* else in it.
LEMMA StatusUpdate ==
  ASSUME NEW o \in Seq(Operation), NEW i \in Nat, NEW status \in OperationStatus
  PROVE  /\ [o EXCEPT ![i].status = status] \in Seq(Operation)
         /\ Len([o EXCEPT ![i].status = status]) = Len(o)
         /\ \A j \in 1..Len(o) :
              [o EXCEPT ![i].status = status][j].status
                = IF j = i THEN status ELSE o[j].status
<1> DEFINE n == [o EXCEPT ![i].status = status]
<1>1. CASE i \in 1..Len(o)
  <2>1. o[i] \in Operation
    BY <1>1, ElementOfSeq
  <2>2. [o[i] EXCEPT !.status = status] \in Operation
    BY <2>1 DEF Operation
  <2>3. [o[i] EXCEPT !.status = status].status = status
    BY <2>1 DEF Operation
  <2>4. QED
    BY <1>1, <2>2, <2>3, ExceptSeq
<1>2. CASE i \notin 1..Len(o)
  <2>1. n = o
    BY <1>2, LenProperties
  <2> HIDE DEF n
  <2>2. /\ n \in Seq(Operation)
        /\ Len(n) = Len(o)
        /\ \A j \in 1..Len(o) : n[j].status = IF j = i THEN status ELSE o[j].status
    BY <1>2, <2>1
  <2>3. QED
    BY <2>2 DEF n
<1>3. QED
  BY <1>1, <1>2

\* What a commit of a session leaves of the operation table.
LEMMA FlushOpType ==
  ASSUME NEW s, s.op \in Nat, NEW o \in Seq(Operation),
         NEW status \in OperationStatus
  PROVE  /\ FlushOp(s, o, status) \in Seq(Operation)
         /\ Len(FlushOp(s, o, status)) = Len(o)
         /\ \A j \in 1..Len(o) :
              FlushOp(s, o, status)[j].status \in {o[j].status, status}
<1>1. CASE status # s.status
  BY <1>1, StatusUpdate DEF FlushOp, Dirty
<1>2. CASE status = s.status
  <2>1. FlushOp(s, o, status) = [o EXCEPT ![s.op].status = @]
    BY <1>2 DEF FlushOp, Dirty
  <2>2. FlushOp(s, o, status) = o
    <3>1. CASE s.op \in 1..Len(o)
      <4>1. o[s.op] \in Operation
        BY <3>1, ElementOfSeq
      <4>2. [o[s.op] EXCEPT !.status = @] = o[s.op]
        BY <4>1 DEF Operation
      <4>3. QED
        BY <2>1, <4>2, LenProperties
    <3>2. CASE s.op \notin 1..Len(o)
      BY <2>1, <3>2, LenProperties
    <3>3. QED
      BY <3>1, <3>2
  <2>3. QED
    BY <2>2
<1>3. QED
  BY <1>1, <1>2
-----------------------------------------------------------------------------
(***************************************************************************)
(* The parts of a step of the synchronization.                             *)
(***************************************************************************)
\* A commit of a session's row keeps the row's type, and never its assignment:
\* no synchronization writes the assigned column.
LEMMA FlushRowType ==
  ASSUME NEW stored \in TargetRow, NEW seen \in TargetRow, NEW new \in TargetRow
  PROVE  /\ FlushRow(stored, seen, new) \in TargetRow
         /\ FlushRow(stored, seen, new).assigned = stored.assigned
BY DEF FlushRow, Dirty, TargetRow

\* A commit of a session's account row writes only the active operation, the
\* pending secret and deleted_at; the secret is the stored one or the session's.
LEMMA FlushUserType ==
  ASSUME NEW stored \in UserRow, NEW seen \in UserRow, NEW new \in UserRow,
         NEW deletes \in BOOLEAN
  PROVE  /\ FlushUser(stored, seen, new, deletes) \in UserRow
         /\ FlushUser(stored, seen, new, deletes).pwd = stored.pwd
         /\ FlushUser(stored, seen, new, deletes).kind = stored.kind
         /\ FlushUser(stored, seen, new, deletes).secret
              = Dirty(stored.secret, seen.secret, new.secret)
<1>1. /\ Dirty(stored.active, seen.active, new.active) \in Nat
      /\ Dirty(stored.secret, seen.secret, new.secret) \in Nat
  BY DEF Dirty, UserRow
<1>2. (stored.deleted \/ deletes) \in BOOLEAN
  BY DEF UserRow
<1>3. QED
  BY <1>1, <1>2 DEF FlushUser, UserRow

\* Two versions of the account row agree on the password and what is staged.
SamePassword(u, v) == v.pwd = u.pwd /\ v.kind = u.kind /\ v.secret = u.secret

\* request_operation returns a typed operation table, and changes nothing of
\* the account but its active operation.
LEMMA RequestType ==
  ASSUME NEW cmd \in Command, NEW u \in UserRow, NEW o \in Seq(Operation)
  PROVE  /\ Request(cmd, u, o).op \in Nat
         /\ Request(cmd, u, o).ops \in Seq(Operation)
         /\ Request(cmd, u, o).user \in UserRow
         /\ SamePassword(u, Request(cmd, u, o).user)
<1>1. u.active \in Nat
  BY DEF UserRow
<1>2. CASE Mode(cmd, u, o) = "reuse"
  BY <1>1, <1>2 DEF Request, SamePassword
<1>3. CASE Mode(cmd, u, o) # "reuse"
  <2> DEFINE kept == IF Mode(cmd, u, o) = "supersede"
                     THEN [o EXCEPT ![u.active].status = "cancelled"]
                     ELSE o
  <2>1. kept \in Seq(Operation)
    BY <1>1, StatusUpdate DEF OperationStatus, TerminalStatus
  <2>2. [cmd |-> cmd, status |-> "queued"] \in Operation
    BY DEF Operation, OperationStatus
  <2>3. Append(kept, [cmd |-> cmd, status |-> "queued"]) \in Seq(Operation)
    BY <2>1, <2>2, AppendProperties
  <2>4. Len(o) + 1 \in Nat
    BY LenProperties
  <2>5. /\ [u EXCEPT !.active = Len(o) + 1] \in UserRow
        /\ SamePassword(u, [u EXCEPT !.active = Len(o) + 1])
    BY <2>4 DEF UserRow, SamePassword
  <2>6. Request(cmd, u, o) =
          [op |-> Len(o) + 1, user |-> [u EXCEPT !.active = Len(o) + 1],
           ops |-> Append(kept, [cmd |-> cmd, status |-> "queued"])]
    BY <1>3 DEF Request
  <2> HIDE DEF kept
  <2>7. QED
    <3> DEFINE next == [u EXCEPT !.active = Len(o) + 1]
               table == Append(kept, [cmd |-> cmd, status |-> "queued"])
    <3>1. Request(cmd, u, o) = [op |-> Len(o) + 1, user |-> next, ops |-> table]
      BY <2>6
    <3>2. next \in UserRow /\ SamePassword(u, next) /\ table \in Seq(Operation)
      BY <2>3, <2>5
    <3> HIDE DEF next, table
    <3>3. QED
      BY <2>4, <3>1, <3>2
<1>4. QED
  BY <1>2, <1>3

\* Passing over the targets that need no connector call keeps the rows typed.
LEMMA SettleType ==
  ASSUME NEW s, NEW u, NEW r \in [Targets -> TargetRow], NEW Q
  PROVE  Settle(s, u, r, Q) \in [Targets -> TargetRow]
<1>1. \A t \in Targets :
        [r[t] EXCEPT !.state = "unsupported", !.retry = FALSE] \in TargetRow
  BY DEF TargetRow, SyncState
<1>2. QED
  BY <1>1 DEF Settle

\* A row keeps its type when its state is written.
LEMMA StateWritten ==
  ASSUME NEW row \in TargetRow, NEW st \in SyncState
  PROVE  /\ [row EXCEPT !.state = st] \in TargetRow
         /\ [row EXCEPT !.state = st, !.retry = FALSE] \in TargetRow
BY DEF TargetRow

\* "pending" is a state of a row.
LEMMA PendingState == "pending" \in SyncState
BY DEF SyncState

\* The rows an attempt leaves before it calls the connector.
Attempted(r, t, new) == new = [r EXCEPT ![t].state = "pending", ![t].retry = FALSE]

LEMMA AttemptRow ==
  ASSUME NEW r \in [Targets -> TargetRow], NEW t \in Targets, NEW new, Attempted(r, t, new)
  PROVE  /\ new \in [Targets -> TargetRow]
         /\ new[t].state = "pending" /\ ~new[t].retry
         /\ new[t].op = r[t].op /\ new[t].assigned = r[t].assigned
         /\ \A x \in Targets : x # t => new[x] = r[x]
<1> DEFINE row == [r[t] EXCEPT !.state = "pending", !.retry = FALSE]
<1>1. r[t] \in TargetRow
  OBVIOUS
<1>2. row \in TargetRow
  BY <1>1, PendingState, StateWritten
<1>4. new = [r EXCEPT ![t] = row]
  BY DEF Attempted
<1>7. row = [r[t] EXCEPT !.state = "pending", !.retry = FALSE]
  OBVIOUS
<1> HIDE DEF row
<1>3. /\ row.state = "pending" /\ ~row.retry
      /\ row.op = r[t].op /\ row.assigned = r[t].assigned
  BY ONLY <1>1, <1>7 DEF TargetRow
<1>5. new[t] = row /\ new \in [Targets -> TargetRow] /\ \A x \in Targets : x # t => new[x] = r[x]
  BY <1>2, <1>4
<1>6. QED
  BY <1>3, <1>5

\* _set_pending keeps the rows typed.
LEMMA SetPendingType ==
  ASSUME NEW selected, NEW requireChange, NEW remoteAbsent,
         rows \in [Targets -> TargetRow],
         SetPending(selected, requireChange, remoteAbsent)
  PROVE  rows' \in [Targets -> TargetRow]
BY DEF SetPending, TargetRow, SyncState

\* The outcome of an operation is a status of lifecycle.py.
LEMMA FinalStatusType ==
  ASSUME NEW s, NEW r, NEW st \in OperationStatus
  PROVE  FinalStatus(s, r, st) \in OperationStatus
BY DEF FinalStatus, OperationStatus, TerminalStatus
-----------------------------------------------------------------------------
\* What a session and its computed columns look like between two commits.
Computed(s, u, r, st, o) ==
  /\ s \in SessionAt(Targets \cup {NoTarget})
  /\ u \in UserRow /\ u.secret = s.user.secret
  /\ r \in [Targets -> TargetRow]
  /\ st \in OperationStatus
  /\ o \in Seq(Operation)

\* Starting an attempt keeps every type; it stages no secret and leaves the
\* password alone.
LEMMA StartAttemptType ==
  ASSUME TypeOK, NEW s, NEW u, NEW r, NEW st, NEW o, Computed(s, u, r, st, o),
         NEW Q, NEW t \in Targets, StartAttempt(s, u, r, st, o, Q, t)
  PROVE  /\ user' = [user EXCEPT !.active = user'.active] /\ user' \in UserRow
         /\ rows' \in [Targets -> TargetRow]
         /\ ops' \in Seq(Operation)
         /\ sess' \subseteq SessionAt(Targets)
         /\ \A s1, s2 \in sess' : s1 = s2
         /\ \A s2 \in sess' : s2.user = u
<1> DEFINE new == [Settle(s, u, r, Q) EXCEPT ![t].state = "pending",
                                             ![t].retry = FALSE]
<1> USE DEF Computed
<1>1. new \in [Targets -> TargetRow]
  <2>1. Settle(s, u, r, Q) \in [Targets -> TargetRow]
    BY SettleType
  <2>2. Attempted(Settle(s, u, r, Q), t, new)
    BY DEF Attempted
  <2> HIDE DEF new
  <2>3. QED
    BY <2>1, <2>2, AttemptRow
<1>2. s.user \in UserRow /\ s.rows \in [Targets -> TargetRow] /\ s.op \in Nat
  BY DEF SessionAt
<1>3. user \in UserRow /\ rows \in [Targets -> TargetRow]
  BY DEF TypeOK
<1>4. user' = FlushUser(user, s.user, u, FALSE)
  BY DEF StartAttempt
<1>5. user' \in UserRow
  BY <1>2, <1>3, <1>4, FlushUserType
<1>6. user' = [user EXCEPT !.active = user'.active]
  BY <1>2, <1>3, <1>4 DEF FlushUser, Dirty, UserRow
<1>7. rows' \in [Targets -> TargetRow]
  BY <1>1, <1>2, <1>3, FlushRowType DEF StartAttempt
<1>8. ops' \in Seq(Operation)
  BY <1>2, FlushOpType DEF StartAttempt
<1>9. sess' = {[s EXCEPT !.user = u, !.rows = new, !.status = st,
                         !.todo = @ \ (Q \cup {t}), !.at = t,
                         !.doing = OperationFor(s, u, r[t])]}
  BY DEF StartAttempt
<1>10. OperationFor(s, u, r[t]) \in ConnectorOperation
  BY DEF OperationFor, ConnectorOperation
<1> HIDE DEF new
<1>11. [s EXCEPT !.user = u, !.rows = new, !.status = st,
                 !.todo = @ \ (Q \cup {t}), !.at = t,
                 !.doing = OperationFor(s, u, r[t])] \in SessionAt(Targets)
  BY <1>1, <1>10 DEF SessionAt
<1>12. [s EXCEPT !.user = u, !.rows = new, !.status = st,
                 !.todo = @ \ (Q \cup {t}), !.at = t,
                 !.doing = OperationFor(s, u, r[t])].user = u
  BY DEF SessionAt
<1>13. QED
  BY <1>5, <1>6, <1>7, <1>8, <1>9, <1>11, <1>12

\* Ending an operation keeps every type; it may only erase the staged secret.
LEMMA EndOperationType ==
  ASSUME TypeOK, NEW s, NEW u, NEW r, NEW st, NEW o, Computed(s, u, r, st, o),
         EndOperation(s, u, r, st, o)
  PROVE  /\ user' \in UserRow
         /\ user'.pwd = user.pwd /\ user'.kind = user.kind
         /\ user'.secret \in {user.secret, NoPwd}
         /\ rows' \in [Targets -> TargetRow]
         /\ ops' \in Seq(Operation)
         /\ sess' = {}
         /\ worker' \in Worker
<1> DEFINE new   == Settle(s, u, r, s.todo)
           final == FinalStatus(s, new, st)
           clean == final = "succeeded"
           ended == [u EXCEPT
                       !.active = IF final \in TerminalStatus /\ @ = s.op
                                  THEN NoOp ELSE @,
                       !.secret = IF clean /\ s.desired # "delete"
                                           /\ Consumed(s, new)
                                  THEN NoPwd ELSE @]
<1> USE DEF Computed
<1>1. new \in [Targets -> TargetRow] /\ final \in OperationStatus
  BY SettleType, FinalStatusType
<1>2. s.user \in UserRow /\ s.rows \in [Targets -> TargetRow] /\ s.op \in Nat
  BY DEF SessionAt
<1>3. user \in UserRow /\ rows \in [Targets -> TargetRow] /\ worker \in Worker
  BY DEF TypeOK
<1>4. /\ user' = FlushUser(user, s.user, ended, clean /\ s.desired = "delete")
      /\ rows' = [x \in Targets |-> FlushRow(rows[x], s.rows[x], new[x])]
      /\ ops' = FlushOp(s, o, final)
      /\ sess' = {}
      /\ Release(s.by)
  BY DEF EndOperation
<1> HIDE DEF new, final
<1>5. /\ ended \in UserRow
      /\ ended.secret \in {s.user.secret, NoPwd}
  BY DEF UserRow, NoOp, NoPwd
<1> HIDE DEF clean, ended
<1>6. /\ user' \in UserRow
      /\ user'.pwd = user.pwd /\ user'.kind = user.kind
      /\ user'.secret = Dirty(user.secret, s.user.secret, ended.secret)
  <2> DEFINE Flushed(w) ==
               /\ w \in UserRow /\ w.pwd = user.pwd /\ w.kind = user.kind
               /\ w.secret = Dirty(user.secret, s.user.secret, ended.secret)
  <2>1. Flushed(FlushUser(user, s.user, ended, TRUE))
    BY ONLY <1>2, <1>3, <1>5, FlushUserType
  <2>2. Flushed(FlushUser(user, s.user, ended, FALSE))
    BY ONLY <1>2, <1>3, <1>5, FlushUserType
  <2>3. \/ user' = FlushUser(user, s.user, ended, TRUE)
        \/ user' = FlushUser(user, s.user, ended, FALSE)
    BY <1>4
  <2>4. QED
    BY ONLY <2>1, <2>2, <2>3
<1>7. user'.secret \in {user.secret, NoPwd}
  BY <1>5, <1>6 DEF Dirty
<1>8. rows' \in [Targets -> TargetRow]
  BY <1>1, <1>2, <1>3, <1>4, FlushRowType
<1>9. ops' \in Seq(Operation)
  BY <1>1, <1>2, <1>4, FlushOpType
<1>10. worker' \in Worker
  BY <1>3, <1>4 DEF Release, Worker
<1>11. QED
  BY <1>4, <1>6, <1>7, <1>8, <1>9, <1>10

\* One step of the synchronization after a commit: every type is kept, the
\* password and its kind are left alone, nothing is staged, and a session that
\* goes on sees the account as computed.
LEMMA AdvanceType ==
  ASSUME TypeOK, NEW s, NEW u, NEW r, NEW st, NEW o, Computed(s, u, r, st, o),
         Advance(s, u, r, st, o)
  PROVE  /\ user' \in UserRow
         /\ user'.pwd = user.pwd /\ user'.kind = user.kind
         /\ user'.secret \in {user.secret, NoPwd}
         /\ rows' \in [Targets -> TargetRow]
         /\ ops' \in Seq(Operation)
         /\ sess' \subseteq SessionAt(Targets)
         /\ \A s1, s2 \in sess' : s1 = s2
         /\ \A s2 \in sess' : s2.user = u
         /\ worker' \in Worker
<1>1. CASE EndOperation(s, u, r, st, o)
  BY <1>1, EndOperationType
<1>2. ASSUME NEW Q, NEW t \in s.todo, StartAttempt(s, u, r, st, o, Q, t)
      PROVE  /\ t \in Targets
             /\ user' = [user EXCEPT !.active = user'.active] /\ user' \in UserRow
             /\ rows' \in [Targets -> TargetRow]
             /\ ops' \in Seq(Operation)
             /\ sess' \subseteq SessionAt(Targets)
             /\ \A s1, s2 \in sess' : s1 = s2
             /\ \A s2 \in sess' : s2.user = u
             /\ worker' = worker
  <2>1. t \in Targets
    BY DEF Computed, SessionAt
  <2>2. worker' = worker
    BY <1>2 DEF StartAttempt
  <2>3. QED
    BY <1>2, <2>1, <2>2, StartAttemptType
<1>3. CASE \E Q, t : t \in s.todo /\ StartAttempt(s, u, r, st, o, Q, t)
  <2>1. /\ user' = [user EXCEPT !.active = user'.active] /\ user' \in UserRow
        /\ rows' \in [Targets -> TargetRow]
        /\ ops' \in Seq(Operation)
        /\ sess' \subseteq SessionAt(Targets)
        /\ \A s1, s2 \in sess' : s1 = s2
        /\ \A s2 \in sess' : s2.user = u
        /\ worker' = worker
    BY <1>2, <1>3
  <2>2. /\ user'.pwd = user.pwd /\ user'.kind = user.kind
        /\ user'.secret = user.secret
    BY <2>1 DEF TypeOK, UserRow
  <2>3. worker' \in Worker
    BY <2>1 DEF TypeOK
  <2>4. QED
    BY <2>1, <2>2, <2>3
<1>4. QED
  BY <1>1, <1>3 DEF Advance
-----------------------------------------------------------------------------
(***************************************************************************)
(* Type correctness, one lemma per group of actions.                       *)
(***************************************************************************)
\* A queued call keeps the queue of the account's lock typed.
LEMMA EnqueueType ==
  ASSUME calls \in Seq(Call), NEW action \in Desired \cup {"stored"},
         NEW target \in Targets \cup {NoTarget},
         NEW actor \in {"system", "verified-login", "password-expiry"},
         NEW op \in Nat, NEW by \in {"task", "worker"},
         Enqueue(action, target, actor, op, by)
  PROVE  calls' \in Seq(Call)
<1>1. [action |-> action, target |-> target, actor |-> actor, op |-> op,
       by |-> by] \in Call
  BY DEF Call
<1>2. QED
  BY <1>1, AppendProperties DEF Enqueue

\* The operation a call works under comes with a typed account and table.
LEMMA ChosenType ==
  ASSUME TypeOK, NEW c \in Call
  PROVE  /\ DesiredOf(c) \in Desired
         /\ Chosen(c).op \in Nat
         /\ Chosen(c).ops \in Seq(Operation)
         /\ Chosen(c).user \in UserRow
         /\ SamePassword(user, Chosen(c).user)
<1>1. DesiredOf(c) \in Desired
  BY DEF TypeOK, UserRow, Call, DesiredOf, Desired
<1>2. CommandFor(c) \in Command
  BY DEF CommandFor, Command
<1>3. user \in UserRow /\ ops \in Seq(Operation)
  BY DEF TypeOK
<1>4. SamePassword(user, user)
  BY DEF SamePassword
<1>5. CASE GivenOp(c) # NoOp
  <2>1. GivenOp(c) \in Nat
    <3>1. c.op \in Nat /\ c.target \in Targets \cup {NoTarget}
      BY DEF Call
    <3>2. \A t \in Targets : rows[t].op \in Nat
      BY DEF TypeOK, TargetRow
    <3>3. QED
      BY <3>1, <3>2 DEF GivenOp, Repaired, NoOp
  <2>2. Chosen(c) = [op |-> GivenOp(c), user |-> user, ops |-> ops]
    BY <1>5 DEF Chosen
  <2>3. QED
    BY <1>1, <1>3, <1>4, <2>1, <2>2
<1>6. CASE GivenOp(c) = NoOp
  <2>1. Chosen(c) = Request(CommandFor(c), user, ops)
    BY <1>6 DEF Chosen
  <2>2. QED
    BY <1>1, <1>2, <1>3, <2>1, RequestType
<1>7. QED
  BY <1>5, <1>6

\* The part of SyncStarts that computes the session.
Starting(c) ==
  [by |-> c.by, desired |-> DesiredOf(c), op |-> Chosen(c).op,
   user |-> user, rows |-> rows,
   status |-> Chosen(c).ops[Chosen(c).op].status,
   avail |-> available, todo |-> Scope(c) \cap available,
   at |-> NoTarget, doing |-> "ensure"]

Claimed(c) ==
  [t \in Targets |->
     IF t \in Scope(c) THEN [rows[t] EXCEPT !.op = Chosen(c).op] ELSE rows[t]]

\* A synchronization that starts is a session that sees the account as it is,
\* for an operation that may be resumed.
LEMMA StartsComputed ==
  ASSUME TypeOK, SyncStarts
  PROVE  \E c \in Call :
           /\ c = Head(calls)
           /\ Starting(c).status \in Resumable
           /\ Computed(Starting(c), Resumed(Chosen(c)), Claimed(c), "running",
                       Chosen(c).ops)
           /\ Advance(Starting(c), Resumed(Chosen(c)), Claimed(c), "running",
                      Chosen(c).ops)
           /\ calls' = Tail(calls)
           /\ UNCHANGED <<available, remote, temps>>
<1> DEFINE c == Head(calls)
<1>1. c \in Call /\ c = Head(calls)
  <2>1. calls \in Seq(Call) /\ calls # <<>>
    BY DEF TypeOK, SyncStarts, LockFree
  <2>2. QED
    BY <2>1, HeadTailProperties
<1>2. /\ Starting(c).status \in Resumable
      /\ Advance(Starting(c), Resumed(Chosen(c)), Claimed(c), "running",
                 Chosen(c).ops)
      /\ calls' = Tail(calls)
      /\ UNCHANGED <<available, remote, temps>>
  BY DEF SyncStarts, Starting, Claimed
<1> HIDE DEF c
<1>3. /\ DesiredOf(c) \in Desired
      /\ Chosen(c).op \in Nat
      /\ Chosen(c).ops \in Seq(Operation)
      /\ Chosen(c).user \in UserRow
  BY <1>1, ChosenType
<1>4. Chosen(c).user.secret = user.secret
  BY <1>1, ChosenType DEF SamePassword
<1>5. Starting(c) \in SessionAt(Targets \cup {NoTarget})
  <2>1. c.by \in {"task", "worker"}
    BY <1>1 DEF Call
  <2>2. /\ user \in UserRow /\ rows \in [Targets -> TargetRow]
        /\ available \subseteq Targets
    BY DEF TypeOK
  <2>3. Scope(c) \cap available \subseteq Targets
    BY <2>2
  <2>4. Chosen(c).ops[Chosen(c).op].status \in OperationStatus
    BY <1>2 DEF Starting, Resumable, OperationStatus, TerminalStatus
  <2>5. QED
    BY <1>3, <2>1, <2>2, <2>3, <2>4 DEF SessionAt, Starting, ConnectorOperation
<1>6. Resumed(Chosen(c)) \in UserRow
  BY <1>3 DEF Resumed, UserRow
<1>7. Resumed(Chosen(c)).secret = user.secret
  BY <1>3, <1>4 DEF Resumed, UserRow
<1>8. Starting(c).user.secret = user.secret
  BY DEF Starting
<1>9. Claimed(c) \in [Targets -> TargetRow]
  <2>1. rows \in [Targets -> TargetRow]
    BY DEF TypeOK
  <2>2. \A t \in Targets : [rows[t] EXCEPT !.op = Chosen(c).op] \in TargetRow
    BY <1>3, <2>1 DEF TargetRow
  <2>3. QED
    BY <2>1, <2>2 DEF Claimed
<1>10. "running" \in OperationStatus
  BY DEF OperationStatus
<1>11. Computed(Starting(c), Resumed(Chosen(c)), Claimed(c), "running",
                Chosen(c).ops)
  BY <1>3, <1>5, <1>6, <1>7, <1>8, <1>9, <1>10 DEF Computed
<1>12. QED
  BY <1>1, <1>2, <1>11

\* What a connector call leaves on a target is an account, whatever it answers.
LEMMA AnsweredType ==
  ASSUME TypeOK, NEW s \in sess, NEW outcome
  PROVE  /\ s \in SessionAt(Targets) /\ s.at \in Targets
         /\ Answered(s, outcome) \in [Targets -> Account]
<1>1. s \in SessionAt(Targets)
  BY DEF TypeOK
<1>2. /\ s.at \in Targets /\ s.doing \in ConnectorOperation
      /\ s.user.secret \in Nat
  BY <1>1 DEF SessionAt, UserRow
<1>3. remote \in [Targets -> Account] /\ remote[s.at] \in Account
  BY <1>2 DEF TypeOK
<1>4. Effect(s.doing, remote[s.at], s.user.secret) \in Account
  BY <1>2, <1>3 DEF Effect, ConnectorOperation, Account, NoPwd
<1>5. QED
  BY <1>1, <1>2, <1>3, <1>4 DEF Answered

\* The answer of a connector leaves a computed session.
LEMMA ReturnsComputed ==
  ASSUME TypeOK, NEW s \in sess, NEW outcome
  PROVE  Computed(s, s.user, [s.rows EXCEPT ![s.at] = RowAfter(s, @, outcome)],
                  s.status, ops)
<1>1. s \in SessionAt(Targets) /\ s.at \in Targets
  BY AnsweredType
<1>2. s \in SessionAt(Targets \cup {NoTarget})
  BY <1>1 DEF SessionAt
<1>3. /\ s.user \in UserRow /\ s.rows \in [Targets -> TargetRow]
      /\ s.status \in OperationStatus /\ ops \in Seq(Operation)
  BY <1>1 DEF SessionAt, TypeOK
<1>4. RowAfter(s, s.rows[s.at], outcome) \in TargetRow
  <2>1. s.rows[s.at] \in TargetRow
    BY <1>1, <1>3
  <2>2. StateAfterSuccess(s, s.rows[s.at]) \in SyncState
    BY DEF StateAfterSuccess, SyncState
  <2>3. {"unsupported", "failed"} \subseteq SyncState
    BY DEF SyncState
  <2>4. QED
    BY <2>1, <2>2, <2>3 DEF RowAfter, TargetRow
<1>5. QED
  BY <1>2, <1>3, <1>4 DEF Computed

\* The steps of the synchronization keep every type.
LEMMA SynchronizeType ==
  ASSUME TypeOK, Synchronize
  PROVE  TypeOK'
<1>1. calls # <<>> => Tail(calls) \in Seq(Call)
  BY HeadTailProperties DEF TypeOK
<1>2. CASE SyncDropped
  BY <1>1, <1>2 DEF SyncDropped, LockFree, Release, TypeOK, Worker
<1>3. CASE SyncRaises
  BY <1>1, <1>3 DEF SyncRaises, LockFree, TypeOK, Worker
<1>4. CASE SyncStarts
  <2>1. PICK c \in Call :
          /\ Computed(Starting(c), Resumed(Chosen(c)), Claimed(c), "running",
                      Chosen(c).ops)
          /\ Advance(Starting(c), Resumed(Chosen(c)), Claimed(c), "running",
                     Chosen(c).ops)
          /\ calls' = Tail(calls)
          /\ UNCHANGED <<available, remote, temps>>
    BY <1>4, StartsComputed
  <2>2. calls # <<>>
    BY <1>4 DEF SyncStarts, LockFree
  <2>3. /\ user' \in UserRow
        /\ rows' \in [Targets -> TargetRow]
        /\ ops' \in Seq(Operation)
        /\ sess' \subseteq SessionAt(Targets)
        /\ \A s1, s2 \in sess' : s1 = s2
        /\ worker' \in Worker
    BY <2>1, AdvanceType
  <2>4. QED
    BY <1>1, <2>1, <2>2, <2>3 DEF TypeOK
<1>5. CASE ConnectorReturns
  <2>1. PICK s \in sess, outcome \in Outcomes : ReturnsWith(s, outcome)
    BY <1>5 DEF ConnectorReturns, Answers
  <2>2. remote' \in [Targets -> Account]
    BY <2>1, AnsweredType DEF ReturnsWith
  <2>3. /\ user' \in UserRow
        /\ rows' \in [Targets -> TargetRow]
        /\ ops' \in Seq(Operation)
        /\ sess' \subseteq SessionAt(Targets)
        /\ \A s1, s2 \in sess' : s1 = s2
        /\ worker' \in Worker
    BY <2>1, ReturnsComputed, AdvanceType DEF ReturnsWith
  <2>4. QED
    BY <2>1, <2>2, <2>3 DEF TypeOK, ReturnsWith
<1>6. CASE SessionLost
  <2>1. PICK s \in sess, outcome \in Outcomes :
          /\ remote' = Answered(s, outcome)
          /\ sess' = {}
          /\ worker' = IF s.by = "worker"
                       THEN [worker EXCEPT !.alive = FALSE, !.waiting = FALSE]
                       ELSE worker
          /\ UNCHANGED <<user, rows, ops, available, calls, temps>>
    BY <1>6 DEF SessionLost, Answers
  <2>2. remote' \in [Targets -> Account]
    BY <2>1, AnsweredType
  <2>3. QED
    BY <2>1, <2>2 DEF TypeOK, Worker
<1>7. QED
  BY <1>2, <1>3, <1>4, <1>5, <1>6 DEF Synchronize

\* The administrator's handlers keep every type.
LEMMA AdministerType ==
  ASSUME ConstantsAssumption, TypeOK, Administer
  PROVE  TypeOK'
<1> USE DEF NoOp, NoPwd
<1>1. /\ user \in UserRow /\ ops \in Seq(Operation) /\ calls \in Seq(Call)
      /\ rows \in [Targets -> TargetRow] /\ temps \subseteq Nat
  BY DEF TypeOK
<1>2. user.pwd + 1 \in Nat
  BY <1>1 DEF UserRow
<1>3. \A cmd \in {"update", "delete", "restore"} :
        /\ Request(cmd, user, ops).op \in Nat
        /\ Request(cmd, user, ops).ops \in Seq(Operation)
        /\ Request(cmd, user, ops).user \in UserRow
  BY <1>1, RequestType DEF Command
<1>4. \A target \in Targets \cup {NoTarget}, op \in Nat,
         action \in {"stored", "delete"} :
        Enqueue(action, target, "system", op, "task") => calls' \in Seq(Call)
  BY <1>1, EnqueueType DEF Desired
<1>form. FormStatus \subseteq BOOLEAN
  BY DEF FormStatus
<1>5. CASE UpdateUser
  <2>1. PICK selected \in SUBSET available, disabled \in FormStatus :
          /\ user' = [Request("update", user, ops).user EXCEPT !.disabled = disabled]
          /\ ops' = Request("update", user, ops).ops
          /\ SetPending(selected, FALSE, FALSE)
          /\ Enqueue("stored", NoTarget, "system",
                     Request("update", user, ops).op, "task")
          /\ UNCHANGED <<available, sess, worker, remote, temps>>
    BY <1>5 DEF UpdateUser
  <2>2. user' \in UserRow
    BY <1>3, <1>form, <2>1 DEF UserRow
  <2>3. rows' \in [Targets -> TargetRow]
    BY <1>1, <2>1, SetPendingType
  <2>4. ops' \in Seq(Operation) /\ calls' \in Seq(Call)
    BY <1>3, <1>4, <2>1
  <2>5. QED
    BY <2>1, <2>2, <2>3, <2>4 DEF TypeOK
<1>6. CASE ResetPassword
  <2>1. PICK selected \in SUBSET available, disabled \in FormStatus :
          /\ user' = [Request("update", user, ops).user EXCEPT
                        !.disabled = disabled, !.kind = "reset",
                        !.secret = NoPwd, !.pwd = @ + 1]
          /\ ops' = Request("update", user, ops).ops
          /\ SetPending(selected, TRUE, FALSE)
          /\ Enqueue("stored", NoTarget, "system",
                     Request("update", user, ops).op, "task")
          /\ temps' = temps \cup {user.pwd + 1}
          /\ UNCHANGED <<available, sess, worker, remote>>
    BY <1>6 DEF ResetPassword
  <2>2. user' \in UserRow
    <3> DEFINE u == Request("update", user, ops).user
    <3>1. u \in UserRow /\ user' = [u EXCEPT !.disabled = disabled,
                                 !.kind = "reset", !.secret = NoPwd, !.pwd = @ + 1]
      BY <1>3, <2>1
    <3> HIDE DEF u
    <3>2. u.pwd + 1 \in Nat
      BY <3>1 DEF UserRow
    <3>3. QED
      BY <1>form, <3>1, <3>2 DEF UserRow, Kinds
  <2>3. rows' \in [Targets -> TargetRow]
    BY <1>1, <2>1, SetPendingType
  <2>4. ops' \in Seq(Operation) /\ calls' \in Seq(Call) /\ temps' \subseteq Nat
    BY <1>1, <1>2, <1>3, <1>4, <2>1
  <2>5. QED
    BY <2>1, <2>2, <2>3, <2>4 DEF TypeOK
<1>7. CASE DeleteUser
  <2>1. /\ user' = [Request("delete", user, ops).user EXCEPT
                      !.desired = "delete", !.deleted = FALSE]
        /\ ops' = Request("delete", user, ops).ops
        /\ SetPending(Assigned, FALSE, FALSE)
        /\ Enqueue("delete", NoTarget, "system",
                   Request("delete", user, ops).op, "task")
        /\ UNCHANGED <<available, sess, worker, remote, temps>>
    BY <1>7 DEF DeleteUser
  <2>2. user' \in UserRow
    BY <1>3, <2>1 DEF UserRow, Desired
  <2>3. rows' \in [Targets -> TargetRow]
    BY <1>1, <2>1, SetPendingType
  <2>4. ops' \in Seq(Operation) /\ calls' \in Seq(Call)
    BY <1>3, <1>4, <2>1
  <2>5. QED
    BY <2>1, <2>2, <2>3, <2>4 DEF TypeOK
<1>8. CASE RestoreUser
  <2>1. /\ user' = [Request("restore", user, ops).user EXCEPT
                      !.desired = "ensure", !.deleted = FALSE,
                      !.disabled = FALSE, !.kind = "reset", !.secret = NoPwd,
                      !.pwd = @ + 1]
        /\ ops' = Request("restore", user, ops).ops
        /\ SetPending(Assigned \cap available, TRUE, TRUE)
        /\ Enqueue("stored", NoTarget, "system",
                   Request("restore", user, ops).op, "task")
        /\ temps' = temps \cup {user.pwd + 1}
        /\ UNCHANGED <<available, sess, worker, remote>>
    BY <1>8 DEF RestoreUser
  <2>2. user' \in UserRow
    <3> DEFINE u == Request("restore", user, ops).user
    <3>1. u \in UserRow /\ user' = [u EXCEPT
                      !.desired = "ensure", !.deleted = FALSE,
                      !.disabled = FALSE, !.kind = "reset", !.secret = NoPwd,
                      !.pwd = @ + 1]
      BY <1>3, <2>1
    <3> HIDE DEF u
    <3>2. u.pwd + 1 \in Nat
      BY <3>1 DEF UserRow
    <3>3. QED
      BY <3>1, <3>2 DEF UserRow, Desired, Kinds
  <2>3. rows' \in [Targets -> TargetRow]
    BY <1>1, <2>1, SetPendingType
  <2>4. ops' \in Seq(Operation) /\ calls' \in Seq(Call) /\ temps' \subseteq Nat
    BY <1>1, <1>2, <1>3, <1>4, <2>1
  <2>5. QED
    BY <2>1, <2>2, <2>3, <2>4 DEF TypeOK
<1>9. CASE PurgeUser
  <2>1. [cmd |-> "purge", status |-> "succeeded"] \in Operation
    BY DEF Operation, Command, OperationStatus, TerminalStatus
  <2>2. ops' \in Seq(Operation)
    BY <1>1, <1>9, <2>1, AppendProperties DEF PurgeUser
  <2>3. user' \in UserRow
    BY <1>1, <1>9 DEF PurgeUser, UserRow
  <2>4. QED
    BY <1>9, <2>2, <2>3 DEF PurgeUser, TypeOK
<1>10. ASSUME NEW t \in Targets, RetryTarget(t)
       PROVE  TypeOK'
  <2>1. rows[t].op \in Nat
    BY <1>1 DEF TargetRow
  <2>2. calls' \in Seq(Call)
    BY <1>4, <1>10, <2>1 DEF RetryTarget
  <2>3. QED
    BY <1>10, <2>2 DEF RetryTarget, TypeOK
<1>11. QED
  BY <1>5, <1>6, <1>7, <1>8, <1>9, <1>10 DEF Administer

\* credential_handoff keeps the account, rows and queue typed.
LEMMA HandoffType ==
  ASSUME ConstantsAssumption, TypeOK, NEW u \in UserRow, NEW p \in Nat,
         CredentialHandoff(u, p)
  PROVE  /\ user' \in UserRow
         /\ rows' \in [Targets -> TargetRow]
         /\ calls' \in Seq(Call)
<1>1. CASE u.kind \in {"initial", "reset"} \/ Waiting = {}
  BY <1>1 DEF CredentialHandoff, TypeOK
<1>2. CASE ~ (u.kind \in {"initial", "reset"} \/ Waiting = {})
  <2>1. /\ user' = [u EXCEPT !.secret = p]
        /\ rows' = [t \in Targets |->
                      IF t \in Waiting THEN [rows[t] EXCEPT !.state = "pending"]
                                       ELSE rows[t]]
        /\ Enqueue("stored", NoTarget, "verified-login", NoOp, "task")
    BY <1>2 DEF CredentialHandoff
  <2>2. user' \in UserRow
    BY <2>1 DEF UserRow
  <2>3. rows' \in [Targets -> TargetRow]
    <3>1. \A t \in Targets : rows[t] \in TargetRow
      BY DEF TypeOK
    <3>2. \A t \in Targets : [rows[t] EXCEPT !.state = "pending"] \in TargetRow
      BY <3>1, PendingState, StateWritten
    <3>3. QED
      BY <2>1, <3>1, <3>2
  <2>4. calls' \in Seq(Call)
    BY <2>1, EnqueueType DEF TypeOK, NoOp
  <2>5. QED
    BY <2>2, <2>3, <2>4
<1>3. QED
  BY <1>1, <1>2

\* The user's actions keep every type.
LEMMA UserActionType ==
  ASSUME ConstantsAssumption, TypeOK, Login \/ ChangePassword \/ KeepPassword
  PROVE  TypeOK'
<1>1. user \in UserRow /\ user.pwd \in Nat /\ user.pwd + 1 \in Nat
  BY DEF TypeOK, UserRow
<1>2. CASE Login
  <2>1. CredentialHandoff(user, user.pwd)
    BY <1>2 DEF Login
  <2>2. /\ user' \in UserRow /\ rows' \in [Targets -> TargetRow]
        /\ calls' \in Seq(Call)
    BY <1>1, <2>1, HandoffType
  <2>3. QED
    BY <1>2, <2>2 DEF Login, TypeOK
<1>3. CASE ChangePassword
  <2> DEFINE u == [user EXCEPT !.kind = "none", !.pwd = @ + 1]
  <2>1. u \in UserRow
    BY <1>1 DEF UserRow, Kinds
  <2>2. CredentialHandoff(u, user.pwd + 1)
    BY <1>3 DEF ChangePassword
  <2> HIDE DEF u
  <2>3. /\ user' \in UserRow /\ rows' \in [Targets -> TargetRow]
        /\ calls' \in Seq(Call)
    BY <1>1, <2>1, <2>2, HandoffType
  <2>4. QED
    BY <1>3, <2>3 DEF ChangePassword, TypeOK
<1>4. CASE KeepPassword
  <2> DEFINE u == [user EXCEPT !.kind = "none"]
  <2>1. u \in UserRow
    BY <1>1 DEF UserRow, Kinds
  <2>2. CredentialHandoff(u, user.pwd)
    BY <1>4 DEF KeepPassword
  <2> HIDE DEF u
  <2>3. /\ user' \in UserRow /\ rows' \in [Targets -> TargetRow]
        /\ calls' \in Seq(Call)
    BY <1>1, <2>1, <2>2, HandoffType
  <2>4. QED
    BY <1>4, <2>3 DEF KeepPassword, TypeOK
<1>5. QED
  BY <1>2, <1>3, <1>4

\* The retry worker keeps every type.
LEMMA WorkerType ==
  ASSUME ConstantsAssumption, TypeOK, WorkerExpires \/ WorkerScans \/ WorkerCalls
  PROVE  TypeOK'
<1> DEFINE Due == [target : Targets \cup {NoTarget}, op : Nat]
<1>1. CASE WorkerExpires
  <2>1. user' \in UserRow
    BY <1>1 DEF WorkerExpires, TypeOK, UserRow, Kinds
  <2>2. rows' \in [Targets -> TargetRow]
    <3> DEFINE off == "pending_expiry_disable"
    <3>1. off \in SyncState
      BY DEF SyncState
    <3>2. rows' = [t \in Targets |->
                     IF t \in Assigned THEN [rows[t] EXCEPT !.state = off, !.retry = FALSE]
                                       ELSE rows[t]]
      BY <1>1 DEF WorkerExpires
    <3> HIDE DEF off
    <3>3. \A t \in Targets : rows[t] \in TargetRow
      BY DEF TypeOK
    <3>4. \A t \in Targets : [rows[t] EXCEPT !.state = off, !.retry = FALSE] \in TargetRow
      BY <3>1, <3>3, StateWritten
    <3>5. QED
      BY <3>2, <3>3, <3>4
  <2>3. worker' \in Worker
    <3>1. {[target |-> NoTarget, op |-> NoOp]} \subseteq Due
      BY DEF NoOp
    <3> HIDE DEF Due
    <3>2. /\ worker \in Worker
          /\ worker' = [worker EXCEPT !.due = {[target |-> NoTarget, op |-> NoOp]}]
      BY <1>1 DEF WorkerExpires, TypeOK
    <3>3. Worker = [alive : BOOLEAN, waiting : BOOLEAN, due : SUBSET Due]
      BY DEF Worker, Due
    <3>4. QED
      BY <3>1, <3>2, <3>3
  <2>4. QED
    BY <1>1, <2>1, <2>2, <2>3 DEF WorkerExpires, TypeOK
<1>2. CASE WorkerScans
  <2>1. PICK due \in SUBSET Scheduled : ScanFinds(due)
    BY <1>2 DEF WorkerScans
  <2>2. {[target |-> t, op |-> rows[t].op] : t \in due} \subseteq Due
    BY <2>1 DEF Scheduled, TypeOK, TargetRow
  <2>3. worker' \in Worker
    BY <2>1, <2>2 DEF ScanFinds, TypeOK, Worker
  <2>4. QED
    BY <2>1, <2>3 DEF ScanFinds, TypeOK
<1>3. CASE WorkerCalls
  <2>1. PICK d \in worker.due :
          /\ worker' = [worker EXCEPT !.due = @ \ {d}, !.waiting = TRUE]
          /\ calls' = Append(calls,
               [action |-> "stored", target |-> d.target, op |-> d.op,
                actor |-> IF d.target = NoTarget THEN "password-expiry"
                                                 ELSE "system",
                by |-> "worker"])
    BY <1>3 DEF WorkerCalls
  <2>2. d \in Due
    BY <2>1 DEF TypeOK, Worker
  <2>3. [action |-> "stored", target |-> d.target, op |-> d.op,
         actor |-> IF d.target = NoTarget THEN "password-expiry" ELSE "system",
         by |-> "worker"] \in Call
    BY <2>2 DEF Call
  <2>4. calls' \in Seq(Call)
    BY <2>1, <2>3, AppendProperties DEF TypeOK
  <2>5. worker' \in Worker
    BY <2>1 DEF TypeOK, Worker
  <2>6. QED
    BY <1>3, <2>4, <2>5 DEF WorkerCalls, TypeOK
<1>4. QED
  BY <1>1, <1>2, <1>3

\* A restart keeps every type.
LEMMA RestartType ==
  ASSUME TypeOK, Restart
  PROVE  TypeOK'
<1>1. user' \in UserRow
  BY DEF Restart, TypeOK, UserRow, NoPwd
<1>2. rows' \in [Targets -> TargetRow]
  BY DEF Restart, TypeOK, TargetRow, SyncState
<1>3. calls' \in Seq(Call)
  <2>1. calls' = <<>>
    BY DEF Restart
  <2>2. QED
    BY <2>1
<1>4. worker' \in Worker
  BY DEF Restart, IdleWorker, Worker
<1>5. remote' \in [Targets -> Account]
  <2>1. CASE UNCHANGED remote
    BY <2>1 DEF TypeOK
  <2>2. CASE \E s \in sess : \E outcome : remote' = Answered(s, outcome)
    BY <2>2, AnsweredType
  <2>3. QED
    BY <2>1, <2>2 DEF Restart, Answers
<1>6. QED
  BY <1>1, <1>2, <1>3, <1>4, <1>5 DEF Restart, TypeOK

\* The initial situations are typed.
LEMMA InitType ==
  ASSUME Init
  PROVE  TypeOK
<1>1. \A kind \in Kinds, active \in Nat : NewUser(kind, active) \in UserRow
  BY DEF NewUser, UserRow, Desired, NoPwd
<1>2. \A selected, t : \A state \in SyncState :
        RowIn(selected, t, state) \in TargetRow
  BY DEF RowIn, TargetRow, SyncState, NoOp
<1>3. Absent \in Account /\ [acct |-> "enabled", pwd |-> 1] \in Account
  BY DEF Absent, Account, NoPwd
<1>4. available \subseteq Targets /\ sess = {} /\ worker \in Worker
  BY DEF Init, IdleWorker, Worker
<1>5. CASE Created
  <2>1. user \in UserRow
    BY <1>1, <1>5 DEF Created, Kinds
  <2>2. rows \in [Targets -> TargetRow]
    BY <1>2, <1>5 DEF Created, SyncState
  <2>3. ops \in Seq(Operation)
    <3>1. [cmd |-> "create", status |-> "queued"] \in Operation
      BY DEF Operation, Command, OperationStatus
    <3>2. QED
      BY <1>5, <3>1 DEF Created
  <2>4. calls \in Seq(Call)
    <3>1. [action |-> "stored", target |-> NoTarget, actor |-> "system",
           op |-> 1, by |-> "task"] \in Call
      BY DEF Call
    <3>2. QED
      BY <1>5, <3>1 DEF Created
  <2>5. remote \in [Targets -> Account] /\ temps \subseteq Nat
    BY <1>3, <1>5 DEF Created
  <2>6. QED
    BY <1>4, <2>1, <2>2, <2>3, <2>4, <2>5 DEF TypeOK
<1>6. CASE Established
  <2>1. user \in UserRow
    BY <1>1, <1>6 DEF Established, Kinds, NoOp
  <2>2. rows \in [Targets -> TargetRow]
    BY <1>2, <1>6 DEF Established, SyncState
  <2>3. ops \in Seq(Operation) /\ calls \in Seq(Call) /\ temps \subseteq Nat
    BY <1>6 DEF Established
  <2>4. remote \in [Targets -> Account]
    BY <1>3, <1>6 DEF Established
  <2>5. QED
    BY <1>4, <2>1, <2>2, <2>3, <2>4 DEF TypeOK
<1>7. QED
  BY <1>5, <1>6 DEF Init

\* Every step keeps every type.
LEMMA NextType ==
  ASSUME ConstantsAssumption, TypeOK, [Next]_vars
  PROVE  TypeOK'
<1>1. CASE Synchronize
  BY <1>1, SynchronizeType
<1>2. CASE Administer
  BY <1>2, AdministerType
<1>3. CASE Login \/ ChangePassword \/ KeepPassword
  BY <1>3, UserActionType
<1>4. CASE WorkerExpires \/ WorkerScans \/ WorkerCalls
  BY <1>4, WorkerType
<1>5. ASSUME NEW t \in Targets, ProbeChanges(t)
      PROVE  TypeOK'
  BY <1>5 DEF ProbeChanges, TypeOK
<1>6. CASE Restart
  BY <1>6, RestartType
<1>7. CASE UNCHANGED vars
  BY <1>7 DEF vars, TypeOK
<1>8. QED
  BY <1>1, <1>2, <1>3, <1>4, <1>5, <1>6, <1>7 DEF Next

\* Whatever the targets, their capabilities and the bounds: every state the
\* process reaches has the persisted columns, the session cache, the queue of
\* the account's lock and the worker's list in their types; in particular a row
\* has one of the states and an operation one of the statuses of lifecycle.py.
THEOREM TypeCorrect == Spec => []TypeOK
<1>1. Init => TypeOK
  BY InitType
<1>2. TypeOK /\ [Next]_vars => TypeOK'
  BY ConstantsAssumption, NextType
<1>3. QED
  BY <1>1, <1>2, PTL DEF Spec
-----------------------------------------------------------------------------
(***************************************************************************)
(* Passwords.  TemporaryStaysLocal and PasswordNeverRollsBack are not      *)
(* inductive: whether a password may be staged depends on the account row, *)
(* and whether it may be applied on what the session captured.  The        *)
(* invariant says which passwords may travel (Own) and in which order the  *)
(* account row, the session in flight and the targets hold them.           *)
(***************************************************************************)
\* The passwords that may travel: none, or one that was not set as a temporary
\* password.
Own == (0 .. user.pwd) \ temps

\* What is staged, captured by a session or held by a target may travel, and a
\* temporary password is current only while it is marked for a change.
PasswordInv ==
  /\ temps \subseteq 1 .. user.pwd
  /\ user.secret \in Own
  /\ \A s \in sess : s.user.secret \in Own
  /\ \A t \in Targets : remote[t].pwd \in Own
  /\ user.pwd \in temps => user.kind \in {"initial", "reset"}

\* No target is ahead of a staged or captured secret, and no session is ahead
\* of the staged one.
OrderInv ==
  /\ user.secret # NoPwd => \A t \in Targets : remote[t].pwd <= user.secret
  /\ \A s \in sess : s.user.secret # NoPwd =>
       /\ \A t \in Targets : remote[t].pwd <= s.user.secret
       /\ user.secret # NoPwd => s.user.secret <= user.secret

Secrets == TypeOK /\ PasswordInv /\ OrderInv

\* A step that chooses no password, stages none and moves to a session or a
\* target only what was staged or captured keeps the invariant.
LEMMA SecretsMoved ==
  ASSUME Secrets, TypeOK',
         user'.pwd = user.pwd,
         user.kind \in {"initial", "reset"} => user'.kind = user.kind,
         temps' = temps,
         user'.secret \in {user.secret, NoPwd},
         \A s2 \in sess' : s2.user.secret = user.secret
                             \/ \E s \in sess : s2.user.secret = s.user.secret,
         \A t \in Targets : remote'[t].pwd \in {remote[t].pwd, NoPwd}
                             \/ \E s \in sess : remote'[t].pwd = s.user.secret
  PROVE  Secrets'
<1> USE DEF NoPwd
<1>1. /\ user.pwd \in Nat /\ user.secret \in Nat
      /\ \A t \in Targets : remote[t].pwd \in Nat
      /\ \A s \in sess : s.user.secret \in Nat
      /\ \A s, s2 \in sess : s = s2
  BY DEF Secrets, TypeOK, UserRow, Account, SessionAt
<1>2. 0 \notin temps /\ Own' = Own
  BY <1>1 DEF Secrets, PasswordInv, Own
<1>3. PasswordInv'
  <2>1. user'.secret \in Own /\ temps' \subseteq 1 .. user'.pwd
    BY <1>1, <1>2 DEF Secrets, PasswordInv, Own
  <2>2. \A s2 \in sess' : s2.user.secret \in Own
    BY DEF Secrets, PasswordInv
  <2>3. \A t \in Targets : remote'[t].pwd \in Own
    BY <1>1, <1>2 DEF Secrets, PasswordInv, Own
  <2>4. QED
    BY <1>2, <2>1, <2>2, <2>3 DEF Secrets, PasswordInv
<1>4. OrderInv'
  <2>1. user'.secret # 0 => \A t \in Targets : remote'[t].pwd <= user'.secret
    BY <1>1 DEF Secrets, OrderInv
  <2>2. ASSUME NEW s2 \in sess', s2.user.secret # 0
        PROVE  /\ \A t \in Targets : remote'[t].pwd <= s2.user.secret
               /\ user'.secret # 0 => s2.user.secret <= user'.secret
    <3>1. CASE s2.user.secret = user.secret
      BY <1>1, <2>1, <2>2, <3>1 DEF Secrets, OrderInv
    <3>2. CASE \E s \in sess : s2.user.secret = s.user.secret
      BY <1>1, <2>2, <3>2 DEF Secrets, OrderInv
    <3>3. QED
      BY <2>2, <3>1, <3>2
  <2>3. QED
    BY <2>1, <2>2 DEF OrderInv
<1>5. QED
  BY <1>3, <1>4 DEF Secrets

\* A new temporary password, with nothing staged, keeps the invariant.
LEMMA TemporarySet ==
  ASSUME Secrets, TypeOK',
         user'.pwd = user.pwd + 1, user'.kind = "reset", user'.secret = NoPwd,
         temps' = temps \cup {user.pwd + 1},
         sess' = sess, remote' = remote
  PROVE  Secrets'
<1> USE DEF NoPwd
<1>1. /\ user.pwd \in Nat
      /\ \A t \in Targets : remote[t].pwd \in Nat
      /\ \A s \in sess : s.user.secret \in Nat
  BY DEF Secrets, TypeOK, UserRow, Account, SessionAt
<1>2. Own \subseteq Own' /\ 0 \in Own'
  BY <1>1 DEF Secrets, PasswordInv, Own
<1>3. temps' \subseteq 1 .. user'.pwd
  <2>1. temps \subseteq 1 .. user.pwd
    BY DEF Secrets, PasswordInv
  <2>2. 1 .. user.pwd \subseteq 1 .. user.pwd + 1 /\ user.pwd + 1 \in 1 .. user.pwd + 1
    BY <1>1
  <2>3. QED
    BY <2>1, <2>2
<1>4. PasswordInv'
  BY <1>2, <1>3 DEF Secrets, PasswordInv
<1>5. OrderInv'
  BY DEF Secrets, OrderInv
<1>6. QED
  BY <1>4, <1>5 DEF Secrets

\* The current password of the account, when it is not a temporary one, may be
\* staged: it is the newest there is.
LEMMA CurrentStaged ==
  ASSUME Secrets, TypeOK',
         user'.pwd \in {user.pwd, user.pwd + 1}, user'.pwd \notin temps,
         user'.secret \in {user.secret, user'.pwd},
         temps' = temps, sess' = sess, remote' = remote
  PROVE  Secrets'
<1> USE DEF NoPwd
<1>1. /\ user.pwd \in Nat /\ user.secret \in Nat
      /\ \A t \in Targets : remote[t].pwd \in Nat
      /\ \A s \in sess : s.user.secret \in Nat
  BY DEF Secrets, TypeOK, UserRow, Account, SessionAt
<1>2. Own \subseteq Own' /\ user'.pwd \in Own'
  BY <1>1 DEF Secrets, PasswordInv, Own
<1>3. temps' \subseteq 1 .. user'.pwd
  BY <1>1 DEF Secrets, PasswordInv
<1>4. PasswordInv'
  BY <1>2, <1>3 DEF Secrets, PasswordInv
<1>5. /\ \A t \in Targets : remote[t].pwd <= user'.pwd
      /\ \A s \in sess : s.user.secret <= user'.pwd
  BY <1>1 DEF Secrets, PasswordInv, Own
<1>6. OrderInv'
  BY <1>5 DEF Secrets, OrderInv
<1>7. QED
  BY <1>4, <1>6 DEF Secrets

\* A connector call in flight leaves the target's password alone, removes it
\* with the account, or sets the captured secret, which is no older.
LEMMA AnsweredPassword ==
  ASSUME Secrets, NEW s \in sess, NEW outcome, NEW t \in Targets
  PROVE  /\ Answered(s, outcome)[t].pwd
              \in {remote[t].pwd, NoPwd, s.user.secret}
         /\ Answered(s, outcome)[t].acct # "absent"
              => remote[t].pwd <= Answered(s, outcome)[t].pwd
<1>1. /\ s \in SessionAt(Targets) /\ s.at \in Targets
      /\ remote \in [Targets -> Account]
  BY AnsweredType DEF Secrets, TypeOK
<1>2. s.doing \in ConnectorOperation /\ s.user.secret \in Nat
  BY <1>1 DEF SessionAt, UserRow
<1>3. remote[t] \in Account /\ remote[t].pwd \in Nat
  BY <1>1 DEF Account
<1>4. s.user.secret # NoPwd => remote[t].pwd <= s.user.secret
  BY DEF Secrets, OrderInv
<1> DEFINE after == Effect(s.doing, remote[t], s.user.secret)
<1>5. /\ after.pwd \in {remote[t].pwd, NoPwd, s.user.secret}
      /\ after.acct # "absent" => remote[t].pwd <= after.pwd
  BY <1>2, <1>3, <1>4 DEF Effect, ConnectorOperation, Account
<1>6. Answered(s, outcome)[t] \in {remote[t], after}
  BY <1>1 DEF Answered
<1> HIDE DEF after
<1>7. QED
  BY <1>3, <1>5, <1>6

\* Every step of the synchronization keeps the invariant.
LEMMA SynchronizeSecrets ==
  ASSUME Secrets, TypeOK', Synchronize
  PROVE  Secrets'
<1>0. TypeOK /\ user.pwd = user.pwd
  BY DEF Secrets
<1>1. CASE SyncDropped
  BY <1>1, SecretsMoved DEF SyncDropped
<1>2. CASE SyncRaises
  BY <1>2, SecretsMoved DEF SyncRaises
<1>3. CASE SyncStarts
  <2>1. PICK c \in Call :
          /\ Computed(Starting(c), Resumed(Chosen(c)), Claimed(c), "running",
                      Chosen(c).ops)
          /\ Advance(Starting(c), Resumed(Chosen(c)), Claimed(c), "running",
                     Chosen(c).ops)
          /\ UNCHANGED <<available, remote, temps>>
    BY <1>0, <1>3, StartsComputed
  <2>2. /\ user'.pwd = user.pwd /\ user'.kind = user.kind
        /\ user'.secret \in {user.secret, NoPwd}
        /\ \A s2 \in sess' : s2.user = Resumed(Chosen(c))
    BY <1>0, <2>1, AdvanceType
  <2>3. Resumed(Chosen(c)).secret = user.secret
    BY <2>1 DEF Computed, Starting
  <2>4. QED
    BY <2>1, <2>2, <2>3, SecretsMoved
<1>4. CASE ConnectorReturns
  <2>1. PICK s \in sess, outcome \in Outcomes : ReturnsWith(s, outcome)
    BY <1>4 DEF ConnectorReturns, Answers
  <2>2. /\ user'.pwd = user.pwd /\ user'.kind = user.kind
        /\ user'.secret \in {user.secret, NoPwd}
        /\ \A s2 \in sess' : s2.user = s.user
    BY <1>0, <2>1, ReturnsComputed, AdvanceType DEF ReturnsWith
  <2>3. \A t \in Targets : remote'[t].pwd \in {remote[t].pwd, NoPwd, s.user.secret}
    BY <2>1, AnsweredPassword DEF ReturnsWith
  <2>4. temps' = temps
    BY <2>1 DEF ReturnsWith
  <2>5. QED
    BY <2>2, <2>3, <2>4, SecretsMoved
<1>5. CASE SessionLost
  <2>1. PICK s \in sess, outcome \in Outcomes : remote' = Answered(s, outcome)
    BY <1>5 DEF SessionLost, Answers
  <2>2. \A t \in Targets : remote'[t].pwd \in {remote[t].pwd, NoPwd, s.user.secret}
    BY <2>1, AnsweredPassword
  <2>3. UNCHANGED <<user, temps>> /\ sess' = {}
    BY <1>5 DEF SessionLost
  <2>4. QED
    BY <2>2, <2>3, SecretsMoved
<1>6. QED
  BY <1>1, <1>2, <1>3, <1>4, <1>5 DEF Synchronize

\* The administrator's handlers keep the invariant: a temporary password is
\* never staged.
LEMMA AdministerSecrets ==
  ASSUME Secrets, TypeOK', Administer
  PROVE  Secrets'
<1>1. user \in UserRow /\ ops \in Seq(Operation)
  BY DEF Secrets, TypeOK
<1>2. \A cmd \in {"update", "delete", "restore"} :
        /\ Request(cmd, user, ops).user \in UserRow
        /\ SamePassword(user, Request(cmd, user, ops).user)
  BY <1>1, RequestType DEF Command
<1>3. CASE UpdateUser
  <2>1. PICK disabled \in FormStatus :
          user' = [Request("update", user, ops).user EXCEPT !.disabled = disabled]
    BY <1>3 DEF UpdateUser
  <2>2. SamePassword(user, user')
    BY <1>2, <2>1 DEF SamePassword, UserRow
  <2>3. UNCHANGED <<sess, remote, temps>>
    BY <1>3 DEF UpdateUser
  <2>4. QED
    BY <2>2, <2>3, SecretsMoved DEF SamePassword
<1>4. CASE ResetPassword
  <2>1. PICK disabled \in FormStatus :
          user' = [Request("update", user, ops).user EXCEPT
                     !.disabled = disabled, !.kind = "reset",
                     !.secret = NoPwd, !.pwd = @ + 1]
    BY <1>4 DEF ResetPassword
  <2>2. user'.pwd = user.pwd + 1 /\ user'.kind = "reset" /\ user'.secret = NoPwd
    BY <1>2, <2>1 DEF SamePassword, UserRow
  <2>3. temps' = temps \cup {user.pwd + 1} /\ UNCHANGED <<sess, remote>>
    BY <1>4 DEF ResetPassword
  <2>4. QED
    BY <2>2, <2>3, TemporarySet
<1>5. CASE DeleteUser
  <2>1. user' = [Request("delete", user, ops).user EXCEPT
                   !.desired = "delete", !.deleted = FALSE]
    BY <1>5 DEF DeleteUser
  <2>2. SamePassword(user, user')
    BY <1>2, <2>1 DEF SamePassword, UserRow
  <2>3. UNCHANGED <<sess, remote, temps>>
    BY <1>5 DEF DeleteUser
  <2>4. QED
    BY <2>2, <2>3, SecretsMoved DEF SamePassword
<1>6. CASE RestoreUser
  <2>1. user' = [Request("restore", user, ops).user EXCEPT
                   !.desired = "ensure", !.deleted = FALSE, !.disabled = FALSE,
                   !.kind = "reset", !.secret = NoPwd, !.pwd = @ + 1]
    BY <1>6 DEF RestoreUser
  <2>2. user'.pwd = user.pwd + 1 /\ user'.kind = "reset" /\ user'.secret = NoPwd
    BY <1>2, <2>1 DEF SamePassword, UserRow
  <2>3. temps' = temps \cup {user.pwd + 1} /\ UNCHANGED <<sess, remote>>
    BY <1>6 DEF RestoreUser
  <2>4. QED
    BY <2>2, <2>3, TemporarySet
<1>7. CASE PurgeUser
  <2>1. SamePassword(user, user')
    BY <1>1, <1>7 DEF PurgeUser, SamePassword, UserRow
  <2>2. UNCHANGED <<sess, remote, temps>>
    BY <1>7 DEF PurgeUser
  <2>3. QED
    BY <2>1, <2>2, SecretsMoved DEF SamePassword
<1>8. ASSUME NEW t \in Targets, RetryTarget(t)
      PROVE  Secrets'
  BY <1>8, SecretsMoved DEF RetryTarget
<1>9. QED
  BY <1>3, <1>4, <1>5, <1>6, <1>7, <1>8 DEF Administer

\* The user's actions keep the invariant: what credential_handoff stages is the
\* current password, and no temporary one.
LEMMA UserActionSecrets ==
  ASSUME Secrets, TypeOK', Login \/ ChangePassword \/ KeepPassword
  PROVE  Secrets'
<1>1. /\ user \in UserRow /\ user.pwd \in Nat /\ user.pwd + 1 \in Nat
      /\ user.pwd + 1 \notin temps
      /\ user.kind \notin {"initial", "reset"} => user.pwd \notin temps
  BY DEF Secrets, TypeOK, UserRow, PasswordInv
<1>2. CASE Login
  <2>1. CredentialHandoff(user, user.pwd) /\ UNCHANGED <<sess, remote, temps>>
    BY <1>2 DEF Login
  <2>2. CASE user' = user
    BY <2>1, <2>2, SecretsMoved
  <2>3. CASE user' # user
    <3>1. user.kind \notin {"initial", "reset"}
          /\ user' = [user EXCEPT !.secret = user.pwd]
      BY <2>1, <2>3 DEF CredentialHandoff
    <3>2. user'.pwd = user.pwd /\ user'.secret = user.pwd
      BY <1>1, <3>1 DEF UserRow
    <3>3. QED
      BY <1>1, <2>1, <3>1, <3>2, CurrentStaged
  <2>4. QED
    BY <2>2, <2>3
<1>3. CASE ChangePassword
  <2> DEFINE u == [user EXCEPT !.kind = "none", !.pwd = @ + 1]
  <2>1. /\ u \in UserRow /\ u.pwd = user.pwd + 1 /\ u.secret = user.secret
    BY <1>1 DEF UserRow, Kinds
  <2>2. CredentialHandoff(u, user.pwd + 1) /\ UNCHANGED <<sess, remote, temps>>
    BY <1>3 DEF ChangePassword
  <2> HIDE DEF u
  <2>3. user' \in {u, [u EXCEPT !.secret = user.pwd + 1]}
    BY <2>2 DEF CredentialHandoff
  <2>4. user'.pwd = user.pwd + 1 /\ user'.secret \in {user.secret, user.pwd + 1}
    BY <2>1, <2>3 DEF UserRow
  <2>5. QED
    BY <1>1, <2>2, <2>4, CurrentStaged
<1>4. CASE KeepPassword
  <2> DEFINE u == [user EXCEPT !.kind = "none"]
  <2>1. /\ u \in UserRow /\ u.pwd = user.pwd /\ u.secret = user.secret
    BY <1>1 DEF UserRow, Kinds
  <2>2. /\ CredentialHandoff(u, user.pwd) /\ UNCHANGED <<sess, remote, temps>>
        /\ user.kind = "expired"
    BY <1>4 DEF KeepPassword
  <2> HIDE DEF u
  <2>3. user' \in {u, [u EXCEPT !.secret = user.pwd]}
    BY <2>2 DEF CredentialHandoff
  <2>4. user'.pwd = user.pwd /\ user'.secret \in {user.secret, user.pwd}
    BY <2>1, <2>3 DEF UserRow
  <2>5. QED
    BY <1>1, <2>2, <2>4, CurrentStaged
<1>5. QED
  BY <1>2, <1>3, <1>4

\* Every step keeps the invariant.
LEMMA NextSecrets ==
  ASSUME ConstantsAssumption, Secrets, [Next]_vars
  PROVE  Secrets'
<1>1. TypeOK'
  BY NextType DEF Secrets
<1>2. CASE Synchronize
  BY <1>1, <1>2, SynchronizeSecrets
<1>3. CASE Administer
  BY <1>1, <1>3, AdministerSecrets
<1>4. CASE Login \/ ChangePassword \/ KeepPassword
  BY <1>1, <1>4, UserActionSecrets
<1>5. CASE WorkerExpires
  <2>1. /\ user' = [user EXCEPT !.kind = "expired"] /\ user.kind = "none"
        /\ UNCHANGED <<sess, remote, temps>>
    BY <1>5 DEF WorkerExpires
  <2>2. user'.pwd = user.pwd /\ user'.secret = user.secret
    BY <2>1 DEF Secrets, TypeOK, UserRow
  <2>3. QED
    BY <1>1, <2>1, <2>2, SecretsMoved
<1>6. CASE WorkerScans \/ WorkerCalls
  <2>1. UNCHANGED <<user, sess, remote, temps>>
    BY <1>6 DEF WorkerScans, ScanFinds, WorkerCalls
  <2>2. QED
    BY <1>1, <2>1, SecretsMoved
<1>7. ASSUME NEW t \in Targets, ProbeChanges(t)
      PROVE  Secrets'
  BY <1>1, <1>7, SecretsMoved DEF ProbeChanges
<1>8. CASE Restart
  <2>1. /\ user'.pwd = user.pwd /\ user'.kind = user.kind
        /\ user'.secret \in {user.secret, NoPwd}
    BY <1>8 DEF Restart, Secrets, TypeOK, UserRow
  <2>2. temps' = temps /\ sess' = {}
    BY <1>8 DEF Restart
  <2>3. \A t \in Targets : remote'[t].pwd \in {remote[t].pwd, NoPwd}
                             \/ \E s \in sess : remote'[t].pwd = s.user.secret
    <3>1. CASE UNCHANGED remote
      BY <3>1
    <3>2. CASE \E s \in sess : \E outcome : remote' = Answered(s, outcome)
      BY <3>2, AnsweredPassword
    <3>3. QED
      BY <1>8, <3>1, <3>2 DEF Restart, Answers
  <2>4. QED
    BY <1>1, <2>1, <2>2, <2>3, SecretsMoved
<1>9. CASE UNCHANGED vars
  BY <1>1, <1>9, SecretsMoved DEF vars
<1>10. QED
  BY <1>2, <1>3, <1>4, <1>5, <1>6, <1>7, <1>8, <1>9 DEF Next

\* The initial situations satisfy the invariant.
LEMMA InitSecrets ==
  ASSUME Init
  PROVE  Secrets
<1>1. TypeOK
  BY InitType
<1> USE DEF NewUser, Absent, NoPwd
<1>2. CASE Created
  <2>1. /\ user.secret = 0 /\ user.pwd = 1 /\ user.kind = "initial"
        /\ temps = {1} /\ sess = {}
        /\ \A t \in Targets : remote[t].pwd = 0
    BY <1>2 DEF Created, Init
  <2>2. QED
    BY <1>1, <2>1 DEF Secrets, PasswordInv, OrderInv, Own
<1>3. CASE Established
  <2>1. /\ user.secret = 0 /\ user.pwd = 1 /\ temps = {} /\ sess = {}
        /\ \A t \in Targets : remote[t].pwd \in {0, 1}
    BY <1>3 DEF Established, Init
  <2>2. QED
    BY <1>1, <2>1 DEF Secrets, PasswordInv, OrderInv, Own
<1>4. QED
  BY <1>2, <1>3 DEF Init

\* The invariant holds in every reachable state.
LEMMA SecretsHold == Spec => []Secrets
<1>1. Init => Secrets
  BY InitSecrets
<1>2. Secrets /\ [Next]_vars => Secrets'
  BY ConstantsAssumption, NextSecrets
<1>3. QED
  BY <1>1, <1>2, PTL DEF Spec

\* A temporary password never leaves the server: no interleaving of resets,
\* restores, sign-ins, synchronizations, lost answers and restarts stages one
\* in pending_secret, lets a session capture one, or puts one on a target.
THEOREM TemporaryPasswordStaysLocal == Spec => []TemporaryStaysLocal
<1>1. Secrets => TemporaryStaysLocal
  BY DEF Secrets, PasswordInv, Own, TemporaryStaysLocal
<1>2. QED
  BY <1>1, SecretsHold, PTL

\* A target never gets an older password back: whatever a session captured
\* before the user chose a new password, what it applies is at least as new as
\* what the account on the target has.
THEOREM NoPasswordRollback == Spec => PasswordNeverRollsBack
<1> DEFINE NoRollback ==
      \A t \in Targets :
        remote[t].acct # "absent" /\ remote'[t].acct # "absent"
          => remote[t].pwd <= remote'[t].pwd
<1>1. ASSUME Secrets, [Next]_vars
      PROVE  NoRollback
  <2>1. \A t \in Targets : remote[t].pwd <= remote[t].pwd
    BY <1>1 DEF Secrets, TypeOK, Account
  <2>2. CASE \E s \in sess : \E outcome : remote' = Answered(s, outcome)
    BY <1>1, <2>2, AnsweredPassword
  <2>3. CASE UNCHANGED remote
    BY <2>1, <2>3
  <2>4. \/ UNCHANGED remote
        \/ \E s \in sess : \E outcome : remote' = Answered(s, outcome)
    <3>1. CASE Synchronize
      BY <3>1 DEF Synchronize, SyncDropped, SyncRaises, SyncStarts,
                  ConnectorReturns, ReturnsWith, SessionLost
    <3>2. CASE Administer
      BY <3>2 DEF Administer, UpdateUser, ResetPassword, DeleteUser,
                  RestoreUser, PurgeUser, RetryTarget
    <3>3. CASE Login \/ ChangePassword \/ KeepPassword
      BY <3>3 DEF Login, ChangePassword, KeepPassword
    <3>4. CASE WorkerExpires \/ WorkerScans \/ WorkerCalls
      BY <3>4 DEF WorkerExpires, WorkerScans, ScanFinds, WorkerCalls
    <3>5. CASE \E t \in Targets : ProbeChanges(t)
      BY <3>5 DEF ProbeChanges
    <3>6. CASE Restart
      BY <3>6 DEF Restart
    <3>7. CASE UNCHANGED vars
      BY <3>7 DEF vars
    <3>8. QED
      BY <1>1, <3>1, <3>2, <3>3, <3>4, <3>5, <3>6, <3>7 DEF Next
  <2>5. QED
    BY <2>2, <2>3, <2>4
<1>2. Spec => [][NoRollback]_vars
  BY <1>1, SecretsHold, PTL DEF Spec
<1>3. QED
  BY <1>2 DEF PasswordNeverRollsBack
=============================================================================
