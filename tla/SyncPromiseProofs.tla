------------------------- MODULE SyncPromiseProofs -------------------------
(***************************************************************************)
(* What SyncEngine presents and promises about the accounts on the         *)
(* targets, for any targets, capabilities and bounds.                      *)
(***************************************************************************)
EXTENDS SyncHistoryProofs
-----------------------------------------------------------------------------
(***************************************************************************)
(* What is presented as disabled.                                          *)
(*                                                                         *)
(* A session may present a target as off long after it read the row, and a *)
(* handler may withdraw the assignment meanwhile.  The invariant says that *)
(* what is presented as off now was so when the session read it, so that   *)
(* the target it calls, which it marked pending, is none of them, and that *)
(* a call whose success would be presented as off enables nothing.         *)
(***************************************************************************)
Off == {"unassigned", "expired_disabled"}

OffIsOff == \A t \in Targets : rows[t].state \in Off => remote[t].acct # "enabled"

SeesOff(s) ==
  /\ \A t \in Targets : rows[t].state \in Off => s.rows[t].state = rows[t].state
  /\ ~s.rows[s.at].assigned /\ s.desired # "delete" => s.doing # "ensure"
  /\ s.user.kind = "expired" => s.doing # "ensure"

Presented == History /\ OffIsOff /\ \A s \in sess : SeesOff(s)

\* What a step must leave.
Shown ==
  /\ OffIsOff'
  /\ \A s \in sess' : SeesOff(s)'

\* A commit presents a row as off only when the session does, and either the
\* session decided so or the row was presented so before.
LEMMA FlushShows ==
  ASSUME NEW stored \in TargetRow, NEW seen \in TargetRow, NEW new \in TargetRow,
         stored.state \in Off => seen.state = stored.state,
         FlushRow(stored, seen, new).state \in Off
  PROVE  /\ FlushRow(stored, seen, new).state = new.state
         /\ new.state # seen.state \/ stored.state \in Off
<1>1. FlushRow(stored, seen, new).state
        = Dirty(stored.state, seen.state, new.state)
  BY DEF FlushRow, TargetRow
<1>2. QED
  BY <1>1 DEF Dirty

\* A session and its computed rows, whose commit presents nothing as off that
\* is enabled.
Faithful(s, r) ==
  /\ \A t \in Targets : rows[t].state \in Off => s.rows[t].state = rows[t].state
  /\ \A t \in Targets : rows[t].state \in Off => remote'[t].acct # "enabled"
  /\ \A t \in Targets :
       r[t].state \in Off /\ r[t].state # s.rows[t].state
         => remote'[t].acct # "enabled"

LEMMA CommitShows ==
  ASSUME TypeOK, NEW s, s.rows \in [Targets -> TargetRow], NEW r, Faithful(s, r),
         NEW new \in [Targets -> TargetRow],
         \A t \in Targets : new[t].state \in {r[t].state, "unsupported", "pending"},
         rows' = [t \in Targets |-> FlushRow(rows[t], s.rows[t], new[t])]
  PROVE  /\ OffIsOff'
         /\ \A t \in Targets :
              rows'[t].state \in Off => new[t].state = rows'[t].state
<1>1. ASSUME NEW t \in Targets, rows'[t].state \in Off
      PROVE  new[t].state = rows'[t].state /\ remote'[t].acct # "enabled"
  <2>1. /\ rows[t] \in TargetRow /\ s.rows[t] \in TargetRow
        /\ new[t] \in TargetRow
    BY <1>1 DEF TypeOK
  <2>2. rows'[t] = FlushRow(rows[t], s.rows[t], new[t])
    BY <1>1
  <2>3. rows[t].state \in Off => s.rows[t].state = rows[t].state
    BY <1>1 DEF Faithful
  <2>4. /\ rows'[t].state = new[t].state
        /\ new[t].state # s.rows[t].state \/ rows[t].state \in Off
    BY <1>1, <2>1, <2>2, <2>3, FlushShows
  <2>5. CASE rows[t].state \in Off
    BY <1>1, <2>4, <2>5 DEF Faithful
  <2>6. CASE new[t].state # s.rows[t].state
    <3>1. new[t].state \in Off
      BY <1>1, <2>4
    <3>2. new[t].state = r[t].state
      BY <1>1, <3>1 DEF Off
    <3>3. QED
      BY <1>1, <2>4, <2>6, <3>1, <3>2 DEF Faithful
  <2>7. QED
    BY <2>4, <2>5, <2>6
<1>2. QED
  BY <1>1 DEF OffIsOff

\* Passing over a target leaves its state or makes it unsupported, and leaves
\* its assignment.
LEMMA SettleShows ==
  ASSUME NEW s, NEW u, NEW r \in [Targets -> TargetRow], NEW Q
  PROVE  \A t \in Targets :
           /\ Settle(s, u, r, Q)[t].state \in {r[t].state, "unsupported"}
           /\ Settle(s, u, r, Q)[t].assigned = r[t].assigned
<1>1. ASSUME NEW t \in Targets
      PROVE  /\ Settle(s, u, r, Q)[t].state \in {r[t].state, "unsupported"}
             /\ Settle(s, u, r, Q)[t].assigned = r[t].assigned
  <2> DEFINE new == Settle(s, u, r, Q)[t]
  <2>1. \/ new = r[t]
        \/ new = [r[t] EXCEPT !.state = "unsupported", !.retry = FALSE]
    BY <1>1 DEF Settle
  <2>2. r[t] \in TargetRow
    BY <1>1
  <2> HIDE DEF new
  <2>3. new.state \in {r[t].state, "unsupported"} /\ new.assigned = r[t].assigned
    BY <2>1, <2>2 DEF TargetRow
  <2>4. QED
    BY <2>3 DEF new
<1>2. QED
  BY <1>1

\* The start of the next attempt: an unassigned target, or an expired account,
\* is not ensured.
LEMMA StartAttemptShows ==
  ASSUME TypeOK, NEW s, NEW u, NEW r, NEW st, NEW o,
         Computed(s, u, r, st, o), Faithful(s, r),
         NEW Q, NEW t \in s.todo, StartAttempt(s, u, r, st, o, Q, t)
  PROVE  Shown
<1> DEFINE settled == Settle(s, u, r, Q)
           new == [settled EXCEPT ![t].state = "pending", ![t].retry = FALSE]
           next == [s EXCEPT !.user = u, !.rows = new, !.status = st,
                             !.todo = @ \ (Q \cup {t}), !.at = t,
                             !.doing = OperationFor(s, u, r[t])]
<1>1. s \in SessionAt(Targets \cup {NoTarget}) /\ r \in [Targets -> TargetRow]
  BY DEF Computed
<1>2. /\ s.rows \in [Targets -> TargetRow]
      /\ s.todo \subseteq Targets /\ t \in Targets
  BY <1>1 DEF SessionAt
<1>3. settled \in [Targets -> TargetRow]
  BY <1>1, SettleType
<1>4. \A x \in Targets : /\ settled[x].state \in {r[x].state, "unsupported"}
                         /\ settled[x].assigned = r[x].assigned
  BY <1>1, SettleShows
<1>5. /\ rows' = [x \in Targets |-> FlushRow(rows[x], s.rows[x], new[x])]
      /\ sess' = {next}
  BY DEF StartAttempt
<1>6. /\ next.rows = new /\ next.at = t /\ next.desired = s.desired
      /\ next.user = u /\ next.doing = OperationFor(s, u, r[t])
  BY <1>1 DEF SessionAt
<1> HIDE DEF settled, next
<1>13. Attempted(settled, t, new)
  BY DEF Attempted
<1> HIDE DEF new
<1>7. /\ new \in [Targets -> TargetRow]
      /\ new[t].state = "pending" /\ new[t].assigned = settled[t].assigned
      /\ \A x \in Targets : x # t => new[x] = settled[x]
  BY ONLY <1>2, <1>3, <1>13, AttemptRow
<1>8. /\ \A x \in Targets : new[x].state \in {r[x].state, "unsupported", "pending"}
      /\ new[t].assigned = r[t].assigned
  BY <1>2, <1>4, <1>7
<1>9. /\ OffIsOff'
      /\ \A x \in Targets : rows'[x].state \in Off => new[x].state = rows'[x].state
  BY <1>2, <1>5, <1>7, <1>8, CommitShows
<1>10. /\ ~r[t].assigned /\ s.desired # "delete" => next.doing # "ensure"
       /\ u.kind = "expired" => next.doing # "ensure"
  BY <1>6 DEF OperationFor
<1>11. SeesOff(next)'
  BY <1>6, <1>8, <1>9, <1>10 DEF SeesOff
<1>12. QED
  BY <1>5, <1>9, <1>11 DEF Shown

LEMMA AdvanceShows ==
  ASSUME TypeOK, NEW s, NEW u, NEW r, NEW st, NEW o,
         Computed(s, u, r, st, o), Faithful(s, r), Advance(s, u, r, st, o)
  PROVE  Shown
<1>1. CASE EndOperation(s, u, r, st, o)
  <2> DEFINE new == Settle(s, u, r, s.todo)
  <2>1. /\ rows' = [x \in Targets |-> FlushRow(rows[x], s.rows[x], new[x])]
        /\ sess' = {}
    BY <1>1 DEF EndOperation
  <2>2. r \in [Targets -> TargetRow] /\ s.rows \in [Targets -> TargetRow]
    BY DEF Computed, SessionAt
  <2>3. /\ new \in [Targets -> TargetRow]
        /\ \A x \in Targets : new[x].state \in {r[x].state, "unsupported", "pending"}
    BY <2>2, SettleType, SettleShows
  <2> HIDE DEF new
  <2>4. OffIsOff'
    BY <2>1, <2>2, <2>3, CommitShows
  <2>5. QED
    BY <2>1, <2>4 DEF Shown
<1>2. CASE \E Q, t : t \in s.todo /\ StartAttempt(s, u, r, st, o, Q, t)
  BY <1>2, StartAttemptShows
<1>3. QED
  BY <1>1, <1>2 DEF Advance

\* A synchronization starts from the rows as they are.
LEMMA StartsShow ==
  ASSUME Presented, SyncStarts
  PROVE  Shown
<1>1. TypeOK /\ OffIsOff
  BY DEF Presented, History
<1>2. PICK c \in Call :
        /\ Computed(Starting(c), Resumed(Chosen(c)), Claimed(c), "running",
                    Chosen(c).ops)
        /\ Advance(Starting(c), Resumed(Chosen(c)), Claimed(c), "running",
                   Chosen(c).ops)
        /\ UNCHANGED remote
  BY <1>1, StartsComputed
<1>3. Starting(c).rows = rows
  BY DEF Starting
<1>4. ASSUME NEW t \in Targets
      PROVE  Claimed(c)[t].state = rows[t].state
  <2>1. rows[t] \in TargetRow
    BY <1>1, <1>4 DEF TypeOK
  <2>2. Claimed(c)[t] \in {rows[t], [rows[t] EXCEPT !.op = Chosen(c).op]}
    BY <1>4 DEF Claimed
  <2>3. QED
    BY <2>1, <2>2 DEF TargetRow
<1>5. Faithful(Starting(c), Claimed(c))
  BY <1>1, <1>2, <1>3, <1>4 DEF Faithful, OffIsOff
<1>6. QED
  BY <1>1, <1>2, <1>5, AdvanceShows

\* What a call leaves elsewhere is what was there; and unless it ensures the
\* account, it enables none.
LEMMA AnsweredElsewhere ==
  ASSUME TypeOK, NEW s \in sess, NEW outcome, NEW t \in Targets, t # s.at
  PROVE  Answered(s, outcome)[t] = remote[t]
BY DEF Answered, TypeOK

LEMMA AnsweredOff ==
  ASSUME TypeOK, NEW s \in sess, s.doing # "ensure"
  PROVE  Answered(s, "ok")[s.at].acct # "enabled"
<1>1. /\ s \in SessionAt(Targets) /\ s.at \in Targets
      /\ remote \in [Targets -> Account]
  BY AnsweredType DEF TypeOK
<1>2. s.doing \in {"disable", "delete"} /\ remote[s.at] \in Account
  BY <1>1 DEF SessionAt, ConnectorOperation
<1>3. Effect(s.doing, remote[s.at], s.user.secret).acct # "enabled"
  BY <1>2 DEF Effect, Account
<1>4. Answered(s, "ok")[s.at] = Effect(s.doing, remote[s.at], s.user.secret)
  BY <1>1 DEF Answered
<1>5. QED
  BY <1>3, <1>4

\* The answer of a connector.
LEMMA ReturnsShow ==
  ASSUME Presented, NEW s \in sess, NEW outcome, ReturnsWith(s, outcome)
  PROVE  Shown
<1> DEFINE r == [s.rows EXCEPT ![s.at] = RowAfter(s, @, outcome)]
<1>1. TypeOK /\ OffIsOff /\ Sees(s) /\ SeesOff(s)
  BY DEF Presented, History
<1>2. /\ Computed(s, s.user, r, s.status, ops)
      /\ Advance(s, s.user, r, s.status, ops)
      /\ remote' = Answered(s, outcome)
  BY <1>1, ReturnsComputed DEF ReturnsWith
<1>3. s \in SessionAt(Targets) /\ s.at \in Targets
  BY <1>1, AnsweredType
<1>4. s.rows \in [Targets -> TargetRow] /\ s.rows[s.at] \in TargetRow
  BY <1>3 DEF SessionAt
<1>5. ASSUME NEW t \in Targets, rows[t].state \in Off
      PROVE  remote'[t].acct # "enabled"
  <2>1. t # s.at
    BY <1>1, <1>5 DEF Sees, SeesOff, Off
  <2>2. remote'[t] = remote[t]
    BY <1>1, <1>2, <2>1, AnsweredElsewhere
  <2>3. QED
    BY <1>1, <1>5, <2>2 DEF OffIsOff
<1>6. ASSUME NEW t \in Targets, r[t].state \in Off, r[t].state # s.rows[t].state
      PROVE  remote'[t].acct # "enabled"
  <2>1. t = s.at /\ r[t] = RowAfter(s, s.rows[s.at], outcome)
    BY <1>4, <1>6
  <2> DEFINE succeeded == StateAfterSuccess(s, s.rows[s.at])
  <2>2. /\ outcome = "ok"
        /\ succeeded \in Off
    <3>1. RowAfter(s, s.rows[s.at], outcome).state
            \in (IF outcome = "ok" THEN {succeeded} ELSE {"unsupported", "failed"})
      <4> HIDE DEF succeeded
      <4>1. CASE outcome = "ok"
        BY <1>4, <4>1 DEF RowAfter, TargetRow, succeeded
      <4>2. CASE outcome = "invalid"
        BY <1>4, <4>2 DEF RowAfter, TargetRow
      <4>3. CASE outcome \notin {"ok", "invalid"}
        BY <1>4, <4>3 DEF RowAfter, TargetRow
      <4>4. QED
        BY <4>1, <4>2, <4>3
    <3>2. QED
      BY <1>6, <2>1, <3>1 DEF Off
  <2>3. /\ s.desired # "delete"
        /\ ~s.rows[s.at].assigned \/ s.user.kind = "expired"
    BY <2>2 DEF StateAfterSuccess, Off
  <2>4. s.doing # "ensure"
    BY <1>1, <2>3 DEF SeesOff
  <2>5. QED
    BY <1>1, <1>2, <2>1, <2>2, <2>4, AnsweredOff
<1> HIDE DEF r
<1>7. Faithful(s, r)
  BY <1>1, <1>5, <1>6 DEF Faithful, SeesOff
<1>8. QED
  BY <1>1, <1>2, <1>7, AdvanceShows
-----------------------------------------------------------------------------
\* What everything else leaves: it presents nothing anew as off and opens no
\* session, and when it ends one, the call in flight may still take effect.
Withdrawn ==
  /\ \A t \in Targets : rows'[t].state \in Off => rows'[t] = rows[t]
  /\ sess' \subseteq sess
  /\ remote' = remote \/ \E s \in sess : \E outcome : remote' = Answered(s, outcome)

LEMMA WithdrawnShows ==
  ASSUME Presented, Withdrawn
  PROVE  Shown
<1>1. TypeOK /\ OffIsOff /\ \A s \in sess : Sees(s) /\ SeesOff(s)
  BY DEF Presented, History
<1>2. ASSUME NEW t \in Targets, rows'[t].state \in Off
      PROVE  remote'[t].acct # "enabled"
  <2>1. rows[t].state \in Off
    BY <1>2 DEF Withdrawn
  <2>2. remote'[t] = remote[t]
    <3>1. ASSUME NEW s \in sess, NEW outcome, remote' = Answered(s, outcome)
          PROVE  remote'[t] = remote[t]
      <4>1. t # s.at
        BY <1>1, <2>1 DEF Sees, SeesOff, Off
      <4>2. QED
        BY <1>1, <3>1, <4>1, AnsweredElsewhere
    <3>2. QED
      BY <3>1 DEF Withdrawn
  <2>3. QED
    BY <1>1, <2>1, <2>2 DEF OffIsOff
<1>3. ASSUME NEW s \in sess'
      PROVE  SeesOff(s)'
  <2>1. SeesOff(s)
    BY <1>1, <1>3 DEF Withdrawn
  <2>2. \A t \in Targets : rows'[t].state \in Off => s.rows[t].state = rows'[t].state
    BY <2>1 DEF SeesOff, Withdrawn
  <2>3. QED
    BY <2>1, <2>2 DEF SeesOff
<1>4. QED
  BY <1>2, <1>3 DEF Shown, OffIsOff

\* _set_pending presents nothing anew as off.
LEMMA SetPendingMarks ==
  ASSUME TypeOK, NEW selected, NEW requireChange, NEW remoteAbsent,
         SetPending(selected, requireChange, remoteAbsent)
  PROVE  \A t \in Targets : rows'[t].state \in Off => rows'[t] = rows[t]
BY DEF SetPending, TypeOK, TargetRow, Off

LEMMA AdministerWithdraws ==
  ASSUME TypeOK, Administer
  PROVE  Withdrawn
<1>1. sess' = sess /\ remote' = remote
  BY DEF Administer, UpdateUser, ResetPassword, DeleteUser, RestoreUser,
         PurgeUser, RetryTarget
<1>2. \/ rows' = rows
      \/ \E selected, requireChange, remoteAbsent :
           SetPending(selected, requireChange, remoteAbsent)
  <2>1. CASE UpdateUser
    BY <2>1 DEF UpdateUser
  <2>2. CASE ResetPassword
    BY <2>2 DEF ResetPassword
  <2>3. CASE DeleteUser
    BY <2>3 DEF DeleteUser
  <2>4. CASE RestoreUser
    BY <2>4 DEF RestoreUser
  <2>5. CASE PurgeUser \/ \E t \in Targets : RetryTarget(t)
    BY <2>5 DEF PurgeUser, RetryTarget
  <2>6. QED
    BY <2>1, <2>2, <2>3, <2>4, <2>5 DEF Administer
<1>3. \A t \in Targets : rows'[t].state \in Off => rows'[t] = rows[t]
  BY <1>2, SetPendingMarks
<1>4. QED
  BY <1>1, <1>3 DEF Withdrawn

LEMMA OthersWithdraw ==
  ASSUME TypeOK,
         \/ Login \/ ChangePassword \/ KeepPassword
         \/ WorkerExpires \/ WorkerScans \/ WorkerCalls \/ Restart
         \/ SyncDropped \/ SyncRaises \/ SessionLost
         \/ \E t \in Targets : ProbeChanges(t)
         \/ UNCHANGED vars
  PROVE  Withdrawn
<1>1. ASSUME NEW t \in Targets, rows'[t].state \in Off
      PROVE  rows'[t] = rows[t]
  <2>1. rows[t] \in TargetRow
    BY <1>1 DEF TypeOK
  <2>2. \/ rows'[t] = rows[t]
        \/ rows'[t] = [rows[t] EXCEPT !.state = "pending"]
        \/ rows'[t] = [rows[t] EXCEPT !.state = "pending_expiry_disable",
                                      !.retry = FALSE]
        \/ rows'[t] = [rows[t] EXCEPT !.state = "chpw", !.retry = FALSE]
    <3>1. CASE Login \/ ChangePassword \/ KeepPassword
      BY <1>1, <3>1 DEF Login, ChangePassword, KeepPassword, CredentialHandoff
    <3>2. CASE WorkerExpires
      BY <1>1, <3>2 DEF WorkerExpires
    <3>3. CASE Restart
      BY <1>1, <3>3 DEF Restart
    <3>4. CASE rows' = rows
      BY <3>4
    <3>5. QED
      BY <3>1, <3>2, <3>3, <3>4
      DEF WorkerScans, ScanFinds, WorkerCalls, SyncDropped, SyncRaises,
          SessionLost, ProbeChanges, vars
  <2>3. QED
    BY <1>1, <2>1, <2>2 DEF TargetRow, Off
<1>2. sess' \subseteq sess
  BY DEF Login, ChangePassword, KeepPassword, WorkerExpires, WorkerScans,
         ScanFinds, WorkerCalls, Restart, SyncDropped, SyncRaises, SessionLost,
         ProbeChanges, vars
<1>3. remote' = remote \/ \E s \in sess : \E outcome : remote' = Answered(s, outcome)
  BY DEF Login, ChangePassword, KeepPassword, WorkerExpires, WorkerScans,
         ScanFinds, WorkerCalls, Restart, SyncDropped, SyncRaises, SessionLost,
         ProbeChanges, vars
<1>4. QED
  BY <1>1, <1>2, <1>3 DEF Withdrawn

\* Every step keeps the invariant.
LEMMA NextShows ==
  ASSUME Presented, [Next]_vars
  PROVE  Shown
<1>0. TypeOK
  BY DEF Presented, History
<1>1. CASE SyncStarts
  BY <1>1, StartsShow
<1>2. CASE ConnectorReturns
  BY <1>2, ReturnsShow DEF ConnectorReturns
<1>3. CASE Administer
  BY <1>0, <1>3, AdministerWithdraws, WithdrawnShows
<1>4. CASE \/ Login \/ ChangePassword \/ KeepPassword
           \/ WorkerExpires \/ WorkerScans \/ WorkerCalls \/ Restart
           \/ SyncDropped \/ SyncRaises \/ SessionLost
           \/ \E t \in Targets : ProbeChanges(t)
           \/ UNCHANGED vars
  BY <1>0, <1>4, OthersWithdraw, WithdrawnShows
<1>5. QED
  BY <1>1, <1>2, <1>3, <1>4 DEF Next, Synchronize

LEMMA PresentedHolds == Spec => []Presented
<1>1. Init => Presented
  <2>1. ASSUME Init
        PROVE  Presented
    <3>1. OffIsOff /\ sess = {}
      BY <2>1 DEF Init, Created, Established, RowIn, OffIsOff, Off
    <3>2. QED
      BY <2>1, <3>1, InitHistory DEF Presented
  <2>2. QED
    BY <2>1
<1>2. Presented /\ History' /\ [Next]_vars => Presented'
  BY NextShows DEF Presented, Shown
<1>3. QED
  BY <1>1, <1>2, HistoryHolds, PTL DEF Spec

\* A target presented as unassigned, or as disabled for an expired password,
\* has no enabled account, for any targets and capabilities: no synchronization
\* that began before the withdrawal or the expiry, and no call whose answer
\* was lost or that a restart orphaned, has enabled it.
THEOREM DisabledStaysOff == Spec => []DisabledIsOff
<1>1. Presented => DisabledIsOff
  BY DEF Presented, OffIsOff, Off, DisabledIsOff, UnassignedIsDisabled,
         ExpiredIsDisabled
<1>2. QED
  BY <1>1, PresentedHolds, PTL
-----------------------------------------------------------------------------
(***************************************************************************)
(* The promise of AccountPromise.                                          *)
(*                                                                         *)
(* The code accepts a restore when the deletion is recorded as complete,   *)
(* and a second removal of the account may be queued or in flight then.    *)
(* RestoredWhenDone is the condition under which the promise is kept; with *)
(* it, no removal outlives the wish to delete the account.                 *)
(***************************************************************************)
NoRemovalQueued == \A i \in 1..Len(calls) : calls[i].action # "delete"

Restores == RestoreUser => sess = {} /\ NoRemovalQueued

RestoredWhenDone == [][Restores]_vars

\* The session neither removes the account nor knows of a wish to.
Keeps(s) ==
  /\ s.desired # "delete" /\ s.doing # "delete"
  /\ s.user.desired # "delete" /\ ~s.user.deleted

StillWanted ==
  user.desired # "delete" =>
    ~user.deleted /\ NoRemovalQueued /\ \A s \in sess : Keeps(s)

Promised == Secrets /\ StillWanted

\* The queue of the account's lock: what is left when its head is taken, and
\* what is there when a call is added.
LEMMA QueueTail ==
  ASSUME calls \in Seq(Call), calls # <<>>, NoRemovalQueued
  PROVE  /\ Head(calls).action # "delete"
         /\ calls' = Tail(calls) => NoRemovalQueued'
<1>1. /\ Head(calls) = calls[1] /\ Len(calls) \in Nat /\ 1 \in 1..Len(calls)
      /\ Len(Tail(calls)) = Len(calls) - 1
      /\ \A i \in 1..Len(Tail(calls)) : Tail(calls)[i] = calls[i + 1]
  BY HeadTailProperties, EmptySeq, LenProperties
<1>2. QED
  BY <1>1 DEF NoRemovalQueued

LEMMA QueueAppend ==
  ASSUME calls \in Seq(Call), NoRemovalQueued, NEW c \in Call,
         c.action # "delete", calls' = Append(calls, c)
  PROVE  NoRemovalQueued'
<1>1. /\ Len(calls) \in Nat /\ Len(calls') = Len(calls) + 1
      /\ \A i \in 1..Len(calls) : calls'[i] = calls[i]
      /\ calls'[Len(calls) + 1] = c
  BY AppendProperties, LenProperties
<1>2. QED
  BY <1>1 DEF NoRemovalQueued

\* request_operation leaves the wish alone.
LEMMA RequestWish ==
  ASSUME NEW cmd, NEW u \in UserRow, NEW o
  PROVE  /\ Request(cmd, u, o).user.desired = u.desired
         /\ Request(cmd, u, o).user.deleted = u.deleted
<1>1. Request(cmd, u, o).user \in {u, [u EXCEPT !.active = Len(o) + 1]}
  BY DEF Request
<1>2. QED
  BY <1>1 DEF UserRow

\* The synchronization leaves the wish alone, and records a deletion only when
\* it was started for one.
LEMMA AdvanceWish ==
  ASSUME TypeOK, NEW s, NEW u, NEW r, NEW st, NEW o,
         Computed(s, u, r, st, o), Advance(s, u, r, st, o)
  PROVE  /\ user'.desired = user.desired
         /\ user'.deleted => user.deleted \/ s.desired = "delete"
         /\ \A s2 \in sess' :
              /\ s2.desired = s.desired /\ s2.user = u
              /\ s2.doing = "delete" <=>
                   s.desired = "delete" \/ u.desired = "delete" \/ u.deleted
<1>1. s \in SessionAt(Targets \cup {NoTarget}) /\ user \in UserRow
  BY DEF Computed, TypeOK
<1>2. CASE EndOperation(s, u, r, st, o)
  <2> DEFINE new     == Settle(s, u, r, s.todo)
             final   == FinalStatus(s, new, st)
             done    == final \in TerminalStatus
             clean   == final = "succeeded"
             ended   == [u EXCEPT
                           !.active = IF done /\ @ = s.op THEN NoOp ELSE @,
                           !.secret = IF clean /\ s.desired # "delete"
                                               /\ Consumed(s, new)
                                      THEN NoPwd ELSE @]
             deletes == clean /\ s.desired = "delete"
  <2>1. /\ user' = FlushUser(user, s.user, ended, deletes)
        /\ sess' = {}
    BY <1>2 DEF EndOperation
  <2>2. deletes \in BOOLEAN /\ (deletes => s.desired = "delete")
    OBVIOUS
  <2> HIDE DEF ended, deletes
  <2>3. user'.desired = user.desired /\ user'.deleted = (user.deleted \/ deletes)
    BY <1>1, <2>1 DEF FlushUser, UserRow
  <2>4. QED
    BY <2>1, <2>2, <2>3
<1>3. ASSUME NEW Q, NEW t \in s.todo, StartAttempt(s, u, r, st, o, Q, t)
      PROVE  /\ user'.desired = user.desired
             /\ user'.deleted => user.deleted \/ s.desired = "delete"
             /\ \A s2 \in sess' :
                  /\ s2.desired = s.desired /\ s2.user = u
                  /\ s2.doing = "delete" <=>
                       s.desired = "delete" \/ u.desired = "delete" \/ u.deleted
  <2>1. user' = FlushUser(user, s.user, u, FALSE)
    BY <1>3 DEF StartAttempt
  <2>2. user'.desired = user.desired /\ (user'.deleted => user.deleted)
    BY <1>1, <2>1 DEF FlushUser, UserRow
  <2>3. PICK new : sess' = {[s EXCEPT !.user = u, !.rows = new, !.status = st,
                                      !.todo = @ \ (Q \cup {t}), !.at = t,
                                      !.doing = OperationFor(s, u, r[t])]}
    BY <1>3 DEF StartAttempt
  <2>4. \A s2 \in sess' : /\ s2.desired = s.desired /\ s2.user = u
                          /\ s2.doing = OperationFor(s, u, r[t])
    BY <1>1, <2>3 DEF SessionAt
  <2>5. OperationFor(s, u, r[t]) = "delete" <=>
          s.desired = "delete" \/ u.desired = "delete" \/ u.deleted
    BY DEF OperationFor
  <2>6. QED
    BY <2>2, <2>4, <2>5
<1>4. QED
  BY <1>2, <1>3 DEF Advance

\* The operation a call works under leaves the wish alone.
LEMMA ResumedWish ==
  ASSUME TypeOK, NEW c \in Call
  PROVE  /\ Resumed(Chosen(c)).desired = user.desired
         /\ Resumed(Chosen(c)).deleted = user.deleted
<1>1. user \in UserRow /\ Chosen(c).user \in UserRow
  BY ChosenType DEF TypeOK
<1>2. Chosen(c).user.desired = user.desired /\ Chosen(c).user.deleted = user.deleted
  <2>1. CASE GivenOp(c) # NoOp
    BY <2>1 DEF Chosen
  <2>2. CASE GivenOp(c) = NoOp
    BY <1>1, <2>2, RequestWish DEF Chosen
  <2>3. QED
    BY <2>1, <2>2
<1>3. Resumed(Chosen(c)) \in {Chosen(c).user,
                              [Chosen(c).user EXCEPT !.active = Chosen(c).op]}
  BY DEF Resumed
<1>4. QED
  BY <1>1, <1>2, <1>3 DEF UserRow

\* A new session, or the next attempt of one, ensures the account when it was
\* started and is wanted to.
LEMMA SynchronizeKeeps ==
  ASSUME TypeOK, StillWanted, Synchronize
  PROVE  StillWanted' /\ user'.desired = user.desired
<1>1. calls \in Seq(Call) /\ user \in UserRow
  BY DEF TypeOK
<1>2. CASE SyncDropped \/ SyncRaises
  <2>1. /\ UNCHANGED <<user, sess>>
        /\ calls # <<>> /\ calls' = Tail(calls)
    BY <1>2 DEF SyncDropped, SyncRaises, LockFree
  <2>2. QED
    BY <1>1, <2>1, QueueTail DEF StillWanted, Keeps
<1>3. CASE SyncStarts
  <2>1. PICK c \in Call :
          /\ c = Head(calls)
          /\ Computed(Starting(c), Resumed(Chosen(c)), Claimed(c), "running",
                      Chosen(c).ops)
          /\ Advance(Starting(c), Resumed(Chosen(c)), Claimed(c), "running",
                     Chosen(c).ops)
    BY <1>3, StartsComputed
  <2>2. calls # <<>> /\ calls' = Tail(calls)
    BY <1>3 DEF SyncStarts, LockFree
  <2>3. /\ user'.desired = user.desired
        /\ user'.deleted => user.deleted \/ Starting(c).desired = "delete"
        /\ \A s2 \in sess' :
             /\ s2.desired = Starting(c).desired /\ s2.user = Resumed(Chosen(c))
             /\ s2.doing = "delete" =>
                  \/ Starting(c).desired = "delete"
                  \/ Resumed(Chosen(c)).desired = "delete"
                  \/ Resumed(Chosen(c)).deleted
    BY <2>1, AdvanceWish
  <2>4. /\ Resumed(Chosen(c)).desired = user.desired
        /\ Resumed(Chosen(c)).deleted = user.deleted
    BY <2>1, ResumedWish
  <2>5. ASSUME user.desired # "delete"
        PROVE  /\ NoRemovalQueued'
               /\ Starting(c).desired # "delete" /\ ~user.deleted
    <3>1. NoRemovalQueued /\ ~user.deleted
      BY <2>5 DEF StillWanted
    <3>2. c.action # "delete" /\ NoRemovalQueued'
      BY <1>1, <2>1, <2>2, <3>1, QueueTail
    <3>3. QED
      BY <2>5, <3>1, <3>2 DEF Starting, DesiredOf
  <2>6. QED
    BY <2>3, <2>4, <2>5 DEF StillWanted, Keeps
<1>4. CASE ConnectorReturns
  <2>1. PICK s \in sess, outcome \in Outcomes : ReturnsWith(s, outcome)
    BY <1>4 DEF ConnectorReturns, Answers
  <2> DEFINE r == [s.rows EXCEPT ![s.at] = RowAfter(s, @, outcome)]
  <2>2. /\ Computed(s, s.user, r, s.status, ops)
        /\ Advance(s, s.user, r, s.status, ops)
        /\ calls' = calls
    BY <2>1, ReturnsComputed DEF ReturnsWith
  <2> HIDE DEF r
  <2>3. /\ user'.desired = user.desired
        /\ user'.deleted => user.deleted \/ s.desired = "delete"
        /\ \A s2 \in sess' :
             /\ s2.desired = s.desired /\ s2.user = s.user
             /\ s2.doing = "delete" =>
                  s.desired = "delete" \/ s.user.desired = "delete" \/ s.user.deleted
    BY <2>2, AdvanceWish
  <2>4. NoRemovalQueued => NoRemovalQueued'
    BY <2>2 DEF NoRemovalQueued
  <2>5. QED
    BY <2>3, <2>4 DEF StillWanted, Keeps
<1>5. CASE SessionLost
  BY <1>5 DEF SessionLost, StillWanted, NoRemovalQueued
<1>6. QED
  BY <1>2, <1>3, <1>4, <1>5 DEF Synchronize

\* Everything but an administrator's deletion queues no removal and leaves the
\* wish alone; a restore ends it when none is queued.
LEMMA OthersKeep ==
  ASSUME TypeOK, StillWanted,
         user'.desired # "delete" => user.desired # "delete",
         user'.deleted => user.deleted,
         sess' \subseteq sess,
         NoRemovalQueued => NoRemovalQueued'
  PROVE  StillWanted'
BY DEF StillWanted, Keeps

\* A call that removes no account.
LEMMA EnqueueKeepsQueue ==
  ASSUME calls \in Seq(Call), NEW target \in Targets \cup {NoTarget},
         NEW actor \in {"system", "verified-login", "password-expiry"},
         NEW op \in Nat, NEW by \in {"task", "worker"},
         calls' = Append(calls, [action |-> "stored", target |-> target,
                                 actor |-> actor, op |-> op, by |-> by])
  PROVE  NoRemovalQueued => NoRemovalQueued'
<1> DEFINE c == [action |-> "stored", target |-> target, actor |-> actor,
                 op |-> op, by |-> by]
<1>1. c \in Call /\ c.action = "stored"
  BY DEF Call
<1> HIDE DEF c
<1>2. QED
  BY <1>1, QueueAppend DEF c

LEMMA AdministerKeeps ==
  ASSUME TypeOK, StillWanted, Administer,
         RestoreUser => sess = {} /\ NoRemovalQueued
  PROVE  StillWanted'
<1>1. user \in UserRow /\ ops \in Seq(Operation) /\ calls \in Seq(Call)
  BY DEF TypeOK
<1>2. \A cmd \in {"update", "delete", "restore"} :
        /\ Request(cmd, user, ops).user \in UserRow
        /\ Request(cmd, user, ops).op \in Nat
        /\ Request(cmd, user, ops).user.desired = user.desired
        /\ Request(cmd, user, ops).user.deleted = user.deleted
  BY <1>1, RequestType, RequestWish DEF Command
<1>3. CASE UpdateUser
  <2>1. PICK disabled \in FormStatus :
          user' = [Request("update", user, ops).user EXCEPT !.disabled = disabled]
    BY <1>3 DEF UpdateUser
  <2>2. user'.desired = user.desired /\ user'.deleted = user.deleted
    BY <1>2, <2>1 DEF UserRow
  <2>3. /\ sess' = sess
        /\ Enqueue("stored", NoTarget, "system", Request("update", user, ops).op,
                   "task")
    BY <1>3 DEF UpdateUser
  <2>4. NoRemovalQueued => NoRemovalQueued'
    BY <1>1, <1>2, <2>3, EnqueueKeepsQueue DEF Enqueue
  <2>5. QED
    BY <2>2, <2>3, <2>4, OthersKeep
<1>4. CASE ResetPassword
  <2>1. PICK disabled \in FormStatus :
          user' = [Request("update", user, ops).user EXCEPT
                     !.disabled = disabled, !.kind = "reset",
                     !.secret = NoPwd, !.pwd = @ + 1]
    BY <1>4 DEF ResetPassword
  <2>2. user'.desired = user.desired /\ user'.deleted = user.deleted
    BY <1>2, <2>1 DEF UserRow
  <2>3. /\ sess' = sess
        /\ Enqueue("stored", NoTarget, "system", Request("update", user, ops).op,
                   "task")
    BY <1>4 DEF ResetPassword
  <2>4. NoRemovalQueued => NoRemovalQueued'
    BY <1>1, <1>2, <2>3, EnqueueKeepsQueue DEF Enqueue
  <2>5. QED
    BY <2>2, <2>3, <2>4, OthersKeep
<1>5. CASE DeleteUser
  <2>1. user' = [Request("delete", user, ops).user EXCEPT
                   !.desired = "delete", !.deleted = FALSE]
    BY <1>5 DEF DeleteUser
  <2>2. user'.desired = "delete"
    BY <1>2, <2>1 DEF UserRow
  <2>3. QED
    BY <2>2 DEF StillWanted
<1>6. CASE RestoreUser
  <2>1. user' = [Request("restore", user, ops).user EXCEPT
                   !.desired = "ensure", !.deleted = FALSE, !.disabled = FALSE,
                   !.kind = "reset", !.secret = NoPwd, !.pwd = @ + 1]
    BY <1>6 DEF RestoreUser
  <2>2. ~user'.deleted
    BY <1>2, <2>1 DEF UserRow
  <2>3. /\ sess' = sess
        /\ Enqueue("stored", NoTarget, "system", Request("restore", user, ops).op,
                   "task")
    BY <1>6 DEF RestoreUser
  <2>4. NoRemovalQueued => NoRemovalQueued'
    BY <1>1, <1>2, <2>3, EnqueueKeepsQueue DEF Enqueue
  <2>5. sess = {} /\ NoRemovalQueued
    BY <1>6
  <2>6. QED
    BY <2>2, <2>3, <2>4, <2>5 DEF StillWanted
<1>7. CASE PurgeUser
  <2>1. user'.desired = user.desired /\ user'.deleted = user.deleted
    BY <1>1, <1>7 DEF PurgeUser, UserRow
  <2>2. sess' = sess /\ calls' = calls
    BY <1>7 DEF PurgeUser
  <2>3. QED
    BY <2>1, <2>2, OthersKeep DEF NoRemovalQueued
<1>8. ASSUME NEW t \in Targets, RetryTarget(t)
      PROVE  StillWanted'
  <2>1. /\ user' = user /\ sess' = sess
        /\ Enqueue("stored", t, "system", rows[t].op, "task")
    BY <1>8 DEF RetryTarget
  <2>2. rows[t].op \in Nat
    BY DEF TypeOK, TargetRow
  <2>3. NoRemovalQueued => NoRemovalQueued'
    BY <1>1, <2>1, <2>2, EnqueueKeepsQueue DEF Enqueue
  <2>4. QED
    BY <2>1, <2>3, OthersKeep
<1>9. QED
  BY <1>3, <1>4, <1>5, <1>6, <1>7, <1>8 DEF Administer

\* The user's own actions leave the wish alone, and choose at most one new
\* password.
LEMMA HandoffKeeps ==
  ASSUME TypeOK, NEW u \in UserRow, NEW p, CredentialHandoff(u, p)
  PROVE  /\ user'.desired = u.desired /\ user'.deleted = u.deleted
         /\ user'.pwd = u.pwd
         /\ NoRemovalQueued => NoRemovalQueued'
<1>1. user' \in {u, [u EXCEPT !.secret = p]}
  BY DEF CredentialHandoff
<1>2. /\ user'.desired = u.desired /\ user'.deleted = u.deleted
      /\ user'.pwd = u.pwd
  BY <1>1 DEF UserRow
<1>3. \/ calls' = calls
      \/ Enqueue("stored", NoTarget, "verified-login", NoOp, "task")
  BY DEF CredentialHandoff
<1>4. NoRemovalQueued => NoRemovalQueued'
  <2>1. CASE calls' = calls
    BY <2>1 DEF NoRemovalQueued
  <2>2. CASE Enqueue("stored", NoTarget, "verified-login", NoOp, "task")
    BY <2>2, EnqueueKeepsQueue DEF Enqueue, NoOp, TypeOK
  <2>3. QED
    BY <1>3, <2>1, <2>2
<1>5. QED
  BY <1>2, <1>4

LEMMA UserActionKeeps ==
  ASSUME TypeOK, Login \/ ChangePassword \/ KeepPassword
  PROVE  /\ user'.desired = user.desired /\ user'.deleted = user.deleted
         /\ user'.pwd \in {user.pwd, user.pwd + 1}
         /\ NoRemovalQueued => NoRemovalQueued'
         /\ UNCHANGED <<sess, remote, temps>>
<1>1. user \in UserRow /\ user.pwd + 1 \in Nat
  BY DEF TypeOK, UserRow
<1>2. UNCHANGED <<sess, remote, temps>>
  BY DEF Login, ChangePassword, KeepPassword
<1>3. \E p : \E u \in UserRow :
        /\ CredentialHandoff(u, p)
        /\ u.desired = user.desired /\ u.deleted = user.deleted
        /\ u.pwd \in {user.pwd, user.pwd + 1}
  <2>1. CASE Login
    BY <1>1, <2>1 DEF Login
  <2>2. CASE ChangePassword
    <3> DEFINE u == [user EXCEPT !.kind = "none", !.pwd = @ + 1]
    <3>1. /\ u \in UserRow /\ u.pwd = user.pwd + 1
          /\ u.desired = user.desired /\ u.deleted = user.deleted
      BY <1>1 DEF UserRow, Kinds
    <3>2. CredentialHandoff(u, user.pwd + 1)
      BY <2>2 DEF ChangePassword
    <3> HIDE DEF u
    <3>3. QED
      BY <3>1, <3>2
  <2>3. CASE KeepPassword
    <3> DEFINE u == [user EXCEPT !.kind = "none"]
    <3>1. /\ u \in UserRow /\ u.pwd = user.pwd
          /\ u.desired = user.desired /\ u.deleted = user.deleted
      BY <1>1 DEF UserRow, Kinds
    <3>2. CredentialHandoff(u, user.pwd)
      BY <2>3 DEF KeepPassword
    <3> HIDE DEF u
    <3>3. QED
      BY <3>1, <3>2
  <2>4. QED
    BY <2>1, <2>2, <2>3
<1>4. QED
  BY <1>2, <1>3, HandoffKeeps

\* The retry worker, a probe and a restart leave the wish and the password
\* alone; only a restart, with a call in flight, touches a target.
LEMMA WorkerKeeps ==
  ASSUME TypeOK,
         \/ WorkerExpires \/ WorkerScans \/ WorkerCalls \/ Restart
         \/ \E t \in Targets : ProbeChanges(t)
         \/ UNCHANGED vars
  PROVE  /\ user'.desired = user.desired /\ user'.deleted = user.deleted
         /\ user'.pwd = user.pwd /\ temps' = temps
         /\ NoRemovalQueued => NoRemovalQueued'
         /\ sess' \subseteq sess
         /\ \/ remote' = remote
            \/ \E s \in sess : \E outcome : remote' = Answered(s, outcome)
<1>1. user \in UserRow /\ calls \in Seq(Call) /\ worker \in Worker
  BY DEF TypeOK
<1>2. CASE WorkerExpires
  <2>1. user' = [user EXCEPT !.kind = "expired"]
        /\ UNCHANGED <<calls, sess, remote, temps>>
    BY <1>2 DEF WorkerExpires
  <2>2. QED
    BY <1>1, <2>1 DEF UserRow, NoRemovalQueued
<1>3. CASE WorkerScans \/ (\E t \in Targets : ProbeChanges(t)) \/ UNCHANGED vars
  BY <1>3 DEF WorkerScans, ScanFinds, ProbeChanges, vars, NoRemovalQueued
<1>4. CASE WorkerCalls
  <2>1. PICK d \in worker.due :
          calls' = Append(calls,
            [action |-> "stored", target |-> d.target,
             actor |-> IF d.target = NoTarget THEN "password-expiry" ELSE "system",
             op |-> d.op, by |-> "worker"])
    BY <1>4 DEF WorkerCalls
  <2>2. d.target \in Targets \cup {NoTarget} /\ d.op \in Nat
    BY <1>1 DEF Worker
  <2> DEFINE actor == IF d.target = NoTarget THEN "password-expiry" ELSE "system"
  <2>3. actor \in {"system", "verified-login", "password-expiry"}
    OBVIOUS
  <2>4. calls' = Append(calls, [action |-> "stored", target |-> d.target,
                                actor |-> actor, op |-> d.op, by |-> "worker"])
    BY <2>1
  <2> HIDE DEF actor
  <2>5. NoRemovalQueued => NoRemovalQueued'
    BY <1>1, <2>2, <2>3, <2>4, EnqueueKeepsQueue
  <2>6. QED
    BY <1>4, <2>5 DEF WorkerCalls
<1>5. CASE Restart
  <2>1. /\ user' = [user EXCEPT !.secret = user'.secret]
        /\ calls' = <<>> /\ sess' = {} /\ temps' = temps
    BY <1>1, <1>5 DEF Restart, UserRow
  <2>2. /\ user'.desired = user.desired /\ user'.deleted = user.deleted
        /\ user'.pwd = user.pwd
    BY <1>1, <2>1 DEF UserRow
  <2>3. NoRemovalQueued'
    BY <2>1, EmptySeq DEF NoRemovalQueued
  <2>4. QED
    BY <1>5, <2>1, <2>2, <2>3 DEF Restart
<1>6. QED
  BY <1>2, <1>3, <1>4, <1>5

\* Every step keeps the wish.
LEMMA NextKeeps ==
  ASSUME TypeOK, StillWanted, [Next]_vars, [Restores]_vars
  PROVE  StillWanted'
<1>1. CASE Synchronize
  BY <1>1, SynchronizeKeeps
<1>2. CASE Administer
  <2>1. CASE UNCHANGED vars
    BY <2>1 DEF vars, StillWanted, NoRemovalQueued, Keeps
  <2>2. CASE Restores
    BY <1>2, <2>2, AdministerKeeps DEF Restores
  <2>3. QED
    BY <2>1, <2>2
<1>3. CASE Login \/ ChangePassword \/ KeepPassword
  BY <1>3, UserActionKeeps, OthersKeep
<1>4. CASE \/ WorkerExpires \/ WorkerScans \/ WorkerCalls \/ Restart
           \/ \E t \in Targets : ProbeChanges(t)
           \/ UNCHANGED vars
  BY <1>4, WorkerKeeps, OthersKeep
<1>5. QED
  BY <1>1, <1>2, <1>3, <1>4 DEF Next

LEMMA PromisedHolds == Spec /\ RestoredWhenDone => []Promised
<1>1. Init => StillWanted
  <2>1. ASSUME Init
        PROVE  StillWanted
    <3>1. ~user.deleted
      BY <2>1 DEF Init, Created, Established, NewUser
    <3>2. sess = {}
      BY <2>1 DEF Init
    <3>3. NoRemovalQueued
      <4>1. CASE Created
        <5>1. /\ calls = <<[action |-> "stored", target |-> NoTarget,
                            actor |-> "system", op |-> 1, by |-> "task"]>>
          BY <4>1 DEF Created
        <5>2. QED
          BY <5>1 DEF NoRemovalQueued
      <4>2. CASE Established
        BY <4>2, EmptySeq DEF Established, NoRemovalQueued
      <4>3. QED
        BY <2>1, <4>1, <4>2 DEF Init
    <3>4. QED
      BY <3>1, <3>2, <3>3 DEF StillWanted
  <2>2. QED
    BY <2>1
<1>2. Secrets /\ StillWanted /\ [Next]_vars /\ [Restores]_vars => StillWanted'
  BY NextKeeps DEF Secrets
<1>3. QED
  BY <1>1, <1>2, SecretsHold, PTL DEF Spec, Promised, RestoredWhenDone
-----------------------------------------------------------------------------
(***************************************************************************)
(* Every step of SyncEngine is a step of AccountPromise or leaves what     *)
(* AccountPromise sees alone.                                              *)
(***************************************************************************)
Promising == [Promise!Next]_(Promise!vars)

\* A step that leaves the password, the wish and the targets alone.
LEMMA Stutters ==
  ASSUME user'.pwd = user.pwd, user'.desired = user.desired,
         UNCHANGED <<temps, remote>>
  PROVE  Promising
BY DEF Promising, Promise!vars

\* A call in flight removes the account where its deletion is wanted, disables
\* it, or gives it a password that may travel and is no older.
LEMMA AnsweredPromises ==
  ASSUME Secrets, StillWanted, NEW s \in sess, NEW outcome,
         remote' = Answered(s, outcome), temps' = temps,
         user'.pwd = user.pwd, user'.desired = user.desired
  PROVE  Promising
<1>1. /\ s \in SessionAt(Targets) /\ s.at \in Targets
      /\ remote \in [Targets -> Account] /\ user \in UserRow
  BY AnsweredType DEF Secrets, TypeOK
<1>2. s.doing \in ConnectorOperation /\ remote[s.at] \in Account
  BY <1>1 DEF SessionAt
<1> DEFINE before == remote[s.at]
           after == Effect(s.doing, before, s.user.secret)
<1>3. CASE outcome \notin {"ok", "lost"}
  BY <1>3, Stutters DEF Answered
<1>4. CASE outcome \in {"ok", "lost"}
  <2>1. remote' = [remote EXCEPT ![s.at] = after]
    BY <1>4 DEF Answered
  <2>2. CASE s.doing = "delete"
    <3>1. user.desired = "delete"
      BY <2>2 DEF StillWanted, Keeps
    <3>2. after = [acct |-> "absent", pwd |-> 0]
      BY <2>2 DEF Effect, NoPwd
    <3>3. Promise!Remove(s.at)
      BY <2>1, <3>1, <3>2 DEF Promise!Remove
    <3>4. QED
      BY <1>1, <3>3 DEF Promising, Promise!Next
  <2>3. CASE s.doing = "disable"
    <3>1. CASE before.acct = "absent"
      <4>1. after = before
        BY <2>3, <3>1 DEF Effect
      <4>2. remote' = remote
        BY <1>1, <2>1, <4>1
      <4>3. QED
        BY <4>2, Stutters
    <3>2. CASE before.acct # "absent"
      <4>1. after = [before EXCEPT !.acct = "disabled"]
        BY <2>3, <3>2 DEF Effect
      <4>2. remote' = [remote EXCEPT ![s.at].acct = "disabled"]
        BY <2>1, <4>1
      <4>3. Promise!Disable(s.at)
        BY <3>2, <4>2 DEF Promise!Disable
      <4>4. QED
        BY <1>1, <4>3 DEF Promising, Promise!Next
    <3>3. QED
      BY <3>1, <3>2
  <2>4. CASE s.doing = "ensure"
    <3> DEFINE p == IF s.user.secret = NoPwd THEN before.pwd ELSE s.user.secret
    <3>1. after = [acct |-> "enabled", pwd |-> p]
      BY <2>4 DEF Effect
    <3>2. /\ before.pwd \in Own /\ s.user.secret \in Own
          /\ s.user.secret # NoPwd => before.pwd <= s.user.secret
      BY <1>1 DEF Secrets, PasswordInv, OrderInv
    <3>3. before.pwd <= before.pwd
      BY <1>2 DEF Account
    <3>4. p \in (0 .. user.pwd) \ temps /\ before.pwd <= p
      BY <3>2, <3>3 DEF Own
    <3> HIDE DEF after, p
    <3>5. Promise!Provision(s.at)
      BY <2>1, <3>1, <3>4 DEF Promise!Provision
    <3>6. QED
      BY <1>1, <3>5 DEF Promising, Promise!Next
  <2>5. QED
    BY <1>2, <2>2, <2>3, <2>4 DEF ConnectorOperation
<1>5. QED
  BY <1>3, <1>4

LEMMA AdministerPromises ==
  ASSUME TypeOK, Administer
  PROVE  Promising
<1>1. user \in UserRow /\ ops \in Seq(Operation)
  BY DEF TypeOK
<1>2. \A cmd \in {"update", "delete", "restore"} :
        /\ Request(cmd, user, ops).user \in UserRow
        /\ Request(cmd, user, ops).user.desired = user.desired
        /\ Request(cmd, user, ops).user.pwd = user.pwd
  BY <1>1, RequestType, RequestWish DEF Command, SamePassword
<1>3. CASE UpdateUser
  <2>1. PICK disabled \in FormStatus :
          user' = [Request("update", user, ops).user EXCEPT !.disabled = disabled]
    BY <1>3 DEF UpdateUser
  <2>2. user'.desired = user.desired /\ user'.pwd = user.pwd
    BY <1>2, <2>1 DEF UserRow
  <2>3. UNCHANGED <<temps, remote>>
    BY <1>3 DEF UpdateUser
  <2>4. QED
    BY <2>2, <2>3, Stutters
<1>4. CASE ResetPassword
  <2>1. PICK disabled \in FormStatus :
          user' = [Request("update", user, ops).user EXCEPT
                     !.disabled = disabled, !.kind = "reset",
                     !.secret = NoPwd, !.pwd = @ + 1]
    BY <1>4 DEF ResetPassword
  <2>2. user'.desired = user.desired /\ user'.pwd = user.pwd + 1
    BY <1>2, <2>1 DEF UserRow
  <2>3. user.desired = "ensure" /\ temps' = temps \cup {user.pwd + 1}
        /\ UNCHANGED remote
    BY <1>1, <1>4 DEF ResetPassword, UserRow, Desired
  <2>4. Promise!SetTemporary
    BY <2>2, <2>3 DEF Promise!SetTemporary
  <2>5. QED
    BY <2>4 DEF Promising, Promise!Next
<1>5. CASE DeleteUser
  <2>1. user' = [Request("delete", user, ops).user EXCEPT
                   !.desired = "delete", !.deleted = FALSE]
    BY <1>5 DEF DeleteUser
  <2>2. user'.desired = "delete" /\ user'.pwd = user.pwd
    BY <1>2, <2>1 DEF UserRow
  <2>3. UNCHANGED <<temps, remote>>
    BY <1>5 DEF DeleteUser
  <2>4. Promise!AskDeletion
    BY <2>2, <2>3 DEF Promise!AskDeletion
  <2>5. QED
    BY <2>4 DEF Promising, Promise!Next
<1>6. CASE RestoreUser
  <2>1. user' = [Request("restore", user, ops).user EXCEPT
                   !.desired = "ensure", !.deleted = FALSE, !.disabled = FALSE,
                   !.kind = "reset", !.secret = NoPwd, !.pwd = @ + 1]
    BY <1>6 DEF RestoreUser
  <2>2. user'.desired = "ensure" /\ user'.pwd = user.pwd + 1
    BY <1>2, <2>1 DEF UserRow
  <2>3. temps' = temps \cup {user.pwd + 1} /\ UNCHANGED remote
    BY <1>6 DEF RestoreUser
  <2>4. Promise!SetTemporary
    BY <2>2, <2>3 DEF Promise!SetTemporary
  <2>5. QED
    BY <2>4 DEF Promising, Promise!Next
<1>7. CASE PurgeUser
  <2>1. user'.desired = user.desired /\ user'.pwd = user.pwd
    BY <1>1, <1>7 DEF PurgeUser, UserRow
  <2>2. QED
    BY <1>7, <2>1, Stutters DEF PurgeUser
<1>8. ASSUME NEW t \in Targets, RetryTarget(t)
      PROVE  Promising
  BY <1>8, Stutters DEF RetryTarget
<1>9. QED
  BY <1>3, <1>4, <1>5, <1>6, <1>7, <1>8 DEF Administer

\* What a synchronization step leaves of the password and of the wish, and what
\* it does on a target.
LEMMA SynchronizeMoves ==
  ASSUME TypeOK, StillWanted, Synchronize
  PROVE  /\ user'.pwd = user.pwd /\ temps' = temps
         /\ \/ remote' = remote
            \/ \E s \in sess : \E outcome : remote' = Answered(s, outcome)
<1>1. CASE SyncDropped \/ SyncRaises \/ SessionLost
  BY <1>1 DEF SyncDropped, SyncRaises, SessionLost
<1>2. CASE SyncStarts
  <2>1. PICK c \in Call :
          /\ Computed(Starting(c), Resumed(Chosen(c)), Claimed(c), "running",
                      Chosen(c).ops)
          /\ Advance(Starting(c), Resumed(Chosen(c)), Claimed(c), "running",
                     Chosen(c).ops)
          /\ UNCHANGED <<available, remote, temps>>
    BY <1>2, StartsComputed
  <2>2. QED
    BY <2>1, AdvanceType
<1>3. CASE ConnectorReturns
  <2>1. PICK s \in sess, outcome \in Outcomes : ReturnsWith(s, outcome)
    BY <1>3 DEF ConnectorReturns, Answers
  <2>2. user'.pwd = user.pwd
    BY <2>1, ReturnsComputed, AdvanceType DEF ReturnsWith
  <2>3. QED
    BY <2>1, <2>2 DEF ReturnsWith
<1>4. QED
  BY <1>1, <1>2, <1>3 DEF Synchronize

LEMMA UserActionPromises ==
  ASSUME TypeOK, Login \/ ChangePassword \/ KeepPassword
  PROVE  Promising
<1>1. /\ user'.desired = user.desired /\ user'.pwd \in {user.pwd, user.pwd + 1}
      /\ UNCHANGED <<remote, temps>>
  BY UserActionKeeps
<1>2. CASE user'.pwd = user.pwd
  BY <1>1, <1>2, Stutters
<1>3. CASE user'.pwd = user.pwd + 1
  BY <1>1, <1>3 DEF Promising, Promise!Next, Promise!Choose
<1>4. QED
  BY <1>1, <1>2, <1>3

\* Every step.
LEMMA NextPromises ==
  ASSUME Promised, [Next]_vars
  PROVE  Promising
<1>0. TypeOK /\ StillWanted /\ Secrets
  BY DEF Promised, Secrets
<1>1. CASE Synchronize
  BY <1>0, <1>1, SynchronizeMoves, SynchronizeKeeps, Stutters, AnsweredPromises
<1>2. CASE Administer
  BY <1>0, <1>2, AdministerPromises
<1>3. CASE Login \/ ChangePassword \/ KeepPassword
  BY <1>0, <1>3, UserActionPromises
<1>4. CASE \/ WorkerExpires \/ WorkerScans \/ WorkerCalls \/ Restart
           \/ \E t \in Targets : ProbeChanges(t)
           \/ UNCHANGED vars
  BY <1>0, <1>4, WorkerKeeps, Stutters, AnsweredPromises
<1>5. QED
  BY <1>1, <1>2, <1>3, <1>4 DEF Next

LEMMA InitPromises ==
  ASSUME Init
  PROVE  Promise!Init
<1>1. CASE Created
  BY <1>1 DEF Created, NewUser, Absent, NoPwd, Promise!Init
<1>2. CASE Established
  <2>1. \A t \in Targets : remote[t] \in {[acct |-> "absent", pwd |-> 0],
                                          [acct |-> "enabled", pwd |-> 1]}
    BY <1>2 DEF Established, Absent, NoPwd
  <2>2. remote \in [Targets -> {[acct |-> "absent", pwd |-> 0],
                                [acct |-> "enabled", pwd |-> 1]}]
    BY <1>2, <2>1 DEF Established
  <2>3. QED
    BY <1>2, <2>2 DEF Established, NewUser, Promise!Init
<1>3. QED
  BY <1>1, <1>2 DEF Init

\* The synchronization engine implements AccountPromise, whatever is in flight
\* when the operator or the user decides, provided that a restore is accepted
\* only when no removal of the account is queued or running.
THEOREM PromiseKept == Spec /\ RestoredWhenDone => KeepsPromise
<1>1. Init => Promise!Init
  BY InitPromises
<1>2. Promised /\ [Next]_vars => [Promise!Next]_(Promise!vars)
  BY NextPromises DEF Promising
<1>3. QED
  BY <1>1, <1>2, PromisedHolds, PTL DEF Spec, KeepsPromise, Promise!Spec

\* Where no account is restored, the promise is kept outright.
THEOREM PromiseKeptUnrestored ==
  ASSUME "restore" \notin Requests
  PROVE  Spec => KeepsPromise
<1>1. Restores
  BY DEF Restores, RestoreUser
<1>2. Spec => RestoredWhenDone
  BY <1>1, PTL DEF Spec, RestoredWhenDone
<1>3. QED
  BY <1>2, PromiseKept
-----------------------------------------------------------------------------
(***************************************************************************)
(* Completed deletions.                                                    *)
(*                                                                         *)
(* A deletion is complete when every row of its operation counts as done.  *)
(* The rows of a session that is given one target, or that lacks one, may  *)
(* count a target as done that still holds the account; a session for the  *)
(* whole account calls every target it was ever selected for.  Retries and *)
(* scans ask for the first, probes take a target away.                     *)
(***************************************************************************)
Untargeted == Requests \cap {"retry", "scan", "probe"} = {}

\* What waits, or is to be called by the worker, is for the whole account, and
\* every connector is there.
WholeAccount ==
  /\ available = Targets
  /\ \A d \in worker.due : d.target = NoTarget
  /\ \A i \in 1..Len(calls) : calls[i].target = NoTarget

\* A target the account was never selected for does not hold it, and no
\* session calls it.
Unselected ==
  \A t \in Targets :
    rows[t].state = "not_assigned" =>
      /\ ~rows[t].assigned /\ remote[t].acct = "absent"
      /\ \A s \in sess : t \notin s.todo /\ t # s.at

\* The accounts m on the targets outside T are gone, or the operation of the
\* session does not count their rows r as done.
Accounted(s, r, T, m) ==
  \A t \in Targets \ T : m[t].acct = "absent" \/ t \in Owned(s, r) \ Done(s, r)

\* A session of a deletion calls for nothing else, and accounts for every
\* target it is not about to call.
Removing(s, m) ==
  /\ s.desired = "delete" /\ s.doing = "delete" /\ s.status = "running"
  /\ \A t \in s.todo \cup {s.at} : s.rows[t].op = s.op
  /\ Accounted(s, s.rows, s.todo \cup {s.at}, m)

Removes(s) == s.desired = "delete" => Removing(s, remote)

\* While the deletion is recorded, the targets do not hold the account, and no
\* session will create it again: it was started for a deletion, or has seen
\* that one is recorded.
Erases(s) == s.desired = "delete" \/ (s.user.deleted /\ s.doing = "delete")

Gone ==
  user.deleted =>
    /\ \A t \in Targets : remote[t].acct = "absent"
    /\ \A s \in sess : Erases(s)

Removal ==
  TypeOK /\ WholeAccount /\ Unselected /\ Gone /\ \A s \in sess : Removes(s)

\* Passing over no target changes no row; a session of a deletion passes over
\* none.
LEMMA DeletionPassesNone ==
  ASSUME NEW s, NEW u, NEW r \in [Targets -> TargetRow], s.desired = "delete"
  PROVE  Passed(s, u, r) = {} /\ Settle(s, u, r, {}) = r
BY DEF Passed, Unsupported, WaitsForPassword, OperationFor, Settle

LEMMA StartAttemptRemoves ==
  ASSUME TypeOK, NEW s, NEW u, NEW r, NEW o, NEW m,
         Computed(s, u, r, "running", o),
         s.desired = "delete", \A t \in s.todo : r[t].op = s.op,
         Accounted(s, r, s.todo, m),
         NEW t \in s.todo, StartAttempt(s, u, r, "running", o, {}, t)
  PROVE  \A s2 \in sess' : Removing(s2, m)
<1> DEFINE new == [r EXCEPT ![t].state = "pending", ![t].retry = FALSE]
           next == [s EXCEPT !.user = u, !.rows = new, !.status = "running",
                             !.todo = @ \ ({} \cup {t}), !.at = t,
                             !.doing = OperationFor(s, u, r[t])]
<1>1. /\ s \in SessionAt(Targets \cup {NoTarget}) /\ r \in [Targets -> TargetRow]
      /\ Settle(s, u, r, {}) = r
  BY DeletionPassesNone DEF Computed
<1>2. s.todo \subseteq Targets /\ t \in Targets
  BY <1>1 DEF SessionAt
<1>3. sess' = {next}
  BY <1>1 DEF StartAttempt
<1>4. /\ next.rows = new /\ next.at = t /\ next.desired = s.desired
      /\ next.op = s.op /\ next.status = "running" /\ next.todo = s.todo \ {t}
      /\ next.doing = "delete"
  BY <1>1 DEF SessionAt, OperationFor
<1> HIDE DEF next
<1>5. /\ \A x \in Targets : new[x].op = r[x].op
      /\ \A x \in Targets \ {t} : new[x] = r[x]
  BY <1>1, <1>2 DEF TargetRow
<1> HIDE DEF new
<1>6. next.todo \cup {next.at} = s.todo
  BY <1>4
<1>7. ASSUME NEW x \in Targets \ s.todo
      PROVE  m[x].acct = "absent" \/ x \in Owned(next, new) \ Done(next, new)
  <2>1. new[x] = r[x]
    BY <1>5, <1>7
  <2>2. CASE x \in Owned(s, r) \ Done(s, r)
    BY <1>4, <2>1, <2>2 DEF Owned, Done
  <2>3. QED
    BY <1>7, <2>2 DEF Accounted
<1>8. Accounted(next, new, s.todo, m)
  BY <1>7 DEF Accounted
<1>9. \A x \in s.todo : new[x].op = s.op
  BY <1>2, <1>5
<1>10. QED
  BY <1>3, <1>4, <1>6, <1>8, <1>9 DEF Removing

\* A deletion that ends is recorded only when the operation counts every target
\* as done.
LEMMA EndOperationRemoves ==
  ASSUME TypeOK, NEW s, NEW u, NEW r, NEW o, NEW m,
         Computed(s, u, r, "running", o),
         s.desired = "delete",
         Accounted(s, r, s.todo, m), s.todo = {},
         EndOperation(s, u, r, "running", o)
  PROVE  /\ sess' = {}
         /\ user'.deleted => user.deleted \/ \A t \in Targets : m[t].acct = "absent"
<1> DEFINE new     == Settle(s, u, r, s.todo)
           final   == FinalStatus(s, new, "running")
           done    == final \in TerminalStatus
           clean   == final = "succeeded"
           ended   == [u EXCEPT
                         !.active = IF done /\ @ = s.op THEN NoOp ELSE @,
                         !.secret = IF clean /\ s.desired # "delete"
                                             /\ Consumed(s, new)
                                    THEN NoPwd ELSE @]
           deletes == clean /\ s.desired = "delete"
<1>1. user' = FlushUser(user, s.user, ended, deletes) /\ sess' = {}
  BY DEF EndOperation
<1>2. new = r
  BY DeletionPassesNone DEF Computed
<1>3. deletes => Failures(s, r) = {} /\ Done(s, r) = Owned(s, r)
  BY <1>2 DEF FinalStatus
<1>4. deletes \in BOOLEAN
  OBVIOUS
<1> HIDE DEF ended, deletes
<1>5. user'.deleted = (user.deleted \/ deletes)
  BY <1>1 DEF FlushUser, TypeOK, UserRow
<1>6. deletes => \A t \in Targets : m[t].acct = "absent"
  BY <1>3 DEF Accounted
<1>7. QED
  BY <1>1, <1>5, <1>6

LEMMA AdvanceRemoves ==
  ASSUME TypeOK, NEW s, NEW u, NEW r, NEW o, NEW m,
         Computed(s, u, r, "running", o), Advance(s, u, r, "running", o),
         s.desired = "delete", \A t \in s.todo : r[t].op = s.op,
         Accounted(s, r, s.todo, m)
  PROVE  /\ user'.deleted => user.deleted \/ \A t \in Targets : m[t].acct = "absent"
         /\ \A s2 \in sess' : Removing(s2, m)
<1>1. Passed(s, u, r) = {}
  BY DeletionPassesNone DEF Computed
<1>2. CASE s.todo = {} /\ EndOperation(s, u, r, "running", o)
  BY <1>2, EndOperationRemoves
<1>3. ASSUME NEW t \in s.todo, StartAttempt(s, u, r, "running", o, {}, t)
      PROVE  /\ user'.deleted => user.deleted
             /\ \A s2 \in sess' : Removing(s2, m)
  <2>1. user'.deleted => user.deleted
    BY <1>3 DEF StartAttempt, FlushUser, TypeOK, UserRow
  <2>2. QED
    BY <1>3, <2>1, StartAttemptRemoves
<1>4. \/ s.todo = {} /\ EndOperation(s, u, r, "running", o)
      \/ \E t \in s.todo : StartAttempt(s, u, r, "running", o, {}, t)
  BY <1>1 DEF Advance
<1>5. QED
  BY <1>2, <1>3, <1>4

\* A commit makes no target unselected, and the session goes on to targets it
\* had in its list.
LEMMA AdvanceSelects ==
  ASSUME TypeOK, Unselected, NEW s, NEW u, NEW r, NEW st, NEW o,
         Computed(s, u, r, st, o), Advance(s, u, r, st, o),
         \A t \in Targets : r[t].state = "not_assigned" => s.rows[t].state = r[t].state,
         \A t \in Targets :
           rows[t].state = "not_assigned" =>
             t \notin s.todo /\ remote'[t].acct = "absent"
  PROVE  Unselected'
<1>1. /\ s \in SessionAt(Targets \cup {NoTarget}) /\ r \in [Targets -> TargetRow]
      /\ s.rows \in [Targets -> TargetRow] /\ s.todo \subseteq Targets
  BY DEF Computed, SessionAt
<1>2. PICK new \in [Targets -> TargetRow] :
        /\ rows' = [t \in Targets |-> FlushRow(rows[t], s.rows[t], new[t])]
        /\ \A t \in Targets : new[t].state \in {r[t].state, "unsupported", "pending"}
        /\ \A s2 \in sess' : s2.at \in s.todo /\ s2.todo \subseteq s.todo
  <2>1. CASE EndOperation(s, u, r, st, o)
    <3>1. /\ rows' = [t \in Targets |->
                        FlushRow(rows[t], s.rows[t], Settle(s, u, r, s.todo)[t])]
          /\ sess' = {}
      BY <2>1 DEF EndOperation
    <3>2. Settle(s, u, r, s.todo) \in [Targets -> TargetRow]
      BY <1>1, SettleType
    <3>3. \A t \in Targets : Settle(s, u, r, s.todo)[t].state
                               \in {r[t].state, "unsupported"}
      BY <1>1, SettleShows
    <3>4. QED
      BY <3>1, <3>2, <3>3
  <2>2. ASSUME NEW Q, NEW t \in s.todo, StartAttempt(s, u, r, st, o, Q, t)
        PROVE  \E new \in [Targets -> TargetRow] :
          /\ rows' = [x \in Targets |-> FlushRow(rows[x], s.rows[x], new[x])]
          /\ \A x \in Targets : new[x].state \in {r[x].state, "unsupported", "pending"}
          /\ \A s2 \in sess' : s2.at \in s.todo /\ s2.todo \subseteq s.todo
    <3> DEFINE settled == Settle(s, u, r, Q)
               new == [settled EXCEPT ![t].state = "pending", ![t].retry = FALSE]
               next == [s EXCEPT !.user = u, !.rows = new, !.status = st,
                                 !.todo = @ \ (Q \cup {t}), !.at = t,
                                 !.doing = OperationFor(s, u, r[t])]
    <3>1. /\ rows' = [x \in Targets |-> FlushRow(rows[x], s.rows[x], new[x])]
          /\ sess' = {next}
      BY <2>2 DEF StartAttempt
    <3>2. next.at = t /\ next.todo \subseteq s.todo
      BY <1>1 DEF SessionAt
    <3>3. /\ settled \in [Targets -> TargetRow]
          /\ \A x \in Targets : settled[x].state \in {r[x].state, "unsupported"}
      BY <1>1, SettleType, SettleShows
    <3> HIDE DEF next, settled
    <3>7. Attempted(settled, t, new)
      BY DEF Attempted
    <3> HIDE DEF new
    <3>4. /\ new \in [Targets -> TargetRow] /\ new[t].state = "pending"
          /\ \A x \in Targets : x # t => new[x] = settled[x]
      <4>1. t \in Targets /\ settled \in [Targets -> TargetRow]
        BY <1>1, <2>2, <3>3
      <4>2. QED
        BY ONLY <4>1, <3>7, AttemptRow
    <3>5. \A x \in Targets : new[x].state \in {r[x].state, "unsupported", "pending"}
      BY <3>3, <3>4
    <3>6. QED
      BY <3>1, <3>2, <3>4, <3>5
  <2>3. QED
    BY <2>1, <2>2 DEF Advance
<1>3. ASSUME NEW t \in Targets, rows'[t].state = "not_assigned"
      PROVE  rows[t].state = "not_assigned" /\ rows'[t].assigned = rows[t].assigned
  <2>1. rows[t] \in TargetRow /\ s.rows[t] \in TargetRow /\ new[t] \in TargetRow
    BY <1>1, <1>2, <1>3 DEF TypeOK
  <2>2. /\ rows'[t].state = Dirty(rows[t].state, s.rows[t].state, new[t].state)
        /\ rows'[t].assigned = rows[t].assigned
    BY <1>2, <1>3, <2>1 DEF FlushRow, TargetRow
  <2>3. new[t].state = "not_assigned" => s.rows[t].state = new[t].state
    BY <1>2, <1>3
  <2>4. QED
    BY <1>3, <2>2, <2>3 DEF Dirty
<1>4. QED
  BY <1>2, <1>3 DEF Unselected

\* Only a call in flight that ensures the account makes it appear on a target.
LEMMA AnsweredAppears ==
  ASSUME TypeOK, NEW s \in sess, NEW outcome, NEW t \in Targets,
         remote[t].acct = "absent", t # s.at \/ s.doing # "ensure"
  PROVE  Answered(s, outcome)[t].acct = "absent"
<1>1. s \in SessionAt(Targets) /\ remote \in [Targets -> Account] /\ s.at \in Targets
  BY AnsweredType DEF TypeOK
<1>2. s.doing \in ConnectorOperation
  BY <1>1 DEF SessionAt
<1>3. CASE t # s.at
  BY <1>3, AnsweredElsewhere
<1>4. CASE t = s.at /\ s.doing # "ensure"
  <2>1. Effect(s.doing, remote[t], s.user.secret).acct = "absent"
    BY <1>2, <1>4 DEF Effect, ConnectorOperation
  <2>2. Answered(s, outcome)[t] \in {remote[t], Effect(s.doing, remote[t], s.user.secret)}
    BY <1>1, <1>4 DEF Answered
  <2>3. QED
    BY <2>1, <2>2
<1>5. QED
  BY <1>3, <1>4

\* A successful deletion leaves nothing on the target.
LEMMA AnsweredRemoved ==
  ASSUME TypeOK, NEW s \in sess, NEW outcome \in {"ok", "lost"}, s.doing = "delete"
  PROVE  Answered(s, outcome)[s.at].acct = "absent"
<1>1. remote \in [Targets -> Account] /\ s.at \in Targets
  BY AnsweredType DEF TypeOK
<1>2. Answered(s, outcome)[s.at] = Effect(s.doing, remote[s.at], s.user.secret)
  BY <1>1 DEF Answered
<1>3. QED
  BY <1>2 DEF Effect

\* A synchronization that starts.
LEMMA StartsRemoves ==
  ASSUME Removal, SyncStarts
  PROVE  Unselected' /\ Gone' /\ \A s \in sess' : Removes(s)'
<1>1. /\ TypeOK /\ WholeAccount /\ Unselected /\ Gone
      /\ calls \in Seq(Call) /\ user \in UserRow /\ rows \in [Targets -> TargetRow]
  BY DEF Removal, TypeOK
<1>2. PICK c \in Call :
        /\ c = Head(calls)
        /\ Computed(Starting(c), Resumed(Chosen(c)), Claimed(c), "running",
                    Chosen(c).ops)
        /\ Advance(Starting(c), Resumed(Chosen(c)), Claimed(c), "running",
                   Chosen(c).ops)
        /\ calls' = Tail(calls) /\ remote' = remote
  BY <1>1, StartsComputed
<1> DEFINE s == Starting(c)
           r == Claimed(c)
<1>3. /\ s.rows = rows /\ s.desired = DesiredOf(c) /\ s.op = Chosen(c).op
      /\ s.todo = Scope(c) \cap available /\ s.user = user
  BY DEF Starting
<1>4. ASSUME NEW t \in Targets
      PROVE  /\ r[t].state = rows[t].state /\ r[t].assigned = rows[t].assigned
             /\ r[t].op = IF t \in Scope(c) THEN Chosen(c).op ELSE rows[t].op
  BY <1>1, <1>4 DEF Claimed, TargetRow
<1>5. Scope(c) \subseteq Targets
  BY DEF Scope
<1> HIDE DEF s, r
<1>6. c.target = NoTarget
  <2>1. calls # <<>>
    BY DEF SyncStarts, LockFree
  <2>2. Head(calls) = calls[1] /\ Len(calls) \in Nat /\ 1 \in 1..Len(calls)
    BY <1>1, <2>1, EmptySeq, LenProperties
  <2>3. QED
    BY <1>1, <1>2, <2>2 DEF WholeAccount
<1>7. Unselected'
  <2>1. ASSUME NEW t \in Targets, rows[t].state = "not_assigned"
        PROVE  t \notin s.todo /\ remote'[t].acct = "absent"
    <3>1. ~rows[t].assigned /\ remote[t].acct = "absent"
      BY <1>1, <2>1 DEF Unselected
    <3>2. t \notin Scope(c)
      BY <2>1, <3>1 DEF Scope
    <3>3. QED
      BY <1>2, <1>3, <3>1, <3>2
  <2>2. QED
    BY <1>1, <1>2, <1>3, <1>4, <2>1, AdvanceSelects DEF s, r
<1>8. CASE s.desired = "delete"
  <2>1. \A t \in s.todo : r[t].op = s.op
    BY <1>3, <1>4, <1>5
  <2>2. ASSUME NEW t \in Targets \ s.todo
        PROVE  remote[t].acct = "absent"
    <3>1. t \notin Scope(c)
      BY <1>1, <1>3, <2>2 DEF WholeAccount
    <3>2. rows[t].state = "not_assigned"
      BY <1>3, <1>6, <1>8, <2>2, <3>1 DEF Scope
    <3>3. QED
      BY <1>1, <2>2, <3>2 DEF Unselected
  <2>3. Accounted(s, r, s.todo, remote')
    BY <1>2, <2>2 DEF Accounted
  <2>4. /\ user'.deleted => user.deleted \/ \A t \in Targets : remote'[t].acct = "absent"
        /\ \A s2 \in sess' : Removing(s2, remote')
    BY <1>1, <1>2, <1>8, <2>1, <2>3, AdvanceRemoves DEF s, r
  <2>5. \A s2 \in sess' : Removes(s2)'
    BY <2>4 DEF Removes, Removing, Accounted
  <2>6. Gone'
    BY <1>1, <1>2, <2>4 DEF Gone, Removing, Erases
  <2>7. QED
    BY <1>7, <2>5, <2>6
<1>9. CASE s.desired # "delete"
  <2> DEFINE u == Resumed(Chosen(c))
  <2>1. u.deleted = user.deleted
    BY <1>1, ResumedWish
  <2> HIDE DEF u
  <2>2. /\ user'.deleted => user.deleted
        /\ \A s2 \in sess' :
             /\ s2.desired = s.desired /\ s2.user = u
             /\ u.deleted => s2.doing = "delete"
    BY <1>1, <1>2, <1>9, AdvanceWish DEF s, r, u
  <2>3. \A s2 \in sess' : user'.deleted => Erases(s2)
    BY <2>1, <2>2 DEF Erases
  <2>4. Gone'
    BY <1>1, <1>2, <2>2, <2>3 DEF Gone, Erases
  <2>5. QED
    BY <1>7, <1>9, <2>2, <2>4 DEF Removes
<1>10. QED
  BY <1>8, <1>9

\* The answer of a connector.
LEMMA ReturnsRemoves ==
  ASSUME Removal, NEW s \in sess, NEW outcome, ReturnsWith(s, outcome)
  PROVE  Unselected' /\ Gone' /\ \A s2 \in sess' : Removes(s2)'
<1> DEFINE r == [s.rows EXCEPT ![s.at] = RowAfter(s, @, outcome)]
<1>1. TypeOK /\ Unselected /\ Gone /\ Removes(s)
  BY DEF Removal
<1>2. /\ Computed(s, s.user, r, s.status, ops)
      /\ Advance(s, s.user, r, s.status, ops)
      /\ remote' = Answered(s, outcome) /\ calls' = calls
  BY <1>1, ReturnsComputed DEF ReturnsWith
<1>3. /\ s \in SessionAt(Targets) /\ s.at \in Targets
      /\ s.rows \in [Targets -> TargetRow] /\ s.todo \subseteq Targets
  BY <1>1, AnsweredType DEF SessionAt
<1>4. \A t \in Targets \ {s.at} : r[t] = s.rows[t]
  BY <1>3
<1>5. r[s.at] = RowAfter(s, s.rows[s.at], outcome) /\ s.rows[s.at] \in TargetRow
  BY <1>3
<1> HIDE DEF r
<1>6. /\ r[s.at].op = s.rows[s.at].op
      /\ r[s.at].state # "not_assigned"
      /\ outcome \notin {"ok", "lost"} => r[s.at].state \in {"unsupported", "failed"}
  <2>1. CASE outcome = "ok"
    BY <1>5, <2>1 DEF RowAfter, TargetRow, StateAfterSuccess
  <2>2. CASE outcome = "invalid"
    BY <1>5, <2>2 DEF RowAfter, TargetRow
  <2>3. CASE outcome \notin {"ok", "invalid"}
    BY <1>5, <2>3 DEF RowAfter, TargetRow
  <2>4. QED
    BY <2>1, <2>2, <2>3
<1>8. Unselected'
  <2>1. ASSUME NEW t \in Targets, rows[t].state = "not_assigned"
        PROVE  t \notin s.todo /\ remote'[t].acct = "absent"
    <3>1. t \notin s.todo /\ t # s.at /\ remote[t].acct = "absent"
      BY <1>1, <2>1 DEF Unselected
    <3>2. QED
      BY <1>1, <1>2, <3>1, AnsweredAppears
  <2>2. \A t \in Targets : r[t].state = "not_assigned" => s.rows[t].state = r[t].state
    BY <1>4, <1>6
  <2>3. QED
    BY <1>1, <1>2, <2>1, <2>2, AdvanceSelects
<1>9. CASE s.desired = "delete"
  <2>1. /\ s.doing = "delete" /\ s.status = "running"
        /\ \A t \in s.todo \cup {s.at} : s.rows[t].op = s.op
        /\ Accounted(s, s.rows, s.todo \cup {s.at}, remote)
    BY <1>1, <1>9 DEF Removes, Removing
  <2>2. \A t \in s.todo : r[t].op = s.op
    BY <1>3, <1>4, <1>6, <2>1
  <2>3. ASSUME NEW t \in Targets \ s.todo
        PROVE  remote'[t].acct = "absent" \/ t \in Owned(s, r) \ Done(s, r)
    <3>1. CASE t # s.at
      <4>1. CASE remote[t].acct = "absent"
        BY <1>1, <1>2, <2>3, <3>1, <4>1, AnsweredAppears
      <4>2. CASE t \in Owned(s, s.rows) \ Done(s, s.rows)
        BY <1>4, <3>1, <4>2 DEF Owned, Done
      <4>3. QED
        BY <2>1, <2>3, <3>1, <4>1, <4>2 DEF Accounted
    <3>2. CASE t = s.at /\ outcome \in {"ok", "lost"}
      BY <1>1, <1>2, <2>1, <3>2, AnsweredRemoved
    <3>3. CASE t = s.at /\ outcome \notin {"ok", "lost"}
      <4>1. r[t].op = s.op /\ r[t].state \in {"unsupported", "failed"}
        BY <1>6, <2>1, <3>3
      <4>2. ~SyncStateTerminal(r[t].state, s.desired, r[t].assigned, FALSE)
        BY <1>9, <4>1 DEF SyncStateTerminal, Normalise
      <4>3. QED
        BY <2>3, <4>1, <4>2 DEF Owned, Done
    <3>4. QED
      BY <3>1, <3>2, <3>3
  <2>4. Accounted(s, r, s.todo, remote')
    BY <2>3 DEF Accounted
  <2>5. /\ user'.deleted => user.deleted \/ \A t \in Targets : remote'[t].acct = "absent"
        /\ \A s2 \in sess' : Removing(s2, remote')
    <3>1. /\ Computed(s, s.user, r, "running", ops)
          /\ Advance(s, s.user, r, "running", ops)
      BY <1>2, <2>1
    <3>2. QED
      BY <1>1, <1>9, <2>2, <2>4, <3>1, AdvanceRemoves
  <2>6. \A s2 \in sess' : Removes(s2)'
    BY <2>5 DEF Removes, Removing, Accounted
  <2>7. user.deleted => \A t \in Targets : remote'[t].acct = "absent"
    BY <1>1, <1>2, <2>1, AnsweredAppears DEF Gone
  <2>8. Gone'
    BY <2>5, <2>7 DEF Gone, Removing, Erases
  <2>9. QED
    BY <1>8, <2>6, <2>8
<1>10. CASE s.desired # "delete"
  <2>1. /\ user'.deleted => user.deleted
        /\ \A s2 \in sess' :
             /\ s2.desired = s.desired /\ s2.user = s.user
             /\ s.user.deleted => s2.doing = "delete"
    BY <1>1, <1>2, <1>10, AdvanceWish
  <2>2. ASSUME user.deleted
        PROVE  /\ s.user.deleted
               /\ \A t \in Targets : remote'[t].acct = "absent"
    <3>1. /\ s.user.deleted /\ s.doing = "delete"
          /\ \A t \in Targets : remote[t].acct = "absent"
      BY <1>1, <1>10, <2>2 DEF Gone, Erases
    <3>2. QED
      BY <1>1, <1>2, <3>1, AnsweredAppears
  <2>3. \A s2 \in sess' : user'.deleted => Erases(s2)
    BY <2>1, <2>2 DEF Erases
  <2>4. Gone'
    BY <2>1, <2>2, <2>3 DEF Gone, Erases
  <2>5. QED
    BY <1>8, <1>10, <2>1, <2>4 DEF Removes
<1>11. QED
  BY <1>9, <1>10

\* Without retries, scans and probes, every call is for the whole account.
LEMMA AppendsWhole ==
  ASSUME calls \in Seq(Call), \A i \in 1..Len(calls) : calls[i].target = NoTarget,
         NEW action \in {"delete", "stored"},
         NEW actor \in {"system", "verified-login", "password-expiry"},
         NEW op \in Nat, NEW by \in {"task", "worker"},
         calls' = Append(calls, [action |-> action, target |-> NoTarget,
                                 actor |-> actor, op |-> op, by |-> by])
  PROVE  \A i \in 1..Len(calls') : calls'[i].target = NoTarget
<1> DEFINE c == [action |-> action, target |-> NoTarget, actor |-> actor,
                 op |-> op, by |-> by]
<1>1. c \in Call /\ c.target = NoTarget
  BY DEF Call, Desired
<1> HIDE DEF c
<1>2. /\ Len(calls) \in Nat /\ Len(calls') = Len(calls) + 1
      /\ \A i \in 1..Len(calls) : calls'[i] = calls[i]
      /\ calls'[Len(calls) + 1] = c
  BY <1>1, AppendProperties, LenProperties DEF c
<1>3. QED
  BY <1>1, <1>2

LEMMA WaitsWhole ==
  ASSUME TypeOK, WholeAccount, Untargeted, Next
  PROVE  \A i \in 1..Len(calls') : calls'[i].target = NoTarget
<1>1. /\ user \in UserRow /\ ops \in Seq(Operation) /\ calls \in Seq(Call)
      /\ worker \in Worker
      /\ \A i \in 1..Len(calls) : calls[i].target = NoTarget
  BY DEF TypeOK, WholeAccount
<1>2. \A cmd \in {"update", "delete", "restore"} : Request(cmd, user, ops).op \in Nat
  BY <1>1, RequestType DEF Command
<1>3. CASE UpdateUser
  BY <1>1, <1>2, <1>3, AppendsWhole DEF UpdateUser, Enqueue
<1>4. CASE ResetPassword
  BY <1>1, <1>2, <1>4, AppendsWhole DEF ResetPassword, Enqueue
<1>5. CASE DeleteUser
  BY <1>1, <1>2, <1>5, AppendsWhole DEF DeleteUser, Enqueue
<1>6. CASE RestoreUser
  BY <1>1, <1>2, <1>6, AppendsWhole DEF RestoreUser, Enqueue
<1>7. CASE \E t \in Targets : RetryTarget(t)
  BY <1>7 DEF RetryTarget, Untargeted
<1>8. CASE Login \/ ChangePassword \/ KeepPassword
  <2>1. \/ calls' = calls
        \/ Enqueue("stored", NoTarget, "verified-login", NoOp, "task")
    BY <1>8 DEF Login, ChangePassword, KeepPassword, CredentialHandoff
  <2>2. QED
    BY <1>1, <2>1, AppendsWhole DEF Enqueue, NoOp
<1>9. CASE WorkerCalls
  <2>1. PICK d \in worker.due :
          calls' = Append(calls,
            [action |-> "stored", target |-> d.target,
             actor |-> IF d.target = NoTarget THEN "password-expiry" ELSE "system",
             op |-> d.op, by |-> "worker"])
    BY <1>9 DEF WorkerCalls
  <2>2. d.target = NoTarget /\ d.op \in Nat
    BY <1>1 DEF Worker, WholeAccount
  <2>3. calls' = Append(calls, [action |-> "stored", target |-> NoTarget,
                                actor |-> "password-expiry", op |-> d.op,
                                by |-> "worker"])
    BY <2>1, <2>2
  <2>4. QED
    BY <1>1, <2>2, <2>3, AppendsWhole
<1>10. CASE SyncDropped \/ SyncRaises \/ SyncStarts
  <2>1. calls # <<>> /\ calls' = Tail(calls)
    BY <1>10 DEF SyncDropped, SyncRaises, SyncStarts, LockFree
  <2>2. /\ Len(calls) \in Nat /\ Len(Tail(calls)) = Len(calls) - 1
        /\ \A i \in 1..Len(Tail(calls)) : Tail(calls)[i] = calls[i + 1]
    BY <1>1, <2>1, HeadTailProperties, EmptySeq, LenProperties
  <2>3. QED
    BY <1>1, <2>1, <2>2
<1>11. CASE Restart
  <2>1. calls' = <<>>
    BY <1>11 DEF Restart
  <2>2. QED
    BY <2>1, EmptySeq
<1>12. CASE calls' = calls
  BY <1>1, <1>12
<1>13. CASE ConnectorReturns
  BY <1>12, <1>13 DEF ConnectorReturns, ReturnsWith
<1>14. QED
  BY <1>3, <1>4, <1>5, <1>6, <1>7, <1>8, <1>9, <1>10, <1>11, <1>12, <1>13
  DEF Next, Synchronize, Administer, PurgeUser, SessionLost, WorkerExpires,
      WorkerScans, ScanFinds, ProbeChanges

\* A session leaves the worker's list alone.
LEMMA AdvanceDue ==
  ASSUME TypeOK, NEW s, NEW u, NEW r, NEW st, NEW o, Advance(s, u, r, st, o)
  PROVE  worker'.due = worker.due
<1>1. worker' = worker \/ Release(s.by)
  BY DEF Advance, StartAttempt, EndOperation
<1>2. QED
  BY <1>1 DEF Release, TypeOK, Worker

LEMMA NextWhole ==
  ASSUME TypeOK, WholeAccount, Untargeted, [Next]_vars
  PROVE  WholeAccount'
<1>1. CASE UNCHANGED vars
  BY <1>1 DEF vars, WholeAccount
<1>2. CASE Next
  <2>1. worker \in Worker
    BY DEF TypeOK
  <2>2. CASE SyncStarts
    <3>1. worker'.due = worker.due
      BY <2>2, StartsComputed, AdvanceDue
    <3>2. QED
      BY <1>2, <2>2, <3>1, WaitsWhole DEF SyncStarts, WholeAccount
  <2>3. CASE ConnectorReturns
    <3>1. worker'.due = worker.due /\ available' = available
      BY <2>3, AdvanceDue DEF ConnectorReturns, ReturnsWith
    <3>2. QED
      BY <1>2, <3>1, WaitsWhole DEF WholeAccount
  <2>4. CASE \/ SyncDropped \/ SyncRaises \/ SessionLost \/ Administer
             \/ Login \/ ChangePassword \/ KeepPassword
             \/ WorkerCalls \/ Restart
    <3>1. available' = available
      BY <2>4
      DEF SyncDropped, SyncRaises, SessionLost, Administer, UpdateUser,
          ResetPassword, DeleteUser, RestoreUser, PurgeUser, RetryTarget, Login,
          ChangePassword, KeepPassword, WorkerCalls, Restart
    <3>2. /\ IdleWorker.due = {}
          /\ [worker EXCEPT !.alive = FALSE, !.waiting = FALSE].due = worker.due
      BY <2>1 DEF Worker, IdleWorker
    <3>3. worker'.due \subseteq worker.due
      <4>1. CASE SyncDropped
        <5>1. Release(Head(calls).by)
          BY <4>1 DEF SyncDropped
        <5>2. QED
          BY <2>1, <5>1 DEF Release, Worker
      <4>2. CASE SyncRaises \/ SessionLost
        <5>1. worker' \in {worker, [worker EXCEPT !.alive = FALSE, !.waiting = FALSE]}
          BY <4>2 DEF SyncRaises, SessionLost
        <5>2. QED
          BY <3>2, <5>1
      <4>3. CASE WorkerCalls
        <5>1. PICK d \in worker.due :
                worker' = [worker EXCEPT !.due = @ \ {d}, !.waiting = TRUE]
          BY <4>3 DEF WorkerCalls
        <5>2. worker'.due = worker.due \ {d}
          BY <2>1, <5>1 DEF Worker
        <5>3. QED
          BY <5>2
      <4>4. CASE Restart
        BY <3>2, <4>4 DEF Restart
      <4>5. CASE Administer \/ Login \/ ChangePassword \/ KeepPassword
        BY <4>5
        DEF Administer, UpdateUser, ResetPassword, DeleteUser, RestoreUser,
            PurgeUser, RetryTarget, Login, ChangePassword, KeepPassword
      <4>6. QED
        BY <2>4, <4>1, <4>2, <4>3, <4>4, <4>5
    <3>4. QED
      BY <1>2, <3>1, <3>3, WaitsWhole DEF WholeAccount
  <2>5. CASE WorkerExpires
    <3>1. /\ available' = available
          /\ worker' = [worker EXCEPT !.due = {[target |-> NoTarget, op |-> NoOp]}]
      BY <2>5 DEF WorkerExpires
    <3>2. worker'.due = {[target |-> NoTarget, op |-> NoOp]}
      BY <2>1, <3>1 DEF Worker
    <3>3. QED
      BY <1>2, <3>1, <3>2, WaitsWhole DEF WholeAccount
  <2>6. CASE WorkerScans \/ \E t \in Targets : ProbeChanges(t)
    BY <2>6 DEF WorkerScans, ScanFinds, ProbeChanges, Untargeted
  <2>7. QED
    BY <1>2, <2>2, <2>3, <2>4, <2>5, <2>6 DEF Next, Synchronize
<1>3. QED
  BY <1>1, <1>2

\* What everything outside the session leaves of a deletion: it unselects no
\* target, opens no session and records no deletion, and a call in flight when
\* it ends a session may still take effect.
Spares ==
  /\ \A t \in Targets :
       rows'[t].state = "not_assigned" =>
         rows[t].state = "not_assigned" /\ rows'[t].assigned = rows[t].assigned
  /\ sess' \subseteq sess
  /\ \/ remote' = remote
     \/ sess' = {} /\ \E s \in sess : \E outcome : remote' = Answered(s, outcome)
  /\ user'.deleted => user.deleted

LEMMA SparesRemoval ==
  ASSUME Removal, Spares
  PROVE  Unselected' /\ Gone' /\ \A s \in sess' : Removes(s)'
<1>1. /\ TypeOK /\ Unselected /\ Gone /\ \A s \in sess : Removes(s)
  BY DEF Removal
<1>2. CASE remote' = remote
  BY <1>1, <1>2 DEF Spares, Unselected, Gone, Erases, Removes, Removing, Accounted
<1>3. ASSUME NEW s \in sess, NEW outcome, sess' = {}, remote' = Answered(s, outcome)
      PROVE  Unselected' /\ Gone'
  <2>1. ASSUME NEW t \in Targets, rows[t].state = "not_assigned"
        PROVE  remote'[t].acct = "absent"
    <3>1. remote[t].acct = "absent" /\ t # s.at
      BY <1>1, <2>1 DEF Unselected
    <3>2. QED
      BY <1>1, <1>3, <3>1, AnsweredAppears
  <2>2. ASSUME user.deleted, NEW t \in Targets
        PROVE  remote'[t].acct = "absent"
    <3>1. remote[t].acct = "absent" /\ Erases(s)
      BY <1>1, <2>2 DEF Gone
    <3>2. s.doing # "ensure"
      BY <1>1, <3>1 DEF Erases, Removes, Removing
    <3>3. QED
      BY <1>1, <1>3, <3>1, <3>2, AnsweredAppears
  <2>3. QED
    BY <1>1, <1>3, <2>1, <2>2 DEF Spares, Unselected, Gone
<1>4. QED
  BY <1>2, <1>3 DEF Spares

\* _set_pending unselects no target.
LEMMA SetPendingSelects ==
  ASSUME TypeOK, NEW selected, NEW requireChange, NEW remoteAbsent,
         SetPending(selected, requireChange, remoteAbsent)
  PROVE  \A t \in Targets : rows'[t].state = "not_assigned" => rows'[t] = rows[t]
BY DEF SetPending, TypeOK, TargetRow

LEMMA AdministerSpares ==
  ASSUME TypeOK, Administer
  PROVE  Spares
<1>1. user \in UserRow /\ ops \in Seq(Operation)
  BY DEF TypeOK
<1>2. \A cmd \in {"update", "delete", "restore"} :
        /\ Request(cmd, user, ops).user \in UserRow
        /\ Request(cmd, user, ops).user.deleted = user.deleted
  BY <1>1, RequestType, RequestWish DEF Command
<1>3. sess' = sess /\ remote' = remote
  BY DEF Administer, UpdateUser, ResetPassword, DeleteUser, RestoreUser,
         PurgeUser, RetryTarget
<1>4. \/ rows' = rows
      \/ \E selected, requireChange, remoteAbsent :
           SetPending(selected, requireChange, remoteAbsent)
  <2>1. CASE UpdateUser
    BY <2>1 DEF UpdateUser
  <2>2. CASE ResetPassword
    BY <2>2 DEF ResetPassword
  <2>3. CASE DeleteUser
    BY <2>3 DEF DeleteUser
  <2>4. CASE RestoreUser
    BY <2>4 DEF RestoreUser
  <2>5. CASE PurgeUser \/ \E t \in Targets : RetryTarget(t)
    BY <2>5 DEF PurgeUser, RetryTarget
  <2>6. QED
    BY <2>1, <2>2, <2>3, <2>4, <2>5 DEF Administer
<1>5. \A t \in Targets : rows'[t].state = "not_assigned" => rows'[t] = rows[t]
  BY <1>4, SetPendingSelects
<1>6. user'.deleted => user.deleted
  <2>1. CASE UpdateUser
    BY <1>2, <2>1 DEF UpdateUser, UserRow
  <2>2. CASE ResetPassword
    BY <1>2, <2>2 DEF ResetPassword, UserRow
  <2>3. CASE DeleteUser
    BY <1>2, <2>3 DEF DeleteUser, UserRow
  <2>4. CASE RestoreUser
    BY <1>2, <2>4 DEF RestoreUser, UserRow
  <2>5. CASE PurgeUser \/ \E t \in Targets : RetryTarget(t)
    BY <1>1, <2>5 DEF PurgeUser, RetryTarget, UserRow
  <2>6. QED
    BY <2>1, <2>2, <2>3, <2>4, <2>5 DEF Administer
<1>7. QED
  BY <1>3, <1>5, <1>6 DEF Spares

LEMMA OthersSpare ==
  ASSUME TypeOK,
         \/ Login \/ ChangePassword \/ KeepPassword
         \/ WorkerExpires \/ WorkerScans \/ WorkerCalls \/ Restart
         \/ SyncDropped \/ SyncRaises \/ SessionLost
         \/ \E t \in Targets : ProbeChanges(t)
  PROVE  Spares
<1>1. ASSUME NEW t \in Targets, rows'[t].state = "not_assigned"
      PROVE  rows'[t] = rows[t]
  <2>1. rows[t] \in TargetRow
    BY <1>1 DEF TypeOK
  <2>2. \/ rows'[t] = rows[t]
        \/ rows'[t] = [rows[t] EXCEPT !.state = "pending"]
        \/ rows'[t] = [rows[t] EXCEPT !.state = "pending_expiry_disable",
                                      !.retry = FALSE]
        \/ rows'[t] = [rows[t] EXCEPT !.state = "chpw", !.retry = FALSE]
    <3>1. CASE Login \/ ChangePassword \/ KeepPassword
      BY <1>1, <3>1 DEF Login, ChangePassword, KeepPassword, CredentialHandoff
    <3>2. CASE WorkerExpires
      BY <1>1, <3>2 DEF WorkerExpires
    <3>3. CASE Restart
      BY <1>1, <3>3 DEF Restart
    <3>4. CASE rows' = rows
      BY <3>4
    <3>5. QED
      BY <3>1, <3>2, <3>3, <3>4
      DEF WorkerScans, ScanFinds, WorkerCalls, SyncDropped, SyncRaises,
          SessionLost, ProbeChanges
  <2>3. QED
    BY <1>1, <2>1, <2>2 DEF TargetRow
<1>2. user'.deleted => user.deleted
  <2>1. CASE Login \/ ChangePassword \/ KeepPassword
    BY <2>1, UserActionKeeps
  <2>2. CASE SyncDropped \/ SyncRaises \/ SessionLost
    BY <2>2 DEF SyncDropped, SyncRaises, SessionLost
  <2>3. CASE \/ WorkerExpires \/ WorkerScans \/ WorkerCalls \/ Restart
             \/ \E t \in Targets : ProbeChanges(t)
    BY <2>3, WorkerKeeps
  <2>4. QED
    BY <2>1, <2>2, <2>3
<1>3. /\ sess' \subseteq sess
      /\ \/ remote' = remote
         \/ sess' = {} /\ \E s \in sess : \E outcome : remote' = Answered(s, outcome)
  BY DEF Login, ChangePassword, KeepPassword, WorkerExpires, WorkerScans,
         ScanFinds, WorkerCalls, Restart, SyncDropped, SyncRaises, SessionLost,
         ProbeChanges
<1>4. QED
  BY <1>1, <1>2, <1>3 DEF Spares

\* Every step.
LEMMA NextRemoves ==
  ASSUME Removal, Untargeted, [Next]_vars
  PROVE  WholeAccount' /\ Unselected' /\ Gone' /\ \A s \in sess' : Removes(s)'
<1>1. TypeOK /\ WholeAccount /\ WholeAccount'
  BY NextWhole DEF Removal
<1>2. CASE UNCHANGED vars
  BY <1>1, <1>2 DEF vars, Removal, Unselected, Gone, Erases, Removes, Removing,
                    Accounted
<1>3. CASE SyncStarts
  BY <1>1, <1>3, StartsRemoves
<1>4. CASE ConnectorReturns
  BY <1>1, <1>4, ReturnsRemoves DEF ConnectorReturns
<1>5. CASE Next /\ ~SyncStarts /\ ~ConnectorReturns
  <2>1. Spares
    BY <1>1, <1>5, AdministerSpares, OthersSpare DEF Next, Synchronize
  <2>2. QED
    BY <1>1, <2>1, SparesRemoval
<1>6. QED
  BY <1>2, <1>3, <1>4, <1>5

LEMMA InitRemoves ==
  ASSUME Init
  PROVE  WholeAccount /\ Unselected /\ Gone /\ \A s \in sess : Removes(s)
<1>1. sess = {}
  BY DEF Init
<1>2. Gone
  BY DEF Init, Created, Established, NewUser, Gone
<1>3. Unselected
  <2>1. ASSUME NEW t \in Targets, rows[t].state = "not_assigned"
        PROVE  ~rows[t].assigned /\ remote[t].acct = "absent"
    <3>1. PICK selected \in SUBSET Targets :
            /\ \E state \in {"chpw", "ok"} : rows[t] = RowIn(selected, t, state)
            /\ t \notin selected => remote[t] = Absent
      BY <2>1 DEF Init, Created, Established
    <3>2. t \notin selected
      BY <2>1, <3>1 DEF RowIn
    <3> DEFINE chosen == t \in selected
    <3>3. /\ ~chosen
          /\ \E state : rows[t] = [state |-> state, assigned |-> chosen,
                                  op |-> NoOp, retry |-> FALSE]
      BY <3>1, <3>2, Zenon DEF RowIn
    <3> HIDE DEF chosen
    <3>4. ~rows[t].assigned
      BY <3>3
    <3>5. QED
      BY <3>1, <3>2, <3>4 DEF Absent
  <2>2. QED
    BY <1>1, <2>1 DEF Unselected
<1>4. WholeAccount
  <2>1. available = Targets /\ worker.due = {}
    BY DEF Init, IdleWorker
  <2>2. CASE Created
    <3>1. calls = <<[action |-> "stored", target |-> NoTarget,
                     actor |-> "system", op |-> 1, by |-> "task"]>>
      BY <2>2 DEF Created
    <3>2. QED
      BY <2>1, <3>1 DEF WholeAccount
  <2>3. CASE Established
    BY <2>1, <2>3, EmptySeq DEF Established, WholeAccount
  <2>4. QED
    BY <2>2, <2>3 DEF Init
<1>5. QED
  BY <1>1, <1>2, <1>3, <1>4

\* A completed deletion means that no target holds the account, for any targets,
\* connectors and bounds, and any edits, resets, sign-ins, password choices,
\* expiries, deletions, restores, purges and restarts, whatever is in flight
\* when one of them comes.  Retries of a single target and revoked credentials
\* are left out: with either, the code breaks it.
THEOREM DeletionIsGone ==
  ASSUME Untargeted
  PROVE  Spec => []DeletedMeansGone
<1>1. Init => WholeAccount /\ Unselected /\ Gone /\ \A s \in sess : Removes(s)
  BY InitRemoves
<1>2. Removal /\ TypeOK' /\ [Next]_vars => Removal'
  BY NextRemoves DEF Removal
<1>3. Removal => DeletedMeansGone
  BY DEF Removal, Gone, DeletedMeansGone
<1>4. TypeOK /\ WholeAccount /\ Unselected /\ Gone /\ (\A s \in sess : Removes(s))
        => Removal
  BY DEF Removal
<1>5. QED
  BY <1>1, <1>2, <1>3, <1>4, TypeCorrect, PTL DEF Spec
=============================================================================
