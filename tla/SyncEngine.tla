----------------------------- MODULE SyncEngine -----------------------------
(***************************************************************************)
(* One managed account, its targets, its lifecycle operations and the      *)
(* coroutines that move it: na_sso/sync.py with na_sso/operations.py, the  *)
(* handlers of na_sso/users.py and na_sso/auth.py that feed it, and the    *)
(* retry worker.                                                           *)
(*                                                                         *)
(* The process is one asyncio event loop over SQLite.  Code between two    *)
(* awaits is one atomic step, so a request handler is one action; a        *)
(* synchronization is a sequence of actions, one per awaited connector     *)
(* call.  A synchronization keeps ONE database session over all its        *)
(* awaits, and SQLAlchemy neither refreshes the objects of that session    *)
(* nor writes back a column the session did not change: the session reads  *)
(* the account as it was when the synchronization started and overwrites   *)
(* what it changed.  sess.user, sess.rows and sess.status are that cache.  *)
(***************************************************************************)
EXTENDS Lifecycle, Integers, Sequences, FiniteSets

CONSTANTS
  Targets,        \* configured target IDs
  NeedsPassword,  \* targets whose connector has capabilities.password
  NoDisable,      \* targets whose connector declares disable unsupported
  NoTarget,       \* "no target": the whole account
  Requests,       \* which requests and faults the environment may make
  Starts,         \* the initial situations to explore
  Outcomes,       \* the connector results to explore
  MaxOps,         \* bound: operations ever created for the account
  MaxPwd,         \* bound: password versions
  MaxCalls        \* bound: synchronizations waiting for the account's lock

ASSUME ConstantsAssumption ==
  /\ NeedsPassword \subseteq Targets
  /\ NoDisable \subseteq Targets
  /\ NoTarget \notin Targets
  /\ MaxOps \in Nat /\ MaxPwd \in Nat \ {0} /\ MaxCalls \in Nat
  /\ Outcomes \subseteq {"ok", "fail", "lost", "invalid"}

VARIABLES
  user,      \* the managed_users row
  rows,      \* the sync_states rows, by target
  ops,       \* lifecycle_operations of the account, in creation order
  available, \* targets with verified management credentials (get_connectors)
  calls,     \* sync_user calls waiting for the account's asyncio.Lock (FIFO)
  sess,      \* the synchronization that holds the lock, as a set of at most one
  worker,    \* retry_worker
  remote,    \* the accounts on the targets
  temps      \* history: password versions set as temporary ones

vars == <<user, rows, ops, available, calls, sess, worker, remote, temps>>

\* Operation IDs number the operations in creation order; 0 stands for NULL,
\* in operation columns and in pending_secret alike.
NoOp == 0
NoPwd == 0

Kinds == {"none", "initial", "reset", "expired"}

UserRow ==
  [exists : BOOLEAN, desired : Desired, deleted : BOOLEAN,
   active : Nat, disabled : BOOLEAN, kind : Kinds,
   secret : Nat, pwd : Nat]

TargetRow ==
  [state : SyncState, assigned : BOOLEAN, op : Nat,
   retry : BOOLEAN]

Operation == [cmd : Command, status : OperationStatus]

Call ==
  [action : Desired \cup {"stored"}, target : Targets \cup {NoTarget},
   actor : {"system", "verified-login", "password-expiry"},
   op : Nat, by : {"task", "worker"}]

ConnectorOperation == {"ensure", "disable", "delete"}

\* A synchronization that is at, or about to call, a target in T.
SessionAt(T) ==
  [by : {"task", "worker"}, desired : Desired, op : Nat, user : UserRow,
   rows : [Targets -> TargetRow], status : OperationStatus,
   avail : SUBSET Targets, todo : SUBSET Targets, at : T,
   doing : ConnectorOperation]

Worker ==
  [alive : BOOLEAN, waiting : BOOLEAN,
   due : SUBSET [target : Targets \cup {NoTarget}, op : Nat]]

Account == [acct : {"absent", "disabled", "enabled"}, pwd : Nat]

TypeOK ==
  /\ user \in UserRow
  /\ rows \in [Targets -> TargetRow]
  /\ ops \in Seq(Operation)
  /\ available \subseteq Targets
  /\ calls \in Seq(Call)
  /\ sess \subseteq SessionAt(Targets)
  /\ \A s, s2 \in sess : s = s2
  /\ worker \in Worker
  /\ remote \in [Targets -> Account]
  /\ temps \subseteq Nat
-----------------------------------------------------------------------------
(***************************************************************************)
(* operations.py.  The helpers take and return the account row u and the   *)
(* operation table o, because the handlers and the synchronization call    *)
(* them inside a larger step.                                              *)
(***************************************************************************)
\* get_active_operation: a pointer to a finished operation counts as none.
ActiveOperation(u, o) ==
  IF u.active = NoOp THEN {}
  ELSE {x \in {o[u.active]} : x.status \notin TerminalStatus}

Mode(cmd, u, o) == DecideTransition(cmd, ActiveOperation(u, o), u.deleted)

\* request_operation, when decide_transition does not reject: the operation
\* to work under, with the superseded one cancelled and the new one queued.
Request(cmd, u, o) ==
  IF Mode(cmd, u, o) = "reuse"
  THEN [op |-> u.active, user |-> u, ops |-> o]
  ELSE LET kept == IF Mode(cmd, u, o) = "supersede"
                   THEN [o EXCEPT ![u.active].status = "cancelled"]
                   ELSE o
       IN [op   |-> Len(o) + 1,
           user |-> [u EXCEPT !.active = Len(o) + 1],
           ops  |-> Append(kept, [cmd |-> cmd, status |-> "queued"])]
-----------------------------------------------------------------------------
(***************************************************************************)
(* The synchronization.                                                    *)
(***************************************************************************)
\* What a commit of the session leaves in a column: the session's value when
\* the session changed it since it last read or wrote it, else the row's own.
Dirty(stored, seen, new) == IF new # seen THEN new ELSE stored

FlushRow(stored, seen, new) ==
  [stored EXCEPT !.state = Dirty(stored.state, seen.state, new.state),
                 !.op    = Dirty(stored.op, seen.op, new.op),
                 !.retry = Dirty(stored.retry, seen.retry, new.retry)]

\* Mutants of OperationFor: the assignment, or the expired password, does not
\* count.
OperationForAssigned(s, u, r) ==
  IF "delete" \in {s.desired, u.desired} \/ u.deleted THEN "delete"
  ELSE IF u.disabled \/ u.kind = "expired" \/ r.state = "pending_chpw_disable"
  THEN "disable"
  ELSE "ensure"

OperationForCurrent(s, u, r) ==
  IF "delete" \in {s.desired, u.desired} \/ u.deleted THEN "delete"
  ELSE IF ~r.assigned \/ u.disabled \/ r.state = "pending_chpw_disable"
  THEN "disable"
  ELSE "ensure"

\* Connector.lifecycle_operation_for, as _sync_user calls it.
OperationFor(s, u, r) ==
  IF "delete" \in {s.desired, u.desired} \/ u.deleted THEN "delete"
  ELSE IF \/ ~r.assigned \/ r.state = "pending_chpw_disable"
          \/ u.disabled \/ u.kind = "expired"
  THEN "disable"
  ELSE "ensure"

Unsupported(s, u, t, r) == OperationFor(s, u, r) = "disable" /\ t \in NoDisable

WaitsForPassword(s, u, r) ==
  s.desired # "delete" /\ r.state = "awaiting_credentials" /\ u.secret = NoPwd

\* The targets the loop passes without a connector call.
Passed(s, u, r) ==
  {t \in s.todo : Unsupported(s, u, t, r[t]) \/ WaitsForPassword(s, u, r[t])}

Settle(s, u, r, Q) ==
  [t \in Targets |->
     IF t \in Q /\ Unsupported(s, u, t, r[t])
     THEN [r[t] EXCEPT !.state = "unsupported", !.retry = FALSE]
     ELSE r[t]]

\* The operation's states, its failures and its finished targets when the
\* loop has ended.
Owned(s, r) == {t \in Targets : r[t].op = s.op}
Failures(s, r) == {t \in Owned(s, r) : r[t].state \in {"failed", "unsupported"}}
Done(s, r) ==
  {t \in Owned(s, r) :
     SyncStateTerminal(r[t].state, s.desired, r[t].assigned, FALSE)}

FinalStatus(s, r, status) ==
  IF Failures(s, r) # {}
  THEN IF Cardinality(Done(s, r)) > Cardinality(Failures(s, r))
       THEN "partially_failed" ELSE "failed"
  ELSE IF Done(s, r) = Owned(s, r) THEN "succeeded" ELSE status

\* The pending secret is erased when every assigned target has consumed it.
Consumed(s, r) ==
  LET assigned == {t \in s.avail : r[t].assigned}
  IN assigned # {} /\ \A t \in assigned : r[t].state = "ok"

\* The user columns a session writes.  deleted_at is a new timestamp each time.
FlushUser(stored, seen, new, deletes) ==
  [stored EXCEPT !.active  = Dirty(stored.active, seen.active, new.active),
                 !.secret  = Dirty(stored.secret, seen.secret, new.secret),
                 !.deleted = stored.deleted \/ deletes]

FlushOp(s, o, status) ==
  [o EXCEPT ![s.op].status = Dirty(@, s.status, status)]

\* The lock is released: the coroutine that awaited sync_user goes on.
Release(by) ==
  worker' = IF by = "worker" THEN [worker EXCEPT !.waiting = FALSE] ELSE worker

(***************************************************************************)
(* The session has computed user columns u, rows r and operation status st *)
(* since its last commit, on top of the operation table o: it passes over  *)
(* the targets Q that need no connector call, and either starts the next   *)
(* attempt, commits and awaits the connector, or ends the operation.       *)
(***************************************************************************)
StartAttempt(s, u, r, st, o, Q, t) ==
  LET new == [Settle(s, u, r, Q) EXCEPT ![t].state = "pending",
                                        ![t].retry = FALSE]
  IN /\ user' = FlushUser(user, s.user, u, FALSE)
     /\ rows' = [x \in Targets |-> FlushRow(rows[x], s.rows[x], new[x])]
     /\ ops' = FlushOp(s, o, st)
     /\ sess' = {[s EXCEPT !.user = u, !.rows = new, !.status = st,
                           !.todo = @ \ (Q \cup {t}), !.at = t,
                           !.doing = OperationFor(s, u, r[t])]}
     /\ UNCHANGED worker

EndOperation(s, u, r, st, o) ==
  LET new     == Settle(s, u, r, s.todo)
      final   == FinalStatus(s, new, st)
      done    == final \in TerminalStatus
      clean   == final = "succeeded"
      ended   == [u EXCEPT
                    !.active = IF done /\ @ = s.op THEN NoOp ELSE @,
                    !.secret = IF clean /\ s.desired # "delete"
                                        /\ Consumed(s, new)
                               THEN NoPwd ELSE @]
  IN /\ user' = FlushUser(user, s.user, ended, clean /\ s.desired = "delete")
     /\ rows' = [x \in Targets |-> FlushRow(rows[x], s.rows[x], new[x])]
     /\ ops' = FlushOp(s, o, final)
     /\ sess' = {}
     /\ Release(s.by)

Advance(s, u, r, st, o) ==
  \E Q \in SUBSET Passed(s, u, r) :
     \/ \E t \in s.todo \ Passed(s, u, r) : StartAttempt(s, u, r, st, o, Q, t)
     \/ Q = s.todo /\ EndOperation(s, u, r, st, o)
-----------------------------------------------------------------------------
(***************************************************************************)
(* sync_user and the start of _sync_user, up to the first connector call.  *)
(***************************************************************************)
\* Mutant of DesiredOf: a retry always ensures the account.
DesiredOfRetryEnsures(c) == IF c.action = "stored" THEN "ensure" ELSE c.action

DesiredOf(c) == IF c.action = "stored" THEN user.desired ELSE c.action

\* _command_for.
CommandFor(c) ==
  IF DesiredOf(c) = "delete" THEN "delete"
  ELSE IF c.actor = "verified-login" THEN "credential_handoff"
  ELSE IF c.actor = "password-expiry" THEN "expire"
  ELSE "update"

\* A call without an operation repairs the failed operation of its target.
Repaired(c) ==
  IF c.target = NoTarget \/ rows[c.target].op = NoOp THEN NoOp
  ELSE IF ops[rows[c.target].op].status \in {"failed", "partially_failed"}
  THEN rows[c.target].op
  ELSE NoOp

GivenOp(c) == IF c.op # NoOp THEN c.op ELSE Repaired(c)

Conflicts(c) == GivenOp(c) = NoOp /\ Mode(CommandFor(c), user, ops) = "reject"

Chosen(c) ==
  IF GivenOp(c) # NoOp THEN [op |-> GivenOp(c), user |-> user, ops |-> ops]
  ELSE Request(CommandFor(c), user, ops)

\* Mutant of Scope: only assigned targets are in it.
ScopeAssignedOnly(c) ==
  {t \in available : c.target \in {t, NoTarget} /\ rows[t].assigned
                       /\ rows[t].state # "chpw"}

Scope(c) ==
  {t \in Targets :
     /\ c.target \in {t, NoTarget}
     /\ IF DesiredOf(c) = "delete" THEN rows[t].state # "not_assigned"
        ELSE /\ t \in available
             /\ rows[t].assigned \/ rows[t].state \in {"pending_disable", "failed"}
             /\ rows[t].state # "chpw"}

\* start_operation leaves active_operation_id alone, resume_operation sets it.
Resumed(chosen) ==
  IF chosen.ops[chosen.op].status = "queued" THEN chosen.user
  ELSE [chosen.user EXCEPT !.active = chosen.op]

LockFree == sess = {} /\ calls # <<>>

\* The account is gone, or another operation is running: sync_user returns
\* None.
SyncDropped ==
  /\ LockFree
  /\ ~user.exists \/ Conflicts(Head(calls))
  /\ calls' = Tail(calls)
  /\ Release(Head(calls).by)
  /\ UNCHANGED <<user, rows, ops, available, sess, remote, temps>>

\* resume_operation raises OperationConflict, which nothing catches: nothing
\* is committed and the task, or the worker, ends.
SyncRaises ==
  /\ LockFree
  /\ user.exists /\ ~Conflicts(Head(calls))
  /\ LET chosen == Chosen(Head(calls))
     IN chosen.ops[chosen.op].status \notin Resumable
  /\ calls' = Tail(calls)
  /\ worker' = IF Head(calls).by = "worker"
               THEN [worker EXCEPT !.alive = FALSE, !.waiting = FALSE]
               ELSE worker
  /\ UNCHANGED <<user, rows, ops, available, sess, remote, temps>>

SyncStarts ==
  /\ LockFree
  /\ user.exists /\ ~Conflicts(Head(calls))
  /\ LET c      == Head(calls)
         chosen == Chosen(c)
         u      == Resumed(chosen)
         r      == [t \in Targets |->
                      IF t \in Scope(c) THEN [rows[t] EXCEPT !.op = chosen.op]
                                        ELSE rows[t]]
         s      == [by |-> c.by, desired |-> DesiredOf(c), op |-> chosen.op,
                    user |-> user, rows |-> rows,
                    status |-> chosen.ops[chosen.op].status,
                    avail |-> available, todo |-> Scope(c) \cap available,
                    at |-> NoTarget, doing |-> "ensure"]
     IN /\ s.status \in Resumable
        /\ Advance(s, u, r, "running", chosen.ops)
  /\ calls' = Tail(calls)
  /\ UNCHANGED <<available, remote, temps>>

(***************************************************************************)
(* The awaited connector call returns.  Its effect on the target and the   *)
(* result it reports are the environment's: it succeeds, it fails without  *)
(* effect, it takes effect and the answer is lost, or the connector finds  *)
(* the request unsatisfiable (ConnectorErrorKind.VALIDATION).              *)
(***************************************************************************)
Effect(op, acct, password) ==
  CASE op = "delete"  -> [acct |-> "absent", pwd |-> NoPwd]
    [] op = "disable" -> IF acct.acct = "absent" THEN acct
                         ELSE [acct EXCEPT !.acct = "disabled"]
    [] op = "ensure"  -> [acct |-> "enabled",
                          pwd  |-> IF password = NoPwd THEN acct.pwd
                                   ELSE password]

\* A new account cannot be created without a password where one is needed.
CanTakeEffect(op, t, acct, password) ==
  ~ (/\ op = "ensure" /\ acct.acct = "absent"
     /\ t \in NeedsPassword /\ password = NoPwd)

StateAfterSuccess(s, r) ==
  IF s.desired = "delete" THEN "ok"
  ELSE IF ~r.assigned THEN "unassigned"
  ELSE CASE s.user.kind \in {"initial", "reset"} -> "chpw"
         [] s.user.kind = "expired" -> "expired_disabled"
         [] OTHER -> "ok"

\* Mutants of RowAfter: a failure is scheduled on assigned targets only; a
\* failed delete counts as done.
RowAfterAssignedRetries(s, r, outcome) ==
  CASE outcome = "ok"      -> [r EXCEPT !.state = StateAfterSuccess(s, r),
                                        !.retry = FALSE]
    [] outcome = "invalid" -> [r EXCEPT !.state = "unsupported"]
    [] OTHER               -> [r EXCEPT !.state = "failed", !.retry = r.assigned]

RowAfterDeleteSwallowed(s, r, outcome) ==
  CASE outcome = "ok" \/ s.desired = "delete" ->
                              [r EXCEPT !.state = StateAfterSuccess(s, r),
                                        !.retry = FALSE]
    [] outcome = "invalid" -> [r EXCEPT !.state = "unsupported"]
    [] OTHER               -> [r EXCEPT !.state = "failed", !.retry = TRUE]

RowAfter(s, r, outcome) ==
  CASE outcome = "ok"      -> [r EXCEPT !.state = StateAfterSuccess(s, r),
                                        !.retry = FALSE]
    [] outcome = "invalid" -> [r EXCEPT !.state = "unsupported"]
    [] OTHER               -> [r EXCEPT !.state = "failed", !.retry = TRUE]

\* What the call in flight leaves on the target when it ends in outcome.
Answered(s, outcome) ==
  IF outcome \in {"ok", "lost"}
  THEN [remote EXCEPT ![s.at] = Effect(s.doing, @, s.user.secret)]
  ELSE remote

Answers(s) ==
  {outcome \in Outcomes :
     outcome \in {"ok", "lost"} =>
       CanTakeEffect(s.doing, s.at, remote[s.at], s.user.secret)}

ReturnsWith(s, outcome) ==
  /\ user.exists
  /\ remote' = Answered(s, outcome)
  /\ Advance(s, s.user, [s.rows EXCEPT ![s.at] = RowAfter(s, @, outcome)],
             s.status, ops)
  /\ UNCHANGED <<calls, available, temps>>

ConnectorReturns ==
  \E s \in sess : \E outcome \in Answers(s) : ReturnsWith(s, outcome)

\* The record was purged under the session: the commit finds no row to update
\* (StaleDataError) and the coroutine ends.
SessionLost ==
  \E s \in sess : \E outcome \in Answers(s) :
    /\ ~user.exists
    /\ remote' = Answered(s, outcome)
    /\ sess' = {}
    /\ worker' = IF s.by = "worker"
                 THEN [worker EXCEPT !.alive = FALSE, !.waiting = FALSE]
                 ELSE worker
    /\ UNCHANGED <<user, rows, ops, available, calls, temps>>
-----------------------------------------------------------------------------
(***************************************************************************)
(* The administrator's handlers (users.py).                                *)
(***************************************************************************)
\* Bound: room for the operations that the waiting calls may still create.
Room == Len(ops) + Len(calls) + Cardinality(worker.due) < MaxOps

Enqueue(action, target, actor, op, by) ==
  /\ Len(calls) < MaxCalls
  /\ calls' = Append(calls, [action |-> action, target |-> target,
                             actor |-> actor, op |-> op, by |-> by])

\* _set_pending without a password to stage: none of these callers passes one
\* except as a temporary password, which is not staged.
SetPending(selected, requireChange, remoteAbsent) ==
  rows' = [t \in Targets |->
    LET r == rows[t]
        held == IF ~remoteAbsent /\ r.assigned /\ r.state = "ok"
                THEN "pending_chpw_disable" ELSE "chpw"
        next == IF ~r.assigned /\ t \in NeedsPassword
                THEN "awaiting_credentials" ELSE "pending"
    IN IF t \in selected
       THEN [r EXCEPT !.state = IF requireChange THEN held ELSE next,
                      !.assigned = TRUE, !.retry = FALSE]
       ELSE IF r.assigned
       THEN [r EXCEPT !.state = "pending_disable", !.assigned = FALSE,
                      !.retry = FALSE]
       ELSE r]

Assigned == {t \in Targets : rows[t].assigned}

\* The status field of the form.
FormStatus == IF "disable" \in Requests THEN BOOLEAN ELSE {FALSE}

\* update_user: profile, status and target selection.
UpdateUser ==
  /\ "update" \in Requests /\ Room
  /\ user.exists /\ user.desired # "delete"
  /\ Mode("update", user, ops) # "reject"
  /\ \E selected \in SUBSET available, disabled \in FormStatus :
       LET request == Request("update", user, ops)
       IN /\ user' = [request.user EXCEPT !.disabled = disabled]
          /\ ops' = request.ops
          /\ SetPending(selected, FALSE, FALSE)
          /\ Enqueue("stored", NoTarget, "system", request.op, "task")
  /\ UNCHANGED <<available, sess, worker, remote, temps>>

\* Mutant of ResetPassword: the temporary password is staged for the targets.
ResetPasswordStages ==
  /\ "reset" \in Requests /\ Room
  /\ user.exists /\ user.desired # "delete" /\ user.pwd < MaxPwd
  /\ Mode("update", user, ops) # "reject"
  /\ \E selected \in SUBSET available :
       LET request == Request("update", user, ops)
       IN /\ user' = [request.user EXCEPT !.kind = "reset",
                        !.secret = user.pwd + 1, !.pwd = @ + 1]
          /\ ops' = request.ops
          /\ SetPending(selected, FALSE, FALSE)
          /\ Enqueue("stored", NoTarget, "system", request.op, "task")
  /\ temps' = temps \cup {user.pwd + 1}
  /\ UNCHANGED <<available, sess, worker, remote>>

\* update_user with a password: an administrator reset.
ResetPassword ==
  /\ "reset" \in Requests /\ Room
  /\ user.exists /\ user.desired # "delete" /\ user.pwd < MaxPwd
  /\ Mode("update", user, ops) # "reject"
  /\ \E selected \in SUBSET available, disabled \in FormStatus :
       LET request == Request("update", user, ops)
       IN /\ user' = [request.user EXCEPT !.disabled = disabled, !.kind = "reset",
                        !.secret = NoPwd, !.pwd = @ + 1]
          /\ ops' = request.ops
          /\ SetPending(selected, TRUE, FALSE)
          /\ Enqueue("stored", NoTarget, "system", request.op, "task")
  /\ temps' = temps \cup {user.pwd + 1}
  /\ UNCHANGED <<available, sess, worker, remote>>

\* delete_user.  _set_pending looks every assigned target up among the
\* available connectors, and raises KeyError when one is missing.
DeleteUser ==
  /\ "delete" \in Requests /\ Room
  /\ user.exists
  /\ Assigned \subseteq available
  /\ LET request == Request("delete", user, ops)
     IN /\ user' = [request.user EXCEPT !.desired = "delete", !.deleted = FALSE]
        /\ ops' = request.ops
        /\ SetPending(Assigned, FALSE, FALSE)
        /\ Enqueue("delete", NoTarget, "system", request.op, "task")
  /\ UNCHANGED <<available, sess, worker, remote, temps>>

\* Mutant of RestoreUser: it does not wait for the deletion.
RestoreUserEarly ==
  /\ "restore" \in Requests /\ Room
  /\ user.exists /\ user.desired = "delete"
  /\ user.pwd < MaxPwd
  /\ user' = [user EXCEPT !.desired = "ensure", !.deleted = FALSE,
                 !.disabled = FALSE, !.kind = "reset", !.secret = NoPwd,
                 !.pwd = @ + 1]
  /\ SetPending(Assigned \cap available, TRUE, TRUE)
  /\ temps' = temps \cup {user.pwd + 1}
  /\ UNCHANGED <<ops, available, calls, sess, worker, remote>>

RestoreUser ==
  /\ "restore" \in Requests /\ Room
  /\ user.exists /\ user.desired = "delete" /\ user.deleted
  /\ user.pwd < MaxPwd
  /\ Mode("restore", user, ops) # "reject"
  /\ LET request == Request("restore", user, ops)
     IN /\ user' = [request.user EXCEPT !.desired = "ensure", !.deleted = FALSE,
                      !.disabled = FALSE, !.kind = "reset", !.secret = NoPwd,
                      !.pwd = @ + 1]
        /\ ops' = request.ops
        /\ SetPending(Assigned \cap available, TRUE, TRUE)
        /\ Enqueue("stored", NoTarget, "system", request.op, "task")
  /\ temps' = temps \cup {user.pwd + 1}
  /\ UNCHANGED <<available, sess, worker, remote>>

\* purge_user: the operation is created and finished, the record deleted.
PurgeUser ==
  /\ "purge" \in Requests /\ Room
  /\ user.exists /\ user.desired = "delete" /\ user.deleted
  /\ user' = [user EXCEPT !.exists = FALSE, !.active = NoOp]
  /\ ops' = Append(ops, [cmd |-> "purge", status |-> "succeeded"])
  /\ UNCHANGED <<rows, available, calls, sess, worker, remote, temps>>

\* retry_user_target.
RetryTarget(t) ==
  /\ "retry" \in Requests /\ Room
  /\ user.exists
  /\ t \in available
  /\ Enqueue("stored", t, "system", rows[t].op, "task")
  /\ UNCHANGED <<user, rows, ops, available, sess, worker, remote, temps>>
-----------------------------------------------------------------------------
(***************************************************************************)
(* The user's own actions (auth.py) and credential_handoff.                *)
(***************************************************************************)
\* Mutant of Waiting: targets held for a temporary password do not wait.
WaitingWithoutChpw ==
  {t \in Assigned : rows[t].state \in {"awaiting_credentials",
                                       "expired_disabled"}}

Waiting ==
  {t \in Assigned : rows[t].state \in {"awaiting_credentials",
                                       "expired_disabled", "chpw"}}

\* Mutant of CredentialHandoff: whatever password was verified is staged.
CredentialHandoffAlways(u, p) ==
  IF Waiting = {}
  THEN user' = u /\ UNCHANGED <<rows, calls>>
  ELSE /\ user' = [u EXCEPT !.secret = p]
       /\ rows' = [t \in Targets |->
                     IF t \in Waiting THEN [rows[t] EXCEPT !.state = "pending"]
                                      ELSE rows[t]]
       /\ Enqueue("stored", NoTarget, "verified-login", NoOp, "task")

\* credential_handoff for the account row u, with verified password p: it does
\* nothing while a temporary password is outstanding, or when no target waits.
CredentialHandoff(u, p) ==
  IF u.kind \in {"initial", "reset"} \/ Waiting = {}
  THEN user' = u /\ UNCHANGED <<rows, calls>>
  ELSE /\ user' = [u EXCEPT !.secret = p]
       /\ rows' = [t \in Targets |->
                     IF t \in Waiting THEN [rows[t] EXCEPT !.state = "pending"]
                                      ELSE rows[t]]
       /\ Enqueue("stored", NoTarget, "verified-login", NoOp, "task")

\* Mutant of Login: the password was verified before an await, so it may be an
\* older one by the time it is staged.
LoginVerifiedEarlier ==
  /\ "login" \in Requests /\ Room
  /\ user.exists /\ ~user.disabled
  /\ \E p \in (1..user.pwd) \ temps : CredentialHandoff(user, p)
  /\ UNCHANGED <<ops, available, sess, worker, remote, temps>>

Login ==
  /\ "login" \in Requests /\ Room
  /\ user.exists /\ ~user.disabled
  /\ CredentialHandoff(user, user.pwd)
  /\ UNCHANGED <<ops, available, sess, worker, remote, temps>>

\* A signed-in user: current_user refuses disabled and deleted accounts.
SignedIn == user.exists /\ ~user.disabled /\ user.desired # "delete"

\* _complete_password_action, choice "change".
ChangePassword ==
  /\ "password" \in Requests /\ Room
  /\ SignedIn /\ user.pwd < MaxPwd
  /\ CredentialHandoff([user EXCEPT !.kind = "none", !.pwd = @ + 1], user.pwd + 1)
  /\ UNCHANGED <<ops, available, sess, worker, remote, temps>>

\* _complete_password_action, choice "keep", where the policy still allows it.
KeepPassword ==
  /\ "keep" \in Requests /\ Room
  /\ SignedIn /\ user.kind = "expired"
  /\ CredentialHandoff([user EXCEPT !.kind = "none"], user.pwd)
  /\ UNCHANGED <<ops, available, sess, worker, remote, temps>>
-----------------------------------------------------------------------------
(***************************************************************************)
(* retry_worker: one coroutine that runs expire_due and retry_due in turn, *)
(* awaits each synchronization they start, and ends on an exception.       *)
(***************************************************************************)
IdleWorker == [alive |-> TRUE, waiting |-> FALSE, due |-> {}]

WorkerFree == worker.alive /\ ~worker.waiting /\ worker.due = {}

\* expire_due marks the account and commits; its synchronization follows when
\* the accounts before it in the scan are done.
WorkerExpires ==
  /\ "expire" \in Requests /\ Room
  /\ WorkerFree
  /\ user.exists /\ ~user.disabled /\ user.kind = "none"
  /\ user' = [user EXCEPT !.kind = "expired"]
  /\ rows' = [t \in Targets |->
                IF t \in Assigned
                THEN [rows[t] EXCEPT !.state = "pending_expiry_disable",
                                     !.retry = FALSE]
                ELSE rows[t]]
  /\ worker' = [worker EXCEPT !.due = {[target |-> NoTarget, op |-> NoOp]}]
  /\ UNCHANGED <<ops, available, calls, sess, remote, temps>>

\* Mutant of Scheduled: unassigned targets are passed over.
ScheduledAssigned ==
  {t \in Targets : rows[t].state = "failed" /\ rows[t].retry /\ rows[t].assigned}

Scheduled == {t \in Targets : rows[t].state = "failed" /\ rows[t].retry}

\* retry_due reads the targets whose next_retry_at has passed, with the
\* operation each belongs to, before it repairs the first of them.
ScanFinds(due) ==
  /\ "scan" \in Requests
  /\ WorkerFree
  /\ worker' = [worker EXCEPT
                  !.due = {[target |-> t, op |-> rows[t].op] : t \in due}]
  /\ UNCHANGED <<user, rows, ops, available, calls, sess, remote, temps>>

WorkerScans == \E due \in (SUBSET Scheduled) \ {{}} : ScanFinds(due)

WorkerCalls ==
  /\ worker.alive /\ ~worker.waiting
  /\ \E d \in worker.due :
       /\ worker' = [worker EXCEPT !.due = @ \ {d}, !.waiting = TRUE]
       /\ calls' = Append(calls,
            [action |-> "stored", target |-> d.target, op |-> d.op,
             actor |-> IF d.target = NoTarget THEN "password-expiry" ELSE "system",
             by |-> "worker"])
  /\ UNCHANGED <<user, rows, ops, available, sess, remote, temps>>
-----------------------------------------------------------------------------
(***************************************************************************)
(* Faults.                                                                 *)
(***************************************************************************)
\* A failed authentication revokes the proof of a target's credentials, a
\* successful probe restores it (target_credentials.record_probe).
ProbeChanges(t) ==
  /\ "probe" \in Requests
  /\ available' = IF t \in available THEN available \ {t} ELSE available \cup {t}
  /\ UNCHANGED <<user, rows, ops, calls, sess, worker, remote, temps>>

\* The process stops and starts again: coroutines are lost, with the connector
\* call in flight carried out or not; init_db puts the accounts with an
\* outstanding temporary password back on hold, and nothing resumes an operation.
Restart ==
  /\ "restart" \in Requests
  /\ LET held == user.exists /\ user.kind \in {"initial", "reset"}
     IN /\ user' = [user EXCEPT !.secret = IF held THEN NoPwd ELSE @]
        /\ rows' = [t \in Targets |->
                      IF /\ held /\ rows[t].assigned
                         /\ rows[t].state # "pending_chpw_disable"
                      THEN [rows[t] EXCEPT !.state = "chpw", !.retry = FALSE]
                      ELSE rows[t]]
  /\ calls' = <<>>
  /\ sess' = {}
  /\ worker' = IdleWorker
  /\ \/ UNCHANGED remote
     \/ \E s \in sess : \E outcome \in Answers(s) : remote' = Answered(s, outcome)
  /\ UNCHANGED <<ops, available, temps>>
-----------------------------------------------------------------------------
Absent == [acct |-> "absent", pwd |-> NoPwd]

NewUser(kind, active) ==
  [exists |-> TRUE, desired |-> "ensure", deleted |-> FALSE, active |-> active,
   disabled |-> FALSE, kind |-> kind, secret |-> NoPwd, pwd |-> 1]

RowIn(selected, t, state) ==
  [state |-> IF t \in selected THEN state ELSE "not_assigned",
   assigned |-> t \in selected, op |-> NoOp, retry |-> FALSE]

\* create_user: the account waits for its first password.
Created ==
  /\ user = NewUser("initial", 1)
  /\ \E selected \in SUBSET Targets :
       rows = [t \in Targets |-> RowIn(selected, t, "chpw")]
  /\ ops = <<[cmd |-> "create", status |-> "queued"]>>
  /\ calls = <<[action |-> "stored", target |-> NoTarget, actor |-> "system",
                op |-> 1, by |-> "task"]>>
  /\ remote = [t \in Targets |-> Absent]
  /\ temps = {1}

\* An account whose targets were all synchronized with its own password, by
\* operations that ended and that no row refers to any more.
Established ==
  /\ user = NewUser("none", NoOp)
  /\ \E selected \in SUBSET Targets :
       /\ rows = [t \in Targets |-> RowIn(selected, t, "ok")]
       /\ remote = [t \in Targets |->
                      IF t \in selected THEN [acct |-> "enabled", pwd |-> 1]
                                        ELSE Absent]
  /\ ops = <<>>
  /\ calls = <<>>
  /\ temps = {}

Init ==
  /\ \/ "created" \in Starts /\ Created
     \/ "established" \in Starts /\ Established
  /\ available = Targets
  /\ sess = {}
  /\ worker = IdleWorker

Synchronize == SyncDropped \/ SyncRaises \/ SyncStarts \/ ConnectorReturns \/ SessionLost

Administer ==
  \/ UpdateUser \/ ResetPassword \/ DeleteUser \/ RestoreUser \/ PurgeUser
  \/ \E t \in Targets : RetryTarget(t)

Next ==
  \/ Synchronize
  \/ Administer
  \/ Login \/ ChangePassword \/ KeepPassword
  \/ WorkerExpires \/ WorkerScans \/ WorkerCalls
  \/ \E t \in Targets : ProbeChanges(t)
  \/ Restart

Spec == Init /\ [][Next]_vars

(***************************************************************************)
(* Fairness.  asyncio runs every ready coroutine and its Lock is FIFO, a   *)
(* connector call ends (each has a timeout), and the retry worker scans    *)
(* every retry_scan_seconds with capped delays, so no due target is passed *)
(* over for ever.  That a target asked again and again answers at last is  *)
(* what recovering from an outage supposes.  The environment's requests    *)
(* are not fair.                                                           *)
(***************************************************************************)
Succeeds(t) ==
  \E s \in sess : s.at = t /\ "ok" \in Answers(s) /\ ReturnsWith(s, "ok")

ScanFindsTarget(t) == \E due \in SUBSET Scheduled : t \in due /\ ScanFinds(due)

Fairness ==
  /\ WF_vars(Synchronize)
  /\ WF_vars(WorkerCalls)
  /\ \A t \in Targets : SF_vars(Succeeds(t)) /\ SF_vars(ScanFindsTarget(t))

FairSpec == Spec /\ Fairness
-----------------------------------------------------------------------------
(***************************************************************************)
(* Safety.                                                                 *)
(***************************************************************************)
\* A temporary password (initial, administrator reset, restore) is local: it
\* is never staged for propagation, by credential_handoff or _set_pending, and
\* never held by a target, whatever synchronization was in flight when it was
\* set.
TemporaryStaysLocal ==
  /\ user.secret \notin temps
  /\ \A s \in sess : s.user.secret \notin temps
  /\ \A t \in Targets : remote[t].pwd \notin temps

\* A target recorded as failed is scheduled for retry_due and belongs to the
\* operation the retry repairs: no handler and no stale session that writes the
\* row while a synchronization is in flight leaves a failure that nothing
\* would retry.
FailedIsScheduled ==
  \A t \in Targets :
    rows[t].state = "failed" => rows[t].retry /\ rows[t].op # NoOp

\* A target presented as unassigned has no enabled account: its disable was
\* confirmed, and no synchronization that began before the assignment was
\* withdrawn has enabled it since.
UnassignedIsDisabled ==
  \A t \in Targets :
    rows[t].state = "unassigned" => remote[t].acct # "enabled"

\* A target presented as disabled for an expired password has no enabled
\* account.
ExpiredIsDisabled ==
  \A t \in Targets :
    rows[t].state = "expired_disabled" => remote[t].acct # "enabled"

\* What is presented as disabled, by an assignment or by expiry, is disabled.
DisabledIsOff == UnassignedIsDisabled /\ ExpiredIsDisabled

\* A completed deletion (what restore and purge test) means that no target
\* holds the account any more.
DeletedMeansGone ==
  user.exists /\ user.deleted =>
    \A t \in Targets : remote[t].acct = "absent"

\* The conflict rule of lifecycle.py: at most one operation of the account is
\* unfinished, and it is the one the account points to.
OneUnfinished ==
  \A i \in DOMAIN ops :
    ops[i].status \notin TerminalStatus => user.active = i

\* Nothing is queued for the account and nothing runs.
Quiet ==
  user.exists /\ calls = <<>> /\ sess = {} /\ worker.due = {}

\* Once the work for the account has drained, every operation has ended and no
\* target is left in a pending state that nothing would take up again.
QuietMeansSettled ==
  Quiet =>
    /\ \A i \in DOMAIN ops : ops[i].status \in TerminalStatus
    /\ \A t \in Targets : rows[t].state \in PresentedTerminal
-----------------------------------------------------------------------------
(***************************************************************************)
(* Action properties.                                                      *)
(***************************************************************************)
\* An account that stays on a target never gets an older password back: a
\* synchronization that captured a secret before the user chose a new one
\* cannot put the old one over the new.
PasswordNeverRollsBack ==
  [][\A t \in Targets :
       remote[t].acct # "absent" /\ remote'[t].acct # "absent"
         => remote[t].pwd <= remote'[t].pwd]_vars

\* An account is removed from a target only while its deletion is wanted.
RemovedOnlyWhenWanted ==
  [][\A t \in Targets :
       remote[t].acct # "absent" /\ remote'[t].acct = "absent"
         => user.desired = "delete"]_vars

\* A successful operation is history: no retry, delete or stale session reopens
\* it or overwrites its outcome.
SucceededStays ==
  [][\A i \in DOMAIN ops :
       ops[i].status = "succeeded" => ops'[i].status = "succeeded"]_vars

\* A staged password is cleared once all assigned targets have it
\* (models.py: "awaiting propagation; cleared once all targets sync"), whatever
\* the session that clears it read at its start.
StagedUntilHeld ==
  [][user.secret = user.pwd /\ user'.secret = NoPwd /\ user'.pwd = user.pwd
       => \A t \in Assigned : remote'[t].pwd = user.pwd]_vars

\* The engine keeps the promise of AccountPromise, with whatever it has in
\* flight: the abstract password count is the account's password version, the
\* operator's wish is desired_action.
Promise ==
  INSTANCE AccountPromise WITH latest <- user.pwd, wanted <- user.desired

KeepsPromise == Promise!Spec
-----------------------------------------------------------------------------
(***************************************************************************)
(* Liveness.                                                               *)
(***************************************************************************)
\* An outage heals by itself: a failed target does not stay failed.
FailedRecovers ==
  \A t \in Targets : rows[t].state = "failed" ~> rows[t].state # "failed"

\* As long as its deletion is not wanted, the account settles again and again:
\* every target is up to date and every operation has ended.
Settled ==
  Quiet /\ \A t \in Targets : rows[t].state \in PresentedTerminal \ {"failed"}

SettlesAgain == []<>(Settled \/ user.desired = "delete")

\* The retry worker alone gets the account out of every failure and to rest.
HealsByItself == FailedRecovers /\ SettlesAgain

\* The password the user chooses in place of a temporary one reaches every
\* assigned target that does not await a sign-in, unless the target is withdrawn
\* or the account deleted.
ReplacementArrives ==
  \A t \in Targets :
    (/\ user.kind = "none" /\ user.pwd - 1 \in temps
     /\ rows[t].assigned /\ rows[t].state # "awaiting_credentials")
      ~> \/ user.desired = "delete" \/ ~rows[t].assigned
         \/ remote[t] = [acct |-> "enabled", pwd |-> user.pwd]

\* A requested deletion completes.
DeletionCompletes ==
  user.desired = "delete" ~> (user.deleted \/ user.desired # "delete")
=============================================================================
