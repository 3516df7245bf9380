------------------------- MODULE AccountOperations -------------------------
(***************************************************************************)
(* Accounts, their lifecycle operations and the calls of sync_user that    *)
(* carry the operations out, as the workflows above them see them: bulk    *)
(* jobs, reconciliation repairs, the lifecycle scheduler.  This is what    *)
(* SyncEngine does for one account, abstracted for several: a call waits   *)
(* for the account's lock, is dropped, raises, or becomes a session that   *)
(* ends its operation some time later with one of Outcomes, or returns     *)
(* with targets that are neither done nor failed and leaves it running.    *)
(*                                                                         *)
(* A workflow is a coroutine that awaits such calls.  What it does when a  *)
(* call comes back happens in the step in which the call ends, for nothing *)
(* yields between the release of the lock and the caller.  The actions     *)
(* here therefore leave calls' to the workflow, which may await the next.  *)
(***************************************************************************)
EXTENDS Lifecycle, Integers, Sequences, FiniteSets

CONSTANTS
  Accounts,    \* user names
  Populations, \* the sets of managed accounts to start with
  Coroutines,  \* the workflows that await sync_user
  Outcomes,    \* the final statuses to explore
  Disturbances, \* the kinds of interference to explore, as sets of them
  MaxRequests  \* bound: what administrators request on their own

ASSUME AccountAssumption ==
  /\ IsFiniteSet(Accounts)
  /\ Populations \subseteq SUBSET Accounts
  /\ "task" \notin Coroutines
  /\ Outcomes \subseteq {"succeeded", "partially_failed", "failed"}
  /\ MaxRequests \in Nat

VARIABLES
  db,       \* the rows of managed_users and lifecycle_operations
  calls,    \* by account, the sync_user calls that wait for its asyncio.Lock
  sessions, \* synchronizations that hold their account's lock
  todo,     \* the calls a coroutine makes one after the other, from now on
  meanwhile \* the kinds of interference, chosen at the start, and the requests left

opVars == <<db, calls, sessions, todo, meanwhile>>

NoOp == 0

AccountRow ==
  [exists : BOOLEAN, desired : Desired, deleted : BOOLEAN,
   disabled : BOOLEAN, assigned : BOOLEAN, active : Nat]

OperationRow == [user : Accounts, cmd : Command, status : OperationStatus]

\* A background task of a request handler awaits nothing but its own call; of
\* equal calls of such tasks that wait, one is kept.
Call ==
  [by : Coroutines \cup {"task"}, user : Accounts, op : Nat,
   action : Desired \cup {"stored"}]

\* seen is active_operation_id as the session read or wrote it.
Session ==
  [by : Coroutines \cup {"task"}, user : Accounts, op : Nat,
   desired : Desired, seen : Nat]

OperationsTypeOK ==
  /\ db \in [acct : [Accounts -> AccountRow], ops : Seq(OperationRow)]
  /\ calls \in [Accounts -> Seq(Call)]
  /\ sessions \subseteq Session
  /\ \A s, s2 \in sessions : s.user = s2.user => s = s2
  /\ todo \in [Coroutines -> Seq(Call)]
  /\ meanwhile \in [kinds : SUBSET ({"crashed"} \cup UNION Disturbances),
                    left : 0..MaxRequests]

FreshAccount ==
  [exists |-> TRUE, desired |-> "ensure", deleted |-> FALSE,
   disabled |-> FALSE, assigned |-> TRUE, active |-> NoOp]

NoAccount == [FreshAccount EXCEPT !.exists = FALSE, !.assigned = FALSE]

OperationsInit ==
  /\ \E existing \in Populations :
       db = [acct |-> [a \in Accounts |-> IF a \in existing THEN FreshAccount
                                                            ELSE NoAccount],
             ops  |-> <<>>]
  /\ calls = [a \in Accounts |-> <<>>]
  /\ sessions = {}
  /\ todo = [by \in Coroutines |-> <<>>]
  /\ \E kinds \in Disturbances :
       meanwhile = [kinds |-> kinds, left |-> MaxRequests]
-----------------------------------------------------------------------------
(***************************************************************************)
(* operations.py, on the rows d.                                           *)
(***************************************************************************)
\* get_active_operation.
Active(a, d) ==
  IF d.acct[a].active = NoOp THEN {}
  ELSE {x \in {d.ops[d.acct[a].active]} : x.status \notin TerminalStatus}

Decided(cmd, a, d) == DecideTransition(cmd, Active(a, d), d.acct[a].deleted)

\* request_operation raises OperationConflict.
Rejects(cmd, a, d) == Decided(cmd, a, d) = "reject"

\* request_operation otherwise: the rows it leaves.  The operation to work
\* under is the active one of the account.
Requested(cmd, a, d) ==
  IF Decided(cmd, a, d) = "reuse" THEN d
  ELSE LET kept == IF Decided(cmd, a, d) = "supersede"
                   THEN [d.ops EXCEPT ![d.acct[a].active].status = "cancelled"]
                   ELSE d.ops
       IN [acct |-> [d.acct EXCEPT ![a].active = Len(d.ops) + 1],
           ops  |-> Append(kept, [user |-> a, cmd |-> cmd,
                                  status |-> "queued"])]

SyncCall(by, a, op, action) ==
  [by |-> by, user |-> a, op |-> op, action |-> action]
-----------------------------------------------------------------------------
(***************************************************************************)
(* sync_user.                                                              *)
(***************************************************************************)
\* The lock is free and c is the call that has waited longest (asyncio.Lock is
\* fair).
Served(c) ==
  /\ \A s \in sessions : s.user # c.user
  /\ calls[c.user] # <<>> /\ c = Head(calls[c.user])

\* The calls that have been served leave their queues, new ones join.
Left(q, served) ==
  [a \in Accounts |-> IF \E c \in served : c.user = a THEN Tail(q[a]) ELSE q[a]]

Joined(q, new) ==
  [a \in Accounts |-> IF \E c \in new : c.user = a
                      THEN Append(q[a], CHOOSE c \in new : c.user = a)
                      ELSE q[a]]

\* The account is gone: sync_user returns None.
CallDropped(c) ==
  /\ Served(c)
  /\ ~db.acct[c.user].exists
  /\ UNCHANGED <<db, sessions>>

\* resume_operation raises OperationConflict, out of sync_user.
CallRaises(c) ==
  /\ Served(c)
  /\ db.acct[c.user].exists
  /\ db.ops[c.op].status \notin Resumable
  /\ UNCHANGED <<db, sessions>>

\* start_operation, or resume_operation, which makes the operation active.
Started(c) ==
  [db EXCEPT !.ops[c.op].status = "running",
             !.acct[c.user].active =
               IF db.ops[c.op].status = "queued" THEN @ ELSE c.op]

CallStarts(c) ==
  /\ Served(c)
  /\ db.acct[c.user].exists
  /\ db.ops[c.op].status \in Resumable
  /\ db' = Started(c)
  /\ calls' = Left(calls, {c})
  /\ sessions' = sessions \cup
       {[by |-> c.by, user |-> c.user, op |-> c.op,
         desired |-> IF c.action = "stored" THEN db.acct[c.user].desired
                                            ELSE c.action,
         seen |-> Started(c).acct[c.user].active]}
  /\ UNCHANGED <<todo, meanwhile>>

\* finish_operation and the commit of the session's columns: the status is
\* written whatever it is by now, and so is active_operation_id when the
\* session saw its own operation there.
Ended(s, status) ==
  [acct |-> [db.acct EXCEPT
               ![s.user].active  = IF s.seen = s.op THEN NoOp ELSE @,
               ![s.user].deleted = @ \/ (s.desired = "delete"
                                         /\ status = "succeeded")],
   ops  |-> [db.ops EXCEPT ![s.op].status = status]]

SessionEnds(s, status) ==
  /\ s \in sessions /\ status \in Outcomes
  /\ db.acct[s.user].exists
  /\ db' = Ended(s, status)
  /\ sessions' = sessions \ {s}

\* A target of the operation is neither done nor failed, because its connector
\* is not available or because somebody has written its row meanwhile: the
\* operation stays as it is, and active, and nothing resumes it ("unfinished").
StaysRunning(s) ==
  /\ "unfinished" \in meanwhile.kinds
  /\ s \in sessions
  /\ db.acct[s.user].exists
  /\ sessions' = sessions \ {s}

SessionStops(s) == StaysRunning(s) /\ UNCHANGED db

\* The account was purged under the session: the commit raises.
SessionRaises(s) ==
  /\ s \in sessions
  /\ ~db.acct[s.user].exists
  /\ sessions' = sessions \ {s}
  /\ UNCHANGED db

(***************************************************************************)
(* Coroutines that await their calls one after the other.                  *)
(***************************************************************************)
\* What by has begun to await: the head of the calls it has to make.
FirstOf(list) == IF list = <<>> THEN {} ELSE {Head(list)}
RestOf(list) == IF list = <<>> THEN <<>> ELSE Tail(list)

Waiting == UNION {{calls[a][i] : i \in 1..Len(calls[a])} : a \in Accounts}
Awaits(by) == {c \in Waiting : c.by = by}
Holds(by) == {s \in sessions : s.by = by}
Idle(by) == Awaits(by) = {} /\ Holds(by) = {}

\* The coroutine begins with the calls of list.
Begins(by, list) ==
  /\ calls' = Joined(calls, FirstOf(list))
  /\ todo' = [todo EXCEPT ![by] = RestOf(list)]

\* A call, in Awaits(by) unless it has become a session, has come back.
GoesOn(by) ==
  /\ calls' = Joined(Left(calls, Awaits(by)), FirstOf(todo[by]))
  /\ todo' = [todo EXCEPT ![by] = RestOf(@)]

\* Nothing catches the exception of a call: the others are never made.
Breaks(by) ==
  /\ calls' = Left(calls, Awaits(by))
  /\ todo' = [todo EXCEPT ![by] = <<>>]

\* A call that the coroutine awaits ends, or raises.  Starlette runs the
\* background tasks of a response one after the other, in one coroutine.
Returns(by) ==
  \/ \E c \in Awaits(by) : CallDropped(c)
  \/ \E s \in Holds(by) :
       SessionStops(s) \/ \E status \in Outcomes : SessionEnds(s, status)

Raises(by) ==
  \/ \E c \in Awaits(by) : CallRaises(c)
  \/ \E s \in Holds(by) : SessionRaises(s)

\* The background task of a request handler: nothing follows its call.
TaskStep(a) ==
  /\ \/ \E c \in Awaits("task") : /\ c.user = a
                                   /\ (CallDropped(c) \/ CallRaises(c))
                                   /\ calls' = Left(calls, {c})
     \/ \E s \in Holds("task") :
          /\ s.user = a
          /\ \/ \E status \in Outcomes : SessionEnds(s, status)
             \/ SessionStops(s) \/ SessionRaises(s)
          /\ UNCHANGED calls
  /\ UNCHANGED <<todo, meanwhile>>

SyncStarts(a) == \E c \in Waiting : c.user = a /\ CallStarts(c)
-----------------------------------------------------------------------------
(***************************************************************************)
(* What administrators and the retry worker do meanwhile (users.py,        *)
(* sync.py), by kind.                                                      *)
(***************************************************************************)
\* An administrator's request of this kind.
Asks(kind) ==
  /\ kind \in meanwhile.kinds /\ meanwhile.left > 0
  /\ meanwhile' = [meanwhile EXCEPT !.left = @ - 1]

\* The background task of a request; of equal ones that wait, one is kept.
Task(a, op, action) == {SyncCall("task", a, op, action)} \ Waiting

AdminUpdates(a) ==
  /\ Asks("update")
  /\ db.acct[a].exists /\ db.acct[a].desired # "delete"
  /\ ~Rejects("update", a, db)
  /\ db' = Requested("update", a, db)
  /\ calls' = Joined(calls, Task(a, Len(db'.ops), "stored"))
  /\ UNCHANGED sessions

\* Asked again while it is under way, the deletion gets a second call ("again").
AdminDeletes(a) ==
  /\ Asks("delete")
  /\ db.acct[a].exists
  /\ Decided("delete", a, db) = "reuse" => "again" \in meanwhile.kinds
  /\ db' = [Requested("delete", a, db) EXCEPT
              !.acct[a].desired = "delete", !.acct[a].deleted = FALSE]
  /\ calls' = Joined(calls, Task(a, db'.acct[a].active, "delete"))
  /\ UNCHANGED sessions

AdminRestores(a) ==
  /\ Asks("restore")
  /\ db.acct[a].exists /\ ~Rejects("restore", a, db)
  /\ db' = [Requested("restore", a, db) EXCEPT !.acct[a].desired = "ensure",
                                               !.acct[a].deleted = FALSE,
                                               !.acct[a].disabled = FALSE]
  /\ calls' = Joined(calls, Task(a, Len(db'.ops), "stored"))
  /\ UNCHANGED sessions

\* An update whose form says "active".
AdminEnables(a) ==
  /\ Asks("enable")
  /\ db.acct[a].exists /\ db.acct[a].desired # "delete"
  /\ db.acct[a].disabled /\ ~Rejects("update", a, db)
  /\ db' = [Requested("update", a, db) EXCEPT !.acct[a].disabled = FALSE]
  /\ calls' = Joined(calls, Task(a, Len(db'.ops), "stored"))
  /\ UNCHANGED sessions

AdminPurges(a) ==
  /\ Asks("purge")
  /\ db.acct[a].exists /\ db.acct[a].deleted
  /\ db' = [db EXCEPT !.acct[a] = NoAccount]
  /\ UNCHANGED <<calls, sessions>>

\* A target of a failed operation is due: the worker calls sync_user with the
\* operation of the target's row.
RetryDue(op) ==
  /\ "retry" \in meanwhile.kinds
  /\ db.ops[op].status \in {"failed", "partially_failed"}
  /\ SyncCall("task", db.ops[op].user, op, "stored") \notin Waiting
  /\ calls' = Joined(calls, Task(db.ops[op].user, op, "stored"))
  /\ UNCHANGED <<db, sessions, meanwhile>>

Meanwhile ==
  /\ \/ \E a \in Accounts :
          \/ AdminUpdates(a) \/ AdminDeletes(a) \/ AdminRestores(a)
          \/ AdminEnables(a) \/ AdminPurges(a)
     \/ \E op \in 1..Len(db.ops) : RetryDue(op)
  /\ UNCHANGED todo

OperationsNext ==
  (\E a \in Accounts : SyncStarts(a) \/ TaskStep(a)) \/ Meanwhile

\* The process dies and restarts (bound: once): no coroutine survives.
OperationsLost ==
  /\ "crash" \in meanwhile.kinds
  /\ meanwhile' = [meanwhile EXCEPT
                    !.kinds = (@ \ {"crash"}) \cup {"crashed"}]
  /\ calls' = [a \in Accounts |-> <<>>] /\ sessions' = {}
  /\ todo' = [by \in Coroutines |-> <<>>]
  /\ UNCHANGED db

\* The event loop runs what is ready, and a lock that is free is taken.
OperationsFairness ==
  \A a \in Accounts : WF_opVars(SyncStarts(a) \/ TaskStep(a))

=============================================================================
