---------------------------- MODULE BulkWorkflow ----------------------------
(***************************************************************************)
(* Changes of many accounts at once.  na_sso/bulk.py: a file or an API     *)
(* request is validated into a saved preview, executed under one parent    *)
(* operation and worked off row by row.  na_sso/users.py: the selection of *)
(* an inventory page is confirmed once and its operations run as the       *)
(* background tasks of one response.                                       *)
(*                                                                         *)
(* One job and one confirmation are explored; targets are abstracted to    *)
(* "assigned anywhere".                                                    *)
(***************************************************************************)
EXTENDS AccountOperations, SequencesExt

CONSTANTS
  Uploads,  \* the inputs to explore: sequences of rows
  Runners,  \* the coroutines that may execute the job, "bulk1" first
  Selections \* the selections to confirm: sequences of accounts

ASSUME BulkAssumption ==
  /\ Runners \cup {"selection"} \subseteq Coroutines /\ "selection" \notin Runners
  /\ IsFiniteSet(Runners)
  /\ Uploads \subseteq Seq([user : Accounts, action : {"onboard", "offboard"}])
  /\ Selections \subseteq Seq(Accounts)

VARIABLES
  job,      \* the bulk_workflows row
  jobRows,  \* its bulk_workflow_rows
  runner,   \* what became of each execution, the selection's among them
  confirmed \* the parent operation of the confirmed selection

bulkVars == <<job, jobRows, runner, confirmed>>

RowStatus == {"invalid", "pending", "queued", "succeeded", "failed"}

JobRow ==
  [user : Accounts, action : {"onboard", "offboard"}, result : RowStatus,
   op : Nat, password : {"none", "stored", "downloaded"}]

JobStatus == {"none", "previewed", "running"} \cup
             {"completed", "partially_failed", "failed"}

ParentStatus == {"none", "succeeded", "partially_failed", "failed"}

BulkTypeOK ==
  /\ job \in [status : JobStatus, succeeded : Nat, failed : Nat]
  /\ jobRows \in Seq(JobRow)
  /\ runner \in [Runners \cup {"selection"} ->
                    {"idle", "scheduled", "running", "ended", "raised", "lost"}]
  /\ confirmed \in ParentStatus

BulkInit ==
  /\ job = [status |-> "none", succeeded |-> 0, failed |-> 0]
  /\ jobRows = <<>>
  /\ runner = [k \in Runners \cup {"selection"} |-> "idle"]
  /\ confirmed = "none"
-----------------------------------------------------------------------------
(***************************************************************************)
(* Preview: nothing but the preview is written.                            *)
(***************************************************************************)
\* The errors of a row that depend on more than its own fields.
Valid(upload, i) ==
  LET row == upload[i]
      acc == db.acct[row.user]
  IN /\ \A j \in 1..(i - 1) : upload[j].user # row.user
     /\ acc.exists => acc.desired # "delete"
     /\ row.action = "offboard" => acc.exists /\ acc.assigned

\* A key that is known returns its workflow, so this happens once.
PreviewBulkWorkflow(upload) ==
  /\ job.status = "none"
  /\ jobRows' = [i \in DOMAIN upload |->
                   [user |-> upload[i].user, action |-> upload[i].action,
                    result |-> IF Valid(upload, i) THEN "pending"
                                                   ELSE "invalid",
                    op |-> NoOp, password |-> "none"]]
  /\ job' = [job EXCEPT
               !.status = "previewed",
               !.failed = Cardinality({i \in DOMAIN upload :
                                         ~Valid(upload, i)})]
  /\ UNCHANGED <<runner, confirmed, opVars>>
-----------------------------------------------------------------------------
(***************************************************************************)
(* Execution: prepare_bulk_execution goes through the rows in one          *)
(* transaction.  w is what it has written so far: the rows of the accounts *)
(* and operations, and the job's rows.                                     *)
(***************************************************************************)
Protected(a, d) == d.acct[a].exists /\ d.acct[a].desired = "delete"

WithResult(w, i, result) ==
  [d |-> w.d, rows |-> [w.rows EXCEPT ![i].result = result]]

Queue(w, i, cmd) ==
  LET d == Requested(cmd, w.rows[i].user, w.d)
  IN [d    |-> d,
      rows |-> [w.rows EXCEPT ![i].result = "queued", ![i].op = Len(d.ops)]]

Assign(w, a, assigned) ==
  [d |-> [w.d EXCEPT !.acct[a].assigned = assigned], rows |-> w.rows]

\* A new account starts with a temporary password.
Onboard(w, i) ==
  LET a == w.rows[i].user
  IN IF ~w.d.acct[a].exists
     THEN Queue([d    |-> [w.d EXCEPT !.acct[a] = FreshAccount],
                 rows |-> [w.rows EXCEPT ![i].password = "stored"]],
                i, "create")
     ELSE IF Rejects("update", a, w.d)
     THEN WithResult(Assign(w, a, TRUE), i, "failed")
     ELSE Queue(Assign(w, a, TRUE), i, "update")

\* Mutant of Offboard: the assignment goes before the operation is requested,
\* as it does when a row onboards.
OffboardFirst(w, i) ==
  LET a == w.rows[i].user
  IN IF ~w.d.acct[a].exists \/ Rejects("update", a, w.d)
     THEN WithResult(Assign(w, a, FALSE), i, "failed")
     ELSE Assign(Queue(w, i, "update"), a, FALSE)

Offboard(w, i) ==
  LET a == w.rows[i].user
  IN IF ~w.d.acct[a].exists \/ Rejects("update", a, w.d)
     THEN WithResult(w, i, "failed")
     ELSE Assign(Queue(w, i, "update"), a, FALSE)

Prepare(w, i) ==
  IF w.rows[i].result = "invalid" THEN w
  ELSE IF Protected(w.rows[i].user, w.d) THEN WithResult(w, i, "failed")
  ELSE IF w.rows[i].action = "onboard" THEN Onboard(w, i)
  ELSE Offboard(w, i)

Prepared ==
  FoldLeft(LAMBDA w, i : Prepare(w, i), [d |-> db, rows |-> jobRows],
           [i \in DOMAIN jobRows |-> i])

\* Every request of a running job starts run_bulk_workflow once more (where
\* "twice" explores it); one of a finished job does nothing.
ExecuteBulkWorkflow(k) ==
  /\ job.status \in {"previewed", "running"}
  /\ runner[k] = "idle"
  /\ IF k = "bulk1" THEN UNCHANGED meanwhile ELSE Asks("twice")
  /\ IF job.status = "previewed"
     THEN /\ db' = Prepared.d /\ jobRows' = Prepared.rows
          /\ job' = [job EXCEPT !.status = "running"]
     ELSE UNCHANGED <<db, jobRows, job>>
  /\ runner' = [runner EXCEPT ![k] = "scheduled"]
  /\ UNCHANGED <<confirmed, calls, sessions, todo>>
-----------------------------------------------------------------------------
(***************************************************************************)
(* run_bulk_workflow.                                                      *)
(***************************************************************************)
Count(rs, result) == Cardinality({i \in DOMAIN rs : rs[i].result = result})

FinalJob(rs) ==
  LET done   == Count(rs, "succeeded")
      failed == Len(rs) - done
  IN [status |-> IF failed = 0 THEN "completed"
                 ELSE IF done > 0 THEN "partially_failed" ELSE "failed",
      succeeded |-> done, failed |-> failed]

\* The last row is done: the job ends unless another execution ended it.
Finish(k, rs) ==
  /\ job' = IF job.status = "running" THEN FinalJob(rs) ELSE job
  /\ runner' = [runner EXCEPT ![k] = "ended"]

\* The numbers up to n that are in S, in order.
Ascending(S, n) ==
  FoldLeft(LAMBDA list, i : IF i \in S THEN Append(list, i) ELSE list,
           <<>>, [i \in 1..n |-> i])

QueuedRows ==
  Ascending({i \in DOMAIN jobRows : jobRows[i].result = "queued"}, Len(jobRows))

RowCall(k, i) == SyncCall(k, jobRows[i].user, jobRows[i].op, "stored")

RunBulkWorkflow(k) ==
  /\ runner[k] = "scheduled"
  /\ Begins(k, [n \in DOMAIN QueuedRows |-> RowCall(k, QueuedRows[n])])
  /\ IF QueuedRows = <<>> THEN Finish(k, jobRows)
     ELSE runner' = [runner EXCEPT ![k] = "running"] /\ UNCHANGED job
  /\ UNCHANGED <<jobRows, confirmed, db, sessions, meanwhile>>

\* The operation k waits for, by its call or its session.
OpOf(k) == {c.op : c \in Awaits(k)} \cup {s.op : s \in Holds(k)}

\* Mutant of RowResults: what has not failed has succeeded.
RowResultsNotFailed(k, d) ==
  [i \in DOMAIN jobRows |->
     IF jobRows[i].op \in OpOf(k)
     THEN [jobRows[i] EXCEPT
             !.result = IF d.ops[jobRows[i].op].status # "failed"
                        THEN "succeeded" ELSE "failed"]
     ELSE jobRows[i]]

\* The row takes the status of its operation, read when the call is back.
RowResults(k, d) ==
  [i \in DOMAIN jobRows |->
     IF jobRows[i].op \in OpOf(k)
     THEN [jobRows[i] EXCEPT
             !.result = IF d.ops[jobRows[i].op].status = "succeeded"
                        THEN "succeeded" ELSE "failed"]
     ELSE jobRows[i]]

BulkRowReturns(k) ==
  /\ runner[k] = "running"
  /\ Returns(k) /\ GoesOn(k)
  /\ jobRows' = RowResults(k, db')
  /\ IF todo[k] = <<>> THEN Finish(k, jobRows') ELSE UNCHANGED <<job, runner>>
  /\ UNCHANGED <<confirmed, meanwhile>>

BulkRowRaises(k) ==
  /\ runner[k] = "running"
  /\ Raises(k) /\ Breaks(k)
  /\ runner' = [runner EXCEPT ![k] = "raised"]
  /\ UNCHANGED <<job, jobRows, confirmed, meanwhile>>

\* bulk_import_credentials: the stored passwords are handed out and erased.
DownloadCredentials ==
  /\ \E i \in DOMAIN jobRows : jobRows[i].password = "stored"
  /\ jobRows' = [i \in DOMAIN jobRows |->
                   [jobRows[i] EXCEPT !.password = IF @ = "stored"
                                                   THEN "downloaded" ELSE @]]
  /\ UNCHANGED <<job, runner, confirmed, opVars>>
-----------------------------------------------------------------------------
(***************************************************************************)
(* users.py, bulk_execute: the confirmed selection.  w holds the rows, the *)
(* calls to make and the numbers of accounts that were accepted or not.    *)
(***************************************************************************)
Refused(w) ==
  [d |-> w.d, calls |-> w.calls, accepted |-> w.accepted, failed |-> w.failed + 1]

Accepted(w, d, list) ==
  [d |-> d, calls |-> w.calls \o list, accepted |-> w.accepted + 1,
   failed |-> w.failed]

\* An operation for the change of column: refused when the account is busy.
Change(w, a, cmd, column, value) ==
  IF w.d.acct[a][column] = value THEN Accepted(w, w.d, <<>>)
  ELSE IF Rejects(cmd, a, w.d) THEN Refused(w)
  ELSE LET d == Requested(cmd, a, w.d)
       IN Accepted(w, [d EXCEPT !.acct[a][column] = value],
                   <<SyncCall("selection", a, Len(d.ops), "stored")>>)

\* The failed operations of a: the targets to retry name them.
FailedOps(a, d) ==
  Ascending({o \in 1..Len(d.ops) :
               d.ops[o].user = a
               /\ d.ops[o].status \in {"failed", "partially_failed"}}, Len(d.ops))

RetryAccount(w, a) ==
  LET failed == FailedOps(a, w.d)
  IN IF failed = <<>> THEN Refused(w)
     ELSE Accepted(w, w.d,
                   [n \in DOMAIN failed |->
                      SyncCall("selection", a, failed[n], "stored")])

Apply(w, a, action) ==
  IF ~w.d.acct[a].exists \/ w.d.acct[a].desired = "delete" THEN Refused(w)
  ELSE CASE action = "disable"  -> Change(w, a, "disable", "disabled", TRUE)
         [] action = "assign"   -> Change(w, a, "update", "assigned", TRUE)
         [] action = "unassign" -> Change(w, a, "update", "assigned", FALSE)
         [] action = "retry"    -> RetryAccount(w, a)

\* A token that has been used changes nothing, so this happens once.  (For the
\* behaviours that explore selections.)
BulkExecute(selection, action) ==
  LET w == FoldLeft(LAMBDA v, a : Apply(v, a, action),
                    [d |-> db, calls |-> <<>>, accepted |-> 0, failed |-> 0],
                    selection)
  IN /\ "select" \in meanwhile.kinds /\ confirmed = "none"
     /\ db' = w.d
     /\ confirmed' = IF w.failed = 0 THEN "succeeded"
                     ELSE IF w.accepted > 0 THEN "partially_failed"
                     ELSE "failed"
     /\ Begins("selection", w.calls)
     /\ runner' = [runner EXCEPT !["selection"] =
                      IF w.calls = <<>> THEN "ended" ELSE "running"]
     /\ UNCHANGED <<job, jobRows, sessions, meanwhile>>

SelectionReturns ==
  /\ runner["selection"] = "running"
  /\ Returns("selection") /\ GoesOn("selection")
  /\ runner' = [runner EXCEPT !["selection"] =
                   IF todo["selection"] = <<>> THEN "ended" ELSE @]
  /\ UNCHANGED <<job, jobRows, confirmed, meanwhile>>

SelectionRaises ==
  /\ runner["selection"] = "running"
  /\ Raises("selection") /\ Breaks("selection")
  /\ runner' = [runner EXCEPT !["selection"] = "raised"]
  /\ UNCHANGED <<job, jobRows, confirmed, meanwhile>>
-----------------------------------------------------------------------------
BulkStep(k) ==
  RunBulkWorkflow(k) \/ BulkRowReturns(k) \/ BulkRowRaises(k)

SelectionStep == SelectionReturns \/ SelectionRaises

BulkNext ==
  \/ \E upload \in Uploads : PreviewBulkWorkflow(upload)
  \/ \E k \in Runners : ExecuteBulkWorkflow(k) \/ BulkStep(k)
  \/ DownloadCredentials
  \/ \E selection \in Selections :
       \E action \in {"disable", "assign", "unassign", "retry"} :
         BulkExecute(selection, action)
  \/ SelectionStep

\* The process restarts: every execution is gone.
BulkLost ==
  /\ runner' = [k \in DOMAIN runner |->
                  IF runner[k] \in {"scheduled", "running"} THEN "lost"
                                                           ELSE runner[k]]
  /\ UNCHANGED <<job, jobRows, confirmed>>

\* The event loop runs what is ready.
BulkFairness ==
  WF_<<bulkVars, opVars>>(SelectionStep \/ \E k \in Runners : BulkStep(k))
-----------------------------------------------------------------------------
(***************************************************************************)
(* Properties.                                                             *)
(***************************************************************************)
\* A row reports success only for an operation that has succeeded: the status
\* is read after an await, while requests supersede and retry operations.
SucceededRowsAreDone ==
  \A i \in DOMAIN jobRows :
    jobRows[i].result = "succeeded" =>
      db.ops[jobRows[i].op].status = "succeeded"

\* A finished job counts its rows as they are, the invalid ones among the
\* failed, when it was executed once.  (A second execution awaits the same
\* operations: one that failed for the first is repaired by the second after
\* the job has ended, and the counts are those of the first.)
CountsAgree ==
  /\ job.status \in {"completed", "partially_failed", "failed"}
  /\ Cardinality({k \in Runners : runner[k] # "idle"}) = 1
  => /\ job.succeeded = Count(jobRows, "succeeded")
     /\ job.failed = Len(jobRows) - job.succeeded

\* What a job reports, row by row and in its counts, is what happened.
JobAgrees == SucceededRowsAreDone /\ CountsAgree

\* An offboarding row that is refused leaves the account as it was: while the
\* rows are prepared, one that fails because another operation is active
\* unassigns nothing.
RefusedOffboardingKeeps ==
  [][\A i \in DOMAIN jobRows :
       /\ jobRows[i].result = "pending" /\ jobRows'[i].result = "failed"
       /\ jobRows[i].action = "offboard"
       => db'.acct[jobRows[i].user].assigned
            = db.acct[jobRows[i].user].assigned]_<<bulkVars, opVars>>

\* A job that was approved ends, and each of its rows with a result, unless
\* the execution was lost or met an exception.
JobEnds ==
  job.status = "running" ~>
    \/ job.status \notin {"previewed", "running"} /\ Count(jobRows, "queued") = 0
    \/ \E k \in Runners : runner[k] \in {"lost", "raised"}
=============================================================================
