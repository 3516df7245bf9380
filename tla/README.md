# Verification of na-sso

na-sso manages user accounts on a set of targets (OPNsense, Nexus, Nextcloud,
Jenkins, GitLab, Gitea, Immich, Nginx Proxy Manager, SSH hosts): an operator
creates, edits and deletes accounts, a user chooses a password, and the program
moves the account on every assigned target until the target agrees. It is one
Python process: a FastAPI application, a retry worker and a notification worker
on one asyncio event loop over one SQLite database.

This directory holds TLA+ models of that program, TLC configurations that check
them on small instances, and theorems about them checked by TLAPS. Everything is
translated from the source; paths below are relative to `src/`.

1. [The system](#1-the-system)
2. [Modules](#2-modules)
3. [Runs](#3-runs)
4. [Fairness](#4-fairness)
5. [Proofs](#5-proofs)
6. [Where the code and its documents disagree](#6-where-the-code-and-its-documents-disagree)
7. [What is not modelled](#7-what-is-not-modelled)
8. [Plan](#8-plan)

## 1. The system

### Components

| Component | Source (`na_sso/`) | State | Operations | What makes it correct |
|---|---|---|---|---|
| Lifecycle contract | `lifecycle.py` | none | `decide_transition`, `normalise_sync_state`, `sync_state_is_terminal` | one unfinished operation per account; every state is finished or somebody's work |
| Operations | `operations.py` | `lifecycle_operations`, `operation_target_attempts`, `managed_users.active_operation_id` | request, start, resume, finish | a finished operation is history; a conflict never changes anything |
| Synchronization | `sync.py` | `sync_states`, `pending_secret`, a lock per account, the retry worker | `sync_user`, `retry_due`, `expire_due`, `credential_handoff` | a row says what is true of the target; failures heal; no password goes back or leaks |
| User lifecycle | `users.py` | `managed_users` | create, update, reset, delete, restore, purge, retry | removal only while deletion is wanted; a completed deletion leaves nothing |
| Password decisions | `auth.py`, `security.py` | password hash and history, `password_decision_kind` | login, change, keep | a temporary password stays local; the chosen one arrives |
| Administrator MFA | `mfa.py` | `admin_mfa`, WebAuthn credentials, challenges | enrol, verify, recovery codes | a challenge or a code is used once |
| Target onboarding | `target_credentials.py`, `status.py` | `target_credentials` | save, probe, probe worker | a synchronization uses only credentials that were proved |
| Connectors | `connectors/*.py` | the account on the target | ensure, disable, delete, snapshot, probe | idempotent; an answer is one of four kinds |
| SSH keys | `ssh_keys.py` | `user_ssh_keys` | add, rotate, revoke, expire | the old key is revoked only after the new one is in place |
| Assignment profiles | `assignments.py` | profiles, exceptions, applications | publish, apply, except | the union of profiles and exceptions is what is assigned |
| Bulk workflows | `bulk.py` | `bulk_workflows` and rows | preview, confirm, run | a row is applied once, whatever is replayed |
| Reconciliation | `reconciliation.py`, `reconcile.py` | runs and findings | scan, preview, approve, repair | a repair changes only what was approved |
| Unmanaged accounts | `unmanaged.py` | findings | discover, ignore, adopt, remove | an approval removes one account once |
| Governance | `governance.py`, `inventory.py` | lifecycle policies, reviews | schedule, scan, review | start and end each take effect once |
| Automation API | `api.py`, `api_contract.py` | `api_idempotency_records`, rate windows | begin, finish, replay | one effect per key |
| Service accounts | `service_accounts.py` | accounts and credentials | issue, rotate, revoke | an overlap ends; a revoked credential is dead |
| Notifications | `notifications.py`, `email_delivery.py` | `webhook_deliveries`, endpoint states | enqueue, deliver, toggle, requeue | every delivery ends; what is delivered was received |
| Audit | `audit*.py` | `audit_events` | record, query, retain | append-only |
| Startup | `db.py`, `main.py`, `config.py` | the schema | `init_db`, the workers | a restart puts open password decisions back on hold |

### How they interact

A request handler changes the account row, the target rows and the operation
table in one transaction and queues `sync_user` as a background task. `sync_user`
waits for the account's `asyncio.Lock`, picks or resumes an operation, and goes
through the targets: it commits "pending", awaits the connector, and writes the
result. `retry_worker` calls the same function for due failures and expired
passwords. A login or a password change calls it through `credential_handoff`.
Probes decide which targets `get_connectors` offers. Governance, bulk,
reconciliation and SSH keys are further callers: they request operations, await
`sync_user` for one account after the other and record what became of each.

### What is hard

* **Handlers run while a synchronization awaits.** The lock protects
  synchronizations from each other, not from handlers. A synchronization keeps one
  SQLAlchemy session over all its awaits (`expire_on_commit=False`): it goes on
  with the rows it read at its start and writes back the columns it changed.
* **Work is queued by operation ID.** By the time a queued call gets the lock, its
  operation may be finished, superseded, or belong to a past decision.
* **Answers are lost.** A connector call may take effect and fail.
* **Nothing resumes after a restart.** Rows and operations are durable, coroutines
  are not.
* **One worker for everything.** `retry_worker` has no exception handler.

`PROJECT.json` lists each hazard with its line and the properties that cover it.

## 2. Modules

| Module | What it is |
|---|---|
| `Lifecycle` | the persisted values and pure decisions of `lifecycle.py` |
| `SyncEngine` | one account: its rows, operations, the lock's queue, the session in flight, the retry worker, the targets; the handlers that feed them; restarts |
| `AccountPromise` | what na-sso promises of an account on its targets, without machinery |
| `SyncEngineProofs` | TLAPS theorems about `SyncEngine`: types and passwords |
| `SyncHistoryProofs` | TLAPS theorems about `SyncEngine`: failures and successes on record, one unfinished operation, rest means settled |
| `SyncPromiseProofs` | TLAPS theorems about `SyncEngine`: what is presented as off, removals, and the refinement of `AccountPromise` |
| `Notifications` | the delivery queue, its worker and the operator's controls |
| `TargetCredentials` | credential revisions, probes, the probe worker |
| `SshKeys` | the SSH keys of an account, and the synchronizations their changes wait for |
| `AccountOperations` | the operations of several accounts, seen from the workflows that request them and await them: administrators, the retry worker, bulk actions on a selection |
| `BulkWorkflow` | bulk onboarding and offboarding, on `AccountOperations` |
| `Governance` | lifecycle policies and access reviews, on `AccountOperations` |
| `Comparison` | `compare_snapshot` as operators, beside a reference definition |
| `Reconciliation` | runs, approval and repairs, on `AccountOperations` and `Comparison` |
| `UnmanagedRemoval` | accounts found on a target and what is decided about them |
| `AutomationApi` | service accounts, the rate window, idempotency records |
| `Mfa` | the second factors of an administrator and the sign-in that asks for them |
| `Assignments` | profile versions, their application, exceptions and direct assignments |
| `MCSyncEngine`, `MCRecovery`, `MCBackground`, `MCWorkflows`, `MCAccess` | what TLC needs to instantiate them; `MCRecovery` puts the two accounts of the liveness run side by side, the last three several modules |
| `FoldProofs` | TLAPS lemmas about folds over sets and sequences, induction over a finite set, and the least number of a set |
| `WorkflowProofs` | TLAPS theorems about `AccountOperations` and the workflows on it, and about `Comparison`; uses `FoldProofs` |
| `BackgroundProofs` | TLAPS theorems about `Notifications`, `TargetCredentials` and `SshKeys` |
| `AccessProofs` | TLAPS theorems about `UnmanagedRemoval`, `Assignments` and `Mfa` |
| `AutomationApiProofs` | TLAPS theorems about `AutomationApi`; uses `FoldProofs` |

### `SyncEngine`

Code between two awaits is one atomic step, so a request handler is one action and
a synchronization is one action per awaited connector call.

| State | Code |
|---|---|
| `user` | the `managed_users` row; `secret` and `pwd` are password *versions* (0 is none) for `pending_secret` and the hash |
| `rows[t]` | the `sync_states` row of a target; `retry` says that `next_retry_at` is set |
| `ops` | `lifecycle_operations` of the account; an ID is the position |
| `available` | targets with verified credentials (`get_connectors`) |
| `calls` | `sync_user` calls that wait for the lock, in order |
| `sess` | the session in flight: what it read or last wrote (`user`, `rows`, `status`), what is left to do (`todo`), which call it awaits (`at`, `doing`) |
| `worker` | `retry_worker`: alive, awaiting a synchronization, and the list it read |
| `remote[t]` | the account on the target and the password version it holds |
| `temps` | history variable: the versions that were set as temporary passwords |

| Action | Code |
|---|---|
| `SyncStarts`, `SyncDropped`, `SyncRaises` | `sync_user` gets the lock: it works, returns `None`, or raises `OperationConflict` |
| `ConnectorReturns` | an awaited call ends, the row is written, and the loop goes on to the next call or to the end of the operation |
| `SessionLost` | the account was purged under the session |
| `UpdateUser`, `ResetPassword`, `DeleteUser`, `RestoreUser`, `PurgeUser`, `RetryTarget` | the handlers of `users.py` |
| `Login`, `ChangePassword`, `KeepPassword` | the handlers of `auth.py`, with `credential_handoff` |
| `WorkerExpires`, `WorkerScans`, `WorkerCalls` | `expire_due`, `retry_due` and the calls they await |
| `ProbeChanges` | verification of a target is revoked or restored |
| `Restart` | the process stops anywhere; `init_db` runs |

`Advance` is the rest of the loop of `_sync_user` after a commit: it passes over
targets that need no call and either awaits the next or ends the operation. The
order in which the connectors are tried is configuration, so it is left open.
`FlushRow`, `FlushUser` and `FlushOp` are SQLAlchemy's write-back: a column is
written when the session changed it, and the row's own value is kept otherwise.
What is abstracted: times (a failure is scheduled or not), attempts and details
(history nothing reads), names, groups and keys, and password policy.

### `AccountPromise`

Five actions of an operator, a user and targets: a target holds a password the user
chose and never an older one than before; an account is removed only while its
deletion is wanted. `SyncEngine` states the refinement mapping (`Promise`) and run
`SyncAll` checks it: `latest` is the account's password version and `wanted` its
`desired_action`.

### `Notifications`

`queue[d]` is the row of one event for one destination, `batch` what the worker read
in a scan, `sending` the delivery whose POST or mail is awaited with the row as it
was read. `Answered` writes the columns that differ from what was read, so an
operator's `Disable`, `Enable` or `Requeue` during the POST keeps some of its
columns and loses others. A lost answer is an outcome of its own. `NotifyRestart`
stands for a stopped process and for an exception that makes `notification_worker`
drop the rest of a scan.

### `TargetCredentials`

`cred[t]` is the credential row, `awaited` the probes in flight with the revision
whose payload they read, `accepts` what the target would accept, `proved` the
history of what it did accept. Credentials may be saved while a probe of the target is
awaited, which then verifies a revision it never tried (`ProbeRace`).

### `SshKeys`

`key[k]` is the status of a key, `onTarget` what the target's `authorized_keys`
holds, `waiting` the `sync_user` calls of handlers that wait for the lock, each with
what its handler does afterwards (a replacement of one key by another, or nothing),
`session` the synchronization that holds the lock with the keys it read at its start.
An administrator's operation (`RequestOther`) makes `sync_user` return `None` to the
handlers; a failed synchronization is taken up by the retry worker. This is
`sync_user` reduced to what a handler of `ssh_keys.py` can tell: which operation it
worked under, what it read, and how it ended.

### `AccountOperations`

`db` holds the account rows and the operation table, `calls` the background tasks,
`sessions` the synchronizations that hold a lock, `todo` the coroutines that await
one `sync_user` after the other. `Requested` and `Rejects` are
`request_operation`, on `Lifecycle`'s `DecideTransition`; `Served` is what a
synchronization makes of the operation it is given (`resume_operation`). How targets
answer is left open: an operation ends as succeeded or failed, or, where a behaviour
has room for it ("unfinished"), `sync_user` returns with a target that is neither, as in
the deletion of an account with an unassigned target (section 6), and leaves the
operation running and active (`SessionStops`). `meanwhile` is the interference a
behaviour has room for: edits, disabling, deletion, restoration, purging, retries, a
selection, unfinished operations, a crash.

| Workflow | State | Actions |
|---|---|---|
| `BulkWorkflow` | `job`: status and counts; `jobRows`: account, action, result, operation; `runner`: what became of each execution; `confirmed` | `PreviewBulkWorkflow`, `ExecuteBulkWorkflow` (one transaction over all rows), then one awaited operation after the other (`RunBulkWorkflow`, `BulkRowReturns`), also twice over; `BulkExecute` and its returns for a confirmed selection |
| `Governance` | `policies`, `reviews` with items, `worker`, and `today`, the clock | `SavePolicy`, `DayPasses`, the worker's scan over all policies in one transaction and its awaited calls, creation, decisions and completion of reviews |
| `Reconciliation` | `run` with its attempts, approval and counts, `pairs`, `findings`, and `repairer`, the coroutine of a repair | request, discovery, its retries, preview, approval, expiry, repairs account by account |

### `UnmanagedRemoval`, `AutomationApi`, `Mfa`, `Assignments`

These depend on no operation of another component, or (assignments) on the fact only
that a refused request changes nothing. Each action is one handler, or the part of one
before or after its await.

| Module | State | Actions |
|---|---|---|
| `UnmanagedRemoval` | what the target has, what is assigned, findings with decision, presence and token, answers and removals in flight | discovery in three steps (asked, answered, processed), ignore, adopt, approve, remove in two steps |
| `AutomationApi` | credentials and their expiry, the window of accepted requests, records by key, requests in flight | create, issue, revoke; read; begin, replay, finish, fail; restart, the clock |
| `Mfa` | TOTP secret with its last counter, passkeys, recovery codes, the session version, the browser's cookies, the confirm request on its way with its copies of them, the handler that awaits | sign-in with each factor, enrolment, revocation, regeneration, expiries, changes of role, password and configuration |
| `Assignments` | versions with status and targets, the version in force, exceptions, the assigned targets, previewed applications | draft, publish, preview, confirm; exceptions; assignment by hand, restore, adoption |

`Comparison` states `compare_snapshot` as the code computes it, field by field, and
`ReportAgrees` says what the report must be for every wanted state, set of
capabilities and snapshot: unread fields are unknown and never drifted, unsupported
ones are left out of the verdict, an absent identity hides the rest.

## 3. Runs

Passing runs. Together they take every action of the modules.

| Run | Question | Bounds |
|---|---|---|
| `SyncAll` | Every request and every fault on one target: temporary passwords stay local, failures are scheduled, "unassigned" and "expired" rows are disabled on the target, no password goes back, a succeeded operation stays, and the engine implements `AccountPromise` | 1 target, 3 operations, 2 passwords, 2 queued calls (881,310 states) |
| `SyncConflicts` | With the requests that are rejected while an operation runs, sign-ins, password choices and expiries: at most one unfinished operation, and everything settled when the work has drained | 2 targets (one needs a password, one cannot disable), 3 operations, 3 passwords |
| `SyncDelete` | Deletion, restore and purge with lost answers and crashes: a completed deletion leaves no account, nothing is removed unless wanted | 2 symmetric targets, 4 operations |
| `SyncRecovers` | Through outages, with no help but the worker's: the failures of an established account heal and it settles again and again; the password the user of a new account chooses arrives everywhere, or its deletion completes | established: 1 target, 3 operations, 2 queued calls; new: 3 targets (two need a password), one request after the creation; fair (2,129 states) |
| `Background` | Deliveries and probes through restarts and operator's controls; keys through rotations, revocations, failures and operations in between | webhook and mail for one event, 3 attempts, 2 requeues; 1 target, 2 revisions, 2 probes; 2 keys, one of them dated, 1 operation of an administrator (9,183 states) |
| `Workflows` | Bulk jobs, policies and reviews, runs and repairs beside other requests for the same accounts: what they record is what happened, and they end; `compare_snapshot` on every input | 2 accounts, jobs of 2 rows, a calendar of 3 days, 1 review, 1 saved policy of 4, 1 run with 2 attempts, 2 interfering requests (228,109 states) |
| `Access` | Found accounts, API requests, second factors and assignments: nothing is used twice, no decision is lost, an effect happens once | 1 name with 2 approvals; 1 credential, 1 key, 2 payloads, 4 ticks, window, limit and retention of 2; 1 passkey, 1 recovery code, 2 secrets, sets, versions and steps; 2 targets, 2 versions, 2 applications (2,703,715 states) |

Why these bounds are enough. The engine serves one account; its targets interact
only through the account's operation, secret and deletion, and two targets already
give a mixed outcome, one target that lags behind, and a run filtered to one of
them. Three operations are a finished one, a running one and its successor; two
waiting calls are one that is overtaken and one that overtakes. Two passwords
suffice for "older", three for a temporary one between two chosen ones. In
`Notifications`, the deliveries share only the worker; three attempts distinguish
the first, a middle and the last. A workflow meets other requests account by account,
so two rows (for two accounts, or twice for the same one) give a row before and a row
after any interference; three days are before, on and after a date; two attempts of a
run are one with another to come and the last. In `Access`, two approvals, secrets,
sets, versions and payloads are an old one and a new one; the clock of the API passes
a whole window or retention period and begins another; the two targets of a profile
are one it has and one it lacks.

A run that combines *all* requests on two targets is out of reach, and the
interesting general properties do not hold there (section 6), so the other runs
choose the requests that bear on their question. `SyncConflicts` has no delete
(which supersedes), no scans or retries and no crash; `SyncDelete` has no manual
retry and no worker; `SyncRecovers` has no manual retry, gives the established account
one target and its administrator alone, and the new one room for one sign-in, choice of
a password or deletion, because a second request overlaps the first or its retries.
`MCRecovery` leaves out requests only, and no request is fair, so the fairness it adds to
them is that of `FairSpec`. `Workflows` gives each workflow a few mixes of interference (`Mixes`
of `MCWorkflows`), without a second deletion beside repairs. Each of these exclusions
is a disagreement shown in section 6. The mixes of a workflow are also small for the
sake of the state space: each of them holds the requests that bear on one of its
hazards.

`MCBackground`, `MCWorkflows` and `MCAccess` explore one of their parts in a
behaviour: the parts share no variable (in `MCWorkflows` they share the accounts,
where one workflow is to another what any administrator is), so the product of their
states has nothing more to show. The runs leave deadlock unchecked because the system
may rest: no request is obliged to come.

Every property of a passing run has a mutant in `PROJECT.json`: an operator defined
before the one it replaces, such as `CredentialHandoffAlways` or `ResultOneMore`,
with a plausible bug that makes TLC report the property violated.

Violation runs: `RetryRace`, `DeleteRetried`, `SecretErased`, `ProbeRace`,
`RestoredRemoved`; see section 6.

## 4. Fairness

* `WF(Synchronize)`: asyncio runs a ready coroutine, its lock is first-in first-out,
  and an awaited connector call has a timeout.
* `WF(WorkerCalls)`: the worker goes on when its synchronization has ended.
* `SF(ScanFindsTarget(t))`: the scan repeats every `retry_scan_seconds` and the
  delay of a failure is capped, so a due target is not passed over for ever.
* `SF(Succeeds(t))`: a target asked again and again answers at last. Recovery from
  an outage supposes that the outage ends.
* In `Notifications` and `TargetCredentials` the same holds of scans and answers;
  taking up a delivery or a probe is strongly fair per delivery or target, because a
  restart or a toggle can disable the step, but not at that same point for ever.
* In `SshKeys`: weak fairness of taking the lock and of ending a session, strong
  fairness of a session that succeeds, since an outage ends.
* In `AccountOperations` and the workflows on it: weak fairness of background tasks,
  of the end of a synchronization, of the next step of a coroutine, and of the
  governance worker's scan. What a restart or an exception ends is not resumed, and
  the liveness properties (`JobEnds`, `EndComes`, `RunEnds`) say so; nor is an operation
  that a synchronization leaves running, so `EndComes` excepts it too. Jobs and runs end
  all the same: they count such an operation as failed.
* `Access` has safety properties only.
* Requests, toggles, probes by hand, days and restarts are not fair.

## 5. Proofs

`SyncEngineProofs` proves, for any targets, capabilities, sets of requests and
bounds (from `ConstantsAssumption` alone):

| Theorem | Statement |
|---|---|
| `TypeCorrect` | `Spec => []TypeOK` |
| `TemporaryPasswordStaysLocal` | `Spec => []TemporaryStaysLocal` |
| `NoPasswordRollback` | `Spec => PasswordNeverRollsBack` |

and `SyncHistoryProofs`, which extends it, from the same assumption:

| Theorem | Statement |
|---|---|
| `FailuresStayScheduled` | `Spec => []FailedIsScheduled` |
| `SuccessIsFinal` | `Spec => SucceededStays` |
| `OneOperation` | `Spec /\ ActsAlone => []OneUnfinished` |
| `QuietIsSettled` | `Spec => []QuietMeansSettled`, for `Requests \subseteq Plain` |
| `PlainActsAlone` | `Spec => ActsAlone /\ []OneUnfinished`, for `Requests \subseteq Plain` |

and `SyncPromiseProofs`, which extends that:

| Theorem | Statement |
|---|---|
| `DisabledStaysOff` | `Spec => []DisabledIsOff` |
| `PromiseKept` | `Spec /\ RestoredWhenDone => KeepsPromise` (the refinement of `AccountPromise`) |
| `PromiseKeptUnrestored` | `Spec => KeepsPromise`, for `"restore" \notin Requests` |
| `DeletionIsGone` | `Spec => []DeletedMeansGone`, for `Untargeted` requests |

Six of these have a hypothesis. Without it the property does not hold of the code
(section 6), so the theorem says under which circumstances it does:

* `ActsAlone`: no failed operation is resumed and no account purged while another
  operation is unfinished, and no deletion supersedes the operation a session works
  for. These three do not pass through the conflict rule of `decide_transition`.
* `RestoredWhenDone`: an account is restored only when no session runs and no removal
  is queued. The code asks for `deleted_at` and no active operation. Where no account
  is restored there is nothing to ask (`PromiseKeptUnrestored`).
* `Requests \subseteq Plain`: the requests are updates, disables, administrator resets,
  sign-ins, password choices and expiries, in any number and order and with any
  answers of the connectors. Of the other requests, a deletion, a retry, a scan of the
  worker, a probe or a restart each leaves, in some behaviour of the code, a pending
  target that nothing takes up or an operation that nothing ends (TLC shows one when
  the request is added to `SyncConflicts`); a restore or purge needs a deletion.
* `Untargeted` (`Requests \cap {"retry", "scan", "probe"} = {}`): any requests but the
  two that ask for one target and the one that takes a target away. A session given one
  target, or lacking one, records a deletion that is not complete (`DeleteRetried`, and
  section 6); every other request is allowed, in any order and whatever is in flight.

The type invariant is inductive. The two theorems about passwords need more, since
passwords travel from the account to the staged secret, into a session that may keep
it while the account changes, and to the target. The inductive invariant is

    Secrets == TypeOK /\ PasswordInv /\ OrderInv

* `PasswordInv`: what is staged, captured by a session or held by a target is one of
  the passwords the user chose (`Own`), and an account whose password is a temporary
  one is marked "initial" or "reset", the mark that stops `credential_handoff`.
* `OrderInv`: no target holds a newer password than the one staged or the one a
  session has captured, and no session captured a newer one than is staged. This is
  what forbids a rollback: only the session in flight writes to targets, and the lock
  admits one.

The proof splits a step into what a synchronization computes (`Computed`, from a
session that `Starting` describes) and the handlers, and has one lemma per action
family. `FlushRow`, `FlushUser`, `FlushOp`, `Advance` and `Request` have lemmas that
say what they preserve; they are used by name.

What is on record is written by handlers and by a session that holds an older copy of
it, so the theorems of `SyncHistoryProofs` rest on what a session has seen:

    History == TypeOK /\ FailedIsScheduled /\ (\A s \in sess : Sees(s) /\ Open(s))

* `Sees`: nobody but the session writes a row's operation, and a row that is failed
  now was failed when the session read it, since handlers only take rows out of
  failure; the target it calls is pending and unscheduled in its cache. So a failure
  the session records always writes the schedule with it (`FlushFollows`), and none
  that was there loses its schedule to a stale commit.
* `Open`: while the account exists, the session's operation has not succeeded. A
  handler can only cancel it or add another (`Continues`), and the session writes no
  other operation's status (`FlushOpAt`). A purge adds an operation that has
  succeeded, and from then on no session commits.

`OneOperation` needs to know which operation a session works for, since the last
commit of a session clears `active_operation_id`, whoever has set it:

    OneAtATime == History /\ Single /\ Referenced

* `Single`: the unfinished operations are at most the one the account points to, and
  if there is one, a session in flight works for it (`WorksFor`).
* `Referenced`: rows, queued calls and the worker's list name operations that exist.

`QuietMeansSettled` says nothing of the states in which something runs or waits. Its
inductive invariant does, and goes with the previous one:

    Calm == Undisturbed /\ QueueServed /\ Attended
              /\ (\A s \in sess : Tracks(s)) /\ Reachable /\ Rests

* `Undisturbed`: the account is wanted, every connector available, and all the retry
  worker does is to expire the account.
* `QueueServed` and `Attended`: at most one waiting call names an operation, the
  unfinished one, and an unfinished operation has a session or such a call. A call
  that is dropped for a conflict is therefore never the one its operation waits for
  (`DroppedCalm`), and `resume_operation` never raises (`HeadTakesUp`).
* `Tracks`: what a session does not see of the rows is a sign-in or an expiry, which
  waits behind it; what it sees as pending it still has to do. When it ends, what it has computed
  is final (`EndsFinal`), and so is its operation.
* `Reachable`: a pending target is assigned, about to be disabled, or being called, so
  that the next synchronization has it in its scope.
* `Rests`: with no session, and no call that waits or is to come, there is no pending
  target.

`PlainActsAlone` follows: under these requests the hypothesis of `OneOperation` always
holds.

`DisabledStaysOff` rests on `Presented == History /\ OffIsOff /\ (\A s \in sess :
SeesOff(s))`. What is presented as off is so on the target (`OffIsOff`) because the
session that presents it has asked for nothing else there, and because a row that is
presented as off now was already so when the session read it (`SeesOff`): no handler
presents a row as off, so a stale commit cannot turn an enabled target into one that
is shown as disabled.

`PromiseKept` rests on `Promised == Secrets /\ StillWanted`: while
the account is wanted, no removal is queued and no session was started for one or
remembers a wish for one. Each action is then a step of `AccountPromise` or leaves
`user.pwd`, `user.desired`, `temps` and `remote` alone; `Secrets` supplies that a
password that arrives is chosen and no older.

`DeletionIsGone` rests on

    Removal == TypeOK /\ WholeAccount /\ Unselected /\ Gone
                 /\ (\A s \in sess : Removes(s))

* `WholeAccount`: what waits is for the whole account, and every connector is there, so
  that a session of a deletion has every target to call that was ever selected.
* `Removes`: a session of a deletion calls for deletions only, and each target it is
  not about to call has lost the account or is one whose row it will not count as
  done. `deleted_at` is written when all are counted.
* `Unselected`: a target the account was never selected for does not hold it and is
  called by no session.
* `Gone`: while `deleted_at` stands no session creates the account again, because it
  was started for a deletion or has read that one is recorded (`Erases`). Nothing is
  said of what is wanted: a deletion may be recorded again after a restore (section 6).

`BackgroundProofs` proves, for any destinations, events, targets and bounds (from
`NotificationsAssumption` alone; `SshKeys` follows below):

| Theorem | Statement |
|---|---|
| `NotifyTypeCorrect` | `NotifySpec => []NotifyTypeOK` |
| `QueueTrue` | `NotifySpec => []QueueIsTrue` |
| `DeliveredIsFinal` | `NotifySpec => DeliveredStays` |
| `CredTypeCorrect` | `CredSpec => []CredTypeOK` |

The first three rest on `NotifyInv`. `WaitingIsServed`, one part of `QueueIsTrue`, is
not inductive alone: a held delivery becomes a waiting one when its destination is
enabled, so held rows must have attempts left too (`RowServed`); and an answer writes
over a row that may have changed, so what the worker read must have been waiting with
attempts left, and the row must not have become "delivered" meanwhile (`InFlight`).
`AnsweredRow` is the heart of it: the columns the worker writes and the ones it
leaves make a row that is served, held as it was, or ended.

The theorems about the other components of `Background` and `Access` hold for any
values of the constants the module's assumption admits.

| Module | About | Theorems | Inductive invariant |
|---|---|---|---|
| `BackgroundProofs` | `SshKeys` | `SshTypeCorrect`, `RevocationPends`, `RotationKeepsOld` | `SshInv`: the types and what keeps a revocation pending |
| `AccessProofs` | `Mfa` | `MfaTypeCorrect`, `CodesOnce`, `NoOrphans`, `VerifiedCurrent`, `RequiredFactor` | `SignInInv`, `ConfirmInv`, `TotpInv` and `RecoveryInv`, which hardly depend on each other |
| `AccessProofs` | `UnmanagedRemoval` | `UnmanagedTypeCorrect`, `SoundFindings`, `DiscoveryIsTimid` | the types and `SoundFinding` of every name |
| `AccessProofs` | `Assignments` | `AssignTypeCorrect`, `IntentsMatch`, `ApplicationsKeep` | the types, of which one says that a profile in force is published, and `IntentsMatchAssigned` |
| `AutomationApiProofs` | `AutomationApi` | `ApiTypeCorrect`, `CredentialsLive`, `ReplaysAnswer`, `RetentionHolds`, `RateHolds` | the types, `RecordInv`, `LiveCredentials`, `ReplayIsFirst`; `RateInv` for the rate |

* In `Mfa`, "no code twice since the last confirmation" needs that no code was accepted
  ahead of the last counter of the secret on file (`TotpInv`), and that recovery codes
  are spent of generated sets only (`RecoveryInv`). "Verified is current" needs it of
  every cookie that is held or about to be sent (`SignInInv`), and of the copy a
  confirm request carries (`ConfirmInv`): it names the version its password was given
  for.
* In `AutomationApi`, a request that outlives its record meets one begun since:
  records and requests carry numbers that are handed out once, and a request whose
  number is the record's has its payload. That the work begins once in a retention
  period follows from `RecordInv`: what was begun last has its record until the
  period is over.
* `RateBound` counts what every span of `RateWindow` ticks has accepted; the code counts
  what its window keeps. `RateInv` relates the two: of what was accepted since a tick
  `v` that the window has not left behind, all is still in the window. The sum of
  `accepted` over a span is first shown to be the cardinality of the pairs it counts
  (`SumCounts`), since sums are folds.
* In `UnmanagedRemoval` and `Assignments`, the property is inductive with the types;
  the action properties follow from it and from which action makes the step.

The type invariants of the modules that have a theorem for it (`NotifyTypeOK`,
`CredTypeOK`, `SshTypeOK`, `MfaTypeOK`, `UnmanagedTypeOK`, `AssignTypeOK`,
`ApiTypeOK`, and `TypeOK` of `SyncEngine`) are proved rather than run.

### Folds and induction

Loops over accounts, rows and groups, and sums, are folds of the community modules,
whose definition is a recursive function: a `CHOOSE` of which nothing is known until
such a function is shown to exist. The library's induction theorems take an operator
as a parameter, which no installed prover can instantiate. `FoldProofs` therefore
states induction for a *set* (`FiniteInduction`: a set `Good` of subsets of a finite
set D that has the empty one, and has s when it has every `s \ {x}`, has D), from the
least number of a set (`LeastNumber`, on cardinalities), which the pigeonhole theorem
of the library gives without induction.
From it follow that folds are defined (`FoldExists`, `FoldIsDefined`) and the rule the
other modules use (`FoldStays`): what holds of the initial value and is kept by every
step of the loop holds of the result. A loop invariant becomes the set of the values
that have it.

### The workflows

`WorkflowProofs` proves, for any accounts, days, jobs, pairs, findings and bounds
(from `AccountAssumption`, the assumption of each workflow, and `RunnersAssumption`,
that a bulk execution is not the coroutine of a repair):

| Theorem | Statement |
|---|---|
| `PoliciesHold` | `WorkflowsSpec => []PolicyHolds` |
| `DecisionsHold` | `WorkflowsSpec => []DeleteDecisionHolds` |
| `JobsAgree` | `WorkflowsSpec => []JobAgrees` |
| `OffboardingsKeep` | `WorkflowsSpec => RefusedOffboardingKeeps` |
| `RunsAgree` | `WorkflowsSpec => []RunAgrees` |
| `RepairsRemove` | `WorkflowsSpec => []RepairRemovesOnlyDeleted` |
| `ComparisonsAgree` | `WorkflowsSpec => []ComparisonAgrees` |
| `WorkflowsTyped` | `WorkflowsSpec => []WorkflowsTypeOK` |

* `OpsInv` comes first, for all of them: rows, queued calls, sessions and coroutines
  name operations that exist and belong to their account. `Kept` and `Stays` say what
  any other request, session or retry may do to a workflow's accounts: operations are
  added and never forgotten, one that succeeded stays so, a purged account stays
  purged, and a deletion is taken back by a restore only.
* Governance (`GovSafe`): `PolicyHolds` speaks of the days on which a policy is in
  force, and is not inductive: that an end was applied must also say that it has come
  and that no start can follow it, and that a start not yet applied leaves its account
  disabled (`PolicyOK`). The day's scan is one transaction over all accounts; `Scan` is
  its loop invariant. The mixes of governance have no restore, and `GovSafe` says so.
* Bulk jobs (`BulkSafe`): a row that reports success names an operation that
  succeeded; one that is queued names one of its account (`RowsOK`). The counts are
  those of the rows once the job has ended, if it was executed once, and then no
  execution is still to write (`CountsOK`). `Prepares` and `Accepts` are the loop
  invariants of preparation and of a confirmed selection. A refused offboarding
  (`OffboardingsKeep`) needs more of the preparation: after k rows (`PreparedTo`) the
  accounts of the others are assigned as they were, because rows that count name an
  account once (`Distinct`), and a row that is not prepared yet has no operation, so
  that no result reaches it (`Blank`).
* Reconciliation (`RunSafe`): what a finding says (`FindingsOK`), and how far its
  repair has come (`Progress`): the groups still to repair are drifted and not
  repaired, and the counts are those of the groups that are done. The repair's loop
  stops at the first group it has to await, so its invariant is indexed by the prefix
  gone through (`At`).
* A repair decides by what the account wants when its turn comes, and may have waited
  since. `RepairsRemove` rests on `Orderly`: one call or session works for an
  operation (`Separate`); what waits has not begun (`Unbegun`); a session that will
  clear `active_operation_id` leaves no free account meanwhile (`Occupied`); the
  operation of a repair that waits stays the account's active one, so that a restore
  is rejected (`Awaited`); and what the repair deletes is to be deleted
  (`Warranted`). The order holds where a repair meets the requests that `Mixes` gives
  it: no deletion is asked for again while it is under way (`RestoredRemoved` shows
  what that does) and the retry worker is quiet. The other workflows make no call of
  a repair (`NoneRepairs`).
* `ComparisonsAgree` is by cases on the kind of a field.

Model-checked only: liveness (beyond the proof system under fairness), and the
properties of the runs of section 6, which the code violates.

## 6. Where the code and its documents disagree

With a run of their own:

| Run | What the code does |
|---|---|
| `RetryRace` | `retry_due` reads the due targets with their operations and then awaits one repair after the other. A manual retry that finishes such an operation in between makes `resume_operation` raise in the worker, which ends it: nothing is retried until the next restart, although `README.md:21` promises automatic recovery. |
| `DeleteRetried` | A retry queued before a deletion reads `desired_action` when it gets the lock, deletes its one target, and sets `deleted_at` for the whole account while another target still holds it; `lifecycle.py:13` says that purge starts only after remote deletion is complete. |
| `SecretErased` | A session that carries the password before clears `pending_secret` at its end (`sync.py:322`) though the user has changed the password since: the new one is lost, the target keeps the old one and reads `ok`. `models.py:53` says "cleared once all targets sync", `docs/USER.md:39-40` that a new password propagates to every system. |
| `ProbeRace` | A probe's success is recorded on whatever revision is current when it returns (`docs/DEVELOPER.md:134-135`: each revision must pass a probe). |
| `RestoredRemoved` | A repair decides between ensuring and removing an account by what the account wants when the repair comes to it, not by what was approved: a repair confirmed as harmless removes (`docs/ADMIN.md:113-114`: destructive repairs require a second explicit confirmation). |

Met while modelling. In the engine, each visible by changing `Requests` or the bounds
in a configuration:

* A normal password change of a synchronized account stages nothing:
  `credential_handoff` passes over targets that are `ok` (`sync.py:47`), though
  `docs/USER.md:39-40` says that it propagates to every system.
* Deleting an account with an unassigned target never completes: the row's `ok` is
  normalised to `unassigned`, which is not terminal for a deletion (`lifecycle.py:238`
  against `docs/DEVELOPER.md:165,192`).
* Editing the profile of an account on CHPW hold enables the account on its target and
  labels it `chpw` (`users.py:229` against `README.md:51-52`: uncreated or disabled
  until a replacement is chosen). A reset, too, labels every assigned target whose row
  is not `ok` as `chpw` without disabling it.
* Adding `delete` to `SyncConflicts` violates `OneUnfinished`: the coroutine of a
  superseded operation is not cancelled and writes its status when it ends.
* Adding `scan` to `SyncDelete` violates `RemovedOnlyWhenWanted`: a removal queued for
  a failed target runs after the restore (`users.py:1032` asks for `deleted_at` and no
  active operation).
* Deletions that fail and are requested again do the same without any retry. A call of
  a failed deletion that still waits resumes it and takes `active_operation_id` from
  the newer deletion, so that a restore is accepted while that one waits; it then
  records `deleted_at` again on the restored account, whose later synchronizations
  remove it. With two such calls and a new password a restored account is removed after
  it was created again: TLC finds `RemovedOnlyWhenWanted` violated with one target,
  `Requests = {"delete", "restore", "password"}`, `Outcomes = {"ok", "fail"}`,
  `MaxOps = 10`, `MaxPwd = 4` and `MaxCalls = 4`. `SyncDelete` has two waiting calls
  and no password choices, where it holds.
* Adding `probe` to `SyncDelete` (with `update`, `delete` and `probe` as its requests)
  violates `DeletedMeansGone`. A session that creates the account confirms its second
  target after the deletion was requested, so that the row, already the deletion's,
  reads `ok`; the target's credentials then lose their proof; the session of the
  deletion calls the first target only, takes the other's `ok` for a completed
  deletion (`sync.py:268-290`) and records `deleted_at` while an enabled account is
  left (`lifecycle.py:13`).
* `scan` in `SyncConflicts` violates `QuietMeansSettled`: the retry reads its
  operation, an update takes the target over, and the retry then runs the old
  operation with nothing left to do, which stays "running" for good.
* A password chosen while a target is `pending_chpw_disable` is not staged for that
  target.
* An edit of an account whose target awaits credentials turns `awaiting_credentials`
  into `pending`; the creation then fails on each retry for want of a password.
* A second delete during a running deletion reuses its operation. The second queued
  call finds it finished and raises.
* A staged secret outlives its consumers when the last one is unassigned.
* Credentials whose first probe is lost to a crash are never probed automatically:
  `save_credentials` leaves `next_probe_at` empty.

In the workflows, modelled as they are and left out of what the properties say:

* `OperationConflict` out of `resume_operation` is caught by neither `sync_user` nor
  its callers: it also ends a bulk job, the rest of a selection, a repair, or the
  governance worker for good. Nothing resumes them at startup, and an operation that
  was queued and lost blocks its account until a deletion supersedes it.
* A rotation revokes the old key when `sync_user` returned `None`
  (`ssh_keys.py:163`, `_sync_succeeded`), that is, when the new key was left to another
  operation that may yet fail (`docs/USER.md:64`, `docs/PRODUCTION.md:27`,
  `README.md:26`: revoked after the replacement is in place).
* Two `execute_removal` calls for one finding both pass the one-use approval
  (`unmanaged.py:273`); an account that is adopted while its removal is awaited is
  deleted; an approval survives the absence of the account and covers one that
  reappears under the name; a removed account that reappears is never reopened
  (`docs/ADMIN.md:129-130`, `README.md:42-43`, `docs/PRODUCTION.md:35-36`).
* An exclusion made under an earlier profile, or before there was one, still counts
  when a profile is applied, and drops a target that was assigned by hand since
  (`assignments.py:90` returns early; `docs/ADMIN.md:148-152`,
  `docs/PRODUCTION.md:311-313`, `docs/DEVELOPER.md:277-282`: direct assignments are
  preserved).
* A TOTP confirmation that is posted twice is accepted twice: `mfa_totp_confirm` tests the
  signature and the age of its setup cookie, and not the counter, which it sets back
  (`mfa.py:489-536`); a code used since is then accepted again
  (`docs/PRODUCTION.md:195-196`, `docs/DEVELOPER.md:359-360`: a counter that was
  accepted is rejected). `CodesServeOnce` therefore counts from the last confirmation.
* Of the emergency root recovery codes only the last one that was used is remembered
  (`docs/PRODUCTION.md:161`).
* An onboarding row of a bulk job assigns its targets before its request is refused,
  and the assignment stays (`bulk.py:276`). The offboarding row asks first
  (`RefusedOffboardingKeeps`).
* `RepairRemovesOnlyDeleted` holds only while a deletion is requested once: a second
  deletion that reuses an operation lets a repair outlive the restore.

## 7. What is not modelled

Presentation (pages, feedback, dashboard, CLI), authorisation, encryption and
hashing, wording and audit details, schema upgrades, the mock targets, reminders of
reviews beyond their count, memberships within a target, the rate window of
unauthenticated addresses, OpenVPN settings. The dialogues of the connectors
(`connectors/*.py`) are modelled by their four outcomes: each is an exchange with a
program that is not in this repository, whose behaviour a model would have to invent.
In `Reconciliation`, the error that ends a run over more accounts than the configured
limit (`reconcile.py:62-64,106-115`) is left out, and in `UnmanagedRemoval` the limit on
the accounts a discovery takes from one target (`unmanaged.py:53`). Exponential delays
are abstracted to "due or not"; Python integers do not overflow.

`SshKeys` and `AccountOperations` use `sync_user` in abstract form: the operation it
works under, what it read at its start, and how it ended, with every ending of
`SyncEngine` (dropped, raised, a final status, or still running) in
`AccountOperations`; `SshKeys` leaves out the last, and supposes that the target of the
keys is available and that nobody writes its row meanwhile. That `SyncEngine`
implements those forms is an argument in the comments, not a checked refinement.

## 8. Plan

What remains, in this order:

1. A checked refinement from `SyncEngine` to the synchronization that `SshKeys` and
   `AccountOperations` suppose.
2. `QuietMeansSettled` under hypotheses of the kind of `ActsAlone`, that is, with
   retries, deletions and restarts that meet nothing under way.
3. Memberships in `Assignments`, OpenVPN settings, and the unauthenticated rate window.
