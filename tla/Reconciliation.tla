--------------------------- MODULE Reconciliation ---------------------------
(***************************************************************************)
(* Reconciliation (na_sso/reconcile.py): a preview compares the accounts   *)
(* with their targets, an administrator approves it once, and the repair   *)
(* puts one account after the other under an operation of its own.         *)
(*                                                                         *)
(* One run is explored, by hand or from the schedule.  What the targets    *)
(* show is chosen when they are read: they change on their own.            *)
(***************************************************************************)
EXTENDS AccountOperations, Comparison, SequencesExt

CONSTANTS
  Pairs,       \* assigned accounts and targets, as records [user, target]
  Scopes,      \* the sets of accounts to preview, Accounts among them
  Seen,        \* by pair, the snapshots to explore
  CanDo,       \* the capabilities of the targets
  MaxAttempts  \* max_attempts of scheduled discovery

ASSUME ReconciliationAssumption ==
  /\ "repair" \in Coroutines
  /\ IsFiniteSet(Pairs) /\ \A p \in Pairs : p.user \in Accounts
  /\ Scopes \subseteq SUBSET Accounts
  /\ MaxAttempts \in Nat \ {0}

VARIABLES
  run,      \* the reconciliation_runs row and its parent operation
  pairs,    \* what _assigned_pairs read at the start of the discovery
  findings, \* the reports so far: the reconciliation_findings rows
  repairer  \* the coroutine of execute_reconciliation_repair

reconcileVars == <<run, pairs, findings, repairer>>

FinalStatus == {"completed", "partially_failed", "failed"}

RepairStatus ==
  {"none", "running", "repaired", "failed", "conflict", "blocked_credentials"}

\* The fields of one account on one target; gone: its identity is not there;
\* removes: it is there and should not be.
Finding ==
  [status : {"in_sync", "drifted", "unknown"}, gone : BOOLEAN,
   removes : BOOLEAN, repair : RepairStatus, op : Nat]

ReconcileTypeOK ==
  /\ run \in [status : {"none", "discovering", "retrying", "previewed",
                        "approved", "running"} \cup FinalStatus,
              source : {"manual", "scheduled"}, attempt : 0..MaxAttempts,
              confirmed : BOOLEAN,
              parent : {"none", "queued", "running",
                "succeeded", "partially_failed", "failed"}]
  /\ DOMAIN pairs \subseteq Pairs /\ \A p \in DOMAIN pairs : pairs[p] \in BOOLEAN
  /\ DOMAIN findings \subseteq Pairs
  /\ \A p \in DOMAIN findings : findings[p] \in Finding
  /\ repairer \in [state : {"idle", "waits", "raised", "lost", "ended"},
                   groups : Seq(Pairs), done : Nat, failed : Nat]

ReconcileInit ==
  /\ run = [status |-> "none", source |-> "manual", attempt |-> 0,
            confirmed |-> FALSE, parent |-> "none"]
  /\ pairs = <<>>
  /\ findings = <<>>
  /\ repairer = [state |-> "idle", groups |-> <<>>, done |-> 0, failed |-> 0]
-----------------------------------------------------------------------------
(***************************************************************************)
(* Discovery: create_reconciliation_preview, refresh_reconciliation.       *)
(***************************************************************************)
ToBeAbsent(d, a) == d.acct[a].desired = "delete" \/ d.acct[a].deleted

\* _assigned_pairs: the accounts as they are now, whose rows the comparison
\* uses however long the reads take.
AssignedPairs(scope) ==
  [p \in {q \in Pairs : q.user \in scope /\ db.acct[q.user].exists}
     |-> ToBeAbsent(db, p.user)]

Refresh(scope) ==
  /\ pairs' = AssignedPairs(scope)
  /\ findings' = <<>>
  /\ UNCHANGED <<repairer, opVars>>

\* Of all accounts or of one; only the worker looks at all of them by schedule.
CreatePreview(source, scope) ==
  /\ run.status = "none"
  /\ source = "scheduled" => scope = Accounts
  /\ run' = [run EXCEPT !.status = "discovering", !.source = source,
                        !.attempt = 1]
  /\ Refresh(scope)

\* run_scheduled_reconciliation, once the delay of a retry is over.
RetryDiscovery ==
  /\ run.status = "retrying"
  /\ run' = [run EXCEPT !.status = "discovering", !.attempt = @ + 1]
  /\ Refresh(Accounts)

\* The reads run side by side.
Inspect(p, s) ==
  /\ run.status = "discovering"
  /\ p \in DOMAIN pairs \ DOMAIN findings
  /\ LET want == [absent |-> pairs[p], memberships |-> Memberships,
                  keys |-> PublicKeys]
         report == Compare(want, CanDo, s)
         found  == [status  |-> ReportStatus(report),
                    gone    |-> report["identity"] = "drift" /\ s.present = {FALSE},
                    removes |-> report["identity"] = "drift" /\ pairs[p],
                    repair  |-> "none", op |-> NoOp]
     IN findings' = [q \in DOMAIN findings \cup {p} |->
                       IF q = p THEN found ELSE findings[q]]
  /\ UNCHANGED <<run, pairs, repairer, opVars>>

With(status) == {p \in DOMAIN findings : findings[p].status = status}

\* Mutant of DiscoveryStatus: one attempt more than the policy allows.
DiscoveryStatusOneMore ==
  IF run.source = "scheduled" /\ With("unknown") # {}
  THEN IF run.attempt > MaxAttempts THEN "failed" ELSE "retrying"
  ELSE "previewed"

\* Scheduled runs that could not read everything are tried again.
DiscoveryStatus ==
  IF run.source = "scheduled" /\ With("unknown") # {}
  THEN IF run.attempt >= MaxAttempts THEN "failed" ELSE "retrying"
  ELSE "previewed"

Discovered ==
  /\ run.status = "discovering" /\ repairer.state # "lost"
  /\ DOMAIN findings = DOMAIN pairs
  /\ run' = [run EXCEPT !.status = DiscoveryStatus]
  /\ UNCHANGED <<pairs, findings, repairer, opVars>>

\* approve_reconciliation, with the token of the preview.  The page asks for the
\* confirmation where a finding removes an account.  The parent operation belongs
\* to no account.
ApproveReconciliation ==
  /\ run.status = "previewed"
  /\ With("drifted") # {}
  /\ run' = [run EXCEPT !.status = "approved", !.parent = "queued",
               !.confirmed = \E p \in DOMAIN findings : findings[p].removes]
  /\ UNCHANGED <<pairs, findings, repairer, opVars>>
-----------------------------------------------------------------------------
(***************************************************************************)
(* execute_reconciliation_repair.  w holds the rows d, the findings f, the *)
(* groups still to repair, the counts, and the call it has to await.       *)
(***************************************************************************)
\* Nothing is requested for the group, which counts as failed.
Skips(w, p, repair) ==
  [d |-> w.d, f |-> [w.f EXCEPT ![p].repair = repair], groups |-> RestOf(w.groups),
   done |-> w.done, failed |-> w.failed + 1, call |-> {}]

\* Mutant of RepairAction: the repair does what the preview showed.
RepairActionPreviewed(d, p) ==
  IF pairs[p] THEN "delete" ELSE "stored"

\* What is wanted of the account by now.
RepairAction(d, p) ==
  IF ToBeAbsent(d, p.user) THEN "delete" ELSE "stored"

\* secrets: the accounts whose password is still held; usable: the target has
\* a connector.
RepairGroup(w, p, secrets, usable) ==
  LET a == p.user
      d == Requested("reconcile", a, w.d)
      op == Len(d.ops)
  IN IF ~w.d.acct[a].exists \/ ~usable THEN Skips(w, p, "failed")
     ELSE IF w.f[p].gone /\ a \notin secrets
     THEN Skips(w, p, "blocked_credentials")
     ELSE IF Rejects("reconcile", a, w.d) THEN Skips(w, p, "conflict")
     ELSE [d |-> d, f |-> [w.f EXCEPT ![p] = [@ EXCEPT !.repair = "running", !.op = op]],
           groups |-> w.groups, done |-> w.done, failed |-> w.failed,
           call |-> {SyncCall("repair", a, op, RepairAction(w.d, p))}]

\* One group after the other, up to the first that awaits its synchronization.
RepairGroups(w, secrets, usable) ==
  FoldLeft(LAMBDA v, p : IF v.call # {} THEN v
                         ELSE RepairGroup(v, p, secrets, usable),
           w, w.groups)

\* Mutant of FinalRun: a group that was skipped does not count as failed.
FinalRunRepaired(w) ==
  IF w.failed = 0 \/ \A p \in DOMAIN w.f : w.f[p].repair # "failed"
  THEN "completed"
  ELSE IF w.done > 0 THEN "partially_failed" ELSE "failed"

FinalRun(w) ==
  IF w.failed = 0 THEN "completed"
  ELSE IF w.done > 0 THEN "partially_failed" ELSE "failed"

\* After the last group the run and its parent operation end.
Concludes(w) ==
  /\ db' = w.d
  /\ findings' = w.f
  /\ calls' = Joined(Left(calls, Awaits("repair")), w.call)
  /\ repairer' = [state |-> IF w.call = {} THEN "ended" ELSE "waits",
                  groups |-> w.groups, done |-> w.done, failed |-> w.failed]
  /\ run' = IF w.call # {} THEN [run EXCEPT !.status = "running",
                                            !.parent = "running"]
            ELSE [run EXCEPT !.status = FinalRun(w),
                             !.parent = IF FinalRun(w) = "completed"
                                        THEN "succeeded" ELSE FinalRun(w)]
  /\ UNCHANGED <<pairs, todo, meanwhile>>

\* A group is an account on a target, in any one order.
DriftedGroups == SetToSeq(With("drifted"))

StartRepair(secrets, usable) ==
  /\ run.status = "approved" /\ repairer.state = "idle"
  /\ LET w == [d |-> db, f |-> findings, groups |-> DriftedGroups,
               done |-> 0, failed |-> 0, call |-> {}]
     IN Concludes(RepairGroups(w, secrets, usable))
  /\ UNCHANGED sessions

Repaired(d, op) == d.ops[op].status = "succeeded"

\* sync_user has come back with the rows d: the group's operation decides.
RepairGoesOn(d, secrets, usable) ==
  LET p  == Head(repairer.groups)
      ok == Repaired(d, findings[p].op)
      w  == [d |-> d,
             f |-> [findings EXCEPT ![p].repair =
                      IF ok THEN "repaired" ELSE "failed"],
             groups |-> Tail(repairer.groups),
             done   |-> repairer.done + IF ok THEN 1 ELSE 0,
             failed |-> repairer.failed + IF ok THEN 0 ELSE 1,
             call   |-> {}]
  IN Concludes(RepairGroups(w, secrets, usable))

RepairReturns(secrets, usable) ==
  /\ repairer.state = "waits"
  /\ \/ /\ \E c \in Awaits("repair") : Served(c) /\ ~db.acct[c.user].exists
        /\ RepairGoesOn(db, secrets, usable)
        /\ UNCHANGED sessions
     \/ /\ \E s \in Holds("repair") : StaysRunning(s)
        /\ RepairGoesOn(db, secrets, usable)
     \/ \E s \in Holds("repair"), status \in Outcomes :
          /\ db.acct[s.user].exists
          /\ sessions' = sessions \ {s}
          /\ RepairGoesOn(Ended(s, status), secrets, usable)

\* The exception ends the background task; the run stays "running".
RepairRaises ==
  /\ repairer.state = "waits"
  /\ Raises("repair") /\ Breaks("repair")
  /\ repairer' = [repairer EXCEPT !.state = "raised"]
  /\ UNCHANGED <<run, pairs, findings, meanwhile>>
-----------------------------------------------------------------------------
\* The repair goes on with the secrets and the connectors there are.
RepairStep ==
  \/ RepairRaises
  \/ \E secrets \in {{}, Accounts}, usable \in BOOLEAN :
       StartRepair(secrets, usable) \/ RepairReturns(secrets, usable)

DiscoveryStep ==
  Discovered \/ RetryDiscovery \/ \E p \in Pairs : \E s \in Seen[p] : Inspect(p, s)

ReconcileNext ==
  \/ \E source \in {"manual", "scheduled"},
        scope \in Scopes :
       CreatePreview(source, scope)
  \/ DiscoveryStep
  \/ ApproveReconciliation
  \/ RepairStep

\* A restart ends discovery and repair; nothing takes them up again, but what
\* waits for its retry.
ReconcileLost ==
  /\ repairer' = [repairer EXCEPT
       !.state = IF run.status \in {"discovering", "approved", "running"}
                 THEN "lost" ELSE @]
  /\ pairs' = IF run.status = "discovering" THEN <<>> ELSE pairs
  /\ UNCHANGED <<run, findings>>

ReconcileFairness == WF_<<reconcileVars, opVars>>(DiscoveryStep \/ RepairStep)
-----------------------------------------------------------------------------
(***************************************************************************)
(* Properties.                                                             *)
(***************************************************************************)
\* A finding reports a repair only for an operation that has succeeded.
RepairedIsDone ==
  \A p \in DOMAIN findings :
    findings[p].repair = "repaired" => db.ops[findings[p].op].status = "succeeded"

\* What a finished repair says of itself is what its findings say, those that
\* were skipped among the failures.
CountsOfRepair ==
  (run.parent # "none" /\ run.status \in FinalStatus) =>
    LET repaired == {p \in With("drifted") : findings[p].repair = "repaired"}
    IN /\ run.status = "completed" <=> repaired = With("drifted")
       /\ run.status = "failed" <=> repaired = {}
       /\ repairer.done = Cardinality(repaired)

\* What a repair reports, finding by finding and in its counts, is what happened.
RunAgrees == RepairedIsDone /\ CountsOfRepair

\* A repair deletes an account on its target only while the account is to be
\* deleted, even when it was restored after the preview, or is restored while
\* the repair waits for its turn.
RepairRemovesOnlyDeleted ==
  \A s \in Holds("repair") :
    s.desired = "delete" /\ db.acct[s.user].exists => ToBeAbsent(db, s.user)

\* "Destructive repairs require a second explicit confirmation": an account that
\* is not to be deleted any more is removed by no repair that was approved
\* without one.
RemovalIsConfirmed ==
  \A s \in Holds("repair") :
    (s.desired = "delete" /\ db.acct[s.user].exists /\ ~ToBeAbsent(db, s.user))
      => run.confirmed

\* A run that has begun its discovery or its repair brings it to an end, unless
\* an exception or a restart ends the coroutine first.
RunEnds ==
  run.status \in {"discovering", "retrying", "approved", "running"} ~>
    \/ run.status \in {"previewed"} \cup FinalStatus
    \/ repairer.state \in {"raised", "lost"}
=============================================================================
