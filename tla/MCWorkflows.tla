---------------------------- MODULE MCWorkflows ----------------------------
(***************************************************************************)
(* The workflows above synchronization on one set of accounts.  They meet  *)
(* each other as they meet any other request, through the operations of    *)
(* the accounts, so a run explores one of them beside administrators, the  *)
(* retry worker and a restart.  The comparison of snapshots is explored on *)
(* its own, over all inputs.                                               *)
(***************************************************************************)
EXTENDS BulkWorkflow, Governance, Reconciliation

CONSTANTS ann, bob, gitea

\* An execution of a job is not the coroutine of a repair.
ASSUME RunnersAssumption == "repair" \notin Runners

VARIABLES
  explored, \* the workflow
  compared  \* an account's wanted state, capabilities and a snapshot

allVars ==
  <<bulkVars, governanceVars, reconcileVars, opVars, explored, compared>>

\* Interference by workflow.
Mixes ==
  [bulk           |-> {{"update"}, {"delete", "purge"}, {"delete", "retry"},
                       {"twice", "delete"}, {"select"}, {"select", "retry"}, {"select", "crash"},
                       {"delete", "unfinished"}},
   governance     |-> {{"policy", "update"}, {"policy", "delete"},
                       {"policy", "enable", "crash"}, {"review", "update"},
                       {"policy", "unfinished"}, {"review", "unfinished"}},
   reconciliation |-> {{"update"}, {"crash"}, {"unfinished"}},
   removal        |-> {{"delete", "restore", "purge"}},
   restored       |-> {{"delete", "again", "restore"}},
   comparison     |-> {{}}]

AllMixes == UNION {Mixes[x] : x \in DOMAIN Mixes}

\* A bulk job may create bob.
PopulationOf ==
  [bulk |-> {ann}, governance |-> {ann, bob}, reconciliation |-> {ann, bob},
   removal |-> {ann}, restored |-> {ann}, comparison |-> {}]

BothPopulations == {{}, {ann}, {ann, bob}}

\* Two rows: twice the same account, or two accounts.
Row(user, action) == [user |-> user, action |-> action]

TwoRows ==
  {<<Row(ann, x), Row(bob, "onboard")>> : x \in {"onboard", "offboard"}}
    \cup {<<Row(ann, "offboard"), Row(ann, "onboard")>>}

TwoAccounts == {<<ann, bob>>}

Policy(user, start, end, delete, review) ==
  [user |-> user, start |-> start, end |-> end, delete |-> delete,
   review |-> review]

\* A start and an end by disabling, the same with deletion, an end alone with
\* an inactivity review, a start alone.
FourSchedules ==
  {Policy(ann, 1, 2, FALSE, Never), Policy(ann, 1, 2, TRUE, Never),
   Policy(ann, Never, 1, TRUE, 1), Policy(bob, 1, Never, FALSE, Never)}

OneTarget == {[user |-> ann, target |-> gitea], [user |-> bob, target |-> gitea]}

AllOrOne == {{ann, bob}, {ann}}

ReadsAll == [reads |-> Field \ {"identity"}, exact |-> TRUE, repairs |-> TRUE]

Gone == [Unavailable EXCEPT !.present = {FALSE}]

There(memberships) ==
  [present |-> {TRUE}, username |-> {"same"},
   scalar |-> [f \in ScalarField |-> {"same"}],
   memberships |-> {memberships}, keys |-> {PublicKeys}]

\* Unread, gone, without its memberships; for bob also as it is wanted.
FewSnapshots ==
  [p \in OneTarget |->
     IF p.user = ann THEN {Unavailable, Gone, There({})}
                   ELSE {There(Memberships), There({})}]

Inputs == Wanted \X Capabilities \X Snapshot

WorkflowsInit(starts) ==
  /\ explored \in starts
  /\ OperationsInit
  /\ meanwhile.kinds \in Mixes[explored]
  /\ {x \in Accounts : db.acct[x].exists} = PopulationOf[explored]
  /\ BulkInit /\ GovernanceInit /\ ReconcileInit
  /\ compared \in IF explored = "comparison" THEN Inputs ELSE {<<>>}

Bulk ==
  /\ explored = "bulk"
  /\ UNCHANGED <<governanceVars, reconcileVars>>
  /\ \/ BulkNext
     \/ OperationsNext /\ UNCHANGED bulkVars
     \/ OperationsLost /\ BulkLost

Govern ==
  /\ explored = "governance"
  /\ UNCHANGED <<bulkVars, reconcileVars>>
  /\ \/ GovernanceNext
     \/ OperationsNext /\ UNCHANGED governanceVars
     \/ OperationsLost /\ GovernanceLost

Reconcile ==
  /\ explored \in {"reconciliation", "removal", "restored"}
  /\ UNCHANGED <<bulkVars, governanceVars>>
  /\ \/ ReconcileNext
     \/ OperationsNext /\ UNCHANGED reconcileVars
     \/ OperationsLost /\ ReconcileLost

WorkflowsNext ==
  (Bulk \/ Govern \/ Reconcile) /\ UNCHANGED <<explored, compared>>

Fairness ==
  OperationsFairness /\ BulkFairness /\ GovernanceFairness /\ ReconcileFairness

WorkflowsSpec ==
  /\ WorkflowsInit({"bulk", "governance", "reconciliation", "removal", "comparison"})
  /\ [][WorkflowsNext]_allVars
  /\ Fairness

\* Repairs beside deletions that are requested twice.
RestoredSpec == WorkflowsInit({"restored"}) /\ [][WorkflowsNext]_allVars

-----------------------------------------------------------------------------
(***************************************************************************)
(* Properties.                                                             *)
(***************************************************************************)
\* Every row, queue and coroutine is in its type.
WorkflowsTypeOK ==
  OperationsTypeOK /\ BulkTypeOK /\ GovernanceTypeOK /\ ReconcileTypeOK

\* What was begun ends: jobs, the access of a policy, runs and their repairs.
WorkflowsEnd == JobEnds /\ EndComes /\ RunEnds

\* compare_snapshot agrees with the reference on every input.
ComparisonAgrees ==
  explored = "comparison" => ReportAgrees(compared[1], compared[2], compared[3])
=============================================================================
