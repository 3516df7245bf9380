-------------------------- MODULE UnmanagedRemoval --------------------------
(***************************************************************************)
(* Accounts found on a target that NA-SSO does not manage (na_sso/         *)
(* unmanaged.py): discovery, and the decisions of administrators to        *)
(* ignore, adopt or remove what it found.  Discovery and removal await the *)
(* target, and commit what came of it against findings that may have been  *)
(* decided meanwhile.                                                      *)
(***************************************************************************)
EXTENDS Naturals

CONSTANTS
  Names,        \* user names the discovery policy does not exclude
  MaxApprovals  \* bound: removals approved for one name

ASSUME UnmanagedAssumption == MaxApprovals \in Nat \ {0}

VARIABLES
  remote,    \* the names with an account on the target
  assigned,  \* the names whose managed account is assigned to the target
  finding,   \* UnmanagedAccountFinding: by name, decision, presence and token
  approvals, \* by name, the last removal token given out
  asked,     \* discoveries that wait for the target
  answer,    \* the answers that discoveries have yet to process
  removing   \* execute_removal calls that passed their tests and wait

unmanagedVars ==
  <<remote, assigned, finding, approvals, asked, answer, removing>>

NoFinding == [decision |-> "none", present |-> FALSE, token |-> 0]

Decisions == {"none", "pending", "managed", "resolved", "ignored", "adopted",
              "removal_approved", "removed"}

UnmanagedTypeOK ==
  /\ remote \subseteq Names /\ assigned \subseteq Names
  /\ finding \in [Names -> [decision : Decisions, present : BOOLEAN,
                            token : 0..MaxApprovals]]
  /\ approvals \in [Names -> 0..MaxApprovals]
  /\ asked \in BOOLEAN
  /\ answer \subseteq [seen : SUBSET Names, assigned : SUBSET Names]
  /\ removing \subseteq Names

UnmanagedInit ==
  /\ remote = {} /\ assigned = {}
  /\ finding = [n \in Names |-> NoFinding]
  /\ approvals = [n \in Names |-> 0]
  /\ asked = FALSE /\ answer = {} /\ removing = {}
-----------------------------------------------------------------------------
(***************************************************************************)
(* Discovery.                                                              *)
(***************************************************************************)
\* discover_unmanaged: what an account on the target makes of its finding.
Seen(f, isAssigned) ==
  IF isAssigned
  THEN IF f = NoFinding THEN f
       ELSE [f EXCEPT !.present = TRUE,
                      !.decision = IF @ = "pending" THEN "managed" ELSE @]
  ELSE [f EXCEPT !.present = TRUE,
                 !.decision = IF @ \in {"none", "managed", "resolved"}
                              THEN "pending" ELSE @]

\* The findings that were present and of which the target has nothing.
Unseen(f) ==
  IF f.present
  THEN [f EXCEPT !.present = FALSE,
                 !.decision = IF @ = "pending" THEN "resolved" ELSE @]
  ELSE f

StartDiscovery ==
  /\ ~asked /\ asked' = TRUE
  /\ UNCHANGED <<remote, assigned, finding, approvals, answer, removing>>

\* connector.discover_accounts reads the target; a failure or an unsupported
\* target is reported and changes nothing.  (What is assigned at this moment is
\* kept for comparison only: the code reads it when it processes the answer.)
TargetAnswers ==
  /\ asked /\ asked' = FALSE
  /\ answer' \in {answer, answer \cup {[seen |-> remote, assigned |-> assigned]}}
  /\ UNCHANGED <<remote, assigned, finding, approvals, removing>>

\* Mutant of AssignedFor: the assignments were read before the target answered.
AssignedForBefore(a) == a.assigned

\* The assignments are read after the answer, in the transaction that commits.
AssignedFor(a) == assigned

ProcessAnswer(a) ==
  /\ a \in answer /\ answer' = answer \ {a}
  /\ finding' = [n \in Names |-> IF n \in a.seen
                                 THEN Seen(finding[n], n \in AssignedFor(a))
                                 ELSE Unseen(finding[n])]
  /\ UNCHANGED <<remote, assigned, approvals, asked, removing>>
-----------------------------------------------------------------------------
(***************************************************************************)
(* The administrators' decisions.                                          *)
(***************************************************************************)
\* ignore_finding.
Ignore(n) ==
  /\ finding[n].present
  /\ finding' = [finding EXCEPT ![n].decision = "ignored"]
  /\ UNCHANGED <<remote, assigned, approvals, asked, answer, removing>>

\* adopt_finding: the managed account is made if there is none, and assigned;
\* nothing is sent to the target.
Adopt(n) ==
  /\ finding[n].present
  /\ finding' = [finding EXCEPT ![n].decision = "adopted"]
  /\ assigned' = assigned \cup {n}
  /\ UNCHANGED <<remote, approvals, asked, answer, removing>>

\* approve_removal: whatever was decided before, and with a token of its own.
ApproveRemoval(n) ==
  /\ finding[n].present
  /\ approvals[n] < MaxApprovals
  /\ approvals' = [approvals EXCEPT ![n] = @ + 1]
  /\ finding' = [finding EXCEPT ![n].decision = "removal_approved",
                                ![n].token = approvals'[n]]
  /\ UNCHANGED <<remote, assigned, asked, answer, removing>>

\* execute_removal, up to its await of connector.delete_user.
ExecuteRemoval(n) ==
  /\ finding[n].present /\ finding[n].decision = "removal_approved"
  /\ finding[n].token # 0
  /\ removing' = removing \cup {n}
  /\ UNCHANGED <<remote, assigned, finding, approvals, asked, answer>>

\* Mutant of Removed: the token is left in place.
RemovedKeepsToken(f) == [f EXCEPT !.decision = "removed", !.present = FALSE]

\* The finding of an account that was deleted.
Removed(f) == [f EXCEPT !.decision = "removed", !.present = FALSE, !.token = 0]

\* execute_removal after its await, whatever was decided in between.  A failed
\* deletion may have taken place.  Of several calls for one name that wait, the
\* last one leaves removing.
RemovalAnswers(n, ok, last) ==
  /\ n \in removing
  /\ remote' \in {remote \ {n}} \cup (IF ok THEN {} ELSE {remote})
  /\ finding' = IF ok THEN [finding EXCEPT ![n] = Removed(@)] ELSE finding
  /\ removing' = IF last THEN removing \ {n} ELSE removing
  /\ UNCHANGED <<assigned, approvals, asked, answer>>

\* Elsewhere: somebody makes or deletes an account on the target, or the
\* managed account is assigned to the target or taken off it.
TargetChanges(n) ==
  /\ remote' = IF n \in remote THEN remote \ {n} ELSE remote \cup {n}
  /\ UNCHANGED <<assigned, finding, approvals, asked, answer, removing>>

AssignmentChanges(n) ==
  /\ assigned' = IF n \in assigned THEN assigned \ {n} ELSE assigned \cup {n}
  /\ UNCHANGED <<remote, finding, approvals, asked, answer, removing>>
-----------------------------------------------------------------------------
UnmanagedNext ==
  \/ StartDiscovery \/ TargetAnswers
  \/ \E a \in answer : ProcessAnswer(a)
  \/ \E n \in Names :
       \/ Ignore(n) \/ Adopt(n) \/ ApproveRemoval(n) \/ ExecuteRemoval(n)
       \/ \E ok, last \in BOOLEAN : RemovalAnswers(n, ok, last)
       \/ TargetChanges(n) \/ AssignmentChanges(n)

UnmanagedSpec == UnmanagedInit /\ [][UnmanagedNext]_unmanagedVars
-----------------------------------------------------------------------------
(***************************************************************************)
(* Properties.                                                             *)
(***************************************************************************)
\* A finding waits for a decision only while its account was there when last
\* looked for: deciding on it (ignore, adopt, approve) is never refused.
PendingIsPresent ==
  \A n \in Names : finding[n].decision = "pending" => finding[n].present

\* A removal that took place, even one that overtook later decisions, leaves no
\* token behind, and an approval that stands has the last token given out.
UsedApprovalIsGone ==
  \A n \in Names :
    /\ finding[n].decision = "removed" => finding[n].token = 0
    /\ finding[n].decision = "removal_approved" => finding[n].token = approvals[n]

\* Findings are fit to be acted on, whatever discoveries and removals overtook.
FindingsAreSound == PendingIsPresent /\ UsedApprovalIsGone

\* A discovery never leaves an account waiting for a decision that is assigned
\* by the time it commits, though it was not when the target was asked.
AssignedIsNotPending ==
  [][\A a \in answer : a \notin answer' =>
       \A n \in assigned : finding'[n].decision # "pending"]_unmanagedVars

\* "The decision persists across future discovery runs": a discovery reopens
\* only what it closed itself, though the account comes and goes.
DecisionPersists ==
  [][\A n \in Names :
       (answer' # answer /\ finding'[n].decision # finding[n].decision)
         => finding[n].decision \in {"none", "pending", "managed", "resolved"}
     ]_unmanagedVars

\* A discovery touches no decision that is not its own to make.
DiscoveryRespectsDecisions == AssignedIsNotPending /\ DecisionPersists
=============================================================================
