----------------------------- MODULE Lifecycle -----------------------------
(***************************************************************************)
(* The typed lifecycle contract of na_sso/lifecycle.py: the persisted      *)
(* values, the conflict rule between a requested command and the active    *)
(* operation of the account, and what counts as a finished target.         *)
(*                                                                         *)
(* Everything here is a constant-level operator; the modules that have     *)
(* state (SyncEngine, ...) extend it.                                      *)
(***************************************************************************)
EXTENDS Naturals

(***************************************************************************)
(* Persisted values.                                                       *)
(***************************************************************************)
Desired == {"ensure", "delete"}

\* "not_assigned" stands for a target that has no row for the account.
SyncState ==
  {"not_assigned", "pending", "ok", "failed", "unsupported", "chpw",
   "awaiting_credentials", "pending_disable", "pending_chpw_disable",
   "pending_expiry_disable", "unassigned", "retired", "expired_disabled"}

Command ==
  {"create", "update", "enable", "disable", "delete", "restore", "purge",
   "retry", "expire", "credential_handoff", "password_change", "reconcile",
   "bulk", "target_probe"}

TerminalStatus ==
  {"succeeded", "partially_failed", "failed", "cancelled", "blocked"}

OperationStatus == {"queued", "running"} \cup TerminalStatus

\* Mutant of Resumable: a finished operation may be resumed as well.
ResumableFinished ==
  {"failed", "partially_failed", "queued", "running", "succeeded"}

\* The statuses resume_operation accepts.
Resumable == {"failed", "partially_failed", "queued", "running"}

(***************************************************************************)
(* decide_transition.  act is the active operation as a set of at most one *)
(* record with a command and a status: {} when the account has none.       *)
(***************************************************************************)
Unfinished(act) == \E o \in act : o.status \notin TerminalStatus

\* Mutant of DecideTransition: a mutation starts beside the active operation.
DecideTransitionBeside(requested, act, deleteComplete) ==
  IF requested \in {"purge", "restore"} /\ ~deleteComplete THEN "reject"
  ELSE IF requested = "delete" /\ \E o \in act : o.cmd = "delete" THEN "reuse"
  ELSE "start"

DecideTransition(requested, act, deleteComplete) ==
  LET active == Unfinished(act)
      start(ok) == IF ok THEN "start" ELSE "reject"
  IN CASE requested = "purge" -> start(deleteComplete)
       [] requested = "restore" -> start(~active /\ deleteComplete)
       [] requested = "delete" ->
            IF ~active THEN "start"
            ELSE IF \E o \in act : o.cmd = "delete" THEN "reuse"
            ELSE "supersede"
       [] requested = "retry" ->
            IF \E o \in act : o.status \in {"failed", "partially_failed"}
            THEN "reuse" ELSE "reject"
       [] OTHER -> start(~active)

(***************************************************************************)
(* normalise_sync_state: what a row stands for once assignment and         *)
(* retirement are taken into account.                                      *)
(***************************************************************************)
Normalise(state, assigned, retired) ==
  IF retired THEN "retired"
  ELSE IF ~assigned /\ state \notin {"not_assigned", "pending_disable",
                                     "retired", "failed", "unsupported"}
       THEN "unassigned"
       ELSE state

\* The presentations with terminal=True.
PresentedTerminal ==
  SyncState \ {"pending", "pending_disable", "pending_chpw_disable",
               "pending_expiry_disable"}

\* sync_state_is_terminal.
SyncStateTerminal(state, desired, assigned, retired) ==
  Normalise(state, assigned, retired) \in
     IF desired = "delete" THEN {"ok", "retired", "not_assigned"}
                           ELSE PresentedTerminal
=============================================================================
