------------------------------- MODULE SshKeys -------------------------------
(***************************************************************************)
(* Named SSH keys of one account (na_sso/ssh_keys.py): enrolment, rotation *)
(* of a key by a new one, revocation of one key or of all, expiry.  A      *)
(* change is committed at once; sync_user then carries the active keys to  *)
(* the target, unless another operation of the account is queued or runs.  *)
(*                                                                         *)
(* The target's authorized keys are one set: a synchronization replaces    *)
(* them by the keys that were active when it began.  sync_user is          *)
(* abstracted to its lock, the operation it works under and its outcome.   *)
(***************************************************************************)
EXTENDS Naturals, FiniteSets

CONSTANTS
  Keys,      \* public keys, by fingerprint
  Dated,     \* those enrolled with an expiry date
  NoKey,     \* no key to replace
  MaxOthers  \* bound: operations requested by administrators

ASSUME SshKeysAssumption ==
  Dated \subseteq Keys /\ NoKey \notin Keys /\ MaxOthers \in Nat

VARIABLES
  key,      \* user_ssh_keys: by fingerprint, its status
  onTarget, \* the target's authorized keys
  waiting,  \* sync_user calls of handlers that wait for the account's lock
  other,    \* the operation of an administrator, its call waiting or running
  retryDue, \* the target's last synchronization failed, and its retry is due
  session,  \* the synchronization that holds the lock
  others    \* operations requested so far

sshVars == <<key, onTarget, waiting, other, retryDue, session, others>>

\* What follows a call in its handler: nothing, or the replacement of old by new.
Nothing == [new |-> NoKey, old |-> NoKey]
Follow == {Nothing} \cup [new : Keys, old : Keys]

NoSession == [by |-> "none", keys |-> {}, then |-> Nothing]

SshTypeOK ==
  /\ key \in [Keys -> {"none", "active", "revoked"}]
  /\ onTarget \subseteq Keys
  /\ waiting \subseteq Follow
  /\ other \in {"none", "queued", "passed", "running"} /\ retryDue \in BOOLEAN
  /\ session \in [by : {"none", "handler", "other", "retry"},
                  keys : SUBSET Keys, then : Follow]
  /\ others \in 0..MaxOthers

SshInit ==
  /\ key = [k \in Keys |-> "none"]
  /\ onTarget = {}
  /\ waiting = {}
  /\ other = "none" /\ retryDue = FALSE
  /\ session = NoSession
  /\ others = 0

\* user.active_ssh_keys.
ActiveKeys == {k \in Keys : key[k] = "active"}

\* revoke_key.
Revoked(S) == [k \in Keys |-> IF k \in S THEN "revoked" ELSE key[k]]
-----------------------------------------------------------------------------
(***************************************************************************)
(* The handlers, up to their call of sync_user.                            *)
(***************************************************************************)
\* enroll_ssh_key: add_key, committed before the synchronization.
Enroll(new, old) ==
  /\ key[new] = "none"
  /\ old # NoKey => key[old] = "active"
  /\ key' = [key EXCEPT ![new] = "active"]
  /\ waiting' = waiting \cup
       {IF old = NoKey THEN Nothing ELSE [new |-> new, old |-> old]}
  /\ UNCHANGED <<onTarget, other, retryDue, session, others>>

\* Mutant of Synchronizes: whoever holds the lock is left to do it.
SynchronizesIfFree ==
  waiting' = IF session = NoSession THEN waiting \cup {Nothing} ELSE waiting

\* The handler awaits sync_user, and does nothing afterwards.
Synchronizes == waiting' = waiting \cup {Nothing}

\* revoke_ssh_key; emergency_revoke_all for all of them.
Revoke(S) ==
  /\ S # {} /\ S \subseteq ActiveKeys
  /\ key' = Revoked(S)
  /\ Synchronizes
  /\ UNCHANGED <<onTarget, other, retryDue, session, others>>

\* expire_due_ssh_keys, for the keys whose date has come.
ExpireDue(S) == S \subseteq Dated /\ Revoke(S)
-----------------------------------------------------------------------------
(***************************************************************************)
(* What follows sync_user in enroll_ssh_key.                               *)
(***************************************************************************)
\* Mutant of SyncSucceeded: the operation is there.
SyncSucceededAlways(returned, status) == TRUE

\* _sync_succeeded: no operation counts as success.
SyncSucceeded(returned, status) == ~returned \/ status = "succeeded"

\* The replaced key is revoked if it is still active, and synchronized whether
\* it was or not; rest are the other calls that wait.
Continues(then, succeeded, rest) ==
  IF then.old # NoKey /\ succeeded
  THEN /\ key' = IF key[then.old] = "active" THEN Revoked({then.old}) ELSE key
       /\ waiting' = rest \cup {Nothing}
  ELSE /\ waiting' = rest
       /\ UNCHANGED key

\* sync_user returns None: its request meets an operation that has not begun.  A
\* rotation then revokes the old key though the new one is not on the target.
CallReturnsNone(then) ==
  /\ then \in waiting
  /\ session = NoSession /\ other = "queued"
  /\ Continues(then, SyncSucceeded(FALSE, "none"), waiting \ {then})
  /\ UNCHANGED <<onTarget, other, retryDue, session, others>>

CallBegins(then) ==
  /\ then \in waiting
  /\ session = NoSession /\ other \in {"none", "passed"}
  /\ session' = [by |-> "handler", keys |-> ActiveKeys, then |-> then]
  /\ waiting' = waiting \ {then}
  /\ UNCHANGED <<key, onTarget, other, retryDue, others>>

\* An administrator's operation: request_operation refuses it while another is
\* active (bound: one at a time).
RequestOther ==
  /\ other = "none" /\ session = NoSession
  /\ others < MaxOthers
  /\ other' = "queued" /\ others' = others + 1
  /\ UNCHANGED <<key, onTarget, waiting, retryDue, session>>

OtherBegins ==
  /\ session = NoSession /\ other \in {"queued", "passed"}
  /\ other' = "running"
  /\ session' = [by |-> "other", keys |-> ActiveKeys, then |-> Nothing]
  /\ UNCHANGED <<key, onTarget, waiting, retryDue, others>>

\* The retry worker takes the failed operation up again, which becomes the
\* account's active one: requests do not see the one that is queued any more.
RetryBegins ==
  /\ session = NoSession /\ retryDue
  /\ session' = [by |-> "retry", keys |-> ActiveKeys, then |-> Nothing]
  /\ other' = IF other = "queued" THEN "passed" ELSE other
  /\ UNCHANGED <<key, onTarget, waiting, retryDue, others>>

\* The connector answers; a failure may have had its effect.  What follows in
\* the handler happens at once: nothing yields after the release of the lock.
SessionEnds(status, took) ==
  /\ session # NoSession
  /\ status = "succeeded" => took
  /\ onTarget' = IF took THEN session.keys ELSE onTarget
  /\ retryDue' = (status = "failed")
  /\ other' = IF session.by = "other" THEN "none" ELSE other
  /\ session' = NoSession
  /\ IF session.by = "handler"
     THEN Continues(session.then, SyncSucceeded(TRUE, status), waiting)
     ELSE UNCHANGED <<key, waiting>>
  /\ UNCHANGED others
-----------------------------------------------------------------------------
SyncEnds == \E status \in {"succeeded", "failed"}, took \in BOOLEAN :
              SessionEnds(status, took)

SyncBegins ==
  \/ \E then \in waiting : CallReturnsNone(then) \/ CallBegins(then)
  \/ OtherBegins \/ RetryBegins

SshNext ==
  \/ \E new \in Keys, old \in Keys \cup {NoKey} : Enroll(new, old)
  \/ \E S \in SUBSET Keys : Revoke(S) \/ ExpireDue(S)
  \/ RequestOther
  \/ SyncBegins \/ SyncEnds

\* The lock is taken, calls come back, and an outage of the target ends.
SshFairness ==
  /\ WF_sshVars(SyncBegins \/ SyncEnds)
  /\ SF_sshVars(SessionEnds("succeeded", TRUE))

SshSpec == SshInit /\ [][SshNext]_sshVars /\ SshFairness
-----------------------------------------------------------------------------
(***************************************************************************)
(* Properties.                                                             *)
(***************************************************************************)
\* Somebody will synchronize the keys as they are now, or as they are later.
SyncIsComing == waiting # {} \/ other \in {"queued", "passed"}

\* A revoked key that is on the target, or that a running synchronization is
\* about to put back there, is on its way out: revocation relies on the lock
\* queue, on the operation that is queued, or on a retry, whichever it met.
RevocationIsPending ==
  \A k \in Keys : key[k] = "revoked" =>
    /\ k \in session.keys => SyncIsComing
    /\ k \in onTarget =>
         SyncIsComing \/ retryDue \/ (session # NoSession /\ k \notin session.keys)

\* The revoked keys leave the target for good, through failures, operations in
\* between and rotations.  (A revoked key stays revoked.  Not through a restart
\* that loses a queued operation.)
RevokedLeaves == <>[](\A k \in Keys : key[k] = "revoked" => k \notin onTarget)

\* A rotation whose own synchronization failed keeps the old key: the old key
\* goes only when the new one is on the target, was revoked in the meantime, or
\* was left to an operation that is queued.
FailedRotationKeepsOld ==
  [][\A then \in Follow :
       (session.then = then /\ then # Nothing /\ session' = NoSession
        /\ key[then.old] = "active" /\ key'[then.old] = "revoked")
         => then.new \in onTarget' \/ key[then.new] = "revoked"]_sshVars
=============================================================================
