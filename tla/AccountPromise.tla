--------------------------- MODULE AccountPromise ---------------------------
(***************************************************************************)
(* What na_sso promises about an account on its targets, without the       *)
(* machinery: the operator and the user decide, and a target's account     *)
(* moves only in ways those decisions allow.                               *)
(*                                                                         *)
(*  - A target holds a password the user chose, never a temporary one      *)
(*    (README.md: temporary passwords are local credentials).              *)
(*  - An account that stays on a target never gets an older password back. *)
(*  - An account is removed only while its deletion is wanted.             *)
(*                                                                         *)
(* SyncEngine implements this module; its refinement mapping is there.     *)
(***************************************************************************)
EXTENDS Naturals

CONSTANT Targets

VARIABLES
  wanted,  \* what the operator wants: "ensure" or "delete"
  latest,  \* the number of passwords set so far
  temps,   \* the temporary ones among them
  remote   \* the accounts on the targets

vars == <<wanted, latest, temps, remote>>

Init ==
  /\ wanted = "ensure"
  /\ latest = 1
  /\ temps \in {{}, {1}}
  /\ remote \in [Targets -> {[acct |-> "absent", pwd |-> 0],
                             [acct |-> "enabled", pwd |-> 1]}]
  /\ \A t \in Targets : remote[t].pwd \notin temps

\* The user chooses a new password.
Choose ==
  /\ latest' = latest + 1
  /\ UNCHANGED <<wanted, temps, remote>>

\* The operator sets a temporary password, to reset or to restore the account.
SetTemporary ==
  /\ latest' = latest + 1
  /\ temps' = temps \cup {latest'}
  /\ wanted' = "ensure"
  /\ UNCHANGED remote

AskDeletion ==
  /\ wanted' = "delete"
  /\ UNCHANGED <<latest, temps, remote>>

Provision(t) ==
  /\ \E p \in (0..latest) \ temps :
       /\ remote[t].pwd <= p
       /\ remote' = [remote EXCEPT ![t] = [acct |-> "enabled", pwd |-> p]]
  /\ UNCHANGED <<wanted, latest, temps>>

Disable(t) ==
  /\ remote[t].acct # "absent"
  /\ remote' = [remote EXCEPT ![t].acct = "disabled"]
  /\ UNCHANGED <<wanted, latest, temps>>

Remove(t) ==
  /\ wanted = "delete"
  /\ remote' = [remote EXCEPT ![t] = [acct |-> "absent", pwd |-> 0]]
  /\ UNCHANGED <<wanted, latest, temps>>

Next ==
  \/ Choose \/ SetTemporary \/ AskDeletion
  \/ \E t \in Targets : Provision(t) \/ Disable(t) \/ Remove(t)

Spec == Init /\ [][Next]_vars
=============================================================================
