----------------------------- MODULE MCRecovery -----------------------------
(***************************************************************************)
(* TLC instance of SyncEngine for what must eventually happen.  A          *)
(* behaviour is about one of two accounts: a new one, until the password   *)
(* its user chooses first, or its deletion, has arrived everywhere, or an  *)
(* established one, whose administrator assigns and withdraws its only     *)
(* target.  Requests alone are left out, and no request is fair, so the    *)
(* fairness is that of FairSpec.                                           *)
(***************************************************************************)
EXTENDS SyncEngine

CONSTANTS t1, t2, t3, Lasting

\* Only a new account has had a temporary password.
IsNew == temps # {}

\* A new account has room for the creation and, when its synchronization has
\* ended, one sign-in, choice of a password or deletion.
HasNoRoom == Len(ops) + Len(calls) >= 2

OnlyLasting == \A t \in Targets : rows[t].assigned => t = Lasting

RecoveryInit == Init /\ (IsNew \/ OnlyLasting)

OwnRequest == Login \/ ChangePassword \/ DeleteUser

RecoveryNext ==
  /\ Next
  /\ IF IsNew
     THEN ~UpdateUser /\ (HasNoRoom => ~OwnRequest)
     ELSE OnlyLasting' /\ ~OwnRequest

RecoverySpec == RecoveryInit /\ [][RecoveryNext]_vars /\ Fairness
=============================================================================
