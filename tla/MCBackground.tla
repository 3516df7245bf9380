---------------------------- MODULE MCBackground ----------------------------
(***************************************************************************)
(* The work that goes on behind the pages and shares no state with the     *)
(* other runs: notifications, the checks of target credentials and the     *)
(* synchronization of SSH keys.  The three share none with each other, so  *)
(* a run explores one of them, and not every combination of their states.  *)
(***************************************************************************)
EXTENDS Notifications, TargetCredentials, SshKeys

CONSTANTS w, mail, event, t1, k1, k2

VARIABLE explored

backgroundVars == <<notifyVars, credVars, sshVars, explored>>

BackgroundInit ==
  /\ NotifyInit /\ CredInit /\ SshInit
  /\ explored \in {"notifications", "credentials", "keys"}
  \* A choice of a part that is not explored makes no difference.
  /\ explored # "credentials" => accepts = [t \in Targets |-> {}]

BackgroundNext ==
  \/ /\ explored = "notifications" /\ (NotifyNext \/ NotifyRestart)
     /\ UNCHANGED <<credVars, sshVars, explored>>
  \/ /\ explored = "credentials" /\ (CredNext \/ CredRestart)
     /\ UNCHANGED <<notifyVars, sshVars, explored>>
  \/ /\ explored = "keys" /\ SshNext
     /\ UNCHANGED <<notifyVars, credVars, explored>>

BackgroundSpec == BackgroundInit /\ [][BackgroundNext]_backgroundVars

FairBackgroundSpec ==
  BackgroundSpec /\ NotifyFairness /\ CredFairness /\ SshFairness
=============================================================================
