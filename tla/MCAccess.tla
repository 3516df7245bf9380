------------------------------ MODULE MCAccess ------------------------------
(***************************************************************************)
(* What administrators and scripts come in by: assignment profiles, found  *)
(* accounts, the second factor and the API.  The four share no state that  *)
(* their properties are about, so a run explores one of them and not every *)
(* combination of their states.                                            *)
(***************************************************************************)
EXTENDS UnmanagedRemoval, AutomationApi, Mfa, Assignments

CONSTANTS carol, c1, retryKey, work1, work2, key1, t1, t2, v1, v2

VARIABLE explored

accessVars == <<unmanagedVars, apiVars, mfaVars, assignVars, explored>>

AccessInit ==
  /\ UnmanagedInit /\ ApiInit /\ MfaInit /\ AssignInit
  /\ explored \in {"unmanaged", "api", "mfa", "assignments"}
  \* The choices of the parts that are not explored make no difference.
  /\ explored # "mfa" => required
  /\ explored # "assignments" => selected = {}

AccessNext ==
  /\ UNCHANGED explored
  /\ \/ /\ explored = "unmanaged" /\ UnmanagedNext
        /\ UNCHANGED <<apiVars, mfaVars, assignVars>>
     \/ /\ explored = "api" /\ ApiNext
        /\ UNCHANGED <<unmanagedVars, mfaVars, assignVars>>
     \/ /\ explored = "mfa" /\ MfaNext
        /\ UNCHANGED <<unmanagedVars, apiVars, assignVars>>
     \/ /\ explored = "assignments" /\ AssignNext
        /\ UNCHANGED <<unmanagedVars, apiVars, mfaVars>>

AccessSpec == AccessInit /\ [][AccessNext]_accessVars
=============================================================================
