----------------------------- MODULE Assignments -----------------------------
(***************************************************************************)
(* Assignment profiles of one user (na_sso/assignments.py): versions that  *)
(* are drafted and published, their application in two steps, the durable  *)
(* exceptions of the user, and every other way targets are assigned        *)
(* (_set_pending of users.py and bulk.py, adopt_finding of unmanaged.py).  *)
(*                                                                         *)
(* Memberships are left out: exceptions are known by their mode, and a row *)
(* with mode inherit by its absence.  Each change requests an operation    *)
(* and is refused as a whole while another one is active: a step that      *)
(* changes nothing.                                                        *)
(***************************************************************************)
EXTENDS Naturals, FiniteSets, Sequences

CONSTANTS
  AssignTargets,    \* configured targets
  Profiles,         \* profile versions that may be drafted
  NoProfile,        \* the user has no profile
  MaxApplications   \* bound: applications previewed

ASSUME AssignAssumption ==
  NoProfile \notin Profiles /\ MaxApplications \in Nat

VARIABLES
  profile,      \* AssignmentProfile: by version, its status and targets
  inForce,      \* UserAssignmentProfile: the user's version
  exception,    \* UserAssignmentException: by target, its mode
  selected,     \* the targets that are assigned to the user
  applications, \* ProfileApplication, in the order of their previews
  adopted       \* history: adopted since the assignments were last resolved

assignVars == <<profile, inForce, exception, selected, applications, adopted>>

AssignTypeOK ==
  /\ profile \in [Profiles -> [status : {"none", "draft", "published"},
                               targets : SUBSET AssignTargets]]
  /\ inForce \in Profiles \cup {NoProfile}
  /\ inForce # NoProfile => profile[inForce].status = "published"
  /\ exception \in [AssignTargets -> {"inherit", "include", "exclude"}]
  /\ selected \subseteq AssignTargets
  /\ applications \in
       Seq([profile : Profiles, status : {"previewed", "applied"},
            preserved : SUBSET AssignTargets])
  /\ adopted \subseteq AssignTargets

AssignInit ==
  /\ profile = [p \in Profiles |-> [status |-> "none", targets |-> {}]]
  /\ inForce = NoProfile
  /\ exception = [t \in AssignTargets |-> "inherit"]
  /\ selected \in SUBSET AssignTargets
  /\ applications = <<>>
  /\ adopted = {}

\* resolve_assignment_intents, the targets of it: the profile in force, or what
\* is assigned, and the exceptions after it.
Resolved(p, modes) ==
  LET base == IF p = NoProfile THEN selected ELSE profile[p].targets
  IN {t \in AssignTargets :
        modes[t] = "include" \/ (t \in base /\ modes[t] # "exclude")}

\* _set_pending with what was resolved.
SetResolved(p, modes) == selected' = Resolved(p, modes) /\ adopted' = {}
-----------------------------------------------------------------------------
(***************************************************************************)
(* Profile versions.                                                       *)
(***************************************************************************)
\* profile_preview.
DraftProfile(p, targets) ==
  /\ profile[p].status = "none" /\ targets # {}
  /\ profile' = [profile EXCEPT ![p] = [status |-> "draft", targets |-> targets]]
  /\ UNCHANGED <<inForce, exception, selected, applications, adopted>>

\* profile_publish.
PublishProfile(p) ==
  /\ profile[p].status = "draft"
  /\ profile' = [profile EXCEPT ![p].status = "published"]
  /\ UNCHANGED <<inForce, exception, selected, applications, adopted>>

Applicable(p) == profile[p].status = "published"

\* profile_apply_preview keeps what it will preserve, for the administrator.
PreviewApplication(p) ==
  /\ Applicable(p)
  /\ Len(applications) < MaxApplications
  /\ applications' = Append(applications,
       [profile |-> p, status |-> "previewed",
        preserved |-> selected \ profile[p].targets])
  /\ UNCHANGED <<profile, inForce, exception, selected, adopted>>

\* Mutant of Preserves: what the preview said.
PreservesPreviewed(a) == applications[a].preserved

\* What is assigned by now and not in the profile.
Preserves(a) == selected \ profile[applications[a].profile].targets

\* profile_application_confirm.
ConfirmApplication(a) ==
  LET p == applications[a].profile
      modes == [t \in AssignTargets |->
                  IF t \in Preserves(a) THEN "include" ELSE exception[t]]
  IN /\ applications[a].status = "previewed" /\ Applicable(p)
     /\ inForce' = p
     /\ exception' = modes
     /\ SetResolved(p, modes)
     /\ applications' = [applications EXCEPT ![a].status = "applied"]
     /\ UNCHANGED profile
-----------------------------------------------------------------------------
(***************************************************************************)
(* Exceptions and direct assignments.                                      *)
(***************************************************************************)
\* assignment_exception_save.
SaveException(t, mode) ==
  LET modes == [exception EXCEPT ![t] = mode]
  IN /\ exception' = modes
     /\ SetResolved(inForce, modes)
     /\ UNCHANGED <<profile, inForce, applications>>

\* Mutant of Recorded: the rows that are there keep their mode.
RecordedOnce(targets) ==
  [t \in AssignTargets |->
     IF inForce = NoProfile \/ exception[t] # "inherit" THEN exception[t]
     ELSE IF t \in targets \ profile[inForce].targets THEN "include"
     ELSE IF t \in profile[inForce].targets \ targets THEN "exclude"
     ELSE "inherit"]

\* record_selected_target_exceptions: nothing without a profile.
Recorded(targets) ==
  [t \in AssignTargets |->
     IF inForce = NoProfile THEN exception[t]
     ELSE IF t \in targets \ profile[inForce].targets THEN "include"
     ELSE IF t \in profile[inForce].targets \ targets THEN "exclude"
     ELSE "inherit"]

\* update_user, bulk_execute and run_bulk_workflow: _set_pending with the targets
\* of a form, or with one target more or less than are assigned.
AssignDirectly(targets) ==
  /\ exception' = Recorded(targets)
  /\ selected' = targets /\ adopted' = {}
  /\ UNCHANGED <<profile, inForce, applications>>

\* restore_user resolves the assignments again.
RestoreAssignments ==
  /\ SetResolved(inForce, exception)
  /\ UNCHANGED <<profile, inForce, exception, applications>>

\* adopt_finding assigns one target and records no exception.
AdoptTarget(t) ==
  /\ selected' = selected \cup {t}
  /\ adopted' = IF t \in selected THEN adopted ELSE adopted \cup {t}
  /\ UNCHANGED <<profile, inForce, exception, applications>>
-----------------------------------------------------------------------------
AssignNext ==
  \/ \E p \in Profiles :
       \/ \E targets \in SUBSET AssignTargets : DraftProfile(p, targets)
       \/ PublishProfile(p) \/ PreviewApplication(p)
  \/ \E a \in DOMAIN applications : ConfirmApplication(a)
  \/ \E t \in AssignTargets :
       \/ \E mode \in {"inherit", "include", "exclude"} : SaveException(t, mode)
       \/ AdoptTarget(t)
  \/ \E targets \in SUBSET AssignTargets : AssignDirectly(targets)
  \/ RestoreAssignments

AssignSpec == AssignInit /\ [][AssignNext]_assignVars
-----------------------------------------------------------------------------
(***************************************************************************)
(* Properties.                                                             *)
(***************************************************************************)
\* Under a profile, what is assigned is what the profile and the exceptions
\* resolve to, whichever way the last assignment came; only an adopted account
\* stands outside, until the next one.
IntentsMatchAssigned ==
  inForce # NoProfile => selected = Resolved(inForce, exception) \cup adopted

\* "Applying a profile preserves existing direct target assignments": even one
\* made after the preview stays, unless an exception excludes it.
ApplicationKeeps ==
  [][\A t \in selected :
       (\E a \in DOMAIN applications : applications'[a] # applications[a])
         => t \in selected' \/ exception[t] = "exclude"]_assignVars
=============================================================================
