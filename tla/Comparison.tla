----------------------------- MODULE Comparison -----------------------------
(***************************************************************************)
(* compare_snapshot (na_sso/reconciliation.py): what NA-SSO wants of an    *)
(* account on a target, compared field by field with what the target was   *)
(* seen to hold.  A field that could not be read is unknown; it is never   *)
(* drift, for drift gets repaired.                                         *)
(*                                                                         *)
(* Anything read is a set of at most one value, {} when it was not.        *)
(***************************************************************************)
EXTENDS FiniteSets

CONSTANTS
  ScalarField, \* of "display_name", "email", "status", those to explore
  Memberships, \* groups and roles
  PublicKeys   \* fingerprints

ASSUME ComparisonAssumption ==
  ScalarField \subseteq {"display_name", "email", "status"}

Field == {"identity", "memberships", "public_key"} \cup ScalarField

DriftState == {"match", "drift", "unknown", "unsupported"}

Read(S) == {{}} \cup {{x} : x \in S}

\* What is wanted; of a scalar field, only whether a value is the wanted one.
Wanted ==
  [absent : BOOLEAN, memberships : SUBSET Memberships, keys : SUBSET PublicKeys]

\* InspectionCapabilities, and supports_operation for the repair.
Capabilities ==
  [reads : SUBSET (Field \ {"identity"}), exact : BOOLEAN, repairs : BOOLEAN]

Snapshot ==
  {s \in [present : Read(BOOLEAN), username : Read({"same", "other"}),
          scalar : [ScalarField -> Read({"same", "other"})],
          memberships : Read(SUBSET Memberships), keys : Read(SUBSET PublicKeys)] :
     s.present # {TRUE} =>
       /\ s.username = {} /\ s.memberships = {} /\ s.keys = {}
       /\ \A f \in ScalarField : s.scalar[f] = {}}

MatchIf(same) == IF same THEN "match" ELSE "drift"

\* Mutant of IdentityState: an account that could not be read is missing.
IdentityStateMissing(u, s) ==
  IF u.absent THEN MatchIf(s.present # {TRUE})
  ELSE IF s.present # {TRUE} THEN "drift"
  ELSE IF s.username = {} THEN "unknown"
  ELSE MatchIf(s.username = {"same"})

IdentityState(u, s) ==
  IF s.present = {} THEN "unknown"
  ELSE IF u.absent THEN MatchIf(s.present = {FALSE})
  ELSE IF s.present = {FALSE} THEN "drift"
  ELSE IF s.username = {} THEN "unknown"
  ELSE MatchIf(s.username = {"same"})

\* Observed, with the verdict when the field was read.
Verdict(s, seen, state) ==
  IF s.present # {TRUE} \/ seen = {} THEN "unknown" ELSE state

MembershipsState(u, caps, s) ==
  Verdict(s, s.memberships,
          MatchIf(IF caps.exact THEN s.memberships = {u.memberships}
                  ELSE \A m \in s.memberships : u.memberships \subseteq m))

FieldState(u, caps, s, f) ==
  IF f = "identity" THEN IdentityState(u, s)
  ELSE IF f \notin caps.reads \/ u.absent THEN "unsupported"
  ELSE IF f = "memberships" THEN MembershipsState(u, caps, s)
  ELSE IF f = "public_key" THEN Verdict(s, s.keys, MatchIf(s.keys = {u.keys}))
  ELSE Verdict(s, s.scalar[f], MatchIf(s.scalar[f] = {"same"}))

\* compare_snapshot; where the target cannot carry out the repair,
\* mark_unsupported_operation takes the drift out.
Compare(u, caps, s) ==
  [f \in Field |->
     IF FieldState(u, caps, s, f) = "drift" /\ ~caps.repairs
     THEN "unsupported" ELSE FieldState(u, caps, s, f)]

\* The snapshot of unavailable_report.
Unavailable ==
  [present |-> {}, username |-> {}, scalar |-> [f \in ScalarField |-> {}],
   memberships |-> {}, keys |-> {}]

\* ReconciliationReport.status.
ReportStatus(report) ==
  IF \E f \in Field : report[f] = "drift" THEN "drifted"
  ELSE IF \E f \in Field : report[f] = "unknown" THEN "unknown"
  ELSE "in_sync"

(***************************************************************************)
(* The reference: what the account on the target looks like, in one view.  *)
(***************************************************************************)
\* The target holds what is wanted, as far as it was read and is of interest.
KnownWrong(u, caps, s) ==
  IF u.absent THEN s.present = {TRUE}
  ELSE \/ s.present = {FALSE}
       \/ s.username = {"other"}
       \/ \E f \in ScalarField \cap caps.reads : s.scalar[f] = {"other"}
       \/ /\ "memberships" \in caps.reads
          /\ \E m \in s.memberships :
               ~(u.memberships \subseteq m) \/ (caps.exact /\ m # u.memberships)
       \/ /\ "public_key" \in caps.reads
          /\ \E k \in s.keys : k # u.keys

ReadInFull(u, caps, s) ==
  /\ s.present # {}
  /\ ~u.absent /\ s.present = {TRUE} =>
       /\ s.username # {}
       /\ \A f \in ScalarField \cap caps.reads : s.scalar[f] # {}
       /\ "memberships" \in caps.reads => s.memberships # {}
       /\ "public_key" \in caps.reads => s.keys # {}

\* The status of a report says what the snapshot shows: drift exactly when
\* something that was read is wrong, agreement only when all was read.
ReportAgrees(u, caps, s) ==
  caps.repairs =>
    /\ ReportStatus(Compare(u, caps, s)) = "drifted" <=> KnownWrong(u, caps, s)
    /\ ReportStatus(Compare(u, caps, s)) = "in_sync"
         <=> ~KnownWrong(u, caps, s) /\ ReadInFull(u, caps, s)
=============================================================================
