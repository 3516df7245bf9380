------------------------- MODULE TargetCredentials -------------------------
(***************************************************************************)
(* Target onboarding: the credential revisions of each target, the probes  *)
(* that prove them, and the worker that repeats failed probes              *)
(* (na_sso/target_credentials.py, with the handlers of na_sso/status.py    *)
(* and na_sso/api.py that probe).                                          *)
(*                                                                         *)
(* A probe reads the payload when its connector is built, awaits the       *)
(* target, and then writes its result on the row as it is by then.         *)
(***************************************************************************)
EXTENDS Naturals, FiniteSets

CONSTANTS
  Targets,       \* configured target IDs
  MaxRevision,   \* bound: credential revisions per target
  MaxProbes      \* bound: probes that requests await at the same time

ASSUME TargetCredentialsAssumption == MaxRevision \in Nat /\ MaxProbes \in Nat

VARIABLES
  cred,      \* the target_credentials rows
  awaited,   \* the probes that await their target
  due,       \* the targets the worker has still to probe in this scan
  accepts,   \* the revisions each target accepts at the moment
  proved     \* history: the revisions a probe has found accepted

credVars == <<cred, awaited, due, accepts, proved>>

FailureKinds == {"", "authentication", "unreachable", "verification"}

\* Revision 0 stands for a target without a row.
Credential ==
  [revision : Nat, verified : BOOLEAN, failure : FailureKinds,
   again : BOOLEAN]

Probe == [target : Targets, revision : Nat, by : {"task", "worker"}]

CredTypeOK ==
  /\ cred \in [Targets -> Credential]
  /\ awaited \subseteq Probe
  /\ due \subseteq Targets
  /\ accepts \in [Targets -> SUBSET (1..MaxRevision)]
  /\ proved \in [Targets -> SUBSET Nat]
-----------------------------------------------------------------------------
\* The targets get_connectors offers to a synchronization.
Verified == {t \in Targets : cred[t].verified}

Configured(t) == cred[t].revision > 0

Room == Cardinality({p \in awaited : p.by = "task"}) < MaxProbes

\* build_unverified_connector reads the payload of the current revision; the
\* probe is then awaited.  Probes of one revision that are awaited at the same
\* time are one element: they differ in nothing.
Await(t, by) ==
  awaited' = awaited \cup
    {[target |-> t, revision |-> cred[t].revision, by |-> by]}

Saved(c) ==
  [c EXCEPT !.revision = @ + 1, !.verified = FALSE, !.failure = "",
            !.again = FALSE]

\* configure_target: save_credentials, then the probe.  Probes of the revision
\* before may still be awaited.
SaveCredentials(t) ==
  /\ cred[t].revision < MaxRevision
  /\ Room
  /\ cred' = [cred EXCEPT ![t] = Saved(@)]
  /\ awaited' = awaited \cup
       {[target |-> t, revision |-> cred[t].revision + 1, by |-> "task"]}
  /\ UNCHANGED <<due, accepts, proved>>

\* probe_target and the API's probe.
TestConnection(t) ==
  /\ Configured(t) /\ Room
  /\ Await(t, "task")
  /\ UNCHANGED <<cred, due, accepts, proved>>

\* Mutant of Recorded: only a target that cannot be reached is probed again.
RecordedNotAgain(c, failure) ==
  IF failure = "" THEN [c EXCEPT !.verified = TRUE, !.failure = "", !.again = FALSE]
  ELSE [c EXCEPT !.verified = @ /\ failure # "authentication",
                 !.failure = failure, !.again = failure = "unreachable"]

\* record_probe.
Recorded(c, failure) ==
  IF failure = "" THEN [c EXCEPT !.verified = TRUE, !.failure = "", !.again = FALSE]
  ELSE [c EXCEPT !.verified = @ /\ failure # "authentication",
                 !.failure = failure, !.again = TRUE]

\* What the target answers to revision r: it refuses one it does not accept,
\* and may be out of reach or answer with something else at any time.
Findings(t, r) ==
  {"unreachable", "verification"}
    \cup (IF r \in accepts[t] THEN {""} ELSE {"authentication"})

ProbeFinds(p, failure) ==
  /\ p \in awaited /\ failure \in Findings(p.target, p.revision)
  /\ awaited' = awaited \ {p}
  /\ cred' = [cred EXCEPT ![p.target] = Recorded(@, failure)]
  /\ proved' = IF failure = "" THEN [proved EXCEPT ![p.target] = @ \cup {p.revision}]
                               ELSE proved
  /\ UNCHANGED <<due, accepts>>

ProbeReturns == \E p \in awaited, failure \in FailureKinds : ProbeFinds(p, failure)

(***************************************************************************)
(* retry_due_target_probes reads the targets whose next_probe_at has       *)
(* passed and probes them one after the other.                             *)
(***************************************************************************)
ProbeWorkerFree == \A p \in awaited : p.by # "worker"

Failing == {t \in Targets : cred[t].again}

ProbeScanFinds(found) ==
  /\ ProbeWorkerFree /\ due = {}
  /\ due' = found
  /\ UNCHANGED <<cred, awaited, accepts, proved>>

ProbeScan == \E found \in (SUBSET Failing) \ {{}} : ProbeScanFinds(found)

WorkerProbes(t) ==
  /\ ProbeWorkerFree /\ t \in due
  /\ due' = due \ {t}
  /\ Await(t, "worker")
  /\ UNCHANGED <<cred, accepts, proved>>

(***************************************************************************)
(* The environment: a credential is issued or withdrawn on the target.     *)
(***************************************************************************)
TargetChangesItsMind(t) ==
  /\ \E r \in 1..MaxRevision :
       accepts' = [accepts EXCEPT ![t] = IF r \in @ THEN @ \ {r} ELSE @ \cup {r}]
  /\ UNCHANGED <<cred, awaited, due, proved>>

\* The process stops: awaited probes and the scan are lost.
CredRestart ==
  /\ awaited' = {} /\ due' = {}
  /\ UNCHANGED <<cred, accepts, proved>>

CredInit ==
  /\ cred = [t \in Targets |->
       [revision |-> 0, verified |-> FALSE, failure |-> "", again |-> FALSE]]
  /\ awaited = {}
  /\ due = {}
  /\ accepts \in [Targets -> {{}, 1..MaxRevision}]
  /\ proved = [t \in Targets |-> {}]

CredNext ==
  \/ \E t \in Targets :
       SaveCredentials(t) \/ TestConnection(t) \/ WorkerProbes(t)
         \/ TargetChangesItsMind(t)
  \/ ProbeReturns
  \/ ProbeScan

CredSpec == CredInit /\ [][CredNext \/ CredRestart]_credVars

(***************************************************************************)
(* Fairness: the worker scans every retry_scan_seconds with capped delays, *)
(* a probe has a timeout, restarts do not always come between the same two *)
(* steps, and a target that is asked again and again is within reach at    *)
(* last.                                                                   *)
(***************************************************************************)
ScanFindsFailing(t) ==
  \E found \in SUBSET Failing : t \in found /\ ProbeScanFinds(found)

Accepted(t) == \E p \in awaited : p.target = t /\ ProbeFinds(p, "")

WorkerProbeReturns ==
  \E p \in awaited, failure \in FailureKinds :
    p.by = "worker" /\ ProbeFinds(p, failure)

CredFairness ==
  /\ WF_credVars(WorkerProbeReturns)
  /\ \A t \in Targets :
       /\ SF_credVars(ScanFindsFailing(t))
       /\ SF_credVars(WorkerProbes(t))
       /\ SF_credVars(Accepted(t))
-----------------------------------------------------------------------------
\* "Each database credential revision [...] must pass an immediate probe before
\* propagation can use it" (docs/DEVELOPER.md:134).  A probe's success is recorded on
\* the revision of the time when it returns, which may have been saved while the
\* probe was awaited (ProbeRace).
VerifiedWasProbed ==
  \A t \in Verified : cred[t].revision \in proved[t]

\* Through restarts, outages and tests by hand, a failed check is repeated until
\* it succeeds, unless the target refuses the credential again and again.
FailureHeals ==
  \A t \in Targets :
    \/ []<>(cred[t].failure = "")
    \/ []<>(cred[t].revision \notin accepts[t])
=============================================================================
