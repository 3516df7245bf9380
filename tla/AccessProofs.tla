---------------------------- MODULE AccessProofs ----------------------------
(***************************************************************************)
(* Theorems about UnmanagedRemoval, Assignments and Mfa, the parts of MCAccess *)
(* that decide which accounts a target may hold and who is signed in.      *)
(***************************************************************************)
EXTENDS UnmanagedRemoval, Assignments, Mfa, SequenceTheorems, FiniteSetTheorems,
        TLAPS
-----------------------------------------------------------------------------
(***************************************************************************)
(* UnmanagedRemoval: for any names and any number of approvals, findings   *)
(* are fit to be acted on and a discovery leaves the decisions alone that  *)
(* are not its own.  What is proved of a finding is proved of one record   *)
(* first, and of all names by the steps.                                   *)
(***************************************************************************)
FindingRecords == [decision : Decisions, present : BOOLEAN, token : 0..MaxApprovals]

\* FindingsAreSound, of one name.
SoundFinding(f, last) ==
  /\ f.decision = "pending" => f.present
  /\ f.decision = "removed" => f.token = 0
  /\ f.decision = "removal_approved" => f.token = last

UnmanagedInv == UnmanagedTypeOK /\ \A n \in Names : SoundFinding(finding[n], approvals[n])

\* What a discovery may decide anew.
DiscoveryDecides == {"none", "pending", "managed", "resolved"}

LEMMA NoFindingIsSound ==
  ASSUME NEW last
  PROVE  NoFinding \in FindingRecords /\ SoundFinding(NoFinding, last)
<1> DEFINE f == FALSE
<1>1. f \in BOOLEAN
  OBVIOUS
<1>2. NoFinding = [decision |-> "none", present |-> f, token |-> 0]
  BY DEF NoFinding
<1> HIDE DEF f
<1>3. QED
  BY <1>1, <1>2, UnmanagedAssumption DEF FindingRecords, Decisions, SoundFinding

\* The finding of an account that a discovery saw.
LEMMA SeenIsSound ==
  ASSUME NEW f \in FindingRecords, NEW last, SoundFinding(f, last),
         NEW isAssigned \in BOOLEAN
  PROVE  LET g == Seen(f, isAssigned) IN
           /\ g \in FindingRecords /\ SoundFinding(g, last)
           /\ isAssigned => g.decision # "pending"
           /\ g.decision # f.decision => f.decision \in DiscoveryDecides
<1> DEFINE t == TRUE
<1>1. t \in BOOLEAN /\ t
  OBVIOUS
<1>2. CASE isAssigned /\ f = NoFinding
  BY <1>2 DEF Seen, NoFinding
<1>3. CASE isAssigned /\ f # NoFinding
  <2>1. Seen(f, isAssigned)
          = [f EXCEPT !.present = t,
                      !.decision = IF f.decision = "pending" THEN "managed" ELSE f.decision]
    BY <1>3 DEF Seen
  <2> HIDE DEF t
  <2>2. QED
    BY <1>1, <1>3, <2>1 DEF FindingRecords, Decisions, SoundFinding, DiscoveryDecides
<1>4. CASE ~isAssigned
  <2>1. Seen(f, isAssigned)
          = [f EXCEPT !.present = t,
                      !.decision = IF f.decision \in {"none", "managed", "resolved"}
                                   THEN "pending" ELSE f.decision]
    BY <1>4 DEF Seen
  <2> HIDE DEF t
  <2>2. QED
    BY <1>1, <1>4, <2>1 DEF FindingRecords, Decisions, SoundFinding, DiscoveryDecides
<1>5. QED
  BY <1>2, <1>3, <1>4

\* The finding of an account that a discovery did not see.
LEMMA UnseenIsSound ==
  ASSUME NEW f \in FindingRecords, NEW last, SoundFinding(f, last)
  PROVE  LET g == Unseen(f) IN
           /\ g \in FindingRecords /\ SoundFinding(g, last)
           /\ g.decision # "pending"
           /\ g.decision # f.decision => f.decision \in DiscoveryDecides
<1>1. CASE f.present
  <2> DEFINE t == FALSE
  <2>1. t \in BOOLEAN
    OBVIOUS
  <2>2. Unseen(f)
          = [f EXCEPT !.present = t,
                      !.decision = IF f.decision = "pending" THEN "resolved" ELSE f.decision]
    BY <1>1 DEF Unseen
  <2> HIDE DEF t
  <2>3. QED
    BY <2>1, <2>2 DEF FindingRecords, Decisions, SoundFinding, DiscoveryDecides
<1>2. CASE ~f.present
  BY <1>2 DEF Unseen, SoundFinding
<1>3. QED
  BY <1>1, <1>2

\* The finding of an account that was removed.
LEMMA RemovedIsSound ==
  ASSUME NEW f \in FindingRecords, NEW last
  PROVE  Removed(f) \in FindingRecords /\ SoundFinding(Removed(f), last)
<1> DEFINE t == FALSE
<1>1. t \in BOOLEAN /\ 0 \in 0..MaxApprovals
  BY UnmanagedAssumption
<1>2. Removed(f) = [f EXCEPT !.decision = "removed", !.present = t, !.token = 0]
  BY DEF Removed
<1> HIDE DEF t
<1>3. QED
  BY <1>1, <1>2 DEF FindingRecords, Decisions, SoundFinding

\* A decision of an administrator, which keeps the token unless it is an approval.
LEMMA DecidedIsSound ==
  ASSUME NEW f \in FindingRecords, NEW last, NEW d \in {"ignored", "adopted"}
  PROVE  LET g == [f EXCEPT !.decision = d] IN
           g \in FindingRecords /\ SoundFinding(g, last)
BY DEF FindingRecords, Decisions, SoundFinding

LEMMA ApprovedIsSound ==
  ASSUME NEW f \in FindingRecords, NEW token \in 0..MaxApprovals
  PROVE  LET g == [f EXCEPT !.decision = "removal_approved", !.token = token] IN
           g \in FindingRecords /\ SoundFinding(g, token)
BY DEF FindingRecords, Decisions, SoundFinding
-----------------------------------------------------------------------------
LEMMA UnmanagedStarts == UnmanagedInit => UnmanagedInv
<1> SUFFICES ASSUME UnmanagedInit PROVE UnmanagedInv
  OBVIOUS
<1>1. finding = [n \in Names |-> NoFinding] /\ approvals = [n \in Names |-> 0]
      /\ remote = {} /\ assigned = {} /\ answer = {} /\ removing = {}
  BY DEF UnmanagedInit
<1>2. asked \in BOOLEAN
  BY DEF UnmanagedInit
<1>3. finding \in [Names -> FindingRecords]
      /\ \A n \in Names : SoundFinding(finding[n], approvals[n])
  BY <1>1, NoFindingIsSound
<1>4. approvals \in [Names -> 0..MaxApprovals]
  BY <1>1, UnmanagedAssumption
<1>5. QED
  BY <1>1, <1>2, <1>3, <1>4 DEF UnmanagedInv, UnmanagedTypeOK, FindingRecords

\* A step that changes one finding.
LEMMA OneFinding ==
  ASSUME UnmanagedInv, NEW n \in Names, NEW g \in FindingRecords,
         SoundFinding(g, approvals'[n]),
         finding' = [finding EXCEPT ![n] = g],
         approvals' \in [Names -> 0..MaxApprovals],
         \A m \in Names \ {n} : approvals'[m] = approvals[m]
  PROVE  /\ finding' \in [Names -> FindingRecords]
         /\ \A m \in Names : SoundFinding(finding'[m], approvals'[m])
<1>1. finding \in [Names -> FindingRecords]
  BY DEF UnmanagedInv, UnmanagedTypeOK, FindingRecords
<1>2. \A m \in Names : finding'[m] = IF m = n THEN g ELSE finding[m]
  BY <1>1
<1>3. QED
  BY <1>1, <1>2 DEF UnmanagedInv

LEMMA ProcessStep ==
  ASSUME UnmanagedInv, NEW a \in answer, ProcessAnswer(a)
  PROVE  /\ UnmanagedInv'
         /\ \A n \in Names :
              /\ n \in assigned => finding'[n].decision # "pending"
              /\ finding'[n].decision # finding[n].decision
                   => finding[n].decision \in DiscoveryDecides
<1>1. finding \in [Names -> FindingRecords]
      /\ \A n \in Names : SoundFinding(finding[n], approvals[n])
  BY DEF UnmanagedInv, UnmanagedTypeOK, FindingRecords
<1>2. finding' = [n \in Names |-> IF n \in a.seen THEN Seen(finding[n], n \in assigned)
                                                  ELSE Unseen(finding[n])]
      /\ UNCHANGED <<remote, assigned, approvals, asked, removing>>
      /\ answer' = answer \ {a}
  BY DEF ProcessAnswer, AssignedFor
<1>3. ASSUME NEW n \in Names
      PROVE  /\ finding'[n] \in FindingRecords /\ SoundFinding(finding'[n], approvals[n])
             /\ n \in assigned => finding'[n].decision # "pending"
             /\ finding'[n].decision # finding[n].decision
                  => finding[n].decision \in DiscoveryDecides
  <2>1. CASE n \in a.seen
    <3>1. PICK isAssigned \in BOOLEAN : isAssigned <=> n \in assigned
      OBVIOUS
    <3>2. finding'[n] = Seen(finding[n], isAssigned)
      BY <1>2, <2>1, <3>1
    <3>3. QED
      BY <1>1, <3>1, <3>2, SeenIsSound
  <2>2. CASE n \notin a.seen
    <3>1. finding'[n] = Unseen(finding[n])
      BY <1>2, <2>2
    <3>2. QED
      BY <1>1, <3>1, UnseenIsSound
  <2>3. QED
    BY <2>1, <2>2
<1>4. finding' \in [Names -> FindingRecords]
  BY <1>2, <1>3
<1>5. QED
  BY <1>2, <1>3, <1>4 DEF UnmanagedInv, UnmanagedTypeOK, FindingRecords

LEMMA UnmanagedStep ==
  ASSUME UnmanagedInv, [UnmanagedNext]_unmanagedVars
  PROVE  UnmanagedInv'
<1>1. finding \in [Names -> FindingRecords] /\ approvals \in [Names -> 0..MaxApprovals]
  BY DEF UnmanagedInv, UnmanagedTypeOK, FindingRecords
<1>2. ASSUME NEW n \in Names, Ignore(n)
      PROVE  UnmanagedInv'
  <2>1. finding' = [finding EXCEPT ![n] = [finding[n] EXCEPT !.decision = "ignored"]]
        /\ UNCHANGED <<remote, assigned, approvals, asked, answer, removing>>
    BY <1>2 DEF Ignore
  <2>2. QED
    BY <1>1, <2>1, DecidedIsSound, OneFinding
       DEF UnmanagedInv, UnmanagedTypeOK, FindingRecords
<1>3. ASSUME NEW n \in Names, Adopt(n)
      PROVE  UnmanagedInv'
  <2>1. finding' = [finding EXCEPT ![n] = [finding[n] EXCEPT !.decision = "adopted"]]
        /\ assigned' = assigned \cup {n}
        /\ UNCHANGED <<remote, approvals, asked, answer, removing>>
    BY <1>3 DEF Adopt
  <2>2. QED
    BY <1>1, <2>1, DecidedIsSound, OneFinding
       DEF UnmanagedInv, UnmanagedTypeOK, FindingRecords
<1>4. ASSUME NEW n \in Names, ApproveRemoval(n)
      PROVE  UnmanagedInv'
  <2>1. /\ approvals[n] < MaxApprovals
        /\ approvals' = [approvals EXCEPT ![n] = approvals[n] + 1]
        /\ finding' = [finding EXCEPT ![n] =
             [finding[n] EXCEPT !.decision = "removal_approved", !.token = approvals'[n]]]
        /\ UNCHANGED <<remote, assigned, asked, answer, removing>>
    <3>1. finding' = [finding EXCEPT ![n].decision = "removal_approved",
                                     ![n].token = approvals'[n]]
      BY <1>4 DEF ApproveRemoval
    <3>2. finding' = [finding EXCEPT ![n] =
            [finding[n] EXCEPT !.decision = "removal_approved", !.token = approvals'[n]]]
      BY <1>1, <3>1
    <3>3. QED
      BY <1>4, <3>2 DEF ApproveRemoval
  <2>2. approvals' \in [Names -> 0..MaxApprovals]
        /\ \A m \in Names \ {n} : approvals'[m] = approvals[m]
    BY <1>1, <2>1, UnmanagedAssumption
  <2>3. [finding[n] EXCEPT !.decision = "removal_approved", !.token = approvals'[n]]
          \in FindingRecords
        /\ SoundFinding([finding[n] EXCEPT !.decision = "removal_approved",
                                           !.token = approvals'[n]], approvals'[n])
    BY <1>1, <2>2, ApprovedIsSound
  <2>4. QED
    BY <1>1, <2>1, <2>2, <2>3, OneFinding
       DEF UnmanagedInv, UnmanagedTypeOK, FindingRecords
<1>5. ASSUME NEW n \in Names, NEW ok \in BOOLEAN, NEW last \in BOOLEAN,
             RemovalAnswers(n, ok, last)
      PROVE  UnmanagedInv'
  <2>1. /\ remote' = remote \ {n} \/ remote' = remote
        /\ removing' = removing \ {n} \/ removing' = removing
        /\ UNCHANGED <<assigned, approvals, asked, answer>>
    BY <1>5 DEF RemovalAnswers
  <2>2. CASE finding' = finding
    BY <2>1, <2>2 DEF UnmanagedInv, UnmanagedTypeOK
  <2>3. CASE finding' = [finding EXCEPT ![n] = Removed(finding[n])]
    BY <1>1, <2>1, <2>3, RemovedIsSound, OneFinding
       DEF UnmanagedInv, UnmanagedTypeOK, FindingRecords
  <2>4. QED
    BY <1>5, <2>2, <2>3 DEF RemovalAnswers
<1>6. CASE StartDiscovery \/ TargetAnswers
  <2>1. asked' \in BOOLEAN /\ UNCHANGED <<remote, assigned, finding, approvals, removing>>
    BY <1>6 DEF StartDiscovery, TargetAnswers
  <2>2. answer' \subseteq [seen : SUBSET Names, assigned : SUBSET Names]
    <3>1. [seen |-> remote, assigned |-> assigned]
            \in [seen : SUBSET Names, assigned : SUBSET Names]
      BY DEF UnmanagedInv, UnmanagedTypeOK
    <3>2. answer' = answer \/ answer' = answer \cup {[seen |-> remote, assigned |-> assigned]}
      BY <1>6 DEF StartDiscovery, TargetAnswers
    <3>3. QED
      BY <3>1, <3>2 DEF UnmanagedInv, UnmanagedTypeOK
  <2>3. QED
    BY <2>1, <2>2 DEF UnmanagedInv, UnmanagedTypeOK
<1>7. CASE \E n \in Names : ExecuteRemoval(n) \/ TargetChanges(n) \/ AssignmentChanges(n)
  <2>1. /\ remote' \subseteq Names /\ assigned' \subseteq Names /\ removing' \subseteq Names
        /\ UNCHANGED <<finding, approvals, asked, answer>>
    BY <1>7 DEF ExecuteRemoval, TargetChanges, AssignmentChanges, UnmanagedInv,
       UnmanagedTypeOK
  <2>2. QED
    BY <2>1 DEF UnmanagedInv, UnmanagedTypeOK
<1>8. CASE UNCHANGED unmanagedVars
  BY <1>8 DEF unmanagedVars, UnmanagedInv, UnmanagedTypeOK
<1>9. QED
  BY <1>2, <1>3, <1>4, <1>5, <1>6, <1>7, <1>8, ProcessStep DEF UnmanagedNext

LEMMA UnmanagedInvariant == UnmanagedSpec => []UnmanagedInv
<1>1. UnmanagedInv /\ [UnmanagedNext]_unmanagedVars => UnmanagedInv'
  BY UnmanagedStep
<1>2. QED
  BY <1>1, UnmanagedStarts, PTL DEF UnmanagedSpec

\* For any names and any number of approvals, findings are in their types.
THEOREM UnmanagedTypeCorrect == UnmanagedSpec => []UnmanagedTypeOK
<1>1. UnmanagedInv => UnmanagedTypeOK
  BY DEF UnmanagedInv
<1>2. QED
  BY <1>1, UnmanagedInvariant, PTL

\* For any names, a finding that waits is of an account that was there when last
\* looked for, and an approval that was used is gone.
THEOREM SoundFindings == UnmanagedSpec => []FindingsAreSound
<1>1. UnmanagedInv => FindingsAreSound
  BY DEF UnmanagedInv, SoundFinding, FindingsAreSound, PendingIsPresent,
     UsedApprovalIsGone
<1>2. QED
  BY <1>1, UnmanagedInvariant, PTL

\* Every step but the processing of an answer keeps the answers, or keeps the
\* findings and adds an answer.
LEMMA OnlyDiscoveryProcesses ==
  ASSUME [UnmanagedNext]_unmanagedVars
  PROVE  \/ \E a \in answer : ProcessAnswer(a)
         \/ answer' = answer
         \/ answer \subseteq answer' /\ finding' = finding
BY DEF UnmanagedNext, unmanagedVars, StartDiscovery, TargetAnswers, Ignore, Adopt,
   ApproveRemoval, ExecuteRemoval, RemovalAnswers, TargetChanges, AssignmentChanges

\* For any names, a discovery leaves nothing that is assigned waiting for a
\* decision, and reopens only what it closed itself.
THEOREM DiscoveryIsTimid == UnmanagedSpec => DiscoveryRespectsDecisions
<1> DEFINE Persists ==
      \A n \in Names :
        (answer' # answer /\ finding'[n].decision # finding[n].decision)
          => finding[n].decision \in {"none", "pending", "managed", "resolved"}
    NotPending ==
      \A a \in answer : a \notin answer' =>
        \A n \in assigned : finding'[n].decision # "pending"
<1>1. UnmanagedInv /\ [UnmanagedNext]_unmanagedVars
        => [Persists]_unmanagedVars /\ [NotPending]_unmanagedVars
  <2> SUFFICES ASSUME UnmanagedInv, [UnmanagedNext]_unmanagedVars
               PROVE  Persists /\ NotPending
    OBVIOUS
  <2>1. assigned \subseteq Names
    BY DEF UnmanagedInv, UnmanagedTypeOK
  <2>2. CASE \E a \in answer : ProcessAnswer(a)
    BY <2>1, <2>2, ProcessStep DEF DiscoveryDecides
  <2>3. CASE answer' = answer \/ (answer \subseteq answer' /\ finding' = finding)
    BY <2>3
  <2>4. QED
    BY <2>2, <2>3, OnlyDiscoveryProcesses
<1>2. QED
  BY <1>1, UnmanagedInvariant, PTL
     DEF UnmanagedSpec, DiscoveryRespectsDecisions, AssignedIsNotPending, DecisionPersists
-----------------------------------------------------------------------------
(***************************************************************************)
(* Assignments: for any targets, profiles and number of applications, what *)
(* is assigned is what the profile in force and the exceptions resolve to, *)
(* and the application of a profile takes nothing away that no exception   *)
(* excludes.                                                               *)
(*                                                                         *)
(* The invariant is the property itself with the types; that a profile in  *)
(* force is published, so that its targets no longer change, is among them.*)
(***************************************************************************)
ProfileRecords == [status : {"none", "draft", "published"},
                   targets : SUBSET AssignTargets]

ApplicationRecords == [profile : Profiles, status : {"previewed", "applied"},
                       preserved : SUBSET AssignTargets]

Modes == [AssignTargets -> {"inherit", "include", "exclude"}]

AssignInv == AssignTypeOK /\ IntentsMatchAssigned

LEMMA AssignTypes ==
  AssignTypeOK <=>
    /\ profile \in [Profiles -> ProfileRecords]
    /\ inForce \in Profiles \cup {NoProfile}
    /\ inForce # NoProfile => profile[inForce].status = "published"
    /\ exception \in Modes
    /\ selected \subseteq AssignTargets
    /\ applications \in Seq(ApplicationRecords)
    /\ adopted \subseteq AssignTargets
BY DEF AssignTypeOK, ProfileRecords, ApplicationRecords, Modes

LEMMA AssignStarts == AssignInit => AssignInv
<1> SUFFICES ASSUME AssignInit PROVE AssignInv
  OBVIOUS
<1>1. /\ profile \in [Profiles -> ProfileRecords] /\ exception \in Modes
      /\ inForce = NoProfile /\ selected \subseteq AssignTargets /\ adopted = {}
  BY DEF AssignInit, ProfileRecords, Modes
<1>2. applications \in Seq(ApplicationRecords)
  BY DEF AssignInit
<1>3. QED
  BY <1>1, <1>2, AssignTypes DEF AssignInv, IntentsMatchAssigned

\* Under a profile, resolving does not depend on what is assigned.
LEMMA ResolvedOfProfile ==
  ASSUME NEW p \in Profiles, NEW modes
  PROVE  Resolved(p, modes) =
           {t \in AssignTargets : modes[t] = "include"
              \/ (t \in profile[p].targets /\ modes[t] # "exclude")}
BY AssignAssumption DEF Resolved

\* The exceptions that are recorded resolve to the targets they are recorded for.
LEMMA RecordedResolves ==
  ASSUME AssignInv, inForce # NoProfile, NEW targets \in SUBSET AssignTargets
  PROVE  Resolved(inForce, Recorded(targets)) = targets
<1>1. inForce \in Profiles
  BY DEF AssignInv, AssignTypeOK
<1>2. \A t \in AssignTargets : Recorded(targets)[t] =
        IF t \in targets \ profile[inForce].targets THEN "include"
        ELSE IF t \in profile[inForce].targets \ targets THEN "exclude" ELSE "inherit"
  BY DEF Recorded
<1>3. QED
  BY <1>1, <1>2, ResolvedOfProfile

\* The records of one profile change, not of the one in force.
LEMMA ProfileChanges ==
  ASSUME AssignInv, NEW p \in Profiles, p # inForce, NEW r \in ProfileRecords,
         profile' = [profile EXCEPT ![p] = r],
         UNCHANGED <<inForce, exception, selected, applications, adopted>>
  PROVE  AssignInv'
<1>1. profile' \in [Profiles -> ProfileRecords]
      /\ inForce # NoProfile => profile'[inForce] = profile[inForce]
  BY AssignTypes DEF AssignInv
<1>2. AssignTypeOK'
  BY <1>1, AssignTypes DEF AssignInv, AssignTypeOK, ProfileRecords
<1>3. CASE inForce = NoProfile
  BY <1>2, <1>3 DEF AssignInv, IntentsMatchAssigned
<1>4. CASE inForce # NoProfile
  <2>1. Resolved(inForce, exception)' = Resolved(inForce, exception)
    BY <1>1, <1>4 DEF Resolved
  <2>2. QED
    BY <1>2, <2>1 DEF AssignInv, IntentsMatchAssigned
<1>5. QED
  BY <1>3, <1>4

\* The targets are resolved anew for a profile in force.
LEMMA ResolvingStep ==
  ASSUME AssignInv, NEW p \in Profiles \cup {NoProfile}, NEW modes \in Modes,
         p # NoProfile => profile[p].status = "published",
         inForce' = p, exception' = modes, profile' = profile,
         SetResolved(p, modes), applications' \in Seq(ApplicationRecords)
  PROVE  AssignInv'
<1>1. AssignTypeOK'
  BY DEF SetResolved, Resolved, AssignInv, AssignTypeOK, Modes, ApplicationRecords
<1>2. CASE p = NoProfile
  BY <1>1, <1>2 DEF AssignInv, IntentsMatchAssigned
<1>3. CASE p # NoProfile
  <2>1. Resolved(inForce, exception)' = Resolved(p, modes)
    BY <1>3 DEF Resolved
  <2>2. QED
    BY <1>1, <2>1 DEF AssignInv, IntentsMatchAssigned, SetResolved
<1>4. QED
  BY <1>2, <1>3

LEMMA ConfirmStep ==
  ASSUME AssignInv, NEW a \in DOMAIN applications, ConfirmApplication(a)
  PROVE  /\ AssignInv'
         /\ \A t \in selected : t \in selected' \/ exception[t] = "exclude"
<1> DEFINE p == applications[a].profile
           modes == [t \in AssignTargets |->
                       IF t \in Preserves(a) THEN "include" ELSE exception[t]]
<1>1. /\ profile[p].status = "published" /\ inForce' = p /\ exception' = modes
      /\ SetResolved(p, modes) /\ UNCHANGED profile
      /\ applications' = [applications EXCEPT ![a].status = "applied"]
  BY DEF ConfirmApplication, Applicable
<1>2. /\ applications \in Seq(ApplicationRecords) /\ exception \in Modes
      /\ selected \subseteq AssignTargets
  BY AssignTypes DEF AssignInv
<1>3. a \in 1..Len(applications) /\ applications[a] \in ApplicationRecords
  BY <1>2
<1>4. p \in Profiles /\ modes \in Modes
  BY <1>2, <1>3 DEF ApplicationRecords, Modes
<1>5. applications' \in Seq(ApplicationRecords)
  <2>1. [applications[a] EXCEPT !.status = "applied"] \in ApplicationRecords
    BY <1>3 DEF ApplicationRecords
  <2>2. applications' = [applications EXCEPT ![a] =
                           [applications[a] EXCEPT !.status = "applied"]]
    BY <1>1, <1>2, <1>3
  <2>3. QED
    BY <1>2, <1>3, <2>1, <2>2, ExceptSeq
<1>6. AssignInv'
  BY <1>1, <1>4, <1>5, ResolvingStep
<1>7. ASSUME NEW t \in selected, exception[t] # "exclude"
      PROVE  t \in selected'
  <2>1. selected' = {u \in AssignTargets : modes[u] = "include"
                       \/ (u \in profile[p].targets /\ modes[u] # "exclude")}
    BY <1>1, <1>4, ResolvedOfProfile DEF SetResolved
  <2>2. t \in AssignTargets
    BY <1>2
  <2>3. CASE t \in profile[p].targets
    BY <1>7, <2>1, <2>2, <2>3
  <2>4. CASE t \notin profile[p].targets
    BY <2>1, <2>2, <2>4 DEF Preserves
  <2>5. QED
    BY <2>3, <2>4
<1>8. QED
  BY <1>6, <1>7

LEMMA AssignStep ==
  ASSUME AssignInv, [AssignNext]_assignVars
  PROVE  AssignInv'
<1>1. ASSUME NEW p \in Profiles, NEW targets \in SUBSET AssignTargets,
             DraftProfile(p, targets)
      PROVE  AssignInv'
  <2>1. [status |-> "draft", targets |-> targets] \in ProfileRecords
    BY DEF ProfileRecords
  <2>2. p # inForce
    BY <1>1, AssignAssumption DEF DraftProfile, AssignInv, AssignTypeOK
  <2>3. QED
    BY <1>1, <2>1, <2>2, ProfileChanges DEF DraftProfile
<1>2. ASSUME NEW p \in Profiles, PublishProfile(p)
      PROVE  AssignInv'
  <2>1. profile \in [Profiles -> ProfileRecords]
    BY AssignTypes DEF AssignInv
  <2>2. [profile[p] EXCEPT !.status = "published"] \in ProfileRecords
    BY <2>1 DEF ProfileRecords
  <2>3. p # inForce
    BY <1>2, AssignAssumption DEF PublishProfile, AssignInv, AssignTypeOK
  <2>4. profile' = [profile EXCEPT ![p] = [profile[p] EXCEPT !.status = "published"]]
        /\ UNCHANGED <<inForce, exception, selected, applications, adopted>>
    BY <1>2 DEF PublishProfile
  <2>5. QED
    BY <2>2, <2>3, <2>4, ProfileChanges
<1>3. ASSUME NEW p \in Profiles, PreviewApplication(p)
      PROVE  AssignInv'
  <2>1. applications \in Seq(ApplicationRecords) /\ selected \subseteq AssignTargets
    BY AssignTypes DEF AssignInv
  <2>2. [profile |-> p, status |-> "previewed",
         preserved |-> selected \ profile[p].targets] \in ApplicationRecords
    BY <2>1 DEF ApplicationRecords
  <2>3. applications' \in Seq(ApplicationRecords)
    BY <1>3, <2>1, <2>2, AppendProperties DEF PreviewApplication
  <2>4. QED
    BY <1>3, <2>3 DEF PreviewApplication, AssignInv, AssignTypeOK, ApplicationRecords,
       IntentsMatchAssigned, Resolved
<1>4. ASSUME NEW a \in DOMAIN applications, ConfirmApplication(a)
      PROVE  AssignInv'
  BY <1>4, ConfirmStep
<1>5. ASSUME NEW t \in AssignTargets, NEW mode \in {"inherit", "include", "exclude"},
             SaveException(t, mode)
      PROVE  AssignInv'
  <2>1. /\ exception \in Modes /\ applications \in Seq(ApplicationRecords)
        /\ inForce \in Profiles \cup {NoProfile}
        /\ inForce # NoProfile => profile[inForce].status = "published"
    BY AssignTypes DEF AssignInv
  <2> DEFINE modes == [exception EXCEPT ![t] = mode]
  <2>2. modes \in Modes
    BY <1>5, <2>1 DEF Modes
  <2>3. exception' = modes /\ SetResolved(inForce, modes)
        /\ UNCHANGED <<profile, inForce, applications>>
    BY <1>5 DEF SaveException
  <2> HIDE DEF modes
  <2>4. /\ inForce' = inForce /\ profile' = profile
        /\ applications' \in Seq(ApplicationRecords)
    BY <2>1, <2>3
  <2>5. QED
    BY <2>1, <2>2, <2>3, <2>4, ResolvingStep
<1>6. ASSUME NEW t \in AssignTargets, AdoptTarget(t)
      PROVE  AssignInv'
  <2>1. /\ selected' = selected \cup {t}
        /\ adopted' = IF t \in selected THEN adopted ELSE adopted \cup {t}
        /\ UNCHANGED <<profile, inForce, exception, applications>>
    BY <1>6 DEF AdoptTarget
  <2>2. AssignTypeOK'
    BY <2>1 DEF AssignInv, AssignTypeOK
  <2>3. inForce # NoProfile => Resolved(inForce, exception)' = Resolved(inForce, exception)
    BY <2>1 DEF Resolved
  <2>4. QED
    BY <2>1, <2>2, <2>3 DEF AssignInv, IntentsMatchAssigned
<1>7. ASSUME NEW targets \in SUBSET AssignTargets, AssignDirectly(targets)
      PROVE  AssignInv'
  <2>1. /\ exception' = Recorded(targets) /\ selected' = targets /\ adopted' = {}
        /\ UNCHANGED <<profile, inForce, applications>>
    BY <1>7 DEF AssignDirectly
  <2>2. Recorded(targets) \in Modes
    BY DEF Recorded, Modes, AssignInv, AssignTypeOK
  <2>3. AssignTypeOK'
    BY <2>1, <2>2 DEF Modes, AssignInv, AssignTypeOK
  <2>4. inForce # NoProfile =>
          Resolved(inForce, exception)' = Resolved(inForce, Recorded(targets))
    BY <2>1 DEF Resolved
  <2>5. QED
    BY <2>1, <2>3, <2>4, RecordedResolves DEF AssignInv, IntentsMatchAssigned
<1>8. CASE RestoreAssignments
  BY <1>8, AssignTypes, ResolvingStep DEF RestoreAssignments, AssignInv
<1>9. CASE UNCHANGED assignVars
  BY <1>9 DEF assignVars, AssignInv, AssignTypeOK, IntentsMatchAssigned, Resolved
<1>10. QED
  BY <1>1, <1>2, <1>3, <1>4, <1>5, <1>6, <1>7, <1>8, <1>9 DEF AssignNext

LEMMA AssignInvariant == AssignSpec => []AssignInv
<1>1. AssignInv /\ [AssignNext]_assignVars => AssignInv'
  BY AssignStep
<1>2. QED
  BY <1>1, AssignStarts, PTL DEF AssignSpec

\* For any targets and profiles, profiles, exceptions and applications are in
\* their types, and a profile in force is published.
THEOREM AssignTypeCorrect == AssignSpec => []AssignTypeOK
<1>1. AssignInv => AssignTypeOK
  BY DEF AssignInv
<1>2. QED
  BY <1>1, AssignInvariant, PTL

\* For any targets and profiles, what is assigned under a profile is what the
\* profile and the exceptions resolve to, and what was adopted since.
THEOREM IntentsMatch == AssignSpec => []IntentsMatchAssigned
<1>1. AssignInv => IntentsMatchAssigned
  BY DEF AssignInv
<1>2. QED
  BY <1>1, AssignInvariant, PTL

\* For any targets and profiles, the application of a profile keeps what is
\* assigned by then, unless an exception excludes it.
THEOREM ApplicationsKeep == AssignSpec => ApplicationKeeps
<1> DEFINE Keeps ==
      \A t \in selected :
        (\E a \in DOMAIN applications : applications'[a] # applications[a])
          => t \in selected' \/ exception[t] = "exclude"
<1>1. AssignInv /\ [AssignNext]_assignVars => [Keeps]_assignVars
  <2> SUFFICES ASSUME AssignInv, [AssignNext]_assignVars
               PROVE  Keeps
    OBVIOUS
  <2>1. CASE \E a \in DOMAIN applications : ConfirmApplication(a)
    BY <2>1, ConfirmStep
  <2>2. CASE UNCHANGED applications \/ UNCHANGED selected
    BY <2>2
  <2>3. UNCHANGED applications \/ UNCHANGED selected
        \/ \E a \in DOMAIN applications : ConfirmApplication(a)
    BY DEF AssignNext, assignVars, DraftProfile, PublishProfile, PreviewApplication,
       SaveException, AdoptTarget, AssignDirectly, RestoreAssignments
  <2>4. QED
    BY <2>1, <2>2, <2>3
<1>2. QED
  BY <1>1, AssignInvariant, PTL DEF AssignSpec, ApplicationKeeps
-----------------------------------------------------------------------------
(***************************************************************************)
(* Mfa: for any passkeys, recovery codes and bounds, no code serves twice  *)
(* on one enrolment, recovery codes do not outlive the last factor, a      *)
(* required factor stays, and a session that counts as verified comes from *)
(* a current password.                                                     *)
(*                                                                         *)
(* The invariant has four parts: who is signed in, the confirm request on  *)
(* its way, TOTP codes, and recovery codes with the factors they replace.  *)
(***************************************************************************)
\* A cookie, held or about to be sent, names the version its password was given
\* for.
SignInInv ==
  /\ version \in 1..MaxVersion /\ pending \in 0..version
  /\ session \in MfaSessions
  /\ session.version <= version /\ session.entered = session.version
  /\ awaiting \in [doing : {"nothing", "login", "passkey", "enrolment"},
                   found : MfaSessions]
  /\ awaiting.found.version <= version
  /\ awaiting.found.entered = awaiting.found.version

\* So does the copy that a confirm request carries.
ConfirmInv ==
  /\ confirming \in [secret : 0..secrets, counter : TotpCodes, session : MfaSessions]
  /\ confirming.session.version <= version
  /\ confirming.session.entered = confirming.session.version

\* No code was accepted ahead of the last one.
TotpInv ==
  /\ step \in Steps /\ totp \in [secret : 0..secrets, last : 0..step + 1]
  /\ secrets \in 0..MaxSecrets /\ setup \in 0..secrets
  /\ acceptedCodes \in [TotpCodes -> Nat]
  /\ CodeOncePerConfirmation
  /\ \A n \in TotpCodes : n > totp.last => acceptedCodes[n] = 0

\* Codes are spent of sets that were generated, and there is a set on file where
\* there is a code.
RecoveryInv ==
  /\ recovery \in [set : 0..MaxSets, left : SUBSET Codes]
  /\ passkeys \subseteq Passkeys
  /\ spent \subseteq (1..MaxSets) \X Codes
  /\ recovery.set = 0 => recovery.left = {}
  /\ \A s \in 1..MaxSets, c \in Codes : <<s, c>> \in spent => s <= recovery.set
  /\ RecoveryCodeOnce
  /\ NoOrphanRecoveryCodes

MfaInv ==
  required \in BOOLEAN /\ SignInInv /\ ConfirmInv /\ TotpInv /\ RecoveryInv

\* What a finished login or enrolment sends is as current as what it found.
LEMMA SessionMade ==
  ASSUME NEW v \in 0..MaxVersion, NEW verified \in BOOLEAN, NEW fresh \in BOOLEAN,
         NEW s, s = [version |-> v, verified |-> verified, fresh |-> fresh, entered |-> v]
  PROVE  s \in MfaSessions /\ s.version = v /\ s.entered = v
BY DEF MfaSessions

\* While nothing is awaited, nobody was found.
LEMMA IdleFound ==
  /\ Idle \in [doing : {"nothing", "login", "passkey", "enrolment"}, found : MfaSessions]
  /\ Idle.found.version = 0 /\ Idle.found.entered = 0
<1>1. 0 \in 0..MaxVersion /\ FALSE \in BOOLEAN
  BY MfaAssumption
<1>2. /\ NoMfaSession \in MfaSessions
      /\ NoMfaSession.version = 0 /\ NoMfaSession.entered = 0
  BY <1>1, SessionMade DEF NoMfaSession
<1>3. QED
  BY <1>2 DEF Idle

\* No request carries no secret and nobody's session.
LEMMA NoConfirmIsNone ==
  ASSUME NEW last \in Nat
  PROVE  /\ NoConfirm \in [secret : 0..last, counter : TotpCodes, session : MfaSessions]
         /\ NoConfirm.session.version = 0 /\ NoConfirm.session.entered = 0
         /\ NoConfirm.secret = 0
<1>1. 0 \in 0..last /\ 0 \in TotpCodes
  BY MfaAssumption DEF TotpCodes
<1>2. NoMfaSession \in MfaSessions
      /\ NoMfaSession.version = 0 /\ NoMfaSession.entered = 0
  BY IdleFound DEF Idle
<1>3. QED
  BY <1>1, <1>2 DEF NoConfirm

LEMMA MfaStarts == MfaInit => MfaInv
<1> SUFFICES ASSUME MfaInit PROVE MfaInv
  OBVIOUS
<1>1. SignInInv
  BY MfaAssumption DEF MfaInit, SignInInv, MfaSessions, NoMfaSession, Idle
<1>2. TotpInv
  BY MfaAssumption DEF MfaInit, TotpInv, Steps, TotpCodes, CodeOncePerConfirmation
<1>3. RecoveryInv
  BY MfaAssumption DEF MfaInit, RecoveryInv, RecoveryCodeOnce, NoOrphanRecoveryCodes
<1>4. ConfirmInv
  BY <1>1, NoConfirmIsNone DEF MfaInit, ConfirmInv
<1>5. QED
  BY <1>1, <1>2, <1>3, <1>4 DEF MfaInit, MfaInv
-----------------------------------------------------------------------------
(***************************************************************************)
(* Who is signed in.                                                       *)
(***************************************************************************)
LEMMA SignInStep ==
  ASSUME SignInInv, ConfirmInv, required \in BOOLEAN, [MfaNext]_mfaVars
  PROVE  SignInInv'
<1>1. CASE LoginBegins
  <2>1. version \in 0..MaxVersion
    BY MfaAssumption DEF SignInInv
  <2>2. NoMfaSession \in MfaSessions
    BY IdleFound DEF Idle
  <2> DEFINE s == [NoMfaSession EXCEPT !.version = version, !.entered = version]
  <2>3. s \in MfaSessions /\ s.version = version /\ s.entered = version
    BY <2>1, <2>2 DEF MfaSessions
  <2>4. awaiting' = [doing |-> "login", found |-> s]
        /\ UNCHANGED <<version, session, pending>>
    BY <1>1 DEF LoginBegins
  <2> HIDE DEF s
  <2>5. QED
    BY <2>3, <2>4 DEF SignInInv
<1>2. CASE LoginEnds
  <2>1. /\ version' = version
        /\ awaiting' = Idle
        /\ \/ pending' = awaiting.found.version /\ session' = session
           \/ /\ pending' = pending
              /\ session' = [version |-> awaiting.found.version, verified |-> ~required,
                             fresh |-> TRUE, entered |-> awaiting.found.entered]
    BY <1>2 DEF LoginEnds, CookieVersion
  <2>2. awaiting.found.version \in 0..MaxVersion /\ awaiting.found.version <= version
        /\ awaiting.found.entered = awaiting.found.version
    BY DEF SignInInv, MfaSessions
  <2>3. CASE session' = session
    BY <2>1, <2>2, <2>3, IdleFound DEF SignInInv
  <2>4. CASE pending' = pending
              /\ session' = [version |-> awaiting.found.version, verified |-> ~required,
                             fresh |-> TRUE, entered |-> awaiting.found.entered]
    <3>1. (~required) \in BOOLEAN /\ TRUE \in BOOLEAN
      OBVIOUS
    <3> DEFINE verified == ~required
               fresh == TRUE
    <3>4. session' = [version |-> awaiting.found.version, verified |-> verified,
                      fresh |-> fresh, entered |-> awaiting.found.version]
      BY <2>2, <2>4
    <3>5. verified \in BOOLEAN /\ fresh \in BOOLEAN
      BY <3>1
    <3> HIDE DEF verified, fresh
    <3>2. session' \in MfaSessions /\ session'.version = awaiting.found.version
          /\ session'.entered = awaiting.found.version
      BY <2>2, <3>4, <3>5, SessionMade
    <3>3. QED
      BY <2>1, <2>2, <2>4, <3>2, IdleFound DEF SignInInv
  <2>5. QED
    BY <2>1, <2>3, <2>4
<1>3. ASSUME NEW found \in MfaSessions, FinishLogin(found), version' = version,
             found.version <= version, found.entered = found.version,
             awaiting' = awaiting \/ awaiting' = Idle
      PROVE  SignInInv'
  <2>1. session' = [version |-> found.version, verified |-> TRUE,
                    fresh |-> found.fresh, entered |-> found.entered]
        /\ pending' = 0
    BY <1>3 DEF FinishLogin, CookieVersion
  <2>2. found.fresh \in BOOLEAN /\ found.version \in 0..MaxVersion
    BY DEF MfaSessions
  <2>3. session' \in MfaSessions /\ session'.version = found.version
        /\ session'.entered = found.version
    <3>1. TRUE \in BOOLEAN /\ found.entered = found.version
      BY <1>3
    <3>2. QED
      BY <2>1, <2>2, <3>1, SessionMade
  <2>4. awaiting' \in [doing : {"nothing", "login", "passkey", "enrolment"},
                       found : MfaSessions]
        /\ awaiting'.found.version <= version
        /\ awaiting'.found.entered = awaiting'.found.version
    BY <1>3, IdleFound, MfaAssumption DEF SignInInv
  <2>5. QED
    BY <1>3, <2>1, <2>3, <2>4 DEF SignInInv
<1>4. ASSUME NEW fresh \in BOOLEAN
      PROVE  Signing(fresh) \in MfaSessions /\ Signing(fresh).version = pending
             /\ Signing(fresh).entered = pending /\ pending <= version
  <2>1. pending \in 0..MaxVersion /\ pending <= version /\ FALSE \in BOOLEAN
    BY MfaAssumption DEF SignInInv
  <2>2. QED
    BY <2>1, SessionMade DEF Signing
<1>5. ASSUME NEW fresh \in BOOLEAN, NEW counter \in TotpCodes,
             LoginTotp(counter, fresh)
      PROVE  SignInInv'
  BY <1>3, <1>4, <1>5 DEF LoginTotp
<1>6. ASSUME NEW fresh \in BOOLEAN, NEW code \in Codes, LoginRecovery(code, fresh)
      PROVE  SignInInv'
  BY <1>3, <1>4, <1>6 DEF LoginRecovery
<1>7. ASSUME NEW fresh \in BOOLEAN, PasskeyLoginBegins(fresh)
      PROVE  SignInInv'
  BY <1>4, <1>7 DEF PasskeyLoginBegins, SignInInv
<1>8. ASSUME NEW ok \in BOOLEAN, PasskeyLoginEnds(ok)
      PROVE  SignInInv'
  <2>1. CASE FinishLogin(awaiting.found)
    BY <1>3, <1>8, <2>1 DEF PasskeyLoginEnds, SignInInv
  <2>2. CASE UNCHANGED <<session, pending>>
    BY <1>8, <2>2, IdleFound, MfaAssumption DEF PasskeyLoginEnds, SignInInv
  <2>3. QED
    BY <1>8, <2>1, <2>2 DEF PasskeyLoginEnds
<1>9. CASE Reauthenticate \/ FreshnessEnds
  <2>1. /\ \/ session' = [session EXCEPT !.fresh = TRUE]
           \/ session' = [session EXCEPT !.fresh = FALSE]
        /\ UNCHANGED <<version, pending, awaiting>>
    BY <1>9 DEF Reauthenticate, FreshnessEnds
  <2>2. QED
    BY <2>1 DEF SignInInv, MfaSessions
<1>10. CASE Logout \/ PendingEnds \/ VersionMoves \/ ConfigurationChanges
  <2>1. CASE Logout
    <3>1. session' = Idle.found /\ pending' = 0 /\ UNCHANGED <<version, awaiting>>
      BY <2>1 DEF Logout, Idle
    <3>2. QED
      BY <3>1, IdleFound DEF SignInInv
  <2>2. CASE PendingEnds
    BY <2>2 DEF PendingEnds, SignInInv, factorVars
  <2>3. CASE VersionMoves
    <3>1. version' = version + 1 /\ version < MaxVersion
          /\ UNCHANGED <<session, pending, awaiting>>
      BY <2>3 DEF VersionMoves
    <3>2. session.version \in Nat /\ awaiting.found.version \in Nat
      BY DEF SignInInv, MfaSessions
    <3>3. QED
      BY <3>1, <3>2, MfaAssumption DEF SignInInv
  <2>4. CASE ConfigurationChanges
    BY <2>4, IdleFound DEF ConfigurationChanges, SignInInv
  <2>5. QED
    BY <1>10, <2>1, <2>2, <2>3, <2>4
<1>11. ASSUME NEW found \in MfaSessions, session' = Verified(found),
              found.version <= version, found.entered = found.version,
              UNCHANGED <<version, pending>>, awaiting' = awaiting \/ awaiting' = Idle
       PROVE  SignInInv'
  <2> DEFINE t == TRUE
  <2>1. t \in BOOLEAN
    OBVIOUS
  <2>2. session' = [found EXCEPT !.version = found.version, !.verified = t]
    BY <1>11 DEF Verified, CookieVersion
  <2> HIDE DEF t
  <2>3. session' \in MfaSessions /\ session'.version = found.version
        /\ session'.entered = found.entered
    BY <2>1, <2>2 DEF MfaSessions
  <2>4. QED
    BY <1>11, <2>3, IdleFound DEF SignInInv
<1>12. ASSUME NEW again \in BOOLEAN, TotpConfirm(again)
       PROVE  SignInInv'
  BY <1>11, <1>12 DEF TotpConfirm, ConfirmInv
<1>13. ASSUME NEW p \in Passkeys, EnrolmentEnds(p)
       PROVE  SignInInv'
  BY <1>11, <1>13 DEF EnrolmentEnds, SignInInv
<1>14. CASE EnrolmentBegins
  BY <1>14 DEF EnrolmentBegins, SignInInv
<1>15. CASE EnrolmentFails
  BY <1>15, IdleFound DEF EnrolmentFails, SignInInv
<1>16. CASE SetupEnds \/ StepPasses \/ TotpStart \/ TotpRevoke \/ Regenerate
            \/ (\E counter \in TotpCodes : ConfirmSent(counter)) \/ ConfirmRefused
            \/ (\E p \in Passkeys : PasskeyRevoke(p)) \/ UNCHANGED mfaVars
  BY <1>16 DEF SetupEnds, ConfirmSent, ConfirmRefused, StepPasses, TotpStart, TotpRevoke, Regenerate,
     PasskeyRevoke, mfaVars, SignInInv
<1>17. QED
  BY <1>1, <1>2, <1>5, <1>6, <1>7, <1>8, <1>9, <1>10, <1>12, <1>13, <1>14, <1>15, <1>16
     DEF MfaNext
-----------------------------------------------------------------------------
(***************************************************************************)
(* The confirm request.                                                    *)
(***************************************************************************)
LEMMA ConfirmRequestStep ==
  ASSUME SignInInv, ConfirmInv, TotpInv, [MfaNext]_mfaVars
  PROVE  ConfirmInv'
<1>1. /\ version \in Nat /\ secrets \in Nat
      /\ confirming \in [secret : 0..secrets, counter : TotpCodes, session : MfaSessions]
  BY DEF SignInInv, ConfirmInv, TotpInv
<1>2. confirming.session.version \in Nat
  BY <1>1 DEF MfaSessions
<1>3. ASSUME version' = version \/ version' = version + 1,
             secrets' = secrets \/ secrets' = secrets + 1, confirming' = confirming
      PROVE  ConfirmInv'
  BY <1>1, <1>2, <1>3 DEF ConfirmInv
<1>4. ASSUME UNCHANGED <<version, secrets>>, confirming' = NoConfirm
      PROVE  ConfirmInv'
  BY <1>1, <1>4, NoConfirmIsNone DEF ConfirmInv
<1>5. ASSUME NEW counter \in TotpCodes, ConfirmSent(counter)
      PROVE  ConfirmInv'
  BY <1>5 DEF ConfirmSent, ConfirmInv, SignInInv, TotpInv
<1>6. ASSUME NEW again \in BOOLEAN, TotpConfirm(again)
      PROVE  ConfirmInv'
  BY <1>3, <1>4, <1>6 DEF TotpConfirm
<1>7. CASE ConfirmRefused \/ SetupEnds \/ FreshnessEnds
  BY <1>4, <1>7 DEF ConfirmRefused, SetupEnds, FreshnessEnds
<1>8. CASE LoginBegins \/ LoginEnds \/ Reauthenticate \/ Logout \/ PendingEnds
           \/ VersionMoves \/ StepPasses \/ ConfigurationChanges
  BY <1>3, <1>8 DEF LoginBegins, LoginEnds, Reauthenticate, Logout, PendingEnds,
     VersionMoves, StepPasses, ConfigurationChanges, factorVars
<1>9. CASE TotpStart \/ EnrolmentBegins \/ EnrolmentFails \/ TotpRevoke \/ Regenerate
           \/ (\E p \in Passkeys : EnrolmentEnds(p) \/ PasskeyRevoke(p))
           \/ UNCHANGED mfaVars
  BY <1>3, <1>9 DEF TotpStart, EnrolmentBegins, EnrolmentFails, TotpRevoke, Regenerate,
     EnrolmentEnds, PasskeyRevoke, factorVars, mfaVars
<1>10. ASSUME NEW fresh \in BOOLEAN
       PROVE  /\ \A counter \in TotpCodes : LoginTotp(counter, fresh) => ConfirmInv'
              /\ \A code \in Codes : LoginRecovery(code, fresh) => ConfirmInv'
              /\ PasskeyLoginBegins(fresh) => ConfirmInv'
              /\ PasskeyLoginEnds(fresh) => ConfirmInv'
  BY <1>3 DEF LoginTotp, LoginRecovery, PasskeyLoginBegins, PasskeyLoginEnds, factorVars
<1>11. QED
  BY <1>5, <1>6, <1>7, <1>8, <1>9, <1>10 DEF MfaNext
-----------------------------------------------------------------------------
(***************************************************************************)
(* TOTP codes.                                                             *)
(***************************************************************************)
LEMMA TotpStep ==
  ASSUME TotpInv, ConfirmInv, [MfaNext]_mfaVars
  PROVE  TotpInv'
<1>1. ASSUME NEW fresh \in BOOLEAN, NEW counter \in TotpCodes,
             LoginTotp(counter, fresh)
      PROVE  TotpInv'
  <2>1. /\ counter > totp.last /\ counter <= step + 1
        /\ totp' = [totp EXCEPT !.last = counter]
        /\ acceptedCodes' = [acceptedCodes EXCEPT ![counter] = @ + 1]
        /\ UNCHANGED <<step, setup, secrets>>
    BY <1>1 DEF LoginTotp, CodeSteps, CounterCounts, TotpInv, Steps
  <2>2. totp.last \in Nat /\ TotpCodes \subseteq Nat
    BY MfaAssumption DEF TotpInv, Steps, TotpCodes
  <2>3. totp' \in [secret : 0..secrets, last : 0..step + 1] /\ totp'.last = counter
    BY <2>1, <2>2 DEF TotpInv
  <2>4. acceptedCodes[counter] = 0
    BY <2>1 DEF TotpInv
  <2>5. /\ acceptedCodes' \in [TotpCodes -> Nat]
        /\ \A c \in TotpCodes : acceptedCodes'[c] =
             IF c = counter THEN 1 ELSE acceptedCodes[c]
    BY <2>1, <2>4 DEF TotpInv
  <2>6. CodeOncePerConfirmation'
    BY <2>5 DEF TotpInv, CodeOncePerConfirmation
  <2>7. \A n \in TotpCodes : n > totp'.last => acceptedCodes'[n] = 0
    BY <2>1, <2>2, <2>3, <2>5 DEF TotpInv
  <2>8. QED
    BY <2>1, <2>3, <2>5, <2>6, <2>7 DEF TotpInv
<1>2. ASSUME NEW again \in BOOLEAN, TotpConfirm(again)
      PROVE  TotpInv'
  <2>1. /\ confirming.counter <= step + 1
        /\ totp' = [secret |-> confirming.secret, last |-> confirming.counter]
        /\ acceptedCodes' = [c \in TotpCodes |->
                               IF c = confirming.counter THEN 1 ELSE 0]
        /\ setup' = 0 /\ UNCHANGED <<step, secrets>>
    BY <1>2 DEF TotpConfirm, CodeSteps, TotpInv, Steps
  <2>2. confirming.secret \in 0..secrets /\ confirming.counter \in Nat
        /\ TotpCodes \subseteq Nat
    BY MfaAssumption DEF ConfirmInv, TotpCodes
  <2>3. totp' \in [secret : 0..secrets, last : 0..step + 1]
        /\ totp'.last = confirming.counter
    BY <2>1, <2>2 DEF TotpInv, Steps
  <2>4. acceptedCodes' \in [TotpCodes -> Nat] /\ CodeOncePerConfirmation'
        /\ \A n \in TotpCodes : n > totp'.last => acceptedCodes'[n] = 0
    BY <2>1, <2>2, <2>3 DEF CodeOncePerConfirmation
  <2>5. setup' \in 0..secrets'
    BY <2>1 DEF TotpInv
  <2>6. QED
    BY <2>1, <2>3, <2>4, <2>5 DEF TotpInv
<1>3. CASE TotpStart
  <2>1. /\ secrets' = secrets + 1 /\ secrets < MaxSecrets /\ setup' = secrets + 1
        /\ UNCHANGED <<step, totp, acceptedCodes>>
    BY <1>3 DEF TotpStart
  <2>2. secrets \in Nat /\ MaxSecrets \in Nat /\ totp.secret <= secrets
    BY MfaAssumption DEF TotpInv
  <2>3. totp' \in [secret : 0..secrets', last : 0..step' + 1]
    BY <2>1, <2>2 DEF TotpInv
  <2>4. QED
    BY <2>1, <2>2, <2>3 DEF TotpInv, CodeOncePerConfirmation
<1>4. CASE Logout \/ SetupEnds
  <2>1. setup' = 0 /\ UNCHANGED <<step, totp, secrets, acceptedCodes>>
    BY <1>4 DEF Logout, SetupEnds
  <2>2. 0 \in 0..secrets
    BY DEF TotpInv
  <2>3. QED
    BY <2>1, <2>2 DEF TotpInv, CodeOncePerConfirmation
<1>5. CASE TotpRevoke
  <2>1. totp' = [totp EXCEPT !.secret = 0]
        /\ UNCHANGED <<step, setup, secrets, acceptedCodes>>
    BY <1>5 DEF TotpRevoke
  <2>2. totp' \in [secret : 0..secrets, last : 0..step + 1] /\ totp'.secret = 0
    BY <2>1 DEF TotpInv
  <2>3. QED
    BY <2>1, <2>2 DEF TotpInv, CodeOncePerConfirmation
<1>6. CASE StepPasses
  <2>1. /\ step' = step + 1 /\ step < LastStep
        /\ UNCHANGED <<totp, setup, secrets, acceptedCodes>>
    BY <1>6 DEF StepPasses, factorVars
  <2>2. step' \in Steps /\ totp' \in [secret : 0..secrets, last : 0..step' + 1]
    BY <2>1, MfaAssumption DEF TotpInv, Steps
  <2>3. QED
    BY <2>1, <2>2 DEF TotpInv, CodeOncePerConfirmation
<1>7. ASSUME UNCHANGED <<step, totp, setup, secrets, acceptedCodes>>
      PROVE  TotpInv'
  BY <1>7 DEF TotpInv, CodeOncePerConfirmation
<1>8. ASSUME NEW fresh \in BOOLEAN
      PROVE  /\ PasskeyLoginBegins(fresh) => TotpInv'
             /\ \A code \in Codes : LoginRecovery(code, fresh) => TotpInv'
  BY <1>7 DEF PasskeyLoginBegins, LoginRecovery, factorVars
<1>9. CASE LoginBegins \/ LoginEnds \/ (\E ok \in BOOLEAN : PasskeyLoginEnds(ok))
           \/ Reauthenticate \/ FreshnessEnds \/ PendingEnds \/ VersionMoves
           \/ ConfigurationChanges \/ (\E counter \in TotpCodes : ConfirmSent(counter))
           \/ ConfirmRefused
  BY <1>7, <1>9 DEF LoginBegins, LoginEnds, PasskeyLoginEnds, Reauthenticate,
     FreshnessEnds, PendingEnds, VersionMoves, ConfigurationChanges, ConfirmSent,
     ConfirmRefused, factorVars
<1>10. CASE EnrolmentBegins \/ EnrolmentFails \/ Regenerate
            \/ (\E p \in Passkeys : EnrolmentEnds(p) \/ PasskeyRevoke(p))
            \/ UNCHANGED mfaVars
  BY <1>7, <1>10 DEF EnrolmentBegins, EnrolmentFails, Regenerate, EnrolmentEnds,
     PasskeyRevoke, factorVars, mfaVars
<1>11. QED
  BY <1>1, <1>2, <1>3, <1>4, <1>5, <1>6, <1>8, <1>9, <1>10 DEF MfaNext
-----------------------------------------------------------------------------
(***************************************************************************)
(* Recovery codes and factors.                                             *)
(***************************************************************************)
\* A set of codes that is new was not used.
LEMMA NewSet ==
  ASSUME RecoveryInv, recovery.set < MaxSets, recovery' = NewCodes, spent' = spent
  PROVE  /\ recovery' \in [set : 0..MaxSets, left : SUBSET Codes]
         /\ recovery'.set # 0 /\ RecoveryCodeOnce'
         /\ \A s \in 1..MaxSets, c \in Codes : <<s, c>> \in spent => s <= recovery'.set
<1>1. recovery.set \in 0..MaxSets /\ MaxSets \in Nat
  BY MfaAssumption DEF RecoveryInv
<1>2. recovery'.set = recovery.set + 1 /\ recovery'.left = Codes
  BY DEF NewCodes
<1>3. recovery' \in [set : 0..MaxSets, left : SUBSET Codes]
  BY <1>1 DEF NewCodes
<1>4. \A s \in 1..MaxSets, c \in Codes : <<s, c>> \in spent => s <= recovery.set
  BY DEF RecoveryInv
<1>5. QED
  BY <1>1, <1>2, <1>3, <1>4 DEF RecoveryCodeOnce

\* An enrolment: a new set, or the one on file; there is a factor then.
LEMMA EnrolmentCodes ==
  ASSUME RecoveryInv, CodesForEnrolment, spent' = spent, passkeys' \subseteq Passkeys,
         HasMfa'
  PROVE  RecoveryInv'
<1>1. CASE recovery' = recovery
  BY <1>1 DEF RecoveryInv, RecoveryCodeOnce, NoOrphanRecoveryCodes
<1>2. CASE recovery.set < MaxSets /\ recovery' = NewCodes
  BY <1>2, NewSet DEF RecoveryInv, NoOrphanRecoveryCodes
<1>3. QED
  BY <1>1, <1>2 DEF CodesForEnrolment

\* A revocation: with the last factor go the codes.
LEMMA RevocationCodes ==
  ASSUME RecoveryInv, spent' = spent, passkeys' \subseteq Passkeys,
         recovery' = CodesAfter(totp'.secret, passkeys')
  PROVE  RecoveryInv'
<1>1. MethodCount(0, {}) = 0
  BY FS_EmptySet DEF MethodCount
<1>2. ~HasMfa' => recovery' = [recovery EXCEPT !.left = {}]
  BY <1>1 DEF HasMfa, CodesAfter
<1>3. recovery' = recovery \/ recovery' = [recovery EXCEPT !.left = {}]
  BY DEF CodesAfter
<1>4. /\ recovery' \in [set : 0..MaxSets, left : SUBSET Codes]
      /\ recovery'.set = recovery.set /\ recovery'.left \subseteq recovery.left
      /\ ~HasMfa' => recovery'.left = {}
  BY <1>2, <1>3 DEF RecoveryInv
<1>5. QED
  BY <1>4 DEF RecoveryInv, RecoveryCodeOnce, NoOrphanRecoveryCodes

LEMMA RecoveryStep ==
  ASSUME TotpInv, RecoveryInv, [MfaNext]_mfaVars
  PROVE  RecoveryInv'
<1>1. ASSUME NEW fresh \in BOOLEAN, NEW code \in Codes, LoginRecovery(code, fresh)
      PROVE  RecoveryInv'
  <2>1. /\ code \in recovery.left
        /\ recovery' = [recovery EXCEPT !.left = @ \ {code}]
        /\ spent' = spent \cup {<<recovery.set, code>>}
        /\ UNCHANGED <<totp, passkeys>>
    BY <1>1 DEF LoginRecovery, Consumed
  <2>2. recovery.set \in 1..MaxSets
    BY <2>1 DEF RecoveryInv
  <2>3. /\ recovery' \in [set : 0..MaxSets, left : SUBSET Codes]
        /\ recovery'.set = recovery.set /\ recovery'.left = recovery.left \ {code}
    BY <2>1 DEF RecoveryInv
  <2>4. \A s \in 1..MaxSets, c \in Codes :
          <<s, c>> \in spent' => <<s, c>> \in spent \/ (s = recovery.set /\ c = code)
    BY <2>1
  <2>5. spent' \subseteq (1..MaxSets) \X Codes
    BY <2>1, <2>2 DEF RecoveryInv
  <2>6. RecoveryCodeOnce'
    BY <2>3, <2>4 DEF RecoveryInv, RecoveryCodeOnce
  <2>7. \A s \in 1..MaxSets, c \in Codes : <<s, c>> \in spent' => s <= recovery'.set
    BY <2>2, <2>3, <2>4 DEF RecoveryInv
  <2>8. QED
    BY <2>1, <2>2, <2>3, <2>5, <2>6, <2>7
       DEF RecoveryInv, NoOrphanRecoveryCodes, HasMfa
<1>2. ASSUME NEW again \in BOOLEAN, TotpConfirm(again)
      PROVE  RecoveryInv'
  <2>1. HasMfa'
    BY <1>2 DEF TotpConfirm, HasMfa
  <2>2. QED
    BY <1>2, <2>1, EnrolmentCodes DEF TotpConfirm, RecoveryInv
<1>3. ASSUME NEW p \in Passkeys, EnrolmentEnds(p)
      PROVE  RecoveryInv'
  <2>1. HasMfa' /\ passkeys' \subseteq Passkeys
    BY <1>3 DEF EnrolmentEnds, HasMfa, RecoveryInv
  <2>2. QED
    BY <1>3, <2>1, EnrolmentCodes DEF EnrolmentEnds
<1>4. CASE TotpRevoke
  <2>1. totp'.secret = 0
    BY <1>4 DEF TotpRevoke, TotpInv
  <2>2. QED
    BY <1>4, <2>1, RevocationCodes DEF TotpRevoke, RecoveryInv
<1>5. ASSUME NEW p \in Passkeys, PasskeyRevoke(p)
      PROVE  RecoveryInv'
  BY <1>5, RevocationCodes DEF PasskeyRevoke, RecoveryInv
<1>6. CASE Regenerate
  <2>1. HasMfa' /\ recovery.set < MaxSets /\ recovery' = NewCodes
        /\ UNCHANGED <<passkeys, spent>>
    BY <1>6 DEF Regenerate, Regenerable, HasMfa
  <2>2. QED
    BY <2>1, NewSet DEF RecoveryInv, NoOrphanRecoveryCodes
<1>7. ASSUME UNCHANGED <<recovery, passkeys, spent>>, totp'.secret = totp.secret
      PROVE  RecoveryInv'
  BY <1>7 DEF RecoveryInv, RecoveryCodeOnce, NoOrphanRecoveryCodes, HasMfa
<1>8. ASSUME NEW fresh \in BOOLEAN, NEW counter \in TotpCodes,
             LoginTotp(counter, fresh)
      PROVE  RecoveryInv'
  <2>1. totp'.secret = totp.secret /\ UNCHANGED <<recovery, passkeys, spent>>
    BY <1>8 DEF LoginTotp, TotpInv
  <2>2. QED
    BY <1>7, <2>1
<1>9. ASSUME UNCHANGED <<recovery, passkeys, spent, totp>>
      PROVE  RecoveryInv'
  BY <1>7, <1>9
<1>10. ASSUME NEW fresh \in BOOLEAN, PasskeyLoginBegins(fresh)
       PROVE  RecoveryInv'
  BY <1>9, <1>10 DEF PasskeyLoginBegins, factorVars
<1>11. CASE LoginBegins \/ LoginEnds \/ (\E ok \in BOOLEAN : PasskeyLoginEnds(ok))
           \/ Reauthenticate \/ FreshnessEnds \/ PendingEnds \/ VersionMoves
           \/ ConfigurationChanges \/ StepPasses
  BY <1>9, <1>11 DEF LoginBegins, LoginEnds, PasskeyLoginEnds, Reauthenticate,
     FreshnessEnds, PendingEnds, VersionMoves, ConfigurationChanges, StepPasses,
     factorVars
<1>12. CASE Logout \/ SetupEnds \/ TotpStart \/ EnrolmentBegins \/ EnrolmentFails
            \/ (\E counter \in TotpCodes : ConfirmSent(counter)) \/ ConfirmRefused
            \/ UNCHANGED mfaVars
  BY <1>9, <1>12 DEF ConfirmSent, ConfirmRefused, Logout, SetupEnds, TotpStart, EnrolmentBegins, EnrolmentFails,
     factorVars, mfaVars
<1>13. QED
  BY <1>1, <1>2, <1>3, <1>4, <1>5, <1>6, <1>8, <1>10, <1>11, <1>12 DEF MfaNext
-----------------------------------------------------------------------------
LEMMA MfaStep ==
  ASSUME MfaInv, [MfaNext]_mfaVars
  PROVE  MfaInv'
<1>1. required' = required \/ required' = ~required
  BY DEF MfaNext, mfaVars, LoginBegins, LoginEnds, LoginTotp, LoginRecovery,
     PasskeyLoginBegins, PasskeyLoginEnds, Reauthenticate, Logout, FreshnessEnds,
     PendingEnds, SetupEnds, VersionMoves, StepPasses, ConfigurationChanges, TotpStart,
     EnrolmentBegins, EnrolmentFails, TotpRevoke, Regenerate, ConfirmSent,
     TotpConfirm, ConfirmRefused, EnrolmentEnds, PasskeyRevoke
<1>2. required' \in BOOLEAN
  BY <1>1 DEF MfaInv
<1>3. QED
  BY <1>2, SignInStep, ConfirmRequestStep, TotpStep, RecoveryStep
     DEF MfaInv

LEMMA MfaInvariant == MfaSpec => []MfaInv
<1>1. MfaInv /\ [MfaNext]_mfaVars => MfaInv'
  BY MfaStep
<1>2. QED
  BY <1>1, MfaStarts, PTL DEF MfaSpec

\* For any passkeys, codes and bounds, the cookies, the factors on file and the
\* codes are in their types.
THEOREM MfaTypeCorrect == MfaSpec => []MfaTypeOK
<1>1. MfaInv => MfaTypeOK
  BY DEF MfaInv, SignInInv, ConfirmInv, TotpInv, RecoveryInv, MfaTypeOK
<1>2. QED
  BY <1>1, MfaInvariant, PTL

\* For any passkeys, codes and bounds, no TOTP code serves twice between two
\* confirmations of an authenticator, and no recovery code ever does.
THEOREM CodesOnce == MfaSpec => []CodesServeOnce
<1>1. MfaInv => CodesServeOnce
  BY DEF MfaInv, TotpInv, RecoveryInv, CodesServeOnce
<1>2. QED
  BY <1>1, MfaInvariant, PTL

\* For any passkeys, codes and bounds, recovery codes go with the last factor.
THEOREM NoOrphans == MfaSpec => []NoOrphanRecoveryCodes
<1>1. MfaInv => NoOrphanRecoveryCodes
  BY DEF MfaInv, RecoveryInv
<1>2. QED
  BY <1>1, MfaInvariant, PTL

\* For any passkeys, codes and bounds, a session that is accepted as verified comes
\* from a password given since the password or role last changed.
THEOREM VerifiedCurrent == MfaSpec => []VerifiedIsCurrent
<1>1. MfaInv => VerifiedIsCurrent
  BY DEF MfaInv, SignInInv, VerifiedIsCurrent, SessionValid
<1>2. QED
  BY <1>1, MfaInvariant, PTL
-----------------------------------------------------------------------------
\* A required factor is given up only where another one is left.
LEMMA RequiredStep ==
  ASSUME TotpInv, [MfaNext]_mfaVars, required, HasMfa
  PROVE  HasMfa'
<1>1. CASE TotpRevoke
  <2>1. MethodCount(totp.secret, passkeys) = 1 + Cardinality(passkeys)
    BY <1>1 DEF TotpRevoke, MethodCount
  <2>2. passkeys # {}
    BY <1>1, <2>1, FS_EmptySet DEF TotpRevoke, CanRevoke
  <2>3. QED
    BY <1>1, <2>2 DEF TotpRevoke, HasMfa
<1>2. ASSUME NEW p \in Passkeys, PasskeyRevoke(p)
      PROVE  HasMfa'
  <2>1. CASE totp.secret # 0
    BY <1>2, <2>1 DEF PasskeyRevoke, HasMfa
  <2>2. CASE totp.secret = 0
    <3>1. Cardinality({p}) = 1
      BY FS_Singleton
    <3>2. passkeys # {p}
      BY <1>2, <2>2, <3>1 DEF PasskeyRevoke, CanRevoke, MethodCount
    <3>3. QED
      BY <1>2, <3>2 DEF PasskeyRevoke, HasMfa
  <2>3. QED
    BY <2>1, <2>2
<1>3. ASSUME passkeys \subseteq passkeys', totp'.secret = totp.secret
      PROVE  HasMfa'
  BY <1>3 DEF HasMfa
<1>4. ASSUME NEW fresh \in BOOLEAN, NEW counter \in TotpCodes,
             LoginTotp(counter, fresh)
      PROVE  HasMfa'
  BY <1>3, <1>4 DEF LoginTotp, TotpInv
<1>5. ASSUME NEW again \in BOOLEAN, TotpConfirm(again)
      PROVE  HasMfa'
  BY <1>5 DEF TotpConfirm, HasMfa
<1>6. ASSUME NEW p \in Passkeys, EnrolmentEnds(p)
      PROVE  HasMfa'
  BY <1>3, <1>6 DEF EnrolmentEnds
<1>7. ASSUME NEW fresh \in BOOLEAN
      PROVE  /\ PasskeyLoginBegins(fresh) => HasMfa'
             /\ \A code \in Codes : LoginRecovery(code, fresh) => HasMfa'
  BY <1>3 DEF PasskeyLoginBegins, LoginRecovery, factorVars
<1>8. CASE LoginBegins \/ LoginEnds \/ (\E ok \in BOOLEAN : PasskeyLoginEnds(ok))
           \/ Reauthenticate \/ FreshnessEnds \/ PendingEnds \/ VersionMoves
           \/ ConfigurationChanges \/ StepPasses
  BY <1>3, <1>8 DEF LoginBegins, LoginEnds, PasskeyLoginEnds, Reauthenticate,
     FreshnessEnds, PendingEnds, VersionMoves, ConfigurationChanges, StepPasses,
     factorVars
<1>9. CASE Logout \/ SetupEnds \/ TotpStart \/ EnrolmentBegins \/ EnrolmentFails
           \/ (\E counter \in TotpCodes : ConfirmSent(counter)) \/ ConfirmRefused
           \/ Regenerate \/ UNCHANGED mfaVars
  BY <1>3, <1>9 DEF ConfirmSent, ConfirmRefused, Logout, SetupEnds, TotpStart, EnrolmentBegins, EnrolmentFails,
     Regenerate, factorVars, mfaVars
<1>10. QED
  BY <1>1, <1>2, <1>4, <1>5, <1>6, <1>7, <1>8, <1>9 DEF MfaNext

\* For any passkeys, codes and bounds, the final factor cannot be revoked while the
\* policy requires MFA.
THEOREM RequiredFactor == MfaSpec => RequiredFactorStays
<1>1. MfaInv /\ [MfaNext]_mfaVars => [required /\ HasMfa => HasMfa']_mfaVars
  BY RequiredStep DEF MfaInv
<1>2. QED
  BY <1>1, MfaInvariant, PTL DEF MfaSpec, RequiredFactorStays
=============================================================================
