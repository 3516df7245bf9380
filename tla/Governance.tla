----------------------------- MODULE Governance -----------------------------
(***************************************************************************)
(* Access governance (na_sso/governance.py): lifecycle policies that       *)
(* enable an account at a start date and disable or delete it at an end    *)
(* date, the worker that applies them, inactivity reviews, and access      *)
(* reviews whose attested decisions change accounts.                       *)
(*                                                                         *)
(* Dates are days of a short calendar; Never stands for an absent one.     *)
(***************************************************************************)
EXTENDS AccountOperations, SequencesExt

CONSTANTS
  LastDay,      \* bound: the calendar
  Schedules,    \* the policies to save: [user, start, end, delete, review]
  MaxReviews,   \* bound: reviews ever created
  MaxSaves,     \* bound: policies saved
  ReminderDays  \* reminder_days_before_due

Never == LastDay + 1
Day == 0..Never

ASSUME GovernanceAssumption ==
  /\ "governance" \in Coroutines
  /\ {LastDay, MaxReviews, MaxSaves, ReminderDays} \subseteq Nat
  /\ Schedules \subseteq
       [user : Accounts, start : Day, end : Day, delete : BOOLEAN, review : Day]

VARIABLES
  today,    \* the clock
  policies, \* account_lifecycle_policies, by account
  reviews,  \* access_reviews with their items
  worker,   \* governance_worker, and the scan's own clock
  saves     \* policies saved

governanceVars == <<today, policies, reviews, worker, saves>>

\* nextReview is next_review_at, reviewDays is inactivity_review_days # NULL.
PolicyRow ==
  [exists : BOOLEAN, start : Day, end : Day, delete : BOOLEAN,
   reviewDays : BOOLEAN, nextReview : Day,
   startApplied : BOOLEAN, endApplied : BOOLEAN]

Decision == {"pending", "retain", "disable", "delete"}

ReviewItem == [user : Accounts, decision : Decision, reminded : BOOLEAN]

\* date is the day in an inactivity review's source_key.
Review ==
  [source : {"manual", "inactivity"}, date : Day, due : 0..(LastDay + ReminderDays),
   status : {"draft", "open", "completed"}, items : Seq(ReviewItem)]

GovernanceTypeOK ==
  /\ today \in 0..LastDay
  /\ policies \in [Accounts -> PolicyRow]
  /\ reviews \in Seq(Review)
  /\ worker \in [state : {"asleep", "applying", "dead"}, now : 0..LastDay]
  /\ saves \in 0..MaxSaves

NoPolicy ==
  [exists |-> FALSE, start |-> Never, end |-> Never, delete |-> FALSE,
   reviewDays |-> FALSE, nextReview |-> Never,
   startApplied |-> FALSE, endApplied |-> FALSE]

GovernanceInit ==
  /\ today = 0
  /\ policies = [a \in Accounts |-> NoPolicy]
  /\ reviews = <<>>
  /\ worker = [state |-> "asleep", now |-> 0]
  /\ saves = 0

DayPasses ==
  /\ today < LastDay
  /\ today' = today + 1
  /\ UNCHANGED <<policies, reviews, worker, saves, opVars>>

-----------------------------------------------------------------------------
(***************************************************************************)
(* lifecycle_policy_save.                                                  *)
(***************************************************************************)
\* The validation of the form, as far as dates go.
Acceptable(s) == s.start < s.end \/ s.start = Never \/ s.end = Never

\* The start lies ahead: until then the account is disabled.
StartsLater(s) == s.start # Never /\ s.start > today

\* The rows a saved policy leaves, next review included (the account was last
\* seen on the first day).
SavedPolicy(s) ==
  [exists |-> TRUE, start |-> s.start, end |-> s.end, delete |-> s.delete,
   reviewDays |-> s.review # Never, nextReview |-> s.review,
   startApplied |-> ~(s.start # Never /\ s.start > today),
   endApplied |-> FALSE]

\* When the account has to be disabled and is busy, nothing is committed.  (For
\* the behaviours that explore policies.)
SavePolicy(s) ==
  LET a == s.user
      disables == StartsLater(s) /\ ~db.acct[a].disabled
  IN /\ "policy" \in meanwhile.kinds /\ Acceptable(s)
     /\ saves < MaxSaves /\ saves' = saves + 1
     /\ db.acct[a].exists /\ db.acct[a].desired # "delete"
     /\ IF disables
        THEN /\ ~Rejects("disable", a, db)
             /\ db' = [Requested("disable", a, db)
                         EXCEPT !.acct[a].disabled = TRUE]
             /\ calls' = Joined(calls, Task(a, Len(db'.ops), "stored"))
        ELSE UNCHANGED <<db, calls>>
     /\ policies' = [policies EXCEPT ![a] = SavedPolicy(s)]
     /\ UNCHANGED <<today, reviews, worker, sessions, todo, meanwhile>>
-----------------------------------------------------------------------------
(***************************************************************************)
(* apply_lifecycle_automation: one transaction over all policies, then the *)
(* synchronizations one after the other.  w holds the rows and the calls.  *)
(***************************************************************************)
Queues(w, d, a, op, action, policy) ==
  [d |-> d, pol |-> [w.pol EXCEPT ![a] = policy],
   calls |-> Append(w.calls, SyncCall("governance", a, op, action))]

StartDue(w, a) ==
  /\ w.pol[a].start <= today /\ ~w.pol[a].startApplied
  /\ w.d.acct[a].desired # "delete"

\* Mutant of EndDue: the worker looks for ends on their day only.
EndDueToday(w, a) == w.pol[a].end = today /\ ~w.pol[a].endApplied

EndDue(w, a) == w.pol[a].end <= today /\ ~w.pol[a].endApplied

Starts(w, a) ==
  LET d == Requested("enable", a, w.d)
  IN Queues(w, [d EXCEPT !.acct[a].disabled = FALSE], a, Len(d.ops), "stored",
            [w.pol[a] EXCEPT !.startApplied = TRUE])

Ends(w, a) ==
  LET cmd == IF w.pol[a].delete THEN "delete" ELSE "disable"
      d == Requested(cmd, a, w.d)
      off == IF w.pol[a].delete
             THEN [d EXCEPT !.acct[a].desired = "delete",
                            !.acct[a].deleted = FALSE]
             ELSE [d EXCEPT !.acct[a].disabled = TRUE]
  IN IF Rejects(cmd, a, w.d) THEN w
     ELSE Queues(w, off, a, d.acct[a].active,
                 IF w.pol[a].delete THEN "delete" ELSE "stored",
                 [w.pol[a] EXCEPT !.endApplied = TRUE])

\* Mutant of ApplyPolicy: the end comes first.
ApplyPolicyEndFirst(w, a) ==
  LET v == IF EndDue(w, a) THEN Ends(w, a) ELSE w
  IN IF StartDue(v, a) /\ ~Rejects("enable", a, v.d) THEN Starts(v, a) ELSE v

\* A start that is refused waits for the next scan, and so does the end.
ApplyPolicy(w, a) ==
  IF ~w.pol[a].exists \/ ~w.d.acct[a].exists THEN w
  ELSE IF StartDue(w, a)
  THEN IF Rejects("enable", a, w.d) THEN w
       ELSE IF EndDue(Starts(w, a), a) THEN Ends(Starts(w, a), a)
       ELSE Starts(w, a)
  ELSE IF EndDue(w, a) THEN Ends(w, a) ELSE w

\* The accounts in the order of their rows.
InOrder == SetToSeq(Accounts)

Applied ==
  FoldLeft(ApplyPolicy, [d |-> db, pol |-> policies, calls |-> <<>>], InOrder)

(***************************************************************************)
(* _create_inactivity_reviews, for the scan's own now.                     *)
(***************************************************************************)
Item(a) == [user |-> a, decision |-> "pending", reminded |-> FALSE]

KnownKey(revs, a, date) ==
  \E i \in DOMAIN revs : /\ revs[i].source = "inactivity"
                         /\ revs[i].date = date
                         /\ revs[i].items[1].user = a

\* The next review is cleared whether or not one is opened.
OpenInactivity(r, a, now) ==
  LET p == r.pol[a]
      opened == [source |-> "inactivity", date |-> p.nextReview,
                 due |-> now + ReminderDays, status |-> "open",
                 items |-> <<Item(a)>>]
      cleared == [r.pol EXCEPT ![a].nextReview = Never]
  IN IF ~p.exists \/ ~p.reviewDays \/ p.nextReview > now THEN r
     ELSE IF ~db'.acct[a].exists \/ db'.acct[a].desired = "delete"
             \/ KnownKey(r.revs, a, p.nextReview)
     THEN [pol |-> cleared, revs |-> r.revs]
     ELSE [pol |-> cleared, revs |-> Append(r.revs, opened)]

\* The reminders of the worker: of every open review that falls due soon and
\* has an item nobody was reminded of, all pending items.
Remind(rev) ==
  [rev EXCEPT !.items = [i \in DOMAIN @ |->
     IF @[i].decision = "pending" THEN [@[i] EXCEPT !.reminded = TRUE] ELSE @[i]]]

Unreminded(rev) ==
  \E i \in DOMAIN rev.items : /\ rev.items[i].decision = "pending"
                              /\ ~rev.items[i].reminded

Reminded(revs) ==
  [n \in DOMAIN revs |->
     IF /\ revs[n].status = "open" /\ revs[n].due <= today + ReminderDays
        /\ Unreminded(revs[n])
     THEN Remind(revs[n]) ELSE revs[n]]

\* What follows the last synchronization of a scan.
EndsScan(pol, now) ==
  LET r == FoldLeft(LAMBDA v, a : OpenInactivity(v, a, now),
                    [pol |-> pol, revs |-> reviews], InOrder)
  IN /\ policies' = r.pol
     /\ reviews' = Reminded(r.revs)
     /\ worker' = [worker EXCEPT !.state = "asleep"]

ReviewsDue ==
  \E a \in Accounts : /\ policies[a].exists /\ policies[a].reviewDays
                      /\ policies[a].nextReview <= today

RemindersDue ==
  \E n \in DOMAIN reviews : /\ reviews[n].status = "open"
                            /\ reviews[n].due <= today + ReminderDays
                            /\ Unreminded(reviews[n])

PoliciesDue ==
  LET w == [d |-> db, pol |-> policies]
  IN \E a \in Accounts : policies[a].exists /\ (StartDue(w, a) \/ EndDue(w, a))

\* A scan that finds nothing to do is no step.
ApplyLifecycleAutomation ==
  /\ worker.state = "asleep"
  /\ PoliciesDue \/ ReviewsDue \/ RemindersDue
  /\ LET w == Applied IN
     /\ w.calls # <<>> \/ ReviewsDue \/ RemindersDue
     /\ db' = w.d
     /\ Begins("governance", w.calls)
     /\ IF w.calls = <<>> THEN EndsScan(w.pol, today)
        ELSE /\ policies' = w.pol
             /\ worker' = [state |-> "applying", now |-> today]
             /\ UNCHANGED reviews
  /\ UNCHANGED <<today, saves, sessions, meanwhile>>

AppliedOne ==
  /\ worker.state = "applying"
  /\ Returns("governance") /\ GoesOn("governance")
  /\ IF todo["governance"] = <<>> THEN EndsScan(policies, worker.now)
     ELSE UNCHANGED <<policies, reviews, worker>>
  /\ UNCHANGED <<today, saves, meanwhile>>

\* Nothing catches what sync_user raises: the worker's task is over.
WorkerDies ==
  /\ worker.state = "applying"
  /\ Raises("governance") /\ Breaks("governance")
  /\ worker' = [worker EXCEPT !.state = "dead"]
  /\ UNCHANGED <<today, policies, reviews, saves, meanwhile>>
-----------------------------------------------------------------------------
(***************************************************************************)
(* Access reviews.                                                         *)
(***************************************************************************)
\* The accounts of list that can be reviewed.
Reviewable(list) ==
  FoldLeft(LAMBDA chosen, a : IF db.acct[a].exists /\ db.acct[a].desired # "delete"
                              THEN Append(chosen, a) ELSE chosen, <<>>, list)

\* access_review_preview, for the accounts of list.  (For the behaviours that
\* explore manual reviews.)
PreviewReview(list, due) ==
  LET available == Reviewable(list)
  IN /\ Asks("review") /\ Len(reviews) < MaxReviews
     /\ due <= LastDay /\ available # <<>>
     /\ reviews' = Append(reviews,
          [source |-> "manual", date |-> Never, due |-> due, status |-> "draft",
           items |-> [i \in DOMAIN available |-> Item(available[i])]])
     /\ UNCHANGED <<today, policies, worker, saves, db, calls, sessions, todo>>

\* access_review_open, with the preview's token.
OpenReview(n) ==
  /\ reviews[n].status = "draft"
  /\ reviews' = [reviews EXCEPT ![n].status = "open"]
  /\ UNCHANGED <<today, policies, worker, saves, opVars>>

\* access_review_remind: an administrator does not wait for the due date.
RemindReview(n) ==
  /\ reviews[n].status = "open" /\ Unreminded(reviews[n])
  /\ reviews' = [reviews EXCEPT ![n] = Remind(@)]
  /\ UNCHANGED <<today, policies, worker, saves, opVars>>

DecidedReview(rev, i, decision) ==
  LET last == \A j \in DOMAIN rev.items \ {i} : rev.items[j].decision # "pending"
  IN [rev EXCEPT !.items[i].decision = decision,
                 !.status = IF last THEN "completed" ELSE @]

\* Mutant of DecisionActs: an account that is busy is passed over.
DecisionActsWhenFree(a, decision) ==
  /\ decision \in {"disable", "delete"} /\ db.acct[a].exists
  /\ db.acct[a].desired # "delete" /\ Active(a, db) = {}

\* The decision asks for an operation.
DecisionActs(a, decision) ==
  /\ decision \in {"disable", "delete"}
  /\ db.acct[a].exists /\ db.acct[a].desired # "delete"

\* access_review_decision: a conflict blocks the decision, and nothing is
\* written.
Decide(n, i, decision) ==
  LET a == reviews[n].items[i].user
      d == Requested(decision, a, db)
  IN /\ reviews[n].status = "open" /\ reviews[n].items[i].decision = "pending"
     /\ IF DecisionActs(a, decision)
        THEN /\ ~Rejects(decision, a, db)
             /\ db' = IF decision = "delete"
                      THEN [d EXCEPT !.acct[a].desired = "delete",
                                     !.acct[a].deleted = FALSE]
                      ELSE [d EXCEPT !.acct[a].disabled = TRUE]
             /\ calls' = Joined(calls,
                  Task(a, d.acct[a].active,
                       IF decision = "delete" THEN "delete" ELSE "stored"))
        ELSE UNCHANGED <<db, calls>>
     /\ reviews' = [reviews EXCEPT ![n] = DecidedReview(@, i, decision)]
     /\ policies' = [policies EXCEPT ![a].nextReview =
                       IF decision = "retain" /\ policies[a].exists
                          /\ today + 1 <= LastDay
                       THEN today + 1 ELSE Never]
     /\ UNCHANGED <<today, worker, saves, sessions, todo, meanwhile>>
-----------------------------------------------------------------------------
ReviewNext ==
  \/ PreviewReview(InOrder, today + 1)
  \/ \E n \in DOMAIN reviews :
       \/ OpenReview(n) \/ RemindReview(n)
       \/ \E i \in DOMAIN reviews[n].items :
            \E decision \in Decision \ {"pending"} : Decide(n, i, decision)

WorkerStep == ApplyLifecycleAutomation \/ AppliedOne \/ WorkerDies

GovernanceNext ==
  \/ DayPasses
  \/ \E s \in Schedules : SavePolicy(s)
  \/ WorkerStep
  \/ ReviewNext

\* A restart starts the worker again; what it had queued is lost.
GovernanceLost ==
  /\ worker' = [worker EXCEPT !.state = "asleep"]
  /\ UNCHANGED <<today, policies, reviews, saves>>

GovernanceFairness == WF_<<governanceVars, opVars>>(WorkerStep)
-----------------------------------------------------------------------------
(***************************************************************************)
(* Properties.                                                             *)
(***************************************************************************)
\* "Future access remains disabled until its start date": whatever was queued
\* before the policy was saved, an account that has not started is disabled,
\* unless administrators enable it on their own.
NotStartedIsOff ==
  "enable" \notin meanwhile.kinds =>
    \A a \in Accounts :
      (policies[a].exists /\ policies[a].start # Never /\ ~policies[a].startApplied)
        => ~db.acct[a].exists \/ db.acct[a].desired = "delete"
           \/ db.acct[a].disabled

\* Access that has ended does not come back: the start of the same policy,
\* held up by another operation, is not applied after the end.
EndedIsOff ==
  "enable" \notin meanwhile.kinds =>
    \A a \in Accounts :
      (policies[a].exists /\ policies[a].endApplied)
        => ~db.acct[a].exists \/ db.acct[a].desired = "delete"
           \/ db.acct[a].disabled

\* An account is off before its start and after its end.
PolicyHolds == NotStartedIsOff /\ EndedIsOff

\* The end of a's access is overdue.
Overdue(a) ==
  /\ policies[a].exists /\ policies[a].end <= today /\ ~policies[a].endApplied
  /\ db.acct[a].exists /\ db.acct[a].desired # "delete"

\* End dates that have come are applied, however often accounts are busy when the
\* worker looks: in the end none is overdue.  It is otherwise when the worker has
\* died, or when a restart or a synchronization has left an operation unfinished,
\* which nothing resumes.
EndComes ==
  (\E a \in Accounts : Overdue(a)) ~>
    \/ \A a \in Accounts : ~Overdue(a)
    \/ worker.state = "dead" \/ {"crashed", "unfinished"} \cap meanwhile.kinds # {}

\* A recorded decision to delete is not lost to an operation that was active:
\* the account is deleted, or going to be.
DeleteDecisionHolds ==
  \A n \in DOMAIN reviews : \A i \in DOMAIN reviews[n].items :
    reviews[n].items[i].decision = "delete" =>
      LET acc == db.acct[reviews[n].items[i].user]
      IN ~acc.exists \/ acc.desired = "delete"
=============================================================================
