---------------------------- MODULE AutomationApi ----------------------------
(***************************************************************************)
(* Requests of a service account to the versioned API (na_sso/api.py,      *)
(* api_contract.py, service_accounts.py): expiring credentials, the rate   *)
(* window in memory, and the idempotency records in the database.  A       *)
(* changing request begins a record, awaits its work and then stores the   *)
(* response in the record, which may have expired or been begun anew.      *)
(*                                                                         *)
(* One clock serves the rate window and the retention.  A response is      *)
(* known by the payload that was worked on for it.  Requests that do not   *)
(* authenticate have a rate window of their own and are left out.          *)
(***************************************************************************)
EXTENDS Naturals, Sequences, FiniteSetsExt, Functions

CONSTANTS
  Creds,          \* credentials that may be issued
  ApiKeys,        \* idempotency keys (with actor, method and path)
  Payloads,       \* request payloads, up to their fingerprint
  NoResponse,     \* no response yet
  RateWindow,     \* 60 seconds
  RateLimit,      \* automation_api_policy.requests_per_minute
  Retention,      \* automation_api_policy.idempotency_retention_hours
  LastTick,       \* bound: the clock
  MaxBegun        \* bound: records begun

ASSUME ApiAssumption ==
  /\ NoResponse \notin Payloads
  /\ RateWindow \in Nat \ {0} /\ RateLimit \in Nat \ {0}
  /\ Retention \in Nat \ {0} /\ LastTick \in Nat \ {0} /\ MaxBegun \in Nat

VARIABLES
  tick,      \* the clock
  account,   \* ServiceAccount: its status and when it expires
  cred,      \* ServiceAccountCredential: the same, by credential
  window,    \* _rate_windows of the account
  record,    \* ApiIdempotencyRecord, by key
  inFlight,  \* the requests that await their work: record and payload
  begun,     \* records begun so far
  accepted,  \* history: requests accepted at each tick since the last start
  beganAt,   \* history: by key, when its last work began (0: never)
  replay     \* history: what the last replayed response was asked for, and answered

apiVars == <<tick, account, cred, window, record, inFlight, begun,
             accepted, beganAt, replay>>

Ticks == 1..LastTick
NoTime == 0  \* never

NoRecord == [id |-> 0, payload |-> NoResponse, response |-> NoResponse, expires |-> 0]
Outcomes == Payloads \cup {NoResponse}

ApiTypeOK ==
  /\ tick \in Ticks
  /\ account \in [status : {"none", "live", "revoked"}, expires : Nat]
  /\ cred \in [Creds -> [status : {"none", "live", "revoked"}, expires : Nat]]
  /\ record \in [ApiKeys -> [id : 0..MaxBegun, payload : Outcomes,
                             response : Outcomes, expires : Nat]]
  /\ inFlight \subseteq [id : 1..MaxBegun, key : ApiKeys, payload : Payloads]
  /\ begun \in 0..MaxBegun
  /\ accepted \in [Ticks -> Nat]
  /\ beganAt \in [ApiKeys -> Ticks \cup {NoTime}]
  /\ replay \in [asked : Outcomes, answered : Outcomes]

ApiInit ==
  /\ tick = 1
  /\ account = [status |-> "none", expires |-> NoTime]
  /\ cred = [c \in Creds |-> account]
  /\ window = <<>>
  /\ record = [k \in ApiKeys |-> NoRecord]
  /\ inFlight = {} /\ begun = 0
  /\ accepted = [t \in Ticks |-> 0]
  /\ beganAt = [k \in ApiKeys |-> NoTime]
  /\ replay = [asked |-> NoResponse, answered |-> NoResponse]

requestVars == <<window, record, inFlight, begun, accepted, beganAt, replay>>
-----------------------------------------------------------------------------
(***************************************************************************)
(* Service accounts and their credentials.                                 *)
(***************************************************************************)
HasExpired(item) == item.expires # NoTime /\ item.expires <= tick

\* service_account_create, with an expiry in the future or none.
CreateAccount(expires) ==
  /\ account.status = "none"
  /\ expires # NoTime => expires > tick
  /\ account' = [status |-> "live", expires |-> expires]
  /\ UNCHANGED <<tick, cred, requestVars>>

\* Mutant of CredentialExpiry: the lifetime asked for.
CredentialExpiryAsked(days) == tick + days

\* A credential does not outlive its account.
CredentialExpiry(days) ==
  IF account.expires # NoTime /\ tick + days > account.expires
  THEN account.expires ELSE tick + days

\* issue_service_account_credential.
IssueCredential(c, days) ==
  /\ cred[c].status = "none"
  /\ account.status = "live" /\ ~HasExpired(account)
  /\ cred' = [cred EXCEPT ![c] =
                [status |-> "live", expires |-> CredentialExpiry(days)]]
  /\ UNCHANGED <<tick, account, requestVars>>

RevokeCredential(c) ==
  /\ cred[c].status = "live"
  /\ cred' = [cred EXCEPT ![c].status = "revoked"]
  /\ UNCHANGED <<tick, account, requestVars>>

\* service_account_revoke takes the credentials that are left with it.
RevokeAccount ==
  /\ account.status = "live"
  /\ account' = [account EXCEPT !.status = "revoked"]
  /\ cred' = [c \in Creds |-> IF cred[c].status = "live"
                              THEN [cred[c] EXCEPT !.status = "revoked"] ELSE cred[c]]
  /\ UNCHANGED <<tick, requestVars>>

\* authenticate_service_account.
Authenticates(c) ==
  /\ account.status = "live" /\ ~HasExpired(account)
  /\ cred[c].status = "live" /\ ~HasExpired(cred[c])
-----------------------------------------------------------------------------
(***************************************************************************)
(* api_guard: the rate limit of whoever the request comes from.            *)
(***************************************************************************)
\* How many of its first entries are RateWindow old at a tick.
Stale(w, t) ==
  Max({n \in 0..Len(w) : \A i \in 1..n : w[i] + RateWindow <= t})

\* Mutant of Recent: the oldest are dropped one tick early.
RecentButLast(w) == SubSeq(w, Stale(w, tick + 1) + 1, Len(w))

\* The window, its head dropped while it is RateWindow old (now - 60).
Recent(w) == SubSeq(w, Stale(w, tick) + 1, Len(w))

\* A request that is over the limit is answered 429 and not counted.
Admitted ==
  /\ Len(Recent(window)) < RateLimit
  /\ window' = Append(Recent(window), tick)
  /\ accepted' = [accepted EXCEPT ![tick] = @ + 1]

\* A reading request, or one whose capability is refused.
Read(c) ==
  /\ Authenticates(c) /\ Admitted
  /\ UNCHANGED <<tick, account, cred, record, inFlight, begun, beganAt, replay>>
-----------------------------------------------------------------------------
(***************************************************************************)
(* begin_idempotent_request.                                               *)
(***************************************************************************)
\* The expired records are deleted first, whatever their key.
Kept == [k \in ApiKeys |-> IF record[k].expires <= tick THEN NoRecord ELSE record[k]]

\* Mutant of Begins: a request that was never answered is worked on again.
BeginsUnanswered(k, p) ==
  Kept[k] = NoRecord \/ (Kept[k].payload = p /\ Kept[k].response = NoResponse)

Begins(k, p) == Kept[k] = NoRecord

\* The record is committed before the work is awaited.
Begin(c, k, p) ==
  /\ Authenticates(c) /\ Admitted
  /\ Begins(k, p) /\ begun < MaxBegun
  /\ begun' = begun + 1
  /\ record' = [Kept EXCEPT ![k] =
       [id |-> begun', payload |-> p, response |-> NoResponse,
        expires |-> tick + Retention]]
  /\ inFlight' = inFlight \cup {[id |-> begun', key |-> k, payload |-> p]}
  /\ beganAt' = [beganAt EXCEPT ![k] = tick]
  /\ UNCHANGED <<tick, account, cred, replay>>

Replays(k, p) == Kept[k].payload = p /\ Kept[k].response # NoResponse

\* The stored response, or a 409: another payload, or one still in progress.
\* (The deletion of what had expired is then rolled back with the session.)
BeginAgain(c, k, p) ==
  /\ Authenticates(c) /\ Admitted
  /\ Kept[k] # NoRecord
  /\ replay' = IF Replays(k, p)
               THEN [asked |-> p, answered |-> Kept[k].response] ELSE replay
  /\ UNCHANGED <<tick, account, cred, record, inFlight, begun, beganAt>>

\* Mutant of RecordOf: the record of the key, whichever request began it.
RecordOfKey(r) == record[r.key] # NoRecord

\* finish_idempotent_request looks its own record up.
RecordOf(r) == record[r.key].id = r.id

\* The work of target_probe, reconciliation_preview or reconciliation_approve
\* is over, or was refused at once: the response is stored if the record is
\* still there.
Finish(r) ==
  /\ r \in inFlight /\ inFlight' = inFlight \ {r}
  /\ record' = IF RecordOf(r)
               THEN [record EXCEPT ![r.key].response = r.payload] ELSE record
  /\ UNCHANGED <<tick, account, cred, window, begun, accepted, beganAt, replay>>

\* The work raises: the record stays without a response until it expires.
WorkRaises(r) ==
  /\ r \in inFlight /\ inFlight' = inFlight \ {r}
  /\ UNCHANGED <<tick, account, cred, window, record, begun, accepted, beganAt, replay>>

\* A restart loses what was awaited and the rate windows.
ApiRestart ==
  /\ inFlight' = {} /\ window' = <<>>
  /\ accepted' = [t \in Ticks |-> 0]
  /\ UNCHANGED <<tick, account, cred, record, begun, beganAt, replay>>

Tick ==
  /\ tick < LastTick /\ tick' = tick + 1
  /\ UNCHANGED <<account, cred, requestVars>>
-----------------------------------------------------------------------------
ApiNext ==
  \/ \E t \in Ticks \cup {NoTime} : CreateAccount(t)
  \/ \E c \in Creds :
       \/ \E days \in Ticks : IssueCredential(c, days)
       \/ RevokeCredential(c)
       \/ Read(c)
       \/ \E k \in ApiKeys, p \in Payloads : Begin(c, k, p) \/ BeginAgain(c, k, p)
  \/ RevokeAccount
  \/ \E r \in inFlight : Finish(r) \/ WorkRaises(r)
  \/ ApiRestart \/ Tick

ApiSpec == ApiInit /\ [][ApiNext]_apiVars
-----------------------------------------------------------------------------
(***************************************************************************)
(* Properties.                                                             *)
(***************************************************************************)
\* A credential that nobody revoked belongs to an account nobody revoked and
\* does not outlive it, whatever was issued and revoked in which order.
LiveCredentials ==
  \A c \in Creds : cred[c].status = "live" =>
    /\ account.status = "live"
    /\ account.expires # NoTime => cred[c].expires <= account.expires

\* No stretch of time as long as the window sees more requests accepted than
\* the limit, unless the program restarted in it; what is kept of them in memory
\* is bounded by the limit, too.
RateBound ==
  /\ \A t \in Ticks :
       SumFunctionOnSet(accepted, {u \in Ticks : u <= t /\ t < u + RateWindow})
         <= RateLimit
  /\ window \in Seq(Ticks) /\ Len(window) <= RateLimit

\* A replayed response answers the payload that is asked again, though a
\* request may outlive its own record and meet one begun since.
ReplayIsFirst == replay.answered = replay.asked

\* The work of a key begins once in a retention period: retries and duplicates
\* do not repeat it, not even when the first one failed or was lost.
OncePerRetention ==
  [][\A k \in ApiKeys :
       (begun' # begun /\ record'[k].id = begun' /\ beganAt[k] # NoTime)
         => beganAt[k] + Retention <= tick]_apiVars
=============================================================================
