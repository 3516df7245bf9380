------------------------ MODULE AutomationApiProofs -------------------------
(***************************************************************************)
(* Theorems about AutomationApi: for any credentials, keys, payloads and   *)
(* bounds, a live credential belongs to a live account and does not outlive *)
(* it, a replayed response answers what is asked again, the work of a key  *)
(* begins once in a retention period, and no window sees more requests than *)
(* the limit.                                                              *)
(***************************************************************************)
EXTENDS AutomationApi, FoldProofs, SequenceTheorems
Records == [id : 0..MaxBegun, payload : Outcomes, response : Outcomes, expires : Nat]

Requests == [id : 1..MaxBegun, key : ApiKeys, payload : Payloads]

Items == [status : {"none", "live", "revoked"}, expires : Nat]

\* A record has no response or the one its own request was worked on for, and
\* stays for the retention period of the work begun last.
RecordInv ==
  /\ \A k \in ApiKeys : record[k].id <= begun
                        /\ record[k].response \in {NoResponse, record[k].payload}
  /\ \A r \in inFlight : /\ r.id <= begun
                         /\ record[r.key].id = r.id => record[r.key].payload = r.payload
  /\ \A k \in ApiKeys : beganAt[k] # NoTime =>
       record[k].expires = beganAt[k] + Retention \/ beganAt[k] + Retention <= tick

ApiInv == ApiTypeOK /\ RecordInv /\ LiveCredentials /\ ReplayIsFirst

LEMMA ApiTypes ==
  ApiTypeOK <=>
    /\ tick \in Ticks /\ account \in Items /\ cred \in [Creds -> Items]
    /\ record \in [ApiKeys -> Records] /\ inFlight \subseteq Requests
    /\ begun \in 0..MaxBegun /\ accepted \in [Ticks -> Nat]
    /\ beganAt \in [ApiKeys -> Ticks \cup {NoTime}]
    /\ replay \in [asked : Outcomes, answered : Outcomes]
BY DEF ApiTypeOK, Records, Requests, Items

LEMMA NoRecordIsARecord == NoRecord \in Records /\ NoResponse \in Outcomes
BY ApiAssumption DEF NoRecord, Records, Outcomes

LEMMA ApiStarts == ApiInit => ApiInv
<1> SUFFICES ASSUME ApiInit PROVE ApiInv
  OBVIOUS
<1>1. ApiTypeOK
  <2>1. tick \in Ticks /\ begun \in 0..MaxBegun /\ inFlight \subseteq Requests
    BY ApiAssumption DEF ApiInit, Ticks
  <2>2. account \in Items /\ cred \in [Creds -> Items]
    BY DEF ApiInit, Items, NoTime
  <2>3. record \in [ApiKeys -> Records] /\ replay \in [asked : Outcomes, answered : Outcomes]
    BY NoRecordIsARecord DEF ApiInit
  <2>4. accepted \in [Ticks -> Nat] /\ beganAt \in [ApiKeys -> Ticks \cup {NoTime}]
    BY DEF ApiInit
  <2>5. QED
    BY <2>1, <2>2, <2>3, <2>4, ApiTypes
<1>2. RecordInv
  BY DEF ApiInit, RecordInv, NoRecord
<1>3. LiveCredentials /\ ReplayIsFirst
  BY DEF ApiInit, LiveCredentials, ReplayIsFirst
<1>4. QED
  BY <1>1, <1>2, <1>3 DEF ApiInv
-----------------------------------------------------------------------------
(***************************************************************************)
(* Accounts and credentials.                                               *)
(***************************************************************************)
LEMMA AccountStep ==
  ASSUME ApiTypeOK, LiveCredentials,
         \/ \E t \in Ticks \cup {NoTime} : CreateAccount(t)
         \/ \E c \in Creds :
              (\E days \in Ticks : IssueCredential(c, days)) \/ RevokeCredential(c)
         \/ RevokeAccount
  PROVE  /\ account' \in Items /\ cred' \in [Creds -> Items] /\ LiveCredentials'
         /\ UNCHANGED <<tick, record, inFlight, begun, accepted, beganAt, replay>>
<1>1. account \in Items /\ cred \in [Creds -> Items] /\ tick \in Ticks /\ Ticks \subseteq Nat
  BY ApiTypes, ApiAssumption DEF Ticks
<1>2. ASSUME NEW t \in Ticks \cup {NoTime}, CreateAccount(t)
      PROVE  account' \in Items /\ cred' \in [Creds -> Items] /\ LiveCredentials'
             /\ UNCHANGED <<tick, record, inFlight, begun, accepted, beganAt, replay>>
  BY <1>1, <1>2 DEF CreateAccount, Items, LiveCredentials, requestVars, NoTime
<1>3. ASSUME NEW c \in Creds, NEW days \in Ticks, IssueCredential(c, days)
      PROVE  account' \in Items /\ cred' \in [Creds -> Items] /\ LiveCredentials'
             /\ UNCHANGED <<tick, record, inFlight, begun, accepted, beganAt, replay>>
  <2>1. CredentialExpiry(days) \in Nat
        /\ (account.expires # NoTime => CredentialExpiry(days) <= account.expires)
    BY <1>1, <1>3 DEF CredentialExpiry, Items
  <2>2. /\ cred' = [cred EXCEPT ![c] = [status |-> "live", expires |-> CredentialExpiry(days)]]
        /\ account.status = "live" /\ account' = account
        /\ UNCHANGED <<tick, record, inFlight, begun, accepted, beganAt, replay>>
    BY <1>3 DEF IssueCredential, requestVars
  <2>3. QED
    BY <1>1, <2>1, <2>2 DEF Items, LiveCredentials
<1>4. ASSUME NEW c \in Creds, RevokeCredential(c)
      PROVE  account' \in Items /\ cred' \in [Creds -> Items] /\ LiveCredentials'
             /\ UNCHANGED <<tick, record, inFlight, begun, accepted, beganAt, replay>>
  <2>1. [cred[c] EXCEPT !.status = "revoked"] \in Items
    BY <1>1, <1>4 DEF Items
  <2>2. cred' = [cred EXCEPT ![c] = [cred[c] EXCEPT !.status = "revoked"]]
        /\ UNCHANGED <<tick, account, record, inFlight, begun, accepted, beganAt, replay>>
    BY <1>4 DEF RevokeCredential, requestVars
  <2>3. \A d \in Creds : cred'[d].status = "live" => cred'[d] = cred[d]
    BY <1>1, <2>2 DEF Items
  <2>4. QED
    BY <1>1, <1>4, <2>1, <2>2, <2>3 DEF LiveCredentials
<1>5. ASSUME RevokeAccount
      PROVE  account' \in Items /\ cred' \in [Creds -> Items] /\ LiveCredentials'
             /\ UNCHANGED <<tick, record, inFlight, begun, accepted, beganAt, replay>>
  <2>1. /\ account' = [account EXCEPT !.status = "revoked"]
        /\ cred' = [c \in Creds |-> IF cred[c].status = "live"
                                    THEN [cred[c] EXCEPT !.status = "revoked"] ELSE cred[c]]
        /\ UNCHANGED <<tick, record, inFlight, begun, accepted, beganAt, replay>>
    BY <1>5 DEF RevokeAccount, requestVars
  <2>2. \A c \in Creds : cred'[c] \in Items /\ cred'[c].status # "live"
    BY <1>1, <2>1 DEF Items
  <2>3. cred' \in [Creds -> Items]
    BY <2>1, <2>2
  <2>4. account' \in Items
    BY <1>1, <2>1 DEF Items
  <2>5. QED
    BY <2>1, <2>2, <2>3, <2>4 DEF LiveCredentials
<1>6. QED
  BY <1>2, <1>3, <1>4, <1>5
-----------------------------------------------------------------------------
(***************************************************************************)
(* Records and requests.                                                   *)
(***************************************************************************)
LEMMA AdmittedStep ==
  ASSUME ApiTypeOK, Admitted
  PROVE  accepted' \in [Ticks -> Nat]
BY ApiTypes DEF Admitted

\* What the deletion of expired records leaves.
LEMMA KeptRecords ==
  ASSUME ApiTypeOK
  PROVE  /\ Kept \in [ApiKeys -> Records]
         /\ \A k \in ApiKeys : \/ Kept[k] = record[k] /\ record[k].expires > tick
                               \/ Kept[k] = NoRecord /\ record[k].expires <= tick
<1>1. record \in [ApiKeys -> Records] /\ tick \in Nat
  BY ApiTypes, ApiAssumption DEF Ticks
<1>2. QED
  BY <1>1, NoRecordIsARecord DEF Kept, Records

\* A record is begun where none is kept: the retention of the last one is over.
LEMMA BeginStep ==
  ASSUME ApiInv, NEW c \in Creds, NEW k \in ApiKeys, NEW p \in Payloads, Begin(c, k, p)
  PROVE  /\ ApiInv'
         /\ beganAt[k] # NoTime => beganAt[k] + Retention <= tick
         /\ \A j \in ApiKeys \ {k} : record'[j].id # begun'
<1> DEFINE new == [id |-> begun', payload |-> p, response |-> NoResponse,
                   expires |-> tick + Retention]
           request == [id |-> begun', key |-> k, payload |-> p]
<1>1. /\ Admitted /\ Kept[k] = NoRecord /\ begun < MaxBegun /\ begun' = begun + 1
      /\ record' = [Kept EXCEPT ![k] = new]
      /\ inFlight' = inFlight \cup {request}
      /\ beganAt' = [beganAt EXCEPT ![k] = tick]
      /\ UNCHANGED <<tick, account, cred, replay>>
  BY DEF Begin, Begins
<1>2. /\ tick \in Ticks /\ tick \in Nat /\ begun \in 0..MaxBegun /\ MaxBegun \in Nat
      /\ Retention \in Nat \ {0}
      /\ record \in [ApiKeys -> Records] /\ inFlight \subseteq Requests
      /\ beganAt \in [ApiKeys -> Ticks \cup {NoTime}]
      /\ \A j \in ApiKeys : beganAt[j] \in Nat
  BY ApiTypes, ApiAssumption DEF ApiInv, Ticks, NoTime
<1>3. new \in Records /\ request \in Requests /\ begun' \in 0..MaxBegun
  BY <1>1, <1>2, NoRecordIsARecord DEF Records, Requests, Outcomes
<1>4. Kept \in [ApiKeys -> Records]
      /\ \A j \in ApiKeys : \/ Kept[j] = record[j] /\ record[j].expires > tick
                            \/ Kept[j] = NoRecord /\ record[j].expires <= tick
  BY KeptRecords DEF ApiInv
<1>5. ApiTypeOK'
  <2>1. record' \in [ApiKeys -> Records] /\ inFlight' \subseteq Requests
        /\ beganAt' \in [ApiKeys -> Ticks \cup {NoTime}]
    BY <1>1, <1>2, <1>3, <1>4
  <2>2. accepted' \in [Ticks -> Nat]
    BY <1>1, AdmittedStep DEF ApiInv
  <2>3. QED
    BY <1>1, <1>3, <2>1, <2>2 DEF ApiInv, ApiTypeOK, Records, Requests, Items
<1>6. \A j \in ApiKeys : record'[j] = IF j = k THEN new ELSE Kept[j]
  BY <1>1, <1>4
<1>7. \A j \in ApiKeys : Kept[j].id <= begun
                         /\ Kept[j].response \in {NoResponse, Kept[j].payload}
  BY <1>2, <1>4 DEF ApiInv, RecordInv, NoRecord
<1>8. \A j \in ApiKeys : beganAt[j] # NoTime =>
        \/ Kept[j] = record[j] /\ record[j].expires = beganAt[j] + Retention
        \/ beganAt[j] + Retention <= tick
  BY <1>2, <1>4 DEF ApiInv, RecordInv, Records
<1>9. beganAt[k] # NoTime => beganAt[k] + Retention <= tick
  BY <1>1, <1>2, <1>8 DEF NoRecord
<1>10. \A r \in inFlight' : /\ r.id <= begun'
                            /\ record'[r.key].id = r.id => record'[r.key].payload = r.payload
  <2>1. ASSUME NEW r \in inFlight
        PROVE  /\ r.id <= begun'
               /\ record'[r.key].id = r.id => record'[r.key].payload = r.payload
    <3>1. r \in Requests /\ r.key \in ApiKeys /\ r.id \in Nat /\ r.id # 0 /\ r.id <= begun
      BY <1>2 DEF ApiInv, RecordInv, Requests
    <3>2. CASE r.key = k
      BY <1>1, <1>2, <1>6, <3>1, <3>2
    <3>3. CASE r.key # k
      BY <1>1, <1>2, <1>4, <1>6, <3>1, <3>3 DEF ApiInv, RecordInv, NoRecord
    <3>4. QED
      BY <3>2, <3>3
  <2>2. request.id <= begun' /\ record'[request.key].payload = request.payload
    BY <1>1, <1>2, <1>6
  <2>3. QED
    BY <1>1, <2>1, <2>2
<1>11. \A j \in ApiKeys : beganAt'[j] # NoTime =>
         record'[j].expires = beganAt'[j] + Retention \/ beganAt'[j] + Retention <= tick
  BY <1>1, <1>2, <1>6, <1>8
<1>12. RecordInv'
  <2>1. \A j \in ApiKeys : record'[j].id <= begun'
                           /\ record'[j].response \in {NoResponse, record'[j].payload}
    BY <1>1, <1>2, <1>4, <1>6, <1>7 DEF Records
  <2>2. QED
    BY <1>1, <1>10, <1>11, <2>1 DEF RecordInv
<1>13. LiveCredentials' /\ ReplayIsFirst'
  BY <1>1 DEF ApiInv, LiveCredentials, ReplayIsFirst
<1>14. \A j \in ApiKeys \ {k} : record'[j].id # begun'
  BY <1>1, <1>2, <1>4, <1>6, <1>7 DEF Records
<1>15. QED
  BY <1>5, <1>9, <1>12, <1>13, <1>14 DEF ApiInv

LEMMA FinishStep ==
  ASSUME ApiInv, NEW r \in inFlight, Finish(r)
  PROVE  ApiInv'
<1>1. /\ record \in [ApiKeys -> Records] /\ r \in Requests /\ r.key \in ApiKeys
      /\ r.payload \in Outcomes
  BY ApiTypes DEF ApiInv, Requests, Outcomes
<1>2. inFlight' \subseteq inFlight
      /\ UNCHANGED <<tick, account, cred, begun, accepted, beganAt, replay>>
  BY DEF Finish
<1>3. record' \in [ApiKeys -> Records]
      /\ \A k \in ApiKeys :
           /\ record'[k].id = record[k].id /\ record'[k].payload = record[k].payload
           /\ record'[k].expires = record[k].expires
           /\ record'[k].response \in {NoResponse, record[k].payload}
  <2>1. CASE record' = record
    BY <1>1, <2>1 DEF ApiInv, RecordInv
  <2>2. CASE record[r.key].id = r.id
             /\ record' = [record EXCEPT ![r.key].response = r.payload]
    <3>1. record[r.key].payload = r.payload
      BY <2>2 DEF ApiInv, RecordInv
    <3>2. record' = [record EXCEPT ![r.key] = [record[r.key] EXCEPT !.response = r.payload]]
      BY <2>2
    <3>3. [record[r.key] EXCEPT !.response = r.payload] \in Records
      BY <1>1 DEF Records
    <3>4. \A k \in ApiKeys : record'[k] =
            IF k = r.key THEN [record[k] EXCEPT !.response = r.payload] ELSE record[k]
      BY <1>1, <3>2
    <3>5. QED
      BY <1>1, <3>1, <3>2, <3>3, <3>4 DEF ApiInv, RecordInv, Records
  <2>3. QED
    BY <2>1, <2>2 DEF Finish, RecordOf
<1>4. ApiTypeOK'
  BY <1>2, <1>3 DEF ApiInv, ApiTypeOK, Records, Requests, Items
<1>5. RecordInv'
  <2>1. \A s \in inFlight' : s.key \in ApiKeys
    BY <1>2, ApiTypes DEF ApiInv, Requests
  <2>2. QED
    BY <1>2, <1>3, <2>1 DEF ApiInv, RecordInv
<1>6. QED
  BY <1>2, <1>4, <1>5 DEF ApiInv, LiveCredentials, ReplayIsFirst

\* Steps that leave the records alone, and may lose requests or let time pass.
LEMMA RecordsKept ==
  ASSUME ApiInv, inFlight' \subseteq inFlight, accepted' \in [Ticks -> Nat],
         tick' = tick \/ (tick' = tick + 1 /\ tick < LastTick),
         UNCHANGED <<account, cred, record, begun, beganAt>>,
         replay' \in [asked : Outcomes, answered : Outcomes], ReplayIsFirst'
  PROVE  ApiInv'
<1>1. /\ tick \in Ticks /\ tick \in Nat /\ tick' \in Ticks /\ tick' \in Nat /\ tick <= tick'
      /\ Retention \in Nat /\ \A k \in ApiKeys : beganAt[k] \in Nat
  BY ApiTypes, ApiAssumption DEF ApiInv, Ticks, NoTime
<1>2. ApiTypeOK'
  BY <1>1 DEF ApiInv, ApiTypeOK
<1>3. RecordInv'
  BY <1>1 DEF ApiInv, RecordInv
<1>4. QED
  BY <1>2, <1>3 DEF ApiInv, LiveCredentials

LEMMA ApiStep ==
  ASSUME ApiInv, [ApiNext]_apiVars
  PROVE  ApiInv'
<1>1. /\ accepted \in [Ticks -> Nat] /\ replay \in [asked : Outcomes, answered : Outcomes]
      /\ ReplayIsFirst
  BY ApiTypes DEF ApiInv
<1>2. CASE \/ \E t \in Ticks \cup {NoTime} : CreateAccount(t)
           \/ \E c \in Creds :
                (\E days \in Ticks : IssueCredential(c, days)) \/ RevokeCredential(c)
           \/ RevokeAccount
  <2>1. /\ account' \in Items /\ cred' \in [Creds -> Items] /\ LiveCredentials'
        /\ UNCHANGED <<tick, record, inFlight, begun, accepted, beganAt, replay>>
    BY <1>2, AccountStep DEF ApiInv
  <2>2. ApiTypeOK'
    BY <2>1 DEF ApiInv, ApiTypeOK, Items
  <2>3. QED
    BY <2>1, <2>2 DEF ApiInv, RecordInv, ReplayIsFirst
<1>3. ASSUME NEW c \in Creds, Read(c)
      PROVE  ApiInv'
  BY <1>1, <1>3, AdmittedStep, RecordsKept DEF Read, ApiInv, ReplayIsFirst
<1>4. ASSUME NEW c \in Creds, NEW k \in ApiKeys, NEW p \in Payloads, BeginAgain(c, k, p)
      PROVE  ApiInv'
  <2>1. /\ accepted' \in [Ticks -> Nat]
        /\ UNCHANGED <<tick, account, cred, record, inFlight, begun, beganAt>>
    BY <1>4, AdmittedStep DEF BeginAgain, ApiInv
  <2>2. CASE replay' = replay
    BY <1>1, <2>1, <2>2, RecordsKept DEF ReplayIsFirst
  <2>3. CASE Replays(k, p) /\ replay' = [asked |-> p, answered |-> Kept[k].response]
    <3>1. Kept[k] = record[k]
      BY <1>4, KeptRecords DEF BeginAgain, ApiInv
    <3>2. Kept[k].response = p /\ p \in Outcomes
      BY <2>3, <3>1 DEF Replays, ApiInv, RecordInv, Outcomes
    <3>3. replay' \in [asked : Outcomes, answered : Outcomes] /\ ReplayIsFirst'
      BY <2>3, <3>2 DEF ReplayIsFirst
    <3>4. QED
      BY <2>1, <3>3, RecordsKept
  <2>4. QED
    BY <1>4, <2>2, <2>3 DEF BeginAgain
<1>5. ASSUME NEW c \in Creds, NEW k \in ApiKeys, NEW p \in Payloads, Begin(c, k, p)
      PROVE  ApiInv'
  BY <1>5, BeginStep
<1>6. ASSUME NEW r \in inFlight, Finish(r) \/ WorkRaises(r)
      PROVE  ApiInv'
  <2>1. CASE Finish(r)
    BY <2>1, FinishStep
  <2>2. CASE WorkRaises(r)
    BY <1>1, <2>2, RecordsKept DEF WorkRaises, ReplayIsFirst
  <2>3. QED
    BY <1>6, <2>1, <2>2
<1>7. CASE ApiRestart
  <2>1. accepted' \in [Ticks -> Nat]
    BY <1>7 DEF ApiRestart
  <2>2. QED
    BY <1>1, <1>7, <2>1, RecordsKept DEF ApiRestart, ReplayIsFirst
<1>8. CASE Tick
  BY <1>1, <1>8, RecordsKept DEF Tick, requestVars, ReplayIsFirst
<1>9. CASE UNCHANGED apiVars
  BY <1>1, <1>9, RecordsKept DEF apiVars, ReplayIsFirst
<1>10. QED
  BY <1>2, <1>3, <1>4, <1>5, <1>6, <1>7, <1>8, <1>9 DEF ApiNext

LEMMA ApiInvariant == ApiSpec => []ApiInv
<1>1. ApiInv /\ [ApiNext]_apiVars => ApiInv'
  BY ApiStep
<1>2. QED
  BY <1>1, ApiStarts, PTL DEF ApiSpec

\* For any credentials, keys and payloads, accounts, records and requests are in
\* their types.
THEOREM ApiTypeCorrect == ApiSpec => []ApiTypeOK
<1>1. ApiInv => ApiTypeOK
  BY DEF ApiInv
<1>2. QED
  BY <1>1, ApiInvariant, PTL

\* For any credentials, one that nobody revoked belongs to an account nobody
\* revoked and does not outlive it.
THEOREM CredentialsLive == ApiSpec => []LiveCredentials
<1>1. ApiInv => LiveCredentials
  BY DEF ApiInv
<1>2. QED
  BY <1>1, ApiInvariant, PTL

\* For any keys and payloads, a replayed response answers what is asked again.
THEOREM ReplaysAnswer == ApiSpec => []ReplayIsFirst
<1>1. ApiInv => ReplayIsFirst
  BY DEF ApiInv
<1>2. QED
  BY <1>1, ApiInvariant, PTL

\* Work is begun by Begin only.
LEMMA OnlyBeginBegins ==
  ASSUME [ApiNext]_apiVars, begun' # begun
  PROVE  \E c \in Creds, k \in ApiKeys, p \in Payloads : Begin(c, k, p)
BY DEF ApiNext, apiVars, requestVars, CreateAccount, IssueCredential, RevokeCredential,
   Read, BeginAgain, RevokeAccount, Finish, WorkRaises, ApiRestart, Tick

\* For any keys, payloads and retention, the work of a key begins once in a
\* retention period.
THEOREM RetentionHolds == ApiSpec => OncePerRetention
<1> DEFINE Once ==
      \A k \in ApiKeys :
        (begun' # begun /\ record'[k].id = begun' /\ beganAt[k] # NoTime)
          => beganAt[k] + Retention <= tick
<1>1. ApiInv /\ [ApiNext]_apiVars => [Once]_apiVars
  <2> SUFFICES ASSUME ApiInv, [ApiNext]_apiVars, NEW k \in ApiKeys,
                      begun' # begun, record'[k].id = begun', beganAt[k] # NoTime
               PROVE  beganAt[k] + Retention <= tick
    OBVIOUS
  <2>1. PICK c \in Creds, j \in ApiKeys, p \in Payloads : Begin(c, j, p)
    BY OnlyBeginBegins
  <2>2. /\ beganAt[j] # NoTime => beganAt[j] + Retention <= tick
        /\ \A i \in ApiKeys \ {j} : record'[i].id # begun'
    BY <2>1, BeginStep
  <2>3. QED
    BY <2>2
<1>2. QED
  BY <1>1, ApiInvariant, PTL DEF ApiSpec, OncePerRetention
-----------------------------------------------------------------------------
(***************************************************************************)
(* The rate window.  What was accepted since v is at most what the window  *)
(* keeps from v on, for every v that it has not yet left behind.           *)
(***************************************************************************)
Span(t) == {u \in Ticks : u <= t /\ t < u + RateWindow}
From(v) == {u \in Ticks : v <= u}
Since(w, v) == {i \in 1..Len(w) : v <= w[i]}

Windows(w, t) == w \in Seq(Ticks) /\ \A i \in 1..Len(w) : w[i] <= t

RateOK(a, w, now) ==
  /\ Windows(w, now) /\ Len(w) <= RateLimit
  /\ \A u \in Ticks : now < u => a[u] = 0
  /\ \A v \in Ticks : now < v + RateWindow =>
       Cardinality(Counted(a, From(v))) <= Cardinality(Since(w, v))
  /\ \A t \in Ticks : Cardinality(Counted(a, Span(t))) <= RateLimit

RateInv == RateOK(accepted, window, tick)

LEMMA TicksFinite ==
  /\ IsFiniteSet(Ticks) /\ Ticks \subseteq Nat /\ RateWindow \in Nat \ {0}
  /\ RateLimit \in Nat \ {0} /\ LastTick \in Nat
BY ApiAssumption, FS_Interval DEF Ticks

LEMMA CountsFinite ==
  ASSUME NEW f \in [Ticks -> Nat], NEW S \in SUBSET Ticks
  PROVE  /\ IsFiniteSet(Counted(f, S)) /\ Cardinality(Counted(f, S)) \in Nat
         /\ SumFunctionOnSet(f, S) = Cardinality(Counted(f, S))
<1>1. IsFiniteSet(S)
  BY TicksFinite, FS_Subset
<1>2. \A x \in S : f[x] \in Nat
  OBVIOUS
<1>3. QED
  BY <1>1, <1>2, SumCounts, FS_CardinalityType

\* Where nothing is counted the sum is 0.
LEMMA NothingCounted ==
  ASSUME NEW f \in [Ticks -> Nat], NEW S \in SUBSET Ticks, \A u \in S : f[u] = 0
  PROVE  Cardinality(Counted(f, S)) = 0
<1>1. Counted(f, S) = {}
  BY DEF Counted
<1>2. QED
  BY <1>1, FS_EmptySet

LEMMA CountsWithin ==
  ASSUME NEW f \in [Ticks -> Nat], NEW S \in SUBSET Ticks, NEW T \in SUBSET S
  PROVE  Cardinality(Counted(f, T)) <= Cardinality(Counted(f, S))
<1>1. Counted(f, T) \subseteq Counted(f, S)
  BY DEF Counted
<1>2. QED
  BY <1>1, CountsFinite, FS_Subset

\* One more counted at u.
LEMMA CountOneMore ==
  ASSUME NEW f \in [Ticks -> Nat], NEW u \in Ticks, NEW S \in SUBSET Ticks
  PROVE  Cardinality(Counted([f EXCEPT ![u] = @ + 1], S)) =
           IF u \in S THEN Cardinality(Counted(f, S)) + 1 ELSE Cardinality(Counted(f, S))
<1> DEFINE g == [f EXCEPT ![u] = @ + 1]
           x == <<u, f[u] + 1>>
<1>1. g \in [Ticks -> Nat] /\ \A v \in Ticks : g[v] = IF v = u THEN f[u] + 1 ELSE f[v]
  OBVIOUS
<1> HIDE DEF g
<1>2. CASE u \in S
  <2>1. Counted(g, S) = Counted(f, S) \cup {x} /\ x \notin Counted(f, S)
    <3>1. \A y \in S \X Nat : (1 <= y[2] /\ y[2] <= g[y[1]])
                               <=> ((1 <= y[2] /\ y[2] <= f[y[1]]) \/ y = x)
      BY <1>1
    <3>2. x \in S \X Nat /\ ~(x[2] <= f[x[1]])
      BY <1>2
    <3> HIDE DEF x
    <3>3. QED
      BY <3>1, <3>2 DEF Counted
  <2> HIDE DEF x
  <2>2. IsFiniteSet(Counted(f, S))
    BY CountsFinite
  <2>3. Cardinality(Counted(f, S) \cup {x}) = Cardinality(Counted(f, S)) + 1
    BY <2>1, <2>2, FS_AddElement
  <2>4. QED
    BY <1>2, <2>1, <2>3 DEF g
<1>3. CASE u \notin S
  <2>1. \A v \in S : g[v] = f[v]
    BY <1>1, <1>3
  <2>2. Counted(g, S) = Counted(f, S)
    BY <2>1 DEF Counted
  <2>3. QED
    BY <1>3, <2>2 DEF g
<1>4. QED
  BY <1>2, <1>3

LEMMA SinceFinite ==
  ASSUME NEW w, NEW v, Len(w) \in Int
  PROVE  IsFiniteSet(Since(w, v)) /\ Cardinality(Since(w, v)) \in Nat
<1>1. IsFiniteSet(1..Len(w)) /\ Since(w, v) \subseteq 1..Len(w)
  BY FS_Interval DEF Since
<1>2. QED
  BY <1>1, FS_Subset, FS_CardinalityType

LEMMA StaleOnes ==
  ASSUME NEW w \in Seq(Ticks), NEW t \in Nat
  PROVE  /\ Stale(w, t) \in 0..Len(w)
         /\ \A i \in 1..Stale(w, t) : w[i] + RateWindow <= t
<1> DEFINE S == {n \in 0..Len(w) : \A i \in 1..n : w[i] + RateWindow <= t}
<1>1. 0 \in S /\ S \in SUBSET Nat /\ Len(w) \in Nat
  BY LenProperties
<1>2. IsFiniteSet(S)
  <2>1. IsFiniteSet(0..Len(w)) /\ S \subseteq 0..Len(w)
    BY <1>1, FS_Interval
  <2> HIDE DEF S
  <2>2. QED
    BY <2>1, FS_Subset
<1>3. Max(S) \in S
  <2> HIDE DEF S
  <2>1. QED
    BY <1>1, <1>2, MaxOf
<1>4. Stale(w, t) = Max(S)
  BY DEF Stale
<1>5. QED
  BY <1>3, <1>4

\* The window that is kept: as many entries from v on as there were, if v has not
\* yet left it.
LEMMA RecentOnes ==
  ASSUME Windows(window, tick), tick \in Ticks
  PROVE  /\ Windows(Recent(window), tick) /\ Len(Recent(window)) <= Len(window)
         /\ \A v \in Ticks : tick < v + RateWindow =>
              Cardinality(Since(Recent(window), v)) = Cardinality(Since(window, v))
<1> DEFINE m == Stale(window, tick)
           r == Recent(window)
<1>1. window \in Seq(Ticks) /\ tick \in Nat /\ Len(window) \in Nat
  BY TicksFinite, LenProperties DEF Windows
<1>2. m \in 0..Len(window) /\ \A i \in 1..m : window[i] + RateWindow <= tick
  BY <1>1, StaleOnes
<1> HIDE DEF m
<1>3. /\ r \in Seq(Ticks) /\ Len(r) = Len(window) - m
      /\ \A i \in 1..Len(r) : r[i] = window[i + m]
  <2>1. r = SubSeq(window, m + 1, Len(window)) /\ m + 1 \in 1..Len(window) + 1
    BY <1>1, <1>2 DEF Recent, m
  <2> HIDE DEF r
  <2>2. QED
    BY <1>1, <1>2, <2>1, SubSeqProperties
<1> HIDE DEF r
<1>4. Windows(r, tick) /\ Len(r) <= Len(window)
  BY <1>1, <1>2, <1>3 DEF Windows
<1>5. ASSUME NEW v \in Ticks, tick < v + RateWindow
      PROVE  Cardinality(Since(r, v)) = Cardinality(Since(window, v))
  <2> DEFINE shift == [i \in Since(r, v) |-> i + m]
  <2>1. \A i \in 1..Len(window) : window[i] \in Ticks
    BY <1>1, ElementOfSeq
  <2>2. shift \in [Since(r, v) -> Since(window, v)]
    BY <1>1, <1>2, <1>3 DEF Since
  <2>3. \A i, j \in Since(r, v) : shift[i] = shift[j] => i = j
    BY <1>2 DEF Since
  <2>4. ASSUME NEW j \in Since(window, v)
        PROVE  \E i \in Since(r, v) : shift[i] = j
    <3>1. window[j] \in Nat /\ v <= window[j] /\ v \in Nat /\ j \in 1..Len(window)
      BY <2>1, TicksFinite DEF Since
    <3>2. j \notin 1..m
      BY <1>1, <1>2, <1>5, <3>1, TicksFinite
    <3>3. j - m \in 1..Len(r) /\ r[j - m] = window[j]
      BY <1>1, <1>2, <1>3, <3>1, <3>2
    <3>4. j - m \in Since(r, v)
      BY <3>1, <3>3 DEF Since
    <3>5. QED
      BY <1>2, <3>1, <3>4
  <2>5. IsFiniteSet(Since(r, v))
    <3>1. Len(r) \in Int
      BY <1>1, <1>2, <1>3
    <3>2. QED
      BY <3>1, SinceFinite
  <2> HIDE DEF shift
  <2>6. shift \in Bijection(Since(r, v), Since(window, v))
    BY <2>2, <2>3, <2>4, Fun_IsBij
  <2>7. ExistsBijection(Since(r, v), Since(window, v))
    BY <2>6 DEF ExistsBijection
  <2>8. QED
    BY <2>5, <2>7, FS_Bijection
<1>6. QED
  BY <1>4, <1>5 DEF r

LEMMA SinceWithin ==
  ASSUME NEW w \in Seq(Ticks), NEW v
  PROVE  Cardinality(Since(w, v)) <= Len(w)
<1>1. Len(w) \in Nat
  BY LenProperties
<1>2. IsFiniteSet(1..Len(w)) /\ Cardinality(1..Len(w)) = Len(w)
  BY <1>1, FS_Interval
<1>3. Since(w, v) \subseteq 1..Len(w)
  BY DEF Since
<1>4. QED
  BY <1>2, <1>3, FS_Subset

LEMMA SinceAppended ==
  ASSUME NEW w \in Seq(Ticks), NEW t \in Ticks, NEW v \in Ticks, v <= t
  PROVE  Cardinality(Since(Append(w, t), v)) = Cardinality(Since(w, v)) + 1
<1> DEFINE n == Len(w) + 1
<1>1. /\ Len(w) \in Nat /\ Len(Append(w, t)) = n
      /\ \A i \in 1..n : Append(w, t)[i] = IF i = n THEN t ELSE w[i]
  BY LenProperties, AppendProperties
<1>2. Since(Append(w, t), v) = Since(w, v) \cup {n} /\ n \notin Since(w, v)
  BY <1>1 DEF Since
<1>3. IsFiniteSet(Since(w, v))
  BY <1>1, SinceFinite
<1> HIDE DEF n
<1>4. QED
  BY <1>2, <1>3, FS_AddElement

LEMMA NothingKept ==
  ASSUME NEW t \in Ticks
  PROVE  RateOK([u \in Ticks |-> 0], <<>>, t)
<1> DEFINE none == [u \in Ticks |-> 0]
           empty == <<>>
<1>1. none \in [Ticks -> Nat] /\ \A u \in Ticks : none[u] = 0
  OBVIOUS
<1>2. Windows(empty, t) /\ Len(empty) = 0 /\ Len(empty) <= RateLimit
  BY EmptySeq, TicksFinite DEF Windows
<1> HIDE DEF none, empty
<1>3. ASSUME NEW v \in Ticks
      PROVE  /\ Cardinality(Counted(none, From(v))) <= Cardinality(Since(empty, v))
             /\ Cardinality(Counted(none, Span(v))) <= RateLimit
  <2>1. From(v) \in SUBSET Ticks /\ Span(v) \in SUBSET Ticks
    BY DEF From, Span
  <2>2. /\ Cardinality(Counted(none, From(v))) = 0
        /\ Cardinality(Counted(none, Span(v))) = 0
    BY <1>1, <2>1, NothingCounted
  <2>3. Cardinality(Since(empty, v)) \in Nat
    BY <1>2, SinceFinite
  <2>4. QED
    BY <2>2, <2>3, TicksFinite
<1>4. RateOK(none, empty, t)
  BY <1>1, <1>2, <1>3 DEF RateOK
<1>5. QED
  BY <1>4 DEF none, empty

\* A request that is admitted.
LEMMA AdmittedKeepsRate ==
  ASSUME ApiTypeOK, RateInv, Admitted, tick' = tick
  PROVE  RateInv'
<1> DEFINE kept == Recent(window)
           one == [accepted EXCEPT ![tick] = @ + 1]
<1>1. /\ tick \in Ticks /\ tick \in Nat /\ accepted \in [Ticks -> Nat]
      /\ Windows(window, tick) /\ Len(window) \in Nat
  BY ApiTypes, TicksFinite, LenProperties DEF RateInv, RateOK, Windows
<1>2. /\ Windows(kept, tick)
      /\ \A v \in Ticks : tick < v + RateWindow =>
           Cardinality(Since(kept, v)) = Cardinality(Since(window, v))
  BY <1>1, RecentOnes
<1>3. window' = Append(kept, tick) /\ accepted' = one /\ Len(kept) < RateLimit
  BY DEF Admitted
<1> HIDE DEF kept
<1>4. /\ one \in [Ticks -> Nat]
      /\ \A u \in Ticks : one[u] = IF u = tick THEN accepted[u] + 1 ELSE accepted[u]
  BY <1>1
<1> HIDE DEF one
<1>5. /\ kept \in Seq(Ticks) /\ Len(kept) \in Nat
      /\ window' \in Seq(Ticks) /\ Len(window') = Len(kept) + 1
      /\ \A i \in 1..Len(window') : window'[i] = IF i = Len(kept) + 1 THEN tick ELSE kept[i]
  BY <1>1, <1>2, <1>3, LenProperties, AppendProperties DEF Windows
<1>6. Windows(window', tick') /\ Len(window') <= RateLimit
  BY <1>1, <1>2, <1>3, <1>5, TicksFinite DEF Windows
<1>7. ASSUME NEW u \in Ticks, tick' < u
      PROVE  accepted'[u] = 0
  BY <1>1, <1>3, <1>4, <1>7 DEF RateInv, RateOK
<1>8. ASSUME NEW v \in Ticks, tick' < v + RateWindow
      PROVE  Cardinality(Counted(one, From(v))) <= Cardinality(Since(window', v))
  <2>1. CASE v <= tick
    <3>1. tick \in From(v) /\ From(v) \in SUBSET Ticks
      BY <1>1, <2>1 DEF From
    <3>2. Cardinality(Counted(one, From(v))) = Cardinality(Counted(accepted, From(v))) + 1
      BY <1>1, <3>1, CountOneMore DEF one
    <3>3. Cardinality(Since(window', v)) = Cardinality(Since(kept, v)) + 1
      BY <1>1, <1>3, <1>5, <2>1, SinceAppended
    <3>4. Cardinality(Counted(accepted, From(v))) <= Cardinality(Since(kept, v))
      BY <1>2, <1>8 DEF RateInv, RateOK
    <3>5. /\ Cardinality(Counted(accepted, From(v))) \in Nat
          /\ Cardinality(Since(kept, v)) \in Nat
      BY <1>1, <1>5, <3>1, CountsFinite, SinceFinite
    <3>6. QED
      BY <3>2, <3>3, <3>4, <3>5
  <2>2. CASE tick < v
    <3>1. From(v) \in SUBSET Ticks /\ \A u \in From(v) : one[u] = 0
      BY <1>1, <1>3, <1>7, <2>2, TicksFinite DEF From
    <3>2. Cardinality(Counted(one, From(v))) = 0
      BY <1>4, <3>1, NothingCounted
    <3>3. Cardinality(Since(window', v)) \in Nat
      BY <1>5, SinceFinite
    <3>4. QED
      BY <3>2, <3>3
  <2>3. QED
    BY <1>1, <2>1, <2>2, TicksFinite
<1>9. ASSUME NEW t \in Ticks
      PROVE  Cardinality(Counted(one, Span(t))) <= RateLimit
  <2>1. Span(t) \in SUBSET Ticks
    BY DEF Span
  <2>2. CASE tick \notin Span(t)
    BY <1>1, <2>1, <2>2, CountOneMore DEF one, RateInv, RateOK
  <2>3. CASE tick \in Span(t)
    <3> DEFINE v == IF t <= RateWindow THEN 1 ELSE t - RateWindow + 1
    <3>1. tick <= t /\ t < tick + RateWindow
      BY <2>3 DEF Span
    <3>2. v \in Ticks /\ tick < v + RateWindow /\ \A u \in Span(t) : v <= u
      BY <1>1, <3>1, TicksFinite DEF Span, Ticks
    <3> HIDE DEF v
    <3>3. From(v) \in SUBSET Ticks /\ Span(t) \in SUBSET From(v)
      BY <3>2 DEF From, Span
    <3>4. /\ Cardinality(Counted(one, Span(t))) <= Cardinality(Counted(one, From(v)))
          /\ Cardinality(Counted(one, From(v))) \in Nat
          /\ Cardinality(Counted(one, Span(t))) \in Nat
      BY <1>4, <2>1, <3>3, CountsWithin, CountsFinite
    <3>5. /\ Cardinality(Counted(one, From(v))) <= Cardinality(Since(window', v))
          /\ Cardinality(Since(window', v)) <= Len(window')
          /\ Cardinality(Since(window', v)) \in Nat
      BY <1>5, <1>8, <3>2, SinceWithin, SinceFinite
    <3>6. QED
      BY <1>5, <1>6, <3>4, <3>5, TicksFinite
  <2>4. QED
    BY <2>2, <2>3
<1>10. QED
  BY <1>3, <1>6, <1>7, <1>8, <1>9 DEF RateInv, RateOK

LEMMA RateUntouched ==
  ASSUME ApiTypeOK, RateInv, UNCHANGED <<window, accepted>>,
         tick' = tick \/ (tick' = tick + 1 /\ tick < LastTick)
  PROVE  RateInv'
<1>1. tick \in Nat /\ tick' \in Nat /\ tick <= tick'
  BY ApiTypes, TicksFinite DEF Ticks
<1>2. window \in Seq(Ticks) /\ \A i \in 1..Len(window) : window[i] \in Nat
  BY ElementOfSeq, TicksFinite DEF RateInv, RateOK, Windows
<1>3. Windows(window, tick')
  BY <1>1, <1>2 DEF RateInv, RateOK, Windows
<1>4. QED
  BY <1>1, <1>3, TicksFinite DEF RateInv, RateOK

LEMMA RateStep ==
  ASSUME ApiTypeOK, RateInv, [ApiNext]_apiVars
  PROVE  RateInv'
<1>1. CASE Admitted /\ tick' = tick
  BY <1>1, AdmittedKeepsRate
<1>2. CASE /\ UNCHANGED <<window, accepted>>
           /\ tick' = tick \/ (tick' = tick + 1 /\ tick < LastTick)
  BY <1>2, RateUntouched
<1>3. CASE window' = <<>> /\ accepted' = [t \in Ticks |-> 0] /\ tick' = tick
  <2>1. tick' \in Ticks
    BY <1>3, ApiTypes
  <2>2. QED
    BY <1>3, <2>1, NothingKept DEF RateInv
<1>4. QED
  BY <1>1, <1>2, <1>3
     DEF ApiNext, apiVars, requestVars, CreateAccount, IssueCredential, RevokeCredential,
         RevokeAccount, Read, Begin, BeginAgain, Finish, WorkRaises, ApiRestart, Tick

LEMMA RateInvBounds ==
  ASSUME RateInv, ApiTypeOK
  PROVE  RateBound
<1>1. ASSUME NEW t \in Ticks
      PROVE  SumFunctionOnSet(accepted, {u \in Ticks : u <= t /\ t < u + RateWindow})
               <= RateLimit
  <2>1. accepted \in [Ticks -> Nat] /\ Span(t) \in SUBSET Ticks
    BY ApiTypes DEF Span
  <2>2. SumFunctionOnSet(accepted, Span(t)) <= RateLimit
    BY <2>1, CountsFinite DEF RateInv, RateOK
  <2>3. QED
    BY <2>2 DEF Span
<1>2. QED
  BY <1>1 DEF RateBound, RateInv, RateOK, Windows

THEOREM RateHolds == ApiSpec => []RateBound
<1>1. ApiInit => RateInv
  BY NothingKept, ApiStarts, ApiTypes DEF ApiInit, ApiInv, RateInv
<1>2. ApiTypeOK /\ RateInv /\ [ApiNext]_apiVars => RateInv'
  BY RateStep
<1>3. RateInv /\ ApiTypeOK => RateBound
  BY RateInvBounds
<1>4. QED
  BY <1>1, <1>2, <1>3, ApiTypeCorrect, PTL DEF ApiSpec
=============================================================================
