--------------------------- MODULE WorkflowProofs ---------------------------
(***************************************************************************)
(* Theorems about MCWorkflows: for any accounts, days, policies, jobs, pairs *)
(* and bounds, what a policy applied is what its account shows, a decision to *)
(* delete that counts as made is carried out, a job reports what happened to *)
(* its rows, a reconciliation run what became of its findings, and a comparison *)
(* what was read.                                                          *)
(*                                                                         *)
(* An invariant of the operations comes first: their rows, calls and callers *)
(* refer to each other, whoever else acts on the same accounts.  Loops over *)
(* accounts, rows and groups are folds; their invariants are proved by     *)
(* FoldProofs.                                                             *)
(***************************************************************************)
EXTENDS MCWorkflows, FoldProofs, SequenceTheorems
-----------------------------------------------------------------------------
(***************************************************************************)
(* Rows, operations and calls: what a step leaves of them.                 *)
(***************************************************************************)
Rows == [acct : [Accounts -> AccountRow], ops : Seq(OperationRow)]

Pointed(d) ==
  \A a \in Accounts :
    /\ d.acct[a].active \in 0..Len(d.ops)
    /\ d.acct[a].active # 0 => d.ops[d.acct[a].active].user = a

Sound(d) == d \in Rows /\ Pointed(d)

Refers(c, d) == c.op \in 1..Len(d.ops) /\ d.ops[c.op].user = c.user

Grows(d, e) ==
  /\ Len(d.ops) <= Len(e.ops)
  /\ \A i \in 1..Len(d.ops) :
       /\ e.ops[i].user = d.ops[i].user
       /\ d.ops[i].status = "succeeded" => e.ops[i].status = "succeeded"

\* None of the operations there are succeeds meanwhile.
Kept(d, e) ==
  /\ Grows(d, e)
  /\ \A i \in 1..Len(d.ops) : 
       e.ops[i].status = "succeeded" => d.ops[i].status = "succeeded"

\* Everything of an account but its active operation.
SameRow(r, r2) ==
  /\ r2.exists = r.exists /\ r2.desired = r.desired /\ r2.deleted = r.deleted
  /\ r2.disabled = r.disabled /\ r2.assigned = r.assigned

SameAccounts(d, e) == \A a \in Accounts : SameRow(d.acct[a], e.acct[a])

LEMMA DecidedCases ==
  ASSUME NEW d, NEW a \in Accounts, NEW cmd
  PROVE  /\ Decided(cmd, a, d) \in {"start", "reject", "reuse", "supersede"}
         /\ Decided(cmd, a, d) = "reuse" => cmd \in {"delete", "retry"} /\ d.acct[a].active # 0
         /\ Decided(cmd, a, d) = "supersede" =>
              /\ cmd = "delete" /\ d.acct[a].active # 0
              /\ d.ops[d.acct[a].active].status \notin TerminalStatus
BY DEF Decided, DecideTransition, Unfinished, Active, NoOp

LEMMA OpExcept ==
  ASSUME NEW ops \in Seq(OperationRow), NEW k \in 1..Len(ops), NEW st \in OperationStatus
  PROVE  LET e == [ops EXCEPT ![k].status = st]
         IN /\ e \in Seq(OperationRow)
            /\ Len(e) = Len(ops)
            /\ \A i \in 1..Len(ops) : e[i].user = ops[i].user
                    /\ e[i].status = IF i = k THEN st ELSE ops[i].status
<1>1. ops[k] \in OperationRow /\ DOMAIN ops = 1..Len(ops) /\ \A i \in 1..Len(ops) : ops[i] \in OperationRow
  BY LenProperties, ElementOfSeq
<1>2. [ops[k] EXCEPT !.status = st] \in OperationRow
  BY <1>1 DEF OperationRow
<1>3. [ops EXCEPT ![k].status = st] = [ops EXCEPT ![k] = [ops[k] EXCEPT !.status = st]]
  BY <1>1
<1>4. [ops EXCEPT ![k] = [ops[k] EXCEPT !.status = st]] \in Seq(OperationRow)
  BY <1>2, ExceptSeq
<1>5. QED
  BY <1>1, <1>2, <1>3, <1>4, ExceptSeq DEF OperationRow

\* What a request leaves: e beside d.
Requests(d, e, a, cmd) ==
  /\ Sound(e) /\ Kept(d, e) /\ SameAccounts(d, e)
  /\ Decided(cmd, a, d) = "reuse" => e = d
  /\ Decided(cmd, a, d) \in {"start", "supersede"} => 
       /\ Len(e.ops) = Len(d.ops) + 1
       /\ e.acct[a].active = Len(e.ops)
       /\ e.ops[Len(e.ops)] = [user |-> a, cmd |-> cmd, status |-> "queued"]

LEMMA RequestedRows ==
  ASSUME NEW d, Sound(d), NEW a \in Accounts, NEW cmd \in Command
  PROVE  Requests(d, Requested(cmd, a, d), a, cmd)
<1>1. /\ d \in Rows /\ d.ops \in Seq(OperationRow) /\ d.acct \in [Accounts -> AccountRow]
      /\ Len(d.ops) \in Nat /\ Pointed(d)
      /\ \A i \in 1..Len(d.ops) : d.ops[i] \in OperationRow
  BY LenProperties, ElementOfSeq DEF Sound, Rows
<1>2. CASE Decided(cmd, a, d) = "reuse"
  BY <1>1, <1>2 DEF Requests, Requested, Sound, Kept, Grows, SameAccounts, SameRow
<1>3. CASE Decided(cmd, a, d) # "reuse"
  <2> DEFINE kept == IF Decided(cmd, a, d) = "supersede"
                     THEN [d.ops EXCEPT ![d.acct[a].active].status = "cancelled"]
                     ELSE d.ops
             new == [user |-> a, cmd |-> cmd, status |-> "queued"]
             acct == [d.acct EXCEPT ![a].active = Len(d.ops) + 1]
             e == [acct |-> acct, ops |-> Append(kept, new)]
  <2>1. Requested(cmd, a, d) = e
    BY <1>3 DEF Requested
  <2>2. /\ kept \in Seq(OperationRow) /\ Len(kept) = Len(d.ops)
        /\ \A i \in 1..Len(d.ops) :
             /\ kept[i].user = d.ops[i].user
             /\ kept[i].status = "succeeded" <=> d.ops[i].status = "succeeded"
    <3>1. CASE Decided(cmd, a, d) = "supersede"
      <4>1. /\ d.acct[a].active \in 1..Len(d.ops)
            /\ d.ops[d.acct[a].active].status \notin TerminalStatus
        BY <1>1, <3>1, DecidedCases DEF Pointed
      <4>2. "cancelled" \in OperationStatus /\ "succeeded" \in TerminalStatus
        BY DEF OperationStatus, TerminalStatus
      <4>3. kept = [d.ops EXCEPT ![d.acct[a].active].status = "cancelled"]
        BY <3>1
      <4> HIDE DEF kept
      <4>4. QED
        BY <1>1, <4>1, <4>2, <4>3, OpExcept
    <3>2. CASE Decided(cmd, a, d) # "supersede"
      BY <1>1, <3>2
    <3>3. QED
      BY <3>1, <3>2
  <2>3. new \in OperationRow
    BY DEF OperationRow, OperationStatus
  <2>4. acct \in [Accounts -> AccountRow]
    <3>1. d.acct[a] \in AccountRow /\ Len(d.ops) + 1 \in Nat
      BY <1>1
    <3>2. [d.acct[a] EXCEPT !.active = Len(d.ops) + 1] \in AccountRow
      BY <3>1 DEF AccountRow
    <3>3. QED
      BY <1>1, <3>2
  <2>5. /\ \A b \in Accounts : SameRow(d.acct[b], acct[b])
        /\ \A b \in Accounts : acct[b].active = IF b = a THEN Len(d.ops) + 1 ELSE d.acct[b].active
    BY <1>1 DEF SameRow, AccountRow
  <2> HIDE DEF kept, new, acct
  <2>6. /\ e.ops \in Seq(OperationRow) /\ Len(e.ops) = Len(d.ops) + 1
        /\ \A i \in 1..Len(d.ops) : e.ops[i] = kept[i]
        /\ e.ops[Len(e.ops)] = new
    BY <2>2, <2>3, AppendProperties
  <2>7. e \in Rows /\ e.acct = acct
    BY <2>4, <2>6 DEF Rows
  <2> HIDE DEF e
  <2>8. Kept(d, e)
    BY <1>1, <2>2, <2>6 DEF Kept, Grows
  <2>9. new.user = a
    BY DEF new
  <2>10. Pointed(e)
    <3>1. ASSUME NEW b \in Accounts
          PROVE  /\ e.acct[b].active \in 0..Len(e.ops)
                 /\ e.acct[b].active # 0 => e.ops[e.acct[b].active].user = b
      <4>1. CASE b = a
        BY <1>1, <2>5, <2>6, <2>7, <2>9, <4>1
      <4>2. CASE b # a
        <5>1. e.acct[b].active = d.acct[b].active /\ d.acct[b].active \in 0..Len(d.ops)
          BY <1>1, <2>5, <2>7, <4>2 DEF Pointed
        <5>2. e.acct[b].active # 0 => e.acct[b].active \in 1..Len(d.ops)
          BY <1>1, <5>1
        <5>3. QED
          BY <1>1, <2>2, <2>6, <5>1, <5>2 DEF Pointed
      <4>3. QED
        BY <4>1, <4>2
    <3>2. QED
      BY <3>1 DEF Pointed
  <2>11. e.acct[a].active = Len(e.ops)
    BY <2>5, <2>6, <2>7
  <2>12. SameAccounts(d, e)
    BY <2>5, <2>7 DEF SameAccounts
  <2>13. e.ops[Len(e.ops)] = [user |-> a, cmd |-> cmd, status |-> "queued"]
    BY <2>6 DEF new
  <2>15. Sound(e)
    BY <2>7, <2>10 DEF Sound
  <2>14. QED
    BY <2>15, <1>3, <2>1, <2>6, <2>7, <2>8, <2>10, <2>11, <2>12, <2>13 DEF Requests, Sound
<1>4. QED
  BY <1>2, <1>3

LEMMA KeptTrans ==
  ASSUME NEW d, NEW e, NEW f, Sound(d), Sound(e), Sound(f)
  PROVE  /\ Kept(d, e) /\ Kept(e, f) => Kept(d, f)
         /\ Grows(d, e) /\ Grows(e, f) => Grows(d, f)
         /\ Kept(d, d) /\ Grows(d, d)
<1>1. Len(d.ops) \in Nat /\ Len(e.ops) \in Nat /\ Len(f.ops) \in Nat
  BY LenProperties DEF Sound, Rows
<1>2. Grows(d, e) /\ Grows(e, f) => Grows(d, f)
  BY <1>1 DEF Grows
<1>3. Kept(d, e) /\ Kept(e, f) => Kept(d, f)
  BY <1>1, <1>2 DEF Kept, Grows
<1>4. Grows(d, d) /\ Kept(d, d)
  BY <1>1 DEF Kept, Grows
<1>5. QED
  BY <1>2, <1>3, <1>4
-----------------------------------------------------------------------------
\* calls, sessions
CallsOK(q, d) ==
  /\ q \in [Accounts -> Seq(Call)]
  /\ \A a \in Accounts : \A i \in 1..Len(q[a]) : q[a][i].user = a /\ Refers(q[a][i], d)

ListOK(l, d) == l \in Seq(Call) /\ \A i \in 1..Len(l) : Refers(l[i], d)

SessionsOK(S, d) ==
  /\ S \subseteq Session
  /\ \A s, s2 \in S : s.user = s2.user => s = s2
  /\ \A s \in S : Refers(s, d) /\ d.ops[s.op].status # "succeeded"

LEMMA GrowsKeeps ==
  ASSUME NEW d, NEW e, Sound(d), Sound(e), Grows(d, e)
  PROVE  /\ \A q : CallsOK(q, d) => CallsOK(q, e)
         /\ \A l : ListOK(l, d) => ListOK(l, e)
         /\ Kept(d, e) => \A S : SessionsOK(S, d) => SessionsOK(S, e)
<1>1. Len(d.ops) \in Nat /\ Len(e.ops) \in Nat /\ Len(d.ops) <= Len(e.ops)
  BY LenProperties DEF Sound, Rows, Grows
<1>2. \A i \in 1..Len(d.ops) : e.ops[i].user = d.ops[i].user /\ i \in 1..Len(e.ops)
  BY <1>1 DEF Grows
<1>3. \A c : Refers(c, d) => Refers(c, e)
  BY <1>2 DEF Refers
<1>4. ASSUME NEW q, CallsOK(q, d)
      PROVE  CallsOK(q, e)
  BY <1>3, <1>4 DEF CallsOK
<1>5. ASSUME NEW l, ListOK(l, d)
      PROVE  ListOK(l, e)
  BY <1>3, <1>5 DEF ListOK
<1>6. ASSUME Kept(d, e), NEW S, SessionsOK(S, d)
      PROVE  SessionsOK(S, e)
  <2>1. \A s \in S : Refers(s, e) /\ s.op \in 1..Len(d.ops) /\ d.ops[s.op].status # "succeeded"
    BY <1>3, <1>6 DEF SessionsOK, Refers
  <2>2. \A s \in S : e.ops[s.op].status # "succeeded"
    BY <1>6, <2>1 DEF Kept
  <2>3. QED
    BY <1>6, <2>1, <2>2 DEF SessionsOK
<1>7. QED
  BY <1>4, <1>5, <1>6

LEMMA JoinedCalls ==
  ASSUME NEW d, NEW q, CallsOK(q, d), NEW new \in SUBSET Call, \A c \in new : Refers(c, d)
  PROVE  CallsOK(Joined(q, new), d)
<1> DEFINE j == Joined(q, new)
<1>1. j \in [Accounts -> Seq(Call)]
  BY AppendProperties DEF Joined, CallsOK
<1>2. ASSUME NEW a \in Accounts, NEW i \in 1..Len(j[a])
      PROVE  j[a][i].user = a /\ Refers(j[a][i], d)
  <2>1. CASE \E c \in new : c.user = a
    <3> DEFINE c == CHOOSE c \in new : c.user = a
    <3>1. c \in new /\ c.user = a
      BY <2>1
    <3>2. j[a] = Append(q[a], c)
      BY <2>1 DEF Joined
    <3> HIDE DEF c, j
    <3>3. /\ q[a] \in Seq(Call) /\ c \in Call /\ Len(q[a]) \in Nat
      BY <3>1 DEF CallsOK
    <3>4. i = Len(q[a]) + 1 \/ i \in 1..Len(q[a])
      BY <3>2, <3>3, AppendProperties
    <3>5. j[a][i] = c \/ (i \in 1..Len(q[a]) /\ j[a][i] = q[a][i])
      BY <3>2, <3>3, <3>4, AppendProperties
    <3>6. QED
      BY <3>1, <3>5 DEF CallsOK
  <2>2. CASE ~ \E c \in new : c.user = a
    BY <2>2 DEF Joined, CallsOK
  <2>3. QED
    BY <2>1, <2>2
<1>3. QED
  BY <1>1, <1>2 DEF CallsOK

LEMMA LeftCalls ==
  ASSUME NEW d, NEW q, CallsOK(q, d), NEW served,
         \A c \in served : \E a \in Accounts : \E i \in 1..Len(q[a]) : c = q[a][i]
  PROVE  CallsOK(Left(q, served), d)
<1> DEFINE j == Left(q, served)
<1>1. ASSUME NEW a \in Accounts
      PROVE  /\ j[a] \in Seq(Call)
             /\ \A i \in 1..Len(j[a]) : j[a][i].user = a /\ Refers(j[a][i], d)
  <2>1. CASE \E c \in served : c.user = a
    <3>1. PICK c \in served : c.user = a
      BY <2>1
    <3>2. \E b \in Accounts : \E i \in 1..Len(q[b]) : c = q[b][i]
      OBVIOUS
    <3>3. \E i \in 1..Len(q[a]) : c = q[a][i]
      BY <3>1, <3>2 DEF CallsOK
    <3>4. q[a] \in Seq(Call) /\ q[a] # <<>> /\ j[a] = Tail(q[a])
      BY <2>1, <3>3, EmptySeq DEF CallsOK, Left
    <3> HIDE DEF j
    <3>5. j[a] \in Seq(Call) /\ Len(j[a]) = Len(q[a]) - 1 /\ Len(q[a]) \in Nat
      BY <3>4, HeadTailProperties, LenProperties
    <3>6. \A i \in 1..Len(j[a]) : i + 1 \in 1..Len(q[a]) /\ j[a][i] = q[a][i + 1]
      BY <3>4, <3>5
    <3>7. QED
      BY <3>5, <3>6 DEF CallsOK
  <2>2. CASE ~ \E c \in served : c.user = a
    BY <2>2 DEF Left, CallsOK
  <2>3. QED
    BY <2>1, <2>2
<1>2. j \in [Accounts -> Seq(Call)]
  BY <1>1 DEF Left
<1>3. QED
  BY <1>1, <1>2 DEF CallsOK

LEMMA FirstRest ==
  ASSUME NEW d, NEW l, ListOK(l, d)
  PROVE  /\ FirstOf(l) \in SUBSET Call /\ \A c \in FirstOf(l) : Refers(c, d)
         /\ ListOK(RestOf(l), d)
<1>1. CASE l = <<>>
  BY <1>1 DEF FirstOf, RestOf, ListOK
<1>2. CASE l # <<>>
  <2>1. /\ Head(l) \in Call /\ Tail(l) \in Seq(Call) /\ Len(Tail(l)) = Len(l) - 1
        /\ Len(l) \in Nat /\ Len(l) # 0 /\ Head(l) = l[1]
    BY <1>2, HeadTailProperties, LenProperties, EmptySeq DEF ListOK
  <2>2. \A i \in 1..Len(Tail(l)) : i + 1 \in 1..Len(l) /\ Tail(l)[i] = l[i + 1]
    BY <1>2, <2>1 DEF ListOK
  <2>3. 1 \in 1..Len(l)
    BY <2>1
  <2>4. QED
    BY <1>2, <2>1, <2>2, <2>3 DEF FirstOf, RestOf, ListOK
<1>3. QED
  BY <1>1, <1>2
-----------------------------------------------------------------------------
(***************************************************************************)
(* The inductive invariant of the operations.                              *)
(***************************************************************************)
TodoOK(list, d) ==
  list \in [Coroutines -> Seq(Call)] /\ \A by \in Coroutines : ListOK(list[by], d)

MeanwhileOK(m) ==
  m \in [kinds : SUBSET ({"crashed"} \cup UNION Disturbances), left : 0..MaxRequests]

OpsInv ==
  /\ Sound(db) /\ CallsOK(calls, db) /\ SessionsOK(sessions, db)
  /\ TodoOK(todo, db) /\ MeanwhileOK(meanwhile)

LEMMA OpsTypes == OpsInv => OperationsTypeOK
BY DEF OpsInv, OperationsTypeOK, Sound, Rows, CallsOK, SessionsOK, TodoOK, MeanwhileOK

LEMMA DbSound ==
  ASSUME NEW d, Sound(d)
  PROVE  /\ Len(d.ops) \in Nat /\ d.ops \in Seq(OperationRow)
         /\ \A i \in 1..Len(d.ops) : d.ops[i] \in OperationRow
         /\ d.acct \in [Accounts -> AccountRow]
         /\ d = [acct |-> d.acct, ops |-> d.ops]
BY LenProperties, ElementOfSeq DEF Sound, Rows

\* What is left when one account's row and one operation's status are written.
Written(d, e, a, row, k, st) ==
  /\ Sound(e) /\ Grows(d, e)
  /\ st # "succeeded" => Kept(d, e)
  /\ Len(e.ops) = Len(d.ops)
  /\ \A i \in 1..Len(d.ops) : 
       /\ e.ops[i].user = d.ops[i].user
       /\ e.ops[i].status = IF i = k THEN st ELSE d.ops[i].status
  /\ \A b \in Accounts : e.acct[b] = IF b = a THEN row ELSE d.acct[b]

LEMMA Writes ==
  ASSUME NEW d, Sound(d), NEW a \in Accounts, NEW row \in AccountRow,
         NEW k \in 1..Len(d.ops), NEW st \in OperationStatus,
         row.active \in 0..Len(d.ops), row.active # 0 => d.ops[row.active].user = a,
         d.ops[k].status # "succeeded"
  PROVE  Written(d, [acct |-> [d.acct EXCEPT ![a] = row],
                     ops |-> [d.ops EXCEPT ![k].status = st]], a, row, k, st)
<1> DEFINE acct == [d.acct EXCEPT ![a] = row]
           ops == [d.ops EXCEPT ![k].status = st]
           e == [acct |-> acct, ops |-> ops]
<1>1. /\ Len(d.ops) \in Nat /\ d.ops \in Seq(OperationRow)
      /\ d.acct \in [Accounts -> AccountRow] /\ Pointed(d)
  BY DbSound DEF Sound
<1>2. /\ ops \in Seq(OperationRow) /\ Len(ops) = Len(d.ops)
      /\ \A i \in 1..Len(d.ops) : ops[i].user = d.ops[i].user
              /\ ops[i].status = IF i = k THEN st ELSE d.ops[i].status
  BY <1>1, OpExcept
<1>3. /\ acct \in [Accounts -> AccountRow]
      /\ \A b \in Accounts : acct[b] = IF b = a THEN row ELSE d.acct[b]
  BY <1>1
<1> HIDE DEF acct, ops
<1>4. e \in Rows /\ e.ops = ops /\ e.acct = acct
  BY <1>2, <1>3 DEF Rows
<1> HIDE DEF e
<1>5. Pointed(e)
  <2>1. ASSUME NEW b \in Accounts
        PROVE  /\ e.acct[b].active \in 0..Len(e.ops)
               /\ e.acct[b].active # 0 => e.ops[e.acct[b].active].user = b
    <3> DEFINE x == e.acct[b].active
    <3>1. x \in 0..Len(d.ops) /\ (x # 0 => d.ops[x].user = b)
      BY <1>1, <1>3, <1>4 DEF Pointed
    <3> HIDE DEF x
    <3>2. x # 0 => x \in 1..Len(d.ops)
      BY <1>1, <3>1
    <3>3. x \in 0..Len(e.ops) /\ (x # 0 => e.ops[x].user = b)
      BY <1>2, <1>4, <3>1, <3>2
    <3>4. QED
      BY <3>3 DEF x
  <2>2. QED
    BY <2>1 DEF Pointed
<1>6. Grows(d, e) /\ (st # "succeeded" => Kept(d, e))
  BY <1>1, <1>2, <1>4 DEF Grows, Kept
<1>7. QED
  BY <1>2, <1>3, <1>4, <1>5, <1>6 DEF Sound, Written, e, acct, ops

LEMMA CallTyped ==
  ASSUME OpsInv, NEW c \in Waiting
  PROVE  /\ c \in Call /\ Refers(c, db)
         /\ \E a \in Accounts : \E i \in 1..Len(calls[a]) : c = calls[a][i]
<1>1. PICK a \in Accounts : \E i \in 1..Len(calls[a]) : c = calls[a][i]
  BY DEF Waiting
<1>2. QED
  BY <1>1, ElementOfSeq DEF OpsInv, CallsOK

LEMMA LeavesOne ==
  ASSUME OpsInv, NEW c \in Waiting
  PROVE  CallsOK(Left(calls, {c}), db)
BY CallTyped, LeftCalls DEF OpsInv

\* A row of an account is written (and perhaps an operation's).
LEMMA StartsKeep ==
  ASSUME OpsInv, NEW c \in Waiting, CallStarts(c)
  PROVE  /\ OpsInv' /\ Kept(db, db')
         /\ SameAccounts(db, db')
<1> DEFINE d == db
           u == c.user
           row == [d.acct[u] EXCEPT !.active = IF d.ops[c.op].status = "queued" THEN @ ELSE c.op]
           st == "running"
           e == [acct |-> [d.acct EXCEPT ![u] = row], ops |-> [d.ops EXCEPT ![c.op].status = st]]
           new == [by |-> c.by, user |-> u, op |-> c.op,
                   desired |-> IF c.action = "stored" THEN d.acct[u].desired ELSE c.action,
                   seen |-> Started(c).acct[u].active]
<1>1. /\ c \in Call /\ Refers(c, db) /\ u \in Accounts /\ c.op \in 1..Len(d.ops)
      /\ d.ops[c.op].user = u /\ d.ops[c.op].status \in Resumable
  BY CallTyped DEF CallStarts, Refers, Call
<1>2. Sound(d) /\ d.acct[u] \in AccountRow /\ Len(d.ops) \in Nat /\ d = [acct |-> d.acct, ops |-> d.ops]
      /\ d.acct[u].active \in 0..Len(d.ops) /\ (d.acct[u].active # 0 => d.ops[d.acct[u].active].user = u)
  BY <1>1, DbSound DEF OpsInv, Sound, Pointed
<1>3. /\ row \in AccountRow /\ row.active \in 0..Len(d.ops)
      /\ row.active # 0 => d.ops[row.active].user = u
      /\ SameRow(d.acct[u], row)
  BY <1>1, <1>2 DEF AccountRow, SameRow
<1>4. st \in OperationStatus /\ st # "succeeded" /\ d.ops[c.op].status # "succeeded"
  BY <1>1 DEF OperationStatus, Resumable
<1>5. Started(c) = e
  <2>1. Started(c) = [db EXCEPT !.ops = [db.ops EXCEPT ![c.op].status = "running"],
                                !.acct = [db.acct EXCEPT ![u] = row]]
    BY <1>1, <1>2 DEF Started
  <2>2. QED
    BY <1>2, <2>1
<1> HIDE DEF row, st
<1>6. Written(d, e, u, row, c.op, st)
  BY <1>1, <1>2, <1>3, <1>4, Writes
<1> HIDE DEF e
<1>16. /\ Sound(e) /\ Kept(d, e) /\ Grows(d, e)
       /\ Len(e.ops) = Len(d.ops)
       /\ \A i \in 1..Len(d.ops) : e.ops[i].user = d.ops[i].user
       /\ e.ops[c.op].status = st
       /\ \A b \in Accounts : e.acct[b] = IF b = u THEN row ELSE d.acct[b]
  BY <1>1, <1>4, <1>6 DEF Written
<1>7. db' = e /\ calls' = Left(calls, {c}) /\ sessions' = sessions \cup {new}
      /\ UNCHANGED <<todo, meanwhile>>
  BY <1>5 DEF CallStarts
<1>8. CallsOK(calls', db')
  BY <1>2, <1>16, <1>7, LeavesOne, GrowsKeeps
<1>9. TodoOK(todo', db')
  BY <1>2, <1>16, <1>7, GrowsKeeps DEF OpsInv, TodoOK
<1>10. SessionsOK(sessions, e)
  BY <1>2, <1>16, GrowsKeeps DEF OpsInv
<1>11. new \in Session /\ Refers(new, e) /\ e.ops[new.op].status # "succeeded" /\ new.user = u
  <2>1. Started(c).acct[u].active \in Nat
    BY <1>1, <1>2, <1>3, <1>5, <1>16
  <2>2. new.desired \in Desired
    BY <1>1, <1>2 DEF Call, AccountRow
  <2>3. QED
    BY <1>1, <1>4, <1>16, <2>1, <2>2 DEF Session, Call, Refers
<1>12. \A s \in sessions : s.user # u
  BY DEF CallStarts, Served
<1> HIDE DEF new
<1>13. SessionsOK(sessions', db')
  BY <1>7, <1>10, <1>11, <1>12 DEF SessionsOK
<1>14. SameAccounts(db, db')
  BY <1>3, <1>16, <1>7 DEF SameAccounts, SameRow
<1>15. QED
  BY <1>16, <1>7, <1>8, <1>9, <1>13, <1>14 DEF OpsInv, MeanwhileOK

\* The rows a session leaves when it ends.
EndsWell(d, e) ==
  \A a \in Accounts : /\ e.acct[a].exists = d.acct[a].exists
                      /\ e.acct[a].desired = d.acct[a].desired
                      /\ e.acct[a].disabled = d.acct[a].disabled
                      /\ e.acct[a].assigned = d.acct[a].assigned

LEMMA EndedRows ==
  ASSUME OpsInv, NEW s \in sessions, NEW status \in Outcomes
  PROVE  /\ Sound(Ended(s, status)) /\ Grows(db, Ended(s, status))
         /\ SessionsOK(sessions \ {s}, Ended(s, status))
         /\ EndsWell(db, Ended(s, status))
<1> DEFINE d == db
           u == s.user
           row == [d.acct[u] EXCEPT !.active = IF s.seen = s.op THEN NoOp ELSE @,
                                    !.deleted = @ \/ (s.desired = "delete" /\ status = "succeeded")]
           e == [acct |-> [d.acct EXCEPT ![u] = row], ops |-> [d.ops EXCEPT ![s.op].status = status]]
<1>1. /\ s \in Session /\ Refers(s, db) /\ u \in Accounts /\ s.op \in 1..Len(d.ops)
      /\ d.ops[s.op].user = u /\ d.ops[s.op].status # "succeeded"
  BY DEF OpsInv, SessionsOK, Refers, Session
<1>2. Sound(d) /\ d.acct[u] \in AccountRow /\ Len(d.ops) \in Nat /\ d = [acct |-> d.acct, ops |-> d.ops]
      /\ d.acct[u].active \in 0..Len(d.ops) /\ (d.acct[u].active # 0 => d.ops[d.acct[u].active].user = u)
  BY <1>1, DbSound DEF OpsInv, Sound, Pointed
<1>3. /\ row \in AccountRow /\ row.active \in 0..Len(d.ops)
      /\ row.active # 0 => d.ops[row.active].user = u
      /\ row.exists = d.acct[u].exists /\ row.desired = d.acct[u].desired
      /\ row.disabled = d.acct[u].disabled /\ row.assigned = d.acct[u].assigned
  <2> DEFINE act == IF s.seen = s.op THEN NoOp ELSE d.acct[u].active
             del == d.acct[u].deleted \/ (s.desired = "delete" /\ status = "succeeded")
  <2>1. act \in 0..Len(d.ops) /\ (act # 0 => d.ops[act].user = u) /\ act \in Nat
    BY <1>2 DEF NoOp
  <2>2. del \in BOOLEAN
    OBVIOUS
  <2>3. row = [d.acct[u] EXCEPT !.active = act, !.deleted = del]
    BY <1>2 DEF AccountRow
  <2> HIDE DEF act, del, row
  <2>4. QED
    BY <1>2, <2>1, <2>2, <2>3 DEF AccountRow
<1>4. status \in OperationStatus
  BY AccountAssumption DEF OperationStatus, TerminalStatus
<1>5. Ended(s, status) = e
  BY <1>1, <1>2 DEF Ended
<1> HIDE DEF row
<1>12. Written(d, e, u, row, s.op, status)
  BY <1>1, <1>2, <1>3, <1>4, Writes
<1> HIDE DEF e
<1>6. /\ Sound(e) /\ Grows(d, e)
      /\ Len(e.ops) = Len(d.ops)
      /\ \A i \in 1..Len(d.ops) : e.ops[i].user = d.ops[i].user
              /\ e.ops[i].status = IF i = s.op THEN status ELSE d.ops[i].status
      /\ \A b \in Accounts : e.acct[b] = IF b = u THEN row ELSE d.acct[b]
  BY ONLY <1>12 DEF Written
<1>7. SessionsOK(sessions \ {s}, e)
  <2>1. \A x \in sessions \ {s} : x.user # u /\ Refers(x, db) /\ db.ops[x.op].status # "succeeded"
    BY DEF OpsInv, SessionsOK
  <2>2. \A x \in sessions \ {s} : x.op # s.op /\ x.op \in 1..Len(d.ops)
    BY <1>1, <2>1 DEF Refers
  <2>3. QED
    BY <1>6, <2>1, <2>2 DEF OpsInv, SessionsOK, Refers
<1>8. EndsWell(db, e)
  BY <1>3, <1>6 DEF EndsWell
<1>9. QED
  BY <1>5, <1>6, <1>7, <1>8
-----------------------------------------------------------------------------
(***************************************************************************)
(* What a handler writes of one account.                                   *)
(***************************************************************************)
\* e2 is e but for the row of a.
Put(e, e2, a, row) ==
  /\ Sound(e2) /\ Kept(e, e2) /\ e2.ops = e.ops
  /\ \A b \in Accounts : e2.acct[b] = IF b = a THEN row ELSE e.acct[b]

LEMMA PutRow ==
  ASSUME NEW e, Sound(e), NEW a \in Accounts, NEW row \in AccountRow,
         row.active \in 0..Len(e.ops), row.active # 0 => e.ops[row.active].user = a
  PROVE  Put(e, [acct |-> [e.acct EXCEPT ![a] = row], ops |-> e.ops], a, row)
<1> DEFINE e2 == [acct |-> [e.acct EXCEPT ![a] = row], ops |-> e.ops]
<1>1. /\ e2 \in Rows /\ e2.ops = e.ops
      /\ \A b \in Accounts : e2.acct[b] = IF b = a THEN row ELSE e.acct[b]
  BY DbSound DEF Rows
<1> HIDE DEF e2
<1>2. Pointed(e2)
  BY <1>1 DEF Pointed, Sound
<1>3. Kept(e, e2)
  BY <1>1, DbSound DEF Kept, Grows
<1>4. QED
  BY <1>1, <1>2, <1>3 DEF Put, Sound, e2

\* The columns that handlers write.
LEMMA PutDisabled ==
  ASSUME NEW e, Sound(e), NEW a \in Accounts, NEW v \in BOOLEAN
  PROVE  /\ Put(e, [e EXCEPT !.acct[a].disabled = v], a, [e.acct[a] EXCEPT !.disabled = v])
         /\ [e.acct[a] EXCEPT !.disabled = v] \in AccountRow
<1> DEFINE row == [e.acct[a] EXCEPT !.disabled = v]
<1>1. e.acct[a] \in AccountRow /\ e = [acct |-> e.acct, ops |-> e.ops] /\ e.acct \in [Accounts -> AccountRow]
  BY DbSound
<1>2. row \in AccountRow /\ row.active = e.acct[a].active
  BY <1>1 DEF AccountRow
<1>3. [e EXCEPT !.acct[a].disabled = v] = [acct |-> [e.acct EXCEPT ![a] = row], ops |-> e.ops]
  BY <1>1
<1> HIDE DEF row
<1>4. Put(e, [acct |-> [e.acct EXCEPT ![a] = row], ops |-> e.ops], a, row)
  BY <1>2, PutRow DEF Sound, Pointed
<1>5. QED
  BY <1>2, <1>3, <1>4 DEF row

LEMMA PutWanted ==
  ASSUME NEW e, Sound(e), NEW a \in Accounts, NEW v \in Desired
  PROVE  /\ Put(e, [e EXCEPT !.acct[a].desired = v], a, [e.acct[a] EXCEPT !.desired = v])
         /\ [e.acct[a] EXCEPT !.desired = v] \in AccountRow
<1> DEFINE row == [e.acct[a] EXCEPT !.desired = v]
<1>1. e.acct[a] \in AccountRow /\ e = [acct |-> e.acct, ops |-> e.ops] /\ e.acct \in [Accounts -> AccountRow]
  BY DbSound
<1>2. row \in AccountRow /\ row.active = e.acct[a].active
  BY <1>1 DEF AccountRow
<1>3. [e EXCEPT !.acct[a].desired = v] = [acct |-> [e.acct EXCEPT ![a] = row], ops |-> e.ops]
  BY <1>1
<1> HIDE DEF row
<1>4. Put(e, [acct |-> [e.acct EXCEPT ![a] = row], ops |-> e.ops], a, row)
  BY <1>2, PutRow DEF Sound, Pointed
<1>5. QED
  BY <1>2, <1>3, <1>4 DEF row

LEMMA PutDeleted ==
  ASSUME NEW e, Sound(e), NEW a \in Accounts, NEW v \in BOOLEAN
  PROVE  /\ Put(e, [e EXCEPT !.acct[a].deleted = v], a, [e.acct[a] EXCEPT !.deleted = v])
         /\ [e.acct[a] EXCEPT !.deleted = v] \in AccountRow
<1> DEFINE row == [e.acct[a] EXCEPT !.deleted = v]
<1>1. e.acct[a] \in AccountRow /\ e = [acct |-> e.acct, ops |-> e.ops] /\ e.acct \in [Accounts -> AccountRow]
  BY DbSound
<1>2. row \in AccountRow /\ row.active = e.acct[a].active
  BY <1>1 DEF AccountRow
<1>3. [e EXCEPT !.acct[a].deleted = v] = [acct |-> [e.acct EXCEPT ![a] = row], ops |-> e.ops]
  BY <1>1
<1> HIDE DEF row
<1>4. Put(e, [acct |-> [e.acct EXCEPT ![a] = row], ops |-> e.ops], a, row)
  BY <1>2, PutRow DEF Sound, Pointed
<1>5. QED
  BY <1>2, <1>3, <1>4 DEF row

LEMMA PutDesired ==
  ASSUME NEW e, Sound(e), NEW a \in Accounts, NEW v \in Desired
  PROVE  LET row == [e.acct[a] EXCEPT !.desired = v, !.deleted = FALSE]
         IN /\ Put(e, [e EXCEPT !.acct[a].desired = v, !.acct[a].deleted = FALSE], a, row)
            /\ row \in AccountRow
<1> DEFINE row == [e.acct[a] EXCEPT !.desired = v, !.deleted = FALSE]
           row1 == [e.acct[a] EXCEPT !.desired = v]
           e1 == [e EXCEPT !.acct[a].desired = v]
           no == FALSE
           row2 == [e1.acct[a] EXCEPT !.deleted = no]
           e2 == [e1 EXCEPT !.acct[a].deleted = no]
<1>1. Put(e, e1, a, row1) /\ row1 \in AccountRow
  BY PutWanted
<1>2. no \in BOOLEAN
  OBVIOUS
<1>3. e2 = [e EXCEPT !.acct[a].desired = v, !.acct[a].deleted = no]
  OBVIOUS
<1> HIDE DEF e1, no
<1>4. Put(e1, e2, a, row2) /\ row2 \in AccountRow
  BY <1>1, <1>2, PutDeleted DEF Put
<1>5. e1.acct[a] = row1
  BY <1>1 DEF Put
<1>6. row2 = [e.acct[a] EXCEPT !.desired = v, !.deleted = no]
  BY <1>5, DbSound DEF AccountRow
<1> HIDE DEF row1, row2, e2
<1>7. Sound(e1) /\ Sound(e2)
  BY <1>1, <1>4 DEF Put
<1>8. Kept(e, e2)
  BY <1>1, <1>4, <1>7, KeptTrans DEF Put
<1>9. e2.ops = e.ops /\ \A b \in Accounts : e2.acct[b] = IF b = a THEN row2 ELSE e.acct[b]
  BY <1>1, <1>4 DEF Put
<1>10. Put(e, e2, a, row2)
  BY <1>7, <1>8, <1>9 DEF Put
<1>11. QED
  BY <1>3, <1>4, <1>6, <1>10 DEF no

\* A restored account is wanted and active again.
Restored(e, a) ==
  [e EXCEPT !.acct[a].desired = "ensure", !.acct[a].deleted = FALSE,
            !.acct[a].disabled = FALSE]

LEMMA PutRestored ==
  ASSUME NEW e, Sound(e), NEW a \in Accounts
  PROVE  \E row \in AccountRow :
           /\ Put(e, Restored(e, a), a, row) /\ row.exists = e.acct[a].exists
           /\ row.active = e.acct[a].active /\ row.desired = "ensure"
<1> DEFINE no == FALSE
           want == "ensure"
           row1 == [e.acct[a] EXCEPT !.desired = want, !.deleted = FALSE]
           e1 == [e EXCEPT !.acct[a].desired = want, !.acct[a].deleted = FALSE]
           row == [e1.acct[a] EXCEPT !.disabled = no]
           e2 == [e1 EXCEPT !.acct[a].disabled = no]
<1>1. want \in Desired /\ no \in BOOLEAN
  BY DEF Desired
<1>2. Restored(e, a) = e2
  BY DEF Restored
<1>3. want = "ensure"
  OBVIOUS
<1> HIDE DEF want
<1>4. Put(e, e1, a, row1) /\ row1 \in AccountRow
  BY <1>1, PutDesired
<1>5. e.acct[a] \in AccountRow
  BY DbSound
<1>6. row1.exists = e.acct[a].exists /\ row1.active = e.acct[a].active
      /\ row1.desired = want
  BY <1>5 DEF AccountRow
<1> HIDE DEF row1, e1, no
<1>7. Sound(e1) /\ e1.acct[a] = row1
  BY <1>4 DEF Put
<1>8. Put(e1, e2, a, row) /\ row \in AccountRow
  BY <1>1, <1>7, PutDisabled
<1>9. row.exists = row1.exists /\ row.active = row1.active /\ row.desired = row1.desired
  BY <1>4, <1>7 DEF AccountRow
<1> HIDE DEF row, e2
<1>10. Put(e, e2, a, row)
  <2>1. Sound(e2) /\ Kept(e, e2)
    BY <1>4, <1>7, <1>8, KeptTrans DEF Put
  <2>2. QED
    BY <1>4, <1>8, <2>1 DEF Put
<1>11. QED
  BY <1>2, <1>3, <1>6, <1>8, <1>9, <1>10

LEMMA PutNone ==
  ASSUME NEW e, Sound(e), NEW a \in Accounts
  PROVE  Put(e, [e EXCEPT !.acct[a] = NoAccount], a, NoAccount)
<1>1. NoAccount \in AccountRow /\ NoAccount.active = 0
  BY DEF NoAccount, FreshAccount, AccountRow, Desired, NoOp
<1>2. [e EXCEPT !.acct[a] = NoAccount] = [acct |-> [e.acct EXCEPT ![a] = NoAccount], ops |-> e.ops]
  BY DbSound
<1>3. Len(e.ops) \in Nat
  BY DbSound
<1>4. NoAccount.active \in 0..Len(e.ops)
  BY <1>1, <1>3
<1>5. Put(e, [acct |-> [e.acct EXCEPT ![a] = NoAccount], ops |-> e.ops], a, NoAccount)
  BY <1>1, <1>4, PutRow
<1>6. QED
  BY <1>2, <1>5

-----------------------------------------------------------------------------
\* What the rows e keep of d, for the policies: accounts neither appear nor,
\* unless an administrator restores or enables them, come back.
Stays(d, e, kinds) ==
  \A a \in Accounts :
    e.acct[a].exists =>
      /\ d.acct[a].exists
      /\ "restore" \notin kinds /\ d.acct[a].desired = "delete" => e.acct[a].desired = "delete"
      /\ "enable" \notin kinds /\ "restore" \notin kinds /\ d.acct[a].disabled
           => e.acct[a].disabled

LEMMA SameStays ==
  ASSUME NEW d, NEW e, NEW kinds
  PROVE  /\ SameAccounts(d, e) => Stays(d, e, kinds)
         /\ EndsWell(d, e) => Stays(d, e, kinds)
BY DEF SameAccounts, SameRow, EndsWell, Stays

LEMMA TaskCall ==
  ASSUME NEW d, Sound(d), NEW a \in Accounts, NEW op \in 1..Len(d.ops), d.ops[op].user = a,
         NEW action \in Desired \cup {"stored"}
  PROVE  Task(a, op, action) \in SUBSET Call /\ \A c \in Task(a, op, action) : Refers(c, d)
<1>1. Len(d.ops) \in Nat
  BY DbSound
<1>2. SyncCall("task", a, op, action) \in Call
  BY <1>1 DEF SyncCall, Call
<1>3. Refers(SyncCall("task", a, op, action), d)
  BY DEF SyncCall, Refers
<1>4. QED
  BY <1>2, <1>3 DEF Task

\* A handler writes rows and, perhaps, queues a call.
LEMMA HandlerKeeps ==
  ASSUME OpsInv, Sound(db'), Kept(db, db'), 
         NEW new \in SUBSET Call, \A c \in new : Refers(c, db'),
         calls' = Joined(calls, new),
         UNCHANGED <<sessions, todo>>, MeanwhileOK(meanwhile')
  PROVE  OpsInv'
<1>1. CallsOK(calls, db') /\ SessionsOK(sessions, db') /\ \A by \in Coroutines : ListOK(todo[by], db')
  BY GrowsKeeps DEF OpsInv, TodoOK, Kept
<1>2. CallsOK(calls', db')
  BY <1>1, JoinedCalls
<1>3. QED
  BY <1>1, <1>2 DEF OpsInv, TodoOK, MeanwhileOK

LEMMA AsksKeeps ==
  ASSUME OpsInv, NEW kind, Asks(kind)
  PROVE  MeanwhileOK(meanwhile') /\ meanwhile'.kinds = meanwhile.kinds /\ kind \in meanwhile.kinds
BY AccountAssumption DEF OpsInv, MeanwhileOK, Asks

\* A request of a command that starts an operation or meets a conflict.
LEMMA StartsOnly ==
  ASSUME NEW d, Sound(d), NEW a \in Accounts, NEW cmd \in Command \ {"delete", "retry"}, ~Rejects(cmd, a, d)
  PROVE  LET e == Requested(cmd, a, d)
         IN /\ Sound(e) /\ Kept(d, e) /\ SameAccounts(d, e)
            /\ Len(e.ops) \in 1..Len(e.ops) /\ e.ops[Len(e.ops)].user = a
            /\ e.acct[a].active = Len(e.ops) /\ Len(e.ops) = Len(d.ops) + 1
<1> DEFINE e == Requested(cmd, a, d)
<1>1. Requests(d, e, a, cmd)
  BY RequestedRows
<1>2. Decided(cmd, a, d) = "start"
  BY DecidedCases DEF Rejects
<1>3. Sound(d) /\ Len(d.ops) \in Nat
  BY DbSound
<1> HIDE DEF e
<1>4. Sound(e) /\ Kept(d, e) /\ SameAccounts(d, e) /\ Len(e.ops) = Len(d.ops) + 1
       /\ e.ops[Len(e.ops)].user = a /\ e.acct[a].active = Len(e.ops)
  BY <1>1, <1>2 DEF Requests
<1>5. QED
  BY <1>3, <1>4 DEF e

\* A deletion starts one, supersedes or joins the one there is.
LEMMA DeletesOn ==
  ASSUME NEW d, Sound(d), NEW a \in Accounts
  PROVE  LET e == Requested("delete", a, d)
         IN /\ Sound(e) /\ Kept(d, e) /\ SameAccounts(d, e)
            /\ e.acct[a].active \in 1..Len(e.ops) /\ e.ops[e.acct[a].active].user = a
<1> DEFINE e == Requested("delete", a, d)
<1>1. "delete" \in Command
  BY DEF Command
<1>2. Requests(d, e, a, "delete")
  BY <1>1, RequestedRows
<1>3. Decided("delete", a, d) # "reject"
  BY DEF Decided, DecideTransition, Unfinished
<1>4. Sound(d) /\ Len(d.ops) \in Nat
  BY DbSound
<1> HIDE DEF e
<1>5. Sound(e) /\ Kept(d, e) /\ SameAccounts(d, e)
  BY <1>2 DEF Requests
<1>6. CASE Decided("delete", a, d) = "reuse"
  <2>1. e = d /\ d.acct[a].active # 0
    BY <1>2, <1>6, DecidedCases DEF Requests
  <2>2. d.acct[a].active \in 0..Len(d.ops) /\ d.ops[d.acct[a].active].user = a
    BY <2>1 DEF Sound, Pointed
  <2>3. d.acct[a].active \in 1..Len(d.ops)
    BY <1>4, <2>1, <2>2
  <2>4. QED
    BY <1>5, <2>1, <2>2, <2>3 DEF e
<1>7. CASE Decided("delete", a, d) \in {"start", "supersede"}
  <2>1. Len(e.ops) = Len(d.ops) + 1 /\ e.acct[a].active = Len(e.ops) /\ e.ops[Len(e.ops)].user = a
    BY <1>2, <1>7 DEF Requests
  <2>2. QED
    BY <1>4, <1>5, <2>1 DEF e
<1>8. QED
  BY <1>3, <1>6, <1>7, DecidedCases
-----------------------------------------------------------------------------
(***************************************************************************)
(* Every step of the operations keeps the invariant.                       *)
(***************************************************************************)
LEMMA UpdatesKeep ==
  ASSUME OpsInv, NEW a \in Accounts, UNCHANGED todo, AdminUpdates(a)
  PROVE  OpsInv' /\ Grows(db, db') /\ Stays(db, db', meanwhile.kinds)
<1> DEFINE e == Requested("update", a, db)
<1>1. "update" \in Command \ {"delete", "retry"} /\ Sound(db)
  BY DEF Command, OpsInv
<1>2. /\ Sound(e) /\ Kept(db, e) /\ SameAccounts(db, e)
      /\ Len(e.ops) \in 1..Len(e.ops) /\ e.ops[Len(e.ops)].user = a
  BY <1>1, StartsOnly DEF AdminUpdates
<1>3. db' = e
  BY DEF AdminUpdates
<1> HIDE DEF e
<1>4. /\ Task(a, Len(db'.ops), "stored") \in SUBSET Call
      /\ \A c \in Task(a, Len(db'.ops), "stored") : Refers(c, db')
  BY <1>2, <1>3, TaskCall
<1>5. OpsInv'
  BY <1>2, <1>3, <1>4, HandlerKeeps, AsksKeeps DEF AdminUpdates
<1>6. QED
  BY <1>2, <1>3, <1>5, SameStays DEF Kept

LEMMA DeletesKeep ==
  ASSUME OpsInv, NEW a \in Accounts, UNCHANGED todo, AdminDeletes(a)
  PROVE  OpsInv' /\ Grows(db, db') /\ Stays(db, db', meanwhile.kinds)
<1> DEFINE e == Requested("delete", a, db)
           e2 == [e EXCEPT !.acct[a].desired = "delete", !.acct[a].deleted = FALSE]
           row == [e.acct[a] EXCEPT !.desired = "delete", !.deleted = FALSE]
<1>1. "delete" \in Desired /\ Sound(db)
  BY DEF Desired, OpsInv
<1>2. /\ Sound(e) /\ Kept(db, e) /\ SameAccounts(db, e)
      /\ e.acct[a].active \in 1..Len(e.ops) /\ e.ops[e.acct[a].active].user = a
  BY <1>1, DeletesOn
<1>3. db' = e2 /\ calls' = Joined(calls, Task(a, db'.acct[a].active, "delete"))
  BY DEF AdminDeletes
<1> HIDE DEF e
<1>4. Put(e, e2, a, row) /\ row \in AccountRow
  BY <1>1, <1>2, PutDesired
<1>5. /\ row.active = e.acct[a].active /\ row.exists = e.acct[a].exists
      /\ row.desired = "delete" /\ row.disabled = e.acct[a].disabled
  BY <1>2, DbSound DEF AccountRow
<1> HIDE DEF e2, row
<1>6. Sound(e2) /\ Kept(db, e2)
  BY <1>1, <1>2, <1>4, KeptTrans DEF Put
<1>7. e2.acct[a].active \in 1..Len(e2.ops) /\ e2.ops[e2.acct[a].active].user = a
  BY <1>2, <1>4, <1>5 DEF Put
<1>8. /\ Task(a, db'.acct[a].active, "delete") \in SUBSET Call
      /\ \A c \in Task(a, db'.acct[a].active, "delete") : Refers(c, db')
  BY <1>1, <1>3, <1>6, <1>7, TaskCall
<1>9. OpsInv'
  BY <1>3, <1>6, <1>8, HandlerKeeps, AsksKeeps DEF AdminDeletes
<1>10. Stays(db, e2, meanwhile.kinds)
  BY <1>2, <1>4, <1>5 DEF Stays, SameAccounts, SameRow, Put
<1>11. QED
  BY <1>3, <1>6, <1>9, <1>10 DEF Kept

LEMMA RestoresKeep ==
  ASSUME OpsInv, NEW a \in Accounts, UNCHANGED todo, AdminRestores(a)
  PROVE  OpsInv' /\ Grows(db, db') /\ Stays(db, db', meanwhile.kinds)
<1> DEFINE e == Requested("restore", a, db)
<1>1. "ensure" \in Desired /\ Sound(db) /\ "restore" \in Command \ {"delete", "retry"}
  BY DEF Desired, OpsInv, Command
<1>2. /\ Sound(e) /\ Kept(db, e) /\ SameAccounts(db, e)
      /\ Len(e.ops) \in 1..Len(e.ops) /\ e.ops[Len(e.ops)].user = a
  BY <1>1, StartsOnly DEF AdminRestores
<1>3. db' = Restored(e, a) /\ calls' = Joined(calls, Task(a, Len(db'.ops), "stored"))
  BY DEF AdminRestores, Restored
<1> HIDE DEF e
<1>4. PICK row \in AccountRow : Put(e, db', a, row) /\ row.exists = e.acct[a].exists
  BY <1>2, <1>3, PutRestored
<1>6. Sound(db') /\ Kept(db, db') /\ db'.ops = e.ops
  BY <1>1, <1>2, <1>4, KeptTrans DEF Put
<1>8. /\ Task(a, Len(db'.ops), "stored") \in SUBSET Call
      /\ \A c \in Task(a, Len(db'.ops), "stored") : Refers(c, db')
  BY <1>2, <1>3, <1>6, TaskCall
<1>9. OpsInv' /\ "restore" \in meanwhile.kinds
  BY <1>3, <1>6, <1>8, HandlerKeeps, AsksKeeps DEF AdminRestores
<1>10. Stays(db, db', meanwhile.kinds)
  BY <1>2, <1>4, <1>9 DEF Stays, SameAccounts, SameRow, Put
<1>11. QED
  BY <1>6, <1>9, <1>10 DEF Kept

LEMMA EnablesKeep ==
  ASSUME OpsInv, NEW a \in Accounts, UNCHANGED todo, AdminEnables(a)
  PROVE  OpsInv' /\ Grows(db, db') /\ Stays(db, db', meanwhile.kinds)
<1> DEFINE e == Requested("update", a, db)
           no == FALSE
           e2 == [e EXCEPT !.acct[a].disabled = no]
           row == [e.acct[a] EXCEPT !.disabled = no]
<1>1. Sound(db) /\ "update" \in Command \ {"delete", "retry"} /\ no \in BOOLEAN
  BY DEF OpsInv, Command
<1>2. /\ Sound(e) /\ Kept(db, e) /\ SameAccounts(db, e)
      /\ Len(e.ops) \in 1..Len(e.ops) /\ e.ops[Len(e.ops)].user = a
  BY <1>1, StartsOnly DEF AdminEnables
<1>3. db' = e2 /\ calls' = Joined(calls, Task(a, Len(db'.ops), "stored"))
  BY DEF AdminEnables
<1> HIDE DEF e, no
<1>4. Put(e, e2, a, row) /\ row \in AccountRow
  BY <1>1, <1>2, PutDisabled
<1>5. row.exists = e.acct[a].exists /\ row.desired = e.acct[a].desired
  BY <1>2, DbSound DEF AccountRow
<1> HIDE DEF e2, row
<1>6. Sound(e2) /\ Kept(db, e2) /\ e2.ops = e.ops
  BY <1>1, <1>2, <1>4, KeptTrans DEF Put
<1>8. /\ Task(a, Len(db'.ops), "stored") \in SUBSET Call
      /\ \A c \in Task(a, Len(db'.ops), "stored") : Refers(c, db')
  BY <1>2, <1>3, <1>6, TaskCall
<1>9. OpsInv' /\ "enable" \in meanwhile.kinds
  BY <1>3, <1>6, <1>8, HandlerKeeps, AsksKeeps DEF AdminEnables
<1>10. Stays(db, e2, meanwhile.kinds)
  BY <1>2, <1>4, <1>5, <1>9 DEF Stays, SameAccounts, SameRow, Put
<1>11. QED
  BY <1>3, <1>6, <1>9, <1>10 DEF Kept

LEMMA NothingJoins == ASSUME OpsInv PROVE calls = Joined(calls, {})
BY DEF OpsInv, CallsOK, Joined

LEMMA PurgesKeep ==
  ASSUME OpsInv, NEW a \in Accounts, UNCHANGED todo, AdminPurges(a)
  PROVE  OpsInv' /\ Grows(db, db') /\ Stays(db, db', meanwhile.kinds)
<1>1. Sound(db)
  BY DEF OpsInv
<1>2. Put(db, db', a, NoAccount)
  BY <1>1, PutNone DEF AdminPurges
<1>3. Sound(db') /\ Kept(db, db') /\ Grows(db, db')
  BY <1>2 DEF Put, Kept
<1>4. calls' = Joined(calls, {})
  BY NothingJoins DEF AdminPurges
<1>5. OpsInv'
  BY <1>3, <1>4, HandlerKeeps, AsksKeeps DEF AdminPurges
<1>6. ~NoAccount.exists
  BY DEF NoAccount, FreshAccount
<1>7. Stays(db, db', meanwhile.kinds)
  BY <1>2, <1>6 DEF Put, Stays
<1>8. QED
  BY <1>3, <1>5, <1>7

LEMMA RetriesKeep ==
  ASSUME OpsInv, NEW op \in 1..Len(db.ops), UNCHANGED todo, RetryDue(op)
  PROVE  OpsInv' /\ db' = db /\ meanwhile' = meanwhile
<1>1. Sound(db) /\ db.ops[op] \in OperationRow
  BY DbSound DEF OpsInv
<1>2. /\ Task(db.ops[op].user, op, "stored") \in SUBSET Call
      /\ \A c \in Task(db.ops[op].user, op, "stored") : Refers(c, db)
  BY <1>1, TaskCall DEF OperationRow
<1>3. CallsOK(calls', db')
  BY <1>2, JoinedCalls DEF RetryDue, OpsInv
<1>4. QED
  BY <1>3 DEF RetryDue, OpsInv

LEMMA MeanwhileKeeps ==
  ASSUME OpsInv, Meanwhile
  PROVE  OpsInv' /\ Grows(db, db') /\ Stays(db, db', meanwhile.kinds) /\ meanwhile'.kinds = meanwhile.kinds
<1>1. ASSUME NEW a \in Accounts, AdminUpdates(a) \/ AdminDeletes(a) \/ AdminRestores(a)
                                   \/ AdminEnables(a) \/ AdminPurges(a)
      PROVE  OpsInv' /\ Grows(db, db') /\ Stays(db, db', meanwhile.kinds) /\ meanwhile'.kinds = meanwhile.kinds
  <2>1. UNCHANGED todo
    BY DEF Meanwhile
  <2>2. meanwhile'.kinds = meanwhile.kinds
    BY <1>1, AsksKeeps DEF AdminUpdates, AdminDeletes, AdminRestores, AdminEnables, AdminPurges
  <2>3. QED
    BY <1>1, <2>1, <2>2, UpdatesKeep, DeletesKeep, RestoresKeep, EnablesKeep, PurgesKeep
<1>2. ASSUME NEW op \in 1..Len(db.ops), RetryDue(op)
      PROVE  OpsInv' /\ Grows(db, db') /\ Stays(db, db', meanwhile.kinds) /\ meanwhile'.kinds = meanwhile.kinds
  <2>1. OpsInv' /\ db' = db /\ meanwhile' = meanwhile
    BY <1>2, RetriesKeep DEF Meanwhile
  <2>2. Grows(db, db') /\ Stays(db, db', meanwhile.kinds)
    BY <2>1, KeptTrans DEF OpsInv, Stays
  <2>3. QED
    BY <2>1, <2>2
<1>3. QED
  BY <1>1, <1>2 DEF Meanwhile

\* A session ends, a call is dropped or raises: what that does to rows and sessions.
ComesBack ==
  /\ Sound(db') /\ Grows(db, db') /\ SessionsOK(sessions', db')
  /\ EndsWell(db, db')

LEMMA Unchanged ==
  ASSUME OpsInv, UNCHANGED <<db, sessions>>
  PROVE  ComesBack
BY KeptTrans DEF OpsInv, ComesBack, EndsWell

LEMMA SessionComesBack ==
  ASSUME OpsInv, NEW s \in sessions, NEW status \in Outcomes, SessionEnds(s, status) \/ SessionRaises(s)
  PROVE  ComesBack
<1>1. CASE SessionEnds(s, status)
  BY <1>1, EndedRows DEF SessionEnds, ComesBack
<1>2. CASE SessionRaises(s)
  <2>1. SessionsOK(sessions', db) /\ db' = db
    BY <1>2 DEF SessionRaises, OpsInv, SessionsOK
  <2>2. QED
    BY <2>1, KeptTrans DEF OpsInv, ComesBack, EndsWell
<1>3. QED
  BY <1>1, <1>2

LEMMA UnendedComesBack ==
  ASSUME OpsInv, NEW s \in sessions, SessionStops(s) \/ SessionRaises(s)
  PROVE  ComesBack
<1>1. SessionsOK(sessions', db) /\ db' = db
  BY DEF SessionStops, StaysRunning, SessionRaises, OpsInv, SessionsOK
<1>2. QED
  BY <1>1, KeptTrans DEF OpsInv, ComesBack, EndsWell

LEMMA ReturnsComesBack ==
  ASSUME OpsInv, NEW by, Returns(by) \/ Raises(by)
  PROVE  ComesBack
BY Unchanged, SessionComesBack, UnendedComesBack
   DEF Returns, Raises, CallDropped, CallRaises, Holds

LEMMA TasksKeep ==
  ASSUME OpsInv, NEW a \in Accounts, TaskStep(a)
  PROVE  OpsInv' /\ Grows(db, db') /\ EndsWell(db, db') /\ UNCHANGED <<todo, meanwhile>>
<1>1. ComesBack
  BY Unchanged, SessionComesBack, UnendedComesBack
     DEF TaskStep, CallDropped, CallRaises, Holds
<1>2. CallsOK(calls', db)
  <2>1. CASE UNCHANGED calls
    BY <2>1 DEF OpsInv
  <2>2. CASE \E c \in Awaits("task") : calls' = Left(calls, {c})
    BY <2>2, LeavesOne DEF Awaits
  <2>3. QED
    BY <2>1, <2>2 DEF TaskStep
<1>3. CallsOK(calls', db') /\ TodoOK(todo, db')
  BY <1>1, <1>2, GrowsKeeps DEF ComesBack, OpsInv, TodoOK
<1>4. QED
  BY <1>1, <1>3 DEF ComesBack, OpsInv, TaskStep

LEMMA OperationsKeep ==
  ASSUME OpsInv, OperationsNext
  PROVE  OpsInv' /\ Grows(db, db') /\ Stays(db, db', meanwhile.kinds) /\ meanwhile'.kinds = meanwhile.kinds
<1>1. ASSUME NEW a \in Accounts, SyncStarts(a)
      PROVE  OpsInv' /\ Grows(db, db') /\ Stays(db, db', meanwhile.kinds) /\ meanwhile'.kinds = meanwhile.kinds
  <2>1. PICK c \in Waiting : CallStarts(c)
    BY <1>1 DEF SyncStarts
  <2>2. QED
    BY <2>1, StartsKeep, SameStays DEF Kept, CallStarts
<1>2. ASSUME NEW a \in Accounts, TaskStep(a)
      PROVE  OpsInv' /\ Grows(db, db') /\ Stays(db, db', meanwhile.kinds) /\ meanwhile'.kinds = meanwhile.kinds
  BY <1>2, TasksKeep, SameStays
<1>3. QED
  BY <1>1, <1>2, MeanwhileKeeps DEF OperationsNext

LEMMA LostKeeps ==
  ASSUME OpsInv, OperationsLost
  PROVE  OpsInv' /\ db' = db /\ \A k \in meanwhile'.kinds : k \in meanwhile.kinds \/ k = "crashed"
<1>1. CallsOK(calls', db')
  <2>1. \A a \in Accounts : calls'[a] = <<>>
    BY DEF OperationsLost
  <2>2. calls' \in [Accounts -> Seq(Call)]
    BY EmptySeq DEF OperationsLost
  <2>3. QED
    BY <2>1, <2>2 DEF CallsOK
<1>2. SessionsOK(sessions', db')
  BY DEF OperationsLost, SessionsOK
<1>3. TodoOK(todo', db')
  <2>1. \A by \in Coroutines : todo'[by] = <<>>
    BY DEF OperationsLost
  <2>2. todo' \in [Coroutines -> Seq(Call)]
    BY EmptySeq DEF OperationsLost
  <2>3. QED
    BY <2>1, <2>2 DEF TodoOK, ListOK
<1>4. MeanwhileOK(meanwhile')
  <2> DEFINE all == {"crashed"} \cup UNION Disturbances
             kinds == (meanwhile.kinds \ {"crash"}) \cup {"crashed"}
  <2>1. meanwhile \in [kinds : SUBSET all, left : 0..MaxRequests]
    BY DEF OpsInv, MeanwhileOK
  <2>7. "crashed" \in all
    BY Zenon
  <2> HIDE DEF all
  <2>6. meanwhile.kinds \subseteq all
    BY <2>1
  <2>2. kinds \in SUBSET all
    BY <2>6, <2>7
  <2>3. meanwhile' = [meanwhile EXCEPT !.kinds = kinds]
    BY DEF OperationsLost
  <2> HIDE DEF kinds
  <2>4. meanwhile' \in [kinds : SUBSET all, left : 0..MaxRequests]
    BY <2>1, <2>2, <2>3
  <2>5. QED
    BY <2>4 DEF MeanwhileOK, all
<1>5. QED
  BY <1>1, <1>2, <1>3, <1>4 DEF OpsInv, OperationsLost, MeanwhileOK
-----------------------------------------------------------------------------
(***************************************************************************)
(* The callers that await one call after the other.                        *)
(***************************************************************************)
LEMMA InOrderSeq == InOrder \in Seq(Accounts)
<1>1. IsFiniteSet(Accounts)
  BY AccountAssumption
<1>2. Cardinality(Accounts) \in Nat /\ ExistsBijection(1..Cardinality(Accounts), Accounts)
  BY <1>1, FS_CardinalityType
<1>3. PICK f \in Bijection(1..Cardinality(Accounts), Accounts) : TRUE
  BY <1>2 DEF ExistsBijection
<1>4. f \in [1..Cardinality(Accounts) -> Accounts] /\ IsInjective(f)
  BY <1>3 DEF Bijection, Injection, IsInjective
<1>5. InOrder \in [1..Cardinality(Accounts) -> Accounts]
  BY <1>4 DEF InOrder, SetToSeq
<1>6. QED
  BY <1>2, <1>5

LEMMA GoesOnKeeps ==
  ASSUME OpsInv, NEW by \in Coroutines, ComesBack, GoesOn(by)
  PROVE  CallsOK(calls', db') /\ TodoOK(todo', db')
<1>1. Sound(db) /\ Sound(db') /\ Grows(db, db')
  BY DEF OpsInv, ComesBack
<1>2. \A c \in Awaits(by) : \E a \in Accounts : \E i \in 1..Len(calls[a]) : c = calls[a][i]
  BY CallTyped DEF Awaits
<1>3. CallsOK(Left(calls, Awaits(by)), db)
  BY <1>2, LeftCalls DEF OpsInv
<1>4. CallsOK(Left(calls, Awaits(by)), db')
  BY <1>1, <1>3, GrowsKeeps
<1>5. ListOK(todo[by], db') /\ \A k \in Coroutines : ListOK(todo[k], db')
  BY <1>1, GrowsKeeps DEF OpsInv, TodoOK
<1>6. /\ FirstOf(todo[by]) \in SUBSET Call /\ \A c \in FirstOf(todo[by]) : Refers(c, db')
      /\ ListOK(RestOf(todo[by]), db')
  BY <1>5, FirstRest
<1>7. CallsOK(calls', db')
  BY <1>4, <1>6, JoinedCalls DEF GoesOn
<1>8. todo \in [Coroutines -> Seq(Call)] /\ todo' = [todo EXCEPT ![by] = RestOf(todo[by])]
  BY DEF OpsInv, TodoOK, GoesOn
<1>9. TodoOK(todo', db')
  BY <1>5, <1>6, <1>8 DEF TodoOK, ListOK
<1>10. QED
  BY <1>7, <1>9

LEMMA BreaksKeeps ==
  ASSUME OpsInv, NEW by \in Coroutines, ComesBack, Breaks(by)
  PROVE  CallsOK(calls', db') /\ TodoOK(todo', db')
<1>1. Sound(db) /\ Sound(db') /\ Grows(db, db')
  BY DEF OpsInv, ComesBack
<1>2. \A c \in Awaits(by) : \E a \in Accounts : \E i \in 1..Len(calls[a]) : c = calls[a][i]
  BY CallTyped DEF Awaits
<1>3. CallsOK(Left(calls, Awaits(by)), db)
  BY <1>2, LeftCalls DEF OpsInv
<1>4. CallsOK(calls', db')
  BY <1>1, <1>3, GrowsKeeps DEF Breaks
<1>5. \A k \in Coroutines : ListOK(todo[k], db')
  BY <1>1, GrowsKeeps DEF OpsInv, TodoOK
<1>6. ListOK(<<>>, db')
  BY DEF ListOK
<1>8. todo \in [Coroutines -> Seq(Call)] /\ todo' = [todo EXCEPT ![by] = <<>>]
  BY DEF OpsInv, TodoOK, Breaks
<1>9. TodoOK(todo', db')
  BY <1>5, <1>6, <1>8 DEF TodoOK, ListOK
<1>10. QED
  BY <1>4, <1>9

LEMMA BeginsKeeps ==
  ASSUME OpsInv, NEW by \in Coroutines, NEW list, Sound(db'), Kept(db, db'),
         ListOK(list, db'), Begins(by, list), UNCHANGED sessions, MeanwhileOK(meanwhile')
  PROVE  OpsInv'
<1>1. CallsOK(calls, db') /\ SessionsOK(sessions, db') /\ \A k \in Coroutines : ListOK(todo[k], db')
  BY GrowsKeeps DEF OpsInv, TodoOK, Kept
<1>2. /\ FirstOf(list) \in SUBSET Call /\ \A c \in FirstOf(list) : Refers(c, db')
      /\ ListOK(RestOf(list), db')
  BY FirstRest
<1>3. CallsOK(calls', db')
  BY <1>1, <1>2, JoinedCalls DEF Begins
<1>4. todo \in [Coroutines -> Seq(Call)] /\ todo' = [todo EXCEPT ![by] = RestOf(list)]
  BY DEF OpsInv, TodoOK, Begins
<1>5. TodoOK(todo', db')
  BY <1>1, <1>2, <1>4 DEF TodoOK, ListOK
<1>6. QED
  BY <1>1, <1>3, <1>5 DEF OpsInv, MeanwhileOK
-----------------------------------------------------------------------------
(***************************************************************************)
(* The inductive invariant of governance: Scan is what the scan of the     *)
(* accounts keeps from one account to the next.                            *)
(***************************************************************************)
\* What a policy and its account look like, for the day's scan.
PolicyOK(p, acc, day, kinds) ==
  /\ p.start < p.end \/ p.start = Never \/ p.end = Never
  /\ p.endApplied => /\ p.end <= day
                     /\ ~acc.exists \/ acc.desired = "delete" \/ p.startApplied \/ p.start = Never
  /\ "enable" \notin kinds =>
       /\ p.start # Never /\ ~p.startApplied =>
            ~acc.exists \/ acc.desired = "delete" \/ acc.disabled
       /\ p.endApplied =>
            ~acc.exists \/ acc.desired = "delete" \/ acc.disabled

PoliciesOK(pol, d, day, kinds) ==
  \A a \in Accounts : pol[a].exists => PolicyOK(pol[a], d.acct[a], day, kinds)

ReviewsOK(revs, d) ==
  \A n \in 1..Len(revs) : \A i \in 1..Len(revs[n].items) :
    revs[n].items[i].decision = "delete" =>
      LET acc == d.acct[revs[n].items[i].user]
      IN ~acc.exists \/ acc.desired = "delete"

GovInv ==
  /\ GovernanceTypeOK
  /\ PoliciesOK(policies, db, today, meanwhile.kinds)
  /\ ReviewsOK(reviews, db)

LEMMA PolicyStays ==
  ASSUME NEW pol, NEW d, NEW e, NEW day, NEW kinds, 
         Stays(d, e, kinds), "restore" \notin kinds, PoliciesOK(pol, d, day, kinds)
  PROVE  PoliciesOK(pol, e, day, kinds)
<1>1. ASSUME NEW a \in Accounts, pol[a].exists
      PROVE  PolicyOK(pol[a], e.acct[a], day, kinds)
  BY <1>1 DEF PoliciesOK, PolicyOK, Stays
<1>2. QED
  BY <1>1 DEF PoliciesOK

LEMMA ReviewStays ==
  ASSUME NEW revs \in Seq(Review), NEW d, NEW e, NEW kinds,
         Stays(d, e, kinds), "restore" \notin kinds, ReviewsOK(revs, d)
  PROVE  ReviewsOK(revs, e)
<1>1. ASSUME NEW n \in 1..Len(revs), NEW i \in 1..Len(revs[n].items),
             revs[n].items[i].decision = "delete"
      PROVE  LET acc == e.acct[revs[n].items[i].user]
             IN ~acc.exists \/ acc.desired = "delete"
  <2>0. revs[n] \in Review
    BY ElementOfSeq
  <2>1. revs[n].items \in Seq(ReviewItem)
    BY <2>0 DEF Review
  <2>2. revs[n].items[i] \in ReviewItem
    BY <2>1, ElementOfSeq
  <2>3. revs[n].items[i].user \in Accounts
    BY <2>2 DEF ReviewItem
  <2>4. QED
    BY <1>1, <2>3 DEF ReviewsOK, Stays
<1>2. QED
  BY <1>1 DEF ReviewsOK

-----------------------------------------------------------------------------
\* None of these calls is a repair's.
NoRepairs(l) == \A i \in 1..Len(l) : l[i].by # "repair"

\* The scan's rows w, along the accounts.
Scan ==
  {w \in [d : Rows, pol : [Accounts -> PolicyRow], calls : Seq(Call)] :
     /\ Sound(w.d) /\ Kept(db, w.d) /\ ListOK(w.calls, w.d) /\ NoRepairs(w.calls)
     /\ PoliciesOK(w.pol, w.d, today, meanwhile.kinds)
     /\ \A a \in Accounts : /\ w.d.acct[a].exists => db.acct[a].exists
                            /\ db.acct[a].desired = "delete" => w.d.acct[a].desired = "delete"}

LEMMA ScanTyped ==
  ASSUME NEW w \in Scan
  PROVE  /\ w.d \in Rows /\ w.pol \in [Accounts -> PolicyRow] /\ w.calls \in Seq(Call)
         /\ w = [d |-> w.d, pol |-> w.pol, calls |-> w.calls]
         /\ Sound(w.d) /\ Kept(db, w.d) /\ ListOK(w.calls, w.d)
         /\ PoliciesOK(w.pol, w.d, today, meanwhile.kinds)
BY DEF Scan

LEMMA CallAppends ==
  ASSUME NEW d, Sound(d), NEW l, ListOK(l, d), NEW c \in Call, Refers(c, d)
  PROVE  /\ ListOK(Append(l, c), d)
         /\ NoRepairs(l) /\ c.by # "repair" => NoRepairs(Append(l, c))
<1>1. l \in Seq(Call) /\ Len(l) \in Nat
  BY LenProperties DEF ListOK
<1>2. /\ Append(l, c) \in Seq(Call) /\ Len(Append(l, c)) = Len(l) + 1
      /\ \A i \in 1..Len(l) : Append(l, c)[i] = l[i]
      /\ Append(l, c)[Len(l) + 1] = c
  BY <1>1, AppendProperties
<1>3. QED
  BY <1>1, <1>2 DEF ListOK, NoRepairs

\* One step of the scan: the account's row, its policy and a call are written.
LEMMA ScanStep ==
  ASSUME OpsInv, GovernanceTypeOK, NEW w \in Scan, NEW a \in Accounts,
         NEW e, Sound(e), Kept(w.d, e), NEW c \in Call, Refers(c, e), c.by # "repair",
         \A b \in Accounts \ {a} : SameRow(w.d.acct[b], e.acct[b]),
         e.acct[a].exists => w.d.acct[a].exists,
         w.d.acct[a].desired = "delete" => e.acct[a].desired = "delete",
         NEW p \in PolicyRow, PolicyOK(p, e.acct[a], today, meanwhile.kinds)
  PROVE  [d |-> e, pol |-> [w.pol EXCEPT ![a] = p], calls |-> Append(w.calls, c)] \in Scan
<1> DEFINE pol == [w.pol EXCEPT ![a] = p]
           list == Append(w.calls, c)
           v == [d |-> e, pol |-> pol, calls |-> list]
<1>1. /\ Sound(db) /\ Sound(w.d) /\ Kept(db, w.d) /\ ListOK(w.calls, w.d) /\ NoRepairs(w.calls)
      /\ PoliciesOK(w.pol, w.d, today, meanwhile.kinds) /\ w.pol \in [Accounts -> PolicyRow]
      /\ \A b \in Accounts : /\ w.d.acct[b].exists => db.acct[b].exists
                             /\ db.acct[b].desired = "delete" => w.d.acct[b].desired = "delete"
  BY DEF OpsInv, Scan
<1>2. /\ pol \in [Accounts -> PolicyRow]
      /\ \A b \in Accounts : pol[b] = IF b = a THEN p ELSE w.pol[b]
  BY <1>1
<1>3. Kept(db, e)
  BY <1>1, KeptTrans
<1>4. ListOK(list, e) /\ NoRepairs(list)
  BY <1>1, GrowsKeeps, CallAppends DEF Kept
<1> HIDE DEF pol, list
<1>5. PoliciesOK(pol, e, today, meanwhile.kinds)
  <2>1. ASSUME NEW b \in Accounts, pol[b].exists
        PROVE  PolicyOK(pol[b], e.acct[b], today, meanwhile.kinds)
    <3>1. CASE b = a
      BY <1>2, <3>1
    <3>2. CASE b # a
      <4>1. PolicyOK(w.pol[b], w.d.acct[b], today, meanwhile.kinds) /\ pol[b] = w.pol[b]
        BY <1>1, <1>2, <2>1, <3>2 DEF PoliciesOK
      <4>2. SameRow(w.d.acct[b], e.acct[b])
        BY <3>2
      <4>3. QED
        BY <4>1, <4>2 DEF PolicyOK, SameRow
    <3>3. QED
      BY <3>1, <3>2
  <2>2. QED
    BY <2>1 DEF PoliciesOK
<1>6. \A b \in Accounts : /\ e.acct[b].exists => db.acct[b].exists
                          /\ db.acct[b].desired = "delete" => e.acct[b].desired = "delete"
  BY <1>1 DEF SameRow
<1>7. v \in [d : Rows, pol : [Accounts -> PolicyRow], calls : Seq(Call)]
  BY <1>2, <1>4 DEF Sound, ListOK
<1>8. v \in Scan
  BY <1>3, <1>4, <1>5, <1>6, <1>7 DEF Scan
<1>9. QED
  BY <1>8 DEF pol, list
-----------------------------------------------------------------------------
(***************************************************************************)
(* What the scan decides of one account.                                   *)
(***************************************************************************)
LEMMA ScanAccount ==
  ASSUME OpsInv, GovernanceTypeOK, NEW w \in Scan, NEW a \in Accounts
  PROVE  /\ w.pol[a] \in PolicyRow /\ w.d.acct[a] \in AccountRow
         /\ w.pol[a].exists => PolicyOK(w.pol[a], w.d.acct[a], today, meanwhile.kinds)
         /\ today \in 0..LastDay /\ LastDay \in Nat
         /\ "governance" \in Coroutines
<1>1. /\ w.d \in Rows /\ w.pol \in [Accounts -> PolicyRow]
      /\ PoliciesOK(w.pol, w.d, today, meanwhile.kinds)
  BY ScanTyped
<1>2. w.d.acct \in [Accounts -> AccountRow]
  BY <1>1 DEF Rows
<1>3. QED
  BY <1>1, <1>2, GovernanceAssumption DEF PoliciesOK, GovernanceTypeOK

\* A policy's start is applied.
LEMMA StartsInScan ==
  ASSUME OpsInv, GovernanceTypeOK, NEW w \in Scan, NEW a \in Accounts,
         w.d.acct[a].exists, StartDue(w, a), ~Rejects("enable", a, w.d),
         w.pol[a].exists
  PROVE  /\ Starts(w, a) \in Scan
         /\ Starts(w, a).pol[a] = [w.pol[a] EXCEPT !.startApplied = TRUE]
<1> DEFINE no == FALSE
           yes == TRUE
           d == Requested("enable", a, w.d)
           e == [d EXCEPT !.acct[a].disabled = no]
           row == [d.acct[a] EXCEPT !.disabled = no]
           c == SyncCall("governance", a, Len(d.ops), "stored")
           p == [w.pol[a] EXCEPT !.startApplied = yes]
           v == [d |-> e, pol |-> [w.pol EXCEPT ![a] = p], calls |-> Append(w.calls, c)]
<1>1. /\ w.d \in Rows /\ w.pol \in [Accounts -> PolicyRow] /\ w.calls \in Seq(Call)
      /\ w = [d |-> w.d, pol |-> w.pol, calls |-> w.calls] /\ Sound(w.d)
  BY ScanTyped
<1>2. /\ w.pol[a] \in PolicyRow /\ w.d.acct[a] \in AccountRow
      /\ PolicyOK(w.pol[a], w.d.acct[a], today, meanwhile.kinds)
      /\ today \in 0..LastDay /\ LastDay \in Nat /\ "governance" \in Coroutines
  BY ScanAccount
<1>3. Starts(w, a) = v
  BY DEF Starts, Queues
<1>4. /\ Sound(d) /\ Kept(w.d, d) /\ SameAccounts(w.d, d)
      /\ Len(d.ops) \in 1..Len(d.ops) /\ d.ops[Len(d.ops)].user = a
  BY <1>1, StartsOnly DEF Command
<1>5. d.acct[a] \in AccountRow
  BY <1>4 DEF Sound, Rows
<1>6. no \in BOOLEAN /\ ~no /\ yes \in BOOLEAN /\ yes
  OBVIOUS
<1> HIDE DEF d, no, yes
<1>7. Put(d, e, a, row) /\ row \in AccountRow
  BY <1>4, <1>6, PutDisabled
<1>8. row.exists = d.acct[a].exists /\ row.desired = d.acct[a].desired
  BY <1>5 DEF AccountRow
<1>9. p \in PolicyRow /\ p.startApplied /\ p.start = w.pol[a].start /\ p.end = w.pol[a].end
      /\ p.endApplied = w.pol[a].endApplied
  BY <1>2, <1>6 DEF PolicyRow
<1> HIDE DEF e, row, p
<1>10. /\ Sound(e) /\ Kept(d, e) /\ e.ops = d.ops /\ e.acct[a] = row
       /\ \A b \in Accounts \ {a} : e.acct[b] = d.acct[b]
  BY <1>7 DEF Put
<1>11. Kept(w.d, e)
  BY <1>1, <1>4, <1>10, KeptTrans
<1>12. c \in Call /\ Refers(c, e) /\ c.by # "repair"
  BY <1>2, <1>4, <1>10 DEF Call, Refers, SyncCall
<1>13. w.pol[a].start # Never /\ ~w.pol[a].startApplied /\ w.d.acct[a].desired # "delete"
  BY <1>2 DEF StartDue, Never, PolicyRow, Day
<1>14. PolicyOK(p, e.acct[a], today, meanwhile.kinds)
  BY <1>2, <1>9, <1>13 DEF PolicyOK
<1>15. \A b \in Accounts \ {a} : SameRow(w.d.acct[b], e.acct[b])
  BY <1>4, <1>10 DEF SameAccounts
<1>16. /\ e.acct[a].exists => w.d.acct[a].exists
       /\ w.d.acct[a].desired = "delete" => e.acct[a].desired = "delete"
  BY <1>4, <1>8, <1>10 DEF SameAccounts, SameRow
<1> HIDE DEF c
<1>17. v \in Scan
  BY <1>9, <1>10, <1>11, <1>12, <1>14, <1>15, <1>16, ScanStep
<1>18. v.pol[a] = p
  BY <1>1
<1> HIDE DEF v
<1>19. QED
  BY <1>3, <1>17, <1>18 DEF p, yes

\* A policy's end is applied, unless it meets a conflict.
LEMMA EndsInScan ==
  ASSUME OpsInv, GovernanceTypeOK, NEW w \in Scan, NEW a \in Accounts,
         w.d.acct[a].exists, EndDue(w, a), w.pol[a].exists,
         w.pol[a].startApplied \/ ~StartDue(w, a)
  PROVE  Ends(w, a) \in Scan
<1>1. /\ w.d \in Rows /\ w.pol \in [Accounts -> PolicyRow] /\ w.calls \in Seq(Call)
      /\ w = [d |-> w.d, pol |-> w.pol, calls |-> w.calls] /\ Sound(w.d)
  BY ScanTyped
<1>2. /\ w.pol[a] \in PolicyRow /\ w.d.acct[a] \in AccountRow
      /\ PolicyOK(w.pol[a], w.d.acct[a], today, meanwhile.kinds)
      /\ today \in 0..LastDay /\ LastDay \in Nat /\ "governance" \in Coroutines
  BY ScanAccount
<1>3. /\ w.pol[a].end <= today /\ w.pol[a].end # Never
      /\ w.d.acct[a].desired = "delete" \/ w.pol[a].startApplied \/ w.pol[a].start = Never
  BY <1>2 DEF PolicyOK, EndDue, StartDue, Never, Day, PolicyRow
<1>4. CASE w.pol[a].delete
  <2> DEFINE no == FALSE
             yes == TRUE
             dl == "delete"
             d == Requested("delete", a, w.d)
             e == [d EXCEPT !.acct[a].desired = dl, !.acct[a].deleted = FALSE]
             row == [d.acct[a] EXCEPT !.desired = dl, !.deleted = FALSE]
             c == SyncCall("governance", a, d.acct[a].active, "delete")
             p == [w.pol[a] EXCEPT !.endApplied = yes]
             v == [d |-> e, pol |-> [w.pol EXCEPT ![a] = p], calls |-> Append(w.calls, c)]
  <2>1. ~Rejects("delete", a, w.d) => Ends(w, a) = v
    BY <1>1, <1>4 DEF Ends, Queues
  <2>2. /\ Sound(d) /\ Kept(w.d, d) /\ SameAccounts(w.d, d)
        /\ d.acct[a].active \in 1..Len(d.ops) /\ d.ops[d.acct[a].active].user = a
    BY <1>1, DeletesOn
  <2>3. d.acct[a] \in AccountRow
    BY <2>2 DEF Sound, Rows
  <2>4. dl \in Desired /\ dl = "delete" /\ yes \in BOOLEAN /\ yes
    BY DEF Desired
  <2> HIDE DEF d, dl, yes
  <2>5. Put(d, e, a, row) /\ row \in AccountRow
    BY <2>2, <2>4, PutDesired
  <2>6. row.exists = d.acct[a].exists /\ row.desired = "delete"
    BY <2>3, <2>4 DEF AccountRow
  <2>7. p \in PolicyRow /\ p.startApplied = w.pol[a].startApplied /\ p.start = w.pol[a].start
        /\ p.end = w.pol[a].end
    BY <1>2, <2>4 DEF PolicyRow
  <2> HIDE DEF e, row, p
  <2>8. /\ Sound(e) /\ Kept(d, e) /\ e.ops = d.ops /\ e.acct[a] = row
        /\ \A b \in Accounts \ {a} : e.acct[b] = d.acct[b]
    BY <2>5 DEF Put
  <2>9. Kept(w.d, e)
    BY <1>1, <2>2, <2>8, KeptTrans
  <2>10. c \in Call /\ Refers(c, e) /\ c.by # "repair"
    BY <1>2, <2>2, <2>8 DEF Call, Refers, SyncCall, Desired
  <2>11. PolicyOK(p, e.acct[a], today, meanwhile.kinds)
    BY <1>2, <1>3, <2>6, <2>7, <2>8 DEF PolicyOK
  <2>12. \A b \in Accounts \ {a} : SameRow(w.d.acct[b], e.acct[b])
    BY <2>2, <2>8 DEF SameAccounts
  <2>13. /\ e.acct[a].exists => w.d.acct[a].exists
         /\ w.d.acct[a].desired = "delete" => e.acct[a].desired = "delete"
    BY <2>2, <2>6, <2>8 DEF SameAccounts, SameRow
  <2> HIDE DEF c
  <2>14. v \in Scan
    BY <2>7, <2>8, <2>9, <2>10, <2>11, <2>12, <2>13, ScanStep
  <2>15. Rejects("delete", a, w.d) => Ends(w, a) = w
    BY <1>4 DEF Ends
  <2> HIDE DEF v
  <2>16. QED
    BY <2>1, <2>14, <2>15
<1>5. CASE ~w.pol[a].delete
  <2> DEFINE yes == TRUE
             d == Requested("disable", a, w.d)
             e == [d EXCEPT !.acct[a].disabled = yes]
             row == [d.acct[a] EXCEPT !.disabled = yes]
             c == SyncCall("governance", a, d.acct[a].active, "stored")
             p == [w.pol[a] EXCEPT !.endApplied = yes]
             v == [d |-> e, pol |-> [w.pol EXCEPT ![a] = p], calls |-> Append(w.calls, c)]
  <2>1. ~Rejects("disable", a, w.d) => Ends(w, a) = v
    BY <1>1, <1>5 DEF Ends, Queues
  <2>2. ASSUME ~Rejects("disable", a, w.d)
        PROVE  v \in Scan
    <3>2. /\ Sound(d) /\ Kept(w.d, d) /\ SameAccounts(w.d, d)
          /\ d.acct[a].active \in 1..Len(d.ops) /\ d.ops[d.acct[a].active].user = a
      BY <1>1, <2>2, StartsOnly DEF Command
    <3>3. d.acct[a] \in AccountRow
      BY <3>2 DEF Sound, Rows
    <3>4. yes \in BOOLEAN /\ yes
      OBVIOUS
    <3> HIDE DEF d, yes
    <3>5. Put(d, e, a, row) /\ row \in AccountRow
      BY <3>2, <3>4, PutDisabled
    <3>6. row.exists = d.acct[a].exists /\ row.desired = d.acct[a].desired /\ row.disabled
      BY <3>3, <3>4 DEF AccountRow
    <3>7. p \in PolicyRow /\ p.startApplied = w.pol[a].startApplied /\ p.start = w.pol[a].start
          /\ p.end = w.pol[a].end
      BY <1>2, <3>4 DEF PolicyRow
    <3> HIDE DEF e, row, p
    <3>8. /\ Sound(e) /\ Kept(d, e) /\ e.ops = d.ops /\ e.acct[a] = row
          /\ \A b \in Accounts \ {a} : e.acct[b] = d.acct[b]
      BY <3>5 DEF Put
    <3>9. Kept(w.d, e)
      BY <1>1, <3>2, <3>8, KeptTrans
    <3>10. c \in Call /\ Refers(c, e) /\ c.by # "repair"
      BY <1>2, <3>2, <3>8 DEF Call, Refers, SyncCall
    <3>12. \A b \in Accounts \ {a} : SameRow(w.d.acct[b], e.acct[b])
      BY <3>2, <3>8 DEF SameAccounts
    <3>13. /\ e.acct[a].exists => w.d.acct[a].exists
           /\ w.d.acct[a].desired = "delete" => e.acct[a].desired = "delete"
      BY <3>2, <3>6, <3>8 DEF SameAccounts, SameRow
    <3>11. PolicyOK(p, e.acct[a], today, meanwhile.kinds)
      BY <1>2, <1>3, <3>6, <3>7, <3>8, <3>13 DEF PolicyOK
    <3> HIDE DEF c
    <3>14. QED
      BY <3>7, <3>8, <3>9, <3>10, <3>11, <3>12, <3>13, ScanStep
  <2>3. Rejects("disable", a, w.d) => Ends(w, a) = w
    BY <1>5 DEF Ends
  <2> HIDE DEF v
  <2>4. QED
    BY <2>1, <2>2, <2>3
<1>6. QED
  BY <1>4, <1>5

\* Whatever is due of an account.
LEMMA AppliesInScan ==
  ASSUME OpsInv, GovernanceTypeOK, NEW w \in Scan, NEW a \in Accounts
  PROVE  ApplyPolicy(w, a) \in Scan
<1>1. CASE ~w.pol[a].exists \/ ~w.d.acct[a].exists
  BY <1>1 DEF ApplyPolicy
<1>2. CASE w.pol[a].exists /\ w.d.acct[a].exists /\ StartDue(w, a)
  <2>1. CASE Rejects("enable", a, w.d)
    BY <1>2, <2>1 DEF ApplyPolicy
  <2>2. CASE ~Rejects("enable", a, w.d)
    <3> DEFINE s == Starts(w, a)
    <3>1. s \in Scan /\ s.pol[a] = [w.pol[a] EXCEPT !.startApplied = TRUE]
      BY <1>2, <2>2, StartsInScan
    <3>2. s.d.acct[a].exists
      <4> DEFINE d == Requested("enable", a, w.d)
      <4>1. Sound(w.d) /\ w = [d |-> w.d, pol |-> w.pol, calls |-> w.calls]
        BY ScanTyped
      <4>2. Sound(d) /\ SameAccounts(w.d, d)
        BY <2>2, <4>1, StartsOnly DEF Command
      <4>3. d.acct \in [Accounts -> AccountRow] /\ d.acct[a].exists = w.d.acct[a].exists
            /\ d = [acct |-> d.acct, ops |-> d.ops]
        BY <4>2 DEF Sound, Rows, SameAccounts, SameRow
      <4> DEFINE no == FALSE
                 e == [d EXCEPT !.acct[a].disabled = no]
                 row == [d.acct[a] EXCEPT !.disabled = no]
      <4>4. s.d = e
        BY DEF Starts, Queues
      <4>5. no \in BOOLEAN
        OBVIOUS
      <4> HIDE DEF no, d, s
      <4>6. Put(d, e, a, row)
        BY <4>2, <4>5, PutDisabled
      <4>7. row.exists = d.acct[a].exists
        BY <4>3 DEF AccountRow
      <4> HIDE DEF e, row
      <4>8. QED
        BY <1>2, <4>3, <4>4, <4>6, <4>7 DEF Put
    <3>3. s.pol[a].exists /\ s.pol[a].startApplied
      BY <1>2, <3>1, ScanAccount DEF PolicyRow
    <3> HIDE DEF s
    <3>4. EndDue(s, a) => Ends(s, a) \in Scan
      BY <3>1, <3>2, <3>3, EndsInScan
    <3>5. QED
      BY <1>2, <2>2, <3>1, <3>4 DEF ApplyPolicy, s
  <2>3. QED
    BY <2>1, <2>2
<1>3. CASE w.pol[a].exists /\ w.d.acct[a].exists /\ ~StartDue(w, a)
  <2>1. EndDue(w, a) => Ends(w, a) \in Scan
    BY <1>3, EndsInScan
  <2>2. QED
    BY <1>3, <2>1 DEF ApplyPolicy
<1>4. QED
  BY <1>1, <1>2, <1>3
-----------------------------------------------------------------------------
(***************************************************************************)
(* The scan of all accounts: the fold that the model writes it as.         *)
(***************************************************************************)
\* The scan ends in rows that the policies hold for: its fold over the accounts.
LEMMA AppliedInScan ==
  ASSUME OpsInv, GovernanceTypeOK, PoliciesOK(policies, db, today, meanwhile.kinds)
  PROVE  Applied \in Scan
<1> DEFINE D == DOMAIN InOrder
           base == [d |-> db, pol |-> policies, calls |-> <<>>]
           step == [x \in Scan \X D |-> ApplyPolicy(x[1], InOrder[x[2]])]
           Scans(it) == it = [s \in SUBSET D |->
                           IF s = {} THEN base
                           ELSE ApplyPolicy(it[s \ {Max(s)}], InOrder[Max(s)])]
<1>1. base \in Scan
  <2>1. Sound(db) /\ Kept(db, db) /\ ListOK(<<>>, db)
    BY KeptTrans DEF OpsInv, ListOK
  <2>2. base \in [d : Rows, pol : [Accounts -> PolicyRow], calls : Seq(Call)]
    BY <2>1 DEF Sound, GovernanceTypeOK
  <2>3. QED
    BY <2>1, <2>2 DEF Scan, NoRepairs
<1>2. InOrder \in Seq(Accounts) /\ D = 1..Len(InOrder) /\ Len(InOrder) \in Nat
  BY InOrderSeq, LenProperties
<1>3. D \in SUBSET Nat /\ IsFiniteSet(D) /\ \A k \in D : InOrder[k] \in Accounts
  BY <1>2, FS_Interval
<1>4. step \in [Scan \X D -> Scan]
  BY <1>3, AppliesInScan
<1> HIDE DEF D, base, step
<1>5. PICK it : IsFold(it, D, Scan, base, step)
  BY <1>1, <1>3, <1>4, FoldExists
<1>55. it \in [SUBSET D -> Scan] /\ \A s \in SUBSET D :
         it[s] = IF s = {} THEN base ELSE step[<<it[s \ {Max(s)}], Max(s)>>]
  BY <1>5 DEF IsFold
<1>6. ASSUME NEW s \in SUBSET D, s # {}
      PROVE  Max(s) \in D /\ s \ {Max(s)} \in SUBSET D
  BY <1>3, <1>6, MaxOf, FS_Subset
<1>7. Scans(it)
  <2>1. ASSUME NEW s \in SUBSET D
        PROVE  it[s] = IF s = {} THEN base
                       ELSE ApplyPolicy(it[s \ {Max(s)}], InOrder[Max(s)])
    <3>1. CASE s = {}
      BY <1>55, <3>1
    <3>2. CASE s # {}
      <4> DEFINE r == it[s \ {Max(s)}]
                 k == Max(s)
      <4>1. r \in Scan /\ k \in D
        BY <1>55, <1>6, <3>2
      <4>2. it[s] = step[<<r, k>>]
        BY <1>55, <3>2
      <4> HIDE DEF r, k
      <4>3. step[<<r, k>>] = ApplyPolicy(r, InOrder[k])
        BY <4>1 DEF step
      <4>4. QED
        BY <3>2, <4>2, <4>3 DEF r, k
    <3>3. QED
      BY <3>1, <3>2
  <2>2. QED
    BY <1>55, <2>1
<1> DEFINE chosen == CHOOSE f : Scans(f)
<1>8. Scans(chosen)
  <2> HIDE DEF Scans
  <2>1. QED
    BY <1>7
<1>9. Applied = chosen[D]
  BY DEF Applied, FoldLeft, MapThenFoldSet, D, base
<1> HIDE DEF chosen
<1>10. \A s \in SUBSET D :
         chosen[s] = IF s = {} THEN base
                     ELSE ApplyPolicy(chosen[s \ {Max(s)}], InOrder[Max(s)])
  <2> HIDE DEF Max
  <2>1. QED
    BY <1>8
<1> HIDE DEF Scans
<1>11. chosen[{}] \in Scan
  BY <1>1, <1>10
<1>12. ASSUME NEW s \in SUBSET D, s # {}, chosen[s \ {Max(s)}] \in Scan
       PROVE  chosen[s] \in Scan
  <2> DEFINE r == chosen[s \ {Max(s)}]
             a == InOrder[Max(s)]
  <2>1. r \in Scan /\ a \in Accounts
    BY <1>3, <1>6, <1>12
  <2>2. chosen[s] = ApplyPolicy(r, a)
    BY <1>10, <1>12
  <2> HIDE DEF r, a
  <2>3. QED
    BY <2>1, <2>2, AppliesInScan
<1>13. chosen[D] \in Scan
  BY <1>3, <1>11, <1>12, FoldStays
<1>14. QED
  BY <1>9, <1>13
-----------------------------------------------------------------------------
(***************************************************************************)
(* Reviews that are opened, previewed and reminded of.                     *)
(***************************************************************************)
\* What the reviews of a scan are opened on: the rows e are the scan's last.
Openings(e) ==
  {r \in [pol : [Accounts -> PolicyRow], revs : Seq(Review)] :
     /\ PoliciesOK(r.pol, e, today, meanwhile.kinds)
     /\ ReviewsOK(r.revs, e)}

\* Clearing the next review leaves what the policy says of its account.
LEMMA NextReviewStays ==
  ASSUME NEW pol \in [Accounts -> PolicyRow], NEW a \in Accounts, NEW day \in Day,
         NEW e, NEW now, NEW kinds, PoliciesOK(pol, e, now, kinds)
  PROVE  LET new == [pol EXCEPT ![a].nextReview = day]
         IN new \in [Accounts -> PolicyRow] /\ PoliciesOK(new, e, now, kinds)
<1> DEFINE row == [pol[a] EXCEPT !.nextReview = day]
           new == [pol EXCEPT ![a] = row]
<1>1. row \in PolicyRow /\ row.exists = pol[a].exists /\ row.start = pol[a].start
      /\ row.end = pol[a].end /\ row.startApplied = pol[a].startApplied
      /\ row.endApplied = pol[a].endApplied
  BY DEF PolicyRow
<1>2. new = [pol EXCEPT ![a].nextReview = day]
  OBVIOUS
<1> HIDE DEF row
<1>3. new \in [Accounts -> PolicyRow] /\ \A b \in Accounts : new[b] = IF b = a THEN row ELSE pol[b]
  BY <1>1
<1> HIDE DEF new
<1>4. PoliciesOK(new, e, now, kinds)
  <2>1. ASSUME NEW b \in Accounts, new[b].exists
        PROVE  PolicyOK(new[b], e.acct[b], now, kinds)
    <3>1. CASE b = a
      <4>1. PolicyOK(pol[a], e.acct[a], now, kinds)
        BY <1>1, <1>3, <2>1, <3>1 DEF PoliciesOK
      <4>2. QED
        BY <1>1, <1>3, <3>1, <4>1 DEF PolicyOK
    <3>2. CASE b # a
      BY <1>3, <2>1, <3>2 DEF PoliciesOK
    <3>3. QED
      BY <3>1, <3>2
  <2>2. QED
    BY <2>1 DEF PoliciesOK
<1>5. QED
  BY <1>2, <1>3, <1>4

\* A review nobody has decided joins the others.
LEMMA ReviewJoins ==
  ASSUME NEW revs \in Seq(Review), NEW e, ReviewsOK(revs, e), NEW rev \in Review,
         \A i \in 1..Len(rev.items) : rev.items[i].decision = "pending"
  PROVE  Append(revs, rev) \in Seq(Review) /\ ReviewsOK(Append(revs, rev), e)
<1> DEFINE new == Append(revs, rev)
<1>1. /\ Len(revs) \in Nat /\ new \in Seq(Review) /\ Len(new) = Len(revs) + 1
      /\ \A n \in 1..Len(revs) : new[n] = revs[n]
      /\ new[Len(revs) + 1] = rev
  BY LenProperties, AppendProperties
<1> HIDE DEF new
<1>2. ASSUME NEW n \in 1..Len(new), NEW i \in 1..Len(new[n].items),
             new[n].items[i].decision = "delete"
      PROVE  LET acc == e.acct[new[n].items[i].user]
             IN ~acc.exists \/ acc.desired = "delete"
  <2>1. CASE n = Len(revs) + 1
    BY <1>1, <1>2, <2>1
  <2>2. CASE n \in 1..Len(revs)
    BY <1>1, <1>2, <2>2 DEF ReviewsOK
  <2>3. QED
    BY <1>1, <2>1, <2>2
<1>3. QED
  BY <1>1, <1>2 DEF ReviewsOK, new

LEMMA OneItem ==
  ASSUME NEW a \in Accounts
  PROVE  /\ Item(a) \in ReviewItem /\ Item(a).decision = "pending"
         /\ <<Item(a)>> \in Seq(ReviewItem) /\ Len(<<Item(a)>>) = 1 /\ <<Item(a)>>[1] = Item(a)
BY DEF Item, ReviewItem, Decision

LEMMA OpensOne ==
  ASSUME GovernanceTypeOK, NEW r \in Openings(db'), NEW a \in Accounts, NEW now \in 0..LastDay
  PROVE  OpenInactivity(r, a, now) \in Openings(db')
<1> DEFINE p == r.pol[a]
           opened == [source |-> "inactivity", date |-> p.nextReview,
                      due |-> now + ReminderDays, status |-> "open", items |-> <<Item(a)>>]
           pol == [r.pol EXCEPT ![a].nextReview = Never]
<1>1. /\ r.pol \in [Accounts -> PolicyRow] /\ r.revs \in Seq(Review)
      /\ PoliciesOK(r.pol, db', today, meanwhile.kinds) /\ ReviewsOK(r.revs, db')
  BY DEF Openings
<1>2. Never \in Day /\ LastDay \in Nat /\ ReminderDays \in Nat
  BY GovernanceAssumption DEF Never, Day
<1>3. pol \in [Accounts -> PolicyRow] /\ PoliciesOK(pol, db', today, meanwhile.kinds)
  BY <1>1, <1>2, NextReviewStays
<1>4. opened \in Review
  BY <1>1, <1>2, OneItem DEF Review, PolicyRow
<1>5. Append(r.revs, opened) \in Seq(Review) /\ ReviewsOK(Append(r.revs, opened), db')
  <2>1. \A i \in 1..Len(opened.items) : opened.items[i].decision = "pending"
    BY OneItem
  <2> HIDE DEF opened
  <2>2. QED
    BY <1>1, <1>4, <2>1, ReviewJoins
<1>6. /\ OpenInactivity(r, a, now) = r
      \/ OpenInactivity(r, a, now) = [pol |-> pol, revs |-> r.revs]
      \/ OpenInactivity(r, a, now) = [pol |-> pol, revs |-> Append(r.revs, opened)]
  BY DEF OpenInactivity
<1> DEFINE more == Append(r.revs, opened)
<1>7. more \in Seq(Review) /\ ReviewsOK(more, db')
  BY <1>5
<1> HIDE DEF pol, opened, more
<1>8. [pol |-> pol, revs |-> r.revs] \in Openings(db')
  BY <1>1, <1>3 DEF Openings
<1>9. [pol |-> pol, revs |-> more] \in Openings(db')
  BY <1>3, <1>7 DEF Openings
<1>10. QED
  BY <1>6, <1>8, <1>9 DEF more

LEMMA Ordered ==
  /\ DOMAIN InOrder \in SUBSET Nat /\ IsFiniteSet(DOMAIN InOrder)
  /\ \A k \in DOMAIN InOrder : InOrder[k] \in Accounts
<1>1. /\ InOrder \in Seq(Accounts) /\ DOMAIN InOrder = 1..Len(InOrder)
      /\ Len(InOrder) \in Nat
  BY InOrderSeq, LenProperties
<1>2. QED
  BY <1>1, FS_Interval

\* The same for the fold over the accounts that opens reviews.
LEMMA OpensAll ==
  ASSUME GovernanceTypeOK, NEW base \in Openings(db'), NEW now \in 0..LastDay
  PROVE  FoldLeft(LAMBDA v, a : OpenInactivity(v, a, now), base, InOrder) \in Openings(db')
<1> DEFINE D == DOMAIN InOrder
           V == Openings(db')
           step == [x \in V \X D |-> OpenInactivity(x[1], InOrder[x[2]], now)]
           Folded(it) == it = [s \in SUBSET D |->
                           IF s = {} THEN base
                           ELSE OpenInactivity(it[s \ {Max(s)}], InOrder[Max(s)], now)]
           chosen == CHOOSE f : Folded(f)
<1>2. D \in SUBSET Nat /\ IsFiniteSet(D) /\ \A k \in D : InOrder[k] \in Accounts
  BY Ordered
<1>3. \A r \in V, k \in D : OpenInactivity(r, InOrder[k], now) \in V
  BY <1>2, OpensOne
<1>4. FoldLeft(LAMBDA v, a : OpenInactivity(v, a, now), base, InOrder) = chosen[D]
  BY DEF FoldLeft, MapThenFoldSet
<1>5. base \in V
  OBVIOUS
<1> HIDE DEF D, V
<1>6. step \in [V \X D -> V]
  BY <1>3
<1>7. \A r \in V, k \in D : step[<<r, k>>] = OpenInactivity(r, InOrder[k], now)
  OBVIOUS
<1> HIDE DEF step
<1>8. PICK it : IsFold(it, D, V, base, step)
  BY <1>2, <1>5, <1>6, FoldExists
<1>9. it \in [SUBSET D -> V] /\ \A s \in SUBSET D :
         it[s] = IF s = {} THEN base ELSE step[<<it[s \ {Max(s)}], Max(s)>>]
  BY <1>8 DEF IsFold
<1>10. ASSUME NEW s \in SUBSET D, s # {}
       PROVE  Max(s) \in D /\ s \ {Max(s)} \in SUBSET D
  BY <1>2, <1>10, MaxOf, FS_Subset
<1>11. Folded(it)
  <2>1. ASSUME NEW s \in SUBSET D
        PROVE  it[s] = IF s = {} THEN base
                       ELSE OpenInactivity(it[s \ {Max(s)}], InOrder[Max(s)], now)
    <3>1. CASE s = {}
      BY <1>9, <3>1
    <3>2. CASE s # {}
      <4> DEFINE r == it[s \ {Max(s)}]
                 k == Max(s)
      <4>1. r \in V /\ k \in D
        BY <1>9, <1>10, <3>2
      <4>2. it[s] = step[<<r, k>>]
        BY <1>9, <3>2
      <4> HIDE DEF r, k
      <4>3. step[<<r, k>>] = OpenInactivity(r, InOrder[k], now)
        BY <4>1, <1>7
      <4>4. QED
        BY <3>2, <4>2, <4>3 DEF r, k
    <3>3. QED
      BY <3>1, <3>2
  <2>2. QED
    BY <1>9, <2>1
<1>12. Folded(chosen)
  <2> HIDE DEF Folded
  <2>1. QED
    BY <1>11
<1> HIDE DEF chosen
<1>13. \A s \in SUBSET D :
         chosen[s] = IF s = {} THEN base
                     ELSE OpenInactivity(chosen[s \ {Max(s)}], InOrder[Max(s)], now)
  <2> HIDE DEF Max
  <2>1. QED
    BY <1>12
<1> HIDE DEF Folded
<1>14. chosen[{}] \in V
  BY <1>5, <1>13
<1>15. ASSUME NEW s \in SUBSET D, s # {}, chosen[s \ {Max(s)}] \in V
       PROVE  chosen[s] \in V
  <2> DEFINE r == chosen[s \ {Max(s)}]
             k == Max(s)
  <2>1. r \in V /\ k \in D
    BY <1>10, <1>15
  <2>2. chosen[s] = OpenInactivity(r, InOrder[k], now)
    BY <1>13, <1>15
  <2> HIDE DEF r, k
  <2>3. QED
    BY <2>1, <2>2, <1>3
<1>16. chosen[D] \in V
  BY <1>2, <1>14, <1>15, FoldStays
<1>17. QED
  BY <1>4, <1>16 DEF V

\* The reviewable accounts of a list are accounts.
LEMMA ReviewableTyped ==
  Reviewable(InOrder) \in Seq(Accounts)
<1> DEFINE D == DOMAIN InOrder
           V == Seq(Accounts)
           Take(chosen, a) == IF db.acct[a].exists /\ db.acct[a].desired # "delete"
                              THEN Append(chosen, a) ELSE chosen
           step == [x \in V \X D |-> Take(x[1], InOrder[x[2]])]
           Folded(it) == it = [s \in SUBSET D |->
                           IF s = {} THEN <<>>
                           ELSE Take(it[s \ {Max(s)}], InOrder[Max(s)])]
           chosen == CHOOSE f : Folded(f)
<1>2. D \in SUBSET Nat /\ IsFiniteSet(D) /\ \A k \in D : InOrder[k] \in Accounts
  BY Ordered
<1>3. \A r \in V, k \in D : Take(r, InOrder[k]) \in V
  BY <1>2, AppendProperties
<1>4. Reviewable(InOrder) = chosen[D]
  BY DEF Reviewable, FoldLeft, MapThenFoldSet
<1>5. <<>> \in V
  OBVIOUS
<1> HIDE DEF D, V, Take
<1>6. step \in [V \X D -> V]
  BY <1>3
<1>7. \A r \in V, k \in D : step[<<r, k>>] = Take(r, InOrder[k])
  OBVIOUS
<1> HIDE DEF step
<1>8. PICK it : IsFold(it, D, V, <<>>, step)
  BY <1>2, <1>5, <1>6, FoldExists
<1>9. it \in [SUBSET D -> V] /\ \A s \in SUBSET D :
         it[s] = IF s = {} THEN <<>> ELSE step[<<it[s \ {Max(s)}], Max(s)>>]
  BY <1>8 DEF IsFold
<1>10. ASSUME NEW s \in SUBSET D, s # {}
       PROVE  Max(s) \in D /\ s \ {Max(s)} \in SUBSET D
  BY <1>2, <1>10, MaxOf, FS_Subset
<1>11. Folded(it)
  <2>1. ASSUME NEW s \in SUBSET D
        PROVE  it[s] = IF s = {} THEN <<>>
                       ELSE Take(it[s \ {Max(s)}], InOrder[Max(s)])
    <3>1. CASE s = {}
      BY <1>9, <3>1
    <3>2. CASE s # {}
      <4> DEFINE r == it[s \ {Max(s)}]
                 k == Max(s)
      <4>1. r \in V /\ k \in D
        BY <1>9, <1>10, <3>2
      <4>2. it[s] = step[<<r, k>>]
        BY <1>9, <3>2
      <4> HIDE DEF r, k
      <4>3. step[<<r, k>>] = Take(r, InOrder[k])
        BY <4>1, <1>7
      <4>4. QED
        BY <3>2, <4>2, <4>3 DEF r, k
    <3>3. QED
      BY <3>1, <3>2
  <2>2. QED
    BY <1>9, <2>1
<1>12. Folded(chosen)
  <2> HIDE DEF Folded
  <2>1. QED
    BY <1>11
<1> HIDE DEF chosen
<1>13. \A s \in SUBSET D :
         chosen[s] = IF s = {} THEN <<>>
                     ELSE Take(chosen[s \ {Max(s)}], InOrder[Max(s)])
  <2> HIDE DEF Max
  <2>1. QED
    BY <1>12
<1> HIDE DEF Folded
<1>14. chosen[{}] \in V
  BY <1>5, <1>13
<1>15. ASSUME NEW s \in SUBSET D, s # {}, chosen[s \ {Max(s)}] \in V
       PROVE  chosen[s] \in V
  <2> DEFINE r == chosen[s \ {Max(s)}]
             k == Max(s)
  <2>1. r \in V /\ k \in D
    BY <1>10, <1>15
  <2>2. chosen[s] = Take(r, InOrder[k])
    BY <1>13, <1>15
  <2> HIDE DEF r, k
  <2>3. QED
    BY <2>1, <2>2, <1>3
<1>16. chosen[D] \in V
  BY <1>2, <1>14, <1>15, FoldStays
<1>17. QED
  BY <1>4, <1>16 DEF V

\* Reminders change neither the accounts nor the decisions.
LEMMA RemindTyped ==
  ASSUME NEW rev \in Review
  PROVE  /\ Remind(rev) \in Review /\ Len(Remind(rev).items) = Len(rev.items)
         /\ Len(rev.items) \in Nat
         /\ \A i \in 1..Len(rev.items) :
              /\ Remind(rev).items[i].user = rev.items[i].user
              /\ Remind(rev).items[i].decision = rev.items[i].decision
<1> DEFINE new == [i \in DOMAIN rev.items |->
             IF rev.items[i].decision = "pending" THEN [rev.items[i] EXCEPT !.reminded = TRUE]
             ELSE rev.items[i]]
<1>1. /\ rev.items \in Seq(ReviewItem) /\ Len(rev.items) \in Nat
      /\ DOMAIN rev.items = 1..Len(rev.items)
      /\ \A i \in 1..Len(rev.items) : rev.items[i] \in ReviewItem
  BY LenProperties, ElementOfSeq DEF Review
<1>2. \A i \in 1..Len(rev.items) :
        new[i] \in ReviewItem /\ new[i].user = rev.items[i].user
        /\ new[i].decision = rev.items[i].decision
  BY <1>1 DEF ReviewItem
<1>3. new \in [1..Len(rev.items) -> ReviewItem]
  BY <1>1, <1>2
<1>4. new \in Seq(ReviewItem) /\ Len(new) = Len(rev.items)
  BY <1>1, <1>3
<1>5. Remind(rev) = [rev EXCEPT !.items = new]
  BY DEF Remind
<1> HIDE DEF new
<1>6. Remind(rev) \in Review /\ Remind(rev).items = new
  BY <1>4, <1>5 DEF Review
<1>7. QED
  BY <1>1, <1>2, <1>4, <1>6

LEMMA RemindedOK ==
  ASSUME NEW revs \in Seq(Review), NEW e, ReviewsOK(revs, e)
  PROVE  Reminded(revs) \in Seq(Review) /\ ReviewsOK(Reminded(revs), e)
<1> DEFINE new == Reminded(revs)
<1>1. /\ Len(revs) \in Nat /\ DOMAIN revs = 1..Len(revs)
      /\ \A n \in 1..Len(revs) : revs[n] \in Review
  BY LenProperties, ElementOfSeq
<1>2. ASSUME NEW n \in 1..Len(revs)
      PROVE  new[n] = revs[n] \/ new[n] = Remind(revs[n])
  BY <1>1 DEF Reminded
<1>3. new \in [1..Len(revs) -> Review]
  BY <1>1, RemindTyped DEF Reminded
<1>4. new \in Seq(Review) /\ Len(new) = Len(revs)
  BY <1>1, <1>3
<1> HIDE DEF new
<1>5. ASSUME NEW n \in 1..Len(new), NEW i \in 1..Len(new[n].items),
             new[n].items[i].decision = "delete"
      PROVE  LET acc == e.acct[new[n].items[i].user]
             IN ~acc.exists \/ acc.desired = "delete"
  <2>1. n \in 1..Len(revs)
    BY <1>4
  <2>2. i \in 1..Len(revs[n].items) /\ new[n].items[i].user = revs[n].items[i].user
        /\ new[n].items[i].decision = revs[n].items[i].decision
    BY <1>1, <1>2, <2>1, RemindTyped
  <2>3. QED
    BY <1>5, <2>1, <2>2 DEF ReviewsOK
<1>6. QED
  BY <1>4, <1>5 DEF ReviewsOK, new

\* A scan's end leaves policies and reviews as they should be.
LEMMA EndsScanKeeps ==
  ASSUME GovernanceTypeOK, NEW pol \in [Accounts -> PolicyRow], NEW now \in 0..LastDay,
         PoliciesOK(pol, db', today, meanwhile.kinds), ReviewsOK(reviews, db'),
         EndsScan(pol, now), UNCHANGED <<today, saves>>, meanwhile'.kinds = meanwhile.kinds
  PROVE  GovInv'
<1> DEFINE base == [pol |-> pol, revs |-> reviews]
           r == FoldLeft(LAMBDA v, a : OpenInactivity(v, a, now), base, InOrder)
<1>1. base \in Openings(db')
  BY DEF Openings, GovernanceTypeOK
<1>2. r \in Openings(db')
  <2> HIDE DEF base
  <2>1. QED
    BY <1>1, OpensAll
<1>3. policies' = r.pol /\ reviews' = Reminded(r.revs) /\ worker' = [worker EXCEPT !.state = "asleep"]
  BY DEF EndsScan
<1> HIDE DEF r, base
<1>4. /\ r.pol \in [Accounts -> PolicyRow] /\ r.revs \in Seq(Review)
      /\ PoliciesOK(r.pol, db', today, meanwhile.kinds) /\ ReviewsOK(r.revs, db')
  BY <1>2 DEF Openings
<1>5. Reminded(r.revs) \in Seq(Review) /\ ReviewsOK(Reminded(r.revs), db')
  BY <1>4, RemindedOK
<1>6. GovernanceTypeOK'
  BY <1>3, <1>4, <1>5 DEF GovernanceTypeOK
<1>7. PoliciesOK(policies, db, today, meanwhile.kinds)' /\ ReviewsOK(reviews, db)'
  BY <1>3, <1>4, <1>5
<1>8. QED
  BY <1>6, <1>7 DEF GovInv
-----------------------------------------------------------------------------
(***************************************************************************)
(* Every step of governance keeps its invariant.                           *)
(***************************************************************************)
\* The inductive invariant of governance.
GovSafe == OpsInv /\ GovInv /\ "restore" \notin meanwhile.kinds

\* What other requests, the retry worker and the sessions do.
LEMMA OthersKeepGovernance ==
  ASSUME GovSafe, OpsInv', Stays(db, db', meanwhile.kinds), UNCHANGED governanceVars,
         meanwhile'.kinds = meanwhile.kinds
  PROVE  GovSafe'
<1>1. GovernanceTypeOK' /\ policies' = policies /\ reviews' = reviews /\ today' = today
  BY DEF GovSafe, GovInv, GovernanceTypeOK, governanceVars
<1>2. PoliciesOK(policies, db', today, meanwhile.kinds)
  BY PolicyStays DEF GovSafe, GovInv
<1>3. ReviewsOK(reviews, db')
  BY ReviewStays DEF GovSafe, GovInv, GovernanceTypeOK
<1>4. QED
  BY <1>1, <1>2, <1>3 DEF GovSafe, GovInv

LEMMA DaysKeep ==
  ASSUME GovSafe, DayPasses
  PROVE  GovSafe'
<1>1. /\ today \in 0..LastDay /\ today' = today + 1 /\ today' \in 0..LastDay
      /\ UNCHANGED <<policies, reviews, worker, saves>> /\ UNCHANGED opVars
  BY GovernanceAssumption DEF DayPasses, GovSafe, GovInv, GovernanceTypeOK
<1>2. OpsInv' /\ meanwhile' = meanwhile /\ db' = db
  BY <1>1 DEF opVars, GovSafe, OpsInv, CallsOK, SessionsOK, TodoOK, MeanwhileOK
<1>3. GovernanceTypeOK'
  BY <1>1 DEF GovSafe, GovInv, GovernanceTypeOK
<1>4. PoliciesOK(policies, db, today', meanwhile.kinds)
  <2>1. ASSUME NEW a \in Accounts, policies[a].exists
        PROVE  PolicyOK(policies[a], db.acct[a], today', meanwhile.kinds)
    <3>1. PolicyOK(policies[a], db.acct[a], today, meanwhile.kinds)
      BY <2>1 DEF GovSafe, GovInv, PoliciesOK
    <3>2. policies[a].end \in Day /\ LastDay \in Nat
      BY GovernanceAssumption DEF GovSafe, GovInv, GovernanceTypeOK, PolicyRow
    <3>3. policies[a].end <= today => policies[a].end <= today'
      BY <1>1, <3>2 DEF Day, Never
    <3>4. QED
      BY <3>1, <3>3 DEF PolicyOK
  <2>2. QED
    BY <2>1 DEF PoliciesOK
<1>5. QED
  BY <1>1, <1>2, <1>3, <1>4 DEF GovSafe, GovInv

\* A policy replaces the account's: the account is disabled now if its start
\* lies ahead.
LEMMA SavesKeep ==
  ASSUME GovSafe, NEW s \in Schedules, SavePolicy(s)
  PROVE  GovSafe'
<1> DEFINE a == s.user
           row == SavedPolicy(s)
<1>1. /\ a \in Accounts /\ s.start \in Day /\ s.end \in Day /\ s.delete \in BOOLEAN /\ s.review \in Day
      /\ LastDay \in Nat /\ today \in 0..LastDay /\ MaxSaves \in Nat
  BY GovernanceAssumption DEF GovSafe, GovInv, GovernanceTypeOK
<1>2. /\ row \in PolicyRow /\ ~row.endApplied
      /\ row.start = s.start /\ row.end = s.end
      /\ row.startApplied = ~StartsLater(s)
  BY <1>1 DEF SavedPolicy, PolicyRow, StartsLater
<1>3. policies \in [Accounts -> PolicyRow] /\ policies' = [policies EXCEPT ![a] = row]
  BY DEF SavePolicy, GovSafe, GovInv, GovernanceTypeOK
<1>4. UNCHANGED <<today, reviews, worker, sessions, todo, meanwhile>> /\ saves' \in 0..MaxSaves
      /\ Acceptable(s)
  BY <1>1 DEF SavePolicy, GovSafe, GovInv, GovernanceTypeOK
<1>5. OpsInv' /\ Stays(db, db', meanwhile.kinds)
      /\ (StartsLater(s) => ~db'.acct[a].exists \/ db'.acct[a].disabled)
  <2>1. CASE StartsLater(s) /\ ~db.acct[a].disabled
    <3> DEFINE yes == TRUE
               d == Requested("disable", a, db)
               e == [d EXCEPT !.acct[a].disabled = yes]
               new == [d.acct[a] EXCEPT !.disabled = yes]
    <3>1. db' = e /\ calls' = Joined(calls, Task(a, Len(db'.ops), "stored")) /\ ~Rejects("disable", a, db)
      BY <2>1, Zenon DEF SavePolicy
    <3>2. Sound(db)
      BY DEF GovSafe, OpsInv
    <3>3. /\ Sound(d) /\ Kept(db, d) /\ SameAccounts(db, d)
          /\ Len(d.ops) \in 1..Len(d.ops) /\ d.ops[Len(d.ops)].user = a
      BY <1>1, <3>1, <3>2, StartsOnly DEF Command
    <3>4. d.acct[a] \in AccountRow
      BY <1>1, <3>3 DEF Sound, Rows
    <3>5. yes \in BOOLEAN /\ yes
      OBVIOUS
    <3> HIDE DEF d, yes
    <3>6. Put(d, e, a, new) /\ new \in AccountRow
      BY <1>1, <3>3, <3>5, PutDisabled
    <3>7. new.exists = d.acct[a].exists /\ new.desired = d.acct[a].desired /\ new.disabled
      BY <3>4, <3>5 DEF AccountRow
    <3> HIDE DEF e, new
    <3>8. /\ Sound(e) /\ Kept(d, e) /\ e.ops = d.ops /\ e.acct[a] = new
          /\ \A b \in Accounts \ {a} : e.acct[b] = d.acct[b]
      BY <1>1, <3>6 DEF Put
    <3>9. Kept(db, e)
      BY <3>2, <3>3, <3>8, KeptTrans
    <3>10. Task(a, Len(db'.ops), "stored") \in SUBSET Call
           /\ \A c \in Task(a, Len(db'.ops), "stored") : Refers(c, db')
      BY <1>1, <3>1, <3>3, <3>8, TaskCall
    <3>11. OpsInv'
      <4>1. MeanwhileOK(meanwhile')
        BY <1>4 DEF GovSafe, OpsInv
      <4> DEFINE more == Task(a, Len(db'.ops), "stored")
      <4>2. calls' = Joined(calls, more) /\ more \in SUBSET Call /\ \A c \in more : Refers(c, db')
        BY <3>1, <3>10
      <4>3. OpsInv /\ Sound(db') /\ Kept(db, db') /\ UNCHANGED <<sessions, todo>>
        BY <1>4, <3>1, <3>8, <3>9 DEF GovSafe
      <4> HIDE DEF more
      <4>4. QED
        BY <4>1, <4>2, <4>3, HandlerKeeps
    <3>12. \A b \in Accounts : /\ db'.acct[b].exists = db.acct[b].exists
                               /\ db'.acct[b].desired = db.acct[b].desired
                               /\ b # a => db'.acct[b].disabled = db.acct[b].disabled
      BY <3>1, <3>3, <3>7, <3>8 DEF SameAccounts, SameRow
    <3>13. db'.acct[a].disabled
      BY <3>1, <3>7, <3>8
    <3>14. QED
      BY <3>11, <3>12, <3>13 DEF Stays
  <2>2. CASE ~(StartsLater(s) /\ ~db.acct[a].disabled)
    <3>1. db' = db /\ calls' = calls
      BY <2>2 DEF SavePolicy
    <3>2. OpsInv'
      BY <1>4, <3>1 DEF GovSafe, OpsInv, CallsOK, SessionsOK, TodoOK, MeanwhileOK
    <3>3. QED
      BY <2>2, <3>1, <3>2 DEF Stays
  <2>3. QED
    BY <2>1, <2>2
<1> HIDE DEF row
<1>6. \A b \in Accounts : policies'[b] = IF b = a THEN row ELSE policies[b]
  BY <1>1, <1>3
<1>7. PoliciesOK(policies', db', today, meanwhile.kinds)
  <2>1. PoliciesOK(policies, db', today, meanwhile.kinds)
    BY <1>5, PolicyStays DEF GovSafe, GovInv
  <2>2. PolicyOK(row, db'.acct[a], today, meanwhile.kinds)
    BY <1>2, <1>4, <1>5 DEF PolicyOK, Acceptable
  <2>3. QED
    BY <1>6, <2>1, <2>2 DEF PoliciesOK
<1>8. ReviewsOK(reviews, db')
  BY <1>5, ReviewStays DEF GovSafe, GovInv, GovernanceTypeOK
<1>9. GovernanceTypeOK'
  BY <1>1, <1>2, <1>3, <1>4 DEF GovSafe, GovInv, GovernanceTypeOK
<1>10. QED
  BY <1>4, <1>5, <1>7, <1>8, <1>9 DEF GovSafe, GovInv

\* A scan begins: its rows are written and its first call is made.
LEMMA ScansKeep ==
  ASSUME GovSafe, ApplyLifecycleAutomation
  PROVE  GovSafe'
<1> DEFINE w == Applied
<1>1. OpsInv /\ GovernanceTypeOK /\ PoliciesOK(policies, db, today, meanwhile.kinds)
      /\ reviews \in Seq(Review) /\ ReviewsOK(reviews, db) /\ "governance" \in Coroutines
  BY GovernanceAssumption DEF GovSafe, GovInv, GovernanceTypeOK
<1>2. w \in Scan
  BY <1>1, AppliedInScan
<1>3. /\ db' = w.d /\ Begins("governance", w.calls)
      /\ IF w.calls = <<>> THEN EndsScan(w.pol, today)
         ELSE /\ policies' = w.pol
              /\ worker' = [state |-> "applying", now |-> today]
              /\ UNCHANGED reviews
      /\ UNCHANGED <<today, saves, sessions, meanwhile>>
  BY DEF ApplyLifecycleAutomation
<1> HIDE DEF w
<1>4. /\ w.d \in Rows /\ w.pol \in [Accounts -> PolicyRow] /\ w.calls \in Seq(Call)
      /\ Sound(w.d) /\ Kept(db, w.d) /\ ListOK(w.calls, w.d)
      /\ PoliciesOK(w.pol, w.d, today, meanwhile.kinds)
  BY <1>2, ScanTyped
<1>5. \A a \in Accounts : /\ w.d.acct[a].exists => db.acct[a].exists
                          /\ db.acct[a].desired = "delete" => w.d.acct[a].desired = "delete"
  BY <1>2 DEF Scan
<1>6. MeanwhileOK(meanwhile')
  BY <1>1, <1>3 DEF OpsInv
<1> DEFINE list == w.calls
<1>7. Sound(db') /\ Kept(db, db') /\ ListOK(list, db') /\ Begins("governance", list)
  BY <1>3, <1>4
<1> HIDE DEF list
<1>8. OpsInv'
  BY <1>1, <1>3, <1>6, <1>7, BeginsKeeps
<1>9. ReviewsOK(reviews, db')
  <2>1. ASSUME NEW n \in 1..Len(reviews), NEW i \in 1..Len(reviews[n].items),
               reviews[n].items[i].decision = "delete"
        PROVE  LET acc == db'.acct[reviews[n].items[i].user]
               IN ~acc.exists \/ acc.desired = "delete"
    <3>1. reviews[n] \in Review
      BY <1>1, ElementOfSeq
    <3>2. reviews[n].items[i] \in ReviewItem
      BY <3>1, ElementOfSeq DEF Review
    <3>3. reviews[n].items[i].user \in Accounts
      BY <3>2 DEF ReviewItem
    <3>4. LET acc == db.acct[reviews[n].items[i].user]
          IN ~acc.exists \/ acc.desired = "delete"
      BY <1>1, <2>1 DEF ReviewsOK
    <3>5. QED
      BY <1>3, <1>5, <3>3, <3>4
  <2>2. QED
    BY <2>1 DEF ReviewsOK
<1>10. CASE w.calls = <<>>
  <2> DEFINE pol == w.pol
  <2>1. /\ pol \in [Accounts -> PolicyRow] /\ EndsScan(pol, today) /\ today \in 0..LastDay
        /\ PoliciesOK(pol, db', today, meanwhile.kinds) /\ meanwhile'.kinds = meanwhile.kinds
        /\ UNCHANGED <<today, saves>>
    BY <1>1, <1>3, <1>4, <1>10 DEF GovernanceTypeOK
  <2> HIDE DEF pol
  <2>2. GovInv'
    BY <1>1, <1>9, <2>1, EndsScanKeeps
  <2>3. QED
    BY <1>3, <1>8, <2>2 DEF GovSafe
<1>11. CASE w.calls # <<>>
  <2>1. GovernanceTypeOK'
    BY <1>1, <1>3, <1>4, <1>11 DEF GovernanceTypeOK
  <2>2. PoliciesOK(policies, db, today, meanwhile.kinds)' /\ ReviewsOK(reviews, db)'
    BY <1>3, <1>4, <1>9, <1>11
  <2>3. QED
    BY <1>3, <1>8, <2>1, <2>2 DEF GovSafe, GovInv
<1>12. QED
  BY <1>10, <1>11

LEMMA AppliedKeeps ==
  ASSUME GovSafe, AppliedOne
  PROVE  GovSafe'
<1>1. OpsInv /\ GovernanceTypeOK /\ "governance" \in Coroutines /\ worker.now \in 0..LastDay
  BY GovernanceAssumption DEF GovSafe, GovInv, GovernanceTypeOK
<1>2. ComesBack
  BY <1>1, ReturnsComesBack DEF AppliedOne
<1>3. CallsOK(calls', db') /\ TodoOK(todo', db')
  BY <1>1, <1>2, GoesOnKeeps DEF AppliedOne
<1>4. UNCHANGED <<today, saves, meanwhile>>
  BY DEF AppliedOne
<1>5. OpsInv'
  BY <1>1, <1>2, <1>3, <1>4 DEF OpsInv, ComesBack
<1>6. Stays(db, db', meanwhile.kinds)
  BY <1>2, SameStays DEF ComesBack
<1>7. CASE todo["governance"] = <<>>
  <2>1. EndsScan(policies, worker.now)
    BY <1>7 DEF AppliedOne
  <2>2. PoliciesOK(policies, db', today, meanwhile.kinds) /\ policies \in [Accounts -> PolicyRow]
    BY <1>6, PolicyStays DEF GovSafe, GovInv, GovernanceTypeOK
  <2>3. ReviewsOK(reviews, db')
    BY <1>6, ReviewStays DEF GovSafe, GovInv, GovernanceTypeOK
  <2> DEFINE now == worker.now
  <2>4. now \in 0..LastDay /\ EndsScan(policies, now)
    BY <1>1, <2>1
  <2>5. meanwhile'.kinds = meanwhile.kinds /\ UNCHANGED <<today, saves>>
    BY <1>4
  <2> HIDE DEF now
  <2>6. GovInv'
    BY <1>1, <2>2, <2>3, <2>4, <2>5, EndsScanKeeps
  <2>7. QED
    BY <1>4, <1>5, <2>6 DEF GovSafe
<1>8. CASE todo["governance"] # <<>>
  <2>1. UNCHANGED governanceVars /\ meanwhile'.kinds = meanwhile.kinds
    BY <1>4, <1>8 DEF AppliedOne, governanceVars
  <2>2. QED
    BY <1>5, <1>6, <2>1, OthersKeepGovernance
<1>9. QED
  BY <1>7, <1>8

LEMMA WorkerDiesKeeps ==
  ASSUME GovSafe, WorkerDies
  PROVE  GovSafe'
<1>1. OpsInv /\ GovernanceTypeOK /\ "governance" \in Coroutines
  BY GovernanceAssumption DEF GovSafe, GovInv
<1>2. ComesBack
  BY <1>1, ReturnsComesBack DEF WorkerDies
<1>3. CallsOK(calls', db') /\ TodoOK(todo', db')
  BY <1>1, <1>2, BreaksKeeps DEF WorkerDies
<1>4. UNCHANGED <<today, policies, reviews, saves, meanwhile>>
      /\ worker' = [worker EXCEPT !.state = "dead"]
  BY DEF WorkerDies
<1>5. OpsInv'
  BY <1>1, <1>2, <1>3, <1>4 DEF OpsInv, ComesBack
<1>6. Stays(db, db', meanwhile.kinds)
  BY <1>2, SameStays DEF ComesBack
<1>7. PoliciesOK(policies, db', today, meanwhile.kinds)
  BY <1>6, PolicyStays DEF GovSafe, GovInv
<1>8. ReviewsOK(reviews, db')
  BY <1>6, ReviewStays DEF GovSafe, GovInv, GovernanceTypeOK
<1>9. GovernanceTypeOK'
  BY <1>1, <1>4 DEF GovernanceTypeOK
<1>10. QED
  BY <1>4, <1>5, <1>7, <1>8, <1>9 DEF GovSafe, GovInv

\* A step that writes nothing but reviews.
LEMMA ReviewsOnly ==
  ASSUME GovSafe, UNCHANGED <<today, policies, worker, saves, db, calls, sessions, todo>>,
         MeanwhileOK(meanwhile'), meanwhile'.kinds = meanwhile.kinds,
         reviews' \in Seq(Review), ReviewsOK(reviews', db)
  PROVE  GovSafe'
<1>1. OpsInv'
  BY DEF GovSafe, OpsInv, CallsOK, SessionsOK, TodoOK
<1>2. GovernanceTypeOK'
  BY DEF GovSafe, GovInv, GovernanceTypeOK
<1>3. QED
  BY <1>1, <1>2 DEF GovSafe, GovInv

LEMMA PreviewsKeep ==
  ASSUME GovSafe, NEW due \in Nat, PreviewReview(InOrder, due)
  PROVE  GovSafe'
<1> DEFINE available == Reviewable(InOrder)
           items == [i \in DOMAIN available |-> Item(available[i])]
           rev == [source |-> "manual", date |-> Never, due |-> due, status |-> "draft",
                   items |-> items]
<1>1. /\ UNCHANGED <<today, policies, worker, saves, db, calls, sessions, todo>>
      /\ reviews' = Append(reviews, rev) /\ Asks("review") /\ due <= LastDay
  BY DEF PreviewReview
<1>2. available \in Seq(Accounts) /\ Len(available) \in Nat /\ DOMAIN available = 1..Len(available)
      /\ \A i \in 1..Len(available) : available[i] \in Accounts
  BY ReviewableTyped, LenProperties, ElementOfSeq
<1> HIDE DEF available
<1>3. \A i \in 1..Len(available) : items[i] \in ReviewItem /\ items[i].decision = "pending"
  BY <1>2, OneItem
<1>4. items \in [1..Len(available) -> ReviewItem]
  BY <1>2, OneItem
<1>5. items \in Seq(ReviewItem) /\ Len(items) = Len(available)
  BY <1>2, <1>4
<1> HIDE DEF items
<1>6. rev \in Review /\ \A i \in 1..Len(rev.items) : rev.items[i].decision = "pending"
  BY <1>1, <1>3, <1>5, GovernanceAssumption DEF Review, Never, Day
<1> HIDE DEF rev
<1>7. reviews' \in Seq(Review) /\ ReviewsOK(reviews', db)
  BY <1>1, <1>6, ReviewJoins DEF GovSafe, GovInv, GovernanceTypeOK
<1>8. MeanwhileOK(meanwhile') /\ meanwhile'.kinds = meanwhile.kinds
  BY <1>1, AsksKeeps DEF GovSafe
<1>9. QED
  BY <1>1, <1>7, <1>8, ReviewsOnly

\* One of the reviews is written.
LEMMA ReviewWritten ==
  ASSUME NEW revs \in Seq(Review), NEW n \in 1..Len(revs), NEW rev \in Review, NEW e,
         ReviewsOK(revs, e),
         \A i \in 1..Len(rev.items) :
           rev.items[i].decision = "delete" =>
             LET acc == e.acct[rev.items[i].user]
             IN ~acc.exists \/ acc.desired = "delete"
  PROVE  LET new == [revs EXCEPT ![n] = rev]
         IN new \in Seq(Review) /\ ReviewsOK(new, e)
<1> DEFINE new == [revs EXCEPT ![n] = rev]
<1>1. /\ new \in Seq(Review) /\ Len(new) = Len(revs)
      /\ \A k \in 1..Len(revs) : new[k] = IF k = n THEN rev ELSE revs[k]
  BY ExceptSeq
<1> HIDE DEF new
<1>2. ASSUME NEW k \in 1..Len(new), NEW i \in 1..Len(new[k].items),
             new[k].items[i].decision = "delete"
      PROVE  LET acc == e.acct[new[k].items[i].user]
             IN ~acc.exists \/ acc.desired = "delete"
  <2>1. CASE k = n
    BY <1>1, <1>2, <2>1
  <2>2. CASE k # n
    BY <1>1, <1>2, <2>2 DEF ReviewsOK
  <2>3. QED
    BY <2>1, <2>2
<1>3. QED
  BY <1>1, <1>2 DEF ReviewsOK, new

LEMMA OpensKeep ==
  ASSUME GovSafe, NEW n \in 1..Len(reviews), OpenReview(n)
  PROVE  GovSafe'
<1> DEFINE rev == [reviews[n] EXCEPT !.status = "open"]
<1>1. reviews \in Seq(Review) /\ reviews[n] \in Review /\ ReviewsOK(reviews, db)
  BY ElementOfSeq DEF GovSafe, GovInv, GovernanceTypeOK
<1>2. rev \in Review /\ rev.items = reviews[n].items
  BY <1>1 DEF Review
<1>3. reviews' = [reviews EXCEPT ![n] = rev]
  BY DEF OpenReview
<1> HIDE DEF rev
<1>4. \A i \in 1..Len(rev.items) :
        rev.items[i].decision = "delete" =>
          LET acc == db.acct[rev.items[i].user]
          IN ~acc.exists \/ acc.desired = "delete"
  BY <1>1, <1>2 DEF ReviewsOK
<1>5. reviews' \in Seq(Review) /\ ReviewsOK(reviews', db)
  BY <1>1, <1>2, <1>3, <1>4, ReviewWritten
<1>6. MeanwhileOK(meanwhile') /\ meanwhile'.kinds = meanwhile.kinds
      /\ UNCHANGED <<today, policies, worker, saves, db, calls, sessions, todo>>
  BY DEF OpenReview, opVars, GovSafe, OpsInv
<1>7. QED
  BY <1>5, <1>6, ReviewsOnly

LEMMA RemindsKeep ==
  ASSUME GovSafe, NEW n \in 1..Len(reviews), RemindReview(n)
  PROVE  GovSafe'
<1> DEFINE rev == Remind(reviews[n])
<1>1. reviews \in Seq(Review) /\ reviews[n] \in Review /\ ReviewsOK(reviews, db)
  BY ElementOfSeq DEF GovSafe, GovInv, GovernanceTypeOK
<1>2. /\ rev \in Review /\ Len(rev.items) = Len(reviews[n].items)
      /\ \A i \in 1..Len(reviews[n].items) :
           /\ rev.items[i].user = reviews[n].items[i].user
           /\ rev.items[i].decision = reviews[n].items[i].decision
  BY <1>1, RemindTyped
<1>3. reviews' = [reviews EXCEPT ![n] = rev]
  BY DEF RemindReview
<1> HIDE DEF rev
<1>4. \A i \in 1..Len(rev.items) :
        rev.items[i].decision = "delete" =>
          LET acc == db.acct[rev.items[i].user]
          IN ~acc.exists \/ acc.desired = "delete"
  BY <1>1, <1>2 DEF ReviewsOK
<1>5. reviews' \in Seq(Review) /\ ReviewsOK(reviews', db)
  BY <1>1, <1>2, <1>3, <1>4, ReviewWritten
<1>6. MeanwhileOK(meanwhile') /\ meanwhile'.kinds = meanwhile.kinds
      /\ UNCHANGED <<today, policies, worker, saves, db, calls, sessions, todo>>
  BY DEF RemindReview, opVars, GovSafe, OpsInv
<1>7. QED
  BY <1>5, <1>6, ReviewsOnly

LEMMA DecidedTyped ==
  ASSUME NEW rev \in Review, NEW i \in 1..Len(rev.items), NEW decision \in Decision
  PROVE  LET new == DecidedReview(rev, i, decision)
         IN /\ new \in Review /\ Len(new.items) = Len(rev.items) /\ Len(rev.items) \in Nat
            /\ \A k \in 1..Len(rev.items) :
                 /\ rev.items[k].user \in Accounts
                 /\ new.items[k].user = rev.items[k].user
                 /\ new.items[k].decision = IF k = i THEN decision ELSE rev.items[k].decision
<1> DEFINE new == DecidedReview(rev, i, decision)
           item == [rev.items[i] EXCEPT !.decision = decision]
           items == [rev.items EXCEPT ![i] = item]
           last == \A j \in DOMAIN rev.items \ {i} : rev.items[j].decision # "pending"
           status == IF last THEN "completed" ELSE rev.status
<1>1. /\ rev.items \in Seq(ReviewItem) /\ Len(rev.items) \in Nat
      /\ \A k \in 1..Len(rev.items) : rev.items[k] \in ReviewItem
  BY LenProperties, ElementOfSeq DEF Review
<1>2. item \in ReviewItem /\ item.user = rev.items[i].user /\ item.decision = decision
  BY <1>1 DEF ReviewItem
<1>3. items = [rev.items EXCEPT ![i].decision = decision]
  OBVIOUS
<1>4. status \in {"draft", "open", "completed"}
  BY DEF Review
<1>5. new = [rev EXCEPT !.items = items, !.status = status]
  BY <1>3 DEF DecidedReview
<1> HIDE DEF item, status, new
<1>6. /\ items \in Seq(ReviewItem) /\ Len(items) = Len(rev.items)
      /\ \A k \in 1..Len(rev.items) : items[k] = IF k = i THEN item ELSE rev.items[k]
  BY <1>1, <1>2, ExceptSeq
<1> HIDE DEF items
<1>7. new \in Review /\ new.items = items
  BY <1>4, <1>5, <1>6 DEF Review
<1>8. \A k \in 1..Len(rev.items) : rev.items[k].user \in Accounts
  BY <1>1 DEF ReviewItem
<1>9. QED
  BY <1>1, <1>2, <1>6, <1>7, <1>8 DEF new

\* The rows after a decision, and the call it queues.
LEMMA DecisionRows ==
  ASSUME OpsInv, NEW a \in Accounts, NEW decision \in {"disable", "delete"},
         ~Rejects(decision, a, db),
         UNCHANGED <<sessions, todo, meanwhile>>,
         db' = IF decision = "delete"
               THEN [Requested(decision, a, db) EXCEPT !.acct[a].desired = "delete",
                                                       !.acct[a].deleted = FALSE]
               ELSE [Requested(decision, a, db) EXCEPT !.acct[a].disabled = TRUE],
         calls' = Joined(calls, Task(a, Requested(decision, a, db).acct[a].active,
                                     IF decision = "delete" THEN "delete" ELSE "stored"))
  PROVE  /\ OpsInv' /\ Stays(db, db', meanwhile.kinds)
         /\ decision = "delete" => db'.acct[a].desired = "delete"
<1> DEFINE d == Requested(decision, a, db)
           action == IF decision = "delete" THEN "delete" ELSE "stored"
           more == Task(a, d.acct[a].active, action)
<1>1. Sound(db) /\ MeanwhileOK(meanwhile')
  BY DEF OpsInv
<1>2. /\ Sound(d) /\ Kept(db, d) /\ SameAccounts(db, d)
      /\ d.acct[a].active \in 1..Len(d.ops) /\ d.ops[d.acct[a].active].user = a
  <2>1. CASE decision = "delete"
    BY <1>1, <2>1, DeletesOn
  <2>2. CASE decision = "disable"
    BY <1>1, <2>2, StartsOnly DEF Command
  <2>3. QED
    BY <2>1, <2>2
<1>3. d.acct[a] \in AccountRow
  BY <1>2 DEF Sound, Rows
<1>4. calls' = Joined(calls, more) /\ action \in Desired \cup {"stored"}
  BY DEF Desired
<1>5. /\ Sound(db') /\ Kept(d, db') /\ db'.ops = d.ops
      /\ \A b \in Accounts : b # a => db'.acct[b] = d.acct[b]
      /\ db'.acct[a].exists = d.acct[a].exists
      /\ d.acct[a].desired = "delete" \/ decision = "delete" => db'.acct[a].desired = "delete"
      /\ d.acct[a].disabled => db'.acct[a].disabled
  <2>1. CASE decision = "delete"
    <3> DEFINE dl == "delete"
               e == [d EXCEPT !.acct[a].desired = dl, !.acct[a].deleted = FALSE]
               row == [d.acct[a] EXCEPT !.desired = dl, !.deleted = FALSE]
    <3>1. db' = e
      BY <2>1
    <3>2. dl \in Desired /\ dl = "delete"
      BY DEF Desired
    <3> HIDE DEF d, dl
    <3>3. Put(d, e, a, row) /\ row \in AccountRow
      BY <1>2, <3>2, PutDesired
    <3>4. row.exists = d.acct[a].exists /\ row.desired = "delete" /\ row.disabled = d.acct[a].disabled
      BY <1>3, <3>2 DEF AccountRow
    <3> HIDE DEF e, row
    <3>5. QED
      BY <3>1, <3>3, <3>4 DEF Put
  <2>2. CASE decision = "disable"
    <3> DEFINE yes == TRUE
               e == [d EXCEPT !.acct[a].disabled = yes]
               row == [d.acct[a] EXCEPT !.disabled = yes]
    <3>1. db' = e
      BY <2>2
    <3>2. yes \in BOOLEAN /\ yes
      OBVIOUS
    <3> HIDE DEF d, yes
    <3>3. Put(d, e, a, row) /\ row \in AccountRow
      BY <1>2, <3>2, PutDisabled
    <3>4. row.exists = d.acct[a].exists /\ row.desired = d.acct[a].desired /\ row.disabled
      BY <1>3, <3>2 DEF AccountRow
    <3> HIDE DEF e, row
    <3>5. QED
      BY <2>2, <3>1, <3>3, <3>4 DEF Put
  <2>3. QED
    BY <2>1, <2>2
<1> HIDE DEF d, action
<1>6. Kept(db, db')
  BY <1>1, <1>2, <1>5, KeptTrans
<1>7. more \in SUBSET Call /\ \A c \in more : Refers(c, db')
  BY <1>2, <1>4, <1>5, TaskCall DEF Refers
<1> HIDE DEF more
<1>8. OpsInv'
  BY <1>1, <1>4, <1>5, <1>6, <1>7, HandlerKeeps
<1>9. Stays(db, db', meanwhile.kinds)
  BY <1>2, <1>5 DEF Stays, SameAccounts, SameRow
<1>10. QED
  BY <1>5, <1>8, <1>9

LEMMA DecidesKeep ==
  ASSUME GovSafe, NEW n \in 1..Len(reviews), NEW i \in 1..Len(reviews[n].items),
         NEW decision \in Decision \ {"pending"}, Decide(n, i, decision)
  PROVE  GovSafe'
<1> DEFINE a == reviews[n].items[i].user
           rev == DecidedReview(reviews[n], i, decision)
           day == IF decision = "retain" /\ policies[a].exists /\ today + 1 <= LastDay
                  THEN today + 1 ELSE Never
<1>1. /\ reviews \in Seq(Review) /\ reviews[n] \in Review /\ ReviewsOK(reviews, db) /\ OpsInv
      /\ policies \in [Accounts -> PolicyRow] /\ today \in 0..LastDay /\ LastDay \in Nat
      /\ PoliciesOK(policies, db, today, meanwhile.kinds) /\ "restore" \notin meanwhile.kinds
  BY ElementOfSeq, GovernanceAssumption DEF GovSafe, GovInv, GovernanceTypeOK
<1>2. /\ rev \in Review /\ Len(rev.items) = Len(reviews[n].items) /\ a \in Accounts
      /\ \A k \in 1..Len(reviews[n].items) :
           /\ rev.items[k].user = reviews[n].items[k].user
           /\ rev.items[k].decision = IF k = i THEN decision ELSE reviews[n].items[k].decision
           /\ reviews[n].items[k].user \in Accounts
  BY <1>1, DecidedTyped
<1>3. day \in Day
  BY <1>1 DEF Day, Never
<1>4. /\ reviews' = [reviews EXCEPT ![n] = rev] /\ policies' = [policies EXCEPT ![a].nextReview = day]
      /\ UNCHANGED <<today, worker, saves, sessions, todo, meanwhile>>
  BY DEF Decide
<1> HIDE DEF rev, day
<1>5. /\ OpsInv' /\ Stays(db, db', meanwhile.kinds)
      /\ decision = "delete" => ~db'.acct[a].exists \/ db'.acct[a].desired = "delete"
  <2>1. CASE DecisionActs(a, decision)
    <3>1. decision \in {"disable", "delete"} /\ ~Rejects(decision, a, db)
      BY <2>1 DEF DecisionActs, Decide
    <3>2. /\ db' = IF decision = "delete"
                   THEN [Requested(decision, a, db) EXCEPT !.acct[a].desired = "delete",
                                                           !.acct[a].deleted = FALSE]
                   ELSE [Requested(decision, a, db) EXCEPT !.acct[a].disabled = TRUE]
          /\ calls' = Joined(calls, Task(a, Requested(decision, a, db).acct[a].active,
                                         IF decision = "delete" THEN "delete" ELSE "stored"))
      BY <2>1 DEF Decide
    <3> HIDE DEF a
    <3>3. QED
      BY <1>1, <1>2, <1>4, <3>1, <3>2, DecisionRows
  <2>2. CASE ~DecisionActs(a, decision)
    <3>1. UNCHANGED <<db, calls>>
      BY <2>2 DEF Decide
    <3>2. OpsInv'
      BY <1>1, <1>4, <3>1 DEF OpsInv, CallsOK, SessionsOK, TodoOK, MeanwhileOK
    <3>3. QED
      BY <2>2, <3>1, <3>2 DEF Stays, DecisionActs
  <2>3. QED
    BY <2>1, <2>2
<1>6. ReviewsOK(reviews, db') /\ PoliciesOK(policies, db', today, meanwhile.kinds)
  BY <1>1, <1>5, ReviewStays, PolicyStays
<1>7. policies' \in [Accounts -> PolicyRow] /\ PoliciesOK(policies', db', today, meanwhile.kinds)
  <2> HIDE DEF a
  <2>1. QED
    BY <1>1, <1>2, <1>3, <1>4, <1>6, NextReviewStays
<1>8. \A k \in 1..Len(rev.items) :
        rev.items[k].decision = "delete" =>
          LET acc == db'.acct[rev.items[k].user]
          IN ~acc.exists \/ acc.desired = "delete"
  <2>1. \A k \in 1..Len(reviews[n].items) :
          reviews[n].items[k].decision = "delete" =>
            LET acc == db'.acct[reviews[n].items[k].user]
            IN ~acc.exists \/ acc.desired = "delete"
    BY <1>6 DEF ReviewsOK
  <2>2. i \in 1..Len(rev.items) /\ rev.items[i].user = a /\ rev.items[i].decision = decision
    BY <1>2
  <2>3. \A k \in 1..Len(rev.items) : k # i =>
          /\ rev.items[k].user = reviews[n].items[k].user
          /\ rev.items[k].decision = reviews[n].items[k].decision
    BY <1>2
  <2> HIDE DEF a
  <2>4. QED
    BY <1>2, <1>5, <2>1, <2>2, <2>3
<1>9. reviews' \in Seq(Review) /\ ReviewsOK(reviews', db')
  BY <1>1, <1>2, <1>4, <1>6, <1>8, ReviewWritten
<1>10. GovernanceTypeOK'
  BY <1>4, <1>7, <1>9 DEF GovSafe, GovInv, GovernanceTypeOK
<1>11. QED
  BY <1>1, <1>4, <1>5, <1>7, <1>9, <1>10 DEF GovSafe, GovInv

LEMMA GovernanceKeeps ==
  ASSUME GovSafe, GovernanceNext
  PROVE  GovSafe'
<1>1. /\ DOMAIN reviews = 1..Len(reviews) /\ today + 1 \in Nat
      /\ \A n \in 1..Len(reviews) : DOMAIN reviews[n].items = 1..Len(reviews[n].items)
  <2>1. reviews \in Seq(Review) /\ today \in 0..LastDay /\ LastDay \in Nat
    BY GovernanceAssumption DEF GovSafe, GovInv, GovernanceTypeOK
  <2>2. \A n \in 1..Len(reviews) : reviews[n].items \in Seq(ReviewItem)
    <3>1. \A n \in 1..Len(reviews) : reviews[n] \in Review
      BY <2>1, ElementOfSeq
    <3>2. QED
      BY <3>1 DEF Review
  <2>3. QED
    BY <2>1, <2>2, LenProperties
<1>2. CASE DayPasses
  BY <1>2, DaysKeep
<1>3. CASE \E s \in Schedules : SavePolicy(s)
  BY <1>3, SavesKeep
<1>4. CASE WorkerStep
  BY <1>4, ScansKeep, AppliedKeeps, WorkerDiesKeeps DEF WorkerStep
<1>5. CASE ReviewNext
  <2> DEFINE due == today + 1
  <2>1. due \in Nat
    BY <1>1
  <2>2. CASE PreviewReview(InOrder, due)
    <3> HIDE DEF due
    <3>1. QED
      BY <2>1, <2>2, PreviewsKeep
  <2>3. CASE \E n \in DOMAIN reviews : OpenReview(n) \/ RemindReview(n)
    BY <1>1, <2>3, OpensKeep, RemindsKeep
  <2>4. CASE \E n \in DOMAIN reviews : \E i \in DOMAIN reviews[n].items :
               \E decision \in Decision \ {"pending"} : Decide(n, i, decision)
    BY <1>1, <2>4, DecidesKeep
  <2>5. QED
    BY <1>5, <2>2, <2>3, <2>4 DEF ReviewNext
<1>6. QED
  BY <1>2, <1>3, <1>4, <1>5 DEF GovernanceNext

LEMMA RestartKeepsGovernance ==
  ASSUME GovSafe, OperationsLost, GovernanceLost
  PROVE  GovSafe'
<1>1. OpsInv' /\ db' = db
  BY LostKeeps DEF GovSafe
<1>2. /\ UNCHANGED <<today, policies, reviews, saves>> /\ worker' = [worker EXCEPT !.state = "asleep"]
      /\ meanwhile \in [kinds : SUBSET ({"crashed"} \cup UNION Disturbances), left : 0..MaxRequests]
      /\ meanwhile' = [meanwhile EXCEPT !.kinds = (@ \ {"crash"}) \cup {"crashed"}]
  BY DEF GovernanceLost, OperationsLost, GovSafe, OpsInv, MeanwhileOK
<1>3. meanwhile'.kinds = (meanwhile.kinds \ {"crash"}) \cup {"crashed"}
  BY <1>2
<1>4. GovernanceTypeOK'
  BY <1>2 DEF GovSafe, GovInv, GovernanceTypeOK
<1>5. ("enable" \in meanwhile'.kinds <=> "enable" \in meanwhile.kinds) /\ "restore" \notin meanwhile'.kinds
  BY <1>3 DEF GovSafe
<1>6. PoliciesOK(policies, db, today, meanwhile'.kinds)
  BY <1>5 DEF GovSafe, GovInv, PoliciesOK, PolicyOK
<1>7. QED
  BY <1>1, <1>2, <1>4, <1>5, <1>6 DEF GovSafe, GovInv
-----------------------------------------------------------------------------
(***************************************************************************)
(* The theorems about governance.                                          *)
(***************************************************************************)
LEMMA OperationsStart ==
  ASSUME OperationsInit
  PROVE  OpsInv /\ \A a \in Accounts : db.acct[a].desired = "ensure"
<1>1. PICK existing \in Populations :
        db = [acct |-> [a \in Accounts |-> IF a \in existing THEN FreshAccount ELSE NoAccount],
              ops |-> <<>>]
  BY DEF OperationsInit
<1>2. FreshAccount \in AccountRow /\ NoAccount \in AccountRow
      /\ FreshAccount.active = 0 /\ NoAccount.active = 0
      /\ FreshAccount.desired = "ensure" /\ NoAccount.desired = "ensure"
  BY DEF FreshAccount, NoAccount, AccountRow, Desired, NoOp
<1>3. db \in Rows /\ \A a \in Accounts : db.acct[a].active = 0 /\ db.acct[a].desired = "ensure"
  BY <1>1, <1>2 DEF Rows
<1>4. Sound(db)
  <2>1. Len(db.ops) \in Nat
    BY <1>3 DEF Rows
  <2>2. QED
    BY <1>3, <2>1 DEF Sound, Pointed
<1>5. CallsOK(calls, db)
  BY DEF OperationsInit, CallsOK
<1>6. SessionsOK(sessions, db)
  BY DEF OperationsInit, SessionsOK
<1>7. TodoOK(todo, db)
  BY DEF OperationsInit, TodoOK, ListOK
<1>8. MeanwhileOK(meanwhile)
  <2>1. PICK kinds \in Disturbances : meanwhile = [kinds |-> kinds, left |-> MaxRequests]
    BY DEF OperationsInit
  <2>2. kinds \in SUBSET ({"crashed"} \cup UNION Disturbances)
    OBVIOUS
  <2>3. QED
    BY <2>1, <2>2, AccountAssumption DEF MeanwhileOK
<1>9. QED
  BY <1>3, <1>4, <1>5, <1>6, <1>7, <1>8 DEF OpsInv

LEMMA GovernanceStarts ==
  ASSUME OpsInv, GovernanceInit, "restore" \notin meanwhile.kinds
  PROVE  GovSafe
<1>1. NoPolicy \in PolicyRow /\ ~NoPolicy.exists /\ 0 \in 0..LastDay /\ 0 \in 0..MaxSaves
  BY GovernanceAssumption DEF NoPolicy, PolicyRow, Day, Never
<1>2. GovernanceTypeOK
  BY <1>1 DEF GovernanceInit, GovernanceTypeOK
<1>3. PoliciesOK(policies, db, today, meanwhile.kinds)
  BY <1>1 DEF GovernanceInit, PoliciesOK
<1>4. ReviewsOK(reviews, db)
  BY DEF GovernanceInit, ReviewsOK
<1>5. QED
  BY <1>2, <1>3, <1>4 DEF GovSafe, GovInv

\* The other workflows leave governance as it starts.
Ungoverned == policies = [a \in Accounts |-> NoPolicy] /\ reviews = <<>>

GovernedInv == IF explored = "governance" THEN GovSafe ELSE Ungoverned

LEMMA GovernedStep ==
  GovernedInv /\ [WorkflowsNext]_allVars => GovernedInv'
<1> SUFFICES ASSUME GovernedInv, [WorkflowsNext]_allVars
             PROVE  GovernedInv'
  OBVIOUS
<1>1. CASE UNCHANGED allVars
  <2>1. UNCHANGED <<opVars, governanceVars, explored>>
    BY <1>1 DEF allVars
  <2>2. OpsInv => OpsInv'
    BY <2>1 DEF opVars, OpsInv, CallsOK, SessionsOK, TodoOK, MeanwhileOK
  <2>3. OpsInv => Stays(db, db', meanwhile.kinds)
    BY <2>1 DEF opVars, Stays
  <2>4. meanwhile'.kinds = meanwhile.kinds
    BY <2>1 DEF opVars
  <2>5. GovSafe => GovSafe'
    BY <2>1, <2>2, <2>3, <2>4, OthersKeepGovernance DEF GovSafe
  <2>6. Ungoverned => Ungoverned'
    BY <2>1 DEF governanceVars, Ungoverned
  <2>7. QED
    BY <2>1, <2>5, <2>6 DEF GovernedInv
<1>2. CASE Bulk /\ UNCHANGED explored
  BY <1>2 DEF Bulk, GovernedInv, Ungoverned, governanceVars
<1>3. CASE Reconcile /\ UNCHANGED explored
  BY <1>3 DEF Reconcile, GovernedInv, Ungoverned, governanceVars
<1>4. CASE Govern /\ UNCHANGED explored
  <2>1. GovSafe /\ explored' = "governance"
    BY <1>4 DEF Govern, GovernedInv
  <2>2. CASE GovernanceNext
    BY <2>1, <2>2, GovernanceKeeps DEF GovernedInv
  <2>3. CASE OperationsNext /\ UNCHANGED governanceVars
    BY <2>1, <2>3, OperationsKeep, OthersKeepGovernance DEF GovernedInv, GovSafe
  <2>4. CASE OperationsLost /\ GovernanceLost
    BY <2>1, <2>4, RestartKeepsGovernance DEF GovernedInv
  <2>5. QED
    BY <1>4, <2>2, <2>3, <2>4 DEF Govern
<1>5. QED
  BY <1>1, <1>2, <1>3, <1>4 DEF WorkflowsNext

LEMMA GovernedStart ==
  ASSUME NEW starts, WorkflowsInit(starts)
  PROVE  GovernedInv
<1>1. OperationsInit /\ GovernanceInit /\ meanwhile.kinds \in Mixes[explored]
  BY DEF WorkflowsInit
<1>2. OpsInv
  BY <1>1, OperationsStart
<1>3. CASE explored = "governance"
  <2>1. "restore" \notin meanwhile.kinds
    BY <1>1, <1>3 DEF Mixes
  <2>2. QED
    BY <1>1, <1>2, <1>3, <2>1, GovernanceStarts DEF GovernedInv
<1>4. CASE explored # "governance"
  BY <1>1, <1>4 DEF GovernedInv, Ungoverned, GovernanceInit
<1>5. QED
  BY <1>3, <1>4

\* For any accounts, policies and requests, the rows, calls, policies and reviews of
\* the governance workflow fit together; the others touch no policy.
THEOREM Governed == WorkflowsSpec => []GovernedInv
<1>1. WorkflowsInit({"bulk", "governance", "reconciliation", "removal", "comparison"})
        => GovernedInv
  BY GovernedStart
<1>2. QED
  BY <1>1, GovernedStep, PTL DEF WorkflowsSpec

\* For any accounts and days, an account that exists and is not being deleted is off
\* before its policy starts and once it has ended, unless administrators enable it.
THEOREM PoliciesHold == WorkflowsSpec => []PolicyHolds
<1>1. GovernedInv => PolicyHolds
  <2>1. GovSafe => PolicyHolds
    <3>1. GovSafe => NotStartedIsOff
      BY DEF GovSafe, GovInv, PoliciesOK, PolicyOK, NotStartedIsOff
    <3>2. GovSafe => EndedIsOff
      BY DEF GovSafe, GovInv, PoliciesOK, PolicyOK, EndedIsOff
    <3>3. QED
      BY <3>1, <3>2 DEF PolicyHolds
  <2>2. Ungoverned => PolicyHolds
    BY DEF Ungoverned, NoPolicy, PolicyHolds, NotStartedIsOff, EndedIsOff
  <2>3. QED
    BY <2>1, <2>2 DEF GovernedInv
<1>2. QED
  BY <1>1, Governed, PTL

\* For any accounts and reviews, a decision to delete that counts as made is of an
\* account that is gone or being deleted; no request beside it restores accounts.
THEOREM DecisionsHold == WorkflowsSpec => []DeleteDecisionHolds
<1>1. GovernedInv => DeleteDecisionHolds
  <2>1. ASSUME GovSafe
        PROVE  DeleteDecisionHolds
    <3>1. reviews \in Seq(Review) /\ ReviewsOK(reviews, db)
      BY <2>1 DEF GovSafe, GovInv, GovernanceTypeOK
    <3>2. \A n \in 1..Len(reviews) : reviews[n] \in Review
      BY <3>1, ElementOfSeq
    <3>3. DOMAIN reviews = 1..Len(reviews)
          /\ \A n \in 1..Len(reviews) : DOMAIN reviews[n].items = 1..Len(reviews[n].items)
      BY <3>1, <3>2, LenProperties DEF Review
    <3>4. QED
      BY <3>1, <3>3 DEF ReviewsOK, DeleteDecisionHolds
  <2>2. Ungoverned => DeleteDecisionHolds
    BY DEF Ungoverned, DeleteDecisionHolds
  <2>3. QED
    BY <2>1, <2>2 DEF GovernedInv
<1>2. QED
  BY <1>1, Governed, PTL
-----------------------------------------------------------------------------
(***************************************************************************)
(* What a comparison reports, field by field.                              *)
(***************************************************************************)
\* What a report says of one field, by what was read of it.
Drifts(u, caps, s, f) ==
  IF f = "identity"
  THEN IF u.absent THEN s.present = {TRUE}
       ELSE s.present = {FALSE} \/ s.username = {"other"}
  ELSE /\ f \in caps.reads /\ ~u.absent /\ s.present = {TRUE}
       /\ IF f = "memberships"
          THEN \E m \in s.memberships :
                 ~(u.memberships \subseteq m) \/ (caps.exact /\ m # u.memberships)
          ELSE IF f = "public_key" THEN \E k \in s.keys : k # u.keys
          ELSE s.scalar[f] = {"other"}

Unread(u, caps, s, f) ==
  IF f = "identity" THEN s.present = {} \/ (~u.absent /\ s.present = {TRUE} /\ s.username = {})
  ELSE /\ f \in caps.reads /\ ~u.absent
       /\ \/ s.present # {TRUE}
          \/ IF f = "memberships" THEN s.memberships = {}
             ELSE IF f = "public_key" THEN s.keys = {} ELSE s.scalar[f] = {}

Says(u, caps, s, f) ==
  /\ FieldState(u, caps, s, f) = "drift" <=> Drifts(u, caps, s, f)
  /\ FieldState(u, caps, s, f) = "unknown" <=> Unread(u, caps, s, f)

LEMMA ReadOnce ==
  ASSUME NEW S, NEW seen \in Read(S)
  PROVE  seen = {} \/ \E x \in S : seen = {x}
BY DEF Read

LEMMA PresentOnce ==
  ASSUME NEW s \in Snapshot
  PROVE  /\ s.present = {} \/ s.present = {TRUE} \/ s.present = {FALSE}
         /\ s.present = {} => s.present # {TRUE} /\ s.present # {FALSE}
         /\ s.present = {TRUE} => s.present # {FALSE}
         /\ s.present # {TRUE} =>
              /\ s.username = {} /\ s.memberships = {} /\ s.keys = {}
              /\ \A f \in ScalarField : s.scalar[f] = {}
<1>1. s.present \in Read(BOOLEAN)
  BY DEF Snapshot
<1>2. s.present = {} \/ s.present = {TRUE} \/ s.present = {FALSE}
  <2>1. CASE s.present = {}
    BY <2>1
  <2>2. CASE \E x \in BOOLEAN : s.present = {x}
    <3>1. PICK x \in BOOLEAN : s.present = {x}
      BY <2>2
    <3>2. x = TRUE \/ x = FALSE
      OBVIOUS
    <3>3. QED
      BY <3>1, <3>2, Zenon
  <2>3. QED
    BY <1>1, <2>1, <2>2 DEF Read
<1>3. TRUE \notin {} /\ FALSE \notin {TRUE}
  BY Zenon
<1>4. QED
  BY <1>2, <1>3 DEF Snapshot

LEMMA IdentitySays ==
  ASSUME NEW u \in Wanted, NEW caps \in Capabilities, NEW s \in Snapshot
  PROVE  Says(u, caps, s, "identity")
<1>1. s.username \in Read({"same", "other"})
  BY DEF Snapshot
<1>2. s.username = {} \/ s.username = {"same"} \/ s.username = {"other"}
  BY <1>1, ReadOnce
<1>3. {"same"} # {"other"} /\ {"same"} # {} /\ {"other"} # {}
  BY Zenon
<1>4. IdentityState(u, s) = FieldState(u, caps, s, "identity")
  BY DEF FieldState
<1> DEFINE t == s.present = {TRUE}
           n == s.present = {FALSE}
           e == s.present = {}
<1>5. (e \/ t \/ n) /\ (e => ~t /\ ~n) /\ (t => ~n) /\ (~t => s.username = {})
  BY PresentOnce
<1>6. IdentityState(u, s) =
        IF e THEN "unknown"
        ELSE IF u.absent THEN MatchIf(n)
        ELSE IF n THEN "drift"
        ELSE IF s.username = {} THEN "unknown"
        ELSE MatchIf(s.username = {"same"})
  BY DEF IdentityState
<1>7. /\ Drifts(u, caps, s, "identity") <=>
           IF u.absent THEN t ELSE n \/ s.username = {"other"}
      /\ Unread(u, caps, s, "identity") <=> e \/ (~u.absent /\ t /\ s.username = {})
  BY DEF Drifts, Unread
<1> HIDE DEF t, n, e
<1>8. QED
  BY <1>2, <1>3, <1>4, <1>5, <1>6, <1>7 DEF Says, MatchIf

\* The other fields, by the value that was read.
LEMMA VerdictSays ==
  ASSUME NEW s \in Snapshot, NEW seen, NEW same \in BOOLEAN
  PROVE  /\ Verdict(s, seen, MatchIf(same)) = "drift"
              <=> s.present = {TRUE} /\ seen # {} /\ ~same
         /\ Verdict(s, seen, MatchIf(same)) = "unknown"
              <=> s.present # {TRUE} \/ seen = {}
BY DEF Verdict, MatchIf

LEMMA FieldSays ==
  ASSUME NEW u \in Wanted, NEW caps \in Capabilities, NEW s \in Snapshot,
         NEW f \in Field \ {"identity"}
  PROVE  Says(u, caps, s, f)
<1>1. CASE f \notin caps.reads \/ u.absent
  BY <1>1 DEF Says, FieldState, Drifts, Unread
<1>2. CASE f \in caps.reads /\ ~u.absent /\ f = "memberships"
  <2> DEFINE same == IF caps.exact THEN s.memberships = {u.memberships}
                     ELSE \A m \in s.memberships : u.memberships \subseteq m
  <2>1. FieldState(u, caps, s, f) = Verdict(s, s.memberships, MatchIf(same))
    BY <1>2 DEF FieldState, MembershipsState
  <2>2. s.memberships = {} \/ \E m : s.memberships = {m}
    <3>1. s.memberships \in Read(SUBSET Memberships)
      BY DEF Snapshot
    <3>2. QED
      BY <3>1, ReadOnce
  <2>3. s.memberships # {} =>
          (~same <=> \E m \in s.memberships :
                       ~(u.memberships \subseteq m) \/ (caps.exact /\ m # u.memberships))
    BY <2>2
  <2>4. same \in BOOLEAN
    BY DEF Capabilities
  <2>5. /\ Drifts(u, caps, s, f) <=>
             /\ s.present = {TRUE}
             /\ \E m \in s.memberships :
                  ~(u.memberships \subseteq m) \/ (caps.exact /\ m # u.memberships)
        /\ Unread(u, caps, s, f) <=> s.present # {TRUE} \/ s.memberships = {}
    BY <1>2 DEF Drifts, Unread
  <2> HIDE DEF same
  <2>6. QED
    BY <2>1, <2>3, <2>4, <2>5, VerdictSays DEF Says
<1>3. CASE f \in caps.reads /\ ~u.absent /\ f = "public_key"
  <2> DEFINE same == s.keys = {u.keys}
  <2>1. FieldState(u, caps, s, f) = Verdict(s, s.keys, MatchIf(same))
    BY <1>3 DEF FieldState
  <2>2. s.keys = {} \/ \E k : s.keys = {k}
    <3>1. s.keys \in Read(SUBSET PublicKeys)
      BY DEF Snapshot
    <3>2. QED
      BY <3>1, ReadOnce
  <2>3. s.keys # {} => (~same <=> \E k \in s.keys : k # u.keys)
    BY <2>2
  <2>4. same \in BOOLEAN
    OBVIOUS
  <2>5. /\ Drifts(u, caps, s, f) <=> s.present = {TRUE} /\ \E k \in s.keys : k # u.keys
        /\ Unread(u, caps, s, f) <=> s.present # {TRUE} \/ s.keys = {}
    BY <1>3 DEF Drifts, Unread
  <2> HIDE DEF same
  <2>6. QED
    BY <2>1, <2>3, <2>4, <2>5, VerdictSays DEF Says
<1>4. CASE f \in caps.reads /\ ~u.absent /\ f \notin {"memberships", "public_key"}
  <2> DEFINE same == s.scalar[f] = {"same"}
  <2>1. FieldState(u, caps, s, f) = Verdict(s, s.scalar[f], MatchIf(same))
    BY <1>4 DEF FieldState
  <2>2. f \in ScalarField
    BY <1>4 DEF Field
  <2>3. s.scalar[f] = {} \/ s.scalar[f] = {"same"} \/ s.scalar[f] = {"other"}
    <3>1. s.scalar[f] \in Read({"same", "other"})
      BY <2>2 DEF Snapshot
    <3>2. QED
      BY <3>1, ReadOnce
  <2>4. {"same"} # {"other"} /\ {"same"} # {} /\ {"other"} # {}
    BY Zenon
  <2>5. s.scalar[f] # {} => (~same <=> s.scalar[f] = {"other"})
    BY <2>3, <2>4
  <2>6. same \in BOOLEAN
    OBVIOUS
  <2>7. /\ Drifts(u, caps, s, f) <=> s.present = {TRUE} /\ s.scalar[f] = {"other"}
        /\ Unread(u, caps, s, f) <=> s.present # {TRUE} \/ s.scalar[f] = {}
    BY <1>4 DEF Drifts, Unread
  <2> HIDE DEF same
  <2>8. QED
    BY <2>1, <2>4, <2>5, <2>6, <2>7, VerdictSays DEF Says
<1>5. QED
  BY <1>1, <1>2, <1>3, <1>4

\* For any fields, a report agrees with what was read.
THEOREM Agrees ==
  ASSUME NEW u \in Wanted, NEW caps \in Capabilities, NEW s \in Snapshot
  PROVE  ReportAgrees(u, caps, s)
<1> SUFFICES ASSUME caps.repairs
             PROVE  /\ ReportStatus(Compare(u, caps, s)) = "drifted" <=> KnownWrong(u, caps, s)
                    /\ ReportStatus(Compare(u, caps, s)) = "in_sync"
                         <=> ~KnownWrong(u, caps, s) /\ ReadInFull(u, caps, s)
  BY DEF ReportAgrees
<1> DEFINE report == Compare(u, caps, s)
<1>1. \A f \in Field : report[f] = FieldState(u, caps, s, f)
  BY DEF Compare
<1>2. \A f \in Field : Says(u, caps, s, f)
  BY IdentitySays, FieldSays
<1> HIDE DEF report
<1>3. /\ ReportStatus(report) = "drifted" <=> \E f \in Field : Drifts(u, caps, s, f)
      /\ ReportStatus(report) = "in_sync" <=>
           /\ ~ \E f \in Field : Drifts(u, caps, s, f)
           /\ ~ \E f \in Field : Unread(u, caps, s, f)
  BY <1>1, <1>2 DEF ReportStatus, Says
<1>4. Field = {"identity", "memberships", "public_key"} \cup ScalarField
      /\ \A f \in ScalarField : f \notin {"identity", "memberships", "public_key"}
  BY ComparisonAssumption DEF Field
<1>5. (\E f \in Field : Drifts(u, caps, s, f)) <=>
        \/ Drifts(u, caps, s, "identity") \/ Drifts(u, caps, s, "memberships")
        \/ Drifts(u, caps, s, "public_key")
        \/ \E f \in ScalarField : Drifts(u, caps, s, f)
  BY <1>4
<1>6. (\E f \in Field : Unread(u, caps, s, f)) <=>
        \/ Unread(u, caps, s, "identity") \/ Unread(u, caps, s, "memberships")
        \/ Unread(u, caps, s, "public_key")
        \/ \E f \in ScalarField : Unread(u, caps, s, f)
  BY <1>4
<1> DEFINE t == s.present = {TRUE}
           n == s.present = {FALSE}
           e == s.present = {}
<1>7. /\ e \/ t \/ n
      /\ e => ~t /\ ~n
      /\ t => ~n
      /\ ~t => /\ s.username = {} /\ s.memberships = {} /\ s.keys = {}
               /\ \A f \in ScalarField : s.scalar[f] = {}
  BY PresentOnce
<1>8. {"other"} # {} /\ u.absent \in BOOLEAN
  BY Zenon DEF Wanted
<1>9. /\ Drifts(u, caps, s, "identity") <=>
           IF u.absent THEN t ELSE n \/ s.username = {"other"}
      /\ Unread(u, caps, s, "identity") <=> e \/ (~u.absent /\ t /\ s.username = {})
  BY DEF Drifts, Unread
<1>10. /\ Drifts(u, caps, s, "memberships") <=>
            /\ "memberships" \in caps.reads /\ ~u.absent /\ t
            /\ \E m \in s.memberships :
                 ~(u.memberships \subseteq m) \/ (caps.exact /\ m # u.memberships)
       /\ Unread(u, caps, s, "memberships") <=>
            "memberships" \in caps.reads /\ ~u.absent /\ (~t \/ s.memberships = {})
  BY DEF Drifts, Unread
<1>11. /\ Drifts(u, caps, s, "public_key") <=>
            "public_key" \in caps.reads /\ ~u.absent /\ t /\ \E k \in s.keys : k # u.keys
       /\ Unread(u, caps, s, "public_key") <=>
            "public_key" \in caps.reads /\ ~u.absent /\ (~t \/ s.keys = {})
  BY DEF Drifts, Unread
<1>12. \A f \in ScalarField :
         /\ Drifts(u, caps, s, f) <=> f \in caps.reads /\ ~u.absent /\ t /\ s.scalar[f] = {"other"}
         /\ Unread(u, caps, s, f) <=> f \in caps.reads /\ ~u.absent /\ (~t \/ s.scalar[f] = {})
  BY <1>4 DEF Drifts, Unread
<1>13. /\ KnownWrong(u, caps, s) <=>
            IF u.absent THEN t
            ELSE \/ n \/ s.username = {"other"}
                 \/ \E f \in ScalarField : f \in caps.reads /\ s.scalar[f] = {"other"}
                 \/ /\ "memberships" \in caps.reads
                    /\ \E m \in s.memberships :
                         ~(u.memberships \subseteq m) \/ (caps.exact /\ m # u.memberships)
                 \/ "public_key" \in caps.reads /\ \E k \in s.keys : k # u.keys
       /\ ReadInFull(u, caps, s) <=>
            /\ ~e
            /\ ~u.absent /\ t =>
                 /\ s.username # {}
                 /\ \A f \in ScalarField : f \in caps.reads => s.scalar[f] # {}
                 /\ "memberships" \in caps.reads => s.memberships # {}
                 /\ "public_key" \in caps.reads => s.keys # {}
  BY DEF KnownWrong, ReadInFull
<1> HIDE DEF t, n, e
<1>14. (\E f \in Field : Drifts(u, caps, s, f)) <=> KnownWrong(u, caps, s)
  BY <1>5, <1>7, <1>8, <1>9, <1>10, <1>11, <1>12, <1>13
<1>15. ~KnownWrong(u, caps, s) =>
         ((~ \E f \in Field : Unread(u, caps, s, f)) <=> ReadInFull(u, caps, s))
  BY <1>6, <1>7, <1>8, <1>9, <1>10, <1>11, <1>12, <1>13
<1>16. QED
  BY <1>3, <1>14, <1>15 DEF report

\* For any fields, whatever was wanted, can be read and was read of an account: it
\* is reported as drifted if what was read is wrong, and as in sync only if all that
\* matters was read.
THEOREM ComparisonsAgree == WorkflowsSpec => []ComparisonAgrees
<1> DEFINE Inv == explored = "comparison" => compared \in Inputs
<1>1. WorkflowsInit({"bulk", "governance", "reconciliation", "removal", "comparison"}) => Inv
  BY DEF WorkflowsInit
<1>2. Inv /\ [WorkflowsNext]_allVars => Inv'
  BY DEF WorkflowsNext, allVars
<1>3. Inv => ComparisonAgrees
  <2>1. ASSUME compared \in Inputs
        PROVE  ReportAgrees(compared[1], compared[2], compared[3])
    BY <2>1, Agrees DEF Inputs
  <2>2. QED
    BY <2>1 DEF ComparisonAgrees
<1> HIDE DEF Inv
<1>4. QED
  BY <1>1, <1>2, <1>3, PTL DEF WorkflowsSpec
-----------------------------------------------------------------------------
(***************************************************************************)
(* The rows of a bulk job, as its execution writes them.                   *)
(***************************************************************************)
\* What an execution of the job has written: e are the rows it began from.
RowsOK(rs, d) ==
  /\ rs \in Seq(JobRow)
  /\ \A i \in 1..Len(rs) :
       rs[i].result \in {"queued", "succeeded"} =>
         /\ rs[i].op \in 1..Len(d.ops)
         /\ rs[i].result = "queued" => d.ops[rs[i].op].user = rs[i].user
         /\ rs[i].result = "succeeded" => d.ops[rs[i].op].status = "succeeded"

Prepares(e, n) ==
  {w \in [d : Rows, rows : Seq(JobRow)] :
     Sound(w.d) /\ Kept(e, w.d) /\ RowsOK(w.rows, w.d) /\ Len(w.rows) = n}

LEMMA RowsStay ==
  ASSUME NEW rs, NEW d, NEW e, Sound(d), Sound(e), Grows(d, e), RowsOK(rs, d)
  PROVE  RowsOK(rs, e)
<1>1. Len(d.ops) \in Nat /\ Len(e.ops) \in Nat
  BY DbSound
<1>2. QED
  BY <1>1 DEF RowsOK, Grows

\* One row of the job is written.
LEMMA RowWritten ==
  ASSUME NEW rs, NEW d, Sound(d), RowsOK(rs, d), NEW i \in 1..Len(rs), NEW row \in JobRow,
         row.result \in {"queued", "succeeded"} =>
           /\ row.op \in 1..Len(d.ops)
           /\ row.result = "queued" => d.ops[row.op].user = row.user
           /\ row.result = "succeeded" => d.ops[row.op].status = "succeeded"
  PROVE  RowsOK([rs EXCEPT ![i] = row], d) /\ Len([rs EXCEPT ![i] = row]) = Len(rs)
<1> DEFINE new == [rs EXCEPT ![i] = row]
<1>1. rs \in Seq(JobRow)
  BY DEF RowsOK
<1>2. /\ new \in Seq(JobRow) /\ Len(new) = Len(rs)
      /\ \A k \in 1..Len(rs) : new[k] = IF k = i THEN row ELSE rs[k]
  BY <1>1, ExceptSeq
<1> HIDE DEF new
<1>3. RowsOK(new, d)
  BY <1>2 DEF RowsOK
<1>4. QED
  BY <1>2, <1>3 DEF new

LEMMA PutAssigned ==
  ASSUME NEW e, Sound(e), NEW a \in Accounts, NEW v \in BOOLEAN
  PROVE  /\ Put(e, [e EXCEPT !.acct[a].assigned = v], a, [e.acct[a] EXCEPT !.assigned = v])
         /\ [e.acct[a] EXCEPT !.assigned = v] \in AccountRow
<1> DEFINE row == [e.acct[a] EXCEPT !.assigned = v]
<1>1. e.acct[a] \in AccountRow /\ e = [acct |-> e.acct, ops |-> e.ops] /\ e.acct \in [Accounts -> AccountRow]
  BY DbSound
<1>2. row \in AccountRow /\ row.active = e.acct[a].active
  BY <1>1 DEF AccountRow
<1>3. [e EXCEPT !.acct[a].assigned = v] = [acct |-> [e.acct EXCEPT ![a] = row], ops |-> e.ops]
  BY <1>1
<1> HIDE DEF row
<1>4. Put(e, [acct |-> [e.acct EXCEPT ![a] = row], ops |-> e.ops], a, row)
  BY <1>2, PutRow DEF Sound, Pointed
<1>5. QED
  BY <1>2, <1>3, <1>4 DEF row

LEMMA ResultWritten ==
  ASSUME NEW e, Sound(e), NEW n \in Nat, NEW w \in Prepares(e, n), NEW i \in 1..n
  PROVE  WithResult(w, i, "failed") \in Prepares(e, n)
<1> DEFINE row == [w.rows[i] EXCEPT !.result = "failed"]
<1>1. /\ w.d \in Rows /\ w.rows \in Seq(JobRow) /\ Sound(w.d) /\ Kept(e, w.d)
      /\ RowsOK(w.rows, w.d) /\ Len(w.rows) = n
  BY DEF Prepares
<1>2. w.rows[i] \in JobRow /\ DOMAIN w.rows = 1..n
  BY <1>1, ElementOfSeq, LenProperties
<1>3. row \in JobRow /\ row.result = "failed"
  BY <1>2 DEF JobRow, RowStatus
<1>4. [w.rows EXCEPT ![i].result = "failed"] = [w.rows EXCEPT ![i] = row]
  BY <1>2
<1> HIDE DEF row
<1>5. RowsOK([w.rows EXCEPT ![i] = row], w.d) /\ Len([w.rows EXCEPT ![i] = row]) = n
  BY <1>1, <1>3, RowWritten
<1>6. WithResult(w, i, "failed") = [d |-> w.d, rows |-> [w.rows EXCEPT ![i] = row]]
  BY <1>4 DEF WithResult
<1> DEFINE rs == [w.rows EXCEPT ![i] = row]
<1>7. rs \in Seq(JobRow)
  BY <1>5 DEF RowsOK
<1> HIDE DEF rs
<1>8. [d |-> w.d, rows |-> rs] \in Prepares(e, n)
  BY <1>1, <1>5, <1>7 DEF Prepares, rs
<1>9. QED
  BY <1>6, <1>8 DEF rs

LEMMA AssignWritten ==
  ASSUME NEW e, Sound(e), NEW n \in Nat, NEW w \in Prepares(e, n), NEW a \in Accounts,
         NEW v \in BOOLEAN
  PROVE  /\ Assign(w, a, v) \in Prepares(e, n) /\ Assign(w, a, v).rows = w.rows
         /\ Active(a, Assign(w, a, v).d) = Active(a, w.d)
         /\ Assign(w, a, v).d.acct[a].deleted = w.d.acct[a].deleted
<1> DEFINE d == [w.d EXCEPT !.acct[a].assigned = v]
<1>1. /\ w.d \in Rows /\ w.rows \in Seq(JobRow) /\ Sound(w.d) /\ Kept(e, w.d)
      /\ RowsOK(w.rows, w.d) /\ Len(w.rows) = n
  BY DEF Prepares
<1>2. Put(w.d, d, a, [w.d.acct[a] EXCEPT !.assigned = v]) /\ w.d.acct[a] \in AccountRow
  BY <1>1, PutAssigned, DbSound
<1> HIDE DEF d
<1>3. /\ Sound(d) /\ Kept(w.d, d) /\ d.ops = w.d.ops /\ d \in Rows
      /\ d.acct[a].active = w.d.acct[a].active /\ d.acct[a].deleted = w.d.acct[a].deleted
  BY <1>2 DEF Put, Sound, AccountRow
<1>4. Kept(e, d)
  BY <1>1, <1>3, KeptTrans
<1>5. RowsOK(w.rows, d)
  BY <1>1, <1>3, RowsStay DEF Kept
<1>6. Assign(w, a, v) = [d |-> d, rows |-> w.rows]
  BY DEF Assign, d
<1>7. Active(a, d) = Active(a, w.d)
  BY <1>3 DEF Active
<1>8. QED
  BY <1>1, <1>3, <1>4, <1>5, <1>6, <1>7 DEF Prepares

LEMMA QueueWritten ==
  ASSUME NEW e, Sound(e), NEW n \in Nat, NEW w \in Prepares(e, n), NEW i \in 1..n,
         NEW cmd \in {"create", "update"}, ~Rejects(cmd, w.rows[i].user, w.d)
  PROVE  Queue(w, i, cmd) \in Prepares(e, n)
<1> DEFINE a == w.rows[i].user
           d == Requested(cmd, a, w.d)
           row == [w.rows[i] EXCEPT !.result = "queued", !.op = Len(d.ops)]
<1>1. /\ w.d \in Rows /\ w.rows \in Seq(JobRow) /\ Sound(w.d) /\ Kept(e, w.d)
      /\ RowsOK(w.rows, w.d) /\ Len(w.rows) = n
  BY DEF Prepares
<1>2. w.rows[i] \in JobRow /\ DOMAIN w.rows = 1..n
  BY <1>1, ElementOfSeq, LenProperties
<1>3. a \in Accounts /\ cmd \in Command \ {"delete", "retry"}
  BY <1>2 DEF JobRow, Command
<1>4. /\ Sound(d) /\ Kept(w.d, d)
      /\ Len(d.ops) \in 1..Len(d.ops) /\ d.ops[Len(d.ops)].user = a
  BY <1>1, <1>3, StartsOnly
<1>11. Len(d.ops) \in Nat /\ "queued" \in RowStatus
  BY <1>4, DbSound DEF RowStatus
<1> HIDE DEF d
<1>5. /\ row \in JobRow /\ row.result = "queued" /\ row.user = a /\ row.op = Len(d.ops)
  BY <1>2, <1>11 DEF JobRow
<1>6. [w.rows EXCEPT ![i].result = "queued", ![i].op = Len(d.ops)] = [w.rows EXCEPT ![i] = row]
  BY <1>2 DEF JobRow
<1>7. RowsOK(w.rows, d)
  BY <1>1, <1>4, RowsStay DEF Kept
<1>12. Kept(e, d)
  BY <1>1, <1>4, KeptTrans
<1> DEFINE rs == [w.rows EXCEPT ![i] = row]
<1> HIDE DEF row
<1>8. RowsOK(rs, d) /\ Len(rs) = n
  BY <1>1, <1>4, <1>5, <1>7, RowWritten
<1>9. Queue(w, i, cmd) = [d |-> d, rows |-> rs]
  BY <1>6 DEF Queue, d
<1> HIDE DEF rs
<1>13. d \in Rows /\ rs \in Seq(JobRow)
  BY <1>4, <1>8 DEF RowsOK, Sound
<1>10. QED
  BY <1>4, <1>8, <1>9, <1>12, <1>13 DEF Prepares

\* A new account, with its temporary password.
LEMMA CreateWritten ==
  ASSUME NEW e, Sound(e), NEW n \in Nat, NEW w \in Prepares(e, n), NEW i \in 1..n
  PROVE  LET a == w.rows[i].user
             v == [d |-> [w.d EXCEPT !.acct[a] = FreshAccount],
                   rows |-> [w.rows EXCEPT ![i].password = "stored"]]
         IN v \in Prepares(e, n) /\ v.rows[i].user = a /\ ~Rejects("create", a, v.d)
<1> DEFINE a == w.rows[i].user
           d == [w.d EXCEPT !.acct[a] = FreshAccount]
           row == [w.rows[i] EXCEPT !.password = "stored"]
<1>1. /\ w.d \in Rows /\ w.rows \in Seq(JobRow) /\ Sound(w.d) /\ Kept(e, w.d)
      /\ RowsOK(w.rows, w.d) /\ Len(w.rows) = n
  BY DEF Prepares
<1>2. w.rows[i] \in JobRow /\ DOMAIN w.rows = 1..n
  BY <1>1, ElementOfSeq, LenProperties
<1>16. a \in Accounts
  BY <1>2 DEF JobRow
<1>3. /\ w.d = [acct |-> w.d.acct, ops |-> w.d.ops] /\ w.d.acct \in [Accounts -> AccountRow]
      /\ Len(w.d.ops) \in Nat
  BY <1>1, DbSound
<1>4. FreshAccount \in AccountRow /\ FreshAccount.active = 0
  BY DEF FreshAccount, AccountRow, Desired, NoOp
<1>5. d = [acct |-> [w.d.acct EXCEPT ![a] = FreshAccount], ops |-> w.d.ops]
  BY <1>3
<1>6. Put(w.d, d, a, FreshAccount)
  BY <1>1, <1>16, <1>3, <1>4, <1>5, PutRow
<1> HIDE DEF d
<1>7. Sound(d) /\ Kept(w.d, d) /\ d.acct[a] = FreshAccount
  BY <1>16, <1>6 DEF Put
<1>8. RowsOK(w.rows, d) /\ Kept(e, d)
  <2>1. RowsOK(w.rows, d)
    BY <1>1, <1>7, RowsStay DEF Kept
  <2>2. QED
    BY <1>1, <1>7, <2>1, KeptTrans
<1>9. /\ row \in JobRow /\ row.user = a /\ row.op = w.rows[i].op /\ row.result = w.rows[i].result
  BY <1>2 DEF JobRow
<1>10. [w.rows EXCEPT ![i].password = "stored"] = [w.rows EXCEPT ![i] = row]
  BY <1>2
<1> HIDE DEF row
<1>11. RowsOK([w.rows EXCEPT ![i] = row], d) /\ Len([w.rows EXCEPT ![i] = row]) = n
  <2>1. row.result \in {"queued", "succeeded"} =>
          /\ row.op \in 1..Len(d.ops)
          /\ row.result = "queued" => d.ops[row.op].user = row.user
          /\ row.result = "succeeded" => d.ops[row.op].status = "succeeded"
    BY <1>1, <1>8, <1>9 DEF RowsOK
  <2>2. i \in 1..Len(w.rows) /\ Len(w.rows) = n
    BY <1>1
  <2>3. QED
    BY ONLY <1>7, <1>8, <1>9, <2>1, <2>2, RowWritten
<1>12. [w.rows EXCEPT ![i] = row][i] = row
  BY <1>2
<1>13. Decided("create", a, d) = "start"
  BY <1>4, <1>7 DEF Decided, Active, NoOp, DecideTransition, Unfinished
<1>14. [d |-> d, rows |-> [w.rows EXCEPT ![i] = row]] \in Prepares(e, n)
  BY <1>7, <1>8, <1>11 DEF Prepares, RowsOK, Sound
<1>15. QED
  BY <1>9, <1>10, <1>12, <1>13, <1>14 DEF Rejects, d

LEMMA PreparesOne ==
  ASSUME NEW e, Sound(e), NEW n \in Nat, NEW w \in Prepares(e, n), NEW i \in 1..n
  PROVE  Prepare(w, i) \in Prepares(e, n)
<1> DEFINE a == w.rows[i].user
<1>1. w.rows \in Seq(JobRow) /\ Len(w.rows) = n /\ w.rows[i] \in JobRow /\ a \in Accounts
  <2>1. w.rows \in Seq(JobRow) /\ Len(w.rows) = n
    BY DEF Prepares
  <2>2. w.rows[i] \in JobRow
    BY <2>1, ElementOfSeq
  <2>3. QED
    BY <2>1, <2>2 DEF JobRow
<1>2. \A v \in BOOLEAN : Assign(w, a, v) \in Prepares(e, n)
                          /\ Assign(w, a, v).rows = w.rows
                          /\ (Rejects("update", a, Assign(w, a, v).d) <=> Rejects("update", a, w.d))
  BY <1>1, AssignWritten DEF Rejects, Decided
<1>3. Onboard(w, i) \in Prepares(e, n)
  <2>1. CASE ~w.d.acct[a].exists
    <3> DEFINE v == [d |-> [w.d EXCEPT !.acct[a] = FreshAccount],
                     rows |-> [w.rows EXCEPT ![i].password = "stored"]]
    <3>1. v \in Prepares(e, n) /\ v.rows[i].user = a /\ ~Rejects("create", a, v.d)
      BY CreateWritten
    <3> HIDE DEF v
    <3>2. Queue(v, i, "create") \in Prepares(e, n)
      BY <3>1, QueueWritten
    <3>3. QED
      BY <2>1, <3>2 DEF Onboard, v
  <2>2. CASE w.d.acct[a].exists /\ Rejects("update", a, w.d)
    <3>1. WithResult(Assign(w, a, TRUE), i, "failed") \in Prepares(e, n)
      BY <1>2, ResultWritten
    <3>2. QED
      BY <2>2, <3>1 DEF Onboard
  <2>3. CASE w.d.acct[a].exists /\ ~Rejects("update", a, w.d)
    <3> DEFINE v == Assign(w, a, TRUE)
    <3>1. v \in Prepares(e, n) /\ v.rows[i].user = a /\ ~Rejects("update", a, v.d)
      BY <1>2, <2>3
    <3> HIDE DEF v
    <3>2. Queue(v, i, "update") \in Prepares(e, n)
      BY <3>1, QueueWritten
    <3>3. QED
      BY <2>3, <3>2 DEF Onboard, v
  <2>4. QED
    BY <2>1, <2>2, <2>3
<1>4. Offboard(w, i) \in Prepares(e, n)
  <2>1. CASE ~w.d.acct[a].exists \/ Rejects("update", a, w.d)
    BY <2>1, ResultWritten DEF Offboard
  <2>2. CASE ~(~w.d.acct[a].exists \/ Rejects("update", a, w.d))
    <3>1. Queue(w, i, "update") \in Prepares(e, n)
      BY <2>2, QueueWritten
    <3>2. Assign(Queue(w, i, "update"), a, FALSE) \in Prepares(e, n)
      BY <1>1, <3>1, AssignWritten
    <3>3. QED
      BY <2>2, <3>2 DEF Offboard
  <2>3. QED
    BY <2>1, <2>2
<1>5. WithResult(w, i, "failed") \in Prepares(e, n)
  BY ResultWritten
<1>6. QED
  BY <1>3, <1>4, <1>5 DEF Prepare
-----------------------------------------------------------------------------
(***************************************************************************)
(* What is written for a row of a job, and of which accounts.              *)
(***************************************************************************)
\* What is written for row i: the row, and the account it names.
Touches(w, x, i) ==
  /\ \A b \in Accounts : b # w.rows[i].user =>
       x.d.acct[b].assigned = w.d.acct[b].assigned
  /\ \A j \in 1..Len(w.rows) : j # i => x.rows[j] = w.rows[j]
  /\ x.rows[i].user = w.rows[i].user /\ x.rows[i].action = w.rows[i].action

LEMMA TouchTrans ==
  ASSUME NEW n, NEW w, NEW x, NEW y, NEW i \in 1..n, Len(w.rows) = n, Len(x.rows) = n,
         Touches(w, x, i), Touches(x, y, i)
  PROVE  Touches(w, y, i)
BY DEF Touches

LEMMA ResultTouches ==
  ASSUME NEW e, NEW n \in Nat, NEW w \in Prepares(e, n), NEW i \in 1..n
  PROVE  LET x == WithResult(w, i, "failed")
         IN Touches(w, x, i) /\ x.rows[i].result = "failed" /\ x.d = w.d
<1>1. w.rows \in Seq(JobRow) /\ Len(w.rows) = n /\ w.rows[i] \in JobRow /\ DOMAIN w.rows = 1..n
  BY ElementOfSeq, LenProperties DEF Prepares
<1> DEFINE row == [w.rows[i] EXCEPT !.result = "failed"]
<1>2. row.result = "failed" /\ row.user = w.rows[i].user /\ row.action = w.rows[i].action
  BY <1>1 DEF JobRow
<1>3. [w.rows EXCEPT ![i].result = "failed"] = [w.rows EXCEPT ![i] = row]
  BY <1>1
<1> HIDE DEF row
<1>4. WithResult(w, i, "failed") = [d |-> w.d, rows |-> [w.rows EXCEPT ![i] = row]]
  BY <1>3 DEF WithResult
<1>5. QED
  BY <1>1, <1>2, <1>4 DEF Touches

LEMMA AssignTouches ==
  ASSUME NEW e, NEW n \in Nat, NEW w \in Prepares(e, n), NEW i \in 1..n,
         NEW v \in BOOLEAN
  PROVE  LET x == Assign(w, w.rows[i].user, v)
         IN Touches(w, x, i) /\ x.rows = w.rows
<1> DEFINE a == w.rows[i].user
           d == [w.d EXCEPT !.acct[a].assigned = v]
<1>1. w.rows[i] \in JobRow /\ a \in Accounts /\ Sound(w.d)
  <2>1. w.rows[i] \in JobRow /\ Sound(w.d)
    BY ElementOfSeq DEF Prepares
  <2>2. QED
    BY <2>1 DEF JobRow
<1> HIDE DEF a
<1>2. Put(w.d, d, a, [w.d.acct[a] EXCEPT !.assigned = v])
  BY <1>1, PutAssigned
<1>3. Assign(w, a, v) = [d |-> d, rows |-> w.rows]
  BY DEF Assign
<1> HIDE DEF d
<1>4. \A b \in Accounts : b # a => d.acct[b] = w.d.acct[b]
  BY <1>2 DEF Put
<1>5. QED
  BY <1>3, <1>4 DEF Touches, a

LEMMA QueueTouches ==
  ASSUME NEW e, NEW n \in Nat, NEW w \in Prepares(e, n), NEW i \in 1..n,
         NEW cmd \in {"create", "update"}
  PROVE  LET x == Queue(w, i, cmd)
         IN Touches(w, x, i) /\ x.rows[i].result = "queued"
<1> DEFINE a == w.rows[i].user
           d == Requested(cmd, a, w.d)
           op == Len(d.ops)
           row == [w.rows[i] EXCEPT !.result = "queued", !.op = op]
<1>1. /\ w.rows \in Seq(JobRow) /\ Len(w.rows) = n /\ w.rows[i] \in JobRow /\ Sound(w.d)
      /\ DOMAIN w.rows = 1..n
  BY ElementOfSeq, LenProperties DEF Prepares
<1>2. a \in Accounts /\ cmd \in Command
  BY <1>1 DEF JobRow, Command
<1>3. SameAccounts(w.d, d)
  BY <1>1, <1>2, RequestedRows DEF Requests
<1>4. Queue(w, i, cmd) = [d |-> d, rows |-> [w.rows EXCEPT ![i].result = "queued", ![i].op = op]]
  BY DEF Queue
<1> HIDE DEF d, op
<1>5. row.result = "queued" /\ row.user = w.rows[i].user /\ row.action = w.rows[i].action
  BY <1>1 DEF JobRow
<1>6. [w.rows EXCEPT ![i].result = "queued", ![i].op = op] = [w.rows EXCEPT ![i] = row]
  BY <1>1 DEF JobRow
<1> HIDE DEF row
<1>7. Queue(w, i, cmd) = [d |-> d, rows |-> [w.rows EXCEPT ![i] = row]]
  BY <1>4, <1>6
<1>8. \A b \in Accounts : d.acct[b].assigned = w.d.acct[b].assigned
  BY <1>3 DEF SameAccounts, SameRow
<1>9. QED
  BY <1>1, <1>5, <1>7, <1>8 DEF Touches

LEMMA CreateTouches ==
  ASSUME NEW e, NEW n \in Nat, NEW w \in Prepares(e, n), NEW i \in 1..n
  PROVE  LET a == w.rows[i].user
             v == [d |-> [w.d EXCEPT !.acct[a] = FreshAccount],
                   rows |-> [w.rows EXCEPT ![i].password = "stored"]]
         IN Touches(w, v, i)
<1> DEFINE a == w.rows[i].user
           d == [w.d EXCEPT !.acct[a] = FreshAccount]
           row == [w.rows[i] EXCEPT !.password = "stored"]
<1>1. /\ w.rows \in Seq(JobRow) /\ Len(w.rows) = n /\ w.rows[i] \in JobRow
      /\ DOMAIN w.rows = 1..n
      /\ w.d.acct \in [Accounts -> AccountRow] /\ w.d = [acct |-> w.d.acct, ops |-> w.d.ops]
  BY ElementOfSeq, LenProperties, DbSound DEF Prepares
<1>2. row.user = w.rows[i].user /\ row.action = w.rows[i].action
  BY <1>1 DEF JobRow
<1>3. [w.rows EXCEPT ![i].password = "stored"] = [w.rows EXCEPT ![i] = row]
  BY <1>1
<1>4. \A b \in Accounts : b # a => d.acct[b] = w.d.acct[b]
  BY <1>1
<1> HIDE DEF row, d, a
<1>5. QED
  BY <1>1, <1>2, <1>3, <1>4 DEF Touches, a, d

\* A row that is refused, and offboards, writes nothing of any account.
Treats(w, x, i) ==
  /\ Touches(w, x, i)
  /\ w.rows[i].result = "invalid" => x = w
  /\ w.rows[i].result # "invalid" => x.rows[i].result \in {"queued", "failed"}
  /\ w.rows[i].result # "invalid" /\ w.rows[i].action = "offboard" /\ x.rows[i].result = "failed"
       => x.d = w.d

LEMMA PrepareTreats ==
  ASSUME NEW e, Sound(e), NEW n \in Nat, NEW w \in Prepares(e, n), NEW i \in 1..n
  PROVE  Treats(w, Prepare(w, i), i)
<1> DEFINE a == w.rows[i].user
           refused == WithResult(w, i, "failed")
<1>1. Len(w.rows) = n /\ w.rows[i] \in JobRow /\ a \in Accounts
  <2>1. w.rows \in Seq(JobRow) /\ Len(w.rows) = n /\ w.rows[i] \in JobRow
    BY ElementOfSeq DEF Prepares
  <2>2. QED
    BY <2>1 DEF JobRow
<1>2. Touches(w, refused, i) /\ refused.rows[i].result = "failed" /\ refused.d = w.d
  BY ResultTouches
<1> HIDE DEF refused
<1>3. w.rows[i].result # "invalid" => Treats(w, refused, i)
  BY <1>2 DEF Treats
<1>4. ASSUME NEW v \in BOOLEAN
      PROVE  /\ Assign(w, a, v) \in Prepares(e, n) /\ Touches(w, Assign(w, a, v), i)
             /\ Assign(w, a, v).rows = w.rows
  BY <1>1, AssignWritten, AssignTouches
<1>5. ASSUME w.rows[i].result # "invalid", w.rows[i].action # "offboard"
      PROVE  Treats(w, Onboard(w, i), i)
  <2>1. CASE ~w.d.acct[a].exists
    <3> DEFINE v == [d |-> [w.d EXCEPT !.acct[a] = FreshAccount],
                     rows |-> [w.rows EXCEPT ![i].password = "stored"]]
    <3>1. v \in Prepares(e, n) /\ Touches(w, v, i)
      BY CreateWritten, CreateTouches
    <3>2. Onboard(w, i) = Queue(v, i, "create")
      BY <2>1 DEF Onboard
    <3> HIDE DEF v
    <3>3. Touches(v, Queue(v, i, "create"), i) /\ Queue(v, i, "create").rows[i].result = "queued"
      BY <3>1, QueueTouches
    <3>6. Len(v.rows) = n
      BY <3>1 DEF Prepares
    <3> DEFINE x == Queue(v, i, "create")
    <3> HIDE DEF x
    <3>4. Touches(w, x, i)
      BY <1>1, <3>1, <3>3, <3>6, TouchTrans DEF x
    <3>5. QED
      BY <1>5, <3>2, <3>3, <3>4 DEF Treats, x
  <2>2. CASE w.d.acct[a].exists
    <3> DEFINE v == Assign(w, a, TRUE)
    <3>1. v \in Prepares(e, n) /\ Touches(w, v, i) /\ v.rows = w.rows /\ Len(v.rows) = n
      BY <1>1, <1>4
    <3>2. Onboard(w, i) \in {WithResult(v, i, "failed"), Queue(v, i, "update")}
      BY <2>2 DEF Onboard
    <3> HIDE DEF v
    <3>3. /\ Touches(v, WithResult(v, i, "failed"), i)
          /\ WithResult(v, i, "failed").rows[i].result = "failed"
          /\ Touches(v, Queue(v, i, "update"), i) /\ Queue(v, i, "update").rows[i].result = "queued"
      BY <3>1, ResultTouches, QueueTouches
    <3> DEFINE x == Onboard(w, i)
    <3> HIDE DEF x
    <3>4. Touches(v, x, i) /\ x.rows[i].result \in {"queued", "failed"}
      BY <3>2, <3>3 DEF x
    <3>5. Touches(w, x, i)
      BY <1>1, <3>1, <3>4, TouchTrans
    <3>6. QED
      BY <1>5, <3>4, <3>5 DEF Treats, x
  <2>3. QED
    BY <2>1, <2>2
<1>6. ASSUME w.rows[i].result # "invalid"
      PROVE  Treats(w, Offboard(w, i), i)
  <2>1. CASE ~w.d.acct[a].exists \/ Rejects("update", a, w.d)
    <3>1. Offboard(w, i) = refused
      BY <2>1 DEF Offboard, refused
    <3>2. QED
      BY <1>3, <1>6, <3>1
  <2>2. CASE ~(~w.d.acct[a].exists \/ Rejects("update", a, w.d))
    <3> DEFINE v == Queue(w, i, "update")
               x == Assign(v, a, FALSE)
    <3>1. Offboard(w, i) = x
      BY <2>2 DEF Offboard
    <3>2. v \in Prepares(e, n) /\ Touches(w, v, i) /\ v.rows[i].result = "queued"
      BY <2>2, QueueWritten, QueueTouches
    <3> HIDE DEF v
    <3>3. v.rows[i].user = a /\ Len(v.rows) = n
      BY <3>2 DEF Touches, Prepares
    <3>4. Touches(v, x, i) /\ x.rows = v.rows
      BY <3>2, <3>3, AssignTouches
    <3> HIDE DEF x
    <3>5. Touches(w, x, i)
      BY <1>1, <3>2, <3>3, <3>4, TouchTrans
    <3>6. QED
      BY <1>6, <3>1, <3>2, <3>4, <3>5 DEF Treats
  <2>3. QED
    BY <2>1, <2>2
<1>7. w.rows[i].result = "invalid" => Treats(w, w, i)
  BY DEF Treats, Touches
<1>8. QED
  BY <1>1, <1>3, <1>5, <1>6, <1>7 DEF Prepare, refused
-----------------------------------------------------------------------------
(***************************************************************************)
(* The preparation of a job: the fold over its rows.                       *)
(***************************************************************************)
\* The rows that count name an account once.
Distinct(rs) ==
  \A i, j \in 1..Len(rs) :
    rs[i].result # "invalid" /\ rs[j].result # "invalid" /\ rs[i].user = rs[j].user => i = j

\* A row that is neither prepared nor valid has no operation.
Blank(rs) == \A i \in 1..Len(rs) : rs[i].result \in {"pending", "invalid"} => rs[i].op = 0

\* Of the job's rows, k are prepared.  The accounts of the others, and of those that
\* were to offboard and were refused, are assigned as they were.
PreparedTo(k, w) ==
  /\ w \in Prepares(db, Len(jobRows)) /\ Blank(w.rows)
  /\ \A i \in 1..Len(jobRows) :
       /\ w.rows[i].user = jobRows[i].user /\ w.rows[i].action = jobRows[i].action
       /\ w.rows[i].result = "invalid" <=> jobRows[i].result = "invalid"
       /\ /\ jobRows[i].result # "invalid"
          /\ i > k \/ (jobRows[i].action = "offboard" /\ w.rows[i].result = "failed")
          => w.d.acct[jobRows[i].user].assigned = db.acct[jobRows[i].user].assigned

LEMMA PreparedNext ==
  ASSUME OpsInv, Distinct(jobRows), jobRows \in Seq(JobRow), NEW k \in Nat, k < Len(jobRows), NEW w, PreparedTo(k, w)
  PROVE  PreparedTo(k + 1, Prepare(w, k + 1))
<1> DEFINE n == Len(jobRows)
           p == k + 1
           x == Prepare(w, p)
           a == jobRows[p].user
<1>1. /\ Sound(db) /\ n \in Nat /\ p \in 1..n /\ w \in Prepares(db, n)
      /\ \A i \in 1..n : jobRows[i] \in JobRow
  BY LenProperties, ElementOfSeq DEF OpsInv, PreparedTo
<1> HIDE DEF n
<1>2. x \in Prepares(db, n) /\ Treats(w, x, p)
  BY <1>1, PreparesOne, PrepareTreats
<1>3. Len(w.rows) = n /\ Len(x.rows) = n
  BY <1>1, <1>2 DEF Prepares
<1>4. /\ w.rows[p].user = a /\ x.rows[p].user = a
      /\ w.rows[p].action = jobRows[p].action /\ x.rows[p].action = jobRows[p].action
      /\ w.rows[p].result = "invalid" <=> jobRows[p].result = "invalid"
  BY <1>1, <1>2 DEF Treats, Touches, PreparedTo, n
<1>5. \A i \in 1..n : jobRows[i].user \in Accounts
  BY <1>1 DEF JobRow
<1> HIDE DEF x
<1>6. Blank(x.rows)
  <2>1. CASE w.rows[p].result = "invalid"
    BY <1>2, <2>1 DEF Treats, PreparedTo
  <2>2. CASE w.rows[p].result # "invalid"
    BY <1>2, <1>3, <2>2 DEF Treats, Touches, PreparedTo, Blank
  <2>3. QED
    BY <2>1, <2>2
<1>7. ASSUME NEW i \in 1..n
      PROVE  /\ x.rows[i].user = jobRows[i].user /\ x.rows[i].action = jobRows[i].action
             /\ x.rows[i].result = "invalid" <=> jobRows[i].result = "invalid"
             /\ /\ jobRows[i].result # "invalid"
                /\ i > p \/ (jobRows[i].action = "offboard" /\ x.rows[i].result = "failed")
                => x.d.acct[jobRows[i].user].assigned = db.acct[jobRows[i].user].assigned
  <2>1. /\ w.rows[i].user = jobRows[i].user /\ w.rows[i].action = jobRows[i].action
        /\ w.rows[i].result = "invalid" <=> jobRows[i].result = "invalid"
        /\ /\ jobRows[i].result # "invalid"
           /\ i > k \/ (jobRows[i].action = "offboard" /\ w.rows[i].result = "failed")
           => w.d.acct[jobRows[i].user].assigned = db.acct[jobRows[i].user].assigned
    BY DEF PreparedTo, n
  <2>2. CASE jobRows[p].result = "invalid"
    <3>1. x = w
      BY <1>2, <1>4, <2>2 DEF Treats
    <3>2. QED
      BY <1>1, <2>1, <3>1
  <2>3. CASE jobRows[p].result # "invalid" /\ i = p
    <3>1. x.rows[p].result \in {"queued", "failed"}
      BY <1>2, <1>4, <2>3 DEF Treats
    <3>2. jobRows[p].action = "offboard" /\ x.rows[p].result = "failed" => x.d = w.d
      BY <1>2, <1>4, <2>3 DEF Treats
    <3>3. p > k /\ ~(p > p)
      BY <1>1
    <3>4. QED
      BY <1>4, <2>1, <2>3, <3>1, <3>2, <3>3
  <2>4. CASE jobRows[p].result # "invalid" /\ i # p
    <3>1. x.rows[i] = w.rows[i]
      BY <1>2, <1>3, <2>4 DEF Treats, Touches
    <3>2. jobRows[i].result # "invalid" => jobRows[i].user # a
      BY <1>1, <2>4 DEF Distinct, n
    <3>3. jobRows[i].result # "invalid" =>
            x.d.acct[jobRows[i].user].assigned = w.d.acct[jobRows[i].user].assigned
      BY <1>2, <1>4, <1>5, <3>2 DEF Treats, Touches
    <3>4. i > p => i > k
      BY <1>1
    <3>5. QED
      BY <2>1, <3>1, <3>3, <3>4
  <2>5. QED
    BY <2>2, <2>3, <2>4
<1>8. QED
  BY <1>2, <1>6, <1>7 DEF PreparedTo, n, x

\* The job is prepared by the fold over its rows.
LEMMA PreparedRows ==
  ASSUME OpsInv, RowsOK(jobRows, db), Distinct(jobRows), Blank(jobRows)
  PROVE  PreparedTo(Len(jobRows), Prepared)
<1> DEFINE N == Len(jobRows)
           list == [i \in DOMAIN jobRows |-> i]
           D == DOMAIN list
           V == Prepares(db, N)
           base == [d |-> db, rows |-> jobRows]
           step == [x \in V \X D |-> Prepare(x[1], list[x[2]])]
           Scans(it) == it = [s \in SUBSET D |->
                           IF s = {} THEN base
                           ELSE Prepare(it[s \ {Max(s)}], list[Max(s)])]
<1>1. base \in V
  BY KeptTrans DEF OpsInv, Prepares, RowsOK, Sound
<1>2. N \in Nat /\ DOMAIN list = 1..N /\ \A k \in 1..N : list[k] = k
  BY LenProperties DEF RowsOK
<1>3. D \in SUBSET Nat /\ IsFiniteSet(D) /\ D = 1..N /\ \A k \in D : list[k] = k
  BY <1>2, FS_Interval
<1>40. \A v \in V, k \in D : Prepare(v, list[k]) \in V
  BY <1>2, <1>3, PreparesOne DEF OpsInv
<1>15. PreparedTo(0, base)
  BY <1>1, <1>2 DEF PreparedTo
<1>16. ASSUME NEW k \in Nat, k < N, NEW w, PreparedTo(k, w)
       PROVE  PreparedTo(k + 1, Prepare(w, k + 1))
  BY <1>16, PreparedNext DEF RowsOK
<1> HIDE DEF V
<1>4. step \in [V \X D -> V]
  BY <1>40
<1> HIDE DEF D, base, step, list
<1>5. PICK it : IsFold(it, D, V, base, step)
  BY <1>1, <1>3, <1>4, FoldExists
<1>55. it \in [SUBSET D -> V] /\ \A s \in SUBSET D :
         it[s] = IF s = {} THEN base ELSE step[<<it[s \ {Max(s)}], Max(s)>>]
  BY <1>5 DEF IsFold
<1>6. ASSUME NEW s \in SUBSET D, s # {}
      PROVE  Max(s) \in D /\ s \ {Max(s)} \in SUBSET D
  BY <1>3, <1>6, MaxOf, FS_Subset
<1>7. Scans(it)
  <2>1. ASSUME NEW s \in SUBSET D
        PROVE  it[s] = IF s = {} THEN base
                       ELSE Prepare(it[s \ {Max(s)}], list[Max(s)])
    <3>1. CASE s = {}
      BY <1>55, <3>1
    <3>2. CASE s # {}
      <4> DEFINE r == it[s \ {Max(s)}]
                 k == Max(s)
      <4>1. r \in V /\ k \in D
        BY <1>55, <1>6, <3>2
      <4>2. it[s] = step[<<r, k>>]
        BY <1>55, <3>2
      <4> HIDE DEF r, k
      <4>3. step[<<r, k>>] = Prepare(r, list[k])
        BY <4>1 DEF step
      <4>4. QED
        BY <3>2, <4>2, <4>3 DEF r, k
    <3>3. QED
      BY <3>1, <3>2
  <2>2. QED
    BY <1>55, <2>1
<1> DEFINE chosen == CHOOSE f : Scans(f)
<1>8. Scans(chosen)
  <2> HIDE DEF Scans
  <2>1. QED
    BY <1>7
<1>9. Prepared = chosen[D]
  BY DEF Prepared, FoldLeft, MapThenFoldSet, D, base, list
<1> HIDE DEF chosen
<1>10. \A s \in SUBSET D :
         chosen[s] = IF s = {} THEN base
                     ELSE Prepare(chosen[s \ {Max(s)}], list[Max(s)])
  <2> HIDE DEF Max
  <2>1. QED
    BY <1>8
<1> HIDE DEF Scans
<1> DEFINE Good == {s \in SUBSET D : \A k \in 0..N : s = 1..k => PreparedTo(k, chosen[s])}
<1> HIDE DEF N
<1>11. {} \in Good
  <2>1. ASSUME NEW k \in 0..N, {} = 1..k PROVE PreparedTo(k, chosen[{}])
    <3>1. k = 0
      BY <1>2, <2>1
    <3>2. chosen[{}] = base
      BY <1>10
    <3>3. QED
      BY <1>15, <3>1, <3>2
  <2>2. QED
    BY <2>1
<1>12. ASSUME NEW s \in SUBSET D, s # {}, \A x \in s : s \ {x} \in Good
       PROVE  s \in Good
  <2>1. ASSUME NEW k \in 0..N, s = 1..k PROVE PreparedTo(k, chosen[s])
    <3> DEFINE j == k - 1
    <3>1. j \in Nat /\ j \in 0..N /\ j < N /\ j + 1 = k /\ k \in s
      BY <1>2, <1>12, <2>1
    <3>2. Max(s) = k
      <4>1. s \in SUBSET Nat /\ IsFiniteSet(s)
        BY <1>3, FS_Subset
      <4>2. Max(s) \in s /\ \A x \in s : Max(s) >= x
        BY <1>12, <4>1, MaxOf
      <4>3. QED
        BY <1>2, <2>1, <3>1, <4>2
    <3>3. s \ {k} = 1..j
      BY <1>2, <2>1, <3>1
    <3>4. list[k] = k
      BY <1>3, <3>1
    <3> HIDE DEF j
    <3> DEFINE r == chosen[s \ {k}]
    <3>5. PreparedTo(j, r)
      BY <1>12, <3>1, <3>3
    <3>6. chosen[s] = Prepare(r, k)
      BY <1>10, <1>12, <3>2, <3>4
    <3> HIDE DEF r
    <3>7. PreparedTo(j + 1, Prepare(r, j + 1))
      BY <1>16, <3>1, <3>5
    <3>8. QED
      BY <3>1, <3>6, <3>7
  <2>2. QED
    BY <2>1
<1>13. D \in Good
  <2> HIDE DEF Good
  <2>1. QED
    BY <1>3, <1>11, <1>12, FiniteInduction
<1>14. N \in 0..N
  BY <1>2
<1>17. QED
  BY <1>3, <1>9, <1>13, <1>14 DEF N
-----------------------------------------------------------------------------
(***************************************************************************)
(* The confirmed selection: the fold over its accounts.                    *)
(***************************************************************************)
\* The numbers up to n that are in S.
LEMMA AscendingTyped ==
  ASSUME NEW S, NEW n \in Nat
  PROVE  Ascending(S, n) \in Seq(S \cap 1..n)
<1> DEFINE Takes(v, i) == IF i \in S THEN Append(v, i) ELSE v
           list == [i \in 1..n |-> i]
           D == DOMAIN list
           V == Seq(S \cap 1..n)
           base == <<>>
           step == [x \in V \X D |-> Takes(x[1], list[x[2]])]
           Scans(it) == it = [s \in SUBSET D |->
                           IF s = {} THEN base
                           ELSE Takes(it[s \ {Max(s)}], list[Max(s)])]
<1>1. base \in V
  OBVIOUS
<1>3. D \in SUBSET Nat /\ IsFiniteSet(D) /\ D = 1..n /\ \A k \in D : list[k] = k
  BY FS_Interval
<1>40. \A v \in V, k \in D : Takes(v, list[k]) \in V
  BY <1>3, AppendProperties
<1> HIDE DEF V, Takes
<1>4. step \in [V \X D -> V]
  BY <1>40
<1> HIDE DEF D, base, step, list
<1>5. PICK it : IsFold(it, D, V, base, step)
  BY <1>1, <1>3, <1>4, FoldExists
<1>55. it \in [SUBSET D -> V] /\ \A s \in SUBSET D :
         it[s] = IF s = {} THEN base ELSE step[<<it[s \ {Max(s)}], Max(s)>>]
  BY <1>5 DEF IsFold
<1>6. ASSUME NEW s \in SUBSET D, s # {}
      PROVE  Max(s) \in D /\ s \ {Max(s)} \in SUBSET D
  BY <1>3, <1>6, MaxOf, FS_Subset
<1>7. Scans(it)
  <2>1. ASSUME NEW s \in SUBSET D
        PROVE  it[s] = IF s = {} THEN base
                       ELSE Takes(it[s \ {Max(s)}], list[Max(s)])
    <3>1. CASE s = {}
      BY <1>55, <3>1
    <3>2. CASE s # {}
      <4> DEFINE r == it[s \ {Max(s)}]
                 k == Max(s)
      <4>1. r \in V /\ k \in D
        BY <1>55, <1>6, <3>2
      <4>2. it[s] = step[<<r, k>>]
        BY <1>55, <3>2
      <4> HIDE DEF r, k
      <4>3. step[<<r, k>>] = Takes(r, list[k])
        BY <4>1 DEF step
      <4>4. QED
        BY <3>2, <4>2, <4>3 DEF r, k
    <3>3. QED
      BY <3>1, <3>2
  <2>2. QED
    BY <1>55, <2>1
<1> DEFINE chosen == CHOOSE f : Scans(f)
<1>8. Scans(chosen)
  <2> HIDE DEF Scans
  <2>1. QED
    BY <1>7
<1>9. Ascending(S, n) = chosen[D]
  BY DEF Ascending, Takes, FoldLeft, MapThenFoldSet, D, base, list
<1> HIDE DEF chosen
<1>10. \A s \in SUBSET D :
         chosen[s] = IF s = {} THEN base
                     ELSE Takes(chosen[s \ {Max(s)}], list[Max(s)])
  <2> HIDE DEF Max
  <2>1. QED
    BY <1>8
<1> HIDE DEF Scans
<1>11. chosen[{}] \in V
  BY <1>1, <1>10
<1>12. ASSUME NEW s \in SUBSET D, s # {}, chosen[s \ {Max(s)}] \in V
       PROVE  chosen[s] \in V
  <2> DEFINE r == chosen[s \ {Max(s)}]
             k == Max(s)
  <2>1. r \in V /\ k \in D
    BY <1>6, <1>12
  <2>2. chosen[s] = Takes(r, list[k])
    BY <1>10, <1>12
  <2> HIDE DEF r, k
  <2>3. QED
    BY <1>40, <2>1, <2>2
<1>13. chosen[D] \in V
  BY <1>3, <1>11, <1>12, FoldStays
<1>14. QED
  BY <1>9, <1>13 DEF V

SelectionAction == {"disable", "assign", "unassign", "retry"}

\* What a confirmed selection has accepted, beginning from the rows e.
Accepts(e) ==
  {w \in [d : Rows, calls : Seq(Call), accepted : Nat, failed : Nat] :
     Sound(w.d) /\ Kept(e, w.d) /\ ListOK(w.calls, w.d) /\ NoRepairs(w.calls)}

LEMMA RefusedAccepts ==
  ASSUME NEW e, NEW w \in Accepts(e)
  PROVE  Refused(w) \in Accepts(e)
BY DEF Refused, Accepts

LEMMA AcceptedAccepts ==
  ASSUME NEW e, Sound(e), NEW w \in Accepts(e), NEW d, Sound(d), Kept(w.d, d), NEW list, ListOK(list, d),
         NoRepairs(list)
  PROVE  Accepted(w, d, list) \in Accepts(e)
<1>1. /\ w.d \in Rows /\ w.calls \in Seq(Call) /\ Sound(w.d) /\ Kept(e, w.d) /\ ListOK(w.calls, w.d)
      /\ NoRepairs(w.calls)
      /\ w.accepted \in Nat /\ w.failed \in Nat
  BY DEF Accepts
<1>2. Kept(e, d)
  BY <1>1, KeptTrans
<1>3. ListOK(w.calls, d)
  BY <1>1, GrowsKeeps DEF Kept
<1>4. ListOK(w.calls \o list, d) /\ NoRepairs(w.calls \o list)
  <2>1. w.calls \in Seq(Call) /\ list \in Seq(Call)
    BY <1>3 DEF ListOK
  <2>2. /\ w.calls \o list \in Seq(Call) /\ Len(w.calls \o list) = Len(w.calls) + Len(list)
        /\ Len(w.calls) \in Nat /\ Len(list) \in Nat
        /\ \A i \in 1..(Len(w.calls) + Len(list)) :
             (w.calls \o list)[i] = IF i <= Len(w.calls) THEN w.calls[i] ELSE list[i - Len(w.calls)]
    BY <2>1, ConcatProperties, LenProperties
  <2>3. ASSUME NEW i \in 1..Len(w.calls \o list) 
        PROVE  Refers((w.calls \o list)[i], d) /\ (w.calls \o list)[i].by # "repair"
    <3>1. CASE i <= Len(w.calls)
      BY <1>1, <1>3, <2>2, <3>1 DEF ListOK, NoRepairs
    <3>2. CASE ~(i <= Len(w.calls))
      <4>1. i - Len(w.calls) \in 1..Len(list)
        BY <2>2, <3>2
      <4>2. QED
        BY <2>2, <3>2, <4>1 DEF ListOK, NoRepairs
    <3>3. QED
      BY <3>1, <3>2
  <2>4. QED
    BY <2>2, <2>3 DEF ListOK, NoRepairs
<1> DEFINE both == w.calls \o list
<1>6. ListOK(both, d) /\ NoRepairs(both) /\ both \in Seq(Call) /\ d \in Rows
  BY <1>4 DEF ListOK, Sound
<1>7. w.accepted + 1 \in Nat
  BY <1>1
<1>8. Accepted(w, d, list) = [d |-> d, calls |-> both, accepted |-> w.accepted + 1,
                              failed |-> w.failed]
  BY DEF Accepted
<1> HIDE DEF both
<1>5. QED
  BY <1>1, <1>2, <1>6, <1>7, <1>8 DEF Accepts

\* The one call for the operation d has just got.
LEMMA OneCall ==
  ASSUME NEW d, Sound(d), NEW a \in Accounts, NEW op \in 1..Len(d.ops), d.ops[op].user = a
  PROVE  /\ SyncCall("selection", a, op, "stored") \in Call
         /\ ListOK(<<SyncCall("selection", a, op, "stored")>>, d)
         /\ NoRepairs(<<SyncCall("selection", a, op, "stored")>>)
<1> DEFINE c == SyncCall("selection", a, op, "stored")
<1>1. Len(d.ops) \in Nat
  BY DbSound
<1>2. c \in Call /\ Refers(c, d) /\ c.by # "repair"
  BY <1>1, BulkAssumption DEF SyncCall, Call, Refers
<1> HIDE DEF c
<1>3. QED
  BY <1>2 DEF ListOK, NoRepairs, c

LEMMA ChangesAccept ==
  ASSUME NEW e, Sound(e), NEW w \in Accepts(e), NEW a \in Accounts, NEW v \in BOOLEAN
  PROVE  /\ Change(w, a, "disable", "disabled", v) \in Accepts(e)
         /\ Change(w, a, "update", "assigned", v) \in Accepts(e)
<1>1. /\ w.d \in Rows /\ Sound(w.d) /\ Kept(w.d, w.d) /\ ListOK(<<>>, w.d) /\ NoRepairs(<<>>)
  BY KeptTrans DEF Accepts, ListOK, NoRepairs
<1>2. Accepted(w, w.d, <<>>) \in Accepts(e) /\ Refused(w) \in Accepts(e)
  BY <1>1, AcceptedAccepts, RefusedAccepts
<1>3. ASSUME NEW cmd \in Command \ {"delete", "retry"}, ~Rejects(cmd, a, w.d)
      PROVE  LET d == Requested(cmd, a, w.d)
                 list == <<SyncCall("selection", a, Len(d.ops), "stored")>>
             IN /\ Accepted(w, [d EXCEPT !.acct[a].disabled = v], list) \in Accepts(e)
                /\ Accepted(w, [d EXCEPT !.acct[a].assigned = v], list) \in Accepts(e)
  <2> DEFINE d == Requested(cmd, a, w.d)
             list == <<SyncCall("selection", a, Len(d.ops), "stored")>>
  <2>1. /\ Sound(d) /\ Kept(w.d, d) /\ Len(d.ops) \in 1..Len(d.ops) /\ d.ops[Len(d.ops)].user = a
    BY <1>1, <1>3, StartsOnly
  <2> HIDE DEF d
  <2>2. ListOK(list, d) /\ NoRepairs(list)
    BY <2>1, OneCall
  <2> HIDE DEF list
  <2>3. ASSUME NEW d2, NEW row, Put(d, d2, a, row)
        PROVE  Accepted(w, d2, list) \in Accepts(e)
    <3>1. Sound(d2) /\ Kept(d, d2)
      BY <2>3 DEF Put
    <3>2. Kept(w.d, d2)
      BY <1>1, <2>1, <3>1, KeptTrans
    <3>3. ListOK(list, d2)
      BY <2>1, <2>2, <3>1, GrowsKeeps DEF Kept
    <3>4. QED
      BY <2>2, <3>1, <3>2, <3>3, AcceptedAccepts
  <2>4. Accepted(w, [d EXCEPT !.acct[a].disabled = v], list) \in Accepts(e)
    BY <2>1, <2>3, PutDisabled
  <2>5. Accepted(w, [d EXCEPT !.acct[a].assigned = v], list) \in Accepts(e)
    BY <2>1, <2>3, PutAssigned
  <2>6. QED
    BY <2>4, <2>5 DEF d, list
<1>4. "disable" \in Command \ {"delete", "retry"} /\ "update" \in Command \ {"delete", "retry"}
  BY DEF Command
<1>5. Change(w, a, "disable", "disabled", v) \in Accepts(e)
  BY <1>2, <1>3, <1>4 DEF Change
<1>6. Change(w, a, "update", "assigned", v) \in Accepts(e)
  BY <1>2, <1>3, <1>4 DEF Change
<1>7. QED
  BY <1>5, <1>6

LEMMA RetriesAccept ==
  ASSUME NEW e, Sound(e), NEW w \in Accepts(e), NEW a \in Accounts
  PROVE  RetryAccount(w, a) \in Accepts(e)
<1> DEFINE failed == FailedOps(a, w.d)
           list == [n \in DOMAIN failed |-> SyncCall("selection", a, failed[n], "stored")]
           S == {o \in 1..Len(w.d.ops) :
                   w.d.ops[o].user = a /\ w.d.ops[o].status \in {"failed", "partially_failed"}}
<1>1. Sound(w.d) /\ Kept(w.d, w.d) /\ Len(w.d.ops) \in Nat
  BY KeptTrans, DbSound DEF Accepts
<1>2. failed \in Seq(S \cap 1..Len(w.d.ops))
  BY <1>1, AscendingTyped DEF FailedOps
<1>3. /\ Len(failed) \in Nat /\ DOMAIN failed = 1..Len(failed)
      /\ \A n \in 1..Len(failed) : failed[n] \in 1..Len(w.d.ops) /\ w.d.ops[failed[n]].user = a
  BY <1>2, LenProperties, ElementOfSeq
<1> HIDE DEF failed
<1>4. \A n \in 1..Len(failed) : list[n] \in Call /\ Refers(list[n], w.d) /\ list[n].by # "repair"
  <2>1. ASSUME NEW n \in 1..Len(failed)
        PROVE  SyncCall("selection", a, failed[n], "stored") \in Call
               /\ Refers(SyncCall("selection", a, failed[n], "stored"), w.d)
               /\ SyncCall("selection", a, failed[n], "stored").by # "repair"
    BY <1>1, <1>3, BulkAssumption DEF SyncCall, Call, Refers
  <2>2. QED
    BY <1>3, <2>1
<1>5. ListOK(list, w.d) /\ NoRepairs(list)
  <2>1. list \in Seq(Call) /\ Len(list) = Len(failed)
    BY <1>3, <1>4, IsASeq, LenProperties
  <2>2. QED
    BY <1>4, <2>1 DEF ListOK, NoRepairs
<1> HIDE DEF list
<1>6. Accepted(w, w.d, list) \in Accepts(e) /\ Refused(w) \in Accepts(e)
  BY <1>1, <1>5, AcceptedAccepts, RefusedAccepts
<1>7. QED
  BY <1>6 DEF RetryAccount, failed, list

LEMMA ApplyAccepts ==
  ASSUME NEW e, Sound(e), NEW w \in Accepts(e), NEW a \in Accounts, NEW action \in SelectionAction
  PROVE  Apply(w, a, action) \in Accepts(e)
<1>1. Refused(w) \in Accepts(e)
  BY RefusedAccepts
<1>2. \A v \in BOOLEAN : /\ Change(w, a, "disable", "disabled", v) \in Accepts(e)
                          /\ Change(w, a, "update", "assigned", v) \in Accepts(e)
  BY ChangesAccept
<1>3. RetryAccount(w, a) \in Accepts(e)
  BY RetriesAccept
<1>4. QED
  BY <1>1, <1>2, <1>3 DEF Apply, SelectionAction

\* A selection is accepted by the fold over its accounts.
LEMMA SelectionTyped ==
  ASSUME OpsInv, NEW selection \in Seq(Accounts), NEW action \in SelectionAction
  PROVE  FoldLeft(LAMBDA v, a : Apply(v, a, action),
                  [d |-> db, calls |-> <<>>, accepted |-> 0, failed |-> 0],
                  selection) \in Accepts(db)
<1> DEFINE D == DOMAIN selection
           V == Accepts(db)
           base == [d |-> db, calls |-> <<>>, accepted |-> 0, failed |-> 0]
           step == [x \in V \X D |-> Apply(x[1], selection[x[2]], action)]
           Scans(it) == it = [s \in SUBSET D |->
                           IF s = {} THEN base
                           ELSE Apply(it[s \ {Max(s)}], selection[Max(s)], action)]
<1>1. base \in V
  <2>1. Sound(db) /\ Kept(db, db) /\ ListOK(<<>>, db) /\ NoRepairs(<<>>) /\ db \in Rows
    BY KeptTrans DEF OpsInv, ListOK, NoRepairs, Sound
  <2>2. base \in [d : Rows, calls : Seq(Call), accepted : Nat, failed : Nat]
    BY <2>1
  <2>3. QED
    BY <2>1, <2>2 DEF Accepts
<1>2. D = 1..Len(selection) /\ Len(selection) \in Nat
  BY LenProperties
<1>3. D \in SUBSET Nat /\ IsFiniteSet(D) /\ \A k \in D : selection[k] \in Accounts
  BY <1>2, FS_Interval, ElementOfSeq
<1>40. \A v \in V, k \in D : Apply(v, selection[k], action) \in V
  BY <1>3, ApplyAccepts DEF OpsInv
<1> HIDE DEF V
<1>4. step \in [V \X D -> V]
  BY <1>40
<1> HIDE DEF D, base, step
<1>5. PICK it : IsFold(it, D, V, base, step)
  BY <1>1, <1>3, <1>4, FoldExists
<1>55. it \in [SUBSET D -> V] /\ \A s \in SUBSET D :
         it[s] = IF s = {} THEN base ELSE step[<<it[s \ {Max(s)}], Max(s)>>]
  BY <1>5 DEF IsFold
<1>6. ASSUME NEW s \in SUBSET D, s # {}
      PROVE  Max(s) \in D /\ s \ {Max(s)} \in SUBSET D
  BY <1>3, <1>6, MaxOf, FS_Subset
<1>7. Scans(it)
  <2>1. ASSUME NEW s \in SUBSET D
        PROVE  it[s] = IF s = {} THEN base
                       ELSE Apply(it[s \ {Max(s)}], selection[Max(s)], action)
    <3>1. CASE s = {}
      BY <1>55, <3>1
    <3>2. CASE s # {}
      <4> DEFINE r == it[s \ {Max(s)}]
                 k == Max(s)
      <4>1. r \in V /\ k \in D
        BY <1>55, <1>6, <3>2
      <4>2. it[s] = step[<<r, k>>]
        BY <1>55, <3>2
      <4> HIDE DEF r, k
      <4>3. step[<<r, k>>] = Apply(r, selection[k], action)
        BY <4>1 DEF step
      <4>4. QED
        BY <3>2, <4>2, <4>3 DEF r, k
    <3>3. QED
      BY <3>1, <3>2
  <2>2. QED
    BY <1>55, <2>1
<1> DEFINE chosen == CHOOSE f : Scans(f)
<1>8. Scans(chosen)
  <2> HIDE DEF Scans
  <2>1. QED
    BY <1>7
<1>9. FoldLeft(LAMBDA v, a : Apply(v, a, action), base, selection) = chosen[D]
  BY DEF FoldLeft, MapThenFoldSet, D, base
<1> HIDE DEF chosen
<1>10. \A s \in SUBSET D :
         chosen[s] = IF s = {} THEN base
                     ELSE Apply(chosen[s \ {Max(s)}], selection[Max(s)], action)
  <2> HIDE DEF Max
  <2>1. QED
    BY <1>8
<1> HIDE DEF Scans
<1>11. chosen[{}] \in V
  BY <1>1, <1>10
<1>12. ASSUME NEW s \in SUBSET D, s # {}, chosen[s \ {Max(s)}] \in V
       PROVE  chosen[s] \in V
  <2> DEFINE r == chosen[s \ {Max(s)}]
             k == Max(s)
  <2>1. r \in V /\ k \in D
    BY <1>6, <1>12
  <2>2. chosen[s] = Apply(r, selection[k], action)
    BY <1>10, <1>12
  <2> HIDE DEF r, k
  <2>3. QED
    BY <1>40, <2>1, <2>2
<1>13. chosen[D] \in V
  BY <1>3, <1>11, <1>12, FoldStays
<1>14. QED
  BY <1>9, <1>13 DEF V, base
-----------------------------------------------------------------------------
(***************************************************************************)
(* Every step of a bulk job keeps its invariant.                           *)
(***************************************************************************)
\* At most one execution of the job was asked for.
Lone(r) == \A k, k2 \in Runners : r[k] # "idle" /\ r[k2] # "idle" => k = k2

\* The counts of a job that has ended, executed once, are those of its rows, and
\* its execution is over.
CountsOK(j, rs, r) ==
  j.status \in {"completed", "partially_failed", "failed"} /\ Lone(r) =>
    /\ j.succeeded = Count(rs, "succeeded")
    /\ j.failed = Len(rs) - j.succeeded
    /\ \A k \in Runners : r[k] \notin {"scheduled", "running"}

NamesOK == Distinct(jobRows) /\ Blank(jobRows)

BulkInv ==
  BulkTypeOK /\ RowsOK(jobRows, db) /\ CountsOK(job, jobRows, runner) /\ NamesOK

BulkSafe == OpsInv /\ BulkInv

LEMMA CountTyped ==
  ASSUME NEW rs \in Seq(JobRow), NEW result
  PROVE  Count(rs, result) \in Nat /\ Count(rs, result) <= Len(rs)
<1> DEFINE S == {i \in DOMAIN rs : rs[i].result = result}
<1>1. Len(rs) \in Nat /\ DOMAIN rs = 1..Len(rs)
  BY LenProperties
<1>2. IsFiniteSet(1..Len(rs)) /\ Cardinality(1..Len(rs)) = Len(rs)
  BY <1>1, FS_Interval
<1>3. S \subseteq 1..Len(rs)
  BY <1>1
<1> HIDE DEF S
<1>4. IsFiniteSet(S) /\ Cardinality(S) <= Len(rs) /\ Cardinality(S) \in Nat
  BY <1>2, <1>3, FS_Subset, FS_CardinalityType
<1>5. QED
  BY <1>4 DEF Count, S

LEMMA FinalJobTyped ==
  ASSUME NEW rs \in Seq(JobRow)
  PROVE  LET j == FinalJob(rs)
         IN /\ j \in [status : JobStatus, succeeded : Nat, failed : Nat]
            /\ j.status \in {"completed", "partially_failed", "failed"}
            /\ j.succeeded = Count(rs, "succeeded") /\ j.failed = Len(rs) - j.succeeded
<1>1. Count(rs, "succeeded") \in Nat /\ Count(rs, "succeeded") <= Len(rs) /\ Len(rs) \in Nat
  BY CountTyped, LenProperties
<1> DEFINE done == Count(rs, "succeeded")
<1> HIDE DEF done
<1>2. Len(rs) - done \in Nat
  BY <1>1 DEF done
<1>3. QED
  BY <1>1, <1>2 DEF FinalJob, JobStatus, done

\* What other requests, the retry worker and the sessions do.
LEMMA OthersKeepBulk ==
  ASSUME BulkSafe, OpsInv', Grows(db, db'), UNCHANGED bulkVars
  PROVE  BulkSafe'
<1>1. RowsOK(jobRows, db)'
  BY RowsStay DEF BulkSafe, BulkInv, OpsInv, bulkVars
<1>2. BulkTypeOK' /\ CountsOK(job, jobRows, runner)' /\ NamesOK'
  BY DEF BulkSafe, BulkInv, bulkVars, BulkTypeOK, CountsOK, Lone, NamesOK
<1>3. QED
  BY <1>1, <1>2 DEF BulkSafe, BulkInv

LEMMA NothingDone ==
  ASSUME OpsInv, UNCHANGED opVars
  PROVE  OpsInv'
BY DEF opVars, OpsInv, CallsOK, SessionsOK, TodoOK, MeanwhileOK

LEMMA JobPreviews ==
  ASSUME BulkSafe, NEW upload \in Uploads, PreviewBulkWorkflow(upload)
  PROVE  BulkSafe'
<1> DEFINE N == Len(upload)
           row(i) == [user |-> upload[i].user, action |-> upload[i].action,
                      result |-> IF Valid(upload, i) THEN "pending" ELSE "invalid",
                      op |-> NoOp, password |-> "none"]
           bad == {i \in DOMAIN upload : ~Valid(upload, i)}
<1>1. upload \in Seq([user : Accounts, action : {"onboard", "offboard"}])
  BY BulkAssumption
<1>2. N \in Nat /\ DOMAIN upload = 1..N
      /\ \A i \in 1..N : upload[i] \in [user : Accounts, action : {"onboard", "offboard"}]
  BY <1>1, LenProperties, ElementOfSeq
<1>3. \A i \in 1..N : row(i) \in JobRow /\ row(i).result \in {"pending", "invalid"}
  BY <1>2 DEF JobRow, RowStatus, NoOp
<1>4. jobRows' = [i \in 1..N |-> row(i)]
  BY <1>2 DEF PreviewBulkWorkflow
<1>12. NamesOK'
  <2>1. /\ DOMAIN jobRows' = 1..N /\ Len(jobRows') = N
        /\ \A i \in 1..N : jobRows'[i] = row(i)
    BY <1>2, <1>4
  <2>2. \A i \in 1..N : row(i).op = 0 /\ row(i).user = upload[i].user
                        /\ (row(i).result # "invalid" => Valid(upload, i))
    BY DEF NoOp
  <2>3. ASSUME NEW i \in 1..N, NEW j \in 1..N, row(i).result # "invalid",
               row(j).result # "invalid", row(i).user = row(j).user
        PROVE  i = j
    <3>1. \A k \in 1..N, m \in 1..N :
            k < m /\ Valid(upload, m) => upload[k].user # upload[m].user
      BY <1>2 DEF Valid
    <3>2. Valid(upload, i) /\ Valid(upload, j) /\ upload[i].user = upload[j].user
      BY <2>2, <2>3
    <3>3. ~(i < j) /\ ~(j < i)
      BY <3>1, <3>2
    <3>4. QED
      BY <1>2, <3>3
  <2> HIDE DEF row
  <2>4. Blank(jobRows')
    BY <2>1, <2>2 DEF Blank
  <2>5. Distinct(jobRows')
    BY <2>1, <2>3 DEF Distinct
  <2>6. QED
    BY <2>4, <2>5 DEF NamesOK
<1> HIDE DEF row
<1>5. jobRows' \in Seq(JobRow) /\ Len(jobRows') = N
      /\ \A i \in 1..N : jobRows'[i].result \in {"pending", "invalid"}
  BY <1>2, <1>3, <1>4
<1>6. Cardinality(bad) \in Nat
  <2>1. IsFiniteSet(1..N) /\ bad \subseteq 1..N
    BY <1>2, FS_Interval
  <2>2. QED
    BY <2>1, FS_Subset, FS_CardinalityType
<1> HIDE DEF bad, N
<1>7. job' = [job EXCEPT !.status = "previewed", !.failed = Cardinality(bad)]
  BY DEF PreviewBulkWorkflow, bad
<1>8. BulkTypeOK' /\ job'.status = "previewed"
  BY <1>5, <1>6, <1>7 DEF BulkSafe, BulkInv, BulkTypeOK, JobStatus, PreviewBulkWorkflow
<1>9. RowsOK(jobRows', db') /\ CountsOK(job', jobRows', runner')
  BY <1>5, <1>8 DEF RowsOK, CountsOK
<1>10. OpsInv'
  BY NothingDone DEF PreviewBulkWorkflow, BulkSafe
<1>11. QED
  BY <1>8, <1>9, <1>10, <1>12 DEF BulkSafe, BulkInv

LEMMA JobExecutes ==
  ASSUME BulkSafe, NEW k \in Runners, ExecuteBulkWorkflow(k)
  PROVE  BulkSafe'
<1>1. /\ OpsInv /\ BulkTypeOK /\ RowsOK(jobRows, db) /\ Len(jobRows) \in Nat /\ jobRows \in Seq(JobRow)
      /\ NamesOK
  BY LenProperties DEF BulkSafe, BulkInv, BulkTypeOK
<1>2. /\ Sound(db') /\ Kept(db, db') /\ RowsOK(jobRows', db') /\ jobRows' \in Seq(JobRow)
      /\ NamesOK'
  <2>1. CASE job.status = "previewed"
    <3>1. PreparedTo(Len(jobRows), Prepared)
      BY <1>1, PreparedRows DEF NamesOK
    <3>2. db' = Prepared.d /\ jobRows' = Prepared.rows
      BY <2>1 DEF ExecuteBulkWorkflow
    <3>3. Prepared \in Prepares(db, Len(jobRows)) /\ Blank(Prepared.rows)
      BY <3>1 DEF PreparedTo
    <3>4. Len(jobRows') = Len(jobRows)
      BY <3>2, <3>3 DEF Prepares
    <3>5. Distinct(jobRows')
      BY <1>1, <3>1, <3>2, <3>4 DEF PreparedTo, Distinct, NamesOK
    <3>6. QED
      BY <3>2, <3>3, <3>5 DEF Prepares, NamesOK
  <2>2. CASE job.status # "previewed"
    <3>1. UNCHANGED <<db, jobRows>>
      BY <2>2 DEF ExecuteBulkWorkflow
    <3>2. NamesOK'
      BY <1>1, <3>1 DEF NamesOK
    <3>3. QED
      BY <1>1, <3>1, <3>2, KeptTrans DEF OpsInv
  <2>3. QED
    BY <2>1, <2>2
<1>3. MeanwhileOK(meanwhile')
  <2>1. CASE k = "bulk1"
    BY <1>1, <2>1 DEF ExecuteBulkWorkflow, OpsInv
  <2>2. CASE k # "bulk1"
    BY <1>1, <2>2, AsksKeeps DEF ExecuteBulkWorkflow
  <2>3. QED
    BY <2>1, <2>2
<1>4. OpsInv'
  BY <1>1, <1>2, <1>3, NothingJoins, HandlerKeeps DEF ExecuteBulkWorkflow
<1>5. job' \in [status : JobStatus, succeeded : Nat, failed : Nat] /\ job'.status \in {"running"}
  BY <1>1 DEF ExecuteBulkWorkflow, BulkTypeOK, JobStatus
<1>6. BulkTypeOK'
  BY <1>1, <1>2, <1>5 DEF ExecuteBulkWorkflow, BulkTypeOK
<1>7. CountsOK(job', jobRows', runner')
  BY <1>5 DEF CountsOK
<1>8. QED
  BY <1>2, <1>4, <1>6, <1>7 DEF BulkSafe, BulkInv

\* The job's execution k goes on, or ends it.
LEMMA GoesOnCounts ==
  ASSUME BulkTypeOK, CountsOK(job, jobRows, runner), NEW k \in Runners,
         runner[k] \in {"scheduled", "running"}, NEW rs \in Seq(JobRow),
         \/ Finish(k, rs)
         \/ /\ UNCHANGED job
            /\ \E r \in {"running", "raised"} : runner' = [runner EXCEPT ![k] = r]
  PROVE  /\ job' \in [status : JobStatus, succeeded : Nat, failed : Nat]
         /\ runner' \in [Runners \cup {"selection"} ->
                           {"idle", "scheduled", "running", "ended", "raised", "lost"}]
         /\ CountsOK(job', rs, runner')
<1>1. /\ runner' \in [Runners \cup {"selection"} ->
                        {"idle", "scheduled", "running", "ended", "raised", "lost"}]
      /\ \A j \in Runners : j # k => runner'[j] = runner[j]
      /\ runner'[k] # "idle" /\ runner[k] # "idle"
  BY DEF BulkTypeOK, Finish
<1>2. Lone(runner') => Lone(runner)
  BY <1>1 DEF Lone
<1>3. job.status \in {"completed", "partially_failed", "failed"} => ~Lone(runner')
  BY <1>2 DEF CountsOK
<1>4. job' \in [status : JobStatus, succeeded : Nat, failed : Nat]
  BY FinalJobTyped DEF BulkTypeOK, Finish
<1>5. CASE Finish(k, rs)
  <2>1. CASE job.status = "running"
    <3>1. job' = FinalJob(rs) /\ runner'[k] = "ended"
      BY <1>5, <2>1 DEF Finish, BulkTypeOK
    <3>2. Lone(runner') => \A j \in Runners : runner'[j] \notin {"scheduled", "running"}
      BY <3>1 DEF Lone
    <3>3. QED
      BY <1>1, <1>4, <3>1, <3>2, FinalJobTyped DEF CountsOK
  <2>2. CASE job.status # "running"
    <3>1. job' = job
      BY <1>5, <2>2 DEF Finish
    <3>2. QED
      BY <1>1, <1>3, <1>4, <3>1 DEF CountsOK
  <2>3. QED
    BY <2>1, <2>2
<1>6. CASE UNCHANGED job
  BY <1>1, <1>3, <1>4, <1>6 DEF CountsOK
<1>7. QED
  BY <1>5, <1>6

\* The calls of the execution k, one for each queued row.
LEMMA CallsOfJob ==
  ASSUME BulkSafe, NEW k \in Runners
  PROVE  LET list == [n \in DOMAIN QueuedRows |-> RowCall(k, QueuedRows[n])]
         IN list \in Seq(Call) /\ ListOK(list, db)
<1> DEFINE N == Len(jobRows)
           queued == QueuedRows
           S == {i \in DOMAIN jobRows : jobRows[i].result = "queued"}
           list == [n \in DOMAIN queued |-> RowCall(k, queued[n])]
<1>1. /\ RowsOK(jobRows, db) /\ N \in Nat /\ jobRows \in Seq(JobRow) /\ Len(db.ops) \in Nat
  BY LenProperties, DbSound DEF BulkSafe, BulkInv, BulkTypeOK, OpsInv
<1>2. queued \in Seq(S \cap 1..N)
  BY <1>1, AscendingTyped DEF QueuedRows
<1>3. /\ Len(queued) \in Nat /\ DOMAIN queued = 1..Len(queued)
      /\ \A n \in 1..Len(queued) : queued[n] \in 1..N /\ jobRows[queued[n]].result = "queued"
  BY <1>2, LenProperties, ElementOfSeq
<1> HIDE DEF queued
<1>4. ASSUME NEW n \in 1..Len(queued)
      PROVE  list[n] \in Call /\ Refers(list[n], db)
  <2>1. jobRows[queued[n]] \in JobRow
    BY <1>1, <1>3, ElementOfSeq
  <2>2. jobRows[queued[n]].op \in 1..Len(db.ops)
        /\ db.ops[jobRows[queued[n]].op].user = jobRows[queued[n]].user
    BY <1>1, <1>3 DEF RowsOK
  <2> DEFINE c == RowCall(k, queued[n])
  <2>3. c \in Call /\ Refers(c, db)
    BY <1>1, <2>1, <2>2, BulkAssumption DEF RowCall, SyncCall, Call, Refers, JobRow
  <2> HIDE DEF c
  <2>4. QED
    BY <1>3, <2>3 DEF c
<1>5. list \in Seq(Call) /\ Len(list) = Len(queued)
  BY <1>3, <1>4, IsASeq, LenProperties
<1>6. ListOK(list, db)
  BY <1>4, <1>5 DEF ListOK
<1>7. QED
  BY <1>5, <1>6 DEF queued

LEMMA JobRuns ==
  ASSUME BulkSafe, NEW k \in Runners, RunBulkWorkflow(k)
  PROVE  BulkSafe'
<1> DEFINE list == [n \in DOMAIN QueuedRows |-> RowCall(k, QueuedRows[n])]
<1>1. /\ OpsInv /\ BulkTypeOK /\ RowsOK(jobRows, db) /\ jobRows \in Seq(JobRow)
      /\ CountsOK(job, jobRows, runner)
  BY DEF BulkSafe, BulkInv, BulkTypeOK
<1>2. ListOK(list, db)
  BY CallsOfJob
<1>3. Begins(k, list) /\ UNCHANGED <<db, sessions, meanwhile>>
  BY DEF RunBulkWorkflow
<1> HIDE DEF list
<1>4. OpsInv'
  <2>1. Sound(db') /\ Kept(db, db') /\ ListOK(list, db') /\ MeanwhileOK(meanwhile')
    BY <1>1, <1>2, <1>3, KeptTrans DEF OpsInv
  <2>2. k \in Coroutines
    BY BulkAssumption
  <2>3. QED
    BY <1>1, <1>3, <2>1, <2>2, BeginsKeeps
<1>5. UNCHANGED <<jobRows, confirmed, db>> /\ NamesOK'
  BY DEF RunBulkWorkflow, BulkSafe, BulkInv, NamesOK
<1>6. /\ job' \in [status : JobStatus, succeeded : Nat, failed : Nat]
      /\ runner' \in [Runners \cup {"selection"} ->
                        {"idle", "scheduled", "running", "ended", "raised", "lost"}]
      /\ CountsOK(job', jobRows, runner')
  BY <1>1, GoesOnCounts DEF RunBulkWorkflow
<1>7. QED
  BY <1>1, <1>4, <1>5, <1>6 DEF BulkSafe, BulkInv, BulkTypeOK

\* The operations an execution waits for are there.
LEMMA AwaitedOps ==
  ASSUME OpsInv, NEW k
  PROVE  \A o \in OpOf(k) : o \in 1..Len(db.ops)
<1>1. \A c \in Awaits(k) : c.op \in 1..Len(db.ops)
  BY CallTyped DEF Awaits, Refers
<1>2. \A s \in Holds(k) : s.op \in 1..Len(db.ops)
  BY DEF Holds, OpsInv, SessionsOK, Refers
<1>3. QED
  BY <1>1, <1>2 DEF OpOf

LEMMA RowResultsOK ==
  ASSUME NEW d, NEW e, Sound(d), Sound(e), Grows(d, e), RowsOK(jobRows, d), NEW k,
         \A o \in OpOf(k) : o \in 1..Len(d.ops)
  PROVE  /\ RowsOK(RowResults(k, e), e)
         /\ Distinct(jobRows) /\ Blank(jobRows) =>
              Distinct(RowResults(k, e)) /\ Blank(RowResults(k, e))
<1> DEFINE rs == RowResults(k, e)
           new(i) == IF jobRows[i].op \in OpOf(k)
                     THEN [jobRows[i] EXCEPT
                             !.result = IF e.ops[jobRows[i].op].status = "succeeded"
                                        THEN "succeeded" ELSE "failed"]
                     ELSE jobRows[i]
           N == Len(jobRows)
<1>1. /\ jobRows \in Seq(JobRow) /\ N \in Nat /\ DOMAIN jobRows = 1..N
      /\ \A i \in 1..N : jobRows[i] \in JobRow
  BY LenProperties, ElementOfSeq DEF RowsOK
<1>2. Len(d.ops) \in Nat /\ Len(e.ops) \in Nat /\ Len(d.ops) <= Len(e.ops)
  BY DbSound DEF Grows
<1>3. RowsOK(jobRows, e)
  BY RowsStay
<1>4. ASSUME NEW i \in 1..N
      PROVE  /\ new(i) \in JobRow
             /\ new(i).result \in {"queued", "succeeded"} =>
                  /\ new(i).op \in 1..Len(e.ops)
                  /\ new(i).result = "queued" => e.ops[new(i).op].user = new(i).user
                  /\ new(i).result = "succeeded" => e.ops[new(i).op].status = "succeeded"
  <2>1. CASE jobRows[i].op \in OpOf(k)
    <3>1. jobRows[i].op \in 1..Len(e.ops)
      BY <1>2, <2>1
    <3>2. QED
      BY <1>1, <2>1, <3>1 DEF JobRow, RowStatus
  <2>2. CASE jobRows[i].op \notin OpOf(k)
    BY <1>1, <1>3, <2>2 DEF RowsOK
  <2>3. QED
    BY <2>1, <2>2
<1>5. rs = [i \in 1..N |-> new(i)]
  BY <1>1 DEF RowResults
<1> HIDE DEF new, rs
<1>6. rs \in Seq(JobRow) /\ Len(rs) = N /\ \A i \in 1..N : rs[i] = new(i)
  BY <1>1, <1>4, <1>5
<1>7. RowsOK(rs, e)
  BY <1>4, <1>6 DEF RowsOK
<1>8. ASSUME Distinct(jobRows), Blank(jobRows)
      PROVE  Distinct(rs) /\ Blank(rs)
  <2>1. 0 \notin OpOf(k)
    BY <1>2
  <2>2. \A i \in 1..N : /\ new(i).user = jobRows[i].user /\ new(i).op = jobRows[i].op
                        /\ new(i).result = "invalid" <=> jobRows[i].result = "invalid"
                        /\ new(i).result = "pending" => jobRows[i].result = "pending"
    BY <1>1, <1>8, <2>1 DEF new, JobRow, Blank
  <2>3. QED
    BY <1>1, <1>6, <1>8, <2>2 DEF Distinct, Blank
<1>9. QED
  BY <1>7, <1>8 DEF rs

\* A call of the coroutine by came back, and by went on or broke off.
LEMMA CameBack ==
  ASSUME OpsInv, NEW by \in Coroutines, ComesBack, GoesOn(by) \/ Breaks(by), UNCHANGED meanwhile
  PROVE  OpsInv'
<1>1. CallsOK(calls', db') /\ TodoOK(todo', db')
  BY GoesOnKeeps, BreaksKeeps
<1>2. Sound(db') /\ SessionsOK(sessions', db')
  BY DEF ComesBack
<1>3. MeanwhileOK(meanwhile')
  BY DEF OpsInv
<1>4. QED
  BY <1>1, <1>2, <1>3 DEF OpsInv

LEMMA JobRowReturns ==
  ASSUME BulkSafe, NEW k \in Runners, BulkRowReturns(k)
  PROVE  BulkSafe'
<1>1. /\ OpsInv /\ BulkTypeOK /\ RowsOK(jobRows, db) /\ jobRows \in Seq(JobRow)
      /\ CountsOK(job, jobRows, runner) /\ k \in Coroutines
  BY BulkAssumption DEF BulkSafe, BulkInv, BulkTypeOK
<1>2. ComesBack
  BY <1>1, ReturnsComesBack DEF BulkRowReturns
<1>3. OpsInv'
  BY <1>1, <1>2, CameBack DEF BulkRowReturns
<1>4. RowsOK(jobRows', db') /\ NamesOK'
  <2>1. \A o \in OpOf(k) : o \in 1..Len(db.ops)
    BY <1>1, AwaitedOps
  <2>2. Sound(db) /\ Sound(db') /\ Grows(db, db')
    BY <1>1, <1>2 DEF OpsInv, ComesBack
  <2>3. jobRows' = RowResults(k, db')
    BY DEF BulkRowReturns
  <2>4. QED
    BY <1>1, <2>1, <2>2, <2>3, RowResultsOK DEF BulkSafe, BulkInv, NamesOK
<1>5. jobRows' \in Seq(JobRow)
  BY <1>4 DEF RowsOK
<1>6. runner[k] = "running"
  BY DEF BulkRowReturns
<1>7. /\ job' \in [status : JobStatus, succeeded : Nat, failed : Nat]
      /\ runner' \in [Runners \cup {"selection"} ->
                        {"idle", "scheduled", "running", "ended", "raised", "lost"}]
      /\ CountsOK(job', jobRows', runner')
  <2>1. CASE Finish(k, jobRows')
    BY <1>1, <1>5, <1>6, <2>1, GoesOnCounts
  <2>2. CASE UNCHANGED <<job, runner>>
    <3>1. job.status \in {"completed", "partially_failed", "failed"} => ~Lone(runner)
      BY <1>1, <1>6 DEF CountsOK
    <3>2. QED
      BY <1>1, <2>2, <3>1 DEF CountsOK, BulkTypeOK
  <2>3. QED
    BY <2>1, <2>2 DEF BulkRowReturns
<1>8. confirmed' = confirmed
  BY DEF BulkRowReturns
<1>9. QED
  BY <1>1, <1>3, <1>4, <1>5, <1>7, <1>8 DEF BulkSafe, BulkInv, BulkTypeOK

LEMMA JobRowRaises ==
  ASSUME BulkSafe, NEW k \in Runners, BulkRowRaises(k)
  PROVE  BulkSafe'
<1>1. /\ OpsInv /\ BulkTypeOK /\ RowsOK(jobRows, db) /\ jobRows \in Seq(JobRow)
      /\ CountsOK(job, jobRows, runner) /\ k \in Coroutines
  BY BulkAssumption DEF BulkSafe, BulkInv, BulkTypeOK
<1>2. ComesBack
  BY <1>1, ReturnsComesBack DEF BulkRowRaises
<1>3. OpsInv'
  BY <1>1, <1>2, CameBack DEF BulkRowRaises
<1>4. UNCHANGED <<job, jobRows, confirmed>> /\ runner[k] = "running"
      /\ runner' = [runner EXCEPT ![k] = "raised"] /\ NamesOK'
  BY DEF BulkRowRaises, BulkSafe, BulkInv, NamesOK
<1>5. RowsOK(jobRows', db')
  BY <1>1, <1>2, <1>4, RowsStay DEF OpsInv, ComesBack
<1>6. /\ job' \in [status : JobStatus, succeeded : Nat, failed : Nat]
      /\ runner' \in [Runners \cup {"selection"} ->
                        {"idle", "scheduled", "running", "ended", "raised", "lost"}]
      /\ CountsOK(job', jobRows, runner')
  BY <1>1, <1>4, GoesOnCounts
<1>7. QED
  BY <1>1, <1>3, <1>4, <1>5, <1>6 DEF BulkSafe, BulkInv, BulkTypeOK

LEMMA PasswordsDownload ==
  ASSUME BulkSafe, DownloadCredentials
  PROVE  BulkSafe'
<1> DEFINE N == Len(jobRows)
           new(i) == [jobRows[i] EXCEPT !.password = IF @ = "stored" THEN "downloaded" ELSE @]
<1>1. /\ OpsInv /\ BulkTypeOK /\ RowsOK(jobRows, db) /\ jobRows \in Seq(JobRow)
      /\ CountsOK(job, jobRows, runner)
  BY DEF BulkSafe, BulkInv, BulkTypeOK
<1>2. /\ N \in Nat /\ DOMAIN jobRows = 1..N
      /\ \A i \in 1..N : jobRows[i] \in JobRow
  BY <1>1, LenProperties, ElementOfSeq
<1>3. \A i \in 1..N : /\ new(i) \in JobRow /\ new(i).user = jobRows[i].user
                       /\ new(i).op = jobRows[i].op /\ new(i).result = jobRows[i].result
  BY <1>2 DEF JobRow
<1>4. jobRows' = [i \in 1..N |-> new(i)]
  BY <1>2 DEF DownloadCredentials
<1> HIDE DEF new
<1>5. jobRows' \in Seq(JobRow) /\ Len(jobRows') = N /\ DOMAIN jobRows' = 1..N
      /\ \A i \in 1..N : jobRows'[i] = new(i)
  BY <1>2, <1>3, <1>4
<1>6. Count(jobRows', "succeeded") = Count(jobRows, "succeeded")
  <2>1. {i \in DOMAIN jobRows' : jobRows'[i].result = "succeeded"}
          = {i \in DOMAIN jobRows : jobRows[i].result = "succeeded"}
    BY <1>2, <1>3, <1>5
  <2>2. QED
    BY <2>1 DEF Count
<1>7. UNCHANGED <<job, runner, confirmed, opVars>>
  BY DEF DownloadCredentials
<1>8. OpsInv' /\ db' = db
  BY <1>1, <1>7, NothingDone DEF opVars
<1>9. RowsOK(jobRows', db')
  BY <1>1, <1>3, <1>5, <1>8 DEF RowsOK
<1>10. CountsOK(job', jobRows', runner')
  BY <1>1, <1>5, <1>6, <1>7 DEF CountsOK
<1>11. NamesOK'
  BY <1>1, <1>3, <1>5 DEF NamesOK, Distinct, Blank, BulkSafe, BulkInv
<1>12. QED
  BY <1>1, <1>5, <1>7, <1>8, <1>9, <1>10, <1>11 DEF BulkSafe, BulkInv, BulkTypeOK

\* The executions of the job are none of the selection's business.
LEMMA SelectionCounts ==
  ASSUME BulkTypeOK, CountsOK(job, jobRows, runner), UNCHANGED <<job, jobRows>>,
         confirmed' \in ParentStatus,
         NEW r \in {"idle", "running", "ended", "raised"},
         runner' = [runner EXCEPT !["selection"] = r]
  PROVE  BulkTypeOK' /\ CountsOK(job', jobRows', runner') /\ (NamesOK => NamesOK')
<1>1. BulkTypeOK' /\ \A k \in Runners : runner'[k] = runner[k]
  BY BulkAssumption DEF BulkTypeOK
<1>2. QED
  BY <1>1 DEF CountsOK, Lone, NamesOK

LEMMA SelectionBegins ==
  ASSUME BulkSafe, NEW selection \in Selections, NEW action \in SelectionAction,
         BulkExecute(selection, action)
  PROVE  BulkSafe'
<1> DEFINE w == FoldLeft(LAMBDA v, a : Apply(v, a, action),
                         [d |-> db, calls |-> <<>>, accepted |-> 0, failed |-> 0],
                         selection)
<1>1. /\ OpsInv /\ BulkTypeOK /\ RowsOK(jobRows, db) /\ jobRows \in Seq(JobRow)
      /\ CountsOK(job, jobRows, runner) /\ "selection" \in Coroutines
  BY BulkAssumption DEF BulkSafe, BulkInv, BulkTypeOK
<1>2. w \in Accepts(db)
  BY <1>1, SelectionTyped, BulkAssumption
<1>3. /\ db' = w.d /\ Begins("selection", w.calls) /\ UNCHANGED <<job, jobRows, sessions, meanwhile>>
      /\ confirmed' = IF w.failed = 0 THEN "succeeded"
                      ELSE IF w.accepted > 0 THEN "partially_failed" ELSE "failed"
      /\ runner' = [runner EXCEPT !["selection"] = IF w.calls = <<>> THEN "ended" ELSE "running"]
  BY DEF BulkExecute
<1> HIDE DEF w
<1>4. Sound(db') /\ Kept(db, db') /\ ListOK(w.calls, db') /\ MeanwhileOK(meanwhile')
  BY <1>1, <1>2, <1>3 DEF Accepts, OpsInv
<1>5. OpsInv'
  BY <1>1, <1>3, <1>4, BeginsKeeps
<1>6. RowsOK(jobRows', db')
  BY <1>1, <1>3, <1>4, RowsStay DEF OpsInv, Kept
<1>7. confirmed' \in ParentStatus
  BY <1>3 DEF ParentStatus
<1>8. BulkTypeOK' /\ CountsOK(job', jobRows', runner') /\ NamesOK'
  BY <1>1, <1>3, <1>7, SelectionCounts DEF BulkSafe, BulkInv
<1>9. QED
  BY <1>5, <1>6, <1>8 DEF BulkSafe, BulkInv

LEMMA SelectionGoesOn ==
  ASSUME BulkSafe, SelectionStep
  PROVE  BulkSafe'
<1>1. /\ OpsInv /\ BulkTypeOK /\ RowsOK(jobRows, db) /\ jobRows \in Seq(JobRow)
      /\ CountsOK(job, jobRows, runner) /\ "selection" \in Coroutines
  BY BulkAssumption DEF BulkSafe, BulkInv, BulkTypeOK
<1>2. /\ Returns("selection") \/ Raises("selection")
      /\ GoesOn("selection") \/ Breaks("selection")
      /\ UNCHANGED <<job, jobRows, confirmed, meanwhile>>
  BY DEF SelectionStep, SelectionReturns, SelectionRaises
<1>3. ComesBack
  BY <1>1, <1>2, ReturnsComesBack
<1>4. OpsInv'
  BY <1>1, <1>2, <1>3, CameBack
<1>5. RowsOK(jobRows', db')
  BY <1>1, <1>2, <1>3, RowsStay DEF OpsInv, ComesBack
<1>6. confirmed' \in ParentStatus
  BY <1>1, <1>2 DEF BulkTypeOK
<1>7. \E r \in {"idle", "running", "ended", "raised"} : runner' = [runner EXCEPT !["selection"] = r]
  <2>1. CASE SelectionReturns
    <3>1. runner' = [runner EXCEPT !["selection"] = "ended"]
          \/ runner' = [runner EXCEPT !["selection"] = "running"]
      BY <1>1, <2>1 DEF SelectionReturns, BulkTypeOK
    <3>2. QED
      BY <3>1
  <2>2. CASE SelectionRaises
    BY <2>2 DEF SelectionRaises
  <2>3. QED
    BY <2>1, <2>2 DEF SelectionStep
<1>8. BulkTypeOK' /\ CountsOK(job', jobRows', runner') /\ NamesOK'
  BY <1>1, <1>2, <1>6, <1>7, SelectionCounts DEF BulkSafe, BulkInv
<1>9. QED
  BY <1>4, <1>5, <1>8 DEF BulkSafe, BulkInv

LEMMA BulkKeeps ==
  ASSUME BulkSafe, BulkNext
  PROVE  BulkSafe'
<1>1. ASSUME NEW k \in Runners, BulkStep(k) PROVE BulkSafe'
  BY <1>1, JobRuns, JobRowReturns, JobRowRaises DEF BulkStep
<1>2. QED
  BY <1>1, JobPreviews, JobExecutes, PasswordsDownload, SelectionBegins, SelectionGoesOn
     DEF BulkNext, SelectionAction

LEMMA RestartKeepsBulk ==
  ASSUME BulkSafe, OperationsLost, BulkLost
  PROVE  BulkSafe'
<1>1. OpsInv' /\ db' = db
  BY LostKeeps DEF BulkSafe
<1>2. BulkTypeOK /\ RowsOK(jobRows, db) /\ CountsOK(job, jobRows, runner)
  BY DEF BulkSafe, BulkInv
<1>3. UNCHANGED <<job, jobRows, confirmed>>
      /\ runner' = [k \in DOMAIN runner |->
                      IF runner[k] \in {"scheduled", "running"} THEN "lost" ELSE runner[k]]
  BY DEF BulkLost
<1>4. BulkTypeOK' /\ \A k \in Runners : /\ runner'[k] = "idle" <=> runner[k] = "idle"
                                        /\ runner'[k] \notin {"scheduled", "running"}
  BY <1>2, <1>3 DEF BulkTypeOK
<1>5. CountsOK(job', jobRows', runner') /\ NamesOK'
  BY <1>2, <1>3, <1>4 DEF CountsOK, Lone, BulkSafe, BulkInv, NamesOK
<1>6. QED
  BY <1>1, <1>2, <1>3, <1>4, <1>5 DEF BulkSafe, BulkInv

\* The other workflows leave the job as it starts.
Unasked == BulkInit

JobInv == IF explored = "bulk" THEN BulkSafe ELSE Unasked

LEMMA JobStep ==
  JobInv /\ [WorkflowsNext]_allVars => JobInv'
<1> SUFFICES ASSUME JobInv, [WorkflowsNext]_allVars
             PROVE  JobInv'
  OBVIOUS
<1>1. CASE UNCHANGED allVars
  <2>1. UNCHANGED <<opVars, bulkVars, explored>>
    BY <1>1 DEF allVars
  <2>2. OpsInv => OpsInv'
    BY <2>1, NothingDone
  <2>3. OpsInv => Grows(db, db')
    BY <2>1, KeptTrans DEF opVars, OpsInv
  <2>4. BulkSafe => BulkSafe'
    BY <2>1, <2>2, <2>3, OthersKeepBulk DEF BulkSafe
  <2>5. Unasked => Unasked'
    BY <2>1 DEF bulkVars, Unasked, BulkInit
  <2>6. QED
    BY <2>1, <2>4, <2>5 DEF JobInv
<1>2. CASE Govern /\ UNCHANGED explored
  BY <1>2 DEF Govern, JobInv, Unasked, BulkInit, bulkVars
<1>3. CASE Reconcile /\ UNCHANGED explored
  BY <1>3 DEF Reconcile, JobInv, Unasked, BulkInit, bulkVars
<1>4. CASE Bulk /\ UNCHANGED explored
  <2>1. BulkSafe /\ explored' = "bulk"
    BY <1>4 DEF Bulk, JobInv
  <2>2. CASE BulkNext
    BY <2>1, <2>2, BulkKeeps DEF JobInv
  <2>3. CASE OperationsNext /\ UNCHANGED bulkVars
    BY <2>1, <2>3, OperationsKeep, OthersKeepBulk DEF JobInv, BulkSafe
  <2>4. CASE OperationsLost /\ BulkLost
    BY <2>1, <2>4, RestartKeepsBulk DEF JobInv
  <2>5. QED
    BY <1>4, <2>2, <2>3, <2>4 DEF Bulk
<1>5. QED
  BY <1>1, <1>2, <1>3, <1>4 DEF WorkflowsNext

LEMMA BulkStarts ==
  ASSUME OpsInv, BulkInit
  PROVE  BulkSafe
<1>1. BulkTypeOK
  BY DEF BulkInit, BulkTypeOK, JobStatus, ParentStatus
<1>2. RowsOK(jobRows, db) /\ CountsOK(job, jobRows, runner) /\ NamesOK
  BY DEF BulkInit, RowsOK, CountsOK, NamesOK, Distinct, Blank
<1>3. QED
  BY <1>1, <1>2 DEF BulkSafe, BulkInv

LEMMA JobStart ==
  ASSUME NEW starts, WorkflowsInit(starts)
  PROVE  JobInv
BY OperationsStart, BulkStarts DEF WorkflowsInit, JobInv, Unasked

\* For any accounts, jobs, selections and requests, the rows of the job, its counts
\* and the operations they name fit together; the other workflows touch no job.
THEOREM Employed == WorkflowsSpec => []JobInv
<1>1. WorkflowsInit({"bulk", "governance", "reconciliation", "removal", "comparison"})
        => JobInv
  BY JobStart
<1>2. QED
  BY <1>1, JobStep, PTL DEF WorkflowsSpec

\* For any accounts and job, a row that reports success is of an operation that has
\* succeeded, and the counts of a job that ended, executed once, are those of its rows.
THEOREM JobsAgree == WorkflowsSpec => []JobAgrees
<1>1. BulkSafe => SucceededRowsAreDone
  <2>1. ASSUME BulkSafe PROVE jobRows \in Seq(JobRow) /\ RowsOK(jobRows, db)
    BY <2>1 DEF BulkSafe, BulkInv, BulkTypeOK
  <2>2. ASSUME BulkSafe PROVE DOMAIN jobRows = 1..Len(jobRows)
    BY <2>1, <2>2, LenProperties
  <2>3. QED
    BY <2>1, <2>2 DEF RowsOK, SucceededRowsAreDone
<1>2. BulkSafe => CountsAgree
  <2>1. ASSUME BulkSafe, job.status \in {"completed", "partially_failed", "failed"},
               Cardinality({k \in Runners : runner[k] # "idle"}) = 1
        PROVE  job.succeeded = Count(jobRows, "succeeded")
               /\ job.failed = Len(jobRows) - job.succeeded
    <3> DEFINE S == {k \in Runners : runner[k] # "idle"}
    <3>1. IsFiniteSet(S)
      BY FS_Subset, BulkAssumption
    <3>2. \E x : S = {x}
      BY <2>1, <3>1, FS_Singleton
    <3>3. Lone(runner)
      BY <3>2 DEF Lone
    <3>4. QED
      BY <2>1, <3>3 DEF BulkSafe, BulkInv, CountsOK
  <2>2. QED
    BY <2>1 DEF CountsAgree
<1>3. Unasked => JobAgrees
  BY DEF Unasked, BulkInit, JobAgrees, SucceededRowsAreDone, CountsAgree
<1>4. JobInv => JobAgrees
  BY <1>1, <1>2, <1>3 DEF JobInv, JobAgrees
<1>5. QED
  BY <1>4, Employed, PTL
-----------------------------------------------------------------------------
(***************************************************************************)
(* The findings of a reconciliation run, and how far its repair has come.  *)
(***************************************************************************)
\* The findings f: those that drifted, and those of them that are repaired.
DriftedIn(f) == {p \in DOMAIN f : f[p].status = "drifted"}
RepairedIn(f) == {p \in DriftedIn(f) : f[p].repair = "repaired"}
In(groups) == {groups[i] : i \in 1..Len(groups)}

\* An operation that a finding says to run or to be done is there, or done.
FindingsOK(f, d) ==
  /\ DOMAIN f \subseteq Pairs /\ f \in [DOMAIN f -> Finding]
  /\ \A p \in DOMAIN f :
       f[p].repair \in {"running", "repaired"} =>
         /\ f[p].op \in 1..Len(d.ops)
         /\ f[p].repair = "repaired" => d.ops[f[p].op].status = "succeeded"

\* How far a repair has come: the groups still to repair, and the counts.
Progress(f, groups, done, failed) ==
  /\ groups \in Seq(Pairs) /\ done \in Nat /\ failed \in Nat
  /\ \A i, j \in 1..Len(groups) : groups[i] = groups[j] => i = j
  /\ In(groups) \subseteq DriftedIn(f)
  /\ \A p \in In(groups) : f[p].repair # "repaired"
  /\ done = Cardinality(RepairedIn(f))
  /\ failed = 0 <=> \A p \in DriftedIn(f) \ In(groups) : f[p].repair = "repaired"

LEMMA FindingsStay ==
  ASSUME NEW f, NEW d, NEW e, Sound(d), Sound(e), Grows(d, e), FindingsOK(f, d)
  PROVE  FindingsOK(f, e)
<1>1. Len(d.ops) \in Nat /\ Len(e.ops) \in Nat
  BY DbSound
<1>2. QED
  BY <1>1 DEF FindingsOK, Grows

\* One finding is written; it drifted, as it had.
LEMMA FindingWritten ==
  ASSUME NEW f, NEW d, Sound(d), FindingsOK(f, d), NEW p \in DOMAIN f, NEW row \in Finding,
         row.status = f[p].status,
         row.repair \in {"running", "repaired"} =>
           /\ row.op \in 1..Len(d.ops)
           /\ row.repair = "repaired" => d.ops[row.op].status = "succeeded"
  PROVE  LET new == [f EXCEPT ![p] = row]
         IN /\ FindingsOK(new, d) /\ DOMAIN new = DOMAIN f
            /\ DriftedIn(new) = DriftedIn(f)
            /\ \A q \in DOMAIN f : new[q] = IF q = p THEN row ELSE f[q]
<1> DEFINE new == [f EXCEPT ![p] = row]
<1>1. /\ DOMAIN new = DOMAIN f /\ new \in [DOMAIN f -> Finding]
      /\ \A q \in DOMAIN f : new[q] = IF q = p THEN row ELSE f[q]
  BY DEF FindingsOK
<1> HIDE DEF new
<1>2. FindingsOK(new, d) /\ DriftedIn(new) = DriftedIn(f)
  BY <1>1 DEF FindingsOK, DriftedIn
<1>3. QED
  BY <1>1, <1>2 DEF new

LEMMA DriftedFinite ==
  ASSUME NEW f, DOMAIN f \subseteq Pairs
  PROVE  /\ IsFiniteSet(DriftedIn(f)) /\ IsFiniteSet(RepairedIn(f))
         /\ Cardinality(RepairedIn(f)) \in Nat
<1>1. DriftedIn(f) \subseteq Pairs /\ RepairedIn(f) \subseteq Pairs
  BY DEF DriftedIn, RepairedIn
<1>2. QED
  BY <1>1, ReconciliationAssumption, FS_Subset, FS_CardinalityType

\* The rest of the groups, once the first is done.
LEMMA GroupsRest ==
  ASSUME NEW groups \in Seq(Pairs), groups # <<>>,
         \A i, j \in 1..Len(groups) : groups[i] = groups[j] => i = j
  PROVE  LET rest == RestOf(groups)
         IN /\ rest = Tail(groups) /\ rest \in Seq(Pairs) /\ Len(rest) = Len(groups) - 1
            /\ Len(groups) \in Nat \ {0} /\ Head(groups) = groups[1]
            /\ \A i \in 1..Len(rest) : rest[i] = groups[i + 1]
            /\ \A i, j \in 1..Len(rest) : rest[i] = rest[j] => i = j
            /\ In(rest) = In(groups) \ {Head(groups)} /\ Head(groups) \in In(groups)
<1> DEFINE rest == RestOf(groups)
<1>1. /\ rest = Tail(groups) /\ rest \in Seq(Pairs) /\ Len(rest) = Len(groups) - 1
      /\ Len(groups) \in Nat \ {0} /\ Head(groups) = groups[1]
      /\ \A i \in 1..Len(rest) : rest[i] = groups[i + 1]
  BY HeadTailProperties, LenProperties, EmptySeq DEF RestOf
<1> HIDE DEF rest
<1>2. \A i, j \in 1..Len(rest) : rest[i] = rest[j] => i = j
  BY <1>1
<1>3. In(rest) = In(groups) \ {Head(groups)}
  <2>1. ASSUME NEW x \in In(rest) PROVE x \in In(groups) \ {Head(groups)}
    <3>1. PICK i \in 1..Len(rest) : x = rest[i]
      BY DEF In
    <3>2. i + 1 \in 1..Len(groups) /\ x = groups[i + 1] /\ i + 1 # 1 /\ 1 \in 1..Len(groups)
      BY <1>1, <3>1
    <3>3. QED
      BY <1>1, <3>2 DEF In
  <2>2. ASSUME NEW x \in In(groups), x # Head(groups) PROVE x \in In(rest)
    <3>1. PICK i \in 1..Len(groups) : x = groups[i]
      BY DEF In
    <3>2. i - 1 \in 1..Len(rest) /\ x = rest[i - 1]
      BY <1>1, <2>2, <3>1
    <3>3. QED
      BY <3>2 DEF In
  <2>3. QED
    BY <2>1, <2>2
<1>4. Head(groups) \in In(groups)
  BY <1>1 DEF In
<1>5. QED
  BY <1>1, <1>2, <1>3, <1>4 DEF rest

\* The first group is done, with or without success.
LEMMA HeadDone ==
  ASSUME NEW f, NEW d, Sound(d), FindingsOK(f, d), NEW groups, NEW done, NEW failed,
         Progress(f, groups, done, failed), groups # <<>>, NEW row \in Finding,
         row.status = f[Head(groups)].status,
         row.repair \in {"running", "repaired"} =>
           /\ row.op \in 1..Len(d.ops)
           /\ row.repair = "repaired" => d.ops[row.op].status = "succeeded"
  PROVE  LET new == [f EXCEPT ![Head(groups)] = row]
         IN /\ FindingsOK(new, d) /\ DOMAIN new = DOMAIN f /\ DriftedIn(new) = DriftedIn(f)
            /\ row.repair = "repaired" => Progress(new, RestOf(groups), done + 1, failed)
            /\ row.repair # "repaired" => Progress(new, RestOf(groups), done, failed + 1)
<1> DEFINE p == Head(groups)
           new == [f EXCEPT ![p] = row]
           rest == RestOf(groups)
<1>1. /\ groups \in Seq(Pairs) /\ done \in Nat /\ failed \in Nat
      /\ \A i, j \in 1..Len(groups) : groups[i] = groups[j] => i = j
      /\ In(groups) \subseteq DriftedIn(f)
      /\ \A q \in In(groups) : f[q].repair # "repaired"
      /\ done = Cardinality(RepairedIn(f))
      /\ failed = 0 <=> \A q \in DriftedIn(f) \ In(groups) : f[q].repair = "repaired"
  BY DEF Progress
<1>2. /\ rest \in Seq(Pairs) /\ \A i, j \in 1..Len(rest) : rest[i] = rest[j] => i = j
      /\ In(rest) = In(groups) \ {p} /\ p \in In(groups)
  BY <1>1, GroupsRest
<1> HIDE DEF p, rest
<1>3. p \in DOMAIN f /\ p \in DriftedIn(f) /\ f[p].repair # "repaired"
  BY <1>1, <1>2 DEF DriftedIn
<1>4. /\ FindingsOK(new, d) /\ DOMAIN new = DOMAIN f /\ DriftedIn(new) = DriftedIn(f)
      /\ \A q \in DOMAIN f : new[q] = IF q = p THEN row ELSE f[q]
  BY <1>3, FindingWritten DEF p
<1> HIDE DEF new
<1>5. IsFiniteSet(RepairedIn(f))
  BY DriftedFinite DEF FindingsOK
<1>6. \A q \in In(rest) : new[q].repair # "repaired"
  BY <1>1, <1>2, <1>4 DEF DriftedIn
<1>7. CASE row.repair = "repaired"
  <2>1. RepairedIn(new) = RepairedIn(f) \cup {p} /\ p \notin RepairedIn(f)
    BY <1>3, <1>4, <1>7 DEF RepairedIn, DriftedIn
  <2>2. Cardinality(RepairedIn(new)) = done + 1
    BY <1>1, <1>5, <2>1, FS_AddElement
  <2>3. failed = 0 <=> \A q \in DriftedIn(new) \ In(rest) : new[q].repair = "repaired"
    BY <1>1, <1>2, <1>3, <1>4, <1>7 DEF DriftedIn
  <2>4. Progress(new, rest, done + 1, failed)
    BY <1>1, <1>2, <1>4, <1>6, <2>2, <2>3 DEF Progress
  <2>5. QED
    BY <1>4, <1>7, <2>4 DEF new, p, rest
<1>8. CASE row.repair # "repaired"
  <2>1. RepairedIn(new) = RepairedIn(f)
    BY <1>3, <1>4, <1>8 DEF RepairedIn, DriftedIn
  <2>2. failed + 1 # 0 /\ failed + 1 \in Nat
        /\ ~ \A q \in DriftedIn(new) \ In(rest) : new[q].repair = "repaired"
    BY <1>1, <1>2, <1>3, <1>4, <1>8
  <2>3. Progress(new, rest, done, failed + 1)
    BY <1>1, <1>2, <1>4, <1>6, <2>1, <2>2 DEF Progress
  <2>4. QED
    BY <1>4, <1>8, <2>3 DEF new, p, rest
<1>9. QED
  BY <1>7, <1>8

\* The first group runs.
LEMMA HeadRuns ==
  ASSUME NEW f, NEW d, Sound(d), FindingsOK(f, d), NEW groups, NEW done, NEW failed,
         Progress(f, groups, done, failed), groups # <<>>, NEW row \in Finding,
         row.status = f[Head(groups)].status, row.repair = "running", row.op \in 1..Len(d.ops)
  PROVE  LET new == [f EXCEPT ![Head(groups)] = row]
         IN /\ FindingsOK(new, d) /\ DOMAIN new = DOMAIN f /\ DriftedIn(new) = DriftedIn(f)
            /\ Progress(new, groups, done, failed) /\ new[Head(groups)].repair = "running"
<1> DEFINE p == Head(groups)
           new == [f EXCEPT ![p] = row]
<1>1. /\ In(groups) \subseteq DriftedIn(f) /\ \A q \in In(groups) : f[q].repair # "repaired"
      /\ p \in In(groups)
  BY GroupsRest DEF Progress
<1> HIDE DEF p
<1>2. p \in DOMAIN f
  BY <1>1 DEF DriftedIn
<1>3. /\ FindingsOK(new, d) /\ DOMAIN new = DOMAIN f /\ DriftedIn(new) = DriftedIn(f)
      /\ \A q \in DOMAIN f : new[q] = IF q = p THEN row ELSE f[q]
  BY <1>2, FindingWritten DEF p
<1> HIDE DEF new
<1>4. \A q \in DOMAIN f : new[q].repair = "repaired" <=> f[q].repair = "repaired"
  BY <1>1, <1>3
<1>5. RepairedIn(new) = RepairedIn(f)
  BY <1>3, <1>4 DEF RepairedIn, DriftedIn
<1>6. Progress(new, groups, done, failed)
  BY <1>3, <1>4, <1>5 DEF Progress, DriftedIn
<1>7. QED
  BY <1>2, <1>3, <1>6 DEF new, p
-----------------------------------------------------------------------------
(***************************************************************************)
(* A repair, one group of accounts and fields after the other.             *)
(***************************************************************************)
\* The repair as it goes from group to group: k groups of w are behind it, or one
\* of them awaits its synchronization.
Repairing(F) ==
  [d : Rows, f : [F -> Finding], groups : Seq(Pairs), done : Nat, failed : Nat,
   call : SUBSET Call]

\* The one request that a repair makes of the rows w.d before it awaits.
Asked(v, w) ==
  \E p \in Pairs :
    /\ w.d.acct[p.user].exists /\ ~Rejects("reconcile", p.user, w.d)
    /\ v.d = Requested("reconcile", p.user, w.d)
    /\ v.call = {SyncCall("repair", p.user, Len(v.d.ops), RepairAction(w.d, p))}

At(k, v, w) ==
  /\ v \in Repairing(DOMAIN w.f) /\ Sound(v.d) /\ Kept(w.d, v.d)
  /\ FindingsOK(v.f, v.d) /\ DriftedIn(v.f) = DriftedIn(w.f)
  /\ Progress(v.f, v.groups, v.done, v.failed)
  /\ v.call = {} =>
       /\ v.d = w.d
       /\ Len(v.groups) = Len(w.groups) - k
       /\ \A i \in 1..(Len(w.groups) - k) : v.groups[i] = w.groups[k + i]
  /\ v.call # {} =>
       /\ Asked(v, w) /\ \E c \in Call : v.call = {c} /\ Refers(c, v.d)
       /\ v.groups # <<>> /\ v.f[Head(v.groups)].repair = "running"

LEMMA GroupSkips ==
  ASSUME NEW k \in Nat, NEW w, NEW v, At(k, v, w), v.call = {}, w.groups \in Seq(Pairs),
         k < Len(w.groups), NEW res \in {"failed", "conflict", "blocked_credentials"}
  PROVE  At(k + 1, Skips(v, w.groups[k + 1], res), w)
<1> DEFINE p == w.groups[k + 1]
           row == [v.f[p] EXCEPT !.repair = res]
           new == [v.f EXCEPT ![p] = row]
           rest == RestOf(v.groups)
<1>1. /\ v \in Repairing(DOMAIN w.f) /\ Sound(v.d) /\ Kept(w.d, v.d)
      /\ FindingsOK(v.f, v.d) /\ DriftedIn(v.f) = DriftedIn(w.f)
      /\ Progress(v.f, v.groups, v.done, v.failed)
      /\ Len(v.groups) = Len(w.groups) - k
      /\ \A i \in 1..(Len(w.groups) - k) : v.groups[i] = w.groups[k + i]
  BY DEF At
<1>22. v.d = w.d
  BY DEF At
<1>2. Len(w.groups) \in Nat /\ v.groups \in Seq(Pairs) /\ v.groups # <<>>
  BY <1>1, LenProperties DEF Progress
<1>3. /\ rest \in Seq(Pairs) /\ Len(rest) = Len(v.groups) - 1 /\ Head(v.groups) = v.groups[1]
      /\ \A i \in 1..Len(rest) : rest[i] = v.groups[i + 1]
      /\ Head(v.groups) \in In(v.groups)
  BY <1>1, <1>2, GroupsRest DEF Progress
<1>4. p = Head(v.groups) /\ p \in DOMAIN v.f
  <2>1. p = Head(v.groups)
    BY <1>1, <1>2, <1>3
  <2>2. Head(v.groups) \in DOMAIN v.f
    BY <1>1, <1>3 DEF Progress, DriftedIn
  <2>3. QED
    BY <2>1, <2>2
<1> HIDE DEF p, rest
<1>5. v.f[p] \in Finding /\ DOMAIN v.f = DOMAIN w.f
  BY <1>1, <1>4 DEF FindingsOK, Repairing
<1>6. row \in Finding /\ row.status = v.f[p].status /\ row.repair = res
  BY <1>5 DEF Finding, RepairStatus
<1>7. [v.f EXCEPT ![p].repair = res] = new
  BY <1>4
<1> HIDE DEF row
<1>8. /\ FindingsOK(new, v.d) /\ DOMAIN new = DOMAIN w.f /\ DriftedIn(new) = DriftedIn(w.f)
      /\ Progress(new, rest, v.done, v.failed + 1)
  <2>1. res \notin {"running", "repaired"}
    OBVIOUS
  <2>2. row.status = v.f[Head(v.groups)].status
        /\ new = [v.f EXCEPT ![Head(v.groups)] = row]
    BY <1>4, <1>6
  <2> HIDE DEF new
  <2>3. /\ FindingsOK(new, v.d) /\ DOMAIN new = DOMAIN v.f /\ DriftedIn(new) = DriftedIn(v.f)
        /\ Progress(new, rest, v.done, v.failed + 1)
    BY <1>1, <1>2, <1>6, <2>1, <2>2, HeadDone DEF rest
  <2>4. QED
    BY <1>1, <1>5, <2>3
<1> HIDE DEF new
<1> DEFINE x == Skips(v, p, res)
<1>9. x = [d |-> v.d, f |-> new, groups |-> rest, done |-> v.done, failed |-> v.failed + 1,
           call |-> {}]
  BY <1>7 DEF Skips, rest
<1> HIDE DEF x
<1>10. x \in Repairing(DOMAIN w.f)
  <2>1. new \in [DOMAIN w.f -> Finding] /\ v.failed + 1 \in Nat /\ v.done \in Nat
    BY <1>8 DEF FindingsOK, Progress
  <2>2. v.d \in Rows
    BY <1>1 DEF Sound
  <2>3. QED
    BY <1>3, <1>9, <2>1, <2>2 DEF Repairing
<1>11. /\ Len(rest) = Len(w.groups) - (k + 1)
       /\ \A i \in 1..(Len(w.groups) - (k + 1)) : rest[i] = w.groups[(k + 1) + i]
  <2>1. Len(rest) = Len(w.groups) - (k + 1)
    BY <1>1, <1>2, <1>3
  <2>2. ASSUME NEW i \in 1..Len(rest) PROVE rest[i] = w.groups[(k + 1) + i]
    <3>1. i + 1 \in 1..(Len(w.groups) - k) /\ k + (i + 1) = (k + 1) + i
      <4> DEFINE n == Len(w.groups)
                 m == Len(rest)
      <4>1. n \in Nat /\ m = n - (k + 1)
        BY <1>2, <2>1
      <4> HIDE DEF n, m
      <4>2. i \in Int /\ 1 <= i /\ i <= m
        BY <4>1 DEF m
      <4>3. QED
        BY <4>1, <4>2 DEF n
    <3>2. QED
      BY <1>1, <1>3, <3>1
  <2>3. QED
    BY <2>1, <2>2
<1>12. At(k + 1, x, w)
  BY <1>1, <1>8, <1>9, <1>10, <1>11, <1>22 DEF At
<1>13. QED
  BY <1>12 DEF x, p

LEMMA GroupRuns ==
  ASSUME NEW k \in Nat, NEW w, Sound(w.d), NEW v, At(k, v, w), v.call = {}, w.groups \in Seq(Pairs),
         k < Len(w.groups), NEW secrets, NEW usable,
         v.d.acct[w.groups[k + 1].user].exists, ~Rejects("reconcile", w.groups[k + 1].user, v.d)
  PROVE  LET p == w.groups[k + 1]
             d == Requested("reconcile", p.user, v.d)
         IN At(k + 1,
               [d |-> d, f |-> [v.f EXCEPT ![p] = [@ EXCEPT !.repair = "running", !.op = Len(d.ops)]],
                groups |-> v.groups, done |-> v.done, failed |-> v.failed,
                call |-> {SyncCall("repair", p.user, Len(d.ops), RepairAction(v.d, p))}], w)
<1> DEFINE p == w.groups[k + 1]
           a == p.user
           d == Requested("reconcile", a, v.d)
           op == Len(d.ops)
           row == [v.f[p] EXCEPT !.repair = "running", !.op = op]
           new == [v.f EXCEPT ![p] = row]
           c == SyncCall("repair", a, op, RepairAction(v.d, p))
           x == [d |-> d, f |-> new, groups |-> v.groups, done |-> v.done, failed |-> v.failed,
                 call |-> {c}]
<1>1. /\ v \in Repairing(DOMAIN w.f) /\ Sound(v.d) /\ Kept(w.d, v.d)
      /\ FindingsOK(v.f, v.d) /\ DriftedIn(v.f) = DriftedIn(w.f)
      /\ Progress(v.f, v.groups, v.done, v.failed)
      /\ Len(v.groups) = Len(w.groups) - k
      /\ \A i \in 1..(Len(w.groups) - k) : v.groups[i] = w.groups[k + i]
  BY DEF At
<1>22. v.d = w.d
  BY DEF At
<1>2. Len(w.groups) \in Nat /\ v.groups \in Seq(Pairs) /\ v.groups # <<>>
  BY <1>1, LenProperties DEF Progress
<1>3. Head(v.groups) = v.groups[1] /\ Head(v.groups) \in In(v.groups)
  BY <1>1, <1>2, GroupsRest DEF Progress
<1>4. p = Head(v.groups) /\ p \in DOMAIN v.f /\ p \in Pairs
  <2>1. p = Head(v.groups)
    BY <1>1, <1>2, <1>3
  <2>2. Head(v.groups) \in DOMAIN v.f
    BY <1>1, <1>3 DEF Progress, DriftedIn
  <2>3. QED
    BY <1>1, <2>1, <2>2 DEF FindingsOK
<1>5. v.d.acct[p.user].exists /\ ~Rejects("reconcile", p.user, v.d)
  OBVIOUS
<1> HIDE DEF p
<1>6. v.f[p] \in Finding /\ DOMAIN v.f = DOMAIN w.f /\ a \in Accounts
  BY <1>1, <1>4, ReconciliationAssumption DEF FindingsOK, Repairing
<1> HIDE DEF a
<1>7. "reconcile" \in Command \ {"delete", "retry"}
  BY DEF Command
<1>20. \A y : y.d = d /\ y.call = {c} => Asked(y, w)
  BY <1>4, <1>5, <1>22 DEF Asked, a
<1>8. /\ Sound(d) /\ Kept(v.d, d) /\ op \in 1..Len(d.ops) /\ d.ops[op].user = a
  BY <1>1, <1>5, <1>6, <1>7, StartsOnly DEF a
<1> HIDE DEF d
<1>9. op \in Nat /\ Len(d.ops) \in Nat
  BY <1>8, DbSound
<1> HIDE DEF op
<1>10. row \in Finding /\ row.status = v.f[p].status /\ row.repair = "running" /\ row.op = op
  BY <1>6, <1>9 DEF Finding, RepairStatus
<1>11. [v.f EXCEPT ![p] = [@ EXCEPT !.repair = "running", !.op = op]] = new
  BY <1>4
<1> HIDE DEF row
<1>12. Kept(w.d, d)
  BY <1>1, <1>8, KeptTrans
<1>13. FindingsOK(v.f, d)
  BY <1>1, <1>8, FindingsStay DEF Kept
<1>14. /\ FindingsOK(new, d) /\ DOMAIN new = DOMAIN v.f /\ DriftedIn(new) = DriftedIn(v.f)
       /\ Progress(new, v.groups, v.done, v.failed) /\ new[Head(v.groups)].repair = "running"
  <2>1. row.status = v.f[Head(v.groups)].status
        /\ new = [v.f EXCEPT ![Head(v.groups)] = row]
    BY <1>4, <1>10
  <2>2. Progress(v.f, v.groups, v.done, v.failed) /\ row.op \in 1..Len(d.ops)
    BY <1>1, <1>8, <1>10
  <2> HIDE DEF new
  <2>3. QED
    BY <1>2, <1>8, <1>10, <1>13, <2>1, <2>2, HeadRuns
<1> HIDE DEF new
<1>15. c \in Call /\ Refers(c, d)
  <2>1. RepairAction(v.d, p) \in Desired \cup {"stored"}
    BY DEF RepairAction, Desired
  <2>2. QED
    BY <1>6, <1>8, <1>9, <2>1, ReconciliationAssumption DEF SyncCall, Call, Refers
<1> HIDE DEF c
<1>16. x \in Repairing(DOMAIN w.f)
  <2>1. new \in [DOMAIN w.f -> Finding] /\ v.failed \in Nat /\ v.done \in Nat /\ d \in Rows
    BY <1>1, <1>6, <1>8, <1>14 DEF FindingsOK, Progress, Sound
  <2>2. QED
    BY <1>2, <1>15, <2>1 DEF Repairing
<1>21. Asked(x, w)
  BY <1>20 DEF x, c, op, d, a
<1>17. /\ x.d = d /\ x.f = new /\ x.groups = v.groups /\ x.done = v.done /\ x.failed = v.failed
       /\ x.call = {c} /\ x.call # {}
  OBVIOUS
<1> HIDE DEF x
<1>18. At(k + 1, x, w)
  BY <1>1, <1>2, <1>6, <1>8, <1>12, <1>14, <1>15, <1>16, <1>17, <1>21 DEF At
<1>19. QED
  BY <1>11, <1>18 DEF x, c, op, d, a, p

\* One more group, unless one awaits its synchronization.
LEMMA GroupStep ==
  ASSUME NEW k \in Nat, NEW w, Sound(w.d), NEW v, At(k, v, w), w.groups \in Seq(Pairs),
         k < Len(w.groups), NEW secrets, NEW usable
  PROVE  At(k + 1, IF v.call # {} THEN v ELSE RepairGroup(v, w.groups[k + 1], secrets, usable), w)
<1>1. CASE v.call # {}
  BY <1>1 DEF At
<1>2. CASE v.call = {}
  <2> DEFINE p == w.groups[k + 1]
             x == RepairGroup(v, p, secrets, usable)
             d == Requested("reconcile", p.user, v.d)
             run2 == [d |-> d, f |-> [v.f EXCEPT ![p] = [@ EXCEPT !.repair = "running", !.op = Len(d.ops)]],
                groups |-> v.groups, done |-> v.done, failed |-> v.failed,
                call |-> {SyncCall("repair", p.user, Len(d.ops), RepairAction(v.d, p))}]
  <2>1. \A res \in {"failed", "conflict", "blocked_credentials"} : At(k + 1, Skips(v, p, res), w)
    BY <1>2, GroupSkips
  <2>2. v.d.acct[p.user].exists /\ ~Rejects("reconcile", p.user, v.d) => At(k + 1, run2, w)
    BY <1>2, GroupRuns
  <2>3. \/ \E res \in {"failed", "conflict", "blocked_credentials"} : x = Skips(v, p, res)
        \/ v.d.acct[p.user].exists /\ ~Rejects("reconcile", p.user, v.d) /\ x = run2
    BY DEF RepairGroup
  <2> HIDE DEF x, run2, p
  <2>4. At(k + 1, x, w)
    BY <2>1, <2>2, <2>3
  <2>5. QED
    BY <1>2, <2>4 DEF x, p
<1>3. QED
  BY <1>1, <1>2
-----------------------------------------------------------------------------
(***************************************************************************)
(* A repair: the fold over its groups.                                     *)
(***************************************************************************)
Repairs(F) == {v \in Repairing(F) : Sound(v.d)}

LEMMA RepairTyped ==
  ASSUME NEW F, F \subseteq Pairs, NEW v \in Repairs(F), NEW p \in F, NEW secrets, NEW usable
  PROVE  RepairGroup(v, p, secrets, usable) \in Repairs(F)
<1> DEFINE a == p.user
           d == Requested("reconcile", a, v.d)
           op == Len(d.ops)
           row == [v.f[p] EXCEPT !.repair = "running", !.op = op]
           c == SyncCall("repair", a, op, RepairAction(v.d, p))
           x == [d |-> d, f |-> [v.f EXCEPT ![p] = row], groups |-> v.groups, done |-> v.done,
                 failed |-> v.failed, call |-> {c}]
<1>1. /\ v.d \in Rows /\ v.f \in [F -> Finding] /\ v.groups \in Seq(Pairs) /\ v.done \in Nat
      /\ v.failed \in Nat /\ Sound(v.d) /\ a \in Accounts /\ v.f[p] \in Finding
  BY ReconciliationAssumption DEF Repairs, Repairing
<1>2. \A res \in {"failed", "conflict", "blocked_credentials"} : Skips(v, p, res) \in Repairs(F)
  <2>1. ASSUME NEW res \in {"failed", "conflict", "blocked_credentials"}
        PROVE  Skips(v, p, res) \in Repairs(F)
    <3> DEFINE one == [v.f[p] EXCEPT !.repair = res]
               new == [v.f EXCEPT ![p] = one]
               rest == RestOf(v.groups)
    <3>1. one \in Finding
      BY <1>1 DEF Finding, RepairStatus
    <3>2. [v.f EXCEPT ![p].repair = res] = new
      BY <1>1
    <3> HIDE DEF one
    <3>3. new \in [F -> Finding]
      BY <1>1, <3>1
    <3>4. rest \in Seq(Pairs)
      BY <1>1, HeadTailProperties, EmptySeq DEF RestOf
    <3> HIDE DEF new, rest
    <3>5. Skips(v, p, res) = [d |-> v.d, f |-> new, groups |-> rest, done |-> v.done,
                              failed |-> v.failed + 1, call |-> {}]
      BY <3>2 DEF Skips, rest
    <3>6. QED
      BY <1>1, <3>3, <3>4, <3>5 DEF Repairs, Repairing
  <2>2. QED
    BY <2>1
<1>3. ~Rejects("reconcile", a, v.d) => x \in Repairs(F)
  <2> SUFFICES ASSUME ~Rejects("reconcile", a, v.d) PROVE x \in Repairs(F)
    OBVIOUS
  <2>1. "reconcile" \in Command \ {"delete", "retry"} /\ RepairAction(v.d, p) \in Desired \cup {"stored"}
    BY DEF Command, RepairAction, Desired
  <2>2. Sound(d)
    BY <1>1, <2>1, StartsOnly
  <2> HIDE DEF d
  <2>3. op \in Nat /\ d \in Rows
    BY <2>2, DbSound DEF Sound
  <2> HIDE DEF op
  <2>4. row \in Finding
    BY <1>1, <2>3 DEF Finding, RepairStatus
  <2>5. c \in Call
    BY <1>1, <2>1, <2>3, ReconciliationAssumption DEF SyncCall, Call
  <2> HIDE DEF row, c
  <2>6. QED
    BY <1>1, <2>2, <2>3, <2>4, <2>5 DEF Repairs, Repairing
<1>4. [v.f EXCEPT ![p] = [@ EXCEPT !.repair = "running", !.op = op]] = [v.f EXCEPT ![p] = row]
  BY <1>1
<1>5. \/ \E res \in {"failed", "conflict", "blocked_credentials"} :
           RepairGroup(v, p, secrets, usable) = Skips(v, p, res)
      \/ /\ ~Rejects("reconcile", a, v.d)
         /\ RepairGroup(v, p, secrets, usable) = x
  BY <1>4 DEF RepairGroup
<1> HIDE DEF x, a
<1>6. QED
  BY <1>2, <1>3, <1>5

\* The repair goes through the groups: the fold that the model writes it as.
LEMMA RepairGoes ==
  ASSUME NEW w, Sound(w.d), w.groups \in Seq(Pairs), At(0, w, w), NEW secrets, NEW usable
  PROVE  At(Len(w.groups), RepairGroups(w, secrets, usable), w)
<1> DEFINE N == Len(w.groups)
           D == DOMAIN w.groups
           V == Repairs(DOMAIN w.f)
           Goes(v, p) == IF v.call # {} THEN v ELSE RepairGroup(v, p, secrets, usable)
           step == [x \in V \X D |-> Goes(x[1], w.groups[x[2]])]
           Scans(it) == it = [s \in SUBSET D |->
                           IF s = {} THEN w
                           ELSE Goes(it[s \ {Max(s)}], w.groups[Max(s)])]
<1>1. w \in V
  BY DEF At, Repairs
<1>2. N \in Nat /\ D = 1..N
  BY LenProperties
<1>3. D \in SUBSET Nat /\ IsFiniteSet(D) /\ D = 1..N
  BY <1>2, FS_Interval
<1>31. \A k \in D : w.groups[k] \in DOMAIN w.f
  <2>1. In(w.groups) \subseteq DriftedIn(w.f)
    BY DEF At, Progress
  <2>2. QED
    BY <1>3, <2>1 DEF In, DriftedIn
<1>32. DOMAIN w.f \subseteq Pairs
  BY DEF At, FindingsOK
<1>40. \A v \in V, k \in D : Goes(v, w.groups[k]) \in V
  BY <1>31, <1>32, RepairTyped
<1>41. ASSUME NEW k \in Nat, k < N, NEW v, At(k, v, w)
       PROVE  At(k + 1, Goes(v, w.groups[k + 1]), w)
  BY <1>41, GroupStep
<1> HIDE DEF V, Goes, N
<1>4. step \in [V \X D -> V]
  BY <1>40
<1> HIDE DEF D, step
<1>5. PICK it : IsFold(it, D, V, w, step)
  BY <1>1, <1>3, <1>4, FoldExists
<1>55. it \in [SUBSET D -> V] /\ \A s \in SUBSET D :
         it[s] = IF s = {} THEN w ELSE step[<<it[s \ {Max(s)}], Max(s)>>]
  BY <1>5 DEF IsFold
<1>6. ASSUME NEW s \in SUBSET D, s # {}
      PROVE  Max(s) \in D /\ s \ {Max(s)} \in SUBSET D
  BY <1>3, <1>6, MaxOf, FS_Subset
<1>7. Scans(it)
  <2>1. ASSUME NEW s \in SUBSET D
        PROVE  it[s] = IF s = {} THEN w
                       ELSE Goes(it[s \ {Max(s)}], w.groups[Max(s)])
    <3>1. CASE s = {}
      BY <1>55, <3>1
    <3>2. CASE s # {}
      <4> DEFINE r == it[s \ {Max(s)}]
                 k == Max(s)
      <4>1. r \in V /\ k \in D
        BY <1>55, <1>6, <3>2
      <4>2. it[s] = step[<<r, k>>]
        BY <1>55, <3>2
      <4> HIDE DEF r, k
      <4>3. step[<<r, k>>] = Goes(r, w.groups[k])
        BY <4>1 DEF step
      <4>4. QED
        BY <3>2, <4>2, <4>3 DEF r, k
    <3>3. QED
      BY <3>1, <3>2
  <2>2. QED
    BY <1>55, <2>1
<1> DEFINE chosen == CHOOSE f : Scans(f)
<1>8. Scans(chosen)
  <2> HIDE DEF Scans
  <2>1. QED
    BY <1>7
<1>9. RepairGroups(w, secrets, usable) = chosen[D]
  BY DEF RepairGroups, Goes, FoldLeft, MapThenFoldSet, D
<1> HIDE DEF chosen
<1>10. \A s \in SUBSET D :
         chosen[s] = IF s = {} THEN w
                     ELSE Goes(chosen[s \ {Max(s)}], w.groups[Max(s)])
  <2> HIDE DEF Max
  <2>1. QED
    BY <1>8
<1> HIDE DEF Scans
<1> DEFINE Good == {s \in SUBSET D : \A k \in 0..N : s = 1..k => At(k, chosen[s], w)}
<1>11. {} \in Good
  <2>1. ASSUME NEW k \in 0..N, {} = 1..k PROVE At(k, chosen[{}], w)
    <3>1. k = 0
      BY <1>2, <2>1
    <3>2. chosen[{}] = w
      BY <1>10
    <3>3. QED
      BY <3>1, <3>2
  <2>2. QED
    BY <2>1
<1>12. ASSUME NEW s \in SUBSET D, s # {}, \A x \in s : s \ {x} \in Good
       PROVE  s \in Good
  <2>1. ASSUME NEW k \in 0..N, s = 1..k PROVE At(k, chosen[s], w)
    <3> DEFINE j == k - 1
    <3>1. j \in Nat /\ j \in 0..N /\ j < N /\ j + 1 = k /\ k \in s
      BY <1>2, <1>12, <2>1
    <3>2. Max(s) = k
      <4>1. s \in SUBSET Nat /\ IsFiniteSet(s)
        BY <1>3, FS_Subset
      <4>2. Max(s) \in s /\ \A x \in s : Max(s) >= x
        BY <1>12, <4>1, MaxOf
      <4>3. QED
        BY <1>2, <2>1, <3>1, <4>2
    <3>3. s \ {k} = 1..j
      BY <1>2, <2>1, <3>1
    <3> HIDE DEF j
    <3> DEFINE r == chosen[s \ {k}]
    <3>4. At(j, r, w)
      BY <1>12, <3>1, <3>3
    <3>5. chosen[s] = Goes(r, w.groups[k])
      BY <1>10, <1>12, <3>2
    <3> HIDE DEF r
    <3>6. At(j + 1, Goes(r, w.groups[j + 1]), w)
      BY <1>41, <3>1, <3>4
    <3>7. QED
      BY <3>1, <3>5, <3>6
  <2>2. QED
    BY <2>1
<1>13. D \in Good
  <2> HIDE DEF Good
  <2>1. QED
    BY <1>3, <1>11, <1>12, FiniteInduction
<1>14. N \in 0..N
  BY <1>2
<1>15. QED
  BY <1>3, <1>9, <1>13, <1>14 DEF N
-----------------------------------------------------------------------------
(***************************************************************************)
(* The inductive invariant of a reconciliation run.                        *)
(***************************************************************************)
\* A run: what its status says of its findings and its repair.
RunInv ==
  /\ run.status \in {"approved", "running"} => DriftedIn(findings) # {}
  /\ run.status \in {"none", "discovering", "retrying", "previewed"} => run.parent = "none"
  /\ run.status \in {"none", "discovering", "retrying", "previewed", "approved"} =>
       \A p \in DOMAIN findings : findings[p].repair = "none"
  /\ run.status = "retrying" => run.attempt < MaxAttempts
  /\ repairer.state = "waits" =>
       /\ run.status = "running" /\ repairer.groups # <<>>
       /\ findings[Head(repairer.groups)].repair = "running"
       /\ Progress(findings, repairer.groups, repairer.done, repairer.failed)
  /\ CountsOfRepair

RecInv == ReconcileTypeOK /\ FindingsOK(findings, db) /\ RunInv

RunSafe == OpsInv /\ RecInv

LEMMA Drifted == With("drifted") = DriftedIn(findings)
BY DEF With, DriftedIn

\* What other requests, the retry worker and the sessions do.
LEMMA OthersKeepRun ==
  ASSUME RunSafe, OpsInv', Grows(db, db'), UNCHANGED reconcileVars
  PROVE  RunSafe'
<1>1. FindingsOK(findings, db')
  BY FindingsStay DEF RunSafe, RecInv, OpsInv
<1>2. UNCHANGED <<run, pairs, findings, repairer>>
  BY DEF reconcileVars
<1>3. ReconcileTypeOK' /\ FindingsOK(findings', db') /\ RunInv'
  BY <1>1, <1>2 DEF RunSafe, RecInv, ReconcileTypeOK, RunInv, CountsOfRepair, With
<1>4. QED
  BY <1>3 DEF RunSafe, RecInv

\* The groups: each account and target that drifted, once.
LEMMA GroupsOnce ==
  ASSUME DOMAIN findings \subseteq Pairs
  PROVE  /\ DriftedGroups \in Seq(Pairs) /\ In(DriftedGroups) = DriftedIn(findings)
         /\ \A i, j \in 1..Len(DriftedGroups) : DriftedGroups[i] = DriftedGroups[j] => i = j
<1> DEFINE S == With("drifted")
           n == Cardinality(S)
           g == DriftedGroups
<1>1. IsFiniteSet(S) /\ S \subseteq Pairs /\ S = DriftedIn(findings)
  BY Drifted, DriftedFinite DEF DriftedIn
<1>2. n \in Nat /\ ExistsBijection(1..n, S)
  BY <1>1, FS_CardinalityType
<1>3. PICK f \in Bijection(1..n, S) : TRUE
  BY <1>2 DEF ExistsBijection
<1>4. f \in [1..n -> S] /\ IsInjective(f)
  BY <1>3 DEF Bijection, Injection, IsInjective
<1>5. g \in [1..n -> S] /\ IsInjective(g)
  BY <1>4 DEF DriftedGroups, SetToSeq
<1>6. IsFiniteSet(1..n) /\ Cardinality(1..n) = n
  BY <1>2, FS_Interval
<1> HIDE DEF n, g, S
<1>7. g \in Injection(1..n, S)
  BY <1>5 DEF Injection, IsInjective
<1>8. g \in Surjection(1..n, S)
  BY <1>1, <1>6, <1>7, FS_Injection DEF n
<1>9. g \in Seq(Pairs) /\ Len(g) = n
  BY <1>1, <1>2, <1>5
<1>10. In(g) = S
  BY <1>5, <1>8, <1>9 DEF In, Surjection
<1>11. \A i, j \in 1..Len(g) : g[i] = g[j] => i = j
  BY <1>5, <1>9 DEF IsInjective
<1>12. QED
  BY <1>1, <1>9, <1>10, <1>11 DEF g

\* The repair goes on from w, the rows and findings that a step has left so far.
\* What a repair has made of the rows d and of the queues: it is over, or makes one
\* request and awaits its call.
Resumes(d) ==
  LET q == Left(calls, Awaits("repair")) IN
  \/ db' = d /\ calls' = Joined(q, {})
  \/ \E p \in Pairs :
       /\ d.acct[p.user].exists /\ ~Rejects("reconcile", p.user, d)
       /\ db' = Requested("reconcile", p.user, d)
       /\ calls' = Joined(q, {SyncCall("repair", p.user, Len(db'.ops), RepairAction(d, p))})

LEMMA RepairConcludes ==
  ASSUME OpsInv, ReconcileTypeOK, NEW w, w \in Repairing(DOMAIN w.f), Sound(w.d), Grows(db, w.d),
         SessionsOK(sessions', w.d), FindingsOK(w.f, w.d), DriftedIn(w.f) # {},
         Progress(w.f, w.groups, w.done, w.failed), w.call = {},
         NEW secrets, NEW usable, Concludes(RepairGroups(w, secrets, usable))
  PROVE  RunSafe' /\ Resumes(w.d)
<1> DEFINE v == RepairGroups(w, secrets, usable)
           N == Len(w.groups)
<1>1. w.groups \in Seq(Pairs) /\ N \in Nat
  BY LenProperties DEF Progress
<1>2. At(0, w, w)
  BY <1>1, KeptTrans DEF At
<1>3. At(N, v, w)
  BY <1>1, <1>2, RepairGoes
<1>4. Concludes(v)
  OBVIOUS
<1> HIDE DEF v, N
<1>5. /\ v \in Repairing(DOMAIN w.f) /\ Sound(v.d) /\ Kept(w.d, v.d)
      /\ FindingsOK(v.f, v.d) /\ DriftedIn(v.f) = DriftedIn(w.f)
      /\ Progress(v.f, v.groups, v.done, v.failed)
  BY <1>3 DEF At
<1>6. /\ db' = v.d /\ findings' = v.f /\ UNCHANGED <<pairs, todo, meanwhile>>
      /\ calls' = Joined(Left(calls, Awaits("repair")), v.call)
      /\ repairer' = [state |-> IF v.call = {} THEN "ended" ELSE "waits",
                      groups |-> v.groups, done |-> v.done, failed |-> v.failed]
  BY <1>4 DEF Concludes
<1>7. OpsInv'
  <2>1. \A c \in Awaits("repair") : \E a \in Accounts : \E i \in 1..Len(calls[a]) : c = calls[a][i]
    BY CallTyped DEF Awaits
  <2>2. CallsOK(Left(calls, Awaits("repair")), db)
    BY <2>1, LeftCalls DEF OpsInv
  <2>3. Grows(db, v.d) /\ Sound(db)
    BY <1>5, KeptTrans DEF OpsInv, Kept
  <2>4. CallsOK(Left(calls, Awaits("repair")), v.d) /\ \A l : ListOK(l, db) => ListOK(l, v.d)
    BY <1>5, <2>2, <2>3, GrowsKeeps
  <2>5. v.call \in SUBSET Call /\ \A c \in v.call : Refers(c, v.d)
    BY <1>3 DEF At
  <2>6. CallsOK(calls', db')
    BY <1>6, <2>4, <2>5, JoinedCalls
  <2>7. SessionsOK(sessions', v.d)
    BY <1>5, GrowsKeeps DEF Kept
  <2>8. TodoOK(todo', db') /\ MeanwhileOK(meanwhile')
    BY <1>6, <2>4 DEF OpsInv, TodoOK
  <2>9. QED
    BY <1>5, <1>6, <2>6, <2>7, <2>8 DEF OpsInv
<1>8. /\ v.groups \in Seq(Pairs) /\ v.done \in Nat /\ v.failed \in Nat
      /\ \A p \in DOMAIN v.f : v.f[p] \in Finding
      /\ DOMAIN v.f \subseteq Pairs
  BY <1>5 DEF Progress, FindingsOK
<1>9. Resumes(w.d)
  <2>1. CASE v.call = {}
    <3>1. v.d = w.d
      BY <1>3, <2>1 DEF At
    <3>2. QED
      BY <1>6, <2>1, <3>1 DEF Resumes
  <2>2. CASE v.call # {}
    <3>1. Asked(v, w)
      BY <1>3, <2>2 DEF At
    <3>2. QED
      BY <1>6, <3>1 DEF Resumes, Asked
  <2>3. QED
    BY <2>1, <2>2
<1>10. CASE v.call # {}
  <2>1. run' = [run EXCEPT !.status = "running", !.parent = "running"]
    BY <1>4, <1>10 DEF Concludes
  <2>2. ReconcileTypeOK' /\ run'.status = "running" /\ run'.parent = "running"
    BY <1>6, <1>8, <2>1 DEF ReconcileTypeOK, FinalStatus
  <2>3. CountsOfRepair'
    BY <2>2 DEF CountsOfRepair, FinalStatus
  <2>4. v.groups # <<>> /\ v.f[Head(v.groups)].repair = "running" /\ repairer'.state = "waits" /\ repairer'.groups = v.groups
        /\ repairer'.done = v.done /\ repairer'.failed = v.failed
    BY <1>3, <1>6, <1>10 DEF At
  <2>5. RunInv'
    BY <1>5, <1>6, <2>2, <2>3, <2>4 DEF RunInv
  <2>6. QED
    BY <1>5, <1>6, <1>7, <1>9, <2>2, <2>5 DEF RunSafe, RecInv
<1>11. CASE v.call = {}
  <2> DEFINE s == FinalRun(v)
  <2>1. run' = [run EXCEPT !.status = s,
                           !.parent = IF s = "completed" THEN "succeeded" ELSE s]
    BY <1>4, <1>11 DEF Concludes
  <2>2. s \in FinalStatus
    BY DEF FinalRun, FinalStatus
  <2> HIDE DEF s
  <2>3. ReconcileTypeOK' /\ run'.status = s
    BY <1>6, <1>8, <1>11, <2>1, <2>2 DEF ReconcileTypeOK, FinalStatus
  <2>4. In(v.groups) = {}
    <3>1. Len(v.groups) = N - N
      BY <1>3, <1>11 DEF At, N
    <3>2. Len(v.groups) = 0
      BY <1>1, <3>1
    <3>3. QED
      BY <3>2 DEF In
  <2>5. /\ v.done = Cardinality(RepairedIn(v.f))
        /\ v.failed = 0 <=> RepairedIn(v.f) = DriftedIn(v.f)
        /\ IsFiniteSet(RepairedIn(v.f)) /\ DriftedIn(v.f) # {}
    BY <1>5, <1>8, <2>4, DriftedFinite DEF Progress, RepairedIn
  <2>6. v.done > 0 <=> RepairedIn(v.f) # {}
    BY <1>8, <2>5, FS_EmptySet
  <2>7. /\ s = "completed" <=> RepairedIn(v.f) = DriftedIn(v.f)
        /\ s = "failed" <=> RepairedIn(v.f) = {}
    BY <2>5, <2>6 DEF FinalRun, s
  <2>8. With("drifted")' = DriftedIn(v.f)
    BY <1>6 DEF With, DriftedIn
  <2>9. {p \in With("drifted")' : findings'[p].repair = "repaired"} = RepairedIn(v.f)
    BY <1>6, <2>8 DEF RepairedIn
  <2>10. repairer'.done = v.done /\ repairer'.state = "ended"
    BY <1>6, <1>11
  <2>11. CountsOfRepair'
    BY <2>3, <2>5, <2>7, <2>8, <2>9, <2>10 DEF CountsOfRepair
  <2>12. RunInv'
    BY <2>2, <2>3, <2>10, <2>11 DEF RunInv, FinalStatus
  <2>13. QED
    BY <1>5, <1>6, <1>7, <1>9, <2>3, <2>12 DEF RunSafe, RecInv
<1>12. QED
  BY <1>10, <1>11

\* A step of the discovery or the approval: the repair has not begun.
LEMMA BeforeRepair ==
  ASSUME RunSafe, UNCHANGED <<repairer, opVars>>, ReconcileTypeOK', FindingsOK(findings', db),
         run.status \in {"none", "discovering", "retrying", "previewed"},
         \A p \in DOMAIN findings' : findings'[p].repair = "none",
         run'.status \in {"approved"} => DriftedIn(findings') # {},
         run'.status = "retrying" => run'.attempt < MaxAttempts,
         \/ run'.parent = "none"
         \/ run'.status = "approved"
         , run'.status # "running"
  PROVE  RunSafe'
<1>1. OpsInv' /\ db' = db
  BY NothingDone DEF RunSafe, opVars
<1>2. repairer.state # "waits" /\ repairer' = repairer
  BY DEF RunSafe, RecInv, RunInv
<1>3. CountsOfRepair'
  BY DEF CountsOfRepair, FinalStatus
<1>4. RunInv'
  BY <1>2, <1>3 DEF RunInv
<1>5. QED
  BY <1>1, <1>4 DEF RunSafe, RecInv

LEMMA RefreshTyped ==
  ASSUME NEW scope, Refresh(scope)
  PROVE  /\ DOMAIN pairs' \subseteq Pairs /\ \A p \in DOMAIN pairs' : pairs'[p] \in BOOLEAN
         /\ DOMAIN findings' = {} /\ FindingsOK(findings', db)
         /\ UNCHANGED <<repairer, opVars>>
<1>1. findings' = <<>>
  BY DEF Refresh
<1>2. DOMAIN findings' = {} /\ findings' \in [{} -> Finding]
  BY <1>1
<1>3. FindingsOK(findings', db)
  BY <1>2 DEF FindingsOK
<1>4. QED
  BY <1>2, <1>3 DEF Refresh, AssignedPairs, ToBeAbsent

LEMMA PreviewKeeps ==
  ASSUME RunSafe, NEW source \in {"manual", "scheduled"}, NEW scope, CreatePreview(source, scope)
  PROVE  RunSafe'
<1>1. /\ run.status = "none" /\ run.parent = "none" /\ ReconcileTypeOK
      /\ run' = [run EXCEPT !.status = "discovering", !.source = source, !.attempt = 1]
      /\ Refresh(scope)
  BY DEF CreatePreview, RunSafe, RecInv, RunInv
<1>2. 1 \in 0..MaxAttempts
  BY ReconciliationAssumption
<1>3. /\ run'.status = "discovering" /\ run'.parent = "none"
      /\ ReconcileTypeOK'
  BY <1>1, <1>2, RefreshTyped DEF ReconcileTypeOK
<1>4. QED
  BY <1>1, <1>3, RefreshTyped, BeforeRepair

LEMMA RetriedKeeps ==
  ASSUME RunSafe, RetryDiscovery
  PROVE  RunSafe'
<1>1. /\ run.status = "retrying" /\ run.parent = "none" /\ ReconcileTypeOK
      /\ run.attempt < MaxAttempts
      /\ run' = [run EXCEPT !.status = "discovering", !.attempt = run.attempt + 1]
      /\ Refresh(Accounts)
  BY DEF RetryDiscovery, RunSafe, RecInv, RunInv
<1>2. run.attempt + 1 \in 0..MaxAttempts
  BY <1>1, ReconciliationAssumption DEF ReconcileTypeOK
<1>3. /\ run'.status = "discovering" /\ run'.parent = "none"
      /\ ReconcileTypeOK'
  BY <1>1, <1>2, RefreshTyped DEF ReconcileTypeOK
<1>4. QED
  BY <1>1, <1>3, RefreshTyped, BeforeRepair

LEMMA InspectKeeps ==
  ASSUME RunSafe, NEW p \in Pairs, NEW s, Inspect(p, s)
  PROVE  RunSafe'
<1> DEFINE want == [absent |-> pairs[p], memberships |-> Memberships, keys |-> PublicKeys]
           report == Compare(want, CanDo, s)
           row == [status  |-> ReportStatus(report),
                   gone    |-> report["identity"] = "drift" /\ s.present = {FALSE},
                   removes |-> report["identity"] = "drift" /\ pairs[p],
                   repair  |-> "none", op |-> NoOp]
           new == [q \in DOMAIN findings \cup {p} |-> IF q = p THEN row ELSE findings[q]]
<1>1. /\ run.status = "discovering" /\ run.parent = "none" /\ ReconcileTypeOK
      /\ FindingsOK(findings, db) /\ p \notin DOMAIN findings
      /\ \A q \in DOMAIN findings : findings[q].repair = "none"
      /\ UNCHANGED <<run, pairs, repairer, opVars>> /\ p \in DOMAIN pairs
  BY DEF Inspect, RunSafe, RecInv, RunInv
<1>2. findings' = new
  BY DEF Inspect
<1>3. row \in Finding /\ row.repair = "none"
  <2>1. pairs[p] \in BOOLEAN
    BY <1>1 DEF ReconcileTypeOK
  <2>2. ReportStatus(report) \in {"in_sync", "drifted", "unknown"}
    BY DEF ReportStatus
  <2> HIDE DEF report
  <2>3. QED
    BY <2>1, <2>2 DEF Finding, RepairStatus, NoOp
<1> HIDE DEF row
<1>4. /\ DOMAIN new = DOMAIN findings \cup {p}
      /\ new \in [DOMAIN findings \cup {p} -> Finding]
      /\ \A q \in DOMAIN new : new[q].repair = "none"
  BY <1>1, <1>3 DEF FindingsOK
<1> HIDE DEF new
<1>5. FindingsOK(findings', db)
  BY <1>1, <1>2, <1>4 DEF FindingsOK
<1>6. ReconcileTypeOK'
  BY <1>1, <1>2, <1>4 DEF ReconcileTypeOK
<1>7. QED
  BY <1>1, <1>2, <1>4, <1>5, <1>6, BeforeRepair

LEMMA DiscoveredKeeps ==
  ASSUME RunSafe, Discovered
  PROVE  RunSafe'
<1>1. /\ run.status = "discovering" /\ run.parent = "none" /\ ReconcileTypeOK
      /\ FindingsOK(findings, db)
      /\ \A q \in DOMAIN findings : findings[q].repair = "none"
      /\ UNCHANGED <<pairs, findings, repairer, opVars>>
      /\ run' = [run EXCEPT !.status = DiscoveryStatus]
  BY DEF Discovered, RunSafe, RecInv, RunInv
<1>2. /\ DiscoveryStatus \in {"previewed", "retrying", "failed"}
      /\ DiscoveryStatus = "retrying" => run.attempt < MaxAttempts
  BY <1>1, ReconciliationAssumption DEF DiscoveryStatus, ReconcileTypeOK
<1>3. ReconcileTypeOK' /\ run'.parent = "none" /\ run'.status = DiscoveryStatus
      /\ run'.attempt = run.attempt
  BY <1>1, <1>2 DEF ReconcileTypeOK, FinalStatus
<1>4. QED
  BY <1>1, <1>2, <1>3, BeforeRepair

LEMMA ApprovalKeeps ==
  ASSUME RunSafe, ApproveReconciliation
  PROVE  RunSafe'
<1> DEFINE asked == \E p \in DOMAIN findings : findings[p].removes
<1>1. /\ run.status = "previewed" /\ run.parent = "none" /\ ReconcileTypeOK
      /\ FindingsOK(findings, db) /\ DriftedIn(findings) # {}
      /\ \A q \in DOMAIN findings : findings[q].repair = "none"
      /\ UNCHANGED <<pairs, findings, repairer, opVars>>
      /\ run' = [run EXCEPT !.status = "approved", !.parent = "queued", !.confirmed = asked]
  BY Drifted DEF ApproveReconciliation, RunSafe, RecInv, RunInv
<1>2. asked \in BOOLEAN
  OBVIOUS
<1> HIDE DEF asked
<1>3. ReconcileTypeOK' /\ run'.status = "approved"
  BY <1>1, <1>2 DEF ReconcileTypeOK
<1>4. QED
  BY <1>1, <1>3, BeforeRepair

LEMMA RepairStarts ==
  ASSUME RunSafe, NEW secrets, NEW usable, StartRepair(secrets, usable)
  PROVE  RunSafe' /\ Resumes(db)
<1> DEFINE w == [d |-> db, f |-> findings, groups |-> DriftedGroups,
                 done |-> 0, failed |-> 0, call |-> {}]
<1>1. /\ OpsInv /\ ReconcileTypeOK /\ FindingsOK(findings, db) /\ DriftedIn(findings) # {}
      /\ \A p \in DOMAIN findings : findings[p].repair = "none"
      /\ Concludes(RepairGroups(w, secrets, usable)) /\ sessions' = sessions
  BY DEF StartRepair, RunSafe, RecInv, RunInv
<1>2. /\ DriftedGroups \in Seq(Pairs) /\ In(DriftedGroups) = DriftedIn(findings)
      /\ \A i, j \in 1..Len(DriftedGroups) : DriftedGroups[i] = DriftedGroups[j] => i = j
  BY <1>1, GroupsOnce DEF FindingsOK
<1>3. Sound(db) /\ Grows(db, db) /\ SessionsOK(sessions', db) /\ db \in Rows
  BY <1>1, KeptTrans DEF OpsInv, Sound
<1>4. Progress(findings, DriftedGroups, 0, 0)
  <2>1. RepairedIn(findings) = {}
    BY <1>1 DEF RepairedIn, DriftedIn
  <2>2. QED
    BY <1>1, <1>2, <2>1, FS_EmptySet DEF Progress, DriftedIn
<1>5. w \in Repairing(DOMAIN w.f)
  <2> DEFINE g == DriftedGroups
  <2>1. g \in Seq(Pairs) /\ findings \in [DOMAIN findings -> Finding] /\ 0 \in Nat
    BY <1>1, <1>2 DEF FindingsOK
  <2> HIDE DEF g
  <2>2. [d |-> db, f |-> findings, groups |-> g, done |-> 0, failed |-> 0, call |-> {}]
          \in Repairing(DOMAIN findings)
    BY <1>3, <2>1 DEF Repairing
  <2>3. QED
    BY <2>2 DEF g
<1>6. /\ w.d = db /\ w.f = findings /\ w.groups = DriftedGroups /\ w.done = 0 /\ w.failed = 0
      /\ w.call = {}
  OBVIOUS
<1> HIDE DEF w
<1>7. QED
  BY <1>1, <1>3, <1>4, <1>5, <1>6, RepairConcludes

\* The group that was awaited has come back, and the repair goes on.
LEMMA GroupComesBack ==
  ASSUME RunSafe, NEW d, Sound(d), Grows(db, d), SessionsOK(sessions', d),
         repairer.state = "waits", NEW secrets, NEW usable, RepairGoesOn(d, secrets, usable)
  PROVE  RunSafe' /\ Resumes(d)
<1> DEFINE p == Head(repairer.groups)
           ok == Repaired(d, findings[p].op)
           res == IF ok THEN "repaired" ELSE "failed"
           row == [findings[p] EXCEPT !.repair = res]
           new == [findings EXCEPT ![p] = row]
           rest == Tail(repairer.groups)
           done == repairer.done + IF ok THEN 1 ELSE 0
           failed == repairer.failed + IF ok THEN 0 ELSE 1
           w == [d |-> d, f |-> new, groups |-> rest, done |-> done, failed |-> failed,
                 call |-> {}]
<1>1. /\ OpsInv /\ ReconcileTypeOK /\ FindingsOK(findings, db) /\ DriftedIn(findings) # {}
      /\ Progress(findings, repairer.groups, repairer.done, repairer.failed)
      /\ repairer.groups # <<>> /\ Sound(db)
  BY DEF RunSafe, RecInv, RunInv, OpsInv
<1>2. FindingsOK(findings, d)
  BY <1>1, FindingsStay
<1>3. /\ p \in DOMAIN findings /\ rest = RestOf(repairer.groups) /\ rest \in Seq(Pairs)
      /\ repairer.done \in Nat /\ repairer.failed \in Nat
  BY <1>1, GroupsRest DEF Progress, DriftedIn
<1>4. findings[p] \in Finding
  BY <1>1, <1>3 DEF FindingsOK
<1>5. row \in Finding /\ row.status = findings[p].status /\ row.repair = res
      /\ row.op = findings[p].op /\ res \in {"repaired", "failed"}
  BY <1>4 DEF Finding, RepairStatus
<1>6. [findings EXCEPT ![p].repair = res] = new
  BY <1>3
<1>7. Concludes(RepairGroups(w, secrets, usable))
  BY <1>6 DEF RepairGoesOn
<1>8. findings[p].op \in 1..Len(db.ops)
  BY <1>3 DEF RunSafe, RecInv, RunInv, FindingsOK
<1>9. findings[p].op \in 1..Len(d.ops)
  <2>1. Len(db.ops) \in Nat /\ Len(d.ops) \in Nat /\ Len(db.ops) <= Len(d.ops)
    BY <1>1, DbSound DEF Grows
  <2>2. QED
    BY <1>8, <2>1
<1>10. row.repair \in {"running", "repaired"} =>
         row.op \in 1..Len(d.ops) /\ (row.repair = "repaired" => d.ops[row.op].status = "succeeded")
  BY <1>5, <1>9 DEF Repaired
<1> HIDE DEF row
<1>11. /\ FindingsOK(new, d) /\ DOMAIN new = DOMAIN findings /\ DriftedIn(new) = DriftedIn(findings)
       /\ row.repair = "repaired" => Progress(new, rest, repairer.done + 1, repairer.failed)
       /\ row.repair # "repaired" => Progress(new, rest, repairer.done, repairer.failed + 1)
  BY <1>1, <1>2, <1>3, <1>5, <1>10, HeadDone
<1>12. done \in Nat /\ failed \in Nat /\ Progress(new, rest, done, failed)
  BY <1>3, <1>5, <1>11
<1> HIDE DEF new, rest, done, failed
<1>13. new \in [DOMAIN new -> Finding] /\ d \in Rows
  BY <1>11 DEF FindingsOK, Sound
<1>14. w \in Repairing(DOMAIN new)
  BY <1>3, <1>12, <1>13 DEF Repairing
<1>15. /\ w.d = d /\ w.f = new /\ w.groups = rest /\ w.done = done /\ w.failed = failed
       /\ w.call = {}
  OBVIOUS
<1> HIDE DEF w
<1>16. QED
  BY <1>1, <1>7, <1>11, <1>12, <1>14, <1>15, RepairConcludes

LEMMA RepairComesBack ==
  ASSUME RunSafe, NEW secrets, NEW usable, RepairReturns(secrets, usable)
  PROVE  RunSafe'
<1>1. OpsInv /\ repairer.state = "waits"
  BY DEF RunSafe, RepairReturns
<1>2. CASE RepairGoesOn(db, secrets, usable) /\ sessions' \in SUBSET sessions
  <2>1. Sound(db) /\ Grows(db, db) /\ SessionsOK(sessions', db)
    BY <1>1, <1>2, KeptTrans DEF OpsInv, SessionsOK
  <2>2. QED
    BY <1>1, <1>2, <2>1, GroupComesBack
<1>3. ASSUME NEW s \in Holds("repair"), NEW status \in Outcomes,
             sessions' = sessions \ {s}, RepairGoesOn(Ended(s, status), secrets, usable)
      PROVE  RunSafe'
  <2>1. s \in sessions
    BY DEF Holds
  <2>2. /\ Sound(Ended(s, status)) /\ Grows(db, Ended(s, status))
        /\ SessionsOK(sessions', Ended(s, status))
    BY <1>1, <1>3, <2>1, EndedRows
  <2>3. QED
    BY <1>1, <1>3, <2>2, GroupComesBack
<1>4. QED
  BY <1>2, <1>3 DEF RepairReturns, StaysRunning

LEMMA RepairBreaks ==
  ASSUME RunSafe, RepairRaises
  PROVE  RunSafe'
<1>1. /\ OpsInv /\ ReconcileTypeOK /\ FindingsOK(findings, db) /\ RunInv
      /\ "repair" \in Coroutines /\ run.status = "running"
  BY ReconciliationAssumption DEF RunSafe, RecInv, RunInv, RepairRaises
<1>2. /\ Raises("repair") /\ Breaks("repair") /\ UNCHANGED <<run, pairs, findings, meanwhile>>
      /\ repairer' = [repairer EXCEPT !.state = "raised"]
  BY DEF RepairRaises
<1>3. ComesBack
  BY <1>1, <1>2, ReturnsComesBack
<1>4. OpsInv'
  BY <1>1, <1>2, <1>3, CameBack
<1>5. FindingsOK(findings', db')
  BY <1>1, <1>2, <1>3, FindingsStay DEF OpsInv, ComesBack
<1>6. ReconcileTypeOK' /\ repairer'.state = "raised"
  BY <1>1, <1>2 DEF ReconcileTypeOK
<1>7. CountsOfRepair'
  BY <1>1, <1>2 DEF CountsOfRepair, FinalStatus
<1>8. RunInv'
  BY <1>1, <1>2, <1>6, <1>7 DEF RunInv
<1>9. QED
  BY <1>4, <1>5, <1>6, <1>8 DEF RunSafe, RecInv

LEMMA ReconciliationKeeps ==
  ASSUME RunSafe, ReconcileNext
  PROVE  RunSafe'
<1>1. DiscoveryStep => RunSafe'
  BY DiscoveredKeeps, RetriedKeeps, InspectKeeps DEF DiscoveryStep
<1>2. RepairStep => RunSafe'
  BY RepairBreaks, RepairStarts, RepairComesBack DEF RepairStep
<1>3. QED
  BY <1>1, <1>2, PreviewKeeps, ApprovalKeeps DEF ReconcileNext

LEMMA RestartKeepsRun ==
  ASSUME RunSafe, OperationsLost, ReconcileLost
  PROVE  RunSafe'
<1>1. OpsInv' /\ db' = db
  BY LostKeeps DEF RunSafe
<1>2. /\ ReconcileTypeOK /\ FindingsOK(findings, db) /\ RunInv
      /\ UNCHANGED <<run, findings>>
      /\ repairer' = [repairer EXCEPT
           !.state = IF run.status \in {"discovering", "approved", "running"} THEN "lost" ELSE @]
      /\ pairs' = IF run.status = "discovering" THEN <<>> ELSE pairs
  BY DEF RunSafe, RecInv, ReconcileLost
<1>3. /\ repairer'.state = IF run.status \in {"discovering", "approved", "running"}
                           THEN "lost" ELSE repairer.state
      /\ repairer'.groups = repairer.groups /\ repairer'.done = repairer.done
      /\ repairer'.failed = repairer.failed
      /\ repairer' \in [state : {"idle", "waits", "raised", "lost", "ended"},
                        groups : Seq(Pairs), done : Nat, failed : Nat]
  BY <1>2 DEF ReconcileTypeOK
<1>4. DOMAIN pairs' \subseteq Pairs /\ \A p \in DOMAIN pairs' : pairs'[p] \in BOOLEAN
  <2>1. CASE run.status = "discovering"
    <3>1. DOMAIN pairs' = {}
      BY <1>2, <2>1
    <3>2. QED
      BY <3>1
  <2>2. CASE run.status # "discovering"
    BY <1>2, <2>2 DEF ReconcileTypeOK
  <2>3. QED
    BY <2>1, <2>2
<1>5. ReconcileTypeOK'
  BY <1>2, <1>3, <1>4 DEF ReconcileTypeOK
<1>6. repairer'.state # "waits"
  BY <1>2, <1>3 DEF RunInv
<1>7. CountsOfRepair'
  BY <1>2, <1>3 DEF RunInv, CountsOfRepair, With
<1>8. RunInv'
  BY <1>2, <1>6, <1>7 DEF RunInv
<1>9. QED
  BY <1>1, <1>2, <1>5, <1>8 DEF RunSafe, RecInv
-----------------------------------------------------------------------------
(***************************************************************************)
(* The theorem about reconciliation, and the types of all workflows.       *)
(***************************************************************************)
\* The workflows that explore reconciliation.
Reconciles == {"reconciliation", "removal", "restored"}

\* The other workflows leave the run as it starts.
RunsInv == IF explored \in Reconciles THEN RunSafe ELSE ReconcileInit

LEMMA RunStep ==
  RunsInv /\ [WorkflowsNext]_allVars => RunsInv'
<1> SUFFICES ASSUME RunsInv, [WorkflowsNext]_allVars
             PROVE  RunsInv'
  OBVIOUS
<1>1. CASE UNCHANGED allVars
  <2>1. UNCHANGED <<opVars, reconcileVars, explored>>
    BY <1>1 DEF allVars
  <2>2. OpsInv => OpsInv'
    BY <2>1, NothingDone
  <2>3. OpsInv => Grows(db, db')
    BY <2>1, KeptTrans DEF opVars, OpsInv
  <2>4. RunSafe => RunSafe'
    BY <2>1, <2>2, <2>3, OthersKeepRun DEF RunSafe
  <2>5. ReconcileInit => ReconcileInit'
    BY <2>1 DEF reconcileVars, ReconcileInit
  <2>6. QED
    BY <2>1, <2>4, <2>5 DEF RunsInv
<1>2. CASE Govern /\ UNCHANGED explored
  BY <1>2 DEF Govern, RunsInv, Reconciles, ReconcileInit, reconcileVars
<1>3. CASE Bulk /\ UNCHANGED explored
  BY <1>3 DEF Bulk, RunsInv, Reconciles, ReconcileInit, reconcileVars
<1>4. CASE Reconcile /\ UNCHANGED explored
  <2>1. RunSafe /\ explored' \in Reconciles
    BY <1>4 DEF Reconcile, RunsInv, Reconciles
  <2>2. CASE ReconcileNext
    BY <2>1, <2>2, ReconciliationKeeps DEF RunsInv
  <2>3. CASE OperationsNext /\ UNCHANGED reconcileVars
    BY <2>1, <2>3, OperationsKeep, OthersKeepRun DEF RunsInv, RunSafe
  <2>4. CASE OperationsLost /\ ReconcileLost
    BY <2>1, <2>4, RestartKeepsRun DEF RunsInv
  <2>5. QED
    BY <1>4, <2>2, <2>3, <2>4 DEF Reconcile
<1>5. QED
  BY <1>1, <1>2, <1>3, <1>4 DEF WorkflowsNext

LEMMA ReconcileStarts ==
  ASSUME ReconcileInit
  PROVE  ReconcileTypeOK /\ FindingsOK(findings, db) /\ RunInv
<1>1. DOMAIN pairs = {} /\ DOMAIN findings = {} /\ findings \in [{} -> Finding]
      /\ 0 \in 0..MaxAttempts
  BY ReconciliationAssumption DEF ReconcileInit
<1>2. ReconcileTypeOK
  BY <1>1 DEF ReconcileInit, ReconcileTypeOK
<1>3. FindingsOK(findings, db)
  BY <1>1 DEF FindingsOK
<1>4. CountsOfRepair
  BY DEF ReconcileInit, CountsOfRepair
<1>5. RunInv
  BY <1>1, <1>4 DEF ReconcileInit, RunInv
<1>6. QED
  BY <1>2, <1>3, <1>5

LEMMA RunStart ==
  ASSUME NEW starts, WorkflowsInit(starts)
  PROVE  RunsInv
BY OperationsStart, ReconcileStarts DEF WorkflowsInit, RunsInv, RunSafe, RecInv

\* For any accounts, targets and requests, a run's findings, counts and operations
\* fit together; the other workflows touch no run.
THEOREM Reconciled == WorkflowsSpec => []RunsInv
<1>1. WorkflowsInit({"bulk", "governance", "reconciliation", "removal", "comparison"})
        => RunsInv
  BY RunStart
<1>2. QED
  BY <1>1, RunStep, PTL DEF WorkflowsSpec

\* For any accounts, targets and attempts, a finding reports a repair only for an
\* operation that has succeeded, and a repair that is over says of itself what its
\* findings say, those that were skipped among the failures.
THEOREM RunsAgree == WorkflowsSpec => []RunAgrees
<1>1. RunSafe => RunAgrees
  BY DEF RunSafe, RecInv, RunInv, FindingsOK, RunAgrees, RepairedIsDone
<1>2. ReconcileInit => RunAgrees
  <2>1. ReconcileInit => DOMAIN findings = {} /\ CountsOfRepair
    BY ReconcileStarts DEF RunInv, ReconcileInit
  <2>2. QED
    BY <2>1 DEF RunAgrees, RepairedIsDone
<1>3. RunsInv => RunAgrees
  BY <1>1, <1>2 DEF RunsInv
<1>4. QED
  BY <1>3, Reconciled, PTL

\* What every workflow leaves: each invariant, and the types of the other workflows'.
AllTyped ==
  /\ JobInv /\ GovernedInv /\ RunsInv
  /\ OpsInv /\ BulkTypeOK /\ GovernanceTypeOK /\ ReconcileTypeOK

LEMMA TypesStart ==
  ASSUME NEW starts, WorkflowsInit(starts)
  PROVE  AllTyped
<1>1. OpsInv /\ BulkInit /\ GovernanceInit /\ ReconcileInit
  BY OperationsStart DEF WorkflowsInit
<1>2. BulkTypeOK
  BY <1>1, BulkStarts DEF BulkSafe, BulkInv
<1>3. ReconcileTypeOK
  BY <1>1, ReconcileStarts
<1>4. GovernanceTypeOK
  <2>1. NoPolicy \in PolicyRow /\ 0 \in 0..LastDay /\ 0 \in 0..MaxSaves
    BY GovernanceAssumption DEF NoPolicy, PolicyRow, Day, Never
  <2>2. QED
    BY <1>1, <2>1 DEF GovernanceInit, GovernanceTypeOK
<1>5. QED
  BY <1>1, <1>2, <1>3, <1>4, JobStart, GovernedStart, RunStart DEF AllTyped

LEMMA TypesStep ==
  AllTyped /\ [WorkflowsNext]_allVars => AllTyped'
<1> SUFFICES ASSUME AllTyped, [WorkflowsNext]_allVars
             PROVE  AllTyped'
  OBVIOUS
<1>1. JobInv' /\ GovernedInv' /\ RunsInv'
  BY JobStep, GovernedStep, RunStep DEF AllTyped
<1>2. UNCHANGED bulkVars => BulkTypeOK'
  BY DEF AllTyped, BulkTypeOK, bulkVars
<1>3. UNCHANGED governanceVars => GovernanceTypeOK'
  BY DEF AllTyped, GovernanceTypeOK, governanceVars
<1>4. UNCHANGED reconcileVars => ReconcileTypeOK'
  BY DEF AllTyped, ReconcileTypeOK, reconcileVars
<1>5. CASE UNCHANGED allVars
  <2>1. UNCHANGED <<opVars, bulkVars, governanceVars, reconcileVars>>
    BY <1>5 DEF allVars
  <2>2. OpsInv'
    BY <2>1, NothingDone DEF AllTyped
  <2>3. QED
    BY <1>1, <1>2, <1>3, <1>4, <2>1, <2>2 DEF AllTyped
<1>6. CASE Bulk /\ UNCHANGED explored
  <2>1. explored' = "bulk" /\ UNCHANGED <<governanceVars, reconcileVars>>
    BY <1>6 DEF Bulk
  <2>2. BulkSafe'
    BY <1>1, <2>1 DEF JobInv
  <2>3. QED
    BY <1>1, <1>3, <1>4, <2>1, <2>2 DEF BulkSafe, BulkInv, AllTyped
<1>7. CASE Govern /\ UNCHANGED explored
  <2>1. explored' = "governance" /\ UNCHANGED <<bulkVars, reconcileVars>>
    BY <1>7 DEF Govern
  <2>2. GovSafe'
    BY <1>1, <2>1 DEF GovernedInv
  <2>3. QED
    BY <1>1, <1>2, <1>4, <2>1, <2>2 DEF GovSafe, GovInv, AllTyped
<1>8. CASE Reconcile /\ UNCHANGED explored
  <2>1. explored' \in Reconciles /\ UNCHANGED <<bulkVars, governanceVars>>
    BY <1>8 DEF Reconcile, Reconciles
  <2>2. RunSafe'
    BY <1>1, <2>1 DEF RunsInv
  <2>3. QED
    BY <1>1, <1>2, <1>3, <2>1, <2>2 DEF RunSafe, RecInv, AllTyped
<1>9. QED
  BY <1>5, <1>6, <1>7, <1>8 DEF WorkflowsNext

\* For any accounts, rows, schedules and targets, every row, queue and coroutine of
\* the workflows is in its type.
THEOREM WorkflowsTyped == WorkflowsSpec => []WorkflowsTypeOK
<1>1. WorkflowsInit({"bulk", "governance", "reconciliation", "removal", "comparison"})
        => AllTyped
  BY TypesStart
<1>2. AllTyped => WorkflowsTypeOK
  BY OpsTypes DEF AllTyped, WorkflowsTypeOK
<1>3. QED
  BY <1>1, <1>2, TypesStep, PTL DEF WorkflowsSpec
-----------------------------------------------------------------------------
(***************************************************************************)
(* What is under way in good order: one call or session works for an       *)
(* operation, and a repair that deletes has the account to itself.         *)
(***************************************************************************)
\* d: rows; q: the calls that wait; S: the sessions.
Unended(d, op) == op # 0 /\ d.ops[op].status \notin TerminalStatus

\* An operation has one call or session.
Separate(q, S) ==
  \A a \in Accounts : \A i \in 1..Len(q[a]) :
    /\ \A j \in 1..Len(q[a]) : q[a][i].op = q[a][j].op => i = j
    /\ \A s \in S : s.op # q[a][i].op

\* What waits has not begun.
Unbegun(q, d) ==
  \A a \in Accounts : \A i \in 1..Len(q[a]) :
    d.ops[q[a][i].op].status \in {"queued", "cancelled"}

\* A session that will clear active_operation_id leaves no free account meanwhile.
Occupied(S, d) ==
  \A s \in S :
    d.acct[s.user].exists /\ s.seen = s.op => Unended(d, d.acct[s.user].active)

\* The operation of a repair's call stays the account's until it begins, and
\* the account to be deleted, if the call deletes it.
Awaited(q, S, d) ==
  \A a \in Accounts : \A i \in 1..Len(q[a]) :
    q[a][i].by = "repair" /\ d.acct[a].exists /\ d.ops[q[a][i].op].status = "queued" =>
      /\ d.acct[a].active = q[a][i].op
      /\ \A s \in S : s.user = a => s.seen # s.op
      /\ q[a][i].action = "delete" => ToBeAbsent(d, a)

\* The session of a repair deletes what is to be deleted, and occupies the account.
Warranted(S, d) ==
  \A s \in S :
    s.by = "repair" /\ s.desired = "delete" /\ d.acct[s.user].exists =>
      ToBeAbsent(d, s.user) /\ s.seen = s.op

Orderly(q, S, d) ==
  /\ Separate(q, S) /\ Unbegun(q, d) /\ Occupied(S, d)
  /\ Awaited(q, S, d) /\ Warranted(S, d)

-----------------------------------------------------------------------------
\* The queues q2 are those of q, without the heads of some.
Shorter(q2, q) ==
  \A a \in Accounts : \E k \in 0..1 :
    \A i \in 1..Len(q2[a]) : i + k \in 1..Len(q[a]) /\ q2[a][i] = q[a][i + k]

LEMMA LeavesShorter ==
  ASSUME NEW d, NEW q, CallsOK(q, d), NEW served,
         \A c \in served : \E a \in Accounts : \E i \in 1..Len(q[a]) : c = q[a][i]
  PROVE  Shorter(Left(q, served), q)
<1> DEFINE j == Left(q, served)
<1>1. ASSUME NEW a \in Accounts
      PROVE  \E k \in 0..1 : \A i \in 1..Len(j[a]) : i + k \in 1..Len(q[a]) /\ j[a][i] = q[a][i + k]
  <2>1. CASE \E c \in served : c.user = a
    <3>1. \E i \in 1..Len(q[a]) : TRUE
      BY <2>1 DEF CallsOK
    <3>2. q[a] \in Seq(Call) /\ q[a] # <<>> /\ j[a] = Tail(q[a])
      BY <2>1, <3>1, EmptySeq DEF CallsOK, Left
    <3> HIDE DEF j
    <3>3. Len(j[a]) = Len(q[a]) - 1 /\ Len(q[a]) \in Nat /\ Len(j[a]) \in Nat
      BY <3>2, HeadTailProperties, LenProperties
    <3>4. \A i \in 1..Len(j[a]) : i + 1 \in 1..Len(q[a]) /\ j[a][i] = q[a][i + 1]
      BY <3>2, <3>3
    <3>5. QED
      BY <3>4
  <2>2. CASE ~ \E c \in served : c.user = a
    <3>1. j[a] = q[a] /\ Len(q[a]) \in Nat
      BY <2>2, LenProperties DEF CallsOK, Left
    <3> HIDE DEF j
    <3>2. \A i \in 1..Len(j[a]) : i + 0 \in 1..Len(q[a]) /\ j[a][i] = q[a][i + 0]
      BY <3>1
    <3>3. QED
      BY <3>2
  <2>3. QED
    BY <2>1, <2>2
<1>2. QED
  BY <1>1 DEF Shorter

\* Calls and sessions that are gone disturb nothing.
LEMMA FewerOrderly ==
  ASSUME NEW q, NEW q2, NEW S, NEW S2 \in SUBSET S, NEW d, Shorter(q2, q), Orderly(q, S, d)
  PROVE  Orderly(q2, S2, d)
<1>1. ASSUME NEW a \in Accounts, NEW i \in 1..Len(q2[a]), NEW k \in 0..1,
             \A h \in 1..Len(q2[a]) : h + k \in 1..Len(q[a]) /\ q2[a][h] = q[a][h + k]
      PROVE  /\ \A j \in 1..Len(q2[a]) : q2[a][i].op = q2[a][j].op => i = j
             /\ \A s \in S2 : s.op # q2[a][i].op
             /\ d.ops[q2[a][i].op].status \in {"queued", "cancelled"}
             /\ q2[a][i].by = "repair" /\ d.acct[a].exists /\ d.ops[q2[a][i].op].status = "queued" =>
                  /\ d.acct[a].active = q2[a][i].op
                  /\ \A s \in S2 : s.user = a => s.seen # s.op
                  /\ q2[a][i].action = "delete" => ToBeAbsent(d, a)
  <2>1. i + k \in 1..Len(q[a]) /\ q2[a][i] = q[a][i + k]
    BY <1>1
  <2>2. \A j \in 1..Len(q2[a]) : q2[a][i].op = q2[a][j].op => i = j
    <3>1. ASSUME NEW j \in 1..Len(q2[a]), q2[a][i].op = q2[a][j].op
          PROVE  i = j
      <4>1. j + k \in 1..Len(q[a]) /\ q2[a][j] = q[a][j + k]
        BY <1>1
      <4>2. q[a][i + k].op = q[a][j + k].op
        BY <2>1, <3>1, <4>1
      <4>3. i + k = j + k
        BY <2>1, <4>1, <4>2 DEF Orderly, Separate
      <4>4. QED
        BY <4>3
    <3>2. QED
      BY <3>1
  <2>3. QED
    BY <2>1, <2>2 DEF Orderly, Separate, Unbegun, Awaited
<1>2. Separate(q2, S2) /\ Unbegun(q2, d) /\ Awaited(q2, S2, d)
  BY <1>1 DEF Shorter, Separate, Unbegun, Awaited
<1>3. Occupied(S2, d) /\ Warranted(S2, d)
  BY DEF Orderly, Occupied, Warranted
<1>4. QED
  BY <1>2, <1>3 DEF Orderly

\* A call for an operation that nothing works for joins its queue.
LEMMA JoinsOrderly ==
  ASSUME NEW q, NEW d, CallsOK(q, d), NEW S, Orderly(q, S, d), NEW c \in Call,
         \A a \in Accounts : \A i \in 1..Len(q[a]) : q[a][i].op # c.op,
         \A s \in S : s.op # c.op,
         d.ops[c.op].status = "queued",
         c.by = "repair" => /\ d.acct[c.user].active = c.op
                            /\ \A s \in S : s.user = c.user => s.seen # s.op
                            /\ c.action = "delete" => ToBeAbsent(d, c.user),
         NEW new \in SUBSET {c}
  PROVE  Orderly(Joined(q, new), S, d)
<1> DEFINE j == Joined(q, new)
<1>1. ASSUME NEW a \in Accounts
      PROVE  \/ j[a] = q[a]
             \/ j[a] = Append(q[a], c) /\ c.user = a
  <2>1. CASE new = {}
    BY <2>1 DEF Joined
  <2>2. CASE new = {c}
    BY <2>2 DEF Joined
  <2>3. QED
    BY <2>1, <2>2
<1> HIDE DEF j
<1>2. ASSUME NEW a \in Accounts, NEW i \in 1..Len(j[a])
      PROVE  \/ i \in 1..Len(q[a]) /\ j[a][i] = q[a][i]
             \/ i = Len(q[a]) + 1 /\ j[a][i] = c /\ c.user = a
  <2>1. CASE j[a] = q[a]
    BY <2>1
  <2>2. CASE j[a] = Append(q[a], c) /\ c.user = a
    <3>1. q[a] \in Seq(Call) /\ Len(q[a]) \in Nat
      BY LenProperties DEF CallsOK
    <3>2. Len(j[a]) = Len(q[a]) + 1 /\ j[a][Len(q[a]) + 1] = c
          /\ \A h \in 1..Len(q[a]) : j[a][h] = q[a][h]
      BY <2>2, <3>1, AppendProperties
    <3>3. i \in 1..Len(q[a]) \/ i = Len(q[a]) + 1
      BY <3>1, <3>2
    <3>4. QED
      BY <2>2, <3>2, <3>3
  <2>3. QED
    BY <1>1, <2>1, <2>2
<1>3. Separate(j, S)
  <2>1. ASSUME NEW a \in Accounts, NEW i \in 1..Len(j[a])
        PROVE  /\ \A h \in 1..Len(j[a]) : j[a][i].op = j[a][h].op => i = h
               /\ \A s \in S : s.op # j[a][i].op
    <3>1. \A h \in 1..Len(j[a]) : j[a][i].op = j[a][h].op => i = h
      <4>1. ASSUME NEW h \in 1..Len(j[a]), j[a][i].op = j[a][h].op
            PROVE  i = h
        <5>1. \/ i \in 1..Len(q[a]) /\ j[a][i] = q[a][i]
              \/ i = Len(q[a]) + 1 /\ j[a][i] = c
          BY <1>2
        <5>2. \/ h \in 1..Len(q[a]) /\ j[a][h] = q[a][h]
              \/ h = Len(q[a]) + 1 /\ j[a][h] = c
          BY <1>2
        <5>3. QED
          BY <4>1, <5>1, <5>2 DEF Orderly, Separate
      <4>2. QED
        BY <4>1
    <3>2. QED
      BY <1>2, <3>1 DEF Orderly, Separate
  <2>2. QED
    BY <2>1 DEF Separate
<1>4. Unbegun(j, d)
  BY <1>2 DEF Orderly, Unbegun
<1>5. Awaited(j, S, d)
  <2>1. ASSUME NEW a \in Accounts, NEW i \in 1..Len(j[a]),
               j[a][i].by = "repair", d.acct[a].exists, d.ops[j[a][i].op].status = "queued"
        PROVE  /\ d.acct[a].active = j[a][i].op
               /\ \A s \in S : s.user = a => s.seen # s.op
               /\ j[a][i].action = "delete" => ToBeAbsent(d, a)
    <3>1. CASE i \in 1..Len(q[a]) /\ j[a][i] = q[a][i]
      BY <2>1, <3>1 DEF Orderly, Awaited
    <3>2. CASE j[a][i] = c /\ c.user = a
      BY <2>1, <3>2
    <3>3. QED
      BY <1>2, <3>1, <3>2
  <2>2. QED
    BY <2>1 DEF Awaited
<1>6. QED
  BY <1>3, <1>4, <1>5 DEF Orderly, j

\* The rows e hold one operation more than d, of the account a; one that runs may
\* be superseded.
Begun(d, e, a, how) ==
  /\ Len(e.ops) = Len(d.ops) + 1
  /\ e.ops[Len(e.ops)].status = "queued"
  /\ \A i \in 1..Len(d.ops) :
       e.ops[i].status = IF how = "supersede" /\ i = d.acct[a].active THEN "cancelled"
                                                                     ELSE d.ops[i].status
  /\ e.acct[a].active = Len(e.ops)
  /\ \A b \in Accounts \ {a} : e.acct[b] = d.acct[b]
  /\ how = "start" => ~Unended(d, d.acct[a].active)

LEMMA RequestBegins ==
  ASSUME NEW d, Sound(d), NEW a \in Accounts, NEW cmd \in Command \ {"purge"},
         Decided(cmd, a, d) \in {"start", "supersede"}
  PROVE  Begun(d, Requested(cmd, a, d), a, Decided(cmd, a, d))
<1> DEFINE how == Decided(cmd, a, d)
           kept == IF how = "supersede" THEN [d.ops EXCEPT ![d.acct[a].active].status = "cancelled"]
                                        ELSE d.ops
           new == [user |-> a, cmd |-> cmd, status |-> "queued"]
           acct == [d.acct EXCEPT ![a].active = Len(d.ops) + 1]
           e == Requested(cmd, a, d)
<1>1. /\ d.ops \in Seq(OperationRow) /\ Len(d.ops) \in Nat /\ d.acct \in [Accounts -> AccountRow]
      /\ d.acct[a].active \in 0..Len(d.ops)
  BY DbSound DEF Sound, Pointed
<1>2. how = "supersede" => d.acct[a].active \in 1..Len(d.ops)
  BY <1>1, DecidedCases
<1>3. /\ kept \in Seq(OperationRow) /\ Len(kept) = Len(d.ops)
      /\ \A i \in 1..Len(d.ops) :
           kept[i].status = IF how = "supersede" /\ i = d.acct[a].active THEN "cancelled"
                                                                        ELSE d.ops[i].status
  <2>1. CASE how = "supersede"
    <3>1. "cancelled" \in OperationStatus
      BY DEF OperationStatus, TerminalStatus
    <3>2. QED
      BY <1>1, <1>2, <2>1, <3>1, OpExcept
  <2>2. CASE how # "supersede"
    BY <1>1, <2>2
  <2>3. QED
    BY <2>1, <2>2
<1>4. new \in OperationRow
  BY DEF OperationRow, OperationStatus
<1>5. e = [acct |-> acct, ops |-> Append(kept, new)]
  BY DEF Requested
<1>6. how = "start" => ~Unended(d, d.acct[a].active)
  <2>1. ASSUME how = "start", Unended(d, d.acct[a].active)
        PROVE  FALSE
    <3>1. Active(a, d) = {d.ops[d.acct[a].active]}
      BY <2>1 DEF Unended, Active, NoOp
    <3>2. Unfinished(Active(a, d))
      BY <2>1, <3>1 DEF Unfinished, Unended
    <3>3. QED
      BY <2>1, <3>2 DEF Decided, DecideTransition
  <2>2. QED
    BY <2>1
<1> HIDE DEF e, kept, how
<1>7. /\ Len(e.ops) = Len(d.ops) + 1 /\ e.ops[Len(e.ops)] = new
      /\ \A i \in 1..Len(d.ops) : e.ops[i] = kept[i]
  BY <1>1, <1>3, <1>4, <1>5, AppendProperties
<1>8. /\ e.acct[a].active = Len(e.ops) /\ \A b \in Accounts \ {a} : e.acct[b] = d.acct[b]
  BY <1>1, <1>5, <1>7
<1>9. Begun(d, e, a, how)
  BY <1>3, <1>6, <1>7, <1>8 DEF Begun
<1>10. QED
  BY <1>9 DEF e, how

\* A new operation leaves what is under way in order: one that supersedes another
\* is a deletion.
LEMMA BeginsOrderly ==
  ASSUME NEW d, Sound(d), NEW q, CallsOK(q, d), NEW S, SessionsOK(S, d), Orderly(q, S, d),
         NEW a \in Accounts, d.acct[a].exists, NEW how \in {"start", "supersede"},
         NEW e, Begun(d, e, a, how),
         how = "supersede" => ToBeAbsent(e, a)
  PROVE  /\ Orderly(q, S, e)
         /\ how = "start" => \A s \in S : s.user = a => s.seen # s.op
         /\ \A b \in Accounts : \A i \in 1..Len(q[b]) : q[b][i].op # Len(e.ops)
         /\ \A s \in S : s.op # Len(e.ops)
<1>1. /\ Len(d.ops) \in Nat /\ Len(e.ops) = Len(d.ops) + 1
      /\ e.ops[Len(e.ops)].status = "queued"
      /\ e.acct[a].active = Len(e.ops)
      /\ \A b \in Accounts : b # a => e.acct[b] = d.acct[b]
      /\ \A b \in Accounts : d.acct[b].active # 0 =>
            d.acct[b].active \in 1..Len(d.ops) /\ d.ops[d.acct[b].active].user = b
  BY DbSound DEF Begun, Sound, Pointed
<1>2. \A i \in 1..Len(d.ops) :
        e.ops[i].status = IF how = "supersede" /\ i = d.acct[a].active THEN "cancelled"
                                                                      ELSE d.ops[i].status
  BY DEF Begun
<1>3. /\ \A b \in Accounts : \A i \in 1..Len(q[b]) :
            q[b][i].op \in 1..Len(d.ops) /\ d.ops[q[b][i].op].user = b
      /\ \A s \in S : s.op \in 1..Len(d.ops) /\ s.user \in Accounts
  BY DEF CallsOK, SessionsOK, Refers, Session
<1>4. Unended(e, Len(e.ops))
  BY <1>1 DEF Unended, TerminalStatus
<1>5. how = "start" => \A s \in S : s.user = a => s.seen # s.op
  BY DEF Begun, Orderly, Occupied
<1>6. Unbegun(q, e)
  BY <1>2, <1>3 DEF Orderly, Unbegun
<1>7. Occupied(S, e)
  <2>1. ASSUME NEW s \in S, e.acct[s.user].exists, s.seen = s.op
        PROVE  Unended(e, e.acct[s.user].active)
    <3>1. CASE s.user = a
      BY <1>1, <1>4, <3>1
    <3>2. CASE s.user # a
      <4> DEFINE x == d.acct[s.user].active
      <4>1. e.acct[s.user] = d.acct[s.user] /\ Unended(d, x)
        BY <1>1, <1>3, <2>1, <3>2 DEF Orderly, Occupied
      <4>2. x # 0 /\ x \in 1..Len(d.ops) /\ d.ops[x].user = s.user
        BY <1>1, <1>3, <4>1 DEF Unended
      <4>3. x # d.acct[a].active
        BY <1>1, <3>2, <4>2
      <4> HIDE DEF x
      <4>4. e.ops[x].status = d.ops[x].status
        BY <1>2, <4>2, <4>3
      <4>5. QED
        BY <4>1, <4>4 DEF Unended, x
    <3>3. QED
      BY <3>1, <3>2
  <2>2. QED
    BY <2>1 DEF Occupied
<1>8. Awaited(q, S, e)
  <2>1. ASSUME NEW b \in Accounts, NEW i \in 1..Len(q[b]),
               q[b][i].by = "repair", e.acct[b].exists, e.ops[q[b][i].op].status = "queued"
        PROVE  /\ e.acct[b].active = q[b][i].op
               /\ \A s \in S : s.user = b => s.seen # s.op
               /\ q[b][i].action = "delete" => ToBeAbsent(e, b)
    <3> DEFINE op == q[b][i].op
    <3>1. op \in 1..Len(d.ops) /\ d.ops[op].status = "queued"
          /\ ~(how = "supersede" /\ op = d.acct[a].active)
      <4>1. op \in 1..Len(d.ops) /\ e.ops[op].status = "queued"
        BY <1>3, <2>1
      <4> HIDE DEF op
      <4>2. QED
        BY <1>2, <4>1
    <3>2. d.acct[b].exists
      BY <1>1, <2>1
    <3>3. /\ d.acct[b].active = op
          /\ \A s \in S : s.user = b => s.seen # s.op
          /\ q[b][i].action = "delete" => ToBeAbsent(d, b)
      BY <2>1, <3>1, <3>2 DEF Orderly, Awaited
    <3>4. b # a
      <4>1. CASE b = a
        <5>1. Unended(d, d.acct[a].active)
          BY <3>1, <3>3, <4>1 DEF Unended, TerminalStatus
        <5>2. QED
          BY <3>1, <3>3, <4>1, <5>1 DEF Begun
      <4>2. QED
        BY <4>1
    <3>5. QED
      BY <1>1, <3>3, <3>4 DEF ToBeAbsent
  <2>2. QED
    BY <2>1 DEF Awaited
<1>9. Warranted(S, e)
  <2>1. ASSUME NEW s \in S, s.by = "repair", s.desired = "delete", e.acct[s.user].exists
        PROVE  ToBeAbsent(e, s.user) /\ s.seen = s.op
    <3>1. d.acct[s.user].exists
      BY <1>1, <1>3, <2>1
    <3>2. ToBeAbsent(d, s.user) /\ s.seen = s.op
      BY <2>1, <3>1 DEF Orderly, Warranted
    <3>3. CASE s.user = a
      BY <1>5, <3>2, <3>3
    <3>4. CASE s.user # a
      BY <1>1, <1>3, <3>2, <3>4 DEF ToBeAbsent
    <3>5. QED
      BY <3>3, <3>4
  <2>2. QED
    BY <2>1 DEF Warranted
<1>10. QED
  BY <1>1, <1>3, <1>5, <1>6, <1>7, <1>8, <1>9 DEF Orderly

\* A session ends.
LEMMA EndsOrderly ==
  ASSUME OpsInv, NEW q, CallsOK(q, db), NEW s \in sessions, NEW status \in Outcomes,
         Orderly(q, sessions, db)
  PROVE  Orderly(q, sessions \ {s}, Ended(s, status))
<1> DEFINE d == db
           e == Ended(s, status)
           u == s.user
           S == sessions \ {s}
<1>1. /\ Sound(d) /\ d.ops \in Seq(OperationRow) /\ d.acct \in [Accounts -> AccountRow]
      /\ u \in Accounts /\ s.op \in 1..Len(d.ops) /\ d.ops[s.op].user = u
      /\ \A x \in S : x.user # u /\ x.user \in Accounts
      /\ \A b \in Accounts : d.acct[b].active # 0 =>
            d.acct[b].active \in 1..Len(d.ops) /\ d.ops[d.acct[b].active].user = b
  BY DbSound DEF OpsInv, SessionsOK, Refers, Session, Sound, Pointed
<1>2. status \in OperationStatus
  BY AccountAssumption DEF OperationStatus, TerminalStatus
<1>3. \A i \in 1..Len(d.ops) : e.ops[i].status = IF i = s.op THEN status ELSE d.ops[i].status
  <2>1. e.ops = [d.ops EXCEPT ![s.op].status = status]
    BY DEF Ended
  <2>2. QED
    BY <1>1, <1>2, <2>1, OpExcept
<1>4. /\ \A b \in Accounts : b # u => e.acct[b] = d.acct[b]
      /\ e.acct[u].exists = d.acct[u].exists /\ e.acct[u].desired = d.acct[u].desired
      /\ d.acct[u].deleted => e.acct[u].deleted
      /\ s.seen # s.op => e.acct[u].active = d.acct[u].active
  BY <1>1 DEF Ended, AccountRow
<1>5. /\ \A b \in Accounts : \A i \in 1..Len(q[b]) :
            q[b][i].op \in 1..Len(d.ops) /\ q[b][i].op # s.op
  BY DEF CallsOK, Refers, Orderly, Separate
<1> HIDE DEF e, S
<1>6. Separate(q, S) /\ Unbegun(q, e)
  BY <1>3, <1>5 DEF Orderly, Separate, Unbegun, S
<1>7. Occupied(S, e)
  <2>1. ASSUME NEW x \in S, e.acct[x.user].exists, x.seen = x.op
        PROVE  Unended(e, e.acct[x.user].active)
    <3> DEFINE o == d.acct[x.user].active
    <3>1. e.acct[x.user] = d.acct[x.user] /\ Unended(d, o)
      BY <1>1, <1>4, <2>1 DEF Orderly, Occupied, S
    <3>2. o # 0 /\ o \in 1..Len(d.ops) /\ o # s.op
      BY <1>1, <2>1, <3>1 DEF Unended
    <3> HIDE DEF o
    <3>3. QED
      BY <1>3, <3>1, <3>2 DEF Unended, o
  <2>2. QED
    BY <2>1 DEF Occupied
<1>8. Awaited(q, S, e)
  <2>1. ASSUME NEW b \in Accounts, NEW i \in 1..Len(q[b]),
               q[b][i].by = "repair", e.acct[b].exists, e.ops[q[b][i].op].status = "queued"
        PROVE  /\ e.acct[b].active = q[b][i].op
               /\ \A x \in S : x.user = b => x.seen # x.op
               /\ q[b][i].action = "delete" => ToBeAbsent(e, b)
    <3>1. d.acct[b].exists /\ d.ops[q[b][i].op].status = "queued"
      BY <1>3, <1>4, <1>5, <2>1
    <3>2. /\ d.acct[b].active = q[b][i].op
          /\ \A x \in sessions : x.user = b => x.seen # x.op
          /\ q[b][i].action = "delete" => ToBeAbsent(d, b)
      BY <2>1, <3>1 DEF Orderly, Awaited
    <3>3. e.acct[b].active = d.acct[b].active
      BY <1>4, <3>2
    <3>4. ToBeAbsent(d, b) => ToBeAbsent(e, b)
      BY <1>4 DEF ToBeAbsent
    <3>5. QED
      BY <3>2, <3>3, <3>4 DEF S
  <2>2. QED
    BY <2>1 DEF Awaited
<1>9. Warranted(S, e)
  BY <1>1, <1>4 DEF Orderly, Warranted, ToBeAbsent, S
<1>10. QED
  BY <1>6, <1>7, <1>8, <1>9 DEF Orderly, e, S
-----------------------------------------------------------------------------
(***************************************************************************)
(* Every step of the operations leaves it in order.                        *)
(***************************************************************************)
\* A request begins an operation and has its call made.
LEMMA AsksOrderly ==
  ASSUME NEW d, Sound(d), NEW q, CallsOK(q, d), NEW S, SessionsOK(S, d), Orderly(q, S, d),
         NEW a \in Accounts, d.acct[a].exists, NEW how \in {"start", "supersede"},
         NEW e, Sound(e), Kept(d, e), Begun(d, e, a, how),
         how = "supersede" => ToBeAbsent(e, a),
         NEW c \in Call, c.user = a, c.op = Len(e.ops),
         c.by = "repair" => how = "start" /\ (c.action = "delete" => ToBeAbsent(e, a)),
         NEW new \in SUBSET {c}
  PROVE  Orderly(Joined(q, new), S, e)
<1>1. /\ Orderly(q, S, e)
      /\ how = "start" => \A s \in S : s.user = a => s.seen # s.op
      /\ \A b \in Accounts : \A i \in 1..Len(q[b]) : q[b][i].op # Len(e.ops)
      /\ \A s \in S : s.op # Len(e.ops)
  BY BeginsOrderly
<1>2. CallsOK(q, e)
  BY GrowsKeeps DEF Kept
<1>3. e.ops[c.op].status = "queued" /\ e.acct[a].active = c.op
  BY DEF Begun
<1>4. QED
  BY <1>1, <1>2, <1>3, JoinsOrderly

\* Other columns of the account's row are written in the same commit.
LEMMA PutBegins ==
  ASSUME NEW d, NEW e, NEW e2, NEW a \in Accounts, NEW row, NEW how,
         Begun(d, e, a, how), Put(e, e2, a, row), row.active = e.acct[a].active
  PROVE  Begun(d, e2, a, how)
BY DEF Begun, Put

LEMMA TaskOnly ==
  ASSUME NEW d, Sound(d), NEW a \in Accounts, NEW op \in 1..Len(d.ops),
         NEW action \in Desired \cup {"stored"}
  PROVE  LET c == SyncCall("task", a, op, action)
         IN /\ c \in Call /\ c.user = a /\ c.op = op /\ c.by # "repair"
            /\ Task(a, op, action) \in SUBSET {c}
<1>1. op \in Nat /\ "repair" # "task"
  BY DbSound, AccountAssumption, ReconciliationAssumption
<1>2. QED
  BY <1>1 DEF SyncCall, Call, Task

\* An administrator's request of an update, a restore, a deletion.
LEMMA HandlerOrderly ==
  ASSUME OpsInv, Orderly(calls, sessions, db), NEW a \in Accounts, db.acct[a].exists,
         NEW cmd \in Command \ {"purge"}, Decided(cmd, a, db) \in {"start", "supersede"},
         NEW row, Put(Requested(cmd, a, db), db', a, row),
         row.active = Requested(cmd, a, db).acct[a].active,
         Decided(cmd, a, db) = "supersede" => ToBeAbsent(db', a),
         NEW action \in Desired \cup {"stored"},
         calls' = Joined(calls, Task(a, Len(db'.ops), action)), UNCHANGED sessions
  PROVE  Orderly(calls, sessions, db)'
<1> DEFINE e == Requested(cmd, a, db)
           how == Decided(cmd, a, db)
<1>1. Begun(db, e, a, how) /\ Sound(e) /\ Kept(db, e)
  BY RequestBegins, RequestedRows DEF OpsInv, Requests
<1>2. Begun(db, db', a, how) /\ Sound(db') /\ Kept(db, db')
  <2>1. Sound(db') /\ Kept(e, db')
    BY DEF Put
  <2> HIDE DEF e, how
  <2>2. Kept(db, db')
    BY <1>1, <2>1, KeptTrans DEF OpsInv
  <2>3. Begun(db, db', a, how)
    BY <1>1, PutBegins DEF e, how
  <2>4. QED
    BY <2>1, <2>2, <2>3
<1>3. Len(db'.ops) \in 1..Len(db'.ops)
  BY <1>2, DbSound DEF OpsInv, Begun
<1> DEFINE c == SyncCall("task", a, Len(db'.ops), action)
<1>4. /\ c \in Call /\ c.user = a /\ c.op = Len(db'.ops) /\ c.by # "repair"
      /\ Task(a, Len(db'.ops), action) \in SUBSET {c}
  BY <1>2, <1>3, TaskOnly
<1> HIDE DEF c, e
<1>5. Orderly(Joined(calls, Task(a, Len(db'.ops), action)), sessions, db')
  BY <1>2, <1>4, AsksOrderly DEF OpsInv
<1>6. QED
  BY <1>5

\* The row is as the request leaves it.
LEMMA PutSame ==
  ASSUME NEW e, Sound(e), NEW a \in Accounts
  PROVE  Put(e, e, a, e.acct[a])
BY KeptTrans DEF Put

LEMMA NotRejected ==
  ASSUME NEW cmd \in Command \ {"delete", "retry"}, NEW a \in Accounts, NEW d, ~Rejects(cmd, a, d)
  PROVE  Decided(cmd, a, d) = "start"
BY DecidedCases DEF Rejects

LEMMA UpdatesOrderly ==
  ASSUME OpsInv, Orderly(calls, sessions, db), NEW a \in Accounts, AdminUpdates(a)
  PROVE  Orderly(calls, sessions, db)'
<1>1. /\ db.acct[a].exists /\ Decided("update", a, db) = "start" /\ "update" \in Command
      /\ db' = Requested("update", a, db) /\ UNCHANGED sessions
      /\ calls' = Joined(calls, Task(a, Len(db'.ops), "stored"))
  BY NotRejected DEF AdminUpdates, Command
<1>2. Sound(db')
  BY <1>1, RequestedRows DEF OpsInv, Requests
<1>3. Put(db', db', a, db'.acct[a])
  BY <1>2, PutSame
<1>4. QED
  BY <1>1, <1>3, HandlerOrderly

LEMMA EnablesOrderly ==
  ASSUME OpsInv, Orderly(calls, sessions, db), NEW a \in Accounts, AdminEnables(a)
  PROVE  Orderly(calls, sessions, db)'
<1> DEFINE e == Requested("update", a, db)
           no == FALSE
           row == [e.acct[a] EXCEPT !.disabled = no]
<1>1. /\ db.acct[a].exists /\ Decided("update", a, db) = "start" /\ "update" \in Command
      /\ db' = [e EXCEPT !.acct[a].disabled = no] /\ UNCHANGED sessions
      /\ calls' = Joined(calls, Task(a, Len(db'.ops), "stored"))
  BY NotRejected DEF AdminEnables, Command
<1>2. Sound(e)
  BY <1>1, RequestedRows DEF OpsInv, Requests
<1>3. Put(e, db', a, row) /\ row.active = e.acct[a].active
  <2> HIDE DEF e
  <2>1. no \in BOOLEAN
    OBVIOUS
  <2> HIDE DEF no
  <2>2. Put(e, db', a, row)
    BY <1>1, <1>2, <2>1, PutDisabled
  <2>3. e.acct[a] \in AccountRow
    BY <1>2, DbSound
  <2>4. QED
    BY <2>2, <2>3 DEF AccountRow
<1> HIDE DEF row, no
<1>4. QED
  BY <1>1, <1>3, HandlerOrderly

LEMMA RestoresOrderly ==
  ASSUME OpsInv, Orderly(calls, sessions, db), NEW a \in Accounts, AdminRestores(a)
  PROVE  Orderly(calls, sessions, db)'
<1> DEFINE e == Requested("restore", a, db)
<1>1. /\ db.acct[a].exists /\ Decided("restore", a, db) = "start" /\ "restore" \in Command
      /\ db' = Restored(e, a) /\ calls' = Joined(calls, Task(a, Len(db'.ops), "stored"))
      /\ UNCHANGED sessions
  BY NotRejected DEF AdminRestores, Command, Restored
<1>2. Sound(e)
  BY <1>1, RequestedRows DEF OpsInv, Requests
<1>3. PICK row \in AccountRow : Put(e, db', a, row) /\ row.active = e.acct[a].active
  <2> HIDE DEF e
  <2>1. QED
    BY <1>1, <1>2, PutRestored
<1>4. QED
  BY <1>1, <1>3, HandlerOrderly

\* Nothing asks again for a deletion that is under way.
LEMMA DeletesOrderly ==
  ASSUME OpsInv, Orderly(calls, sessions, db), "again" \notin meanwhile.kinds,
         NEW a \in Accounts, AdminDeletes(a)
  PROVE  Orderly(calls, sessions, db)'
<1> DEFINE e == Requested("delete", a, db)
           row == [e.acct[a] EXCEPT !.desired = "delete", !.deleted = FALSE]
<1>1. /\ db.acct[a].exists /\ Decided("delete", a, db) # "reuse" /\ "delete" \in Command
      /\ db' = [e EXCEPT !.acct[a].desired = "delete", !.acct[a].deleted = FALSE]
      /\ calls' = Joined(calls, Task(a, db'.acct[a].active, "delete"))
      /\ UNCHANGED sessions
  BY DEF AdminDeletes, Command
<1>2. Decided("delete", a, db) \in {"start", "supersede"}
  BY <1>1 DEF Decided, DecideTransition
<1>3. Sound(e) /\ e.acct[a].active = Len(e.ops)
  BY <1>1, <1>2, RequestedRows DEF OpsInv, Requests
<1>4. /\ Put(e, db', a, row) /\ row.active = e.acct[a].active
      /\ row.desired = "delete"
  <2> HIDE DEF e
  <2>1. Put(e, db', a, row)
    BY <1>1, <1>3, PutDesired DEF Desired
  <2>2. e.acct[a] \in AccountRow
    BY <1>3, DbSound
  <2>3. QED
    BY <2>1, <2>2 DEF AccountRow
<1> HIDE DEF row
<1>5. db'.acct[a].active = Len(db'.ops) /\ ToBeAbsent(db', a)
  BY <1>3, <1>4 DEF Put, ToBeAbsent
<1>6. "delete" \in Desired
  BY DEF Desired
<1> HIDE DEF e
<1>7. calls' = Joined(calls, Task(a, Len(db'.ops), "delete"))
  BY <1>1, <1>5
<1>8. QED
  BY <1>1, <1>2, <1>4, <1>5, <1>6, <1>7, HandlerOrderly DEF e

\* A purged account is no account that anything deletes.
LEMMA PurgesOrderly ==
  ASSUME OpsInv, Orderly(calls, sessions, db), NEW a \in Accounts, AdminPurges(a)
  PROVE  Orderly(calls, sessions, db)'
<1>1. db' = [db EXCEPT !.acct[a] = NoAccount] /\ UNCHANGED <<calls, sessions>>
  BY DEF AdminPurges
<1>2. Put(db, db', a, NoAccount)
  BY <1>1, PutNone DEF OpsInv
<1>3. /\ db'.ops = db.ops /\ ~db'.acct[a].exists
      /\ \A b \in Accounts : b # a => db'.acct[b] = db.acct[b]
  BY <1>2 DEF Put, NoAccount, FreshAccount
<1>4. \A s \in sessions : s.user \in Accounts
  BY DEF OpsInv, SessionsOK, Session
<1>5. Separate(calls, sessions) /\ Unbegun(calls, db')
  BY <1>3 DEF Orderly, Unbegun
<1>6. Occupied(sessions, db')
  BY <1>3, <1>4 DEF Orderly, Occupied, Unended
<1>7. Awaited(calls, sessions, db')
  BY <1>3 DEF Orderly, Awaited, ToBeAbsent
<1>8. Warranted(sessions, db')
  BY <1>3, <1>4 DEF Orderly, Warranted, ToBeAbsent
<1>9. QED
  BY <1>1, <1>5, <1>6, <1>7, <1>8 DEF Orderly

LEMMA MeanwhileOrderly ==
  ASSUME OpsInv, Orderly(calls, sessions, db), {"again", "retry"} \cap meanwhile.kinds = {},
         Meanwhile
  PROVE  Orderly(calls, sessions, db)'
BY UpdatesOrderly, DeletesOrderly, RestoresOrderly, EnablesOrderly, PurgesOrderly
   DEF Meanwhile, RetryDue

\* Calls that are dropped or raise, and sessions that raise.
LEMMA LeavesOrderly ==
  ASSUME OpsInv, Orderly(calls, sessions, db), NEW served \in SUBSET Waiting,
         NEW S \in SUBSET sessions
  PROVE  Orderly(Left(calls, served), S, db)
<1>1. \A c \in served : \E a \in Accounts : \E i \in 1..Len(calls[a]) : c = calls[a][i]
  BY DEF Waiting
<1>2. Shorter(Left(calls, served), calls)
  BY <1>1, LeavesShorter DEF OpsInv
<1>3. QED
  BY <1>2, FewerOrderly

LEMMA NothingLeaves ==
  ASSUME OpsInv
  PROVE  calls = Left(calls, {})
BY DEF OpsInv, CallsOK, Left

LEMMA TasksOrderly ==
  ASSUME OpsInv, Orderly(calls, sessions, db), NEW a \in Accounts, TaskStep(a)
  PROVE  Orderly(calls, sessions, db)'
<1>1. CASE \E c \in Awaits("task") :
             (CallDropped(c) \/ CallRaises(c)) /\ calls' = Left(calls, {c})
  <2>1. PICK c \in Awaits("task") :
          (CallDropped(c) \/ CallRaises(c)) /\ calls' = Left(calls, {c})
    BY <1>1
  <2>2. {c} \in SUBSET Waiting /\ UNCHANGED <<db, sessions>>
    BY <2>1 DEF Awaits, CallDropped, CallRaises
  <2>3. QED
    BY <2>1, <2>2, LeavesOrderly
<1>2. CASE \E s \in sessions : (SessionStops(s) \/ SessionRaises(s)) /\ UNCHANGED calls
  <2>1. sessions' \in SUBSET sessions /\ UNCHANGED <<db, calls>>
    BY <1>2 DEF SessionStops, StaysRunning, SessionRaises
  <2>2. QED
    BY <2>1, LeavesOrderly, NothingLeaves
<1>3. CASE \E s \in sessions, status \in Outcomes : SessionEnds(s, status) /\ UNCHANGED calls
  BY <1>3, EndsOrderly DEF SessionEnds, OpsInv
<1>4. QED
  BY <1>1, <1>2, <1>3 DEF TaskStep, Holds

\* The call that begins leaves its queue and takes the account's lock.
LEMMA StartsOrderly ==
  ASSUME OpsInv, Orderly(calls, sessions, db), NEW c \in Waiting, CallStarts(c)
  PROVE  Orderly(calls, sessions, db)'
<1> DEFINE u == c.user
           d == db
           e == db'
           S == sessions
           q == Left(calls, {c})
           new == [by |-> c.by, user |-> u, op |-> c.op,
                   desired |-> IF c.action = "stored" THEN d.acct[u].desired ELSE c.action,
                   seen |-> Started(c).acct[u].active]
<1>1. /\ c \in Call /\ Refers(c, db) /\ c.op \in 1..Len(d.ops) /\ u \in Accounts
      /\ d.acct \in [Accounts -> AccountRow] /\ d.ops \in Seq(OperationRow)
  BY CallTyped, DbSound DEF OpsInv, Refers, Call
<1>2. /\ d.acct[u].exists /\ d.ops[c.op].status \in Resumable /\ calls[u] # <<>>
      /\ c = Head(calls[u]) /\ calls[u] \in Seq(Call)
      /\ db' = Started(c) /\ calls' = q /\ sessions' = S \cup {new}
      /\ \A s \in S : s.user # u
  BY <1>1 DEF CallStarts, Served, OpsInv, CallsOK
<1>3. 1 \in 1..Len(calls[u]) /\ c = calls[u][1] /\ Len(calls[u]) \in Nat
  BY <1>2, EmptySeq, LenProperties
<1>4. d.ops[c.op].status = "queued"
  BY <1>1, <1>2, <1>3 DEF Orderly, Unbegun, Resumable
<1>5. /\ \A i \in 1..Len(d.ops) :
           e.ops[i].status = IF i = c.op THEN "running" ELSE d.ops[i].status
      /\ \A b \in Accounts : e.acct[b] = d.acct[b]
      /\ new.seen = d.acct[u].active
  <2> DEFINE row == [d.acct[u] EXCEPT !.active = IF d.ops[c.op].status = "queued" THEN @ ELSE c.op]
             ops == [d.ops EXCEPT ![c.op].status = "running"]
             acct == [d.acct EXCEPT ![u] = row]
  <2>1. /\ d = [acct |-> d.acct, ops |-> d.ops] /\ d.acct[u] \in AccountRow
        /\ d.ops[c.op].user = u
    BY <1>1, DbSound DEF OpsInv, Refers
  <2>2. Started(c).ops = ops /\ Started(c).acct = d.acct
    <3>1. Started(c) = [db EXCEPT !.ops = ops, !.acct = acct]
      BY <1>1, <2>1 DEF Started
    <3>2. row = d.acct[u]
      BY <1>4, <2>1 DEF AccountRow
    <3> HIDE DEF row, ops
    <3>3. acct = d.acct
      BY <1>1, <3>2
    <3> HIDE DEF acct
    <3>4. QED
      BY <2>1, <3>1, <3>3
  <2>3. "running" \in OperationStatus
    BY DEF OperationStatus
  <2>4. /\ e.ops = [d.ops EXCEPT ![c.op].status = "running"] /\ e.acct = d.acct
        /\ new.seen = d.acct[u].active
    BY <1>2, <2>2
  <2>5. QED
    BY <1>1, <2>3, <2>4, OpExcept
<1>6. /\ Shorter(q, calls) /\ Orderly(q, S, d) /\ {c} \in SUBSET Waiting
  <2>1. {c} \in SUBSET Waiting
    OBVIOUS
  <2>2. \A x \in {c} : \E a \in Accounts : \E i \in 1..Len(calls[a]) : x = calls[a][i]
    BY <2>1 DEF Waiting
  <2>3. QED
    BY <2>1, <2>2, LeavesShorter, LeavesOrderly DEF OpsInv
\* c is in no queue any more.
<1>7. \A a \in Accounts : \A i \in 1..Len(q[a]) :
        /\ q[a][i].op \in 1..Len(d.ops) /\ q[a][i].op # c.op
        /\ \E j \in 1..Len(calls[a]) : q[a][i] = calls[a][j]
  <2>1. ASSUME NEW a \in Accounts, NEW i \in 1..Len(q[a])
        PROVE  q[a][i].op # c.op
    <3>1. CASE a = u
      <4>1. q[u] = Tail(calls[u])
        BY <1>1 DEF Left
      <4> HIDE DEF q
      <4>2. i + 1 \in 1..Len(calls[u]) /\ q[u][i] = calls[u][i + 1]
        BY <1>2, <1>3, <2>1, <3>1, <4>1, HeadTailProperties
      <4>3. calls[u][i + 1].op = calls[u][1].op => i + 1 = 1
        BY <1>1, <1>3, <4>2 DEF Orderly, Separate
      <4>4. QED
        BY <1>3, <3>1, <4>2, <4>3
    <3>2. CASE a # u
      <4>1. q[a] = calls[a]
        BY <3>2 DEF Left
      <4>2. d.ops[calls[a][i].op].user = a /\ d.ops[c.op].user = u
        BY <1>1, <2>1, <4>1 DEF OpsInv, CallsOK, Refers
      <4>3. QED
        BY <3>2, <4>1, <4>2
    <3>3. QED
      BY <3>1, <3>2
  <2> HIDE DEF q
  <2>2. \A a \in Accounts : \A i \in 1..Len(q[a]) :
          \E j \in 1..Len(calls[a]) : q[a][i] = calls[a][j]
    BY <1>6 DEF Shorter
  <2>3. \A a \in Accounts : \A j \in 1..Len(calls[a]) : calls[a][j].op \in 1..Len(d.ops)
    BY DEF OpsInv, CallsOK, Refers
  <2>4. QED
    BY <2>1, <2>2, <2>3
<1> DEFINE T == S \cup {new}
<1>8. /\ new.by = c.by /\ new.user = u /\ new.op = c.op /\ new.seen = d.acct[u].active
      /\ c.by = "repair" /\ c.action = "delete" => ToBeAbsent(d, u)
      /\ c.by = "repair" => new.seen = new.op
      /\ new.desired = "delete" /\ c.action = "stored" => ToBeAbsent(d, u)
      /\ c.action = "stored" \/ new.desired = c.action
  <2>1. c.by = "repair" => d.acct[u].active = c.op /\ (c.action = "delete" => ToBeAbsent(d, u))
    BY <1>1, <1>2, <1>3, <1>4 DEF Orderly, Awaited
  <2>2. QED
    BY <1>5, <2>1 DEF ToBeAbsent
<1> HIDE DEF q, new
<1>9. Separate(q, T)
  BY <1>6, <1>7, <1>8 DEF Orderly, Separate
<1>10. Unbegun(q, e)
  BY <1>5, <1>6, <1>7 DEF Orderly, Unbegun
<1>11. Occupied(T, e)
  <2>1. ASSUME NEW s \in T, e.acct[s.user].exists, s.seen = s.op
        PROVE  Unended(e, e.acct[s.user].active)
    <3>1. CASE s = new
      <4>1. e.acct[u].active = c.op /\ e.ops[c.op].status = "running" /\ c.op # 0
        BY <1>1, <1>5, <1>8, <2>1, <3>1
      <4>2. QED
        BY <1>8, <3>1, <4>1 DEF Unended, TerminalStatus
    <3>2. CASE s \in S
      <4> DEFINE o == d.acct[s.user].active
      <4>1. s.user \in Accounts
        BY <3>2 DEF OpsInv, SessionsOK, Session
      <4>2. e.acct[s.user] = d.acct[s.user] /\ Unended(d, o)
        BY <1>5, <2>1, <3>2, <4>1 DEF Orderly, Occupied
      <4>3. o \in 1..Len(d.ops)
        BY <4>1, <4>2, DbSound DEF Unended, OpsInv, Sound, Pointed
      <4> HIDE DEF o
      <4>4. Unended(e, o)
        BY <1>5, <4>2, <4>3 DEF Unended, TerminalStatus
      <4>5. QED
        BY <4>2, <4>4 DEF o
    <3>3. QED
      BY <2>1, <3>1, <3>2
  <2>2. QED
    BY <2>1 DEF Occupied
<1>12. Awaited(q, T, e)
  <2>1. ASSUME NEW a \in Accounts, NEW i \in 1..Len(q[a]),
               q[a][i].by = "repair", e.acct[a].exists, e.ops[q[a][i].op].status = "queued"
        PROVE  /\ e.acct[a].active = q[a][i].op
               /\ \A s \in T : s.user = a => s.seen # s.op
               /\ q[a][i].action = "delete" => ToBeAbsent(e, a)
    <3>1. d.acct[a].exists /\ d.ops[q[a][i].op].status = "queued"
      BY <1>5, <1>7, <2>1
    <3>2. /\ d.acct[a].active = q[a][i].op
          /\ \A s \in S : s.user = a => s.seen # s.op
          /\ q[a][i].action = "delete" => ToBeAbsent(d, a)
      BY <1>6, <2>1, <3>1 DEF Orderly, Awaited
    <3>3. a = u => new.seen # new.op
      BY <1>7, <1>8, <3>2
    <3>4. QED
      BY <1>5, <1>8, <3>2, <3>3 DEF ToBeAbsent
  <2>2. QED
    BY <2>1 DEF Awaited
<1>13. Warranted(T, e)
  <2>1. ASSUME NEW s \in T, s.by = "repair", s.desired = "delete", e.acct[s.user].exists
        PROVE  ToBeAbsent(e, s.user) /\ s.seen = s.op
    <3>1. CASE s = new
      BY <1>1, <1>5, <1>8, <2>1, <3>1 DEF ToBeAbsent
    <3>2. CASE s \in S
      <4>1. s.user \in Accounts
        BY <3>2 DEF OpsInv, SessionsOK, Session
      <4>2. QED
        BY <1>5, <2>1, <3>2, <4>1 DEF Orderly, Warranted, ToBeAbsent
    <3>3. QED
      BY <2>1, <3>1, <3>2
  <2>2. QED
    BY <2>1 DEF Warranted
<1>14. Orderly(q, T, e)
  BY <1>9, <1>10, <1>11, <1>12, <1>13 DEF Orderly
<1>15. QED
  BY <1>2, <1>14

LEMMA OthersOrderly ==
  ASSUME OpsInv, Orderly(calls, sessions, db), {"again", "retry"} \cap meanwhile.kinds = {},
         OperationsNext
  PROVE  Orderly(calls, sessions, db)'
BY MeanwhileOrderly, TasksOrderly, StartsOrderly DEF OperationsNext, SyncStarts

\* A restart leaves no call and no session.
LEMMA LostOrderly ==
  ASSUME OperationsLost
  PROVE  Orderly(calls, sessions, db)'
<1>1. calls' = [a \in Accounts |-> <<>>] /\ sessions' = {}
  BY DEF OperationsLost
<1>2. \A a \in Accounts : 1..Len(calls'[a]) = {}
  BY <1>1, EmptySeq
<1>3. QED
  BY <1>1, <1>2 DEF Orderly, Separate, Unbegun, Occupied, Awaited, Warranted
-----------------------------------------------------------------------------
(***************************************************************************)
(* So does every step of a repair.                                         *)
(***************************************************************************)
\* The calls but those of the repair.
OfOthers == Left(calls, Awaits("repair"))

\* The repair requests a start, so that its operation is the account's, which has
\* none that a session will clear.
LEMMA ResumesOrderly ==
  ASSUME NEW d, Sound(d), CallsOK(OfOthers, d), SessionsOK(sessions', d),
         Orderly(OfOthers, sessions', d), Resumes(d)
  PROVE  Orderly(calls, sessions, db)'
<1>1. CASE db' = d /\ calls' = Joined(OfOthers, {})
  <2>1. Joined(OfOthers, {}) = OfOthers
    BY DEF CallsOK, Joined
  <2>2. QED
    BY <1>1, <2>1
<1>2. ASSUME NEW p \in Pairs, d.acct[p.user].exists, ~Rejects("reconcile", p.user, d),
             db' = Requested("reconcile", p.user, d),
             calls' = Joined(OfOthers,
                        {SyncCall("repair", p.user, Len(db'.ops), RepairAction(d, p))})
      PROVE  Orderly(calls, sessions, db)'
  <2> DEFINE a == p.user
             c == SyncCall("repair", a, Len(db'.ops), RepairAction(d, p))
             new == {c}
  <2>1. /\ a \in Accounts /\ "reconcile" \in Command
        /\ Decided("reconcile", a, d) = "start"
    BY <1>2, ReconciliationAssumption, NotRejected DEF Command
  <2>2. /\ Sound(db') /\ Kept(d, db') /\ SameAccounts(d, db') /\ Begun(d, db', a, "start")
    BY <1>2, <2>1, RequestedRows, RequestBegins DEF Requests
  <2>3. ToBeAbsent(d, a) <=> ToBeAbsent(db', a)
    BY <2>1, <2>2 DEF SameAccounts, SameRow, ToBeAbsent
  <2>4. Len(db'.ops) \in Nat
    BY <2>2, DbSound
  <2>5. RepairAction(d, p) \in Desired \cup {"stored"}
        /\ (RepairAction(d, p) = "delete" => ToBeAbsent(d, a))
    BY DEF RepairAction, Desired
  <2>6. /\ c \in Call /\ c.user = a /\ c.op = Len(db'.ops)
        /\ c.action = "delete" => ToBeAbsent(db', a)
    BY <2>1, <2>3, <2>4, <2>5, ReconciliationAssumption DEF SyncCall, Call
  <2>7. new \in SUBSET {c}
    OBVIOUS
  <2> HIDE DEF c
  <2>8. Orderly(Joined(OfOthers, new), sessions', db')
    BY <1>2, <2>1, <2>2, <2>6, <2>7, AsksOrderly
  <2> HIDE DEF new
  <2>9. calls' = Joined(OfOthers, new)
    BY <1>2 DEF new, c
  <2>10. QED
    BY <2>8, <2>9
<1>3. QED
  BY <1>1, <1>2 DEF Resumes, OfOthers

LEMMA OthersCalls ==
  ASSUME OpsInv
  PROVE  /\ CallsOK(OfOthers, db) /\ Shorter(OfOthers, calls)
         /\ \A d : Sound(d) /\ Grows(db, d) => CallsOK(OfOthers, d)
<1>1. \A c \in Awaits("repair") : \E a \in Accounts : \E i \in 1..Len(calls[a]) : c = calls[a][i]
  BY CallTyped DEF Awaits
<1>2. CallsOK(OfOthers, db) /\ Shorter(OfOthers, calls)
  BY <1>1, LeftCalls, LeavesShorter DEF OpsInv, OfOthers
<1>3. QED
  BY <1>2, GrowsKeeps DEF OpsInv

LEMMA RepairOrderly ==
  ASSUME RunSafe, Orderly(calls, sessions, db), RepairStep
  PROVE  Orderly(calls, sessions, db)'
<1>1. OpsInv /\ Sound(db) /\ SessionsOK(sessions, db) /\ Grows(db, db)
  BY KeptTrans DEF RunSafe, OpsInv
<1>2. CASE RepairRaises
  <2>1. /\ UNCHANGED db /\ sessions' \in SUBSET sessions
        /\ calls' = OfOthers
    BY <1>2 DEF RepairRaises, Raises, Breaks, CallRaises, SessionRaises, OfOthers
  <2>2. QED
    BY <1>1, <2>1, OthersCalls, FewerOrderly
<1>3. ASSUME NEW secrets, NEW usable, StartRepair(secrets, usable)
      PROVE  Orderly(calls, sessions, db)'
  <2>1. Resumes(db) /\ sessions' = sessions
    BY <1>3, RepairStarts DEF StartRepair
  <2>2. Orderly(OfOthers, sessions', db) /\ CallsOK(OfOthers, db)
    BY <1>1, <2>1, OthersCalls, FewerOrderly
  <2>3. QED
    BY <1>1, <2>1, <2>2, ResumesOrderly
<1>4. ASSUME NEW secrets, NEW usable, RepairReturns(secrets, usable)
      PROVE  Orderly(calls, sessions, db)'
  <2>1. CASE RepairGoesOn(db, secrets, usable) /\ sessions' \in SUBSET sessions
    <3>1. Sound(db) /\ Grows(db, db) /\ SessionsOK(sessions', db)
      BY <1>1, <2>1, KeptTrans DEF OpsInv, SessionsOK
    <3>2. Resumes(db)
      BY <1>1, <1>4, <2>1, <3>1, GroupComesBack DEF RepairReturns
    <3>3. Orderly(OfOthers, sessions', db) /\ CallsOK(OfOthers, db)
      BY <1>1, <2>1, OthersCalls, FewerOrderly
    <3>4. QED
      BY <3>1, <3>2, <3>3, ResumesOrderly
  <2>2. ASSUME NEW s \in Holds("repair"), NEW status \in Outcomes,
               sessions' = sessions \ {s}, RepairGoesOn(Ended(s, status), secrets, usable)
        PROVE  Orderly(calls, sessions, db)'
    <3> DEFINE d == Ended(s, status)
    <3>1. s \in sessions
      BY DEF Holds
    <3>2. Sound(d) /\ Grows(db, d) /\ SessionsOK(sessions', d)
      BY <1>1, <2>2, <3>1, EndedRows
    <3>3. Orderly(calls, sessions', d)
      BY <1>1, <2>2, <3>1, EndsOrderly DEF OpsInv
    <3> HIDE DEF d
    <3>4. Orderly(OfOthers, sessions', d) /\ CallsOK(OfOthers, d)
      BY <1>1, <3>2, <3>3, OthersCalls, FewerOrderly
    <3>5. Resumes(d)
      BY <1>4, <2>2, <3>2, GroupComesBack DEF RepairReturns, d
    <3>6. QED
      BY <3>2, <3>4, <3>5, ResumesOrderly
  <2>3. QED
    BY <1>4, <2>1, <2>2 DEF RepairReturns, StaysRunning
<1>5. QED
  BY <1>2, <1>3, <1>4 DEF RepairStep

\* Of the workflows, those with a repair, beside requests that ask for no deletion
\* that is under way already, and without the retry worker.
RepairsInv ==
  /\ explored \in Reconciles /\ RunSafe
  /\ {"again", "retry"} \cap meanwhile.kinds = {}
  /\ Orderly(calls, sessions, db)

LEMMA RepairsStep ==
  RepairsInv /\ [WorkflowsNext]_allVars => RepairsInv'
<1> SUFFICES ASSUME RepairsInv, [WorkflowsNext]_allVars
             PROVE  RepairsInv'
  OBVIOUS
<1>1. explored' = explored
  BY DEF WorkflowsNext, allVars
<1>2. RunSafe'
  BY <1>1, RunStep DEF RepairsInv, RunsInv
<1>3. UNCHANGED opVars =>
        UNCHANGED meanwhile /\ Orderly(calls, sessions, db)'
  BY DEF RepairsInv, opVars
<1>4. CASE UNCHANGED allVars
  BY <1>1, <1>2, <1>3, <1>4 DEF RepairsInv, allVars
<1>5. CASE Reconcile
  <2>1. OpsInv
    BY DEF RepairsInv, RunSafe
  <2>2. CASE RepairStep
    <3>1. meanwhile' = meanwhile
      <4>1. ASSUME NEW w, Concludes(w)
            PROVE  meanwhile' = meanwhile
        BY <4>1 DEF Concludes
      <4>2. ASSUME NEW d, NEW secrets, NEW usable, RepairGoesOn(d, secrets, usable)
            PROVE  meanwhile' = meanwhile
        BY <4>1, <4>2 DEF RepairGoesOn
      <4>3. ASSUME NEW secrets, NEW usable, StartRepair(secrets, usable)
            PROVE  meanwhile' = meanwhile
        BY <4>1, <4>3 DEF StartRepair
      <4>4. ASSUME NEW secrets, NEW usable, RepairReturns(secrets, usable)
            PROVE  meanwhile' = meanwhile
        BY <4>2, <4>4 DEF RepairReturns
      <4>5. RepairRaises => meanwhile' = meanwhile
        BY DEF RepairRaises
      <4>6. QED
        BY <2>2, <4>3, <4>4, <4>5 DEF RepairStep
    <3>2. Orderly(calls, sessions, db)'
      BY <2>2, RepairOrderly DEF RepairsInv
    <3>3. QED
      BY <1>1, <1>2, <3>1, <3>2 DEF RepairsInv
  <2>3. CASE ReconcileNext /\ ~RepairStep
    <3>1. UNCHANGED opVars
      BY <2>3 DEF ReconcileNext, CreatePreview, DiscoveryStep, RetryDiscovery, Refresh, Inspect,
                  Discovered, ApproveReconciliation
    <3>2. QED
      BY <1>1, <1>2, <1>3, <3>1 DEF RepairsInv
  <2>4. CASE OperationsNext
    BY <1>1, <1>2, <2>1, <2>4, OthersOrderly, OperationsKeep DEF RepairsInv
  <2>5. CASE OperationsLost
    <3>1. \A k \in meanwhile'.kinds : k \in meanwhile.kinds \/ k = "crashed"
      BY <2>1, <2>5, LostKeeps
    <3>2. Orderly(calls, sessions, db)'
      BY <2>5, LostOrderly
    <3>3. QED
      BY <1>1, <1>2, <3>1, <3>2 DEF RepairsInv
  <2>6. QED
    BY <1>5, <2>2, <2>3, <2>4, <2>5 DEF Reconcile
<1>6. QED
  BY <1>4, <1>5 DEF WorkflowsNext, Bulk, Govern, RepairsInv, Reconciles

LEMMA RepairsStart ==
  ASSUME WorkflowsInit({"bulk", "governance", "reconciliation", "removal", "comparison"}),
         explored \in Reconciles
  PROVE  RepairsInv
<1>1. RunSafe
  BY RunStart DEF RunsInv
<1>2. explored \in {"reconciliation", "removal"}
  BY DEF WorkflowsInit, Reconciles
<1>3. meanwhile.kinds \in Mixes[explored]
  BY DEF WorkflowsInit
<1>4. meanwhile.kinds \in {{"update"}, {"crash"}, {"unfinished"}, {"delete", "restore", "purge"}}
  BY <1>2, <1>3 DEF Mixes
<1>5. {"again", "retry"} \cap meanwhile.kinds = {}
  BY <1>4
<1>6. calls = [a \in Accounts |-> <<>>] /\ sessions = {}
  BY DEF WorkflowsInit, OperationsInit
<1>7. \A a \in Accounts : 1..Len(calls[a]) = {}
  BY <1>6, EmptySeq
<1>8. Orderly(calls, sessions, db)
  BY <1>6, <1>7 DEF Orderly, Separate, Unbegun, Occupied, Awaited, Warranted
<1>9. QED
  BY <1>1, <1>5, <1>8 DEF RepairsInv, Reconciles
-----------------------------------------------------------------------------
(***************************************************************************)
(* A row of a job that is refused.                                         *)
(***************************************************************************)
\* Before its preview the job has no rows.
NotYet == job.status = "none" => DOMAIN jobRows = {}

\* What a step does with a row that is still to be prepared, offboards and is refused.
Refuses ==
  \A i \in DOMAIN jobRows :
    /\ jobRows[i].result = "pending" /\ jobRows'[i].result = "failed"
    /\ jobRows[i].action = "offboard"
    => db'.acct[jobRows[i].user].assigned = db.acct[jobRows[i].user].assigned

LEMMA ExecutionRefuses ==
  ASSUME BulkSafe, NEW k \in Runners, ExecuteBulkWorkflow(k)
  PROVE  NotYet' /\ Refuses
<1>1. OpsInv /\ RowsOK(jobRows, db) /\ Distinct(jobRows) /\ Blank(jobRows) /\ BulkTypeOK
  BY DEF BulkSafe, BulkInv, NamesOK
<1>2. jobRows \in Seq(JobRow) /\ DOMAIN jobRows = 1..Len(jobRows)
  BY <1>1, LenProperties DEF BulkTypeOK
<1>3. job'.status = "running"
  BY <1>1 DEF ExecuteBulkWorkflow, BulkTypeOK
<1>4. CASE job.status = "previewed"
  <2>1. PreparedTo(Len(jobRows), Prepared)
    BY <1>1, PreparedRows
  <2>2. db' = Prepared.d /\ jobRows' = Prepared.rows
    BY <1>4 DEF ExecuteBulkWorkflow
  <2>3. QED
    BY <1>2, <1>3, <2>1, <2>2 DEF PreparedTo, Refuses, NotYet
<1>5. CASE job.status # "previewed"
  BY <1>3, <1>5 DEF ExecuteBulkWorkflow, Refuses, NotYet
<1>6. QED
  BY <1>4, <1>5

LEMMA ResultsRefuse ==
  ASSUME BulkSafe, NotYet, NEW k \in Runners, BulkRowReturns(k)
  PROVE  NotYet' /\ Refuses
<1>1. OpsInv /\ Blank(jobRows) /\ BulkTypeOK
  BY DEF BulkSafe, BulkInv, NamesOK
<1>2. jobRows \in Seq(JobRow) /\ DOMAIN jobRows = 1..Len(jobRows)
  BY <1>1, LenProperties DEF BulkTypeOK
<1>3. 0 \notin OpOf(k)
  BY <1>1, AwaitedOps
<1>4. DOMAIN jobRows' = DOMAIN jobRows
      /\ \A i \in DOMAIN jobRows : jobRows[i].op \notin OpOf(k) => jobRows'[i] = jobRows[i]
  BY DEF BulkRowReturns, RowResults
<1>5. Refuses
  BY <1>2, <1>3, <1>4, <1>1 DEF Blank, Refuses
<1>6. job'.status = "none" => job.status = "none"
  <2>1. FinalJob(jobRows').status # "none"
    BY DEF FinalJob
  <2>2. QED
    BY <2>1 DEF BulkRowReturns, Finish
<1>7. QED
  BY <1>4, <1>5, <1>6 DEF NotYet

LEMMA BulkRefuses ==
  ASSUME BulkSafe, NotYet, BulkNext
  PROVE  NotYet' /\ Refuses
<1>1. UNCHANGED jobRows => Refuses
  BY DEF Refuses
<1>2. UNCHANGED jobRows /\ (job'.status = "none" => job.status = "none") => NotYet'
  BY DEF NotYet
<1>3. ASSUME NEW upload \in Uploads, PreviewBulkWorkflow(upload)
      PROVE  NotYet' /\ Refuses
  <2>1. DOMAIN jobRows = {}
    BY <1>3 DEF PreviewBulkWorkflow, NotYet
  <2>2. job'.status = "previewed"
    BY <1>3 DEF PreviewBulkWorkflow, BulkSafe, BulkInv, BulkTypeOK
  <2>3. QED
    BY <2>1, <2>2 DEF Refuses, NotYet
<1>4. ASSUME NEW k \in Runners, RunBulkWorkflow(k)
      PROVE  NotYet' /\ Refuses
  <2>1. FinalJob(jobRows).status # "none"
    BY DEF FinalJob
  <2>2. UNCHANGED jobRows /\ (job'.status = "none" => job.status = "none")
    BY <1>4, <2>1 DEF RunBulkWorkflow, Finish
  <2>3. QED
    BY <1>1, <1>2, <2>2
<1>5. ASSUME NEW k \in Runners, BulkRowRaises(k)
      PROVE  NotYet' /\ Refuses
  BY <1>1, <1>2, <1>5 DEF BulkRowRaises
<1>6. ASSUME DownloadCredentials
      PROVE  NotYet' /\ Refuses
  <2>1. \A i \in DOMAIN jobRows : jobRows'[i].result = jobRows[i].result
    <3>1. \A i \in DOMAIN jobRows : jobRows[i] \in JobRow
      BY LenProperties, ElementOfSeq DEF BulkSafe, BulkInv, BulkTypeOK
    <3>2. QED
      BY <1>6, <3>1 DEF DownloadCredentials, JobRow
  <2>2. DOMAIN jobRows' = DOMAIN jobRows /\ job' = job
    BY <1>6 DEF DownloadCredentials
  <2>3. QED
    BY <2>1, <2>2 DEF Refuses, NotYet
<1>7. ASSUME NEW selection, NEW action, BulkExecute(selection, action)
      PROVE  NotYet' /\ Refuses
  BY <1>1, <1>2, <1>7 DEF BulkExecute
<1>8. ASSUME SelectionStep
      PROVE  NotYet' /\ Refuses
  BY <1>1, <1>2, <1>8 DEF SelectionStep, SelectionReturns, SelectionRaises
<1>9. QED
  BY <1>3, <1>4, <1>5, <1>6, <1>7, <1>8, ExecutionRefuses, ResultsRefuse
     DEF BulkNext, BulkStep

LEMMA WorkflowsRefuse ==
  JobInv /\ NotYet /\ [WorkflowsNext]_allVars => NotYet' /\ Refuses
<1> SUFFICES ASSUME JobInv, NotYet, [WorkflowsNext]_allVars
             PROVE  NotYet' /\ Refuses
  OBVIOUS
<1>1. UNCHANGED bulkVars => NotYet' /\ Refuses
  BY DEF bulkVars, NotYet, Refuses
<1>2. CASE UNCHANGED allVars
  BY <1>1, <1>2 DEF allVars
<1>3. CASE Bulk
  <2>1. CASE BulkNext
    BY <1>3, <2>1, BulkRefuses DEF JobInv, Bulk
  <2>2. CASE OperationsLost /\ BulkLost
    BY <2>2 DEF BulkLost, NotYet, Refuses
  <2>3. QED
    BY <1>1, <1>3, <2>1, <2>2 DEF Bulk
<1>4. QED
  BY <1>1, <1>2, <1>3 DEF WorkflowsNext, Govern, Reconcile

\* For any accounts and job, a row that offboards and is refused while the rows are
\* prepared leaves its account assigned as it was.
THEOREM OffboardingsKeep == WorkflowsSpec => RefusedOffboardingKeeps
<1>1. WorkflowsInit({"bulk", "governance", "reconciliation", "removal", "comparison"})
        => NotYet
  BY DEF WorkflowsInit, BulkInit, NotYet
<1>2. JobInv /\ NotYet /\ [WorkflowsNext]_allVars => NotYet' /\ [Refuses]_<<bulkVars, opVars>>
  BY WorkflowsRefuse
<1>3. RefusedOffboardingKeeps <=> [][Refuses]_<<bulkVars, opVars>>
  BY DEF RefusedOffboardingKeeps, Refuses
<1>4. QED
  BY <1>1, <1>2, <1>3, Employed, PTL DEF WorkflowsSpec
-----------------------------------------------------------------------------
(***************************************************************************)
(* The workflows without a repair.                                         *)
(***************************************************************************)
\* No call, session or coroutine works for a repair.
NoneRepairs(q, S, t) ==
  /\ \A a \in Accounts : NoRepairs(q[a])
  /\ \A s \in S : s.by # "repair"
  /\ \A k \in Coroutines : NoRepairs(t[k])

LEMMA JoinsNone ==
  ASSUME NEW q, NEW d, CallsOK(q, d), \A a \in Accounts : NoRepairs(q[a]),
         NEW new, \A c \in new : c.by # "repair"
  PROVE  \A a \in Accounts : NoRepairs(Joined(q, new)[a])
<1>1. ASSUME NEW a \in Accounts
      PROVE  NoRepairs(Joined(q, new)[a])
  <2>1. CASE \E c \in new : c.user = a
    <3> DEFINE c == CHOOSE c \in new : c.user = a
               l == q[a]
    <3>1. c \in new /\ c.by # "repair"
      BY <2>1
    <3>2. Joined(q, new)[a] = Append(l, c)
      BY <2>1 DEF Joined
    <3>3. l \in Seq(Call) /\ NoRepairs(l)
      BY DEF CallsOK
    <3> HIDE DEF c, l
    <3>4. l \in Seq(Call \cup {c})
      <4>1. Len(l) \in Nat /\ l = [i \in 1..Len(l) |-> l[i]] /\ \A i \in 1..Len(l) : l[i] \in Call
        BY <3>3, LenProperties, ElementOfSeq
      <4>2. QED
        BY <4>1, IsASeq
    <3>5. /\ Len(Append(l, c)) = Len(l) + 1 /\ Len(l) \in Nat
          /\ \A i \in 1..Len(l) : Append(l, c)[i] = l[i]
          /\ Append(l, c)[Len(l) + 1] = c
      BY <3>4, AppendProperties, LenProperties
    <3>6. NoRepairs(Append(l, c))
      BY <3>1, <3>3, <3>5 DEF NoRepairs
    <3>7. QED
      BY <3>2, <3>6
  <2>2. CASE ~ \E c \in new : c.user = a
    BY <2>2 DEF Joined
  <2>3. QED
    BY <2>1, <2>2
<1>2. QED
  BY <1>1

LEMMA LeavesNone ==
  ASSUME NEW q, NEW d, CallsOK(q, d), \A a \in Accounts : NoRepairs(q[a]),
         NEW served, \A c \in served : \E a \in Accounts : \E i \in 1..Len(q[a]) : c = q[a][i]
  PROVE  \A a \in Accounts : NoRepairs(Left(q, served)[a])
BY LeavesShorter DEF Shorter, NoRepairs

LEMMA FirstRestNone ==
  ASSUME NEW list \in Seq(Call), NoRepairs(list)
  PROVE  /\ FirstOf(list) \in SUBSET Call /\ \A c \in FirstOf(list) : c.by # "repair"
         /\ NoRepairs(RestOf(list)) /\ NoRepairs(<<>>)
<1>1. CASE list = <<>>
  BY <1>1 DEF FirstOf, RestOf, NoRepairs
<1>2. CASE list # <<>>
  <2>1. /\ Len(list) \in Nat /\ 1 \in 1..Len(list) /\ Head(list) = list[1] /\ Head(list) \in Call
        /\ Len(Tail(list)) = Len(list) - 1
        /\ \A i \in 1..Len(Tail(list)) : Tail(list)[i] = list[i + 1] /\ i + 1 \in 1..Len(list)
    BY <1>2, HeadTailProperties, LenProperties
  <2>2. QED
    BY <1>2, <2>1 DEF FirstOf, RestOf, NoRepairs
<1>3. QED
  BY <1>1, <1>2

LEMMA BeginsNone ==
  ASSUME OpsInv, NoneRepairs(calls, sessions, todo), NEW by \in Coroutines,
         NEW list \in Seq(Call), NoRepairs(list), Begins(by, list), UNCHANGED sessions
  PROVE  NoneRepairs(calls, sessions, todo)'
<1>1. \A a \in Accounts : NoRepairs(calls'[a])
  BY FirstRestNone, JoinsNone DEF OpsInv, NoneRepairs, Begins
<1>2. todo \in [Coroutines -> Seq(Call)] /\ todo' = [todo EXCEPT ![by] = RestOf(list)]
  BY DEF OpsInv, TodoOK, Begins
<1>3. \A k \in Coroutines : NoRepairs(todo'[k])
  BY <1>2, FirstRestNone DEF NoneRepairs
<1>4. QED
  BY <1>1, <1>3 DEF NoneRepairs

\* A call of a coroutine comes back, and it makes its next one or gives up.
LEMMA BackNone ==
  ASSUME OpsInv, NoneRepairs(calls, sessions, todo), NEW by \in Coroutines,
         Returns(by) \/ Raises(by), GoesOn(by) \/ Breaks(by)
  PROVE  NoneRepairs(calls, sessions, todo)'
<1> DEFINE left == Left(calls, Awaits(by))
           list == todo[by]
<1>1. sessions' \in SUBSET sessions
  BY DEF Returns, Raises, CallDropped, CallRaises, SessionEnds, SessionStops, StaysRunning,
         SessionRaises
<1>2. \A c \in Awaits(by) : \E a \in Accounts : \E i \in 1..Len(calls[a]) : c = calls[a][i]
  BY CallTyped DEF Awaits
<1>3. CallsOK(left, db) /\ \A a \in Accounts : NoRepairs(left[a])
  BY <1>2, LeftCalls, LeavesNone DEF OpsInv, NoneRepairs
<1>4. todo \in [Coroutines -> Seq(Call)] /\ list \in Seq(Call) /\ NoRepairs(list)
  BY DEF OpsInv, TodoOK, NoneRepairs
<1>5. /\ calls' = Joined(left, FirstOf(list)) \/ calls' = left
      /\ todo' = [todo EXCEPT ![by] = RestOf(list)] \/ todo' = [todo EXCEPT ![by] = <<>>]
  BY DEF GoesOn, Breaks
<1> HIDE DEF left, list
<1>6. /\ FirstOf(list) \in SUBSET Call /\ \A c \in FirstOf(list) : c.by # "repair"
      /\ NoRepairs(RestOf(list)) /\ NoRepairs(<<>>)
  BY <1>4, FirstRestNone
<1>7. \A a \in Accounts : NoRepairs(calls'[a])
  BY <1>3, <1>5, <1>6, JoinsNone
<1>8. \A k \in Coroutines : NoRepairs(todo'[k])
  BY <1>4, <1>5, <1>6 DEF NoneRepairs
<1>9. QED
  BY <1>1, <1>7, <1>8 DEF NoneRepairs

\* A request has a background task run, or none.
LEMMA TaskNone ==
  ASSUME OpsInv, NoneRepairs(calls, sessions, todo), NEW a, NEW op, NEW action,
         calls' = Joined(calls, Task(a, op, action)), UNCHANGED <<sessions, todo>>
  PROVE  NoneRepairs(calls, sessions, todo)'
<1>1. \A c \in Task(a, op, action) : c.by # "repair"
  BY DEF Task, SyncCall
<1>2. \A b \in Accounts : NoRepairs(calls'[b])
  BY <1>1, JoinsNone DEF OpsInv, NoneRepairs
<1>3. QED
  BY <1>2 DEF NoneRepairs

\* What administrators, the retry worker and the calls of their tasks do.
LEMMA OthersNone ==
  ASSUME OpsInv, NoneRepairs(calls, sessions, todo), OperationsNext
  PROVE  NoneRepairs(calls, sessions, todo)'
<1>1. ASSUME NEW a \in Accounts, NEW c \in Waiting, CallStarts(c)
      PROVE  NoneRepairs(calls, sessions, todo)'
  <2>1. \E b \in Accounts : \E i \in 1..Len(calls[b]) : c = calls[b][i]
    BY CallTyped
  <2>2. c.by # "repair"
    BY <2>1 DEF NoneRepairs, NoRepairs
  <2>3. \A b \in Accounts : NoRepairs(Left(calls, {c})[b])
    BY <2>1, LeavesNone DEF OpsInv, NoneRepairs
  <2>4. \A s \in sessions' : s.by # "repair"
    BY <1>1, <2>2 DEF CallStarts, NoneRepairs
  <2>5. calls' = Left(calls, {c}) /\ todo' = todo
    BY <1>1 DEF CallStarts
  <2>6. QED
    BY <2>3, <2>4, <2>5 DEF NoneRepairs
<1>2. ASSUME NEW a \in Accounts, TaskStep(a)
      PROVE  NoneRepairs(calls, sessions, todo)'
  <2>1. sessions' \in SUBSET sessions /\ todo' = todo
    BY <1>2 DEF TaskStep, CallDropped, CallRaises, SessionEnds, SessionStops, StaysRunning,
                SessionRaises
  <2>2. CASE \E c \in Awaits("task") : calls' = Left(calls, {c})
    <3>1. PICK c \in Awaits("task") : calls' = Left(calls, {c})
      BY <2>2
    <3>2. \E b \in Accounts : \E i \in 1..Len(calls[b]) : c = calls[b][i]
      BY CallTyped DEF Awaits
    <3>3. \A b \in Accounts : NoRepairs(Left(calls, {c})[b])
      BY <3>2, LeavesNone DEF OpsInv, NoneRepairs
    <3>4. QED
      BY <2>1, <3>1, <3>3 DEF NoneRepairs
  <2>3. CASE UNCHANGED calls
    BY <2>1, <2>3 DEF NoneRepairs
  <2>4. QED
    BY <1>2, <2>2, <2>3 DEF TaskStep
<1>3. CASE Meanwhile
  <2>1. todo' = todo
    BY <1>3 DEF Meanwhile
  <2>2. ASSUME NEW a \in Accounts, AdminUpdates(a) \/ AdminDeletes(a) \/ AdminRestores(a)
                                   \/ AdminEnables(a)
        PROVE  NoneRepairs(calls, sessions, todo)'
    BY <2>1, <2>2, TaskNone DEF AdminUpdates, AdminDeletes, AdminRestores, AdminEnables
  <2>3. ASSUME NEW a \in Accounts, AdminPurges(a)
        PROVE  NoneRepairs(calls, sessions, todo)'
    BY <2>1, <2>3 DEF AdminPurges, NoneRepairs
  <2>4. ASSUME NEW op, RetryDue(op)
        PROVE  NoneRepairs(calls, sessions, todo)'
    BY <2>1, <2>4, TaskNone DEF RetryDue
  <2>5. QED
    BY <1>3, <2>2, <2>3, <2>4 DEF Meanwhile
<1>4. QED
  BY <1>1, <1>2, <1>3 DEF OperationsNext, SyncStarts

LEMMA StartNone ==
  ASSUME calls = [a \in Accounts |-> <<>>], sessions = {},
         todo = [by \in Coroutines |-> <<>>]
  PROVE  NoneRepairs(calls, sessions, todo)
BY DEF NoneRepairs, NoRepairs

LEMMA LostNone ==
  ASSUME OperationsLost
  PROVE  NoneRepairs(calls, sessions, todo)'
BY DEF OperationsLost, NoneRepairs, NoRepairs

\* The job's executions and the selection make their own calls.
LEMMA BulkNone ==
  ASSUME BulkSafe, NoneRepairs(calls, sessions, todo), BulkNext
  PROVE  NoneRepairs(calls, sessions, todo)'
<1>1. OpsInv /\ RowsOK(jobRows, db)
  BY DEF BulkSafe, BulkInv
<1>2. UNCHANGED <<calls, sessions, todo>> => NoneRepairs(calls, sessions, todo)'
  BY DEF NoneRepairs
<1>3. CASE \E upload \in Uploads : PreviewBulkWorkflow(upload)
  BY <1>2, <1>3 DEF PreviewBulkWorkflow, opVars
<1>4. CASE DownloadCredentials
  BY <1>2, <1>4 DEF DownloadCredentials, opVars
<1>5. ASSUME NEW k \in Runners, ExecuteBulkWorkflow(k)
      PROVE  NoneRepairs(calls, sessions, todo)'
  BY <1>2, <1>5 DEF ExecuteBulkWorkflow
<1>6. ASSUME NEW k \in Runners, RunBulkWorkflow(k)
      PROVE  NoneRepairs(calls, sessions, todo)'
  <2> DEFINE list == [n \in DOMAIN QueuedRows |-> RowCall(k, QueuedRows[n])]
  <2>1. list \in Seq(Call)
    BY <1>6, <1>1, CallsOfJob DEF BulkSafe
  <2>2. k \in Coroutines /\ k # "repair"
    BY BulkAssumption, RunnersAssumption
  <2>3. \A n \in DOMAIN QueuedRows : list[n].by = k
    BY DEF RowCall, SyncCall
  <2>4. DOMAIN QueuedRows = 1..Len(list)
    BY <2>1, LenProperties
  <2>5. NoRepairs(list)
    BY <2>2, <2>3, <2>4 DEF NoRepairs
  <2>6. Begins(k, list) /\ UNCHANGED sessions
    BY <1>6 DEF RunBulkWorkflow
  <2> HIDE DEF list
  <2>7. QED
    BY <1>1, <2>1, <2>2, <2>5, <2>6, BeginsNone
<1>7. ASSUME NEW k \in Runners, BulkRowReturns(k) \/ BulkRowRaises(k)
      PROVE  NoneRepairs(calls, sessions, todo)'
  <2>1. k \in Coroutines
    BY BulkAssumption
  <2>2. QED
    BY <1>1, <1>7, <2>1, BackNone DEF BulkRowReturns, BulkRowRaises
<1>8. ASSUME NEW selection \in Selections, NEW action \in SelectionAction,
             BulkExecute(selection, action)
      PROVE  NoneRepairs(calls, sessions, todo)'
  <2> DEFINE w == FoldLeft(LAMBDA v, a : Apply(v, a, action),
                           [d |-> db, calls |-> <<>>, accepted |-> 0, failed |-> 0],
                           selection)
  <2>1. w \in Accepts(db)
    BY <1>1, SelectionTyped, BulkAssumption
  <2>2. Begins("selection", w.calls) /\ UNCHANGED sessions
    BY <1>8 DEF BulkExecute
  <2> HIDE DEF w
  <2>3. w.calls \in Seq(Call) /\ NoRepairs(w.calls)
    BY <2>1 DEF Accepts
  <2>4. QED
    BY <1>1, <2>2, <2>3, BeginsNone, BulkAssumption
<1>9. CASE SelectionStep
  BY <1>1, <1>9, BackNone, BulkAssumption DEF SelectionStep, SelectionReturns, SelectionRaises
<1>10. QED
  BY <1>3, <1>4, <1>5, <1>6, <1>7, <1>8, <1>9 DEF BulkNext, BulkStep, SelectionAction

LEMMA GovernNone ==
  ASSUME GovSafe, NoneRepairs(calls, sessions, todo), GovernanceNext
  PROVE  NoneRepairs(calls, sessions, todo)'
<1>1. OpsInv /\ GovernanceTypeOK /\ PoliciesOK(policies, db, today, meanwhile.kinds)
  BY DEF GovSafe, GovInv
<1>2. UNCHANGED <<calls, sessions, todo>> => NoneRepairs(calls, sessions, todo)'
  BY DEF NoneRepairs
<1>3. "governance" \in Coroutines
  BY GovernanceAssumption
<1>4. CASE DayPasses
  BY <1>2, <1>4 DEF DayPasses, opVars
<1>5. ASSUME NEW s, SavePolicy(s)
      PROVE  NoneRepairs(calls, sessions, todo)'
  BY <1>1, <1>2, <1>5, TaskNone DEF SavePolicy
<1>6. CASE ApplyLifecycleAutomation
  <2>1. Applied \in Scan
    BY <1>1, AppliedInScan
  <2>2. Applied.calls \in Seq(Call) /\ NoRepairs(Applied.calls)
    BY <2>1 DEF Scan
  <2>3. Begins("governance", Applied.calls) /\ UNCHANGED sessions
    BY <1>6 DEF ApplyLifecycleAutomation
  <2>4. QED
    BY <1>1, <1>3, <2>2, <2>3, BeginsNone
<1>7. CASE AppliedOne \/ WorkerDies
  BY <1>1, <1>3, <1>7, BackNone DEF AppliedOne, WorkerDies
<1>8. ASSUME NEW n, NEW i, NEW decision, Decide(n, i, decision)
      PROVE  NoneRepairs(calls, sessions, todo)'
  <2> DEFINE a == reviews[n].items[i].user
             op == Requested(decision, a, db).acct[a].active
             action == IF decision = "delete" THEN "delete" ELSE "stored"
  <2>1. UNCHANGED <<sessions, todo>>
    BY <1>8 DEF Decide
  <2>2. CASE DecisionActs(a, decision)
    <3>1. calls' = Joined(calls, Task(a, op, action))
      BY <1>8, <2>2 DEF Decide
    <3> HIDE DEF a, op, action
    <3>2. QED
      BY <1>1, <2>1, <3>1, TaskNone
  <2>3. CASE ~DecisionActs(a, decision)
    <3>1. UNCHANGED calls
      BY <1>8, <2>3 DEF Decide
    <3>2. QED
      BY <1>2, <2>1, <3>1
  <2>4. QED
    BY <2>2, <2>3
<1>9. ASSUME NEW n, OpenReview(n) \/ RemindReview(n)
      PROVE  NoneRepairs(calls, sessions, todo)'
  BY <1>2, <1>9 DEF OpenReview, RemindReview, opVars
<1>10. CASE PreviewReview(InOrder, today + 1)
  BY <1>2, <1>10 DEF PreviewReview
<1>11. QED
  BY <1>4, <1>5, <1>6, <1>7, <1>8, <1>9, <1>10 DEF GovernanceNext, WorkerStep, ReviewNext

-----------------------------------------------------------------------------
\* The workflows without a repair make no repair's call.
NobodyRepairs ==
  IF explored \in Reconciles THEN RepairsInv ELSE NoneRepairs(calls, sessions, todo)

LEMMA NobodyStep ==
  JobInv /\ GovernedInv /\ NobodyRepairs /\ [WorkflowsNext]_allVars => NobodyRepairs'
<1> SUFFICES ASSUME JobInv, GovernedInv, NobodyRepairs, [WorkflowsNext]_allVars
             PROVE  NobodyRepairs'
  OBVIOUS
<1>1. explored' = explored
  BY DEF WorkflowsNext, allVars
<1>2. CASE explored \in Reconciles
  BY <1>1, <1>2, RepairsStep DEF NobodyRepairs
<1>3. CASE explored \notin Reconciles
  <2>1. NoneRepairs(calls, sessions, todo)
    BY <1>3 DEF NobodyRepairs
  <2>2. CASE UNCHANGED allVars
    BY <1>1, <1>3, <2>1, <2>2 DEF NobodyRepairs, NoneRepairs, allVars, opVars
  <2>3. CASE Bulk
    <3>1. BulkSafe /\ OpsInv
      BY <2>3 DEF Bulk, JobInv, BulkSafe
    <3>2. NoneRepairs(calls, sessions, todo)'
      BY <2>1, <2>3, <3>1, BulkNone, OthersNone, LostNone DEF Bulk
    <3>3. QED
      BY <1>1, <1>3, <3>2 DEF NobodyRepairs
  <2>4. CASE Govern
    <3>1. GovSafe /\ OpsInv
      BY <2>4 DEF Govern, GovernedInv, GovSafe
    <3>2. NoneRepairs(calls, sessions, todo)'
      BY <2>1, <2>4, <3>1, GovernNone, OthersNone, LostNone DEF Govern
    <3>3. QED
      BY <1>1, <1>3, <3>2 DEF NobodyRepairs
  <2>5. QED
    BY <1>3, <2>2, <2>3, <2>4 DEF WorkflowsNext, Reconcile, Reconciles
<1>4. QED
  BY <1>2, <1>3

LEMMA NobodyStart ==
  ASSUME WorkflowsInit({"bulk", "governance", "reconciliation", "removal", "comparison"})
  PROVE  NobodyRepairs
<1>1. calls = [a \in Accounts |-> <<>>] /\ sessions = {} /\ todo = [by \in Coroutines |-> <<>>]
  BY DEF WorkflowsInit, OperationsInit
<1>2. QED
  BY <1>1, RepairsStart, StartNone DEF NobodyRepairs

\* For any accounts, targets and requests, a repair deletes an account only while the
\* account is to be deleted.  (WorkflowsSpec lets no repair meet a deletion that is
\* asked for again while it is under way, which RestoredRemoved explores, or the
\* retry worker.)
THEOREM RepairsRemove == WorkflowsSpec => []RepairRemovesOnlyDeleted
<1>1. RepairsInv => RepairRemovesOnlyDeleted
  BY DEF RepairsInv, Orderly, Warranted, RepairRemovesOnlyDeleted, Holds
<1>2. NoneRepairs(calls, sessions, todo) => RepairRemovesOnlyDeleted
  BY DEF NoneRepairs, RepairRemovesOnlyDeleted, Holds
<1>3. NobodyRepairs => RepairRemovesOnlyDeleted
  BY <1>1, <1>2 DEF NobodyRepairs
<1>4. WorkflowsInit({"bulk", "governance", "reconciliation", "removal", "comparison"})
        => NobodyRepairs
  BY NobodyStart
<1>5. QED
  BY <1>3, <1>4, NobodyStep, Employed, Governed, PTL DEF WorkflowsSpec
=============================================================================
