------------------------- MODULE SigmaAccountProofs -------------------------
(***************************************************************************)
(* Proofs about SigmaAccount, for every set of calls, subjects, users and  *)
(* keys and for every attempt budget.  UpsertInv is inductive; it gives    *)
(* the type invariant and ConflictIsEarned, and the proofs about what a    *)
(* call reports and that the calls implement AccountLink rest on it.       *)
(***************************************************************************)
EXTENDS SigmaAccount, TLAPS

USE ConstantsAssumption

\* The unique index leaves an identity one row at most.
LEMMA OneRow ==
    ASSUME Indexed(account), NEW s \in Subject,
           NEW i \in IdentityRows(s), NEW j \in IdentityRows(s)
    PROVE  i = j
BY DEF Indexed, IdentityRows, Identity

\* A row is a record of the table's type, and NoRow is not one.
LEMMA PresentRow ==
    ASSUME TypeOK, NEW i \in RowId
    PROVE  /\ Present(account, i) <=> account[i] \in AccountRow
           /\ Present(account, i) =>
                 /\ account[i].providerId \in Provider
                 /\ account[i].accountId \in Subject
                 /\ account[i].userId \in User
BY DEF TypeOK, Present, AccountRow

LEMMA InitInv == Init => UpsertInv
<1> SUFFICES ASSUME Init PROVE UpsertInv
  OBVIOUS
<1>1. TypeOK
  <2>1. (CHOOSE r \in Request : TRUE) \in Request
    <3>1. PICK s \in Subject, u \in User : TRUE
      OBVIOUS
    <3>2. [subject |-> s, user |-> u] \in Request
      BY DEF Request
    <3> QED
      BY <3>2
  <2> QED
    BY <2>1 DEF Init, TypeOK, Effect, Awaiting
<1>2. TableInv
  BY DEF Init, TableInv, Present
<1>3. ASSUME NEW c \in Call
      PROVE  /\ ReadInv(c)
             /\ LostInv(c)
             /\ pc[c] = "done" => wrote[c] # "nothing"
             /\ pc[c] = "idle" => wrote[c] = "nothing" /\ attempt[c] = 1
  BY DEF Init, ReadInv, LostInv, Awaiting
<1> QED
  BY <1>1, <1>2, <1>3 DEF UpsertInv

----------------------------------------------------------------------------
(* What the two writes do to the table                                     *)

\* An accepted update changes the owner of one row and nothing else.
LEMMA UpdateEffect ==
    ASSUME UpsertInv, NEW c \in Call, pc[c] = "update", ApplyUpdate(c)
    PROVE  /\ account' \in [RowId -> AccountRow \cup {NoRow}]
           /\ TableInv'
           /\ wrote' \in [Call -> Effect]
           /\ wrote'[c] # "nothing"
           /\ \A d \in Call : d # c => wrote'[d] = wrote[d]
           /\ existing[c].id \in RowId
           /\ account'[existing[c].id].userId = request[c].user
           /\ Identity(account, existing[c].id, request[c].subject)
           /\ \A i \in RowId :
                 /\ Present(account', i) <=> Present(account, i)
                 /\ i # existing[c].id => account'[i] = account[i]
                 /\ \A s \in Subject : Identity(account', i, s) <=> Identity(account, i, s)
<1> DEFINE i == existing[c].id
<1>1. /\ i \in RowId
      /\ i \in issued
      /\ Present(account, i)
      /\ Identity(account, i, request[c].subject)
  BY DEF UpsertInv, ReadInv, ApplyUpdate, TypeOK, Snapshot
<1>2. account[i] \in AccountRow
  BY <1>1, PresentRow DEF UpsertInv
<1>3. request[c].user \in User
  BY DEF UpsertInv, TypeOK, Request
<1>4. /\ account' = [account EXCEPT ![i] = [account[i] EXCEPT !.userId = request[c].user]]
      /\ Indexed(account')
  BY DEF ApplyUpdate, UpdatedTable
<1>5. account'[i] = [account[i] EXCEPT !.userId = request[c].user]
  BY <1>1, <1>4 DEF UpsertInv, TypeOK
<1>6. /\ account'[i] \in AccountRow
      /\ account'[i].userId = request[c].user
      /\ account'[i].providerId = account[i].providerId
      /\ account'[i].accountId = account[i].accountId
  BY <1>2, <1>3, <1>5 DEF AccountRow
<1>7. account' \in [RowId -> AccountRow \cup {NoRow}]
  BY <1>1, <1>4, <1>5, <1>6 DEF UpsertInv, TypeOK
<1>8. \A j \in RowId : j # i => account'[j] = account[j]
  BY <1>4 DEF UpsertInv, TypeOK
<1>9. \A j \in RowId : Present(account', j) <=> Present(account, j)
  BY <1>1, <1>6, <1>8 DEF Present
<1>10. \A j \in RowId : \A s \in Subject :
          Identity(account', j, s) <=> Identity(account, j, s)
  BY <1>6, <1>8, <1>9 DEF Identity
<1>11. TableInv'
  BY <1>4, <1>9 DEF TableInv, UpsertInv, ApplyUpdate
<1>12. /\ wrote' \in [Call -> Effect]
       /\ wrote'[c] # "nothing"
       /\ \A d \in Call : d # c => wrote'[d] = wrote[d]
  BY DEF ApplyUpdate, UpsertInv, TypeOK, Effect
<1> QED
  BY <1>1, <1>6, <1>7, <1>8, <1>9, <1>10, <1>11, <1>12

\* An accepted create adds one row of the identity, under a key never used before,
\* and disturbs every other call of that identity that has read and not written.
LEMMA CreateEffect ==
    ASSUME UpsertInv, NEW c \in Call, ApplyCreate(c)
    PROVE  /\ account' \in [RowId -> AccountRow \cup {NoRow}]
           /\ issued' \subseteq RowId
           /\ issued \subseteq issued'
           /\ TableInv'
           /\ wrote' \in [Call -> Effect]
           /\ wrote'[c] # "nothing"
           /\ \A d \in Call : d # c => wrote'[d] = wrote[d]
           /\ \A i \in issued : i \in RowId => account'[i] = account[i]
           /\ \E k \in RowId \ issued :
                 account' = [account EXCEPT ![k] = [providerId |-> SIGMA_PROVIDER_ID,
                                                    accountId |-> request[c].subject,
                                                    userId |-> request[c].user]]
           /\ Disturb(request[c].subject, Call \ {c})
<1> PICK k \in RowId \ issued :
        /\ Indexed(CreatedTable(c, k))
        /\ account' = CreatedTable(c, k)
        /\ issued' = issued \cup {k}
        /\ wrote' = [wrote EXCEPT ![c] = "created"]
        /\ Disturb(request[c].subject, Call \ {c})
  BY DEF ApplyCreate
<1> DEFINE row == [providerId |-> SIGMA_PROVIDER_ID,
                   accountId |-> request[c].subject,
                   userId |-> request[c].user]
<1>1. row \in AccountRow
  BY DEF AccountRow, UpsertInv, TypeOK, Request, Provider
<1>2. account' = [account EXCEPT ![k] = row]
  BY DEF CreatedTable
<1>3. account' \in [RowId -> AccountRow \cup {NoRow}]
  BY <1>1, <1>2 DEF UpsertInv, TypeOK
<1>4. \A i \in RowId : i # k => account'[i] = account[i]
  BY <1>2 DEF UpsertInv, TypeOK
<1>5. TableInv'
  BY <1>4 DEF TableInv, UpsertInv, Present
<1>6. /\ wrote' \in [Call -> Effect]
      /\ wrote'[c] # "nothing"
      /\ \A d \in Call : d # c => wrote'[d] = wrote[d]
  BY DEF UpsertInv, TypeOK, Effect
<1> QED
  BY <1>2, <1>3, <1>4, <1>5, <1>6 DEF UpsertInv, TypeOK

----------------------------------------------------------------------------
(* What a step leaves of the invariant of a call that does not take it     *)

\* The part of UpsertInv that is about one call.
CallInv(c) ==
    /\ ReadInv(c)
    /\ LostInv(c)
    /\ pc[c] = "done" => wrote[c] # "nothing"
    /\ pc[c] = "idle" => wrote[c] = "nothing" /\ attempt[c] = 1

\* The call d itself does not move.
Still(d) ==
    /\ pc'[d] = pc[d]
    /\ attempt'[d] = attempt[d]
    /\ existing'[d] = existing[d]
    /\ request'[d] = request[d]
    /\ wrote'[d] = wrote[d]

\* No row appears or vanishes, and no row changes its identity.
SameRows ==
    \A i \in RowId :
        /\ Present(account', i) <=> Present(account, i)
        /\ \A s \in Subject : Identity(account', i, s) <=> Identity(account, i, s)

LEMMA SameIdentityRows ==
    ASSUME SameRows, NEW s \in Subject
    PROVE  IdentityRows(s)' = IdentityRows(s)
BY DEF SameRows, IdentityRows

LEMMA StillSameRows ==
    ASSUME UpsertInv, NEW d \in Call, Still(d), SameRows,
           issued' = issued, disturbed'[d] = disturbed[d]
    PROVE  CallInv(d)'
<1>1. request[d].subject \in Subject /\ request'[d] = request[d]
  BY DEF UpsertInv, TypeOK, Request, Still
<1>2. IdentityRows(request[d].subject)' = IdentityRows(request[d].subject)
  BY <1>1, SameIdentityRows DEF Still
<1>3. ReadInv(d)'
  BY <1>1 DEF UpsertInv, ReadInv, Still, SameRows, Snapshot
<1>4. LostInv(d)'
  BY <1>1 DEF UpsertInv, LostInv, Still, SameRows, Snapshot, ReadInv, IdentityRows
<1> QED
  BY <1>3, <1>4 DEF CallInv, UpsertInv, Still

\* A row of d's identity may have appeared or vanished, but then d is disturbed,
\* and the keys in use before keep their row or lose it.
LEMMA StillDisturbed ==
    ASSUME UpsertInv, NEW d \in Call, Still(d),
           NEW s \in Subject, NEW Others \in SUBSET Call, d \in Others,
           Disturb(s, Others),
           issued \subseteq issued',
           \A i \in issued : account'[i] = account[i] \/ account'[i] = NoRow,
           \A i \in RowId : i \notin issued => account[i] = NoRow,
           \A i \in RowId : account'[i] # account[i] =>
                \A t \in Subject : t # s =>
                    ~Identity(account, i, t) /\ ~Identity(account', i, t)
    PROVE  CallInv(d)'
<1>1. request'[d] = request[d] /\ request[d].subject \in Subject
  BY DEF UpsertInv, TypeOK, Request, Still
<1>2. /\ disturbed[d] \subseteq disturbed'[d]
      /\ pc[d] \in {"update", "recheck", "create"} /\ request[d].subject = s
         => attempt[d] \in disturbed'[d]
  BY DEF Disturb
<1>3. ReadInv(d)'
  BY <1>1 DEF UpsertInv, ReadInv, Still, Snapshot, Present, Identity
<1>4. request[d].subject # s =>
         IdentityRows(request[d].subject)' = IdentityRows(request[d].subject)
  BY <1>1 DEF IdentityRows, Identity, Present
<1>5. request[d].subject # s /\ pc[d] \in {"update", "recheck"} =>
         (Present(account', existing[d].id) <=> Present(account, existing[d].id))
  BY <1>1 DEF UpsertInv, ReadInv, Snapshot, Present, Identity
<1>6. LostInv(d)'
  BY <1>1, <1>2, <1>4, <1>5 DEF UpsertInv, LostInv, Still
<1> QED
  BY <1>3, <1>6 DEF CallInv, UpsertInv, Still

----------------------------------------------------------------------------
(* The steps                                                               *)

LEMMA InvParts ==
    ASSUME TypeOK, TableInv, \A c \in Call : CallInv(c)
    PROVE  UpsertInv
BY DEF UpsertInv, CallInv

\* An attempt may be lost only when it was disturbed (or the other index refused
\* it), and the call goes on to its next attempt or to the conflict.
LEMMA LoseAttemptInv ==
    ASSUME UpsertInv, NEW c \in Call, LoseAttempt(c),
           pc[c] \in {"update", "recheck", "create"},
           ~UserIndex => attempt[c] \in disturbed[c],
           UNCHANGED <<account, issued, request, existing, wrote, disturbed>>
    PROVE  UpsertInv'
<1>1. TypeOK'
  BY DEF LoseAttempt, UpsertInv, TypeOK, Awaiting, Failed
<1>2. TableInv'
  BY DEF UpsertInv, TableInv, Indexed, Present
<1>3. SameRows
  BY DEF SameRows, Present, Identity
<1>4. ASSUME NEW d \in Call, d # c PROVE CallInv(d)'
  <2>1. Still(d) /\ disturbed'[d] = disturbed[d] /\ issued' = issued
    BY <1>4 DEF LoseAttempt, Still, UpsertInv, TypeOK
  <2> QED
    BY <1>3, <1>4, <2>1, StillSameRows
<1>5. CallInv(c)'
  <2>1. /\ attempt[c] \in 1 .. MaxAttempts
        /\ pc[c] \in Awaiting
    BY DEF UpsertInv, TypeOK, Awaiting
  <2>2. CASE attempt[c] < MaxAttempts
    <3>1. attempt'[c] = attempt[c] + 1 /\ pc'[c] = "find"
      BY <2>2 DEF LoseAttempt, UpsertInv, TypeOK
    <3> QED
      BY <2>1, <3>1 DEF UpsertInv, CallInv, ReadInv, LostInv, Awaiting
  <2>3. CASE ~(attempt[c] < MaxAttempts)
    <3>1. attempt'[c] = MaxAttempts /\ attempt[c] = MaxAttempts /\ pc'[c] = "conflict"
      BY <2>1, <2>3 DEF LoseAttempt, UpsertInv, TypeOK
    <3> QED
      BY <2>1, <3>1 DEF UpsertInv, CallInv, ReadInv, LostInv, Awaiting
  <2> QED
    BY <2>2, <2>3
<1> QED
  BY <1>1, <1>2, <1>4, <1>5 DEF UpsertInv, CallInv

LEMMA StartInv ==
    ASSUME UpsertInv, NEW c \in Call, NEW r \in Request, Start(c, r)
    PROVE  UpsertInv'
<1>1. TypeOK'
  BY DEF Start, UpsertInv, TypeOK, Awaiting
<1>2. TableInv'
  BY DEF Start, UpsertInv, TableInv, Indexed, Present
<1>3. SameRows
  BY DEF Start, SameRows, Present, Identity
<1>4. ASSUME NEW d \in Call, d # c PROVE CallInv(d)'
  <2>1. Still(d) /\ disturbed'[d] = disturbed[d] /\ issued' = issued
    BY <1>4 DEF Start, Still, UpsertInv, TypeOK
  <2> QED
    BY <1>3, <1>4, <2>1, StillSameRows
<1>5. CallInv(c)'
  BY DEF Start, UpsertInv, TypeOK, CallInv, ReadInv, LostInv, Awaiting
<1> QED
  BY <1>1, <1>2, <1>4, <1>5 DEF UpsertInv, CallInv

LEMMA FindExistingInv ==
    ASSUME UpsertInv, NEW c \in Call, FindExisting(c) PROVE UpsertInv'
<1>1. TypeOK'
  <2>1. CASE pc' = [pc EXCEPT ![c] = "create"] /\ UNCHANGED existing
    BY <2>1 DEF FindExisting, UpsertInv, TypeOK, Awaiting
  <2>2. ASSUME NEW i \in IdentityRows(request[c].subject),
               existing' = [existing EXCEPT ![c] =
                               [id |-> i, userId |-> account[i].userId]],
               pc' = [pc EXCEPT ![c] = "update"]
        PROVE  TypeOK'
    <3>1. i \in RowId /\ account[i].userId \in User
      BY <2>2, PresentRow DEF IdentityRows, Identity, UpsertInv
    <3>2. [id |-> i, userId |-> account[i].userId] \in Snapshot
      BY <3>1 DEF Snapshot
    <3> QED
      BY <2>2, <3>2 DEF FindExisting, UpsertInv, TypeOK, Awaiting
  <2> QED
    BY <2>1, <2>2 DEF FindExisting
<1>2. TableInv'
  BY DEF FindExisting, UpsertInv, TableInv, Indexed, Present
<1>3. SameRows
  BY DEF FindExisting, SameRows, Present, Identity
<1>4. ASSUME NEW d \in Call, d # c PROVE CallInv(d)'
  <2>1. Still(d) /\ disturbed'[d] = disturbed[d] /\ issued' = issued
    BY <1>4 DEF FindExisting, Still, UpsertInv, TypeOK
  <2> QED
    BY <1>3, <1>4, <2>1, StillSameRows
<1>5. CallInv(c)'
  <2>1. pc[c] = "find" /\ pc'[c] \in {"create", "update"} /\ attempt' = attempt
    BY DEF FindExisting, UpsertInv, TypeOK
  <2>2. CASE IdentityRows(request[c].subject) = {} /\ pc'[c] = "create"
    <3>1. IdentityRows(request[c].subject)' = {}
      BY <2>2 DEF FindExisting, IdentityRows, Identity, Present
    <3> QED
      BY <2>1, <2>2, <3>1
      DEF FindExisting, UpsertInv, CallInv, ReadInv, LostInv, Awaiting
  <2>3. ASSUME NEW i \in IdentityRows(request[c].subject),
               existing'[c] = [id |-> i, userId |-> account[i].userId],
               pc'[c] = "update"
        PROVE  CallInv(c)'
    <3>1. /\ i \in RowId /\ account[i].userId \in User
          /\ Present(account, i) /\ i \in issued
          /\ Identity(account, i, request[c].subject)
      BY <2>3, PresentRow DEF IdentityRows, Identity, UpsertInv, TableInv
    <3>2. /\ existing'[c] \in Snapshot
          /\ existing'[c].id = i
      BY <2>3, <3>1 DEF Snapshot
    <3>3. Present(account', i) /\ Identity(account', i, request'[c].subject)
      BY <3>1 DEF FindExisting, Present, Identity
    <3> QED
      BY <2>1, <2>3, <3>1, <3>2, <3>3
      DEF FindExisting, UpsertInv, CallInv, ReadInv, LostInv, Awaiting
  <2> QED
    BY <2>2, <2>3 DEF FindExisting, UpsertInv, TypeOK
<1> QED
  BY <1>1, <1>2, <1>4, <1>5 DEF UpsertInv, CallInv

\* An applied update leaves the call c either finished with success, waiting for the
\* recheck, or cut off by a lost reply.
LEMMA UpdateAppliedInv ==
    ASSUME UpsertInv, NEW c \in Call, pc[c] = "update", ApplyUpdate(c),
           NEW next \in {"done", "recheck", "threw"},
           pc' = [pc EXCEPT ![c] = next],
           result' \in [Call -> Effect],
           UNCHANGED <<request, attempt, existing>>
    PROVE  UpsertInv'
<1>1. /\ account' \in [RowId -> AccountRow \cup {NoRow}]
      /\ TableInv'
      /\ wrote' \in [Call -> Effect]
      /\ wrote'[c] # "nothing"
      /\ \A d \in Call : d # c => wrote'[d] = wrote[d]
      /\ Identity(account, existing[c].id, request[c].subject)
      /\ existing[c].id \in RowId
      /\ SameRows
  BY UpdateEffect DEF SameRows
<1>2. issued' = issued /\ disturbed' = disturbed
  BY DEF ApplyUpdate
<1>3. TypeOK'
  BY <1>1, <1>2 DEF UpsertInv, TypeOK, Awaiting, Failed
<1>4. ASSUME NEW d \in Call, d # c PROVE CallInv(d)'
  <2>1. Still(d)
    BY <1>1, <1>4 DEF Still, UpsertInv, TypeOK
  <2> QED
    BY <1>1, <1>2, <2>1, StillSameRows
<1>5. CallInv(c)'
  <2>1. pc'[c] = next
    BY DEF UpsertInv, TypeOK
  <2>2. request[c].subject \in Subject
    BY DEF UpsertInv, TypeOK, Request
  <2>3. Identity(account', existing[c].id, request[c].subject)
    BY <1>1, <2>2 DEF SameRows
  <2> QED
    BY <1>1, <1>2, <2>1, <2>3
    DEF UpsertInv, CallInv, ReadInv, LostInv, Awaiting, Identity
<1> QED
  BY <1>1, <1>3, <1>4, <1>5 DEF UpsertInv, CallInv

\* An applied create leaves the call c finished with success or cut off.
LEMMA CreateAppliedInv ==
    ASSUME UpsertInv, NEW c \in Call, pc[c] = "create", ApplyCreate(c),
           NEW next \in {"done", "threw"},
           pc' = [pc EXCEPT ![c] = next],
           result' \in [Call -> Effect],
           UNCHANGED <<request, attempt, existing>>
    PROVE  UpsertInv'
<1>1. /\ account' \in [RowId -> AccountRow \cup {NoRow}]
      /\ issued' \subseteq RowId
      /\ issued \subseteq issued'
      /\ TableInv'
      /\ wrote' \in [Call -> Effect]
      /\ wrote'[c] # "nothing"
      /\ \A d \in Call : d # c => wrote'[d] = wrote[d]
      /\ \A i \in issued : i \in RowId => account'[i] = account[i]
      /\ Disturb(request[c].subject, Call \ {c})
  BY CreateEffect
<1>2. PICK k \in RowId \ issued :
          account' = [account EXCEPT ![k] = [providerId |-> SIGMA_PROVIDER_ID,
                                             accountId |-> request[c].subject,
                                             userId |-> request[c].user]]
  BY CreateEffect
<1>3. TypeOK'
  <2>1. disturbed' \in [Call -> SUBSET (1 .. MaxAttempts)]
    BY <1>1 DEF Disturb, UpsertInv, TypeOK
  <2> QED
    BY <1>1, <2>1 DEF UpsertInv, TypeOK, Awaiting, Failed
<1>4. ASSUME NEW d \in Call, d # c PROVE CallInv(d)'
  <2>1. Still(d)
    BY <1>1, <1>4 DEF Still, UpsertInv, TypeOK
  <2>2. request[c].subject \in Subject
    BY DEF UpsertInv, TypeOK, Request
  <2>3. \A i \in RowId : i \notin issued => account[i] = NoRow
    BY DEF UpsertInv, TableInv, Present
  <2>4. \A i \in issued : account'[i] = account[i] \/ account'[i] = NoRow
    BY <1>1 DEF UpsertInv, TypeOK
  <2>5. \A i \in RowId : account'[i] # account[i] =>
            /\ i = k
            /\ account'[i].accountId = request[c].subject
            /\ account[i] = NoRow
    BY <1>2, <2>3 DEF UpsertInv, TypeOK
  <2>6. \A i \in RowId : account'[i] # account[i] =>
            \A t \in Subject : t # request[c].subject =>
                ~Identity(account, i, t) /\ ~Identity(account', i, t)
    BY <2>5 DEF Identity, Present
  <2>7. d \in Call \ {c}
    BY <1>4
  <2> QED
    BY <1>1, <2>1, <2>2, <2>3, <2>4, <2>6, <2>7, StillDisturbed
<1>5. CallInv(c)'
  <2>1. pc'[c] = next
    BY DEF UpsertInv, TypeOK
  <2> QED
    BY <1>1, <2>1 DEF UpsertInv, CallInv, ReadInv, LostInv, Awaiting
<1> QED
  BY <1>1, <1>3, <1>4, <1>5 DEF UpsertInv, CallInv

LEMMA UpdateRowInv == ASSUME UpsertInv, NEW c \in Call, UpdateRow(c) PROVE UpsertInv'
<1>1. pc[c] = "update"
  BY DEF UpdateRow
<1>2. CASE ApplyUpdate(c) /\ Succeed(c, ReadEffect(c))
  <2>1. pc' = [pc EXCEPT ![c] = "done"] /\ result' \in [Call -> Effect]
    BY <1>2 DEF Succeed, ReadEffect, Effect, UpsertInv, TypeOK
  <2> QED
    BY <1>1, <1>2, <2>1, UpdateAppliedInv DEF UpdateRow, Succeed
<1>3. CASE /\ ApplyUpdate(c)
           /\ pc' = [pc EXCEPT ![c] = "recheck"] /\ UNCHANGED <<attempt, result>>
  <2>1. result' \in [Call -> Effect]
    BY <1>3 DEF UpsertInv, TypeOK
  <2> QED
    BY <1>1, <1>3, <2>1, UpdateAppliedInv DEF UpdateRow
<1>4. CASE /\ ~Present(account, existing[c].id)
           /\ pc' = [pc EXCEPT ![c] = "recheck"]
           /\ UNCHANGED <<account, issued, attempt, result, wrote, disturbed>>
  <2>1. TypeOK'
    BY <1>4 DEF UpdateRow, UpsertInv, TypeOK, Awaiting
  <2>2. TableInv' /\ SameRows
    BY <1>4 DEF UpsertInv, TableInv, Indexed, Present, SameRows, Identity
  <2>3. ASSUME NEW d \in Call, d # c PROVE CallInv(d)'
    <3>1. Still(d) /\ disturbed'[d] = disturbed[d] /\ issued' = issued
      BY <1>4, <2>3 DEF UpdateRow, Still, UpsertInv, TypeOK
    <3> QED
      BY <2>2, <2>3, <3>1, StillSameRows
  <2>4. CallInv(c)'
    <3>1. pc'[c] = "recheck" /\ UNCHANGED <<request, existing>>
      BY <1>4 DEF UpdateRow, UpsertInv, TypeOK
    <3> QED
      BY <1>1, <1>4, <3>1
      DEF UpsertInv, CallInv, ReadInv, LostInv, Awaiting, Present
  <2> QED
    BY <2>1, <2>2, <2>3, <2>4, InvParts DEF UpsertInv, CallInv
<1>5. CASE /\ Present(account, existing[c].id)
           /\ ~Indexed(UpdatedTable(c))
           /\ LoseAttempt(c)
           /\ UNCHANGED <<account, issued, wrote, disturbed>>
  <2>1. ASSUME ~UserIndex PROVE Indexed(UpdatedTable(c))
    <3> DEFINE i == existing[c].id
    <3>1. i \in RowId /\ account[i] \in AccountRow
      BY <1>1, <1>5, PresentRow DEF UpsertInv, ReadInv, Snapshot
    <3>2. /\ \A j \in RowId : j # i => UpdatedTable(c)[j] = account[j]
          /\ UpdatedTable(c)[i].providerId = account[i].providerId
          /\ UpdatedTable(c)[i].accountId = account[i].accountId
      BY <3>1 DEF UpdatedTable, UpsertInv, TypeOK, AccountRow
    <3> QED
      BY <1>5, <2>1, <3>1, <3>2 DEF Indexed, Present, UpsertInv, TableInv
  <2> QED
    BY <1>1, <1>5, <2>1, LoseAttemptInv DEF UpdateRow
<1> QED
  BY <1>2, <1>3, <1>4, <1>5 DEF UpdateRow

LEMMA RecheckInv == ASSUME UpsertInv, NEW c \in Call, Recheck(c) PROVE UpsertInv'
<1>1. /\ pc[c] = "recheck"
      /\ UNCHANGED <<account, issued, request, existing, wrote, disturbed>>
  BY DEF Recheck
<1>2. CASE /\ existing[c].id \in IdentityRows(request[c].subject)
           /\ Succeed(c, ReadEffect(c))
  <2>1. TypeOK'
    BY <1>1, <1>2 DEF Succeed, ReadEffect, UpsertInv, TypeOK, Effect
  <2>2. TableInv' /\ SameRows
    BY <1>1 DEF UpsertInv, TableInv, Indexed, Present, SameRows, Identity
  <2>3. ASSUME NEW d \in Call, d # c PROVE CallInv(d)'
    <3>1. Still(d) /\ disturbed'[d] = disturbed[d] /\ issued' = issued
      BY <1>1, <1>2, <2>3 DEF Succeed, Still, UpsertInv, TypeOK
    <3> QED
      BY <2>2, <2>3, <3>1, StillSameRows
  <2>4. CallInv(c)'
    <3>1. pc'[c] = "done"
      BY <1>2 DEF Succeed, UpsertInv, TypeOK
    <3>2. wrote[c] # "nothing"
      BY <1>1, <1>2 DEF IdentityRows, Identity, UpsertInv, ReadInv
    <3> QED
      BY <1>1, <3>1, <3>2 DEF CallInv, ReadInv, LostInv, Awaiting
  <2> QED
    BY <2>1, <2>2, <2>3, <2>4, InvParts DEF UpsertInv, CallInv
<1>3. CASE /\ existing[c].id \notin IdentityRows(request[c].subject)
           /\ LoseAttempt(c)
  <2>1. ~Present(account, existing[c].id)
    BY <1>1, <1>3 DEF UpsertInv, ReadInv, IdentityRows, Snapshot
  <2>2. ~UserIndex => attempt[c] \in disturbed[c]
    BY <1>1, <2>1 DEF UpsertInv, LostInv
  <2> QED
    BY <1>1, <1>3, <2>2, LoseAttemptInv
<1> QED
  BY <1>2, <1>3 DEF Recheck

LEMMA CreateRowInv == ASSUME UpsertInv, NEW c \in Call, CreateRow(c) PROVE UpsertInv'
<1>1. pc[c] = "create" /\ UNCHANGED <<request, existing>>
  BY DEF CreateRow
<1>2. CASE ApplyCreate(c) /\ Succeed(c, "created")
  <2>1. pc' = [pc EXCEPT ![c] = "done"] /\ result' \in [Call -> Effect]
    BY <1>2 DEF Succeed, Effect, UpsertInv, TypeOK
  <2> QED
    BY <1>1, <1>2, <2>1, CreateAppliedInv DEF Succeed
<1>3. ASSUME NEW i \in RowId \ issued, ~Indexed(CreatedTable(c, i)),
             LoseAttempt(c), UNCHANGED <<account, issued, wrote, disturbed>>
      PROVE  UpsertInv'
  <2>1. ASSUME ~UserIndex, IdentityRows(request[c].subject) = {}
        PROVE  Indexed(CreatedTable(c, i))
    <3>1. ~Present(account, i)
      BY <1>3 DEF UpsertInv, TableInv
    <3>2. /\ \A j \in RowId : j # i => CreatedTable(c, i)[j] = account[j]
          /\ CreatedTable(c, i)[i].providerId = SIGMA_PROVIDER_ID
          /\ CreatedTable(c, i)[i].accountId = request[c].subject
      BY <1>3 DEF CreatedTable, UpsertInv, TypeOK
    <3> QED
      BY <2>1, <3>1, <3>2
      DEF Indexed, Present, UpsertInv, TableInv, IdentityRows, Identity
  <2>2. ~UserIndex => attempt[c] \in disturbed[c]
    BY <1>1, <1>3, <2>1 DEF UpsertInv, LostInv
  <2> QED
    BY <1>1, <1>3, <2>2, LoseAttemptInv
<1> QED
  BY <1>2, <1>3 DEF CreateRow

LEMMA DriverErrorInv ==
    ASSUME UpsertInv, NEW c \in Call, DriverError(c) PROVE UpsertInv'
<1>1. /\ pc[c] \in Awaiting
      /\ pc' = [pc EXCEPT ![c] = "threw"]
      /\ UNCHANGED <<request, attempt, existing, result>>
      /\ result' \in [Call -> Effect]
  BY DEF DriverError, UpsertInv, TypeOK
<1>2. CASE UNCHANGED <<account, issued, wrote, disturbed>>
  <2>1. TypeOK'
    BY <1>1, <1>2 DEF UpsertInv, TypeOK, Failed
  <2>2. TableInv' /\ SameRows
    BY <1>2 DEF UpsertInv, TableInv, Indexed, Present, SameRows, Identity
  <2>3. ASSUME NEW d \in Call, d # c PROVE CallInv(d)'
    <3>1. Still(d) /\ disturbed'[d] = disturbed[d] /\ issued' = issued
      BY <1>1, <1>2, <2>3 DEF Still, UpsertInv, TypeOK
    <3> QED
      BY <2>2, <2>3, <3>1, StillSameRows
  <2>4. CallInv(c)'
    <3>1. pc'[c] = "threw"
      BY <1>1 DEF UpsertInv, TypeOK
    <3> QED
      BY <1>1, <1>2, <3>1 DEF CallInv, ReadInv, LostInv, Awaiting
  <2> QED
    BY <2>1, <2>2, <2>3, <2>4, InvParts DEF UpsertInv, CallInv
<1>3. CASE pc[c] = "update" /\ ApplyUpdate(c)
  BY <1>1, <1>3, UpdateAppliedInv
<1>4. CASE pc[c] = "create" /\ ApplyCreate(c)
  BY <1>1, <1>4, CreateAppliedInv
<1> QED
  BY <1>2, <1>3, <1>4 DEF DriverError

LEMMA UnlinkInv == ASSUME UpsertInv, NEW i \in RowId, Unlink(i) PROVE UpsertInv'
<1>1. /\ Present(account, i)
      /\ account' = [account EXCEPT ![i] = NoRow]
      /\ account[i].providerId = SIGMA_PROVIDER_ID
      /\ account[i].accountId \in Subject
      /\ Disturb(account[i].accountId, Call)
      /\ UNCHANGED <<issued, pc, request, attempt, existing, result, wrote>>
  BY PresentRow DEF Unlink, UpsertInv
<1>2. /\ account'[i] = NoRow
      /\ \A j \in RowId : j # i => account'[j] = account[j]
      /\ account' \in [RowId -> AccountRow \cup {NoRow}]
  BY <1>1 DEF UpsertInv, TypeOK
<1>3. TypeOK'
  <2>1. disturbed' \in [Call -> SUBSET (1 .. MaxAttempts)]
    BY <1>1 DEF Disturb, UpsertInv, TypeOK
  <2> QED
    BY <1>1, <1>2, <2>1 DEF UpsertInv, TypeOK
<1>4. TableInv'
  BY <1>1, <1>2 DEF UpsertInv, TableInv, Indexed, Present
<1>5. ASSUME NEW d \in Call PROVE CallInv(d)'
  <2>1. Still(d)
    BY <1>1 DEF Still
  <2>2. \A j \in RowId : j \notin issued => account[j] = NoRow
    BY DEF UpsertInv, TableInv, Present
  <2>3. \A j \in issued : account'[j] = account[j] \/ account'[j] = NoRow
    BY <1>2 DEF UpsertInv, TypeOK
  <2>4. \A j \in RowId : account'[j] # account[j] =>
            \A t \in Subject : t # account[i].accountId =>
                ~Identity(account, j, t) /\ ~Identity(account', j, t)
    BY <1>2 DEF Identity, Present
  <2> QED
    BY <1>1, <2>1, <2>2, <2>3, <2>4, StillDisturbed
<1> QED
  BY <1>3, <1>4, <1>5 DEF UpsertInv, CallInv

LEMMA NextInv == UpsertInv /\ [Next]_accountVars => UpsertInv'
<1> SUFFICES ASSUME UpsertInv, [Next]_accountVars PROVE UpsertInv'
  OBVIOUS
<1>1. ASSUME NEW c \in Call, NEW r \in Request, Start(c, r) PROVE UpsertInv'
  BY <1>1, StartInv
<1>2. ASSUME NEW c \in Call, Step(c) PROVE UpsertInv'
  BY <1>2, FindExistingInv, UpdateRowInv, RecheckInv, CreateRowInv DEF Step
<1>3. ASSUME NEW c \in Call, DriverError(c) PROVE UpsertInv'
  BY <1>3, DriverErrorInv
<1>4. ASSUME NEW i \in RowId, Unlink(i) PROVE UpsertInv'
  BY <1>4, UnlinkInv
<1>5. CASE UNCHANGED accountVars
  BY <1>5 DEF accountVars, UpsertInv, TypeOK, TableInv, Indexed, Present,
              ReadInv, LostInv, IdentityRows, Identity
<1> QED
  BY <1>1, <1>2, <1>3, <1>4, <1>5 DEF Next

----------------------------------------------------------------------------
(* Safety of the upsert                                                    *)

\* UpsertInv holds in every reachable state: the shape of the table, what a call
\* may rely on about the row it has read, and why attempts were lost
\* (account-record.ts:216-302).
THEOREM UpsertInvariant == Spec => []UpsertInv
<1>1. Init => UpsertInv
  BY InitInv
<1>2. UpsertInv /\ [Next]_accountVars => UpsertInv'
  BY NextInv
<1> QED
  BY <1>1, <1>2, PTL DEF Spec

\* The table and the calls are well formed in every reachable state.
THEOREM UpsertTypeOK == Spec => []TypeOK
<1>1. UpsertInv => TypeOK
  BY DEF UpsertInv
<1> QED
  BY <1>1, UpsertInvariant, PTL

\* A SigmaAccountConflictError (account-record.ts:304) is thrown only when in every
\* attempt of the call another party created or removed a row of its identity.
THEOREM ConflictOnlyIfDisturbed == Spec => []ConflictIsEarned
<1>1. UpsertInv => ConflictIsEarned
  BY DEF UpsertInv, LostInv, ConflictIsEarned
<1> QED
  BY <1>1, UpsertInvariant, PTL

\* No step of a call, or of the owner unlinking the account, changes a row of
\* another provider (account-record.ts:174-175, 226-227).
THEOREM OtherProvidersUntouched == Spec => ForeignRowsKept
<1> DEFINE Kept == \A i \in RowId :
              Present(account, i) /\ account[i].providerId # SIGMA_PROVIDER_ID
              => account'[i] = account[i]
<1>1. UpsertInv /\ [Next]_accountVars => [Kept]_accountVars
  <2> SUFFICES ASSUME UpsertInv, Next PROVE Kept
    OBVIOUS
  <2>1. ASSUME NEW c \in Call, pc[c] = "update", ApplyUpdate(c) PROVE Kept
    BY <2>1, UpdateEffect DEF Identity
  <2>2. ASSUME NEW c \in Call, ApplyCreate(c) PROVE Kept
    BY <2>2, CreateEffect DEF UpsertInv, TableInv
  <2>3. ASSUME NEW i \in RowId, Unlink(i) PROVE Kept
    BY <2>3 DEF Unlink, UpsertInv, TypeOK
  <2>4. CASE account' = account
    BY <2>4
  <2> QED
    BY <2>1, <2>2, <2>3, <2>4
    DEF Next, Start, Step, FindExisting, UpdateRow, Recheck, CreateRow, DriverError
<1> QED
  BY <1>1, UpsertInvariant, PTL DEF Spec, ForeignRowsKept

----------------------------------------------------------------------------
(* A wrong report was overtaken                                            *)

\* What other calls have written stays written, by the same request.
WritesKept ==
    \A d \in Call : wrote[d] # "nothing" =>
        wrote'[d] # "nothing" /\ request'[d] = request[d]

\* A row that is there keeps its owner, vanishes, or is given to the user of a call
\* other than c, on the row's subject, that has now written.
OwnerExplained(c, i) ==
    \/ account'[i] = account[i]
    \/ account'[i] = NoRow
    \/ \E d \in Call \ {c} :
          /\ Identity(account, i, request[d].subject)
          /\ account'[i].userId = request[d].user
          /\ wrote'[d] # "nothing"
          /\ request'[d] = request[d]

LEMMA ReportInit == Init => \A c \in Call : ReportInv(c)
BY DEF Init, ReportInv

LEMMA OvertakenStays ==
    ASSUME UpsertInv, WritesKept, NEW c \in Call, request'[c] = request[c],
           NEW report, Overtaken(c, report)
    PROVE  \E d \in Call \ {c} :
              /\ request'[d].subject = request'[c].subject
              /\ wrote'[d] # "nothing"
              /\ \/ report = "kept" /\ request'[d].user # request'[c].user
                 \/ report = "moved" /\ request'[d].user = request'[c].user
BY DEF WritesKept, Overtaken

\* A call that does not move keeps ReportInv, whatever happened to its row.
LEMMA StillReport ==
    ASSUME UpsertInv, WritesKept, NEW c \in Call, ReportInv(c), Still(c),
           result'[c] = result[c],
           \A i \in RowId : i \in issued => OwnerExplained(c, i)
    PROVE  ReportInv(c)'
<1>1. ASSUME pc[c] = "update", Present(account', existing[c].id),
             account'[existing[c].id].userId # existing[c].userId
      PROVE  \E d \in Call \ {c} :
                /\ request'[d].subject = request[c].subject
                /\ wrote'[d] # "nothing"
                /\ request'[d].user = account'[existing[c].id].userId
  <2> DEFINE i == existing[c].id
  <2>1. i \in RowId /\ i \in issued
    BY <1>1 DEF UpsertInv, ReadInv, Snapshot
  <2>2. OwnerExplained(c, i)
    BY <2>1
  <2>3. CASE account'[i] = account[i]
    <3>1. Present(account, i)
      BY <1>1, <2>3 DEF Present
    <3> QED
      BY <1>1, <2>3, <3>1 DEF ReportInv, WritesKept
  <2>4. CASE account'[i] = NoRow
    BY <1>1, <2>4 DEF Present
  <2>5. ASSUME NEW d \in Call \ {c},
               Identity(account, i, request[d].subject),
               account'[i].userId = request[d].user,
               wrote'[d] # "nothing", request'[d] = request[d]
        PROVE  request'[d].subject = request[c].subject
    <3>1. Identity(account, i, request[c].subject)
      BY <1>1, <2>5 DEF UpsertInv, ReadInv, Identity
    <3> QED
      BY <2>5, <3>1 DEF Identity
  <2> QED
    BY <2>2, <2>3, <2>4, <2>5 DEF OwnerExplained
<1>2. ASSUME pc[c] = "recheck", Present(account', existing[c].id)
      PROVE  Present(account, existing[c].id)
  <2>1. existing[c].id \in RowId /\ existing[c].id \in issued
    BY <1>2 DEF UpsertInv, ReadInv, Snapshot
  <2>2. OwnerExplained(c, existing[c].id)
    BY <2>1
  <2> QED
    BY <1>2, <2>2 DEF OwnerExplained, Present, Identity
<1>3. ReadEffect(c)' = ReadEffect(c)
  BY DEF ReadEffect, Still
<1>4. \A report : Overtaken(c, report) => Overtaken(c, report)'
  BY OvertakenStays DEF Still, Overtaken
<1> QED
  BY <1>1, <1>2, <1>3, <1>4 DEF ReportInv, Still

\* The accepted update of c: what it did differs from what it read only if another
\* call had given the row away.
LEMMA UpdateReport ==
    ASSUME UpsertInv, NEW c \in Call, pc[c] = "update", ReportInv(c), ApplyUpdate(c),
           UNCHANGED <<request, existing>>
    PROVE  ReadEffect(c) # wrote'[c] => Overtaken(c, ReadEffect(c))
<1> DEFINE i == existing[c].id
<1>1. wrote'[c] = IF account[i].userId = request[c].user THEN "kept" ELSE "moved"
  BY DEF ApplyUpdate, UpsertInv, TypeOK
<1>2. Present(account, i)
  BY DEF ApplyUpdate
<1> SUFFICES ASSUME ReadEffect(c) # wrote'[c] PROVE Overtaken(c, ReadEffect(c))
  OBVIOUS
<1>3. account[i].userId # existing[c].userId
  BY <1>1 DEF ReadEffect
<1>4. PICK d \in Call \ {c} :
          /\ request[d].subject = request[c].subject
          /\ wrote[d] # "nothing"
          /\ request[d].user = account[i].userId
  BY <1>2, <1>3 DEF ReportInv
<1>5. CASE existing[c].userId = request[c].user
  BY <1>1, <1>3, <1>4, <1>5 DEF ReadEffect, Overtaken
<1>6. CASE existing[c].userId # request[c].user
  BY <1>1, <1>4, <1>6 DEF ReadEffect, Overtaken
<1> QED
  BY <1>5, <1>6

AllReports == \A c \in Call : ReportInv(c)

\* A step that leaves the table and what was written alone keeps the reports of the
\* calls that do not take it.
LEMMA QuietStepOthers ==
    ASSUME UpsertInv, AllReports, NEW e \in Call, UNCHANGED <<account, wrote>>,
           \A d \in Call : d # e =>
               /\ pc'[d] = pc[d] /\ attempt'[d] = attempt[d]
               /\ existing'[d] = existing[d] /\ request'[d] = request[d]
               /\ result'[d] = result[d],
           wrote[e] # "nothing" => request'[e] = request[e]
    PROVE  \A c \in Call : c # e => ReportInv(c)'
<1>1. WritesKept
  BY DEF WritesKept
<1>2. \A c \in Call, i \in RowId : OwnerExplained(c, i)
  BY DEF OwnerExplained
<1> QED
  BY <1>1, <1>2, StillReport DEF AllReports, Still

\* A write of e, accepted: the other calls meet at worst a row e has given away.
LEMMA WriteStepOthers ==
    ASSUME UpsertInv, AllReports, NEW e \in Call,
           \/ pc[e] = "update" /\ ApplyUpdate(e)
           \/ pc[e] = "create" /\ ApplyCreate(e),
           UNCHANGED <<request, existing>>,
           \A d \in Call : d # e =>
               pc'[d] = pc[d] /\ attempt'[d] = attempt[d] /\ result'[d] = result[d]
    PROVE  \A c \in Call : c # e => ReportInv(c)'
<1>1. /\ wrote'[e] # "nothing"
      /\ \A d \in Call : d # e => wrote'[d] = wrote[d]
  BY UpdateEffect, CreateEffect
<1>2. WritesKept
  BY <1>1 DEF WritesKept
<1>3. ASSUME NEW c \in Call, c # e, NEW i \in RowId, i \in issued
      PROVE  OwnerExplained(c, i)
  <2>1. CASE pc[e] = "update" /\ ApplyUpdate(e)
    <3>1. /\ account'[existing[e].id].userId = request[e].user
          /\ Identity(account, existing[e].id, request[e].subject)
          /\ i # existing[e].id => account'[i] = account[i]
      BY <2>1, UpdateEffect
    <3> QED
      BY <1>1, <1>3, <3>1 DEF OwnerExplained
  <2>2. CASE pc[e] = "create" /\ ApplyCreate(e)
    BY <1>3, <2>2, CreateEffect DEF OwnerExplained
  <2> QED
    BY <2>1, <2>2
<1> QED
  BY <1>1, <1>2, <1>3, StillReport DEF AllReports, Still

\* An excuse does not mention the table: a step that keeps the requests and the
\* writes of the others keeps it.
LEMMA SameExcuse ==
    ASSUME NEW c \in Call, Overtaken(c, ReadEffect(c)),
           UNCHANGED <<request, existing>>,
           \A d \in Call : d # c => wrote'[d] = wrote[d]
    PROVE  Overtaken(c, ReadEffect(c))'
<1>1. ReadEffect(c)' = ReadEffect(c)
  BY DEF ReadEffect
<1>2. PICK d \in Call \ {c} :
          /\ request[d].subject = request[c].subject
          /\ wrote[d] # "nothing"
          /\ \/ ReadEffect(c) = "kept" /\ request[d].user # request[c].user
             \/ ReadEffect(c) = "moved" /\ request[d].user = request[c].user
  BY DEF Overtaken
<1>3. wrote'[d] = wrote[d]
  OBVIOUS
<1> QED
  BY <1>1, <1>2, <1>3 DEF Overtaken

LEMMA ReportUpdateRow ==
    ASSUME UpsertInv, AllReports, NEW e \in Call, UpdateRow(e) PROVE AllReports'
<1>1. pc[e] = "update" /\ UNCHANGED <<request, existing>> /\ ReportInv(e)
  BY DEF UpdateRow, AllReports
<1>2. ASSUME ApplyUpdate(e) PROVE \A d \in Call : d # e => wrote'[d] = wrote[d]
  BY <1>1, <1>2, UpdateEffect
<1>3. ReadEffect(e)' = ReadEffect(e)
  BY <1>1 DEF ReadEffect
<1>4. CASE ApplyUpdate(e) /\ Succeed(e, ReadEffect(e))
  <2>1. pc'[e] = "done" /\ result'[e] = ReadEffect(e)
    BY <1>4 DEF Succeed, UpsertInv, TypeOK
  <2>2. ReadEffect(e) # wrote'[e] => Overtaken(e, ReadEffect(e))'
    BY <1>1, <1>2, <1>4, UpdateReport, SameExcuse
  <2>3. ReportInv(e)'
    BY <1>1, <1>3, <2>1, <2>2 DEF ReportInv, Overtaken
  <2>4. \A d \in Call : d # e =>
            pc'[d] = pc[d] /\ attempt'[d] = attempt[d] /\ result'[d] = result[d]
    BY <1>4 DEF Succeed, UpsertInv, TypeOK
  <2> QED
    BY <1>1, <1>4, <2>3, <2>4, WriteStepOthers DEF AllReports
<1>5. CASE /\ ApplyUpdate(e)
           /\ pc' = [pc EXCEPT ![e] = "recheck"] /\ UNCHANGED <<attempt, result>>
  <2>1. pc'[e] = "recheck"
    BY <1>5 DEF UpsertInv, TypeOK
  <2>2. ReadEffect(e) # wrote'[e] => Overtaken(e, ReadEffect(e))'
    BY <1>1, <1>2, <1>5, UpdateReport, SameExcuse
  <2>3. ReportInv(e)'
    BY <1>1, <1>3, <2>1, <2>2 DEF ReportInv, Overtaken
  <2>4. \A d \in Call : d # e =>
            pc'[d] = pc[d] /\ attempt'[d] = attempt[d] /\ result'[d] = result[d]
    BY <1>5 DEF UpsertInv, TypeOK
  <2> QED
    BY <1>1, <1>5, <2>3, <2>4, WriteStepOthers DEF AllReports
<1>6. CASE /\ ~Present(account, existing[e].id)
           /\ pc' = [pc EXCEPT ![e] = "recheck"]
           /\ UNCHANGED <<account, issued, attempt, result, wrote, disturbed>>
  <2>1. pc'[e] = "recheck" /\ ~Present(account', existing'[e].id)
    BY <1>1, <1>6 DEF UpsertInv, TypeOK, Present
  <2>2. ReportInv(e)'
    BY <2>1 DEF ReportInv
  <2>3. \A d \in Call : d # e => pc'[d] = pc[d]
    BY <1>6 DEF UpsertInv, TypeOK
  <2> QED
    BY <1>1, <1>6, <2>2, <2>3, QuietStepOthers DEF AllReports
<1>7. CASE LoseAttempt(e) /\ UNCHANGED <<account, issued, wrote, disturbed>>
  <2>1. pc'[e] \in {"find", "conflict"} /\ result' = result
    BY <1>7 DEF LoseAttempt, UpsertInv, TypeOK
  <2>2. \A d \in Call : d # e => pc'[d] = pc[d] /\ attempt'[d] = attempt[d]
    BY <1>7 DEF LoseAttempt, UpsertInv, TypeOK
  <2>3. ReportInv(e)'
    BY <2>1 DEF ReportInv
  <2> QED
    BY <1>1, <1>7, <2>1, <2>2, <2>3, QuietStepOthers DEF AllReports
<1> QED
  BY <1>4, <1>5, <1>6, <1>7 DEF UpdateRow

LEMMA ReportRecheck ==
    ASSUME UpsertInv, AllReports, NEW e \in Call, Recheck(e) PROVE AllReports'
<1>1. /\ pc[e] = "recheck" /\ ReportInv(e)
      /\ UNCHANGED <<account, issued, request, existing, wrote, disturbed>>
  BY DEF Recheck, AllReports
<1>2. \A d \in Call : d # e =>
          pc'[d] = pc[d] /\ attempt'[d] = attempt[d] /\ result'[d] = result[d]
  BY DEF Recheck, Succeed, LoseAttempt, UpsertInv, TypeOK
<1>3. ReportInv(e)'
  <2>1. CASE /\ existing[e].id \in IdentityRows(request[e].subject)
             /\ Succeed(e, ReadEffect(e))
    <3>1. pc'[e] = "done" /\ result'[e] = ReadEffect(e)
      BY <2>1 DEF Succeed, UpsertInv, TypeOK
    <3>2. Present(account, existing[e].id)
      BY <2>1 DEF IdentityRows, Identity
    <3>3. ReadEffect(e) # wrote'[e] => Overtaken(e, ReadEffect(e))'
      BY <1>1, <3>2, SameExcuse DEF ReportInv
    <3>4. ReadEffect(e)' = ReadEffect(e)
      BY <1>1 DEF ReadEffect
    <3> QED
      BY <3>1, <3>3, <3>4 DEF ReportInv, Overtaken
  <2>2. CASE LoseAttempt(e)
    <3>1. pc'[e] \in {"find", "conflict"}
      BY <2>2 DEF LoseAttempt, UpsertInv, TypeOK
    <3> QED
      BY <3>1 DEF ReportInv
  <2> QED
    BY <2>1, <2>2 DEF Recheck
<1> QED
  BY <1>1, <1>2, <1>3, QuietStepOthers DEF AllReports

LEMMA ReportCreateRow ==
    ASSUME UpsertInv, AllReports, NEW e \in Call, CreateRow(e) PROVE AllReports'
<1>1. pc[e] = "create" /\ UNCHANGED <<request, existing>>
  BY DEF CreateRow
<1>2. \A d \in Call : d # e =>
          pc'[d] = pc[d] /\ attempt'[d] = attempt[d] /\ result'[d] = result[d]
  BY DEF CreateRow, Succeed, LoseAttempt, UpsertInv, TypeOK
<1>3. CASE ApplyCreate(e) /\ Succeed(e, "created")
  <2>1. pc'[e] = "done" /\ result'[e] = "created" /\ wrote'[e] = "created"
    BY <1>3 DEF Succeed, ApplyCreate, UpsertInv, TypeOK
  <2>2. ReportInv(e)'
    BY <2>1 DEF ReportInv
  <2> QED
    BY <1>1, <1>2, <1>3, <2>2, WriteStepOthers DEF AllReports
<1>4. CASE LoseAttempt(e) /\ UNCHANGED <<account, issued, wrote, disturbed>>
  <2>1. pc'[e] \in {"find", "conflict"}
    BY <1>4 DEF LoseAttempt, UpsertInv, TypeOK
  <2>2. ReportInv(e)'
    BY <2>1 DEF ReportInv
  <2> QED
    BY <1>1, <1>2, <1>4, <2>2, QuietStepOthers DEF AllReports
<1> QED
  BY <1>3, <1>4 DEF CreateRow

LEMMA ReportDriverError ==
    ASSUME UpsertInv, AllReports, NEW e \in Call, DriverError(e) PROVE AllReports'
<1>1. UNCHANGED <<request, attempt, existing, result>> /\ pc'[e] = "threw"
  BY DEF DriverError, UpsertInv, TypeOK
<1>2. \A d \in Call : d # e => pc'[d] = pc[d]
  BY DEF DriverError, UpsertInv, TypeOK
<1>3. ReportInv(e)'
  BY <1>1 DEF ReportInv
<1> QED
  BY <1>1, <1>2, <1>3, QuietStepOthers, WriteStepOthers DEF AllReports, DriverError

LEMMA ReportNext ==
    ASSUME UpsertInv, AllReports, [Next]_accountVars PROVE AllReports'
<1>1. ASSUME NEW e \in Call, NEW r \in Request, Start(e, r) PROVE AllReports'
  <2>1. pc[e] = "idle" /\ pc'[e] = "find" /\ wrote[e] = "nothing"
    BY <1>1 DEF Start, UpsertInv, TypeOK
  <2>2. /\ UNCHANGED <<account, wrote, attempt, existing, result>>
        /\ \A d \in Call : d # e => pc'[d] = pc[d] /\ request'[d] = request[d]
    BY <1>1 DEF Start, UpsertInv, TypeOK
  <2>3. ReportInv(e)'
    BY <2>1 DEF ReportInv
  <2> QED
    BY <2>1, <2>2, <2>3, QuietStepOthers DEF AllReports
<1>2. ASSUME NEW e \in Call, FindExisting(e) PROVE AllReports'
  <2>1. /\ UNCHANGED <<account, wrote, attempt, request, result>>
        /\ pc'[e] \in {"create", "update"}
        /\ \A d \in Call : d # e => pc'[d] = pc[d] /\ existing'[d] = existing[d]
    BY <1>2 DEF FindExisting, UpsertInv, TypeOK
  <2>2. pc'[e] = "update" =>
            \E i \in RowId : existing'[e] = [id |-> i, userId |-> account[i].userId]
    BY <1>2 DEF FindExisting, IdentityRows, UpsertInv, TypeOK
  <2>3. pc'[e] = "update" => account'[existing'[e].id].userId = existing'[e].userId
    <3> SUFFICES ASSUME pc'[e] = "update"
                 PROVE  account'[existing'[e].id].userId = existing'[e].userId
      OBVIOUS
    <3>1. PICK i \in RowId : existing'[e] = [id |-> i, userId |-> account[i].userId]
      BY <2>2
    <3>2. existing'[e].id = i /\ existing'[e].userId = account[i].userId
      BY <3>1
    <3> QED
      BY <2>1, <3>2
  <2>4. ReportInv(e)'
    BY <2>1, <2>3 DEF ReportInv
  <2> QED
    BY <2>1, <2>4, QuietStepOthers DEF AllReports
<1>3. ASSUME NEW e \in Call, UpdateRow(e) \/ Recheck(e) \/ CreateRow(e) \/ DriverError(e)
      PROVE  AllReports'
  BY <1>3, ReportUpdateRow, ReportRecheck, ReportCreateRow, ReportDriverError
<1>4. ASSUME NEW i \in RowId, Unlink(i) PROVE AllReports'
  <2>1. /\ UNCHANGED <<issued, pc, request, attempt, existing, result, wrote>>
        /\ \A j \in RowId : account'[j] = account[j] \/ account'[j] = NoRow
    BY <1>4 DEF Unlink, UpsertInv, TypeOK
  <2>2. WritesKept
    BY <2>1 DEF WritesKept
  <2>3. \A c \in Call, j \in RowId : OwnerExplained(c, j)
    BY <2>1 DEF OwnerExplained
  <2> QED
    BY <2>1, <2>2, <2>3, StillReport DEF AllReports, Still
<1>5. CASE UNCHANGED accountVars
  BY <1>5 DEF accountVars, AllReports, ReportInv, Overtaken, ReadEffect, Present
<1> QED
  BY <1>1, <1>2, <1>3, <1>4, <1>5 DEF Next, Step

\* The report of a successful upsert (`reparented`, account-record.ts:228) is wrong
\* only if another call on the subject has written, and in the way that explains it.
THEOREM ReportWrongOnlyIfOvertaken == Spec => []WrongReportIsOvertaken
<1>1. Init => AllReports
  BY ReportInit DEF AllReports
<1>2. UpsertInv /\ AllReports /\ [Next]_accountVars => AllReports'
  BY ReportNext
<1>3. AllReports => WrongReportIsOvertaken
  BY DEF AllReports, ReportInv, WrongReportIsOvertaken
<1> QED
  BY <1>1, <1>2, <1>3, UpsertInvariant, PTL DEF Spec

----------------------------------------------------------------------------
(***************************************************************************)
(* The calls implement AccountLink: each step is a step of the promise, or *)
(* leaves its state alone.                                                 *)
(***************************************************************************)

\* The owner of a linked subject is the user of the one row of its identity.
LEMMA OwnerOfRow ==
    ASSUME Indexed(account), NEW s \in Subject, NEW i \in IdentityRows(s)
    PROVE  Owner(s) = account[i].userId
<1> DEFINE j == CHOOSE k \in IdentityRows(s) : TRUE
<1>1. j \in IdentityRows(s)
  OBVIOUS
<1>2. j = i
  BY <1>1, OneRow
<1> QED
  BY <1>2 DEF Owner

\* A subject whose rows stay keeps its owner.
LEMMA OwnerStays ==
    ASSUME NEW s \in Subject, IdentityRows(s)' = IdentityRows(s),
           \A j \in IdentityRows(s) : account'[j] = account[j]
    PROVE  Owner(s)' = Owner(s)
<1> DEFINE R == IdentityRows(s)
           j == CHOOSE k \in R : TRUE
<1>1. CASE R = {}
  BY <1>1 DEF Owner
<1>2. CASE R # {}
  <2>1. j \in R
    BY <1>2
  <2>2. Owner(s) = account[j].userId /\ Owner(s)' = account'[j].userId
    BY <1>2 DEF Owner
  <2> QED
    BY <2>1, <2>2
<1> QED
  BY <1>1, <1>2

\* The same as OwnerOfRow, in the next state.
LEMMA OwnerOfRowNext ==
    ASSUME Indexed(account'), NEW s \in Subject, NEW i \in RowId,
           Identity(account', i, s)
    PROVE  Owner(s)' = account'[i].userId
<1> DEFINE rows == {k \in RowId : Identity(account', k, s)}
           j == CHOOSE k \in rows : TRUE
<1>1. i \in rows /\ j \in rows
  OBVIOUS
<1>2. j = i
  BY <1>1 DEF Indexed, Identity
<1>3. rows # {} /\ rows = IdentityRows(s)'
  BY <1>1 DEF IdentityRows
<1>4. Owner(s)' = account'[j].userId
  BY <1>3 DEF Owner
<1> QED
  BY <1>2, <1>4

LEMMA OwnerType ==
    ASSUME UpsertInv, NEW s \in Subject
    PROVE  Owner(s) \in User \cup {NoUser}
<1>1. CASE IdentityRows(s) = {}
  BY <1>1 DEF Owner
<1>2. ASSUME NEW i \in IdentityRows(s) PROVE Owner(s) \in User
  <2>1. Owner(s) = account[i].userId
    BY OwnerOfRow DEF UpsertInv, TableInv
  <2>2. i \in RowId /\ Present(account, i)
    BY DEF IdentityRows, Identity
  <2> QED
    BY <2>1, <2>2, PresentRow DEF UpsertInv
<1> QED
  BY <1>1, <1>2

LEMMA StatusStill ==
    ASSUME NEW d \in Call, Still(d) PROVE Status(d)' = Status(d)
BY DEF Still, Status

\* The value of Status in each situation of a call.
LEMMA StatusValue ==
    ASSUME NEW c \in Call
    PROVE  /\ pc[c] = "idle" => Status(c) = "idle"
           /\ pc[c] = "done" => Status(c) = "ok"
           /\ pc[c] \in Failed => Status(c) = "failed"
           /\ pc[c] \in Awaiting /\ wrote[c] = "nothing" => Status(c) = "trying"
           /\ pc[c] \in Awaiting /\ wrote[c] # "nothing" => Status(c) = "wrote"
BY DEF Status, Failed, Awaiting

\* While the table stays, owners stay.
LEMMA OwnersStay ==
    ASSUME account' = account
    PROVE  [s \in Subject |-> Owner(s)]' = [s \in Subject |-> Owner(s)]
BY DEF Owner, IdentityRows, Identity, Present

----------------------------------------------------------------------------
(* Steps of the promise, in the terms of the refinement mapping            *)

Owners == [s \in Subject |-> Owner(s)]
Statuses == [c \in Call |-> Status(c)]

\* The statuses change for c alone.
LEMMA StatusesChange ==
    ASSUME NEW c \in Call, NEW v, Status(c)' = v,
           \A d \in Call : d # c => Still(d)
    PROVE  Statuses' = [Statuses EXCEPT ![c] = v]
<1>1. \A d \in Call : d # c => Status(d)' = Status(d)
  BY StatusStill
<1> QED
  BY <1>1 DEF Statuses

\* An applied update is the promised write.
LEMMA UpdateOwners ==
    ASSUME UpsertInv, UpsertInv', NEW c \in Call, pc[c] = "update", ApplyUpdate(c),
           NEW t \in Subject, t = request[c].subject
    PROVE  Owners' = [Owners EXCEPT ![t] = request[c].user]
<1> PICK i \in RowId :
        /\ i = existing[c].id
        /\ account'[i].userId = request[c].user
        /\ Identity(account, i, t)
        /\ SameRows
        /\ \A j \in RowId : j # i => account'[j] = account[j]
  BY UpdateEffect DEF SameRows
<1>1. Identity(account', i, t) /\ Indexed(account')
  BY DEF SameRows, UpsertInv, TableInv
<1>2. Owner(t)' = request[c].user
  BY <1>1, OwnerOfRowNext
<1>3. ASSUME NEW s \in Subject, s # t PROVE Owner(s)' = Owner(s)
  <2>1. IdentityRows(s)' = IdentityRows(s)
    BY SameIdentityRows
  <2>2. i \notin IdentityRows(s)
    BY <1>3 DEF IdentityRows, Identity
  <2>3. \A k \in IdentityRows(s) : account'[k] = account[k]
    BY <2>2 DEF IdentityRows
  <2> QED
    BY <2>1, <2>3, OwnerStays
<1> QED
  BY <1>2, <1>3 DEF Owners

\* An applied create is the promised write.
LEMMA CreateOwners ==
    ASSUME UpsertInv, UpsertInv', NEW c \in Call, ApplyCreate(c),
           NEW t \in Subject, t = request[c].subject
    PROVE  Owners' = [Owners EXCEPT ![t] = request[c].user]
<1> PICK k \in RowId \ issued :
        account' = [account EXCEPT ![k] = [providerId |-> SIGMA_PROVIDER_ID,
                                           accountId |-> request[c].subject,
                                           userId |-> request[c].user]]
  BY CreateEffect
<1>1. /\ account'[k] = [providerId |-> SIGMA_PROVIDER_ID, accountId |-> t,
                        userId |-> request[c].user]
      /\ \A j \in RowId : j # k => account'[j] = account[j]
  BY DEF UpsertInv, TypeOK
<1>2. account'[k] # NoRow /\ account[k] = NoRow
  <2>1. account'[k] \in AccountRow
    BY <1>1 DEF AccountRow, UpsertInv, TypeOK, Request, Provider
  <2>2. NoRow \notin AccountRow
    BY ConstantsAssumption
  <2>3. ~Present(account, k)
    BY DEF UpsertInv, TableInv
  <2> QED
    BY <2>1, <2>2, <2>3 DEF Present
<1>3. Identity(account', k, t) /\ Indexed(account')
  BY <1>1, <1>2 DEF Identity, Present, UpsertInv, TableInv
<1>4. Owner(t)' = request[c].user
  <2>1. Owner(t)' = account'[k].userId
    BY <1>3, OwnerOfRowNext
  <2> QED
    BY <1>1, <2>1
<1>5. ASSUME NEW s \in Subject, s # t PROVE Owner(s)' = Owner(s)
  <2>1. IdentityRows(s)' = IdentityRows(s)
    BY <1>1, <1>2, <1>5 DEF IdentityRows, Identity, Present
  <2>2. \A j \in IdentityRows(s) : account'[j] = account[j]
    BY <1>1, <1>2 DEF IdentityRows, Identity, Present
  <2> QED
    BY <2>1, <2>2, OwnerStays
<1> QED
  BY <1>4, <1>5 DEF Owners

\* Removing the row of an identity unlinks its subject.
LEMMA UnlinkOwners ==
    ASSUME UpsertInv, UpsertInv', NEW i \in RowId, Unlink(i),
           NEW t \in Subject, t = account[i].accountId
    PROVE  Owners' = [Owners EXCEPT ![t] = NoUser]
<1>1. /\ account'[i] = NoRow
      /\ \A j \in RowId : j # i => account'[j] = account[j]
      /\ Identity(account, i, t)
  BY DEF Unlink, UpsertInv, TypeOK, Identity
<1>2. \A j \in RowId : Identity(account, j, t) => j = i
  BY <1>1 DEF UpsertInv, TableInv, Indexed, Identity
<1>3. IdentityRows(t)' = {}
  BY <1>1, <1>2 DEF IdentityRows, Identity, Present
<1>4. Owner(t)' = NoUser
  BY <1>3 DEF Owner
<1>5. ASSUME NEW s \in Subject, s # t PROVE Owner(s)' = Owner(s)
  <2>1. IdentityRows(s)' = IdentityRows(s)
    BY <1>1, <1>5 DEF IdentityRows, Identity, Present
  <2>2. \A j \in IdentityRows(s) : account'[j] = account[j]
    BY <1>1, <1>5 DEF IdentityRows, Identity
  <2> QED
    BY <2>1, <2>2, OwnerStays
<1> QED
  BY <1>4, <1>5 DEF Owners

----------------------------------------------------------------------------
(* The steps                                                               *)

LEMMA StatusRange ==
    ASSUME UpsertInv, NEW c \in Call
    PROVE  Status(c) \in {"idle", "trying", "wrote", "ok", "failed"}
<1>1. pc[c] \in Awaiting \cup Failed \cup {"idle", "done"}
  BY DEF UpsertInv, TypeOK
<1> QED
  BY <1>1, StatusValue

LEMMA AbstractVars ==
    /\ [s \in Subject |-> Owner(s)] = Owners
    /\ [c \in Call |-> Status(c)] = Statuses
BY DEF Owners, Statuses

LEMMA InitLink == Init /\ UpsertInv => AbstractLink!LinkInit
<1> SUFFICES ASSUME Init, UpsertInv PROVE AbstractLink!LinkInit
  OBVIOUS
<1>1. Owners \in [Subject -> User \cup {NoUser}]
  BY OwnerType DEF Owners
<1>2. Statuses = [c \in Call |-> "idle"]
  BY StatusValue DEF Statuses, Init
<1>3. request \in [Call -> AbstractLink!Link]
  BY DEF UpsertInv, TypeOK, Request, AbstractLink!Link
<1> QED
  BY <1>1, <1>2, <1>3 DEF AbstractLink!LinkInit, Owners, Statuses

\* What the refinement makes of a step of the call c, by the way the table and the
\* status of c change.
LEMMA StutterStep ==
    ASSUME account' = account, request' = request, NEW c \in Call,
           Status(c)' = Status(c), \A d \in Call : d # c => Still(d)
    PROVE  UNCHANGED AbstractLink!linkVars
<1>1. \A d \in Call : Status(d)' = Status(d)
  BY StatusStill
<1>2. Statuses' = Statuses
  BY <1>1 DEF Statuses
<1>3. Owners' = Owners
  BY OwnersStay DEF Owners
<1> QED
  BY <1>2, <1>3 DEF AbstractLink!linkVars, Owners, Statuses

LEMMA FailStep ==
    ASSUME account' = account, request' = request, NEW c \in Call,
           pc[c] \in Awaiting, Status(c)' = "failed",
           \A d \in Call : d # c => Still(d)
    PROVE  AbstractLink!Fail(c)
<1>1. Statuses' = [Statuses EXCEPT ![c] = "failed"]
  BY StatusesChange
<1>2. Owners' = Owners
  BY OwnersStay DEF Owners
<1>3. Statuses[c] \in {"trying", "wrote"}
  BY StatusValue DEF Statuses
<1> QED
  BY <1>1, <1>2, <1>3 DEF AbstractLink!Fail, Owners, Statuses

LEMMA WriteStep ==
    ASSUME request' = request, NEW c \in Call, pc[c] \in Awaiting,
           NEW answer \in {"wrote", "ok", "failed"}, Status(c)' = answer,
           \A d \in Call : d # c => Still(d),
           Owners' = [Owners EXCEPT ![request[c].subject] = request[c].user]
    PROVE  AbstractLink!Write(c)
<1>1. Statuses' = [Statuses EXCEPT ![c] = answer]
  BY StatusesChange
<1>2. Statuses[c] \in {"trying", "wrote"}
  BY StatusValue DEF Statuses
<1> QED
  BY <1>1, <1>2 DEF AbstractLink!Write, Owners, Statuses

LEMMA StartStep ==
    ASSUME UpsertInv, NEW c \in Call, NEW r \in Request, Start(c, r)
    PROVE  AbstractLink!Invoke(c)
<1>1. /\ pc[c] = "idle" /\ pc'[c] = "find" /\ wrote'[c] = "nothing"
      /\ account' = account /\ request' = [request EXCEPT ![c] = r]
      /\ \A d \in Call : d # c => Still(d)
  BY DEF Start, UpsertInv, TypeOK, Still
<1>2. Status(c)' = "trying"
  BY <1>1 DEF Status, Failed, Awaiting
<1>3. Statuses' = [Statuses EXCEPT ![c] = "trying"]
  BY <1>1, <1>2, StatusesChange
<1>4. Statuses[c] = "idle"
  BY <1>1, StatusValue DEF Statuses
<1>5. Owners' = Owners
  BY <1>1, OwnersStay DEF Owners
<1> QED
  BY <1>1, <1>3, <1>4, <1>5
  DEF AbstractLink!Invoke, AbstractLink!Link, Request, Owners, Statuses

\* A lost attempt leaves the promise alone, or fails the call.
LEMMA LoseStep ==
    ASSUME UpsertInv, NEW c \in Call, LoseAttempt(c), pc[c] \in Awaiting,
           UNCHANGED <<account, request, existing, wrote>>
    PROVE  AbstractLink!Fail(c) \/ UNCHANGED AbstractLink!linkVars
<1>1. \A d \in Call : d # c => Still(d)
  BY DEF LoseAttempt, Still, UpsertInv, TypeOK
<1>2. CASE pc'[c] = "find"
  <2>1. Status(c)' = Status(c)
    BY <1>2 DEF Status, Awaiting, Failed
  <2> QED
    BY <1>1, <2>1, StutterStep
<1>3. CASE pc'[c] = "conflict"
  <2>1. Status(c)' = "failed"
    BY <1>3 DEF Status, Failed, Awaiting
  <2> QED
    BY <1>1, <2>1, FailStep
<1> QED
  BY <1>2, <1>3 DEF LoseAttempt, UpsertInv, TypeOK

LEMMA UpdateRowStep ==
    ASSUME UpsertInv, UpsertInv', NEW c \in Call, UpdateRow(c)
    PROVE  AbstractLink!LinkNext \/ UNCHANGED AbstractLink!linkVars
<1>1. /\ pc[c] = "update" /\ pc[c] \in Awaiting
      /\ request' = request /\ existing' = existing
  BY DEF UpdateRow, Awaiting
<1>2. CASE /\ ApplyUpdate(c)
           /\ \/ Succeed(c, ReadEffect(c))
              \/ pc' = [pc EXCEPT ![c] = "recheck"] /\ UNCHANGED <<attempt, result>>
  <2>1. wrote'[c] # "nothing" /\ \A d \in Call : d # c => wrote'[d] = wrote[d]
    BY <1>1, <1>2, UpdateEffect
  <2>2. \A d \in Call : d # c => Still(d)
    BY <1>1, <1>2, <2>1 DEF Succeed, Still, UpsertInv, TypeOK
  <2>3. pc'[c] \in {"done", "recheck"}
    BY <1>2 DEF Succeed, UpsertInv, TypeOK
  <2>4. Status(c)' \in {"ok", "wrote"}
    BY <2>1, <2>3 DEF Status, Awaiting, Failed
  <2>5. Owners' = [Owners EXCEPT ![request[c].subject] = request[c].user]
    BY <1>1, <1>2, UpdateOwners DEF UpsertInv, TypeOK, Request
  <2>6. AbstractLink!Write(c)
    BY <1>1, <2>2, <2>4, <2>5, WriteStep
  <2> QED
    BY <2>6 DEF AbstractLink!LinkNext
<1>3. CASE /\ pc' = [pc EXCEPT ![c] = "recheck"]
           /\ UNCHANGED <<account, issued, attempt, result, wrote, disturbed>>
  <2>1. \A d \in Call : d # c => Still(d)
    BY <1>1, <1>3 DEF Still, UpsertInv, TypeOK
  <2>2. pc'[c] = "recheck"
    BY <1>3 DEF UpsertInv, TypeOK
  <2>3. Status(c)' = Status(c)
    BY <1>1, <1>3, <2>2 DEF Status, Awaiting, Failed
  <2> QED
    BY <1>1, <1>3, <2>1, <2>3, StutterStep
<1>4. CASE LoseAttempt(c) /\ UNCHANGED <<account, issued, wrote, disturbed>>
  BY <1>1, <1>4, LoseStep DEF AbstractLink!LinkNext
<1> QED
  BY <1>2, <1>3, <1>4 DEF UpdateRow

LEMMA RecheckStep ==
    ASSUME UpsertInv, NEW c \in Call, Recheck(c)
    PROVE  AbstractLink!LinkNext \/ UNCHANGED AbstractLink!linkVars
<1>1. /\ pc[c] = "recheck" /\ pc[c] \in Awaiting
      /\ UNCHANGED <<account, issued, request, existing, wrote, disturbed>>
  BY DEF Recheck, Awaiting
<1>2. CASE /\ existing[c].id \in IdentityRows(request[c].subject)
           /\ Succeed(c, ReadEffect(c))
  <2>1. pc'[c] = "done" /\ \A d \in Call : d # c => Still(d)
    BY <1>1, <1>2 DEF Succeed, Still, UpsertInv, TypeOK
  <2>2. wrote[c] # "nothing"
    BY <1>1, <1>2 DEF IdentityRows, Identity, UpsertInv, ReadInv
  <2>3. Statuses[c] = "wrote"
    BY <1>1, <2>2, StatusValue DEF Statuses
  <2>4. Status(c)' = "ok"
    BY <2>1 DEF Status, Awaiting, Failed
  <2>5. Statuses' = [Statuses EXCEPT ![c] = "ok"]
    BY <2>1, <2>4, StatusesChange
  <2>6. Owners' = Owners
    BY <1>1, OwnersStay DEF Owners
  <2>7. AbstractLink!Return(c)
    BY <1>1, <2>3, <2>5, <2>6 DEF AbstractLink!Return, Owners, Statuses
  <2> QED
    BY <2>7 DEF AbstractLink!LinkNext
<1>3. CASE LoseAttempt(c)
  BY <1>1, <1>3, LoseStep DEF AbstractLink!LinkNext
<1> QED
  BY <1>2, <1>3 DEF Recheck

LEMMA CreateRowStep ==
    ASSUME UpsertInv, UpsertInv', NEW c \in Call, CreateRow(c)
    PROVE  AbstractLink!LinkNext \/ UNCHANGED AbstractLink!linkVars
<1>1. /\ pc[c] = "create" /\ pc[c] \in Awaiting
      /\ request' = request /\ existing' = existing
  BY DEF CreateRow, Awaiting
<1>2. CASE ApplyCreate(c) /\ Succeed(c, "created")
  <2>1. \A d \in Call : d # c => wrote'[d] = wrote[d]
    BY <1>2, CreateEffect
  <2>2. pc'[c] = "done" /\ \A d \in Call : d # c => Still(d)
    BY <1>1, <1>2, <2>1 DEF Succeed, Still, UpsertInv, TypeOK
  <2>3. Status(c)' = "ok"
    BY <2>2 DEF Status, Awaiting, Failed
  <2>4. Owners' = [Owners EXCEPT ![request[c].subject] = request[c].user]
    BY <1>1, <1>2, CreateOwners DEF UpsertInv, TypeOK, Request
  <2>5. AbstractLink!Write(c)
    BY <1>1, <2>2, <2>3, <2>4, WriteStep
  <2> QED
    BY <2>5 DEF AbstractLink!LinkNext
<1>3. CASE LoseAttempt(c) /\ UNCHANGED <<account, issued, wrote, disturbed>>
  BY <1>1, <1>3, LoseStep DEF AbstractLink!LinkNext
<1> QED
  BY <1>2, <1>3 DEF CreateRow

LEMMA DriverErrorStep ==
    ASSUME UpsertInv, UpsertInv', NEW c \in Call, DriverError(c)
    PROVE  AbstractLink!LinkNext
<1>1. /\ pc[c] \in Awaiting
      /\ pc'[c] = "threw"
      /\ UNCHANGED <<request, attempt, existing, result>>
      /\ \A d \in Call : d # c => pc'[d] = pc[d]
  BY DEF DriverError, UpsertInv, TypeOK
<1>2. Status(c)' = "failed"
  BY <1>1 DEF Status, Awaiting, Failed
<1>3. CASE UNCHANGED <<account, issued, wrote, disturbed>>
  <2>1. \A d \in Call : d # c => Still(d)
    BY <1>1, <1>3 DEF Still
  <2>2. AbstractLink!Fail(c)
    BY <1>1, <1>2, <1>3, <2>1, FailStep
  <2> QED
    BY <2>2 DEF AbstractLink!LinkNext
<1>4. ASSUME /\ \A d \in Call : d # c => wrote'[d] = wrote[d]
             /\ Owners' = [Owners EXCEPT ![request[c].subject] = request[c].user]
      PROVE  AbstractLink!LinkNext
  <2>1. \A d \in Call : d # c => Still(d)
    BY <1>1, <1>4 DEF Still
  <2>2. AbstractLink!Write(c)
    BY <1>1, <1>2, <1>4, <2>1, WriteStep
  <2> QED
    BY <2>2 DEF AbstractLink!LinkNext
<1>5. CASE pc[c] = "update" /\ ApplyUpdate(c)
  BY <1>4, <1>5, UpdateEffect, UpdateOwners DEF UpsertInv, TypeOK, Request
<1>6. CASE pc[c] = "create" /\ ApplyCreate(c)
  BY <1>4, <1>6, CreateEffect, CreateOwners DEF UpsertInv, TypeOK, Request
<1> QED
  BY <1>3, <1>5, <1>6 DEF DriverError

LEMMA UnlinkStep ==
    ASSUME UpsertInv, UpsertInv', NEW i \in RowId, Unlink(i)
    PROVE  AbstractLink!LinkNext
<1> PICK t \in Subject : t = account[i].accountId
  BY PresentRow DEF Unlink, UpsertInv
<1>1. Owners' = [Owners EXCEPT ![t] = NoUser]
  BY UnlinkOwners
<1>2. Statuses' = Statuses /\ request' = request
  BY DEF Unlink, Statuses, Status
<1>3. AbstractLink!Unlinked(t)
  BY <1>1, <1>2 DEF AbstractLink!Unlinked, Owners, Statuses
<1> QED
  BY <1>3 DEF AbstractLink!LinkNext

\* Every step of the calls is a step of the promise, or none of it.
LEMMA LinkStep ==
    ASSUME UpsertInv, UpsertInv', [Next]_accountVars
    PROVE  AbstractLink!LinkNext \/ UNCHANGED AbstractLink!linkVars
<1>1. ASSUME NEW c \in Call, NEW r \in Request, Start(c, r) PROVE AbstractLink!LinkNext
  BY <1>1, StartStep DEF AbstractLink!LinkNext
<1>2. ASSUME NEW c \in Call, FindExisting(c)
      PROVE  UNCHANGED AbstractLink!linkVars
  <2>1. /\ account' = account /\ request' = request /\ wrote' = wrote
        /\ pc[c] = "find" /\ pc'[c] \in {"create", "update"}
        /\ \A d \in Call : d # c => Still(d)
    BY <1>2 DEF FindExisting, Still, UpsertInv, TypeOK
  <2>2. Status(c)' = Status(c)
    BY <2>1 DEF Status, Awaiting, Failed
  <2> QED
    BY <2>1, <2>2, StutterStep
<1>3. CASE UNCHANGED accountVars
  BY <1>3 DEF accountVars, AbstractLink!linkVars, Owner, Status, IdentityRows,
              Identity, Present
<1> QED
  BY <1>1, <1>2, <1>3, UpdateRowStep, RecheckStep, CreateRowStep, DriverErrorStep,
     UnlinkStep DEF Next, Step

----------------------------------------------------------------------------

\* upsertSigmaAccount keeps its promise for any number of concurrent calls, any
\* attempt budget and any adapter: a call that reports success has itself made the
\* identity belong to its user between its invocation and its return.
THEOREM UpsertImplementsLink == Spec => ImplementsLink
<1>1. Init /\ UpsertInv => AbstractLink!LinkInit
  BY InitLink
<1>2. UpsertInv /\ UpsertInv' /\ [Next]_accountVars
      => [AbstractLink!LinkNext]_AbstractLink!linkVars
  BY LinkStep
<1> QED
  BY <1>1, <1>2, UpsertInvariant, PTL DEF Spec, ImplementsLink, AbstractLink!LinkSpec
=============================================================================
