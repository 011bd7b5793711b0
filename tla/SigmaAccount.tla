---------------------------- MODULE SigmaAccount ----------------------------
(***************************************************************************)
(* The `account` table and upsertSigmaAccount, src/server/account-record.ts*)
(* Every sign-in callback that reaches its step "create/update account     *)
(* record" runs the function once; calls of concurrent callbacks interleave*)
(* at each await, which is each database operation.  The adapter and the   *)
(* database behind it are external: one operation is atomic, `update` of a *)
(* row that is there may or may not echo it, any operation may throw, and  *)
(* a write that throws may have been applied.                              *)
(***************************************************************************)
EXTENDS Integers

CONSTANTS
    Call,           \* the upsert calls
    Subject,        \* Sigma subject ids (`accountId` of a "sigma" row)
    User,           \* Better Auth user ids
    OtherProvider,  \* provider ids other than SIGMA_PROVIDER_ID
    RowId,          \* primary keys of the account table
    InitRow,        \* the keys in use before the first call
    NoRow,          \* what a key without a row, or an empty read, holds
    NoUser,         \* the owner of a subject without a row
    MaxAttempts,    \* params.maxAttempts ?? DEFAULT_UPSERT_ATTEMPTS
    UserIndex       \* TRUE if the consumer also indexes (providerId, userId)

SIGMA_PROVIDER_ID == "sigma"
Provider == OtherProvider \cup {SIGMA_PROVIDER_ID}

AccountRow == [providerId : Provider, accountId : Subject, userId : User]
Snapshot == [id : RowId, userId : User]     \* the part of a row a call keeps
Request == [subject : Subject, user : User]

ASSUME ConstantsAssumption ==
    /\ MaxAttempts \in Nat \ {0}            \* Math.max(1, ...)
    /\ UserIndex \in BOOLEAN
    /\ SIGMA_PROVIDER_ID \notin OtherProvider
    /\ Subject # {} /\ User # {}
    /\ InitRow \subseteq RowId
    /\ NoUser \notin User
    /\ NoRow \notin AccountRow \cup Snapshot

VARIABLES
    account,    \* account[i] : the row with primary key i, or NoRow
    issued,     \* keys the database has generated so far; never reused
    pc,         \* pc[c] : the await the call c is at, or how it ended
    request,    \* request[c] : the identity and the user c is called with
    attempt,    \* attempt[c] : the loop counter
    existing,   \* existing[c] : the row the attempt read, as it was then
    result,     \* result[c] : what a call that succeeded reports
    wrote,      \* history: what the last write of c really did
    disturbed   \* history: attempts of c whose identity gained or lost a row
                \* by another party after the attempt had read it

accountVars ==
    <<account, issued, pc, request, attempt, existing, result, wrote, disturbed>>

Awaiting == {"find", "update", "recheck", "create"}
Failed == {"conflict", "threw"}
Effect == {"nothing", "created", "kept", "moved"}

TypeOK ==
    /\ account \in [RowId -> AccountRow \cup {NoRow}]
    /\ issued \subseteq RowId
    /\ pc \in [Call -> Awaiting \cup Failed \cup {"idle", "done"}]
    /\ request \in [Call -> Request]
    /\ attempt \in [Call -> 1 .. MaxAttempts]
    /\ existing \in [Call -> Snapshot \cup {NoRow}]
    /\ result \in [Call -> Effect]
    /\ wrote \in [Call -> Effect]
    /\ disturbed \in [Call -> SUBSET (1 .. MaxAttempts)]

----------------------------------------------------------------------------
(* The external database                                                   *)

Present(table, i) == table[i] # NoRow

\* Mutant of Identity: the `providerId` clause is missing.
IdentityAnyProvider(table, i, s) ==
    Present(table, i) /\ table[i].accountId = s

\* The row with key i carries the identity (sigma, s): the `identityWhere` clause.
Identity(table, i, s) ==
    /\ Present(table, i)
    /\ table[i].providerId = SIGMA_PROVIDER_ID
    /\ table[i].accountId = s

IdentityRows(s) == {i \in RowId : Identity(account, i, s)}

\* The unique index the helper relies on, and the one a consumer may have added.
Indexed(table) ==
    \A i, j \in RowId :
        /\ Present(table, i) /\ Present(table, j) /\ i # j
        /\ table[i].providerId = table[j].providerId
        => /\ table[i].accountId # table[j].accountId
           /\ UserIndex => table[i].userId # table[j].userId

Init ==
    /\ account \in [RowId -> AccountRow \cup {NoRow}]
    /\ \A i \in RowId \ InitRow : account[i] = NoRow
    /\ Indexed(account)
    /\ issued = InitRow
    /\ pc = [c \in Call |-> "idle"]
    /\ request = [c \in Call |-> CHOOSE r \in Request : TRUE]
    /\ attempt = [c \in Call |-> 1]
    /\ existing = [c \in Call |-> NoRow]
    /\ result = [c \in Call |-> "nothing"]
    /\ wrote = [c \in Call |-> "nothing"]
    /\ disturbed = [c \in Call |-> {}]

\* A row of the identity s appeared or vanished by a hand other than c's: every
\* call on s that has read and not yet written is disturbed in its attempt.
Disturb(s, Others) ==
    disturbed' = [d \in Call |->
        IF /\ d \in Others
           /\ request[d].subject = s
           /\ pc[d] \in {"update", "recheck", "create"}
        THEN disturbed[d] \cup {attempt[d]}
        ELSE disturbed[d]]

\* adapter.update({ where: id, update: { userId, ...tokens } }), accepted.
UpdatedTable(c) ==
    [account EXCEPT ![existing[c].id].userId = request[c].user]

ApplyUpdate(c) ==
    /\ Present(account, existing[c].id)
    /\ Indexed(UpdatedTable(c))
    /\ account' = UpdatedTable(c)
    /\ wrote' = [wrote EXCEPT ![c] =
          IF account[existing[c].id].userId = request[c].user THEN "kept" ELSE "moved"]
    /\ UNCHANGED <<issued, disturbed>>

\* adapter.create({ providerId, accountId, userId, ...tokens }): the database
\* generates the key i.
CreatedTable(c, i) ==
    [account EXCEPT ![i] = [providerId |-> SIGMA_PROVIDER_ID,
                            accountId |-> request[c].subject,
                            userId |-> request[c].user]]

ApplyCreate(c) ==
    \E i \in RowId \ issued :
        /\ Indexed(CreatedTable(c, i))
        /\ account' = CreatedTable(c, i)
        /\ issued' = issued \cup {i}
        /\ wrote' = [wrote EXCEPT ![c] = "created"]
        /\ Disturb(request[c].subject, Call \ {c})

\* The account is unlinked, or its user deleted, by another request.
Unlink(i) ==
    /\ Present(account, i)
    /\ account[i].providerId = SIGMA_PROVIDER_ID
    /\ account' = [account EXCEPT ![i] = NoRow]
    /\ Disturb(account[i].accountId, Call)
    /\ UNCHANGED <<issued, pc, request, attempt, existing, result, wrote>>

----------------------------------------------------------------------------
(* upsertSigmaAccount, one action per await                                *)

\* The call begins with its parameters: `attempt = 1`.
Start(c, r) ==
    /\ pc[c] = "idle"
    /\ pc' = [pc EXCEPT ![c] = "find"]
    /\ request' = [request EXCEPT ![c] = r]
    /\ UNCHANGED <<account, issued, attempt, existing, result, wrote, disturbed>>

\* Mutant of LoseAttempt: the loop bound is off by one.
LoseAttemptLate(c) ==
    /\ IF attempt[c] <= MaxAttempts
       THEN /\ attempt' = [attempt EXCEPT ![c] = @ + 1]
            /\ pc' = [pc EXCEPT ![c] = "find"]
       ELSE /\ pc' = [pc EXCEPT ![c] = "conflict"]
            /\ UNCHANGED attempt
    /\ UNCHANGED result

\* `continue`: the next attempt, or SigmaAccountConflictError after the last one.
LoseAttempt(c) ==
    /\ IF attempt[c] < MaxAttempts
       THEN /\ attempt' = [attempt EXCEPT ![c] = @ + 1]
            /\ pc' = [pc EXCEPT ![c] = "find"]
       ELSE /\ pc' = [pc EXCEPT ![c] = "conflict"]
            /\ UNCHANGED attempt
    /\ UNCHANGED result

Succeed(c, effect) ==
    /\ pc' = [pc EXCEPT ![c] = "done"]
    /\ result' = [result EXCEPT ![c] = effect]
    /\ UNCHANGED attempt

\* Mutant of ReadEffect: an update always says that it moved the row.
ReadEffectMoved(c) == "moved"

\* The `reparented` flag, computed from the row as the attempt read it.
ReadEffect(c) ==
    IF existing[c].userId # request[c].user THEN "moved" ELSE "kept"

\* const existing = await findExisting()
FindExisting(c) ==
    /\ pc[c] = "find"
    /\ \/ /\ IdentityRows(request[c].subject) = {}
          /\ pc' = [pc EXCEPT ![c] = "create"]
          /\ UNCHANGED existing
       \/ \E i \in IdentityRows(request[c].subject) :
             /\ existing' = [existing EXCEPT ![c] =
                                [id |-> i, userId |-> account[i].userId]]
             /\ pc' = [pc EXCEPT ![c] = "update"]
    /\ UNCHANGED <<account, issued, request, attempt, result, wrote, disturbed>>

\* updated = await adapter.update(...): the row, or null because the adapter does
\* not echo it, or null because no row matched, or a unique violation.
UpdateRow(c) ==
    /\ pc[c] = "update"
    /\ \/ /\ ApplyUpdate(c)
          /\ \/ Succeed(c, ReadEffect(c))
             \/ pc' = [pc EXCEPT ![c] = "recheck"] /\ UNCHANGED <<attempt, result>>
       \/ /\ ~Present(account, existing[c].id)
          /\ pc' = [pc EXCEPT ![c] = "recheck"]
          /\ UNCHANGED <<account, issued, attempt, result, wrote, disturbed>>
       \/ /\ Present(account, existing[c].id)
          /\ ~Indexed(UpdatedTable(c))
          /\ LoseAttempt(c)
          /\ UNCHANGED <<account, issued, wrote, disturbed>>
    /\ UNCHANGED <<request, existing>>

\* Mutant of Recheck: a null from `update` is taken to mean that no row matched.
RecheckNever(c) ==
    /\ pc[c] = "recheck"
    /\ LoseAttempt(c)
    /\ UNCHANGED <<account, issued, request, existing, wrote, disturbed>>

\* Mutant of Recheck: any row of the identity is taken for the one updated.
RecheckAnyRow(c) ==
    /\ pc[c] = "recheck"
    /\ \/ /\ IdentityRows(request[c].subject) # {}
          /\ Succeed(c, ReadEffect(c))
       \/ /\ IdentityRows(request[c].subject) = {}
          /\ LoseAttempt(c)
    /\ UNCHANGED <<account, issued, request, existing, wrote, disturbed>>

\* const recheck = await findExisting(): the same row is still there, so the null
\* meant "not echoed"; otherwise the row vanished and the attempt is lost.
Recheck(c) ==
    /\ pc[c] = "recheck"
    /\ \/ /\ existing[c].id \in IdentityRows(request[c].subject)
          /\ Succeed(c, ReadEffect(c))
       \/ /\ existing[c].id \notin IdentityRows(request[c].subject)
          /\ LoseAttempt(c)
    /\ UNCHANGED <<account, issued, request, existing, wrote, disturbed>>

\* Mutant of CreateRow: a lost race repeats the create instead of reading again.
CreateRowAgain(c) ==
    /\ pc[c] = "create"
    /\ ApplyCreate(c)
    /\ Succeed(c, "created")
    /\ UNCHANGED <<request, existing>>

\* const created = await adapter.create(...): the row, or a unique violation.
CreateRow(c) ==
    /\ pc[c] = "create"
    /\ \/ /\ ApplyCreate(c)
          /\ Succeed(c, "created")
       \/ /\ \E i \in RowId \ issued : ~Indexed(CreatedTable(c, i))
          /\ LoseAttempt(c)
          /\ UNCHANGED <<account, issued, wrote, disturbed>>
    /\ UNCHANGED <<request, existing>>

\* An operation throws something that is not a unique violation (or the process
\* dies): the call ends, and its write may have been applied or not.
DriverError(c) ==
    /\ pc[c] \in Awaiting
    /\ \/ UNCHANGED <<account, issued, wrote, disturbed>>
       \/ pc[c] = "update" /\ ApplyUpdate(c)
       \/ pc[c] = "create" /\ ApplyCreate(c)
    /\ pc' = [pc EXCEPT ![c] = "threw"]
    /\ UNCHANGED <<request, attempt, existing, result>>

Step(c) == FindExisting(c) \/ UpdateRow(c) \/ Recheck(c) \/ CreateRow(c)

Next ==
    \/ \E c \in Call, r \in Request : Start(c, r)
    \/ \E c \in Call : Step(c) \/ DriverError(c)
    \/ \E i \in RowId : Unlink(i)

\* Every database operation ends: its promise resolves or rejects.
Fairness == \A c \in Call : WF_accountVars(Step(c))

Spec == Init /\ [][Next]_accountVars /\ Fairness

----------------------------------------------------------------------------
(* Properties                                                              *)

\* A call never writes to a row of another provider, even one that shares the
\* subject: account-record.ts:174, "A different provider's row is never selected
\* even when it shares the same subject".
ForeignRowsKept ==
    [][\A i \in RowId :
          Present(account, i) /\ account[i].providerId # SIGMA_PROVIDER_ID
          => account'[i] = account[i]]_accountVars

\* SigmaAccountConflictError says "a concurrent writer kept winning the race"
\* (account-record.ts:41-42): when only the documented index exists, a call gives
\* up only if in every one of its attempts another party created or removed a row
\* of its identity after the attempt had read the table.
ConflictIsEarned ==
    \A c \in Call :
        ~UserIndex /\ pc[c] = "conflict" => 1 .. MaxAttempts \subseteq disturbed[c]

\* Every call that began ends, however the others interleave with it: the retries
\* are bounded and no answer sends it back to a read it has already done.
EveryCallSettles ==
    \A c \in Call : pc[c] = "find" ~> pc[c] \in Failed \cup {"done"}

\* Another call on the subject of c has written, and its user explains the error of
\* the report: the row said to be left alone was given to someone else meanwhile,
\* the row said to be moved had already been moved for the same user.
Overtaken(c, report) ==
    \E d \in Call \ {c} :
        /\ request[d].subject = request[c].subject
        /\ wrote[d] # "nothing"
        /\ \/ report = "kept" /\ request[d].user # request[c].user
           \/ report = "moved" /\ request[d].user = request[c].user

\* A call tells its caller truly whether it moved the row (`reparented`,
\* account-record.ts:164), except when another call on the subject has written, and
\* then its error is the other's doing.
WrongReportIsOvertaken ==
    \A c \in Call :
        pc[c] = "done" /\ result[c] # wrote[c] => Overtaken(c, result[c])

----------------------------------------------------------------------------
(* The inductive invariant                                                 *)

\* Keys are generated once, and the unique index holds.
TableInv ==
    /\ Indexed(account)
    /\ \A i \in RowId : Present(account, i) => i \in issued

\* The row an attempt has read, if it is still there, still carries the identity
\* of the call; a recheck that finds it there follows a write that reached it.
ReadInv(c) ==
    pc[c] \in {"update", "recheck"} =>
        /\ existing[c] \in Snapshot
        /\ existing[c].id \in issued
        /\ Present(account, existing[c].id) =>
              /\ Identity(account, existing[c].id, request[c].subject)
              /\ pc[c] = "recheck" => wrote[c] # "nothing"

\* The attempts a call has lost were disturbed, and the current one can be lost
\* only if it was.
LostInv(c) ==
    ~UserIndex =>
        /\ pc[c] \in Awaiting => \A k \in 1 .. attempt[c] :
                                    k # attempt[c] => k \in disturbed[c]
        /\ pc[c] = "create" =>
              IdentityRows(request[c].subject) = {} \/ attempt[c] \in disturbed[c]
        /\ pc[c] \in {"update", "recheck"} =>
              Present(account, existing[c].id) \/ attempt[c] \in disturbed[c]
        /\ pc[c] = "conflict" => 1 .. MaxAttempts \subseteq disturbed[c]

\* What keeps every property of the upsert true from step to step: the shape of
\* the table, what a call may rely on about the row it has read, and why it lost
\* the attempts it lost.
UpsertInv ==
    /\ TypeOK
    /\ TableInv
    /\ \A c \in Call :
          /\ ReadInv(c)
          /\ LostInv(c)
          /\ pc[c] = "done" => wrote[c] # "nothing"
          /\ pc[c] = "idle" => wrote[c] = "nothing" /\ attempt[c] = 1

\* Why a report is only wrong when it was overtaken: the row a call is about to
\* update has another owner than the one read only if another call gave it that
\* owner, and what the call will report after a recheck is then excused.
ReportInv(c) ==
    /\ pc[c] = "update" /\ Present(account, existing[c].id)
       /\ account[existing[c].id].userId # existing[c].userId
       => \E d \in Call \ {c} :
              /\ request[d].subject = request[c].subject
              /\ wrote[d] # "nothing"
              /\ request[d].user = account[existing[c].id].userId
    /\ pc[c] = "recheck" /\ Present(account, existing[c].id)
       /\ ReadEffect(c) # wrote[c] => Overtaken(c, ReadEffect(c))
    /\ pc[c] = "done" /\ result[c] # wrote[c] => Overtaken(c, result[c])

----------------------------------------------------------------------------
(* The detailed table and calls implement AccountLink                      *)

Owner(s) ==
    IF IdentityRows(s) = {} THEN NoUser
    ELSE account[CHOOSE i \in IdentityRows(s) : TRUE].userId

Status(c) ==
    CASE pc[c] = "idle" -> "idle"
      [] pc[c] = "done" -> "ok"
      [] pc[c] \in Failed -> "failed"
      [] pc[c] \in Awaiting /\ wrote[c] = "nothing" -> "trying"
      [] pc[c] \in Awaiting /\ wrote[c] # "nothing" -> "wrote"

AbstractLink == INSTANCE AccountLink
    WITH owner <- [s \in Subject |-> Owner(s)],
         status <- [c \in Call |-> Status(c)],
         want <- request

\* A call that reports success has itself made the identity belong to the user it
\* was given, between its invocation and its return.
ImplementsLink == AbstractLink!LinkSpec
=============================================================================
