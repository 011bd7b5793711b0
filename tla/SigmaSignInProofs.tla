------------------------- MODULE SigmaSignInProofs -------------------------
(***************************************************************************)
(* Proofs about SigmaSignIn, for every set of callbacks, subjects, users,  *)
(* emails and keys.  A sign-in is a behaviour of SigmaAccount with more    *)
(* state around it, so UpsertInv holds of it too; on top of it the state   *)
(* of each callback says whose email it resolved, for whom it called the   *)
(* upsert, and that a session comes after both.                            *)
(***************************************************************************)
EXTENDS SigmaSignIn, SigmaAccountProofs

USE SignInAssumption

\* The unique index on email.
EmailInv == \A u, v \in User : Exists(u) /\ email[u] = email[v] => u = v

\* What a callback has done before the stage it is at.
CallbackInv(c) ==
    /\ stage[c] \in {"token", "userinfo", "lookup"} => user[c] = NoUser
    /\ stage[c] \in {"token", "userinfo", "lookup", "write"} => ~isNewUser[c]
    /\ stage[c] \in {"userinfo", "lookup", "write", "upsert", "session"} => burned[c]
    /\ stage[c] \in {"token", "userinfo"} => claim[c] = NoEmail
    /\ stage[c] \in {"lookup", "write"} => claim[c] \in Email
    /\ user[c] # NoUser => Exists(user[c]) /\ email[user[c]] = claim[c]
    /\ stage[c] \in {"upsert", "session"} \/ isNewUser[c] => user[c] # NoUser
    /\ stage[c] = "upsert" =>
          /\ handler # "payload"
          /\ request[c] = [subject |-> grant[c], user |-> user[c]]
    /\ stage[c] = "session" => handler = "payload"
    /\ stage[c] \in {"cookie", "signedIn"} => session[c] # NoUser
    /\ session[c] # NoUser =>
          /\ session[c] = user[c]
          /\ stage[c] \in {"cookie", "signedIn", "failed"}
          /\ burned[c]
          /\ handler # "payload" =>
                /\ pc[c] = "done"
                /\ request[c] = [subject |-> grant[c], user |-> user[c]]

SignInInv ==
    /\ SignInTypeOK
    /\ UpsertInv
    /\ EmailInv
    /\ \A c \in Call : CallbackInv(c)
    /\ NewUserOnce

LEMMA SignInInitInv == SignInInit => SignInInv
<1> SUFFICES ASSUME SignInInit PROVE SignInInv
  OBVIOUS
<1>1. UpsertInv
  BY InitInv DEF SignInInit
<1>2. SignInTypeOK
  BY <1>1 DEF SignInInit, SignInTypeOK, UpsertInv, Pending
<1>3. EmailInv
  BY DEF SignInInit, EmailInv, Exists
<1>4. (\A c \in Call : CallbackInv(c)) /\ NewUserOnce
  BY DEF SignInInit, CallbackInv, NewUserOnce
<1> QED
  BY <1>1, <1>2, <1>3, <1>4 DEF SignInInv

----------------------------------------------------------------------------
(* The account record under the callbacks                                  *)

\* A resolved user is passed on to the upsert as a request of its type.
LEMMA ResolveIsNext ==
    ASSUME SignInTypeOK, NEW c \in Call, NEW u \in User, Resolve(c, u)
    PROVE  [Next]_accountVars
<1>1. [subject |-> grant[c], user |-> u] \in Request
  BY DEF SignInTypeOK, Request
<1> QED
  BY <1>1 DEF Resolve, Next

\* Every step of the callbacks is a step of SigmaAccount, or none of it.
LEMMA AccountStep ==
    ASSUME SignInTypeOK, [SignInNext]_vars
    PROVE  [Next]_accountVars
<1>1. ASSUME NEW c \in Call, CallbackStep(c) PROVE [Next]_accountVars
  <2>1. CASE UpdateUser(c)
    <3>1. user[c] \in User /\ Resolve(c, user[c])
      BY <2>1 DEF UpdateUser, SignInTypeOK
    <3> QED
      BY <3>1, ResolveIsNext
  <2>2. CASE CreateUser(c)
    BY <2>2, ResolveIsNext DEF CreateUser
  <2>3. CASE UpsertStep(c)
    BY <2>3 DEF UpsertStep, Next
  <2>4. CASE UNCHANGED accountVars
    BY <2>4
  <2> QED
    BY <1>1, <2>1, <2>2, <2>3, <2>4
       DEF CallbackStep, RedeemCode, FetchUserInfo, FindUser, CreateUserRejected,
           UpsertFailed, CreateSession, InsertSession, SetCookie
<1>2. ASSUME NEW c \in Call, UpsertError(c) PROVE [Next]_accountVars
  BY <1>2 DEF UpsertError, Next
<1>3. ASSUME NEW c \in Call, CallbackError(c) PROVE [Next]_accountVars
  BY <1>3 DEF CallbackError
<1>4. ASSUME NEW i \in RowId, Unlink(i) PROVE [Next]_accountVars
  BY <1>4 DEF Next
<1>5. CASE UNCHANGED vars
  BY <1>5 DEF vars
<1> QED
  BY <1>1, <1>2, <1>3, <1>4, <1>5 DEF SignInNext

----------------------------------------------------------------------------
(* What a step leaves of a callback that does not take it                  *)

\* The callback d, and what it knows of its upsert, stay as they are.
Waits(d) ==
    /\ stage'[d] = stage[d]
    /\ grant'[d] = grant[d]
    /\ burned'[d] = burned[d]
    /\ claim'[d] = claim[d]
    /\ user'[d] = user[d]
    /\ isNewUser'[d] = isNewUser[d]
    /\ session'[d] = session[d]
    /\ request'[d] = request[d]
    /\ pc[d] = "done" => pc'[d] = "done"

\* Users are added, never renamed.
UsersKept == \A u \in User : Exists(u) => email'[u] = email[u]

LEMMA WaitingInv ==
    ASSUME SignInTypeOK, UsersKept, handler' = handler, NEW d \in Call,
           CallbackInv(d), Waits(d)
    PROVE  CallbackInv(d)'
<1>1. user[d] # NoUser => user[d] \in User
  BY DEF SignInTypeOK
<1> QED
  BY <1>1 DEF Waits, CallbackInv, UsersKept, Exists

\* The account variables change only for the callback that steps.
LEMMA UpsertFrame ==
    ASSUME UpsertInv, NEW c \in Call, Step(c) \/ DriverError(c)
    PROVE  /\ pc[c] \in Awaiting
           /\ request' = request
           /\ \A d \in Call : d # c => pc'[d] = pc[d]
<1>1. CASE Step(c)
  BY <1>1 DEF Step, FindExisting, UpdateRow, Recheck, CreateRow, Succeed, LoseAttempt,
              Awaiting, UpsertInv, TypeOK
<1>2. CASE DriverError(c)
  BY <1>2 DEF DriverError, UpsertInv, TypeOK
<1> QED
  BY <1>1, <1>2

\* A step of the upsert, answered or not, leaves every callback as it was.
LEMMA UpsertWaits ==
    ASSUME SignInInv, NEW c \in Call, Step(c) \/ DriverError(c),
           UNCHANGED <<handler, email, stage, grant, burned, claim, user, isNewUser,
                       session>>
    PROVE  /\ EmailInv'
           /\ \A d \in Call : CallbackInv(d)'
           /\ NewUserOnce'
<1>1. pc[c] # "done" /\ request' = request /\ \A d \in Call : d # c => pc'[d] = pc[d]
  BY UpsertFrame DEF SignInInv, Awaiting
<1>2. \A d \in Call : Waits(d)
  BY <1>1 DEF Waits
<1>3. UsersKept
  BY DEF UsersKept
<1> QED
  BY <1>2, <1>3, WaitingInv DEF SignInInv, EmailInv, Exists, NewUserOnce

\* A user that the callback c inserts is new, and the index still holds.
LEMMA InsertEffect ==
    ASSUME SignInInv, NEW c \in Call, NEW u \in User, stage[c] = "write",
           InsertUser(c, u)
    PROVE  /\ UsersKept
           /\ EmailInv'
           /\ email' \in [User -> Email \cup {NoEmail}]
           /\ email'[u] = claim[c] /\ Exists(u)' /\ ~Exists(u)
<1>1. claim[c] \in Email /\ email \in [User -> Email \cup {NoEmail}]
  BY DEF SignInInv, CallbackInv, SignInTypeOK
<1> QED
  BY <1>1 DEF InsertUser, UsersKept, EmailInv, Exists, SignInInv

----------------------------------------------------------------------------
(* The steps                                                               *)

\* The parts of the invariant that a step of the callback c outside its upsert can
\* disturb, apart from what is true of c itself.
LEMMA StepParts ==
    ASSUME SignInInv, UpsertInv', SignInTypeOK', EmailInv', UsersKept,
           handler' = handler, NEW c \in Call,
           \A d \in Call : d # c => Waits(d),
           CallbackInv(c)', NewUserOnce'
    PROVE  SignInInv'
  BY WaitingInv DEF SignInInv

LEMMA RedeemCodeInv ==
    ASSUME SignInInv, UpsertInv', NEW c \in Call, RedeemCode(c) PROVE SignInInv'
<1> USE DEF RedeemCode, Enter
<1>1. SignInTypeOK'
  BY DEF SignInInv, UpsertInv, SignInTypeOK, Pending
<1>2. \A d \in Call : d # c => Waits(d)
  BY DEF SignInInv, SignInTypeOK, Waits, accountVars
<1>3. CallbackInv(c)'
  BY DEF SignInInv, CallbackInv, SignInTypeOK, Exists
<1>4. EmailInv' /\ UsersKept /\ NewUserOnce'
  BY DEF SignInInv, EmailInv, UsersKept, Exists, NewUserOnce
<1> QED
  BY <1>1, <1>2, <1>3, <1>4, StepParts

LEMMA FetchUserInfoInv ==
    ASSUME SignInInv, UpsertInv', NEW c \in Call, FetchUserInfo(c) PROVE SignInInv'
<1> USE DEF FetchUserInfo, Enter
<1>1. SignInTypeOK'
  BY DEF SignInInv, UpsertInv, SignInTypeOK, Pending
<1>2. \A d \in Call : d # c => Waits(d)
  BY DEF SignInInv, SignInTypeOK, Waits, accountVars
<1>3. CallbackInv(c)'
  BY DEF SignInInv, CallbackInv, SignInTypeOK, Exists
<1>4. EmailInv' /\ UsersKept /\ NewUserOnce'
  BY DEF SignInInv, EmailInv, UsersKept, Exists, NewUserOnce
<1> QED
  BY <1>1, <1>2, <1>3, <1>4, StepParts

LEMMA FindUserInv ==
    ASSUME SignInInv, UpsertInv', NEW c \in Call, FindUser(c) PROVE SignInInv'
<1> USE DEF FindUser, Enter
<1>1. SignInTypeOK'
  BY DEF SignInInv, UpsertInv, SignInTypeOK, Pending, Ended
<1>2. \A d \in Call : d # c => Waits(d)
  BY DEF SignInInv, SignInTypeOK, Waits, accountVars
<1>3. CallbackInv(c)'
  <2>1. CASE user' = user
    <3>1. /\ stage[c] = "lookup"
          /\ stage'[c] \in {"refused", "write", "session"}
          /\ UNCHANGED <<handler, email, grant, burned, claim, isNewUser, session>>
          /\ UNCHANGED accountVars
      BY DEF SignInInv, SignInTypeOK
    <3>2. user[c] = NoUser /\ user \in [Call -> User \cup {NoUser}]
      BY <3>1 DEF SignInInv, CallbackInv, SignInTypeOK
    <3>3. \A u \in User : user' # [user EXCEPT ![c] = u]
      BY <2>1, <3>2, ConstantsAssumption
    <3>4. stage'[c] # "session"
      BY <3>3 DEF SignInInv, SignInTypeOK
    <3> QED
      BY <2>1, <3>1, <3>2, <3>4 DEF SignInInv, CallbackInv, accountVars
  <2>2. ASSUME NEW u \in User, email[u] = claim[c], user' = [user EXCEPT ![c] = u],
               Enter(c, IF handler = "payload" THEN "session" ELSE "write")
        PROVE  CallbackInv(c)'
    <3>1. claim[c] \in Email
      BY DEF SignInInv, CallbackInv
    <3> QED
      BY <2>2, <3>1, ConstantsAssumption DEF SignInInv, CallbackInv, SignInTypeOK, Exists
  <2> QED
    BY <2>1, <2>2
<1>4. EmailInv' /\ UsersKept
  BY DEF SignInInv, EmailInv, UsersKept, Exists
<1>5. NewUserOnce'
  <2>1. ~isNewUser[c] /\ isNewUser' = isNewUser
    BY DEF SignInInv, CallbackInv
  <2>2. \A d \in Call : d # c => user'[d] = user[d]
    BY <1>2 DEF Waits
  <2> QED
    BY <2>1, <2>2 DEF SignInInv, NewUserOnce
<1> QED
  BY <1>1, <1>2, <1>3, <1>4, <1>5, StepParts

\* Resolving a user moves on to the upsert of that user, or past it.
LEMMA ResolveEffect ==
    ASSUME SignInTypeOK, NEW c \in Call, NEW u \in User, Resolve(c, u)
    PROVE  /\ stage' = [stage EXCEPT ![c] = IF handler = "payload" THEN "session"
                                           ELSE "upsert"]
           /\ handler # "payload" =>
                 request'[c] = [subject |-> grant[c], user |-> u]
           /\ \A d \in Call : d # c => request'[d] = request[d] /\ pc'[d] = pc[d]
  BY DEF Resolve, Start, Enter, SignInTypeOK, TypeOK, accountVars

LEMMA UpdateUserInv ==
    ASSUME SignInInv, UpsertInv', NEW c \in Call, UpdateUser(c) PROVE SignInInv'
<1>1. /\ user[c] \in User /\ user[c] # NoUser /\ stage[c] = "write"
      /\ Resolve(c, user[c])
      /\ UNCHANGED <<handler, email, grant, burned, claim, user, isNewUser, session,
                     fault>>
  BY DEF UpdateUser, SignInInv, SignInTypeOK
<1>2. /\ stage' = [stage EXCEPT ![c] = IF handler = "payload" THEN "session"
                                      ELSE "upsert"]
      /\ handler # "payload" => request'[c] = [subject |-> grant[c], user |-> user[c]]
      /\ \A d \in Call : d # c => request'[d] = request[d] /\ pc'[d] = pc[d]
  BY <1>1, ResolveEffect DEF SignInInv
<1>3. SignInTypeOK'
  BY <1>1, <1>2 DEF SignInInv, UpsertInv, SignInTypeOK, Pending
<1>4. \A d \in Call : d # c => Waits(d)
  BY <1>1, <1>2 DEF SignInInv, SignInTypeOK, Waits
<1>5. CallbackInv(c)'
  BY <1>1, <1>2 DEF SignInInv, CallbackInv, SignInTypeOK, Exists
<1>6. EmailInv' /\ UsersKept /\ NewUserOnce'
  BY <1>1 DEF SignInInv, EmailInv, UsersKept, Exists, NewUserOnce
<1> QED
  BY <1>1, <1>3, <1>4, <1>5, <1>6, StepParts

LEMMA CreateUserInv ==
    ASSUME SignInInv, UpsertInv', NEW c \in Call, CreateUser(c) PROVE SignInInv'
<1>1. PICK u \in User : /\ InsertUser(c, u)
                        /\ user' = [user EXCEPT ![c] = u]
                        /\ isNewUser' = [isNewUser EXCEPT ![c] = TRUE]
                        /\ Resolve(c, u)
  BY DEF CreateUser
<1>2. /\ stage[c] = "write" /\ user[c] = NoUser
      /\ UNCHANGED <<handler, grant, burned, claim, session, fault>>
  BY DEF CreateUser
<1>3. /\ stage' = [stage EXCEPT ![c] = IF handler = "payload" THEN "session"
                                      ELSE "upsert"]
      /\ handler # "payload" => request'[c] = [subject |-> grant[c], user |-> u]
      /\ \A d \in Call : d # c => request'[d] = request[d] /\ pc'[d] = pc[d]
  BY <1>1, ResolveEffect DEF SignInInv
<1>4. /\ UsersKept /\ EmailInv'
      /\ email' \in [User -> Email \cup {NoEmail}]
      /\ email'[u] = claim[c] /\ Exists(u)' /\ ~Exists(u)
  BY <1>1, <1>2, InsertEffect
<1>5. SignInTypeOK'
  BY <1>1, <1>2, <1>3, <1>4 DEF SignInInv, UpsertInv, SignInTypeOK, Pending
<1>6. \A d \in Call : d # c => Waits(d)
  BY <1>1, <1>2, <1>3 DEF SignInInv, SignInTypeOK, Waits
<1>7. CallbackInv(c)'
  <2>1. user'[c] = u /\ stage'[c] \in {"session", "upsert"} /\ u # NoUser
    BY <1>1, <1>3, ConstantsAssumption DEF SignInInv, SignInTypeOK
  <2>2. /\ stage'[c] = "session" <=> handler = "payload"
        /\ stage'[c] = "upsert" => request'[c] = [subject |-> grant[c], user |-> u]
    BY <1>3 DEF SignInInv, SignInTypeOK
  <2>3. session[c] = NoUser /\ burned[c]
    BY <1>2 DEF SignInInv, CallbackInv
  <2> QED
    BY <1>2, <1>4, <2>1, <2>2, <2>3 DEF CallbackInv, Exists
<1>8. NewUserOnce'
  <2>1. \A d \in Call : d # c /\ isNewUser[d] => user[d] # u
    BY <1>4 DEF SignInInv, CallbackInv
  <2> QED
    BY <1>1, <2>1 DEF SignInInv, NewUserOnce, SignInTypeOK
<1> QED
  BY <1>2, <1>4, <1>5, <1>6, <1>7, <1>8, StepParts

\* The callback c ends, and knows nothing more than before.
LEMMA EndsInv ==
    ASSUME SignInInv, UpsertInv', NEW c \in Call, stage[c] \notin {"cookie", "signedIn"},
           Enter(c, "failed"), fault' \in [Call -> BOOLEAN],
           UNCHANGED <<handler, email, grant, burned, claim, user, isNewUser, session>>,
           UNCHANGED accountVars
    PROVE  SignInInv'
<1> USE DEF Enter
<1>1. SignInTypeOK'
  BY DEF SignInInv, UpsertInv, SignInTypeOK, Ended
<1>2. \A d \in Call : d # c => Waits(d)
  BY DEF SignInInv, SignInTypeOK, Waits, accountVars
<1>3. CallbackInv(c)'
  BY DEF SignInInv, CallbackInv, SignInTypeOK, Exists, accountVars
<1>4. EmailInv' /\ UsersKept /\ NewUserOnce'
  BY DEF SignInInv, EmailInv, UsersKept, Exists, NewUserOnce
<1> QED
  BY <1>1, <1>2, <1>3, <1>4, StepParts

LEMMA CreateSessionInv ==
    ASSUME SignInInv, UpsertInv', NEW c \in Call, CreateSession(c) PROVE SignInInv'
<1> USE DEF CreateSession, InsertSession, Enter
<1>1. SignInTypeOK'
  BY DEF SignInInv, UpsertInv, SignInTypeOK, Pending
<1>2. \A d \in Call : d # c => Waits(d)
  BY DEF SignInInv, SignInTypeOK, Waits, accountVars
<1>3. CallbackInv(c)'
  BY DEF SignInInv, CallbackInv, SignInTypeOK, Exists, accountVars
<1>4. EmailInv' /\ UsersKept /\ NewUserOnce'
  BY DEF SignInInv, EmailInv, UsersKept, Exists, NewUserOnce
<1> QED
  BY <1>1, <1>2, <1>3, <1>4, StepParts

LEMMA SetCookieInv ==
    ASSUME SignInInv, UpsertInv', NEW c \in Call, SetCookie(c) PROVE SignInInv'
<1> USE DEF SetCookie, Enter
<1>1. SignInTypeOK'
  BY DEF SignInInv, UpsertInv, SignInTypeOK, Ended
<1>2. \A d \in Call : d # c => Waits(d)
  BY DEF SignInInv, SignInTypeOK, Waits, accountVars
<1>3. CallbackInv(c)'
  BY DEF SignInInv, CallbackInv, SignInTypeOK, Exists, accountVars
<1>4. EmailInv' /\ UsersKept /\ NewUserOnce'
  BY DEF SignInInv, EmailInv, UsersKept, Exists, NewUserOnce
<1> QED
  BY <1>1, <1>2, <1>3, <1>4, StepParts

LEMMA CallbackErrorInv ==
    ASSUME SignInInv, UpsertInv', NEW c \in Call, CallbackError(c) PROVE SignInInv'
<1>1. /\ stage' = [stage EXCEPT ![c] = "failed"]
      /\ fault' = [fault EXCEPT ![c] = TRUE]
      /\ UNCHANGED <<handler, grant, claim, user, isNewUser>>
      /\ UNCHANGED <<request, pc>>
      /\ stage[c] \in Pending
  BY DEF CallbackError, Enter, accountVars, Pending
<1>2. /\ UsersKept /\ EmailInv' /\ email' \in [User -> Email \cup {NoEmail}]
      /\ Exists(user[c]) /\ user[c] # NoUser => email'[user[c]] = email[user[c]]
  <2>1. CASE UNCHANGED email
    BY <2>1 DEF SignInInv, SignInTypeOK, EmailInv, UsersKept, Exists
  <2>2. CASE stage[c] = "write" /\ user[c] = NoUser /\ \E u \in User : InsertUser(c, u)
    BY <2>2, InsertEffect
  <2> QED
    BY <2>1, <2>2 DEF CallbackError
<1>3. /\ burned' \in [Call -> BOOLEAN]
      /\ burned'[c] = burned[c] \/ stage[c] = "token"
      /\ \A d \in Call : d # c => burned'[d] = burned[d]
  BY DEF CallbackError, SignInInv, SignInTypeOK
<1>4. /\ session' \in [Call -> User \cup {NoUser}]
      /\ \/ session'[c] = session[c]
         \/ /\ session'[c] = user[c]
            /\ stage[c] = "session" \/ (stage[c] = "upsert" /\ pc[c] = "done")
      /\ \A d \in Call : d # c => session'[d] = session[d]
  <2>1. session \in [Call -> User \cup {NoUser}] /\ user[c] \in User \cup {NoUser}
    BY DEF SignInInv, SignInTypeOK
  <2>2. \/ session' = session
        \/ /\ stage[c] = "session" \/ (stage[c] = "upsert" /\ pc[c] = "done")
           /\ session' = [session EXCEPT ![c] = user[c]]
    BY DEF CallbackError
  <2>3. CASE session' = session
    BY <2>1, <2>3
  <2>4. CASE /\ stage[c] = "session" \/ (stage[c] = "upsert" /\ pc[c] = "done")
             /\ session' = [session EXCEPT ![c] = user[c]]
    BY <2>1, <2>4
  <2> QED
    BY <2>2, <2>3, <2>4
<1>5. SignInTypeOK'
  BY <1>1, <1>2, <1>3, <1>4 DEF SignInInv, UpsertInv, SignInTypeOK, Ended
<1>6. \A d \in Call : d # c => Waits(d)
  BY <1>1, <1>3, <1>4 DEF SignInInv, SignInTypeOK, Waits
<1>7. CallbackInv(c)'
  <2>1. user'[c] = user[c] /\ claim'[c] = claim[c] /\ stage'[c] = "failed"
    BY <1>1 DEF SignInInv, SignInTypeOK
  <2>2. user[c] # NoUser => email'[user[c]] # NoEmail /\ email'[user[c]] = claim[c]
    BY <1>2 DEF SignInInv, CallbackInv, Exists
  <2>3. isNewUser[c] => user[c] # NoUser
    BY DEF SignInInv, CallbackInv
  <2>4. session'[c] # NoUser =>
          /\ session'[c] = user[c]
          /\ burned'[c]
          /\ handler # "payload" =>
                /\ pc[c] = "done"
                /\ request[c] = [subject |-> grant[c], user |-> user[c]]
    BY <1>3, <1>4 DEF SignInInv, CallbackInv
  <2> QED
    BY <1>1, <2>1, <2>2, <2>3, <2>4 DEF CallbackInv, Exists
<1>8. NewUserOnce'
  BY <1>1 DEF SignInInv, NewUserOnce
<1> QED
  BY <1>1, <1>2, <1>5, <1>6, <1>7, <1>8, StepParts

LEMMA SignInNextInv == SignInInv /\ [SignInNext]_vars => SignInInv'
<1> SUFFICES ASSUME SignInInv, [SignInNext]_vars PROVE SignInInv'
  OBVIOUS
<1>1. UpsertInv'
  BY AccountStep, NextInv DEF SignInInv
<1>2. ASSUME NEW c \in Call, UpsertStep(c) \/ UpsertError(c) PROVE SignInInv'
  <2>1. SignInTypeOK'
    BY <1>1, <1>2 DEF UpsertStep, UpsertError, SignInInv, UpsertInv, SignInTypeOK, signInVars
  <2>2. /\ Step(c) \/ DriverError(c)
        /\ UNCHANGED <<handler, email, stage, grant, burned, claim, user, isNewUser,
                       session>>
    BY <1>2 DEF UpsertStep, UpsertError, signInVars
  <2> QED
    BY <1>1, <2>1, <2>2, UpsertWaits DEF SignInInv
<1>3. ASSUME NEW c \in Call, CreateUserRejected(c) \/ UpsertFailed(c) PROVE SignInInv'
  <2>1. /\ stage[c] \in {"write", "upsert"}
        /\ Enter(c, "failed")
        /\ UNCHANGED <<handler, email, grant, burned, claim, user, isNewUser, session,
                       fault>>
        /\ UNCHANGED accountVars
    BY <1>3 DEF CreateUserRejected, UpsertFailed
  <2>2. fault' \in [Call -> BOOLEAN]
    BY <2>1 DEF SignInInv, SignInTypeOK
  <2> QED
    BY <1>1, <2>1, <2>2, EndsInv
<1>4. ASSUME NEW c \in Call, CallbackStep(c) PROVE SignInInv'
  BY <1>1, <1>2, <1>3, <1>4, RedeemCodeInv, FetchUserInfoInv, FindUserInv, UpdateUserInv,
     CreateUserInv, CreateSessionInv, SetCookieInv
     DEF CallbackStep
<1>5. ASSUME NEW i \in RowId, Unlink(i), UNCHANGED signInVars PROVE SignInInv'
  <2>1. SignInTypeOK'
    BY <1>1, <1>5 DEF SignInInv, UpsertInv, SignInTypeOK, signInVars
  <2>2. UsersKept /\ handler' = handler /\ \A d \in Call : Waits(d)
    BY <1>5 DEF Unlink, UsersKept, Waits, signInVars
  <2>3. EmailInv' /\ NewUserOnce'
    BY <1>5 DEF SignInInv, EmailInv, Exists, NewUserOnce, signInVars
  <2> QED
    BY <1>1, <2>1, <2>2, <2>3, WaitingInv DEF SignInInv
<1>6. CASE UNCHANGED vars
  BY <1>1, <1>6
     DEF vars, accountVars, signInVars, SignInInv, UpsertInv, SignInTypeOK, EmailInv,
         Exists, CallbackInv, NewUserOnce
<1> QED
  BY <1>1, <1>2, <1>4, <1>5, <1>6, CallbackErrorInv DEF SignInNext

----------------------------------------------------------------------------

\* The invariant holds throughout.
THEOREM SignInInvariant == SignInSpec => []SignInInv
  BY SignInInitInv, SignInNextInv, PTL DEF SignInSpec

\* A sign-in is a behaviour of SigmaAccount (callback-plugin.ts:225 calls
\* account-record.ts): what is proved of the upsert holds under the callbacks.
THEOREM SignInRunsUpserts == SignInSpec => Init /\ [][Next]_accountVars
<1>1. SignInInit => Init
  BY DEF SignInInit
<1>2. SignInInv /\ [SignInNext]_vars => [Next]_accountVars
  BY AccountStep DEF SignInInv
<1> QED
  BY <1>1, <1>2, SignInInvariant, PTL DEF SignInSpec

\* Under the callbacks the calls keep the promise of upsertSigmaAccount too: a
\* sign-in implements AccountLink (account-record.ts:182, callback-plugin.ts:225).
THEOREM SignInImplementsLink == SignInSpec => ImplementsLink
<1>1. SignInInit /\ SignInInv => AbstractLink!LinkInit
  BY InitLink DEF SignInInit, SignInInv
<1>2. SignInInv /\ SignInInv' /\ [SignInNext]_vars
      => [AbstractLink!LinkNext]_AbstractLink!linkVars
  BY AccountStep, LinkStep DEF SignInInv
<1> QED
  BY <1>1, <1>2, SignInInvariant, PTL
     DEF SignInSpec, ImplementsLink, AbstractLink!LinkSpec

\* The tables and the callbacks keep their types (callback-plugin.ts:132-260).
THEOREM SignInTypeCorrect == SignInSpec => []SignInTypeOK
<1>1. SignInInv => SignInTypeOK
  BY DEF SignInInv
<1> QED
  BY <1>1, SignInInvariant, PTL

\* One email signs in one user (callback-plugin.ts:161-206), whatever interleaves.
THEOREM EmailSignsInOneUser == SignInSpec => []SameEmailSameUser
<1>1. SignInInv => SameEmailSameUser
  <2> SUFFICES ASSUME SignInInv, NEW c \in Call, NEW d \in Call, stage[c] = "signedIn",
                      stage[d] = "signedIn", claim[c] = claim[d]
               PROVE  session[c] = session[d]
    BY DEF SameEmailSameUser
  <2>1. ASSUME NEW e \in Call, stage[e] = "signedIn"
        PROVE  /\ session[e] \in User
               /\ Exists(session[e]) /\ email[session[e]] = claim[e]
    <3>1. session[e] # NoUser /\ session[e] \in User \cup {NoUser} /\ session[e] = user[e]
      BY <2>1 DEF SignInInv, CallbackInv, SignInTypeOK
    <3> QED
      BY <3>1 DEF SignInInv, CallbackInv
  <2>2. email[session[c]] = email[session[d]]
    BY <2>1
  <2> QED
    BY <2>1, <2>2 DEF SignInInv, EmailInv
<1> QED
  BY <1>1, SignInInvariant, PTL

\* A session follows the link of the very user it is for (callback-plugin.ts:225-246).
THEOREM SessionFollowsLink == SignInSpec => []SessionIsLinked
<1>1. SignInInv => SessionIsLinked
  BY DEF SignInInv, CallbackInv, UpsertInv, SessionIsLinked
<1> QED
  BY <1>1, SignInInvariant, PTL

\* A new user is announced once (callback-plugin.ts:259).
THEOREM NewUserAnnouncedOnce == SignInSpec => []NewUserOnce
<1>1. SignInInv => NewUserOnce
  BY DEF SignInInv
<1> QED
  BY <1>1, SignInInvariant, PTL

----------------------------------------------------------------------------
(* The callbacks implement IdentitySignIn                                  *)

LEMMA DirectoryStays ==
    ASSUME email' = email
    PROVE  \A e \in Email : WithEmail(e)' = WithEmail(e)
BY DEF WithEmail

LEMMA PromiseStutters ==
    ASSUME UNCHANGED <<email, claim, session>>
    PROVE  UNCHANGED AbstractSignIn!identityVars
BY DirectoryStays DEF AbstractSignIn!identityVars

LEMMA PromiseProved ==
    ASSUME SignInInv, NEW c \in Call, FetchUserInfo(c)
    PROVE  AbstractSignIn!Prove(c)
<1>1. claim[c] = NoEmail
  BY DEF FetchUserInfo, SignInInv, CallbackInv
<1> QED
  BY <1>1, DirectoryStays DEF FetchUserInfo, AbstractSignIn!Prove

\* A create that the index accepts is the registration of a new user.
LEMMA PromiseRegistered ==
    ASSUME SignInInv, NEW c \in Call, NEW u \in User,
           stage[c] = "write", InsertUser(c, u), UNCHANGED <<claim, session>>
    PROVE  AbstractSignIn!Register(c)
<1> DEFINE Directory == [e \in Email |-> WithEmail(e)]
<1>1. claim[c] \in Email /\ email \in [User -> Email \cup {NoEmail}]
  BY DEF SignInInv, CallbackInv, SignInTypeOK
<1>2. Directory[claim[c]] = {}
  BY <1>1 DEF InsertUser, WithEmail
<1>3. ASSUME NEW e \in Email PROVE u \notin Directory[e]
  BY ConstantsAssumption, SignInAssumption DEF InsertUser, Exists, WithEmail
<1>4. Directory' = [Directory EXCEPT ![claim[c]] = {u}]
  <2>1. ASSUME NEW e \in Email, e # claim[c] PROVE WithEmail(e)' = WithEmail(e)
    BY <1>1, <2>1 DEF InsertUser, Exists, WithEmail
  <2>2. WithEmail(claim[c])' = {u}
    BY <1>1 DEF InsertUser, WithEmail
  <2> QED
    BY <1>1, <2>1, <2>2
<1> QED
  BY <1>1, <1>2, <1>3, <1>4 DEF AbstractSignIn!Register

\* The session is of the user of the email the callback resolved.
LEMMA PromiseSignedIn ==
    ASSUME SignInInv, NEW c \in Call, stage[c] \in {"upsert", "session"},
           session' = [session EXCEPT ![c] = user[c]], UNCHANGED <<email, claim>>
    PROVE  AbstractSignIn!SignIn(c)
<1>1. /\ user[c] \in User /\ Exists(user[c]) /\ email[user[c]] = claim[c]
      /\ session[c] = NoUser
      /\ claim[c] \in Email
  BY DEF SignInInv, CallbackInv, SignInTypeOK, Exists
<1>2. user[c] \in [e \in Email |-> WithEmail(e)][claim[c]]
  BY <1>1 DEF WithEmail
<1>3. claim[c] # NoEmail
  BY <1>1, SignInAssumption
<1> QED
  BY <1>1, <1>2, <1>3, DirectoryStays DEF AbstractSignIn!SignIn

LEMMA PromiseStep ==
    ASSUME SignInInv, [SignInNext]_vars
    PROVE  AbstractSignIn!IdentityNext \/ UNCHANGED AbstractSignIn!identityVars
<1>1. ASSUME NEW c \in Call, CallbackStep(c)
      PROVE  AbstractSignIn!IdentityNext \/ UNCHANGED AbstractSignIn!identityVars
  <2>1. CASE FetchUserInfo(c)
    BY <2>1, PromiseProved DEF AbstractSignIn!IdentityNext
  <2>2. CASE CreateUser(c)
    BY <2>2, PromiseRegistered DEF CreateUser, AbstractSignIn!IdentityNext
  <2>3. CASE CreateSession(c)
    BY <2>3, PromiseSignedIn
       DEF CreateSession, InsertSession, AbstractSignIn!IdentityNext
  <2>4. CASE UNCHANGED <<email, claim, session>>
    BY <2>4, PromiseStutters
  <2> QED
    BY <1>1, <2>1, <2>2, <2>3, <2>4
       DEF CallbackStep, RedeemCode, FindUser, UpdateUser, CreateUserRejected,
           UpsertStep, UpsertFailed, SetCookie, signInVars
<1>2. ASSUME NEW c \in Call, CallbackError(c)
      PROVE  AbstractSignIn!IdentityNext \/ UNCHANGED AbstractSignIn!identityVars
  <2>1. CASE stage[c] = "write" /\ (\E u \in User : InsertUser(c, u)) /\ session' = session
    BY <1>2, <2>1, PromiseRegistered DEF CallbackError, AbstractSignIn!IdentityNext
  <2>2. CASE /\ stage[c] \in {"upsert", "session"} /\ email' = email
             /\ session' = [session EXCEPT ![c] = user[c]]
    BY <1>2, <2>2, PromiseSignedIn DEF CallbackError, AbstractSignIn!IdentityNext
  <2>3. CASE UNCHANGED <<email, session>>
    BY <1>2, <2>3, PromiseStutters DEF CallbackError
  <2> QED
    BY <1>2, <2>1, <2>2, <2>3 DEF CallbackError
<1>3. CASE UNCHANGED <<email, claim, session>>
  BY <1>3, PromiseStutters
<1> QED
  BY <1>1, <1>2, <1>3 DEF SignInNext, UpsertError, vars, signInVars

\* Found or created, linked, failed or overtaken: the user a callback signs in is one of
\* the email it resolved (SameEmailSameUser: the one), as if found or created in one step
\* (callback-plugin.ts:161-246).
THEOREM SignInImplementsIdentity == SignInSpec => ImplementsSignIn
<1>1. SignInInit /\ SignInInv => AbstractSignIn!IdentityInit
  <2> SUFFICES ASSUME SignInInit, SignInInv PROVE AbstractSignIn!IdentityInit
    OBVIOUS
  <2>1. \A e \in Email : WithEmail(e) \subseteq User
    BY DEF WithEmail
  <2> QED
    BY <2>1 DEF SignInInit, SignInInv, SignInTypeOK, AbstractSignIn!IdentityInit
<1>2. SignInInv /\ [SignInNext]_vars
      => [AbstractSignIn!IdentityNext]_AbstractSignIn!identityVars
  BY PromiseStep
<1> QED
  BY <1>1, <1>2, SignInInvariant, PTL
     DEF SignInSpec, ImplementsSignIn, AbstractSignIn!IdentitySpec
=============================================================================
