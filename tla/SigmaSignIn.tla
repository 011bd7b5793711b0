---------------------------- MODULE SigmaSignIn ----------------------------
(***************************************************************************)
(* The sign-in callback: sigmaCallbackPlugin (server/callback-plugin.ts)   *)
(* createBetterAuthCallbackHandler (next/index.ts) and                     *)
(* createPayloadCallbackHandler (payload/index.ts), with default lookups.  *)
(* A callback exchanges its authorization code, resolves a user by email,  *)
(* runs upsertSigmaAccount (module SigmaAccount, whose actions it takes    *)
(* over; not in Payload), creates a session row and signs its cookie.      *)
(* Callbacks interleave at every await.  The authorization server and the  *)
(* database are external; the users have a unique index on email.          *)
(***************************************************************************)
EXTENDS SigmaAccount

CONSTANTS
    Email,              \* emails a callback resolves to: the token's, or a
                        \* synthetic one made of the BAP id or the subject
    NoEmail,            \* the email of a user id not in use
    InitUser            \* the users registered before the first callback

ASSUME SignInAssumption ==
    /\ NoEmail \notin Email
    /\ InitUser \subseteq User

VARIABLES
    handler,        \* which callback is deployed, see Handler
    email,          \* the user table: email[u], NoEmail where there is no user u
    stage,          \* stage[c] : the await the callback c is at, or how it ended
    grant,          \* grant[c] : the subject the code of c was issued to
    burned,         \* burned[c] : the authorization server has redeemed the code
    claim,          \* claim[c] : the email c resolved from the user info
    user,           \* user[c] : the user c looked up, then the one it signs in
    isNewUser,      \* isNewUser[c] : as in the response
    session,        \* session[c] : the user of the session row c created
    fault           \* history: an operation of c was answered with an error

signInVars ==
    <<handler, email, stage, grant, burned, claim, user, isNewUser,
      session, fault>>
vars == <<accountVars, signInVars>>

\* The plugin and the Next.js handler create missing users, unless the latter is
\* given disableImplicitSignUp; the Payload handler does and keeps no account row.
Handler == {"signUp", "noSignUp", "payload"}

Pending == {"token", "userinfo", "lookup", "write", "upsert", "session", "cookie"}
Ended == {"signedIn", "refused", "failed"}

SignInTypeOK ==
    /\ TypeOK
    /\ handler \in Handler
    /\ email \in [User -> Email \cup {NoEmail}]
    /\ stage \in [Call -> Pending \cup Ended]
    /\ grant \in [Call -> Subject]
    /\ burned \in [Call -> BOOLEAN]
    /\ claim \in [Call -> Email \cup {NoEmail}]
    /\ user \in [Call -> User \cup {NoUser}]
    /\ isNewUser \in [Call -> BOOLEAN]
    /\ session \in [Call -> User \cup {NoUser}]
    /\ fault \in [Call -> BOOLEAN]

Exists(u) == email[u] # NoEmail

Enter(c, next) == stage' = [stage EXCEPT ![c] = next]

SignInInit ==
    /\ Init
    /\ handler \in Handler
    /\ email \in [User -> Email \cup {NoEmail}]
    /\ \A u \in User : Exists(u) <=> u \in InitUser
    /\ \A u, v \in InitUser : u # v => email[u] # email[v]
    /\ \A i \in RowId : Present(account, i) => Exists(account[i].userId)
    /\ stage = [c \in Call |-> "token"]
    /\ grant \in [Call -> Subject]
    /\ burned = [c \in Call |-> FALSE]
    /\ claim = [c \in Call |-> NoEmail]
    /\ user = [c \in Call |-> NoUser]
    /\ isNewUser = [c \in Call |-> FALSE]
    /\ session = [c \in Call |-> NoUser]
    /\ fault = [c \in Call |-> FALSE]

----------------------------------------------------------------------------
(* exchangeCodeForTokens, server/index.ts                                  *)

\* POST /oauth2/token redeems the code.
RedeemCode(c) ==
    /\ stage[c] = "token"
    /\ burned' = [burned EXCEPT ![c] = TRUE]
    /\ Enter(c, "userinfo")
    /\ UNCHANGED <<handler, email, grant, claim, user, isNewUser, session,
                   fault>>
    /\ UNCHANGED accountVars

\* GET /oauth2/userinfo: the profile decides the email.
FetchUserInfo(c) ==
    /\ stage[c] = "userinfo"
    /\ \E e \in Email : claim' = [claim EXCEPT ![c] = e]
    /\ Enter(c, "lookup")
    /\ UNCHANGED <<handler, email, grant, burned, user, isNewUser, session,
                   fault>>
    /\ UNCHANGED accountVars

----------------------------------------------------------------------------
(* Find or create the user                                                 *)

\* Mutant of FindUser: the user is looked up by the subject's account before the
\* email, as a handler that trusts the link would.
FindUserByAccount(c) ==
    /\ stage[c] = "lookup"
    /\ \/ \E i \in IdentityRows(grant[c]) :
             user' = [user EXCEPT ![c] = account[i].userId]
       \/ /\ IdentityRows(grant[c]) = {}
          /\ \/ \E u \in User :
                   /\ email[u] = claim[c]
                   /\ user' = [user EXCEPT ![c] = u]
             \/ /\ \A u \in User : email[u] # claim[c]
                /\ handler # "noSignUp"
                /\ UNCHANGED user
    /\ Enter(c, "write")
    /\ UNCHANGED <<handler, email, grant, burned, claim, isNewUser, session,
                   fault>>
    /\ UNCHANGED accountVars

\* adapter.findMany / findOne, payload.find by email; without a match a handler
\* given disableImplicitSignUp answers 403 USER_NOT_FOUND.
FindUser(c) ==
    /\ stage[c] = "lookup"
    /\ \/ \E u \in User :
             /\ email[u] = claim[c]
             /\ user' = [user EXCEPT ![c] = u]
             /\ Enter(c, IF handler = "payload" THEN "session" ELSE "write")
       \/ /\ \A u \in User : email[u] # claim[c]
          /\ Enter(c, IF handler = "noSignUp" THEN "refused" ELSE "write")
          /\ UNCHANGED user
    /\ UNCHANGED <<handler, email, grant, burned, claim, isNewUser, session,
                   fault>>
    /\ UNCHANGED accountVars

\* The user is resolved: the callback calls upsertSigmaAccount for it, the Payload
\* handler goes straight to the session.
Resolve(c, u) ==
    \/ /\ handler # "payload"
       /\ Start(c, [subject |-> grant[c], user |-> u])
       /\ Enter(c, "upsert")
    \/ /\ handler = "payload"
       /\ Enter(c, "session")
       /\ UNCHANGED accountVars

\* adapter.update(user, { name, image }): the profile is refreshed.
UpdateUser(c) ==
    /\ stage[c] = "write"
    /\ user[c] # NoUser
    /\ Resolve(c, user[c])
    /\ UNCHANGED <<handler, email, grant, burned, claim, user, isNewUser, session,
                   fault>>

\* adapter.create(user, { email, ... }) by the callback c: the database generates
\* the id u, and its unique index on email rejects a second user of that email.
InsertUser(c, u) ==
    /\ ~Exists(u)
    /\ \A v \in User : email[v] # claim[c]
    /\ email' = [email EXCEPT ![u] = claim[c]]

CreateUser(c) ==
    /\ stage[c] = "write"
    /\ user[c] = NoUser
    /\ \E u \in User :
          /\ InsertUser(c, u)
          /\ user' = [user EXCEPT ![c] = u]
          /\ isNewUser' = [isNewUser EXCEPT ![c] = TRUE]
          /\ Resolve(c, u)
    /\ UNCHANGED <<handler, grant, burned, claim, session, fault>>

\* Mutant of CreateUserRejected: the user that won the race is adopted by the branch
\* that goes on to announce a new user.
CreateUserAdopted(c) ==
    /\ stage[c] = "write"
    /\ user[c] = NoUser
    /\ \E v \in User :
          /\ email[v] = claim[c]
          /\ user' = [user EXCEPT ![c] = v]
          /\ isNewUser' = [isNewUser EXCEPT ![c] = TRUE]
          /\ Resolve(c, v)
    /\ UNCHANGED <<handler, email, grant, burned, claim, session, fault>>

\* The create is rejected by the unique index: the handler has no catch for it, so
\* the error ends the request (500).
CreateUserRejected(c) ==
    /\ stage[c] = "write"
    /\ user[c] = NoUser
    /\ \E v \in User : email[v] = claim[c]
    /\ Enter(c, "failed")
    /\ UNCHANGED <<handler, email, grant, burned, claim, user, isNewUser, session,
                   fault>>
    /\ UNCHANGED accountVars

----------------------------------------------------------------------------
(* The account and the session                                             *)

\* The callback's own upsert call makes a step.
UpsertStep(c) ==
    /\ Step(c)
    /\ UNCHANGED signInVars

UpsertError(c) ==
    /\ DriverError(c)
    /\ fault' = [fault EXCEPT ![c] = TRUE]
    /\ UNCHANGED <<handler, email, stage, grant, burned, claim, user, isNewUser,
                   session>>

\* Mutant of UpsertFailed: only SigmaAccountConflictError is handled.
UpsertConflictOnly(c) ==
    /\ stage[c] = "upsert"
    /\ pc[c] = "conflict"
    /\ Enter(c, "failed")
    /\ UNCHANGED <<handler, email, grant, burned, claim, user, isNewUser,
                   session, fault>>
    /\ UNCHANGED accountVars

\* upsertSigmaAccount threw: the request ends with an error.
UpsertFailed(c) ==
    /\ stage[c] = "upsert"
    /\ pc[c] \in Failed
    /\ Enter(c, "failed")
    /\ UNCHANGED <<handler, email, grant, burned, claim, user, isNewUser, session,
                   fault>>
    /\ UNCHANGED accountVars

\* internalAdapter.createSession(user.id) by the callback c, once the account is
\* settled as `Settled` says.
InsertSession(c, Settled) ==
    /\ \/ stage[c] = "upsert" /\ pc[c] \in Settled
       \/ stage[c] = "session"
    /\ session' = [session EXCEPT ![c] = user[c]]
    /\ Enter(c, "cookie")
    /\ UNCHANGED <<handler, email, grant, burned, claim, user, isNewUser, fault>>
    /\ UNCHANGED accountVars

\* Mutant of CreateSession: a failed account write does not stop the sign-in.
CreateSessionAnyway(c) == InsertSession(c, Failed \cup {"done"})

\* Mutant of CreateSession: the session is of whoever the account row, read again,
\* belongs to by now.
CreateSessionOfOwner(c) ==
    /\ stage[c] = "upsert"
    /\ pc[c] = "done"
    /\ \E i \in IdentityRows(grant[c]) :
          session' = [session EXCEPT ![c] = account[i].userId]
    /\ Enter(c, "cookie")
    /\ UNCHANGED <<handler, email, grant, burned, claim, user, isNewUser, fault>>
    /\ UNCHANGED accountVars

CreateSession(c) == InsertSession(c, {"done"})

\* The session token is signed (signSessionCookieValue, setSessionCookie) and the
\* response hands out the cookie.
SetCookie(c) ==
    /\ stage[c] = "cookie"
    /\ Enter(c, "signedIn")
    /\ UNCHANGED <<handler, email, grant, burned, claim, user, isNewUser, session,
                   fault>>
    /\ UNCHANGED accountVars

\* An operation of the callback outside the upsert is answered with an error, or
\* its answer is lost, or the cookie cannot be signed: the request ends.  The code
\* may have been redeemed, and the user or the session row inserted, all the same;
\* no cookie is handed out.
CallbackError(c) ==
    /\ \/ stage[c] = "token" /\ burned' \in {burned, [burned EXCEPT ![c] = TRUE]}
          /\ UNCHANGED <<email, session>>
       \/ stage[c] \in {"userinfo", "lookup", "write", "cookie"}
          /\ UNCHANGED <<email, burned, session>>
       \/ stage[c] = "write" /\ user[c] = NoUser
          /\ \E u \in User : InsertUser(c, u)
          /\ UNCHANGED <<burned, session>>
       \/ /\ stage[c] = "session" \/ (stage[c] = "upsert" /\ pc[c] = "done")
          /\ session' \in {session, [session EXCEPT ![c] = user[c]]}
          /\ UNCHANGED <<email, burned>>
    /\ Enter(c, "failed")
    /\ fault' = [fault EXCEPT ![c] = TRUE]
    /\ UNCHANGED <<handler, grant, claim, user, isNewUser>>
    /\ UNCHANGED accountVars

CallbackStep(c) ==
    \/ RedeemCode(c)
    \/ FetchUserInfo(c)
    \/ FindUser(c)
    \/ UpdateUser(c)
    \/ CreateUser(c)
    \/ CreateUserRejected(c)
    \/ UpsertStep(c)
    \/ UpsertFailed(c)
    \/ CreateSession(c)
    \/ SetCookie(c)

SignInNext ==
    \/ \E c \in Call : CallbackStep(c)
    \/ \E c \in Call : UpsertError(c)
    \/ \E c \in Call : CallbackError(c)
    \/ \E i \in RowId : Unlink(i) /\ UNCHANGED signInVars

\* Every operation a callback awaits is answered.
SignInSpec ==
    SignInInit /\ [][SignInNext]_vars /\ \A c \in Call : WF_vars(CallbackStep(c))

----------------------------------------------------------------------------
(* Properties                                                              *)

\* Two sign-ins that resolve the same email are sign-ins of the same user, however
\* their lookups and creates interleave: nobody is split into two users.
SameEmailSameUser ==
    \A c, d \in Call :
        /\ stage[c] = "signedIn" /\ stage[d] = "signedIn"
        /\ claim[c] = claim[d]
        => session[c] = session[d]

\* A session row exists only for a user whose email the redeemed code resolved to
\* and, outside Payload, to whom this callback's own write has linked the subject of
\* the code (callback-plugin.ts:225-237: the upsert is awaited before the session is
\* created, and its failure leaves none).
SessionIsLinked ==
    \A c \in Call :
        session[c] # NoUser =>
            /\ stage[c] \in {"cookie", "signedIn", "failed"}
            /\ burned[c]
            /\ email[session[c]] = claim[c]
            /\ handler # "payload" =>
                  /\ wrote[c] # "nothing"
                  /\ request[c] = [subject |-> grant[c], user |-> session[c]]

\* A new user is announced (isNewUser, callback-plugin.ts:259) by one callback at
\* most, so an application that provisions on it does so once.
NewUserOnce ==
    \A c, d \in Call : isNewUser[c] /\ isNewUser[d] /\ user[c] = user[d] => c = d

\* Every callback ends: signed in, refused or failed.
EverySignInEnds == \A c \in Call : <>(stage[c] \in Ended)

\* account-record.ts:288-291 says of a lost create race that it is retried "rather
\* than failing a sign-in that has already burned its authorization code".  A
\* sign-in none of whose operations was answered with an error by the database or
\* the authorization server fails only if its account upsert gave up.
RaceFailsNoSignIn ==
    \A c \in Call : stage[c] = "failed" /\ burned[c] => fault[c] \/ pc[c] = "conflict"

----------------------------------------------------------------------------
(* The callbacks implement IdentitySignIn, the credential an email         *)

WithEmail(e) == {u \in User : email[u] = e}

AbstractSignIn == INSTANCE IdentitySignIn
    WITH Credential <- Email,
         NoCredential <- NoEmail,
         owners <- [e \in Email |-> WithEmail(e)],
         proved <- claim,
         signedIn <- session

\* Though its lookup, its create and its session are separate operations, and any of
\* them may fail or lose a race, a callback signs in the user of the email it resolved
\* (callback-plugin.ts:161-246), and only a resolved email without a user gets one.
ImplementsSignIn == AbstractSignIn!IdentitySpec
=============================================================================
