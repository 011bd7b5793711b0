--------------------------- MODULE ProviderSignIn ---------------------------
(***************************************************************************)
(* Sign-in at the identity provider: the endpoint /sign-in/sigma and       *)
(* ensureBapOrganization, src/provider/index.ts.  A request carries a key  *)
(* (its signature already verified) and maybe a BAP id.  It resolves a     *)
(* user by key, by profile, or by creating one; lets the application       *)
(* register a BAP id; writes the BAP id's organization and its owner; and  *)
(* creates a session.  Requests interleave at every await.  The database   *)
(* and the application's resolveBAPId are external; user.pubkey, the BAP   *)
(* id of a profile and organization.id are unique.                         *)
(***************************************************************************)
EXTENDS Integers

CONSTANTS
    Call,       \* sign-in requests
    Key,        \* public keys that sign
    User,       \* user ids
    BapId,      \* BAP ids, which are organization ids too
    NoKey,      \* pubkey of a user that has none, or is not there
    NoUser,     \* no user
    NoBap       \* no BAP id

ASSUME ProviderAssumption ==
    /\ NoKey \notin Key
    /\ NoUser \notin User
    /\ NoBap \notin BapId
    /\ Key # {}

VARIABLES
    config,         \* the options of the plugin
    users,          \* the user table: the ids in use
    pubkey,         \* pubkey[u] : its column pubkey
    profile,        \* the application's profile table
    organization,   \* the organization table: the ids in use
    member,         \* the member table; every row has the role "owner"
    stage,          \* stage[c] : the await the request c is at, or how it ended
    key,            \* key[c] : the key that signed it
    bapId,          \* bapId[c] : the BAP id in its body
    user,           \* user[c] : the user it resolved
    org,            \* org[c] : the organization it is ensuring
    forClient,      \* forClient[c] : it is ensuring the one of its body
    ensured,        \* history: the organizations c has seen to
    fault,          \* history: an operation of c was answered with an error
    rethrown        \* history: the requests that were answered with a duplicate
                    \* key in a shape that the code does not recognise

tableVars == <<users, pubkey, profile, organization, member>>
callVars == <<stage, key, bapId, user, org, forClient, ensured, fault, rethrown>>
vars == <<config, tableVars, callVars>>

\* getPool is given; resolveBAPId too; organizations.ensureOnEnrollment; not
\* disableImplicitSignUp.
Config == {o \in [pool : BOOLEAN, resolver : BOOLEAN, ensureOnEnrollment : BOOLEAN,
                  implicitSignUp : BOOLEAN] : o.resolver => o.pool}
ProfileRow == [bapId : BapId, user : User, key : Key]
MemberRow == [org : BapId, user : User]

Awaiting == {"find", "findProfile", "create", "findAgain", "resolve", "findOrg",
             "createOrg", "createMember", "refresh", "session"}
Ended == {"signedIn", "refused", "failed"}

ProviderTypeOK ==
    /\ config \in Config
    /\ users \subseteq User
    /\ pubkey \in [User -> Key \cup {NoKey}]
    /\ profile \subseteq ProfileRow
    /\ organization \subseteq BapId
    /\ member \subseteq MemberRow
    /\ stage \in [Call -> Awaiting \cup Ended]
    /\ key \in [Call -> Key]
    /\ bapId \in [Call -> BapId \cup {NoBap}]
    /\ user \in [Call -> User \cup {NoUser}]
    /\ org \in [Call -> BapId \cup {NoBap}]
    /\ forClient \in [Call -> BOOLEAN]
    /\ ensured \in [Call -> SUBSET BapId]
    /\ fault \in [Call -> BOOLEAN]
    /\ rethrown \subseteq Call
    /\ \A c \in Call :
          stage[c] \in {"resolve", "findOrg", "createOrg", "createMember", "refresh",
                        "session", "signedIn"} => user[c] \in users

\* The profile table holds what the application has ever written to it: one key may
\* be in the profiles of several users.
ProviderInit ==
    /\ config \in Config
    /\ users \in SUBSET User
    /\ pubkey \in [User -> Key \cup {NoKey}]
    /\ \A u \in User : u \notin users => pubkey[u] = NoKey
    /\ \A u, v \in users : u # v /\ pubkey[u] = pubkey[v] => pubkey[u] = NoKey
    /\ profile \in SUBSET ProfileRow
    /\ \A row, other \in profile : row.bapId = other.bapId => row = other
    /\ \A row \in profile : row.user \in users
    /\ profile # {} => config.pool
    /\ organization = {}
    /\ member = {}
    /\ stage = [c \in Call |-> "find"]
    /\ key \in [Call -> Key]
    /\ bapId \in [Call -> BapId \cup {NoBap}]
    /\ user = [c \in Call |-> NoUser]
    /\ org = [c \in Call |-> NoBap]
    /\ forClient = [c \in Call |-> FALSE]
    /\ ensured = [c \in Call |-> {}]
    /\ fault = [c \in Call |-> FALSE]
    /\ rethrown = {}

Enter(c, next) == stage' = [stage EXCEPT ![c] = next]

\* The request goes on with the user u.
Resolved(c, u) ==
    /\ user' = [user EXCEPT ![c] = u]
    /\ Enter(c, "resolve")

WithKey(k) == {u \in users : pubkey[u] = k}

\* The users that profiles of the key name.
Named(k) == {row.user : row \in {r \in profile : r.key = k}}

----------------------------------------------------------------------------
(* Find or create the user by key                                          *)

\* Mutant of FindUser: the profiles are asked before the user table.
FindUserProfilesFirst(c) ==
    /\ stage[c] = "find"
    /\ \/ \E u \in Named(key[c]) : Resolved(c, u)
       \/ Named(key[c]) = {} /\ \E u \in WithKey(key[c]) : Resolved(c, u)
       \/ /\ Named(key[c]) \cup WithKey(key[c]) = {}
          /\ Enter(c, "findProfile")
          /\ UNCHANGED user
    /\ UNCHANGED <<config, tableVars, key, bapId, org, forClient, ensured, fault, rethrown>>

FindUser(c) ==
    /\ stage[c] = "find"
    /\ \/ \E u \in WithKey(key[c]) : Resolved(c, u)
       \/ /\ WithKey(key[c]) = {}
          /\ Enter(c, "findProfile")
          /\ UNCHANGED user
    /\ UNCHANGED <<config, tableVars, key, bapId, org, forClient, ensured, fault, rethrown>>

\* SELECT user_id FROM profile WHERE account_pubkey = ... LIMIT 1, if there is a pool:
\* any row of the key; a row's user is in the user table.  Nobody found: sign up, or 403 USER_NOT_FOUND.
FindProfile(c) ==
    /\ stage[c] = "findProfile"
    /\ \/ \E row \in profile :
             row.key = key[c] /\ config.pool /\ Resolved(c, row.user)
       \/ /\ config.pool => \A row \in profile : row.key # key[c]
          /\ Enter(c, IF config.implicitSignUp THEN "create" ELSE "refused")
          /\ UNCHANGED user
    /\ UNCHANGED <<config, tableVars, key, bapId, org, forClient, ensured, fault, rethrown>>

\* adapter.create(user, { pubkey, ... }), accepted by the unique index.
InsertUser(c, u) ==
    /\ u \notin users
    /\ WithKey(key[c]) = {}
    /\ users' = users \cup {u}
    /\ pubkey' = [pubkey EXCEPT ![u] = key[c]]
    /\ UNCHANGED <<profile, organization, member>>

\* A duplicate key whose code 23505 is not on the error itself (another database, or an
\* adapter that wraps the driver's error) is thrown on: the request ends.
Rethrown(c) ==
    /\ Enter(c, "failed")
    /\ rethrown' = rethrown \cup {c}

\* Mutant of CreateUser: no second look after a duplicate key.
CreateUserThrows(c) ==
    /\ stage[c] = "create"
    /\ \/ \E u \in User : InsertUser(c, u) /\ Resolved(c, u)
       \/ WithKey(key[c]) # {} /\ Enter(c, "failed") /\ UNCHANGED <<tableVars, user>>
    /\ UNCHANGED <<config, key, bapId, org, forClient, ensured, fault, rethrown>>

\* The user is created, or another request has created it first.
CreateUser(c) ==
    /\ stage[c] = "create"
    /\ \/ \E u \in User : InsertUser(c, u) /\ Resolved(c, u) /\ UNCHANGED rethrown
       \/ /\ WithKey(key[c]) # {}
          /\ Rethrown(c) \/ (Enter(c, "findAgain") /\ UNCHANGED rethrown)
          /\ UNCHANGED <<tableVars, user>>
    /\ UNCHANGED <<config, key, bapId, org, forClient, ensured, fault>>

\* The row that won is found, or the request ends ("User exists but cannot be found").
FindUserAgain(c) ==
    /\ stage[c] = "findAgain"
    /\ IF WithKey(key[c]) = {} THEN Enter(c, "failed") /\ UNCHANGED user
       ELSE \E u \in WithKey(key[c]) : Resolved(c, u)
    /\ UNCHANGED <<config, tableVars, key, bapId, org, forClient, ensured, fault, rethrown>>

----------------------------------------------------------------------------
(* The organizations of the BAP ids                                        *)

\* ensureBapOrganizationOnEnrollment(b): its first await, unless the application
\* creates organizations; `client` says which of the two places calls it.
Ensure(c, b, client) ==
    /\ org' = [org EXCEPT ![c] = b]
    /\ forClient' = [forClient EXCEPT ![c] = client]
    /\ IF config.ensureOnEnrollment THEN Enter(c, "findOrg")
       ELSE Enter(c, IF client THEN "session" ELSE "refresh")

\* On to the BAP id of the body, if there is one.
ClientBapId(c) ==
    \/ bapId[c] # NoBap /\ Ensure(c, bapId[c], TRUE)
    \/ bapId[c] = NoBap /\ Enter(c, "session") /\ UNCHANGED <<org, forClient>>

\* options.resolveBAPId(pool, user, key, true): the application knows the BAP id of
\* the key, or registers one for the user, or has none (external).  Without a
\* resolver the step is skipped.
ResolveBapId(c) ==
    /\ stage[c] = "resolve"
    /\ \/ /\ config.resolver
          /\ \E b \in BapId :
                /\ \A row \in profile : row.bapId = b => row.user = user[c]
                /\ profile' = IF \E row \in profile : row.bapId = b THEN profile
                              ELSE profile \cup
                                   {[bapId |-> b, user |-> user[c], key |-> key[c]]}
                /\ Ensure(c, b, FALSE)
       \/ ClientBapId(c) /\ UNCHANGED profile
    /\ UNCHANGED <<config, users, pubkey, organization, member, key, bapId, user,
                   ensured, fault, rethrown>>

\* ensureBapOrganization returns.
Returned(c) ==
    /\ Enter(c, IF forClient[c] THEN "session" ELSE "refresh")
    /\ ensured' = [ensured EXCEPT ![c] = @ \cup {org[c]}]

FindOrganization(c) ==
    /\ stage[c] = "findOrg"
    /\ \/ org[c] \in organization /\ Returned(c)
       \/ org[c] \notin organization /\ Enter(c, "createOrg") /\ UNCHANGED ensured
    /\ UNCHANGED <<config, tableVars, key, bapId, user, org, forClient, fault, rethrown>>

InsertOrganization(c) ==
    /\ org[c] \notin organization
    /\ organization' = organization \cup {org[c]}
    /\ UNCHANGED <<users, pubkey, profile, member>>

\* Mutant of CreateOrganization: the race is caught around the first write only.
CreateOrganizationAnyway(c) ==
    /\ stage[c] = "createOrg"
    /\ \/ InsertOrganization(c)
       \/ org[c] \in organization /\ UNCHANGED tableVars
    /\ Enter(c, "createMember")
    /\ UNCHANGED <<config, key, bapId, user, org, forClient, ensured, fault, rethrown>>

\* adapter.create(organization): written, or already there, which ends the function,
\* or the request.
CreateOrganization(c) ==
    /\ stage[c] = "createOrg"
    /\ \/ /\ InsertOrganization(c)
          /\ Enter(c, "createMember")
          /\ UNCHANGED <<ensured, rethrown>>
       \/ /\ org[c] \in organization
          /\ \/ Returned(c) /\ UNCHANGED rethrown
             \/ Rethrown(c) /\ UNCHANGED ensured
          /\ UNCHANGED tableVars
    /\ UNCHANGED <<config, key, bapId, user, org, forClient, fault>>

InsertMember(c) ==
    /\ member' = member \cup {[org |-> org[c], user |-> user[c]]}
    /\ UNCHANGED <<users, pubkey, profile, organization>>

CreateMember(c) ==
    /\ stage[c] = "createMember"
    /\ InsertMember(c)
    /\ Returned(c)
    /\ UNCHANGED <<config, key, bapId, user, org, forClient, fault, rethrown>>

\* The profile of the selected or primary BAP id refreshes the user's name and image.
RefreshUser(c) ==
    /\ stage[c] = "refresh"
    /\ ClientBapId(c)
    /\ UNCHANGED <<config, tableVars, key, bapId, user, ensured, fault, rethrown>>

----------------------------------------------------------------------------

CreateSession(c) ==
    /\ stage[c] = "session"
    /\ Enter(c, "signedIn")
    /\ UNCHANGED <<config, tableVars, key, bapId, user, org, forClient, ensured, fault,
                   rethrown>>

\* An operation is answered with an error, or the server dies: the request ends, and
\* a write may have been applied all the same.
CallError(c) ==
    /\ stage[c] \in Awaiting
    /\ \/ UNCHANGED tableVars
       \/ stage[c] = "create" /\ \E u \in User : InsertUser(c, u)
       \/ stage[c] = "createOrg" /\ InsertOrganization(c)
       \/ stage[c] = "createMember" /\ InsertMember(c)
    /\ Enter(c, "failed")
    /\ fault' = [fault EXCEPT ![c] = TRUE]
    /\ UNCHANGED <<config, key, bapId, user, org, forClient, ensured, rethrown>>

ProviderStep(c) ==
    \/ FindUser(c) \/ FindProfile(c) \/ CreateUser(c) \/ FindUserAgain(c)
    \/ ResolveBapId(c)
    \/ FindOrganization(c) \/ CreateOrganization(c) \/ CreateMember(c)
    \/ RefreshUser(c) \/ CreateSession(c)

ProviderNext == \E c \in Call : ProviderStep(c) \/ CallError(c)

ProviderSpec == ProviderInit /\ [][ProviderNext]_vars

----------------------------------------------------------------------------
(* Properties                                                              *)

\* The user that holds the key or, where profiles are read, those whose profiles name it.
UsersOfKey(k) ==
    IF WithKey(k) # {} THEN WithKey(k) ELSE IF config.pool THEN Named(k) ELSE {}

\* Nobody holds the key and the profiles of several users name it: which of them signs
\* in is the database's choice (provider/index.ts:940, LIMIT 1 without an order).
Ambiguous(k) == \E u, v \in UsersOfKey(k) : u # v

\* One key signs in one user, however the lookups and creates of its requests
\* interleave and whichever of them fail halfway, unless the key is ambiguous.
SameKeySameUser ==
    \A c, d \in Call :
        stage[c] = "signedIn" /\ stage[d] = "signedIn" /\ key[c] = key[d]
        => user[c] = user[d] \/ Ambiguous(key[c])

\* "Each BAP identity maps to an organization with the user as sole owner"
\* (provider/index.ts:181), the half that holds: never two owners, and none of an
\* organization that is not there.
SoleOwner ==
    /\ \A m \in member : m.org \in organization
    /\ \A m, n \in member : m.org = n.org => m = n

\* provider/index.ts:182, "Handles race conditions (duplicate key) gracefully", and
\* the same for users (981-1000): a request none of whose operations was answered with
\* another error fails because of the requests beside it only if the duplicate key it
\* met did not carry the code that 232-237 and 982-987 look for.
RaceFailsNobody == \A c \in Call : stage[c] = "failed" => fault[c] \/ c \in rethrown

\* provider/index.ts:180-181, "Ensure an organization + member record exists for a BAP
\* identity": when a request has ensured an organization, and no request is between
\* its two writes, the organization has an owner.
EnsuredIsOwned ==
    \A c \in Call : \A b \in ensured[c] :
        \/ \E m \in member : m.org = b
        \/ \E d \in Call : stage[d] = "createMember" /\ org[d] = b

----------------------------------------------------------------------------
(* The requests implement IdentitySignIn, the credential a key             *)

AbstractSignIn == INSTANCE IdentitySignIn
    WITH Credential <- Key,
         NoCredential <- NoKey,
         owners <- [k \in Key |-> UsersOfKey(k)],
         proved <- key,
         signedIn <- [c \in Call |-> IF stage[c] = "signedIn" THEN user[c] ELSE NoUser]

\* Whether its user is found by key, by profile or after a lost race, a request signs
\* in a user of its key (provider/index.ts:929-1000); a key gets a user only when it
\* has none, a new one, and is never handed on to another or given a second.
ImplementsSignIn == AbstractSignIn!IdentitySpec
=============================================================================
