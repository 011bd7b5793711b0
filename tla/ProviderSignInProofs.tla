------------------------- MODULE ProviderSignInProofs -------------------------
(***************************************************************************)
(* The invariants of the provider's sign-in, for any number of requests,   *)
(* keys, users, BAP ids and profiles.  Inductive with them are: a key has  *)
(* one holder (KeyInv), a row of the profile table names the holder of its *)
(* key where a request may still read it beside one (ProfileInv), a        *)
(* request has a user of its key (ResolvedInv), and the writer of an       *)
(* organization is alone with it until it has written the owner (OwnerInv).*)
(***************************************************************************)
EXTENDS ProviderSignIn, TLAPS

Holds(u, k) == u \in users /\ pubkey[u] = k
Held(k) == \E u \in users : pubkey[u] = k

KeyInv ==
    /\ \A u \in User : u \notin users => pubkey[u] = NoKey
    /\ \A u, v \in users : pubkey[u] = pubkey[v] /\ pubkey[u] # NoKey => u = v

\* Where the profile table is read at all: a request that goes to it finds the holder
\* there, if one has come meanwhile; and one that has found nobody there finds a holder
\* if a row has come meanwhile.
ProfileInv ==
    /\ \A row \in profile : row.user \in users
    /\ config.pool =>
          /\ \A c \in Call : \A row \in profile :
                stage[c] = "findProfile" /\ row.key = key[c] /\ Held(key[c])
                    => Holds(row.user, key[c])
          /\ \A c \in Call : \A row \in profile :
                stage[c] \in {"create", "findAgain"} /\ row.key = key[c] => Held(key[c])

HasUser == {"resolve", "findOrg", "createOrg", "createMember", "refresh", "session",
            "signedIn"}

\* The request has the user that holds its key, or one that a profile of it names.
UserIsOfKey(c) ==
    \/ Holds(user[c], key[c])
    \/ /\ ~ Held(key[c])
       /\ config.pool
       /\ \E row \in profile : row.key = key[c] /\ row.user = user[c]

ResolvedInv ==
    /\ \A c \in Call : stage[c] \in HasUser => UserIsOfKey(c)
    /\ \A c \in Call : stage[c] = "findAgain" => Held(key[c])

OwnerInv ==
    /\ \A c \in Call :
          /\ stage[c] \in {"findOrg", "createOrg", "createMember"} => org[c] \in BapId
          /\ stage[c] = "createMember" =>
                /\ org[c] \in organization
                /\ \A m \in member : m.org # org[c]
    /\ \A c, d \in Call :
          stage[c] = "createMember" /\ stage[d] = "createMember" /\ org[c] = org[d]
          => c = d

ProviderInv ==
    /\ ProviderTypeOK
    /\ KeyInv
    /\ ProfileInv
    /\ ResolvedInv
    /\ OwnerInv
    /\ SoleOwner
    /\ RaceFailsNobody

\* One key signs in one user: the user that holds it, or the one in its profiles, if it
\* is not ambiguous.
LEMMA OneUserPerKey == ProviderInv => SameKeySameUser
  BY ProviderAssumption
  DEF ProviderInv, ProviderTypeOK, KeyInv, ProfileInv, ResolvedInv, UserIsOfKey, Holds,
      Held, HasUser, SameKeySameUser, Ambiguous, UsersOfKey, Named, WithKey

\* The invariant holds at first.
LEMMA ProviderInitInv == ProviderInit => ProviderInv
<1> SUFFICES ASSUME ProviderInit
             PROVE  ProviderInv
  OBVIOUS
<1>1. ProviderTypeOK
  BY DEF ProviderInit, ProviderTypeOK, Awaiting
<1>2. KeyInv
  BY DEF ProviderInit, KeyInv
<1>3. ProfileInv
  BY DEF ProviderInit, ProfileInv
<1>4. ResolvedInv /\ OwnerInv /\ SoleOwner /\ RaceFailsNobody
  BY DEF ProviderInit, ResolvedInv, OwnerInv, SoleOwner, RaceFailsNobody, HasUser
<1> QED
  BY <1>1, <1>2, <1>3, <1>4 DEF ProviderInv

\* A step that leaves the tables and the users of the requests alone, and goes to a
\* stage it is entitled to, keeps what is known of keys, profiles and users.
LEMMA QuietStep ==
    ASSUME ProviderInv, NEW c \in Call, NEW next,
           Enter(c, next),
           stage[c] \in HasUser \/ next \in {"refused", "failed"},
           next \in HasUser \cup {"refused", "failed"},
           UNCHANGED <<config, users, pubkey, profile, key, user>>
    PROVE  KeyInv' /\ ProfileInv' /\ ResolvedInv'
<1> USE DEF ProviderInv, ProviderTypeOK, Enter, HasUser
<1>1. KeyInv'
  BY DEF KeyInv
<1>2. ProfileInv'
  BY DEF ProfileInv, Holds, Held
<1>3. ResolvedInv'
  BY DEF ResolvedInv, UserIsOfKey, Holds, Held
<1> QED
  BY <1>1, <1>2, <1>3

\* A step that is not about organizations keeps what is known of them.
LEMMA OrganizationsAlone ==
    ASSUME ProviderInv, NEW c \in Call, NEW next,
           Enter(c, next),
           next \notin {"findOrg", "createOrg", "createMember"},
           UNCHANGED <<organization, member>>,
           \A d \in Call : d # c => org'[d] = org[d]
    PROVE  OwnerInv' /\ SoleOwner'
  BY DEF ProviderInv, ProviderTypeOK, Enter, OwnerInv, SoleOwner

\* Going on with the BAP id of the body keeps the types of what it assigns.
LEMMA ClientBapIdStep ==
    ASSUME ProviderInv, NEW c \in Call, ClientBapId(c)
    PROVE  org' \in [Call -> BapId \cup {NoBap}] /\ forClient' \in [Call -> BOOLEAN]
<1>1. CASE bapId[c] # NoBap /\ Ensure(c, bapId[c], TRUE)
  <2>1. bapId[c] \in BapId
    BY <1>1 DEF ProviderInv, ProviderTypeOK
  <2>2. org' = [org EXCEPT ![c] = bapId[c]] /\ forClient' = [forClient EXCEPT ![c] = TRUE]
    BY <1>1 DEF Ensure
  <2> QED
    BY <2>1, <2>2 DEF ProviderInv, ProviderTypeOK
<1>2. CASE UNCHANGED <<org, forClient>>
  BY <1>2 DEF ProviderInv, ProviderTypeOK
<1> QED
  BY <1>1, <1>2 DEF ClientBapId

\* A new user keeps what is known of keys, profiles and users.
LEMMA NewUser ==
    ASSUME ProviderInv, NEW c \in Call, NEW u \in User, NEW next,
           stage[c] = "create",
           InsertUser(c, u),
           Enter(c, next),
           next \in {"resolve", "failed"},
           \A d \in Call : d # c => user'[d] = user[d],
           next = "resolve" => user'[c] = u,
           UNCHANGED <<config, key>>
    PROVE  KeyInv' /\ ProfileInv' /\ ResolvedInv'
<1> USE DEF ProviderInv, ProviderTypeOK, Enter, InsertUser, WithKey
<1>1. KeyInv'
  BY DEF KeyInv
<1>2. ProfileInv'
  BY DEF ProfileInv, Holds, Held, ProfileRow
<1>3. ResolvedInv'
  BY DEF ResolvedInv, UserIsOfKey, Holds, Held, HasUser, ProfileInv
<1> QED
  BY <1>1, <1>2, <1>3

\* Every step keeps the invariant.
LEMMA ProviderStepInv == ProviderInv /\ [ProviderNext]_vars => ProviderInv'
<1> SUFFICES ASSUME ProviderInv, [ProviderNext]_vars
             PROVE  ProviderInv'
  OBVIOUS
<1> USE ProviderAssumption
<1>1. CASE UNCHANGED vars
  <2>1. ProviderTypeOK' /\ KeyInv'
    BY <1>1 DEF vars, tableVars, callVars, ProviderInv, ProviderTypeOK, KeyInv
  <2>2. ProfileInv' /\ ResolvedInv'
    BY <1>1 DEF vars, tableVars, callVars, ProviderInv, ProfileInv, ResolvedInv,
                UserIsOfKey, Holds, Held
  <2>3. OwnerInv' /\ SoleOwner' /\ RaceFailsNobody'
    BY <1>1 DEF vars, tableVars, callVars, ProviderInv, OwnerInv, SoleOwner,
                RaceFailsNobody
  <2> QED
    BY <2>1, <2>2, <2>3 DEF ProviderInv
<1>2. ASSUME NEW c \in Call, FindUser(c)
      PROVE  ProviderInv'
  <2> USE <1>2 DEF FindUser, Resolved, Enter, WithKey, tableVars
  <2>1. ProviderTypeOK' /\ RaceFailsNobody'
    BY DEF ProviderInv, ProviderTypeOK, Awaiting, Ended, RaceFailsNobody
  <2>2. KeyInv' /\ ProfileInv'
    BY DEF ProviderInv, ProviderTypeOK, KeyInv, ProfileInv, Holds, Held
  <2>3. ResolvedInv'
    BY DEF ProviderInv, ProviderTypeOK, ResolvedInv, UserIsOfKey, Holds, Held, HasUser
  <2>4. OwnerInv' /\ SoleOwner'
    BY OrganizationsAlone
  <2> QED
    BY <2>1, <2>2, <2>3, <2>4 DEF ProviderInv
<1>3. ASSUME NEW c \in Call, FindProfile(c)
      PROVE  ProviderInv'
  <2> USE <1>3 DEF FindProfile, Resolved, Enter, tableVars
  <2>1. ProviderTypeOK' /\ RaceFailsNobody'
    BY DEF ProviderInv, ProviderTypeOK, ProfileInv, ProfileRow, Awaiting, Ended,
           RaceFailsNobody
  <2>2. KeyInv' /\ ProfileInv'
    BY DEF ProviderInv, ProviderTypeOK, KeyInv, ProfileInv, Holds, Held
  <2>3. ResolvedInv'
    BY DEF ProviderInv, ProviderTypeOK, ProfileInv, ResolvedInv, UserIsOfKey, Holds, Held,
           HasUser
  <2>4. OwnerInv' /\ SoleOwner'
    BY OrganizationsAlone
  <2> QED
    BY <2>1, <2>2, <2>3, <2>4 DEF ProviderInv
<1>4. ASSUME NEW c \in Call, CreateUser(c)
      PROVE  ProviderInv'
  <2> USE <1>4 DEF CreateUser, Resolved, Enter
  <2>1. CASE \E u \in User : InsertUser(c, u) /\ Resolved(c, u)
    <3>1. PICK u \in User : InsertUser(c, u) /\ Resolved(c, u)
      BY <2>1
    <3>2. ProviderTypeOK' /\ RaceFailsNobody'
      BY <3>1 DEF InsertUser, ProviderInv, ProviderTypeOK, Awaiting, Ended,
                  RaceFailsNobody
    <3>3. KeyInv' /\ ProfileInv' /\ ResolvedInv'
      BY <3>1, NewUser, user'[c] = u DEF ProviderInv, ProviderTypeOK
    <3>4. OwnerInv' /\ SoleOwner'
      BY <3>1, OrganizationsAlone DEF InsertUser
    <3> QED
      BY <3>2, <3>3, <3>4 DEF ProviderInv
  <2>2. CASE /\ WithKey(key[c]) # {} /\ Enter(c, "findAgain")
             /\ UNCHANGED <<tableVars, user, rethrown>>
    <3> USE <2>2 DEF WithKey, tableVars
    <3>1. ProviderTypeOK' /\ RaceFailsNobody'
      BY DEF ProviderInv, ProviderTypeOK, Awaiting, Ended, RaceFailsNobody
    <3>2. KeyInv' /\ ProfileInv'
      BY DEF ProviderInv, ProviderTypeOK, KeyInv, ProfileInv, Holds, Held
    <3>3. ResolvedInv'
      BY DEF ProviderInv, ProviderTypeOK, ResolvedInv, UserIsOfKey, Holds, Held, HasUser
    <3>4. OwnerInv' /\ SoleOwner'
      BY OrganizationsAlone
    <3> QED
      BY <3>1, <3>2, <3>3, <3>4 DEF ProviderInv
  <2>3. CASE Rethrown(c) /\ UNCHANGED <<tableVars, user>>
    <3> USE <2>3 DEF Rethrown, tableVars
    <3>1. ProviderTypeOK' /\ RaceFailsNobody'
      BY DEF ProviderInv, ProviderTypeOK, Awaiting, Ended, RaceFailsNobody
    <3>2. KeyInv' /\ ProfileInv' /\ ResolvedInv'
      BY QuietStep
    <3>3. OwnerInv' /\ SoleOwner'
      BY OrganizationsAlone
    <3> QED
      BY <3>1, <3>2, <3>3 DEF ProviderInv
  <2> QED
    BY <2>1, <2>2, <2>3
<1>5. ASSUME NEW c \in Call, FindUserAgain(c)
      PROVE  ProviderInv'
  <2> USE <1>5 DEF FindUserAgain, Resolved, Enter, WithKey, tableVars
  <2>0. Held(key[c])
    BY DEF ProviderInv, ResolvedInv
  <2>1. ProviderTypeOK' /\ RaceFailsNobody'
    BY <2>0 DEF ProviderInv, ProviderTypeOK, Held, Awaiting, Ended, RaceFailsNobody
  <2>2. KeyInv' /\ ProfileInv'
    BY <2>0 DEF ProviderInv, ProviderTypeOK, KeyInv, ProfileInv, Holds, Held
  <2>3. ResolvedInv'
    BY <2>0 DEF ProviderInv, ProviderTypeOK, ResolvedInv, UserIsOfKey, Holds, Held, HasUser
  <2>4. OwnerInv' /\ SoleOwner'
    BY OrganizationsAlone
  <2> QED
    BY <2>1, <2>2, <2>3, <2>4 DEF ProviderInv
<1>6. ASSUME NEW c \in Call, ResolveBapId(c)
      PROVE  ProviderInv'
  <2> USE <1>6 DEF ResolveBapId, ClientBapId, Ensure, Enter
  <2>1. UserIsOfKey(c) /\ user[c] \in users
    BY DEF ProviderInv, ProviderTypeOK, ResolvedInv, HasUser
  <2>2. /\ profile \subseteq profile'
        /\ \A row \in profile' : \/ row \in profile
                                 \/ /\ row \in ProfileRow
                                    /\ row.user = user[c] /\ row.key = key[c]
                                    /\ config.resolver
    <3>1. CASE profile' = profile
      BY <3>1
    <3>2. ASSUME NEW b \in BapId, config.resolver,
                 profile' = profile \cup {[bapId |-> b, user |-> user[c], key |-> key[c]]}
          PROVE  <2>2!:
      BY <2>1, <3>2 DEF ProviderInv, ProviderTypeOK, ProfileRow
    <3> QED
      BY <3>1, <3>2
  <2>3. PICK next \in {"findOrg", "refresh", "session"} : Enter(c, next)
    OBVIOUS
  <2>4. ProviderTypeOK' /\ RaceFailsNobody'
    <3>1. profile' \subseteq ProfileRow
      BY <2>2 DEF ProviderInv, ProviderTypeOK
    <3>2. org' \in [Call -> BapId \cup {NoBap}] /\ forClient' \in [Call -> BOOLEAN]
      <4>1. CASE ClientBapId(c)
        BY <4>1, ClientBapIdStep
      <4>2. ASSUME NEW b \in BapId, Ensure(c, b, FALSE)
            PROVE  <3>2!:
        BY <4>2 DEF ProviderInv, ProviderTypeOK
      <4> QED
        BY <4>1, <4>2
    <3>3. stage' = [stage EXCEPT ![c] = next]
      BY <2>3
    <3> QED
      BY <3>1, <3>2, <3>3, <2>1 DEF ProviderInv, ProviderTypeOK, Awaiting, Ended,
                                    RaceFailsNobody
  <2>5. KeyInv'
    BY DEF ProviderInv, KeyInv
  <2>6. ProfileInv'
    <3>1. stage' = [stage EXCEPT ![c] = next]
      BY <2>3
    <3> QED
      BY <2>1, <2>2, <2>3, <3>1
      DEF ProviderInv, ProviderTypeOK, ProfileInv, UserIsOfKey, Holds, Held, Config
  <2>7. ResolvedInv'
    BY <2>1, <2>2, <2>3
    DEF ProviderInv, ProviderTypeOK, ResolvedInv, UserIsOfKey, Holds, Held, HasUser
  <2>8. OwnerInv' /\ SoleOwner'
    BY DEF ProviderInv, ProviderTypeOK, OwnerInv, SoleOwner
  <2> QED
    BY <2>4, <2>5, <2>6, <2>7, <2>8 DEF ProviderInv
<1>7. ASSUME NEW c \in Call,
             FindOrganization(c) \/ CreateOrganization(c) \/ CreateMember(c)
      PROVE  ProviderInv'
  <2> USE <1>7 DEF FindOrganization, CreateOrganization, CreateMember, Returned,
                   Rethrown, Enter, InsertOrganization, InsertMember, tableVars
  <2>1. org[c] \in BapId
    BY DEF ProviderInv, OwnerInv
  <2>2. PICK next \in {"createOrg", "createMember", "refresh", "session", "failed"} :
            Enter(c, next)
    OBVIOUS
  <2>3. stage[c] \in HasUser /\ UNCHANGED <<config, users, pubkey, profile, key, user>>
    BY DEF HasUser
  <2>4. ProviderTypeOK' /\ RaceFailsNobody'
    BY <2>1 DEF ProviderInv, ProviderTypeOK, MemberRow, Awaiting, Ended, RaceFailsNobody
  <2>5. KeyInv' /\ ProfileInv' /\ ResolvedInv'
    BY <2>2, <2>3, QuietStep DEF HasUser
  <2>6. OwnerInv' /\ SoleOwner'
    BY <2>1 DEF ProviderInv, ProviderTypeOK, OwnerInv, SoleOwner
  <2> QED
    BY <2>4, <2>5, <2>6 DEF ProviderInv
<1>8. ASSUME NEW c \in Call, RefreshUser(c) \/ CreateSession(c)
      PROVE  ProviderInv'
  <2> USE <1>8 DEF RefreshUser, CreateSession, ClientBapId, Ensure, Enter, tableVars
  <2>1. PICK next \in {"findOrg", "session", "signedIn"} : Enter(c, next)
    BY DEF RefreshUser
  <2>2. stage[c] \in HasUser /\ UNCHANGED <<config, users, pubkey, profile, key, user>>
    BY DEF HasUser
  <2>3. ProviderTypeOK' /\ RaceFailsNobody'
    <3>1. org' \in [Call -> BapId \cup {NoBap}] /\ forClient' \in [Call -> BOOLEAN]
      BY ClientBapIdStep DEF ProviderInv, ProviderTypeOK
    <3>2. stage' = [stage EXCEPT ![c] = next]
      BY <2>1
    <3> QED
      BY <2>1, <3>1, <3>2 DEF ProviderInv, ProviderTypeOK, Awaiting, Ended,
                              RaceFailsNobody
  <2>4. KeyInv' /\ ProfileInv' /\ ResolvedInv'
    BY <2>1, <2>2, QuietStep DEF HasUser
  <2>5. OwnerInv' /\ SoleOwner'
    BY DEF ProviderInv, ProviderTypeOK, OwnerInv, SoleOwner
  <2> QED
    BY <2>3, <2>4, <2>5 DEF ProviderInv
<1>9. ASSUME NEW c \in Call, CallError(c)
      PROVE  ProviderInv'
  <2> USE <1>9 DEF CallError, Enter, tableVars
  <2>1. RaceFailsNobody'
    BY DEF ProviderInv, ProviderTypeOK, RaceFailsNobody
  <2>2. CASE stage[c] = "create" /\ \E u \in User : InsertUser(c, u)
    <3>1. PICK u \in User : InsertUser(c, u)
      BY <2>2
    <3>2. ProviderTypeOK'
      BY <3>1 DEF InsertUser, ProviderInv, ProviderTypeOK, Awaiting, Ended
    <3>3. KeyInv' /\ ProfileInv' /\ ResolvedInv'
      BY <2>2, <3>1, NewUser
    <3>4. OwnerInv' /\ SoleOwner'
      BY <3>1, OrganizationsAlone DEF InsertUser
    <3> QED
      BY <2>1, <3>2, <3>3, <3>4 DEF ProviderInv
  <2>3. CASE \/ UNCHANGED tableVars
             \/ stage[c] = "createOrg" /\ InsertOrganization(c)
             \/ stage[c] = "createMember" /\ InsertMember(c)
    <3>0. UNCHANGED <<users, pubkey, profile>>
      BY <2>3 DEF InsertOrganization, InsertMember
    <3>1. ProviderTypeOK'
      BY <2>3 DEF InsertOrganization, InsertMember, MemberRow, ProviderInv,
                  ProviderTypeOK, OwnerInv, Awaiting, Ended
    <3>2. KeyInv' /\ ProfileInv' /\ ResolvedInv'
      BY <3>0, QuietStep
    <3>3. OwnerInv' /\ SoleOwner'
      BY <2>3 DEF InsertOrganization, InsertMember, ProviderInv, ProviderTypeOK,
                  OwnerInv, SoleOwner
    <3> QED
      BY <2>1, <3>1, <3>2, <3>3 DEF ProviderInv
  <2> QED
    BY <2>2, <2>3
<1> QED
  BY <1>1, <1>2, <1>3, <1>4, <1>5, <1>6, <1>7, <1>8, <1>9 DEF ProviderNext, ProviderStep

\* Of any number of requests, whatever the interleaving, failures and options.
THEOREM ProviderInvariant == ProviderSpec => []ProviderInv
  BY ProviderInitInv, ProviderStepInv, PTL DEF ProviderSpec

\* Tables and requests keep their types, and a request past the lookup has a user.
THEOREM ProviderTypeCorrect == ProviderSpec => []ProviderTypeOK
  BY ProviderInvariant, PTL DEF ProviderInv

\* One key signs in one user, unless nobody holds it and profiles of several name it.
THEOREM KeySignsInOneUser == ProviderSpec => []SameKeySameUser
  BY ProviderInvariant, OneUserPerKey, PTL

\* An organization never has two owners.
THEOREM OrganizationHasOneOwner == ProviderSpec => []SoleOwner
  BY ProviderInvariant, PTL DEF ProviderInv

\* A request fails only if one of its own operations was answered with an error, or
\* with a duplicate key in a shape that the code does not look for.
THEOREM RacesAreHandled == ProviderSpec => []RaceFailsNobody
  BY ProviderInvariant, PTL DEF ProviderInv

----------------------------------------------------------------------------
(* The requests implement IdentitySignIn                                   *)

LEMMA KeyUsersAreUsers ==
    ASSUME ProviderInv, NEW k \in Key
    PROVE  UsersOfKey(k) \subseteq users
<1>1. WithKey(k) \subseteq users
  BY DEF WithKey
<1>2. Named(k) \subseteq users
  BY DEF ProviderInv, ProfileInv, Named
<1> QED
  BY <1>1, <1>2 DEF UsersOfKey

\* What a request past its lookup has resolved is a user of its key.
LEMMA ResolvedIsOfKey ==
    ASSUME NEW c \in Call, UserIsOfKey(c)
    PROVE  user[c] \in UsersOfKey(key[c])
<1>1. CASE Holds(user[c], key[c])
  BY <1>1 DEF Holds, WithKey, UsersOfKey
<1>2. CASE /\ ~ Held(key[c]) /\ config.pool
           /\ \E row \in profile : row.key = key[c] /\ row.user = user[c]
  <2>1. WithKey(key[c]) = {} /\ user[c] \in Named(key[c])
    BY <1>2 DEF Held, WithKey, Named
  <2> QED
    BY <1>2, <2>1 DEF UsersOfKey
<1> QED
  BY <1>1, <1>2 DEF UserIsOfKey

\* A new profile names a user that its key has already.
LEMMA OwnersStayPut ==
    ASSUME UNCHANGED <<config, users, pubkey>>, profile \subseteq profile',
           NEW c \in Call, UserIsOfKey(c),
           \A row \in profile' \ profile : row.key = key[c] /\ row.user = user[c],
           NEW k \in Key
    PROVE  UsersOfKey(k)' = UsersOfKey(k)
<1>1. WithKey(k)' = WithKey(k)
  BY DEF WithKey
<1>2. CASE Named(k)' = Named(k)
  BY <1>1, <1>2 DEF UsersOfKey
<1>3. CASE WithKey(k) # {}
  BY <1>1, <1>3 DEF UsersOfKey
<1>4. CASE WithKey(k) = {} /\ ~config.pool
  BY <1>1, <1>4 DEF UsersOfKey
<1>5. CASE WithKey(k) = {} /\ config.pool /\ Named(k)' # Named(k)
  <2>1. k = key[c]
    BY <1>5 DEF Named
  <2>2. user[c] \in Named(k)
    BY <1>5, <2>1 DEF UserIsOfKey, Holds, WithKey, Named
  <2>3. Named(k)' = Named(k)
    BY <2>1, <2>2 DEF Named
  <2> QED
    BY <1>5, <2>3
<1> QED
  BY <1>2, <1>3, <1>4, <1>5

----------------------------------------------------------------------------

LEMMA RequestStutters ==
    ASSUME \A k \in Key : UsersOfKey(k)' = UsersOfKey(k),
           key' = key,
           \A c \in Call : stage'[c] = "signedIn" <=> stage[c] = "signedIn",
           \A c \in Call : stage[c] = "signedIn" => user'[c] = user[c]
    PROVE  UNCHANGED AbstractSignIn!identityVars
BY DEF AbstractSignIn!identityVars

\* An insert that the index accepts is the registration of a new user.
LEMMA RequestRegisters ==
    ASSUME ProviderInv, NEW c \in Call, NEW u \in User,
           stage[c] = "create", InsertUser(c, u), UNCHANGED <<config, key>>,
           \A d \in Call : stage'[d] = "signedIn" <=> stage[d] = "signedIn",
           \A d \in Call : stage[d] = "signedIn" => user'[d] = user[d]
    PROVE  AbstractSignIn!Register(c)
<1> DEFINE Directory == [k \in Key |-> UsersOfKey(k)]
<1>1. key[c] \in Key /\ NoKey \notin Key /\ pubkey \in [User -> Key \cup {NoKey}]
  BY ProviderAssumption DEF ProviderInv, ProviderTypeOK
<1>2. Directory[key[c]] = {}
  <2>1. WithKey(key[c]) = {}
    BY DEF InsertUser
  <2>2. config.pool => Named(key[c]) = {}
    BY <2>1 DEF ProviderInv, ProfileInv, Held, WithKey, Named
  <2> QED
    BY <1>1, <2>1, <2>2 DEF UsersOfKey
<1>3. \A k \in Key : u \notin Directory[k]
  BY KeyUsersAreUsers DEF InsertUser
<1>4. Directory' = [Directory EXCEPT ![key[c]] = {u}]
  <2>1. ASSUME NEW k \in Key, k # key[c] PROVE UsersOfKey(k)' = UsersOfKey(k)
    <3>1. WithKey(k)' = WithKey(k)
      BY <1>1, <2>1 DEF InsertUser, WithKey, ProviderInv, ProviderTypeOK, KeyInv
    <3> QED
      BY <3>1 DEF InsertUser, UsersOfKey, Named
  <2>2. UsersOfKey(key[c])' = {u}
    <3>1. WithKey(key[c])' = {u}
      BY <1>1 DEF InsertUser, WithKey, ProviderInv, ProviderTypeOK
    <3> QED
      BY <3>1 DEF UsersOfKey
  <2> QED
    BY <1>1, <2>1, <2>2
<1>5. [d \in Call |-> IF stage[d] = "signedIn" THEN user[d] ELSE NoUser]'
      = [d \in Call |-> IF stage[d] = "signedIn" THEN user[d] ELSE NoUser]
  OBVIOUS
<1> QED
  BY <1>1, <1>2, <1>3, <1>4, <1>5 DEF AbstractSignIn!Register

LEMMA RequestSignsIn ==
    ASSUME ProviderInv, NEW c \in Call, CreateSession(c)
    PROVE  AbstractSignIn!SignIn(c)
<1>1. /\ stage' = [stage EXCEPT ![c] = "signedIn"] /\ stage[c] = "session"
      /\ UNCHANGED <<key, user>>
      /\ \A k \in Key : UsersOfKey(k)' = UsersOfKey(k)
  BY DEF CreateSession, Enter, tableVars, UsersOfKey, WithKey, Named
<1>2. /\ UserIsOfKey(c) /\ user[c] \in User /\ key[c] \in Key
      /\ stage \in [Call -> Awaiting \cup Ended]
  BY <1>1 DEF ProviderInv, ProviderTypeOK, ResolvedInv, HasUser
<1>3. user[c] \in [k \in Key |-> UsersOfKey(k)][key[c]]
  BY <1>2, ResolvedIsOfKey
<1>4. [d \in Call |-> IF stage[d] = "signedIn" THEN user[d] ELSE NoUser]'
      = [[d \in Call |-> IF stage[d] = "signedIn" THEN user[d] ELSE NoUser]
            EXCEPT ![c] = user[c]]
  BY <1>1, <1>2
<1> QED
  BY <1>1, <1>2, <1>3, <1>4, ProviderAssumption DEF AbstractSignIn!SignIn

LEMMA RequestStep ==
    ASSUME ProviderInv, ProviderInv', [ProviderNext]_vars
    PROVE  AbstractSignIn!IdentityNext \/ UNCHANGED AbstractSignIn!identityVars
<1>1. ASSUME NEW c \in Call, NEW next, Enter(c, next), next # "signedIn",
             stage[c] # "signedIn", key' = key,
             \A d \in Call : d # c => user'[d] = user[d]
      PROVE  /\ \A d \in Call : stage'[d] = "signedIn" <=> stage[d] = "signedIn"
             /\ \A d \in Call : stage[d] = "signedIn" => user'[d] = user[d]
  BY <1>1 DEF Enter, ProviderInv, ProviderTypeOK
<1>2. ASSUME NEW c \in Call, ProviderStep(c) \/ CallError(c), ~CreateSession(c)
      PROVE  /\ \A d \in Call : stage'[d] = "signedIn" <=> stage[d] = "signedIn"
             /\ \A d \in Call : stage[d] = "signedIn" => user'[d] = user[d]
             /\ UNCHANGED <<config, key>>
  BY <1>1, <1>2
     DEF ProviderStep, FindUser, FindProfile, CreateUser, FindUserAgain, ResolveBapId,
         FindOrganization, CreateOrganization, CreateMember, RefreshUser, CallError,
         Resolved, Returned, Rethrown, ClientBapId, Ensure, Enter, Awaiting, ProviderInv,
         ProviderTypeOK
<1>3. ASSUME NEW c \in Call, ProviderStep(c) \/ CallError(c), ~CreateSession(c),
             UNCHANGED <<users, pubkey, profile>>
      PROVE  UNCHANGED AbstractSignIn!identityVars
  BY <1>2, <1>3, RequestStutters DEF UsersOfKey, WithKey, Named
<1>4. ASSUME NEW c \in Call, ResolveBapId(c)
      PROVE  UNCHANGED AbstractSignIn!identityVars
  <2>1. UserIsOfKey(c)
    BY <1>4 DEF ResolveBapId, ProviderInv, ResolvedInv, HasUser
  <2>2. /\ UNCHANGED <<config, users, pubkey>> /\ profile \subseteq profile'
        /\ \A row \in profile' \ profile : row.key = key[c] /\ row.user = user[c]
    <3>1. UNCHANGED <<config, users, pubkey>>
      BY <1>4 DEF ResolveBapId
    <3>2. CASE profile' = profile
      BY <3>1, <3>2
    <3>3. ASSUME NEW b \in BapId,
                 profile' = profile \cup {[bapId |-> b, user |-> user[c], key |-> key[c]]}
          PROVE  <2>2!:
      BY <3>1, <3>3
    <3> QED
      BY <1>4, <3>2, <3>3 DEF ResolveBapId
  <2>3. ~CreateSession(c)
    BY <1>4 DEF ResolveBapId, CreateSession
  <2> QED
    BY <1>2, <1>4, <2>1, <2>2, <2>3, OwnersStayPut, RequestStutters DEF ProviderStep
<1>5. ASSUME NEW c \in Call, CreateUser(c) \/ CallError(c)
      PROVE  AbstractSignIn!Register(c) \/ UNCHANGED AbstractSignIn!identityVars
  <2>1. ~CreateSession(c)
    BY <1>5 DEF CreateUser, CallError, CreateSession, Resolved, Enter, ProviderInv,
                ProviderTypeOK
  <2>2. CASE stage[c] = "create" /\ \E u \in User : InsertUser(c, u)
    BY <1>2, <1>5, <2>1, <2>2, RequestRegisters DEF ProviderStep
  <2>3. CASE UNCHANGED <<users, pubkey, profile>>
    BY <1>3, <1>5, <2>1, <2>3 DEF ProviderStep
  <2> QED
    BY <1>5, <2>2, <2>3
       DEF CreateUser, CallError, tableVars, InsertOrganization, InsertMember
<1>6. ASSUME NEW c \in Call, CreateSession(c)
      PROVE  AbstractSignIn!SignIn(c)
  BY <1>6, RequestSignsIn
<1>7. ASSUME NEW c \in Call,
             \/ FindUser(c) \/ FindProfile(c) \/ FindUserAgain(c) \/ FindOrganization(c)
             \/ CreateOrganization(c) \/ CreateMember(c) \/ RefreshUser(c)
      PROVE  UNCHANGED AbstractSignIn!identityVars
  <2>1. ~CreateSession(c)
    BY <1>7 DEF FindUser, FindProfile, FindUserAgain, FindOrganization,
                CreateOrganization, CreateMember, RefreshUser, CreateSession
  <2>2. UNCHANGED <<users, pubkey, profile>>
    BY <1>7 DEF FindUser, FindProfile, FindUserAgain, FindOrganization,
                CreateOrganization, CreateMember, RefreshUser, InsertOrganization,
                InsertMember, tableVars
  <2> QED
    BY <1>3, <1>7, <2>1, <2>2 DEF ProviderStep
<1>8. CASE UNCHANGED vars
  BY <1>8, RequestStutters DEF vars, tableVars, callVars, UsersOfKey, WithKey,
                               Named
<1> QED
  BY <1>4, <1>5, <1>6, <1>7, <1>8
     DEF ProviderNext, ProviderStep, AbstractSignIn!IdentityNext

\* Found by key or by profile, created, or met again after a lost race: the user a
\* request signs in is one of its key's (provider/index.ts:929-1000), and whom a key
\* belongs to changes only when it belongs to nobody, who gets a new user.
THEOREM ProviderImplementsIdentity == ProviderSpec => ImplementsSignIn
<1>1. ProviderInit /\ ProviderInv => AbstractSignIn!IdentityInit
  <2> SUFFICES ASSUME ProviderInit, ProviderInv PROVE AbstractSignIn!IdentityInit
    OBVIOUS
  <2>1. \A k \in Key : UsersOfKey(k) \subseteq User
    BY KeyUsersAreUsers DEF ProviderInv, ProviderTypeOK
  <2> QED
    BY <2>1 DEF ProviderInit, AbstractSignIn!IdentityInit
<1>2. ProviderInv /\ ProviderInv' /\ [ProviderNext]_vars
      => [AbstractSignIn!IdentityNext]_AbstractSignIn!identityVars
  BY RequestStep
<1> QED
  BY <1>1, <1>2, ProviderInvariant, PTL
     DEF ProviderSpec, ImplementsSignIn, AbstractSignIn!IdentitySpec
=============================================================================
