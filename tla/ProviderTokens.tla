--------------------------- MODULE ProviderTokens ---------------------------
(***************************************************************************)
(* Sign-in and token exchange at the identity provider: ProviderSignIn     *)
(* composed with the hooks of /oauth2/token, src/provider/index.ts.  A     *)
(* signed-in user authorizes a client for one of its organizations, or     *)
(* none.  The before hook authenticates the client; Better Auth's endpoint *)
(* redeems the code; the after hook copies the name and image of the       *)
(* selected identity's profile to the user row, as RefreshUser of a        *)
(* sign-in does.  Sign-ins and exchanges interleave at every await.        *)
(* Better Auth's endpoint, its tables and the profile table are external.  *)
(***************************************************************************)
EXTENDS ProviderSignIn

CONSTANTS
    Exchange,   \* requests to /oauth2/token
    NoRow       \* no profile row

ASSUME TokensAssumption == NoRow \notin ProfileRow

VARIABLES
    shown,      \* shown[u] : whose name and image the user row u carries
    phase,      \* phase[x] : the await the exchange x is at
    grantType,  \* grantType[x] : as in its body
    owner,      \* owner[x] : the user who authorized the client
    reference,  \* reference[x] : the BAP id selected for it (referenceId)
    found,      \* found[x] : the profile row its after hook has read
    issued,     \* issued[x] : Better Auth has redeemed the code and issued tokens
    answer      \* answer[x] : what the client is answered

exchangeVars == <<phase, grantType, owner, reference, found, issued, answer>>
tokenVars == <<vars, shown, exchangeVars>>

GrantType == {"authorization_code", "refresh_token"}
Hook == {"record", "profile", "update"}

TokensTypeOK ==
    /\ ProviderTypeOK
    /\ shown \in [User -> BapId \cup {NoBap}]
    /\ phase \in [Exchange -> {"idle", "client", "endpoint", "answered"} \cup Hook]
    /\ grantType \in [Exchange -> GrantType]
    /\ owner \in [Exchange -> User \cup {NoUser}]
    /\ reference \in [Exchange -> BapId \cup {NoBap}]
    /\ found \in [Exchange -> ProfileRow \cup {NoRow}]
    /\ issued \in [Exchange -> BOOLEAN]
    /\ answer \in [Exchange -> {"none", "error", "token"}]
    /\ \A x \in Exchange :
          /\ phase[x] = "idle" \/ owner[x] \in users
          /\ phase[x] \in {"profile", "update"} => reference[x] # NoBap
          /\ phase[x] = "update" => found[x] # NoRow

TokensInit ==
    /\ ProviderInit
    /\ shown = [u \in User |-> NoBap]
    /\ phase = [x \in Exchange |-> "idle"]
    /\ grantType \in [Exchange -> GrantType]
    /\ owner = [x \in Exchange |-> NoUser]
    /\ reference = [x \in Exchange |-> NoBap]
    /\ found = [x \in Exchange |-> NoRow]
    /\ issued = [x \in Exchange |-> FALSE]
    /\ answer = [x \in Exchange |-> "none"]

Move(x, next) == phase' = [phase EXCEPT ![x] = next]

Answer(x, what) ==
    /\ Move(x, "answered")
    /\ answer' = [answer EXCEPT ![x] = what]

----------------------------------------------------------------------------
(* Sign-in, with what its refresh shows                                    *)

\* The profile selected in the body, if it is the user's own, or the user's primary
\* one, if there is one; without such a profile the row is left as it is.
RefreshShown(c) ==
    \/ \E own \in profile :
          /\ own.user = user[c]
          /\ bapId[c] \in {own.bapId, NoBap}
          /\ shown' = [shown EXCEPT ![user[c]] = own.bapId]
    \/ /\ bapId[c] # NoBap =>
             \A own \in profile : own.user = user[c] => own.bapId # bapId[c]
       /\ UNCHANGED shown

SignInStep(c) ==
    /\ ProviderStep(c)
    /\ IF stage[c] = "refresh" THEN RefreshShown(c) ELSE UNCHANGED shown
    /\ UNCHANGED exchangeVars

SignInError(c) ==
    /\ CallError(c)
    /\ UNCHANGED shown \/ (stage[c] = "refresh" /\ RefreshShown(c))
    /\ UNCHANGED exchangeVars

----------------------------------------------------------------------------
(* The exchange                                                            *)

\* A user with a session selects one of its organizations (setActive checks the
\* membership) or none, and consents; the client sends the exchange.
Authorize(x) ==
    /\ phase[x] = "idle"
    /\ \E c \in Call :
          /\ stage[c] = "signedIn"
          /\ owner' = [owner EXCEPT ![x] = user[c]]
          /\ \E b \in {m.org : m \in {n \in member : n.user = user[c]}} \cup {NoBap} :
                reference' = [reference EXCEPT ![x] = b]
    /\ Move(x, "client")
    /\ UNCHANGED <<vars, shown, grantType, found, issued, answer>>

\* The before hook: the client is looked up and its signature over the body checked.
\* Any of its checks, or the lookup's error, answers the request at once.
BeforeHook(x) ==
    /\ phase[x] = "client"
    /\ \/ Move(x, "endpoint") /\ UNCHANGED answer
       \/ Answer(x, "error")
    /\ UNCHANGED <<vars, shown, grantType, owner, reference, found, issued>>

\* Better Auth redeems the code, or the refresh token, and writes the token row; or
\* it refuses.  The after hook acts on a successful code exchange, given a pool.
TokenEndpoint(x) ==
    /\ phase[x] = "endpoint"
    /\ \/ /\ issued' = [issued EXCEPT ![x] = TRUE]
          /\ IF grantType[x] = "authorization_code" /\ config.pool
             THEN Move(x, "record") /\ UNCHANGED answer
             ELSE Answer(x, "token")
       \/ Answer(x, "error") /\ UNCHANGED issued
    /\ UNCHANGED <<vars, shown, grantType, owner, reference, found>>

\* Mutant of FindTokenRow: the hook goes on without a referenceId.
FindTokenRowAlways(x) ==
    /\ phase[x] = "record"
    /\ Move(x, "profile")
    /\ UNCHANGED <<vars, shown, grantType, owner, reference, found, issued, answer>>

\* The after hook finds the token row, or not; without a referenceId it is done.
FindTokenRow(x) ==
    /\ phase[x] = "record"
    /\ \/ reference[x] # NoBap /\ Move(x, "profile") /\ UNCHANGED answer
       \/ Answer(x, "token")
    /\ UNCHANGED <<vars, shown, grantType, owner, reference, found, issued>>

\* Mutant of ReadProfile: the query lacks `AND user_id = $2`.
ReadAnyProfile(x) ==
    /\ phase[x] = "profile"
    /\ \/ \E r \in profile :
             /\ r.bapId = reference[x]
             /\ found' = [found EXCEPT ![x] = r]
             /\ Move(x, "update")
             /\ UNCHANGED answer
       \/ /\ \A r \in profile : r.bapId # reference[x]
          /\ Answer(x, "token")
          /\ UNCHANGED found
    /\ UNCHANGED <<vars, shown, grantType, owner, reference, issued>>

\* SELECT ... FROM profile WHERE bap_id = referenceId AND user_id = userId
ReadProfile(x) ==
    /\ phase[x] = "profile"
    /\ \/ \E r \in profile :
             /\ r.bapId = reference[x] /\ r.user = owner[x]
             /\ found' = [found EXCEPT ![x] = r]
             /\ Move(x, "update")
             /\ UNCHANGED answer
       \/ /\ \A r \in profile : r.bapId = reference[x] => r.user # owner[x]
          /\ Answer(x, "token")
          /\ UNCHANGED found
    /\ UNCHANGED <<vars, shown, grantType, owner, reference, issued>>

\* adapter.update(user, { name, image }) with what was read.
WriteShown(x) == shown' = [shown EXCEPT ![owner[x]] = found[x].bapId]

UpdateShown(x) ==
    /\ phase[x] = "update"
    /\ WriteShown(x)
    /\ Answer(x, "token")
    /\ UNCHANGED <<vars, grantType, owner, reference, found, issued>>

\* Mutant of HookError: the hook has no catch.
HookErrorThrown(x) ==
    /\ phase[x] \in Hook
    /\ UNCHANGED shown \/ (phase[x] = "update" /\ WriteShown(x))
    /\ Answer(x, "error")
    /\ UNCHANGED <<vars, grantType, owner, reference, found, issued>>

\* An operation of the after hook is answered with an error, applied or not, or the
\* schema assertion throws: the hook swallows it and the tokens are answered.
HookError(x) ==
    /\ phase[x] \in Hook
    /\ UNCHANGED shown \/ (phase[x] = "update" /\ WriteShown(x))
    /\ Answer(x, "token")
    /\ UNCHANGED <<vars, grantType, owner, reference, found, issued>>

ExchangeStep(x) ==
    \/ Authorize(x)
    \/ BeforeHook(x)
    \/ TokenEndpoint(x)
    \/ FindTokenRow(x)
    \/ ReadProfile(x)
    \/ UpdateShown(x)
    \/ HookError(x)

TokensNext ==
    \/ \E c \in Call : SignInStep(c) \/ SignInError(c)
    \/ \E x \in Exchange : ExchangeStep(x)

TokensSpec == TokensInit /\ [][TokensNext]_tokenVars

----------------------------------------------------------------------------
(* Properties                                                              *)

\* A user row shows the name and image of a profile of that user only
\* (provider/index.ts:520-522, 1049-1063), although a user may own the organization of
\* a BAP id whose profile is another's (1113-1124: it is made from the request's body)
\* and select it for a token.
ShowsOwnIdentity ==
    \A u \in users :
        shown[u] # NoBap => \E own \in profile : own.bapId = shown[u] /\ own.user = u

\* An exchange whose code was redeemed is answered with its tokens, however its after
\* hook fares (provider/index.ts:556-558): the client has no second try with the code.
\* No other exchange is answered with tokens.
IssuedIsAnswered ==
    \A x \in Exchange : phase[x] = "answered" => (answer[x] = "token" <=> issued[x])
=============================================================================
