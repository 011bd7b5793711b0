------------------------ MODULE ProviderTokensProofs ------------------------
(***************************************************************************)
(* Proofs about ProviderTokens, for any number of sign-ins, exchanges,     *)
(* users, keys and BAP ids.  An exchange is a stutter of sign-in, so that  *)
(* everything proved of ProviderSignIn holds beside exchanges; what a user *)
(* row shows, and what a hook is about to write to it, is the user's own.  *)
(***************************************************************************)
EXTENDS ProviderTokens, ProviderSignInProofs

\* What a hook is about to write is a profile of the user it writes it to.
ShownInv ==
    /\ \A u \in User : shown[u] # NoBap =>
          \E own \in profile : own.bapId = shown[u] /\ own.user = u
    /\ \A x \in Exchange : phase[x] = "update" =>
          found[x] \in profile /\ found[x].user = owner[x]

TokensInv ==
    /\ ProviderInv
    /\ TokensTypeOK
    /\ ShownInv
    /\ IssuedIsAnswered
    /\ \A x \in Exchange : phase[x] \in Hook <=> issued[x] /\ phase[x] # "answered"

----------------------------------------------------------------------------
(* An exchange does not touch what sign-in keeps                           *)

LEMMA ExchangeIsStutter ==
    ASSUME NEW x \in Exchange, ExchangeStep(x) PROVE UNCHANGED vars
BY DEF ExchangeStep, Authorize, BeforeHook, TokenEndpoint, FindTokenRow, ReadProfile,
       UpdateShown, HookError

LEMMA TokensNextIsSignIn == [TokensNext]_tokenVars => [ProviderNext]_vars
<1> SUFFICES ASSUME [TokensNext]_tokenVars PROVE [ProviderNext]_vars
  OBVIOUS
<1>1. ASSUME NEW c \in Call, SignInStep(c) \/ SignInError(c) PROVE ProviderNext
  BY <1>1 DEF SignInStep, SignInError, ProviderNext
<1>2. CASE UNCHANGED tokenVars
  BY <1>2 DEF tokenVars
<1> QED
  BY <1>1, <1>2, ExchangeIsStutter DEF TokensNext

\* Sign-in with exchanges beside it is sign-in.
THEOREM TokensImplementSignIn == TokensSpec => ProviderSpec
<1>1. TokensInit => ProviderInit
  BY DEF TokensInit
<1> QED
  BY <1>1, TokensNextIsSignIn, PTL DEF TokensSpec, ProviderSpec

\* The hooks never make a key sign in two users, unless nobody holds it and profiles of
\* several name it: they copy a name and an image to the user row, never a key.
THEOREM ExchangesKeepKeys == TokensSpec => []SameKeySameUser
  BY TokensImplementSignIn, KeySignsInOneUser, PTL

\* Nor do they disturb the promise of the sign-in (provider/index.ts:929-1000): a
\* request signs in a user of its key, and whom a key belongs to does not change
\* once it belongs to somebody, whatever is exchanged meanwhile.
THEOREM TokensImplementIdentity == TokensSpec => ImplementsSignIn
  BY TokensImplementSignIn, ProviderImplementsIdentity, PTL

----------------------------------------------------------------------------
(* What a user row shows                                                   *)

LEMMA TokensInitInv == TokensInit => TokensInv
<1> SUFFICES ASSUME TokensInit PROVE TokensInv
  OBVIOUS
<1>1. ProviderInv /\ ProviderTypeOK
  BY ProviderInitInv DEF TokensInit, ProviderInv
<1> QED
  BY <1>1 DEF TokensInit, TokensInv, TokensTypeOK, ShownInv, IssuedIsAnswered, Hook

\* Profiles are added, never taken away or given to another user.
LEMMA TablesGrow ==
    ASSUME ProviderInv, [ProviderNext]_vars
    PROVE  users \subseteq users' /\ profile \subseteq profile'
<1>1. ASSUME NEW c \in Call, ProviderStep(c)
      PROVE  users \subseteq users' /\ profile \subseteq profile'
  BY <1>1
  DEF ProviderStep, FindUser, FindProfile, CreateUser, FindUserAgain, ResolveBapId,
      FindOrganization, CreateOrganization, CreateMember, RefreshUser, CreateSession,
      InsertUser, InsertOrganization, InsertMember, tableVars
<1>2. ASSUME NEW c \in Call, CallError(c)
      PROVE  users \subseteq users' /\ profile \subseteq profile'
  BY <1>2 DEF CallError, InsertUser, InsertOrganization, InsertMember, tableVars
<1>3. CASE UNCHANGED vars
  BY <1>3 DEF vars, tableVars
<1> QED
  BY <1>1, <1>2, <1>3 DEF ProviderNext

LEMMA SignInKeepsShown ==
    ASSUME TokensInv, NEW c \in Call, SignInStep(c) \/ SignInError(c)
    PROVE  TokensInv'
<1>1. ProviderNext
  BY DEF SignInStep, SignInError, ProviderNext
<1>2. ProviderInv' /\ users \subseteq users' /\ profile \subseteq profile'
  BY <1>1, ProviderStepInv, TablesGrow DEF TokensInv
<1>3. UNCHANGED exchangeVars
  BY DEF SignInStep, SignInError
<1>4. CASE UNCHANGED shown
  BY <1>2, <1>3, <1>4
  DEF TokensInv, TokensTypeOK, ProviderInv, ShownInv, IssuedIsAnswered, exchangeVars
<1>5. ASSUME NEW own \in profile, own.user = user[c], stage[c] = "refresh",
             shown' = [shown EXCEPT ![user[c]] = own.bapId]
      PROVE  TokensInv'
  <2>1. user[c] \in User /\ own.bapId \in BapId
    BY <1>5 DEF TokensInv, TokensTypeOK, ProviderTypeOK, ProfileRow
  <2>2. ShownInv'
    BY <1>2, <1>3, <1>5, <2>1 DEF TokensInv, TokensTypeOK, ShownInv, exchangeVars
  <2>3. shown' \in [User -> BapId \cup {NoBap}]
    BY <1>5, <2>1 DEF TokensInv, TokensTypeOK
  <2> QED
    BY <1>2, <1>3, <2>2, <2>3
    DEF TokensInv, TokensTypeOK, ProviderInv, IssuedIsAnswered, exchangeVars
<1> QED
  BY <1>4, <1>5 DEF SignInStep, SignInError, RefreshShown

LEMMA ExchangeKeepsShown ==
    ASSUME TokensInv, NEW x \in Exchange, ExchangeStep(x)
    PROVE  TokensInv'
<1>1. UNCHANGED vars
  BY ExchangeIsStutter
<1>2. ProviderInv'
  BY <1>1, ProviderStepInv DEF TokensInv
<1>3. UNCHANGED <<users, profile, member, organization, user>> /\ ProviderTypeOK'
  BY <1>1, <1>2 DEF vars, tableVars, callVars, ProviderInv
<1> USE DEF TokensInv, TokensTypeOK, ShownInv, IssuedIsAnswered, Hook, Move, Answer
<1>4. CASE Authorize(x)
  <2>1. PICK c \in Call :
            /\ stage[c] = "signedIn"
            /\ owner' = [owner EXCEPT ![x] = user[c]]
            /\ \E b \in {m.org : m \in {n \in member : n.user = user[c]}} \cup {NoBap} :
                  reference' = [reference EXCEPT ![x] = b]
    BY <1>4 DEF Authorize
  <2>2. user[c] \in users /\ users \subseteq User
    BY <2>1 DEF ProviderTypeOK
  <2>3. reference' \in [Exchange -> BapId \cup {NoBap}]
    BY <2>1 DEF ProviderTypeOK, MemberRow
  <2> QED
    BY <1>2, <1>3, <1>4, <2>1, <2>2, <2>3 DEF Authorize
<1>5. CASE BeforeHook(x)
  BY <1>2, <1>3, <1>5 DEF BeforeHook
<1>6. CASE TokenEndpoint(x)
  <2>1. /\ phase[x] = "endpoint" /\ ~ issued[x]
        /\ UNCHANGED <<shown, grantType, owner, reference, found>>
    BY <1>6 DEF TokenEndpoint
  <2>2. CASE /\ issued' = [issued EXCEPT ![x] = TRUE]
             /\ phase' = [phase EXCEPT ![x] = "record"] /\ UNCHANGED answer
    BY <1>2, <1>3, <2>1, <2>2
  <2>3. CASE issued' = [issued EXCEPT ![x] = TRUE] /\ Answer(x, "token")
    BY <1>2, <1>3, <2>1, <2>3
  <2>4. CASE Answer(x, "error") /\ UNCHANGED issued
    BY <1>2, <1>3, <2>1, <2>4
  <2> QED
    BY <1>6, <2>2, <2>3, <2>4 DEF TokenEndpoint
<1>7. CASE FindTokenRow(x)
  BY <1>2, <1>3, <1>7 DEF FindTokenRow
<1>8. CASE ReadProfile(x)
  <2>1. \A r \in profile : r \in ProfileRow /\ r # NoRow
    BY TokensAssumption DEF ProviderTypeOK
  <2> QED
    BY <1>2, <1>3, <1>8, <2>1 DEF ReadProfile
<1>9. ASSUME phase[x] = "update", WriteShown(x), Answer(x, "token"),
             UNCHANGED <<grantType, owner, reference, found, issued>>
      PROVE  TokensInv'
  <2>1. found[x] \in profile /\ found[x].user = owner[x] /\ owner[x] \in User
    BY <1>9 DEF ProviderTypeOK
  <2>2. found[x].bapId \in BapId
    BY <2>1 DEF ProviderTypeOK, ProfileRow
  <2>3. shown' = [shown EXCEPT ![owner[x]] = found[x].bapId]
    BY <1>9 DEF WriteShown
  <2>4. shown' \in [User -> BapId \cup {NoBap}]
    BY <2>1, <2>2, <2>3
  <2>5. \A u \in User : shown'[u] # NoBap =>
            \E own \in profile' : own.bapId = shown'[u] /\ own.user = u
    BY <1>3, <2>1, <2>3
  <2> QED
    BY <1>2, <1>3, <1>9, <2>4, <2>5
<1>10. CASE UpdateShown(x)
  BY <1>9, <1>10 DEF UpdateShown
<1>11. CASE HookError(x)
  <2>1. CASE UNCHANGED shown
    BY <1>2, <1>3, <1>11, <2>1 DEF HookError
  <2>2. CASE phase[x] = "update" /\ WriteShown(x)
    BY <1>9, <1>11, <2>2 DEF HookError
  <2> QED
    BY <1>11, <2>1, <2>2 DEF HookError
<1> QED
  BY <1>4, <1>5, <1>6, <1>7, <1>8, <1>10, <1>11 DEF ExchangeStep

LEMMA TokensStepInv == TokensInv /\ [TokensNext]_tokenVars => TokensInv'
<1> SUFFICES ASSUME TokensInv, [TokensNext]_tokenVars PROVE TokensInv'
  OBVIOUS
<1>1. CASE UNCHANGED tokenVars
  <2>1. ProviderInv'
    BY <1>1, ProviderStepInv DEF TokensInv, tokenVars
  <2> QED
    BY <1>1, <2>1
    DEF tokenVars, vars, tableVars, exchangeVars, TokensInv, TokensTypeOK, ProviderInv,
        ShownInv, IssuedIsAnswered
<1> QED
  BY <1>1, SignInKeepsShown, ExchangeKeepsShown DEF TokensNext

THEOREM TokensInvariant == TokensSpec => []TokensInv
  BY TokensInitInv, TokensStepInv, PTL DEF TokensSpec

\* The composed state keeps its types, and no hook goes on without what it needs.
THEOREM TokensTypeCorrect == TokensSpec => []TokensTypeOK
  BY TokensInvariant, PTL DEF TokensInv

\* No user row ever shows the profile of another user, whatever organizations were
\* made and selected.
THEOREM ShownIsOwn == TokensSpec => []ShowsOwnIdentity
<1>1. TokensInv => ShowsOwnIdentity
  BY DEF TokensInv, TokensTypeOK, ProviderTypeOK, ShownInv, ShowsOwnIdentity
<1> QED
  BY <1>1, TokensInvariant, PTL

\* Redeemed codes are answered with tokens, whatever becomes of the after hook.
THEOREM TokensReachTheClient == TokensSpec => []IssuedIsAnswered
  BY TokensInvariant, PTL DEF TokensInv
=============================================================================
