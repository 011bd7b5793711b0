----------------------------- MODULE OAuthClient -----------------------------
(***************************************************************************)
(* The redirect flow of the browser client: signIn.sigma, handleCallback   *)
(* and redirectToError of src/client/index.ts, in one browser tab.  What   *)
(* an attempt needs on the way back is in the tab's session storage; the   *)
(* document's own variables and continuations die with the document.  An   *)
(* attempt stands for its state, its verifier and its redirect_uri.  The   *)
(* page, the browser and the callback endpoint are external: the page      *)
(* calls what it likes whenever it likes, the user goes back, forward and  *)
(* reloads, and the endpoint accepts a code once, with its verifier.  A    *)
(* callback page may also be opened without a state: its code, if it has   *)
(* one, is no attempt's.                                                   *)
(***************************************************************************)
EXTENDS Integers

CONSTANTS
    Attempt,    \* calls of signIn.sigma that go to the authorization server
    Call,       \* calls of handleCallback
    BapId,      \* identities
    None        \* no attempt, no identity, a key that is not in the storage

\* What an exchange takes from the storage.
Exchange == [verifier : Attempt \cup {None}, redirectUri : Attempt \cup {None}]

ASSUME OAuthAssumption == None \notin Attempt \cup BapId \cup Exchange

VARIABLES
    session,        \* sessionStorage: which attempt each key was written by
    local,          \* localStorage's identity
    storedBapId,    \* the identity in the variable of the document
    shown,          \* the document: a page of the app, or a callback's
    leaving,        \* where window.location.href has been sent
    attempt,        \* attempt[m] : how far signIn.sigma is
    call,           \* call[c] : how far handleCallback is
    of,             \* of[c] : the attempt whose state it was called with, if with any
    sent,           \* sent[c] : the verifier and redirect_uri it sent, None before
    redeemed        \* the attempts whose codes the endpoint has accepted

vars == <<session, local, storedBapId, shown, leaving, attempt, call, of, sent,
          redeemed>>

Key == {"state", "verifier", "redirectUri", "errorCallback"}
AppPage == [page |-> "app"]
CallbackPage ==
    [page : {"callback"}, of : Attempt \cup {None}, answer : {"code", "noCode"}]

OAuthTypeOK ==
    /\ session \in [Key -> Attempt \cup {None}]
    /\ local \in BapId \cup {None}
    /\ storedBapId \in {None, local}
    /\ shown \in {AppPage} \cup CallbackPage
    /\ leaving \in {"nowhere", "server", "error"}
    /\ attempt \in [Attempt -> {"unused", "challenge", "redirected", "gone"}]
    /\ call \in [Call -> {"unused", "exchanging", "returned", "thrown", "gone"}]
    /\ of \in [Call -> Attempt \cup {None}]
    /\ sent \in [Call -> Exchange \cup {None}]
    /\ redeemed \subseteq Attempt

OAuthInit ==
    /\ session = [k \in Key |-> None]
    /\ local \in BapId \cup {None}
    /\ storedBapId = None
    /\ shown = AppPage
    /\ leaving = "nowhere"
    /\ attempt = [m \in Attempt |-> "unused"]
    /\ call = [c \in Call |-> "unused"]
    /\ of = [c \in Call |-> None]
    /\ sent = [c \in Call |-> None]
    /\ redeemed = {}

Remove(keys) == session' = [k \in Key |-> IF k \in keys THEN None ELSE session[k]]

----------------------------------------------------------------------------
(* signIn.sigma                                                            *)

\* No session yet, or forceLogin: on to the await of generateCodeChallenge.
SignIn(m) ==
    /\ attempt[m] = "unused"
    /\ attempt' = [attempt EXCEPT ![m] = "challenge"]
    /\ UNCHANGED <<session, local, storedBapId, shown, leaving, call, of, sent, redeemed>>

\* Mutant of Redirect: the verifier is not stored again when there is one.
RedirectKeepsVerifier(m) ==
    /\ attempt[m] = "challenge"
    /\ \E onError \in {m, None} :
          session' = [k \in Key |->
                        CASE k = "errorCallback" -> onError
                          [] k = "verifier" /\ session[k] # None -> session[k]
                          [] OTHER -> m]
    /\ leaving' = "server"
    /\ attempt' = [attempt EXCEPT ![m] = "redirected"]
    /\ UNCHANGED <<local, storedBapId, shown, call, of, sent, redeemed>>

\* The rest of it, in one turn: the storage, then the navigation; onError is None
\* without an errorCallbackURL.
Redirect(m) ==
    /\ attempt[m] = "challenge"
    /\ \E onError \in {m, None} :
          session' = [k \in Key |-> IF k = "errorCallback" THEN onError ELSE m]
    /\ leaving' = "server"
    /\ attempt' = [attempt EXCEPT ![m] = "redirected"]
    /\ UNCHANGED <<local, storedBapId, shown, call, of, sent, redeemed>>

----------------------------------------------------------------------------
(* handleCallback                                                          *)

\* The call c has got the parameters of the page, and goes on to the stage `next`.
Called(c, next) ==
    /\ shown # AppPage
    /\ call[c] = "unused"
    /\ of' = [of EXCEPT ![c] = shown.of]
    /\ call' = [call EXCEPT ![c] = next]
    /\ UNCHANGED <<local, storedBapId, shown, leaving, attempt, redeemed>>

\* An OAuth error, or a code that is missing, throws before the storage is looked at.
CallbackError(c) ==
    /\ Called(c, "thrown")
    /\ shown.answer = "noCode"
    /\ UNCHANGED <<session, sent>>

\* "Security Error": the state is not the saved one, which is removed.
CallbackMismatch(c) ==
    /\ Called(c, "thrown")
    /\ shown.answer = "code"
    /\ shown.of # session["state"]
    /\ Remove({"state"})
    /\ UNCHANGED sent

\* Mutant of CallbackExchange: the state is cleared when the exchange has succeeded.
CallbackExchangeKeepsState(c) ==
    /\ Called(c, "exchanging")
    /\ shown.answer = "code"
    /\ shown.of = session["state"]
    /\ sent' = [sent EXCEPT ![c] = [verifier |-> session["verifier"],
                                   redirectUri |-> session["redirectUri"]]]
    /\ UNCHANGED session

\* The state is cleared and the code sent to the callback endpoint, in one turn.  No
\* state and none saved are equal too: such a page gets what verifier there is.
CallbackExchange(c) ==
    /\ Called(c, "exchanging")
    /\ shown.answer = "code"
    /\ shown.of = session["state"]
    /\ Remove({"state"})
    /\ sent' = [sent EXCEPT ![c] = [verifier |-> session["verifier"],
                                   redirectUri |-> session["redirectUri"]]]

\* The endpoint redeems an attempt's code once, for its own verifier and redirect_uri
\* (external).
Redeem(c) ==
    /\ call[c] = "exchanging"
    /\ of[c] \in Attempt \ redeemed
    /\ sent[c] = [verifier |-> of[c], redirectUri |-> of[c]]
    /\ redeemed' = redeemed \cup {of[c]}
    /\ UNCHANGED <<session, local, storedBapId, shown, leaving, attempt, call, of, sent>>

\* Mutant of Exchanged: the verifier is left behind.
ExchangedLeavesVerifier(c) ==
    /\ call[c] = "exchanging"
    /\ of[c] \in redeemed
    /\ \/ \E b \in BapId : storedBapId' = b /\ local' = b
       \/ UNCHANGED <<storedBapId, local>>
    /\ Remove({"redirectUri"})
    /\ call' = [call EXCEPT ![c] = "returned"]
    /\ UNCHANGED <<shown, leaving, attempt, of, sent, redeemed>>

\* Mutant of Exchanged: the identity is not written to localStorage.
ExchangedVariableOnly(c) ==
    /\ call[c] = "exchanging"
    /\ of[c] \in redeemed
    /\ \/ \E b \in BapId : storedBapId' = b /\ UNCHANGED local
       \/ UNCHANGED <<storedBapId, local>>
    /\ Remove({"redirectUri", "verifier"})
    /\ call' = [call EXCEPT ![c] = "returned"]
    /\ UNCHANGED <<shown, leaving, attempt, of, sent, redeemed>>

\* The answer: the identity of its bap_id claim, if it has one, is stored, and what
\* the exchange needed is removed.
Exchanged(c) ==
    /\ call[c] = "exchanging"
    /\ of[c] \in redeemed
    /\ \/ \E b \in BapId : storedBapId' = b /\ local' = b
       \/ UNCHANGED <<storedBapId, local>>
    /\ Remove({"redirectUri", "verifier"})
    /\ call' = [call EXCEPT ![c] = "returned"]
    /\ UNCHANGED <<shown, leaving, attempt, of, sent, redeemed>>

\* The endpoint refuses, or the answer is lost: the storage stays as it is.
ExchangeFails(c) ==
    /\ call[c] = "exchanging"
    /\ call' = [call EXCEPT ![c] = "thrown"]
    /\ UNCHANGED <<session, local, storedBapId, shown, leaving, attempt, of, sent, redeemed>>

\* redirectToError, which the page calls with what handleCallback has thrown.
RedirectToError ==
    /\ shown # AppPage
    /\ \E c \in Call : call[c] = "thrown" /\ of[c] = shown.of
    /\ Remove({"errorCallback", "state", "verifier"})
    /\ leaving' = "error"
    /\ UNCHANGED <<local, storedBapId, shown, attempt, call, of, sent, redeemed>>

----------------------------------------------------------------------------
(* The browser                                                             *)

\* Another document replaces this one: everything it was waiting for is gone.
Load(page) ==
    /\ shown' = page
    /\ leaving' = "nowhere"
    /\ storedBapId' = None
    /\ attempt' = [m \in Attempt |-> IF attempt[m] = "challenge" THEN "gone" ELSE attempt[m]]
    /\ call' = [c \in Call |-> IF call[c] = "exchanging" THEN "gone" ELSE call[c]]
    /\ UNCHANGED <<session, local, of, sent, redeemed>>

\* A navigation ends at the error page or at the authorization server, which answers
\* with a code or an error; and back, forward and reload show any page of before.
Browse ==
    \/ Load(AppPage)
    \/ \E page \in CallbackPage :
          /\ page.of # None => attempt[page.of] = "redirected"
          /\ Load(page)

OAuthNext ==
    \/ \E m \in Attempt : SignIn(m) \/ Redirect(m)
    \/ \E c \in Call : \/ CallbackError(c) \/ CallbackMismatch(c) \/ CallbackExchange(c)
                       \/ Redeem(c) \/ Exchanged(c) \/ ExchangeFails(c)
    \/ RedirectToError
    \/ Browse

OAuthSpec == OAuthInit /\ [][OAuthNext]_vars

----------------------------------------------------------------------------
(* Properties                                                              *)

\* client/index.ts:745, "Clear state after successful verification": whatever the page
\* calls twice, reloads or goes back to, the code of one attempt is exchanged once.
OneExchangePerAttempt ==
    \A c, d \in Call :
        of[c] # None /\ of[c] = of[d] /\ sent[c] # None /\ sent[d] # None => c = d

\* An attempt's code is never sent with the verifier or the redirect_uri of another,
\* however attempts overlap; it may be sent without (client/index.ts:751-759).
OwnVerifier ==
    \A c \in Call : of[c] # None /\ sent[c] # None =>
        /\ sent[c].verifier \in {of[c], None}
        /\ sent[c].redirectUri \in {of[c], None}

\* CHANGELOG.md:315, "Added cleanup for sigma_code_verifier from sessionStorage after
\* successful OAuth authentication to prevent stale data": nothing that the exchange of
\* a sign-in that has returned needed is in the storage, then or ever after.
ReturnLeavesNothing ==
    \A c \in Call : call[c] = "returned" =>
        \A k \in {"state", "verifier", "redirectUri"} : session[k] # of[c]
=============================================================================
