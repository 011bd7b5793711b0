-------------------------- MODULE OAuthClientProofs --------------------------
(***************************************************************************)
(* The invariants of the redirect flow, for any number of attempts and     *)
(* calls of handleCallback.  They are inductive together with what the     *)
(* storage says of the attempt whose state it holds (StorageInv) and what  *)
(* a call says of its attempt (CallInv).                                   *)
(***************************************************************************)
EXTENDS OAuthClient, TLAPS

\* What is in the storage was written by an attempt that went away; and the attempt
\* whose state is there has not been exchanged, nor was anything of its exchange
\* overwritten by another.
StorageInv ==
    /\ \A k \in Key : session[k] # None => attempt[session[k]] = "redirected"
    /\ session["state"] # None =>
          /\ session["verifier"] \in {session["state"], None}
          /\ session["redirectUri"] \in {session["state"], None}
          /\ \A c \in Call : of[c] = session["state"] => sent[c] = None

CallInv ==
    /\ shown # AppPage /\ shown.of # None => attempt[shown.of] = "redirected"
    /\ \A c \in Call :
          /\ of[c] # None => attempt[of[c]] = "redirected"
          /\ call[c] = "unused" => of[c] = None /\ sent[c] = None
          /\ call[c] \in {"exchanging", "returned"} => sent[c] # None
          /\ call[c] = "returned" => of[c] # None

OAuthInv ==
    /\ OAuthTypeOK
    /\ StorageInv
    /\ CallInv
    /\ OneExchangePerAttempt
    /\ OwnVerifier
    /\ ReturnLeavesNothing

\* The invariant holds at first.
LEMMA OAuthInitInv == OAuthInit => OAuthInv
  BY OAuthAssumption
  DEF OAuthInit, OAuthInv, OAuthTypeOK, StorageInv, CallInv, OneExchangePerAttempt,
      OwnVerifier, ReturnLeavesNothing, Key

\* Every step keeps it.
LEMMA OAuthStepInv == OAuthInv /\ [OAuthNext]_vars => OAuthInv'
<1> SUFFICES ASSUME OAuthInv, [OAuthNext]_vars
             PROVE  OAuthInv'
  OBVIOUS
<1> USE OAuthAssumption DEF OAuthInv, StorageInv, CallInv, Key
<1>1. CASE UNCHANGED vars
  BY <1>1 DEF vars, OAuthTypeOK, OneExchangePerAttempt, OwnVerifier, ReturnLeavesNothing
<1>2. CASE \E m \in Attempt : SignIn(m)
  BY <1>2 DEF SignIn, OAuthTypeOK, OneExchangePerAttempt, OwnVerifier,
              ReturnLeavesNothing
<1>3. CASE \E m \in Attempt : Redirect(m)
  <2>1. PICK m \in Attempt : Redirect(m)
    BY <1>3
  <2>2. OAuthTypeOK'
    BY <2>1 DEF Redirect, OAuthTypeOK
  <2>3. \A c \in Call : of[c] # m
    BY <2>1 DEF Redirect
  <2>4. StorageInv' /\ CallInv'
    BY <2>1, <2>3 DEF Redirect, OAuthTypeOK, CallbackPage
  <2>5. OneExchangePerAttempt' /\ OwnVerifier' /\ ReturnLeavesNothing'
    BY <2>1, <2>3 DEF Redirect, OAuthTypeOK, OneExchangePerAttempt, OwnVerifier,
                      ReturnLeavesNothing
  <2> QED
    BY <2>2, <2>4, <2>5
<1>4. ASSUME NEW c \in Call, CallbackError(c) \/ CallbackMismatch(c)
      PROVE  OAuthInv'
  <2>1. shown.of \in Attempt \cup {None}
    BY <1>4 DEF CallbackError, CallbackMismatch, Called, OAuthTypeOK, CallbackPage
  <2>2. /\ session' \in [Key -> Attempt \cup {None}]
        /\ \A k \in Key : session'[k] \in {session[k], None}
        /\ UNCHANGED <<local, storedBapId, shown, leaving, attempt, sent, redeemed>>
        /\ of' = [of EXCEPT ![c] = shown.of]
        /\ call' = [call EXCEPT ![c] = "thrown"]
        /\ call[c] = "unused" /\ shown # AppPage
    BY <1>4 DEF CallbackError, CallbackMismatch, Called, OAuthTypeOK, Remove
  <2>3. OAuthTypeOK'
    BY <2>1, <2>2 DEF OAuthTypeOK
  <2>4. StorageInv' /\ CallInv'
    BY <2>1, <2>2 DEF OAuthTypeOK
  <2>5. OneExchangePerAttempt' /\ OwnVerifier' /\ ReturnLeavesNothing'
    BY <2>1, <2>2 DEF OAuthTypeOK, OneExchangePerAttempt, OwnVerifier,
                      ReturnLeavesNothing
  <2> QED
    BY <2>3, <2>4, <2>5
<1>5. ASSUME NEW c \in Call, CallbackExchange(c)
      PROVE  OAuthInv'
  <2>1. /\ shown.of \in Attempt \cup {None}
        /\ shown.of = session["state"]
    BY <1>5 DEF CallbackExchange, Called, OAuthTypeOK, CallbackPage
  <2>2. /\ session' = [k \in Key |-> IF k = "state" THEN None ELSE session[k]]
        /\ UNCHANGED <<local, storedBapId, shown, leaving, attempt, redeemed>>
        /\ of' = [of EXCEPT ![c] = shown.of]
        /\ call' = [call EXCEPT ![c] = "exchanging"]
        /\ call[c] = "unused" /\ shown # AppPage
    BY <1>5 DEF CallbackExchange, Called, OAuthTypeOK, Remove
  <2>3. /\ sent' \in [Call -> Exchange \cup {None}]
        /\ \A d \in Call : d # c => sent'[d] = sent[d]
        /\ sent'[c] \in Exchange
        /\ sent'[c].verifier = session["verifier"]
        /\ sent'[c].redirectUri = session["redirectUri"]
    BY <1>5 DEF CallbackExchange, OAuthTypeOK, Exchange
  <2>4. OAuthTypeOK'
    BY <2>1, <2>2, <2>3 DEF OAuthTypeOK
  <2>5. StorageInv' /\ CallInv'
    BY <2>1, <2>2, <2>3 DEF OAuthTypeOK
  <2>6. OneExchangePerAttempt' /\ OwnVerifier' /\ ReturnLeavesNothing'
    BY <2>1, <2>2, <2>3 DEF OAuthTypeOK, OneExchangePerAttempt, OwnVerifier,
                            ReturnLeavesNothing
  <2> QED
    BY <2>4, <2>5, <2>6
<1>6. ASSUME NEW c \in Call, Redeem(c)
      PROVE  OAuthInv'
  <2>1. of[c] \in Attempt
    BY <1>6 DEF Redeem, OAuthTypeOK
  <2> QED
    BY <1>6, <2>1 DEF Redeem, OAuthTypeOK, OneExchangePerAttempt, OwnVerifier,
                      ReturnLeavesNothing
<1>7. ASSUME NEW c \in Call, Exchanged(c)
      PROVE  OAuthInv'
  <2>1. /\ session' \in [Key -> Attempt \cup {None}]
        /\ \A k \in Key : session'[k] \in {session[k], None}
        /\ session'["verifier"] = None /\ session'["redirectUri"] = None
        /\ UNCHANGED <<shown, leaving, attempt, of, sent, redeemed>>
        /\ call' = [call EXCEPT ![c] = "returned"]
        /\ call[c] = "exchanging" /\ of[c] # None
    BY <1>7 DEF Exchanged, OAuthTypeOK, Remove
  <2>2. OAuthTypeOK'
    BY <1>7, <2>1 DEF Exchanged, OAuthTypeOK
  <2>3. StorageInv' /\ CallInv'
    BY <2>1 DEF OAuthTypeOK
  <2>4. OneExchangePerAttempt' /\ OwnVerifier'
    BY <2>1 DEF OneExchangePerAttempt, OwnVerifier
  <2>5. ReturnLeavesNothing'
    BY <2>1 DEF OAuthTypeOK, ReturnLeavesNothing
  <2> QED
    BY <2>2, <2>3, <2>4, <2>5
<1>8. ASSUME NEW c \in Call, ExchangeFails(c)
      PROVE  OAuthInv'
  BY <1>8 DEF ExchangeFails, OAuthTypeOK, OneExchangePerAttempt, OwnVerifier,
              ReturnLeavesNothing
<1>9. CASE RedirectToError
  <2>1. /\ session' \in [Key -> Attempt \cup {None}]
        /\ \A k \in Key : session'[k] \in {session[k], None}
        /\ leaving' = "error"
        /\ UNCHANGED <<local, storedBapId, shown, attempt, call, of, sent, redeemed>>
    BY <1>9 DEF RedirectToError, OAuthTypeOK, Remove
  <2> QED
    BY <2>1 DEF OAuthTypeOK, OneExchangePerAttempt, OwnVerifier, ReturnLeavesNothing
<1>10. CASE Browse
  <2>1. PICK page \in {AppPage} \cup CallbackPage :
          /\ page # AppPage /\ page.of # None => attempt[page.of] = "redirected"
          /\ Load(page)
    BY <1>10 DEF Browse
  <2>2. OAuthTypeOK'
    BY <2>1 DEF Load, OAuthTypeOK
  <2>3. \A m \in Attempt : attempt[m] = "redirected" => attempt'[m] = "redirected"
    BY <2>1 DEF Load, OAuthTypeOK
  <2>4. StorageInv' /\ CallInv'
    BY <2>1, <2>3 DEF Load, OAuthTypeOK, CallbackPage
  <2>5. OneExchangePerAttempt' /\ OwnVerifier' /\ ReturnLeavesNothing'
    BY <2>1 DEF Load, OAuthTypeOK, OneExchangePerAttempt, OwnVerifier,
                ReturnLeavesNothing
  <2> QED
    BY <2>2, <2>4, <2>5
<1> QED
  BY <1>1, <1>2, <1>3, <1>4, <1>5, <1>6, <1>7, <1>8, <1>9, <1>10 DEF OAuthNext

\* Whatever the page calls and the user does with the tab, in any number of attempts.
THEOREM OAuthInvariant == OAuthSpec => []OAuthInv
  BY OAuthInitInv, OAuthStepInv, PTL DEF OAuthSpec

\* The storage, the document, the attempts and the calls keep their types.
THEOREM OAuthTypeCorrect == OAuthSpec => []OAuthTypeOK
  BY OAuthInvariant, PTL DEF OAuthInv

\* The code of an attempt is exchanged at most once.
THEOREM CodeExchangedOnce == OAuthSpec => []OneExchangePerAttempt
  BY OAuthInvariant, PTL DEF OAuthInv

\* A code never goes out with another attempt's verifier or redirect_uri.
THEOREM NeverAnothersVerifier == OAuthSpec => []OwnVerifier
  BY OAuthInvariant, PTL DEF OAuthInv

\* A sign-in that has returned leaves nothing of its exchange in the storage.
THEOREM FinishedLeavesNothing == OAuthSpec => []ReturnLeavesNothing
  BY OAuthInvariant, PTL DEF OAuthInv
=============================================================================
