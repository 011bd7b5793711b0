---------------------------- MODULE MCOAuthClient ----------------------------
(***************************************************************************)
(* TLC instance of OAuthClient: two attempts that overlap and a third that *)
(* comes after, and three calls on any pages: two on one attempt's page    *)
(* leave one for another's.                                                *)
(***************************************************************************)
EXTENDS OAuthClient, TLC

CONSTANTS m1, m2, m3, c1, c2, c3, b1, b2

MCAttempt == {m1, m2, m3}
MCCall == {c1, c2, c3}
MCBapId == {b1, b2}

\* Nothing chooses an attempt, a call or an identity.
Interchangeable ==
    Permutations(MCAttempt) \cup Permutations(MCCall) \cup Permutations(MCBapId)
=============================================================================
