-------------------------- MODULE MCProviderSignIn --------------------------
(***************************************************************************)
(* TLC instance of ProviderSignIn: two requests with the same key or two,  *)
(* two BAP ids, and room for a user of each request beside a registered    *)
(* one.                                                                    *)
(***************************************************************************)
EXTENDS ProviderSignIn, TLC

CONSTANTS c1, c2, k1, k2, u1, u2, u3, a, b

MCCall == {c1, c2}
MCKey == {k1, k2}
MCUser == {u1, u2, u3}
MCBapId == {a, b}

\* Nothing chooses a call, a user or a BAP id.
Interchangeable ==
    Permutations(MCCall) \cup Permutations(MCUser) \cup Permutations(MCBapId)
        \cup Permutations(MCKey)
=============================================================================
