-------------------------- MODULE MCProviderTokens --------------------------
(***************************************************************************)
(* TLC instance of ProviderTokens: two sign-ins and an exchange, two keys, *)
(* two BAP ids, two users (one of them may own the other's organization).  *)
(***************************************************************************)
EXTENDS ProviderTokens, TLC

CONSTANTS c1, c2, x1, k1, k2, u1, u2, a, b

MCCall == {c1, c2}
MCExchange == {x1}
MCKey == {k1, k2}
MCUser == {u1, u2}
MCBapId == {a, b}

\* Nothing chooses a call, a user, a key or a BAP id.
Interchangeable ==
    Permutations(MCCall) \cup Permutations(MCUser) \cup Permutations(MCBapId)
        \cup Permutations(MCKey)
=============================================================================
