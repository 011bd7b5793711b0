-------------------------- MODULE MCStoredIdentity --------------------------
(***************************************************************************)
(* TLC instance of StoredIdentity: two tabs, two sign-ins, one after or    *)
(* over the other, and an identity set by hand.                            *)
(***************************************************************************)
EXTENDS StoredIdentity, TLC

CONSTANTS t1, t2, s1, s2, x1

MCTab == {t1, t2}
MCSignIn == {s1, s2}
MCChoice == {x1}

\* Nothing chooses a tab or a sign-in.
Interchangeable == Permutations(MCTab) \cup Permutations(MCSignIn)
=============================================================================
