--------------------------- MODULE MCSignerClient ---------------------------
(***************************************************************************)
(* TLC instance of SignerClient: two calls, two identities, and an         *)
(* instance of the CWI signer before a logout and one after it.            *)
(***************************************************************************)
EXTENDS SignerClient

CONSTANTS c1, c2, w1, w2, a, b

MCCall == {c1, c2}
MCSigner == {w1, w2}
MCBap == {a, b}
MCOneBap == {a}
=============================================================================
