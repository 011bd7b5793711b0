---------------------------- MODULE MCCWISigner ----------------------------
(***************************************************************************)
(* TLC instance of CWISigner: one signer, two calls that may overlap, and  *)
(* two identities.                                                         *)
(***************************************************************************)
EXTENDS CWISigner

CONSTANTS c1, c2, w1, a, b

MCCall == {c1, c2}
MCSigner == {w1}
MCBap == {a, b}
=============================================================================
