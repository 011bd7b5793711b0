--------------------------- MODULE MCIframeSigner ---------------------------
(***************************************************************************)
(* TLC instance of IframeSigner: two calls, which overlap in init() or     *)
(* come one after destroy(); two identities, two kinds.                    *)
(***************************************************************************)
EXTENDS IframeSigner

CONSTANTS c1, c2, sign, encrypt, a, b

MCCall == {c1, c2}
MCKind == {sign, encrypt}
MCBap == {a, b}
=============================================================================
