--------------------------- MODULE MCSigmaSignIn ---------------------------
(***************************************************************************)
(* TLC instance of SigmaSignIn: two callbacks, for the same or different   *)
(* subjects, one user already registered and room for one user a callback  *)
(* may create.                                                             *)
(***************************************************************************)
EXTENDS SigmaSignIn

CONSTANTS c1, c2, s1, s2, u1, u2, u3, e1, e2, r1, r2, r3

MCCall == {c1, c2}
MCSubject == {s1, s2}
MCUser == {u1, u2, u3}
MCEmail == {e1, e2}
MCInitUser == {u1}
MCOtherProvider == {}
MCInitRow == {r1}
MCRowId == {r1, r2, r3}
=============================================================================
