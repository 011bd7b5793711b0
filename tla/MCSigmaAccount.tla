--------------------------- MODULE MCSigmaAccount ---------------------------
(***************************************************************************)
(* TLC instance of SigmaAccount: concurrent calls on one subject, with a   *)
(* row of another provider that shares the subject.                        *)
(***************************************************************************)
EXTENDS SigmaAccount

CONSTANTS c1, c2, c3, s1, u1, u2, r1, r2, r3, r4, r5

MCCall == {c1, c2, c3}
MCCallPair == {c1, c2}
MCSubject == {s1}
MCUser == {u1, u2}
MCOtherProvider == {"google"}
MCInitRow == {r1, r2}
\* One key per call is enough: a call creates at most one row.
MCRowId == {r1, r2, r3, r4, r5}
MCRowIdPair == {r1, r2, r3, r4}
=============================================================================
