------------------------ MODULE StoredIdentityProofs ------------------------
(***************************************************************************)
(* The invariants of StoredIdentity for any number of tabs, sign-ins and   *)
(* identities set by hand.                                                 *)
(***************************************************************************)
EXTENDS StoredIdentity, TLAPS

\* Whatever is or was in the storage has been stored: it will not be stored again.
OnceInv ==
    /\ \A s \in SignIn : s = local \/ s \in cleared => stage[s] = "stored"
    /\ \A x \in Choice : x = local \/ x \in cleared => x \in chosen
    /\ local \notin cleared

\* The histories of a document are part of everybody's, and a listener that has been
\* told of a session, and is not waiting for its end, has seen it.
EndInv ==
    \A t \in Tab : /\ sawEnd[t] \subseteq ended
                   /\ hadSession[t] \/ told[t] \subseteq sawEnd[t]

\* An answer of none, on its way to a listener that would clear, is older than the
\* session there is.
AnswerInv ==
    \A t \in Tab : hadSession[t] /\ answer[t] = None /\ cookie # None => crossed

StoredInv ==
    /\ StoredTypeOK /\ OnceInv /\ EndInv /\ AnswerInv
    /\ SeenToEndIsGone /\ LiveSessionKeepsIdentity

LEMMA StoredInitInv == StoredInit => StoredInv
<1> SUFFICES ASSUME StoredInit PROVE StoredInv
  OBVIOUS
<1> USE StoredAssumption DEF StoredInit
<1>1. StoredTypeOK
  BY DEF StoredTypeOK, Identity
<1>2. OnceInv /\ EndInv /\ AnswerInv
  BY DEF OnceInv, EndInv, AnswerInv
<1>3. SeenToEndIsGone /\ LiveSessionKeepsIdentity
  BY DEF SeenToEndIsGone, LiveSessionKeepsIdentity, Live
<1> QED
  BY <1>1, <1>2, <1>3 DEF StoredInv

\* Types.
LEMMA TypeStep ==
  ASSUME StoredTypeOK, [StoredNext]_vars
  PROVE  StoredTypeOK'
<1> USE StoredAssumption DEF StoredTypeOK, Identity
<1>1. ASSUME NEW t \in Tab, NEW s \in SignIn, Callback(s, t) PROVE StoredTypeOK'
  BY <1>1 DEF Callback, history
<1>2. ASSUME NEW t \in Tab, LoadStored(t) PROVE StoredTypeOK'
  BY <1>2 DEF LoadStored, history
<1>3. ASSUME NEW t \in Tab, NEW x \in Choice, SetIdentity(t, x) PROVE StoredTypeOK'
  BY <1>3 DEF SetIdentity, Store
<1>4. ASSUME NEW t \in Tab, ClearIdentity(t) PROVE StoredTypeOK'
  BY <1>4 DEF ClearIdentity, ClearStoredIdentity
<1>5. ASSUME NEW t \in Tab, Ask(t) PROVE StoredTypeOK'
  BY <1>5 DEF Ask, history
<1>6. ASSUME NEW t \in Tab, ToldOfSession(t) PROVE StoredTypeOK'
  BY <1>6 DEF ToldOfSession
<1>7. ASSUME NEW t \in Tab, ToldOfNone(t) PROVE StoredTypeOK'
  BY <1>7 DEF ToldOfNone, ClearStoredIdentity, NotedEnd, Live
<1>8. ASSUME NEW t \in Tab, Load(t) PROVE StoredTypeOK'
  BY <1>8 DEF Load, Abandon
<1>9. ASSUME NEW s \in SignIn, SessionStarts(s) PROVE StoredTypeOK'
  BY <1>9 DEF SessionStarts
<1>10. ASSUME NEW s \in SignIn, Returned(s) PROVE StoredTypeOK'
  BY <1>10 DEF Returned, Store, Live
<1>11. ASSUME NEW s \in SignIn, ReturnedBare(s) PROVE StoredTypeOK'
  BY <1>11 DEF ReturnedBare, history
<1>12. CASE EndSession
  BY <1>12 DEF EndSession, history
<1>13. CASE UNCHANGED vars
  BY <1>13 DEF vars, history
<1> QED
  BY <1>1, <1>2, <1>3, <1>4, <1>5, <1>6, <1>7, <1>8, <1>9, <1>10, <1>11, <1>12, <1>13
     DEF StoredNext, TabStep

\* Nothing is stored twice.
LEMMA OnceStep ==
  ASSUME StoredTypeOK, OnceInv, [StoredNext]_vars
  PROVE  OnceInv'
<1> USE StoredAssumption DEF StoredTypeOK, OnceInv, Identity
<1>1. ASSUME NEW t \in Tab, NEW s \in SignIn, Callback(s, t) PROVE OnceInv'
  BY <1>1 DEF Callback, history
<1>2. ASSUME NEW t \in Tab, NEW x \in Choice, SetIdentity(t, x) PROVE OnceInv'
  BY <1>2 DEF SetIdentity, Store
<1>3. ASSUME NEW t \in Tab, ClearStoredIdentity(t), UNCHANGED <<stage, chosen>>
      PROVE  OnceInv'
  BY <1>3 DEF ClearStoredIdentity
<1>4. ASSUME NEW t \in Tab, ToldOfNone(t) PROVE OnceInv'
  BY <1>3, <1>4 DEF ToldOfNone
<1>5. ASSUME NEW t \in Tab, Load(t) PROVE OnceInv'
  BY <1>5 DEF Load, Abandon
<1>6. ASSUME NEW s \in SignIn, SessionStarts(s) \/ ReturnedBare(s) PROVE OnceInv'
  BY <1>6 DEF SessionStarts, ReturnedBare, history
<1>7. ASSUME NEW s \in SignIn, Returned(s) PROVE OnceInv'
  BY <1>7 DEF Returned, Store
<1>8. CASE UNCHANGED <<local, stage, chosen, cleared>>
  BY <1>8
<1> QED
  BY <1>1, <1>2, <1>3, <1>4, <1>5, <1>6, <1>7, <1>8
     DEF StoredNext, TabStep, LoadStored, ClearIdentity, Ask, ToldOfSession, EndSession,
         vars, history

\* What the listeners know.
LEMMA EndStep ==
  ASSUME StoredTypeOK, EndInv, [StoredNext]_vars
  PROVE  EndInv'
<1> USE DEF StoredTypeOK, EndInv
<1>1. ASSUME NEW t \in Tab, ToldOfSession(t) PROVE EndInv'
  BY <1>1 DEF ToldOfSession
<1>2. ASSUME NEW t \in Tab, ToldOfNone(t) PROVE EndInv'
  BY <1>2 DEF ToldOfNone, NotedEnd
<1>3. ASSUME NEW t \in Tab, Load(t) PROVE EndInv'
  BY <1>3 DEF Load
<1>4. CASE UNCHANGED <<hadSession, told, sawEnd, ended>>
  BY <1>4
<1> QED
  BY <1>1, <1>2, <1>3, <1>4
     DEF StoredNext, TabStep, Callback, LoadStored, SetIdentity, ClearIdentity, Ask,
         SessionStarts, Returned, ReturnedBare, EndSession, vars, history

\* What an answer of none is older than.
LEMMA AnswerStep ==
  ASSUME StoredTypeOK, AnswerInv, [StoredNext]_vars
  PROVE  AnswerInv'
<1> USE StoredAssumption DEF StoredTypeOK, AnswerInv
<1>1. ASSUME NEW t \in Tab, Ask(t) PROVE AnswerInv'
  BY <1>1 DEF Ask, history
<1>2. ASSUME NEW t \in Tab, ToldOfSession(t) PROVE AnswerInv'
  BY <1>2 DEF ToldOfSession
<1>3. ASSUME NEW t \in Tab, ToldOfNone(t) PROVE AnswerInv'
  BY <1>3 DEF ToldOfNone, NotedEnd
<1>4. ASSUME NEW t \in Tab, Load(t) PROVE AnswerInv'
  BY <1>4 DEF Load
<1>5. ASSUME NEW s \in SignIn, SessionStarts(s) PROVE AnswerInv'
  BY <1>5 DEF SessionStarts
<1>6. ASSUME NEW s \in SignIn, Returned(s) PROVE AnswerInv'
  BY <1>6 DEF Returned
<1>7. CASE EndSession
  BY <1>7 DEF EndSession
<1>8. CASE UNCHANGED <<cookie, hadSession, answer>> /\ (crossed => crossed')
  BY <1>8
<1> QED
  BY <1>1, <1>2, <1>3, <1>4, <1>5, <1>6, <1>7, <1>8
     DEF StoredNext, TabStep, Callback, LoadStored, SetIdentity, ClearIdentity,
         ReturnedBare, vars, history

\* Clearing puts nothing in the way of SeenToEndIsGone.
LEMMA ClearGone ==
  ASSUME StoredTypeOK, SeenToEndIsGone, NEW t \in Tab, ClearStoredIdentity(t),
         late' = late, ended' = ended \cup told[t],
         \A u \in Tab : u # t => sawEnd'[u] = sawEnd[u]
  PROVE  SeenToEndIsGone'
  BY StoredAssumption DEF StoredTypeOK, SeenToEndIsGone, ClearStoredIdentity

LEMMA GoneStep ==
  ASSUME StoredTypeOK, EndInv, SeenToEndIsGone, [StoredNext]_vars
  PROVE  SeenToEndIsGone'
<1> USE StoredAssumption DEF StoredTypeOK, SeenToEndIsGone
<1>1. ASSUME NEW t \in Tab, LoadStored(t) PROVE SeenToEndIsGone'
  BY <1>1 DEF LoadStored, EndInv, history
<1>2. ASSUME NEW t \in Tab, NEW x \in Choice, SetIdentity(t, x) PROVE SeenToEndIsGone'
  BY <1>2 DEF SetIdentity, Store
<1>3. ASSUME NEW t \in Tab, ClearIdentity(t) PROVE SeenToEndIsGone'
  BY <1>3 DEF ClearIdentity, ClearStoredIdentity
<1>4. ASSUME NEW t \in Tab, ToldOfNone(t) PROVE SeenToEndIsGone'
  <2>1. CASE hadSession[t]
    BY <1>4, <2>1, ClearGone DEF ToldOfNone, NotedEnd
  <2>2. CASE ~hadSession[t]
    BY <1>4, <2>2 DEF ToldOfNone, NotedEnd, EndInv
  <2> QED
    BY <2>1, <2>2
<1>5. ASSUME NEW t \in Tab, Load(t) PROVE SeenToEndIsGone'
  BY <1>5 DEF Load
<1>6. ASSUME NEW s \in SignIn, Returned(s) PROVE SeenToEndIsGone'
  BY <1>6 DEF Returned, Store, EndInv
<1>7. CASE UNCHANGED <<local, storedBapId, sawEnd, ended, late>>
  BY <1>7
<1> QED
  BY <1>1, <1>2, <1>3, <1>4, <1>5, <1>6, <1>7
     DEF StoredNext, TabStep, Callback, Ask, ToldOfSession, SessionStarts, ReturnedBare,
         EndSession, vars, history

LEMMA LiveStep ==
  ASSUME StoredTypeOK, AnswerInv, LiveSessionKeepsIdentity, [StoredNext]_vars
  PROVE  LiveSessionKeepsIdentity'
<1> USE StoredAssumption DEF StoredTypeOK, LiveSessionKeepsIdentity, Live
<1>1. ASSUME NEW t \in Tab, NEW s \in SignIn, Callback(s, t)
      PROVE  LiveSessionKeepsIdentity'
  BY <1>1 DEF Callback, history
<1>2. ASSUME NEW t \in Tab, ToldOfNone(t) PROVE LiveSessionKeepsIdentity'
  BY <1>2 DEF ToldOfNone, ClearStoredIdentity, NotedEnd, AnswerInv
<1>3. ASSUME NEW t \in Tab, Load(t) PROVE LiveSessionKeepsIdentity'
  BY <1>3 DEF Load, Abandon
<1>4. ASSUME NEW s \in SignIn, SessionStarts(s) PROVE LiveSessionKeepsIdentity'
  BY <1>4 DEF SessionStarts, history
<1>5. ASSUME NEW s \in SignIn, ReturnedBare(s) PROVE LiveSessionKeepsIdentity'
  BY <1>5 DEF ReturnedBare, history
<1>6. ASSUME NEW s \in SignIn, Returned(s) PROVE LiveSessionKeepsIdentity'
  BY <1>6 DEF Returned, Store
<1>7. CASE EndSession
  BY <1>7 DEF EndSession, history
<1>8. ASSUME NEW t \in Tab, ClearIdentity(t) \/ \E x \in Choice : SetIdentity(t, x)
      PROVE  LiveSessionKeepsIdentity'
  BY <1>8 DEF ClearIdentity, SetIdentity
<1>9. CASE UNCHANGED <<cookie, local, stage, crossed>>
  BY <1>9
<1> QED
  BY <1>1, <1>2, <1>3, <1>4, <1>5, <1>6, <1>7, <1>8, <1>9
     DEF StoredNext, TabStep, LoadStored, Ask, ToldOfSession, vars, history

\* The invariant holds throughout.
THEOREM StoredInvariant == StoredSpec => []StoredInv
<1>1. StoredInv /\ [StoredNext]_vars => StoredInv'
  BY TypeStep, OnceStep, EndStep, AnswerStep, GoneStep, LiveStep DEF StoredInv
<1> QED
  BY StoredInitInv, <1>1, PTL DEF StoredSpec

\* The storage, the documents and the sign-ins keep their types (client/index.ts:145-166,
\* 343-369).
THEOREM StoredTypeCorrect == StoredSpec => []StoredTypeOK
  BY StoredInvariant, PTL DEF StoredInv

\* The identity of a session seen to its end is gone, in any number of tabs
\* (client/index.ts:361-367).
THEOREM SignedOutIsGone == StoredSpec => []SeenToEndIsGone
  BY StoredInvariant, PTL DEF StoredInv

\* Only a choice by hand, a later sign-in, a failed session fetch or an answer older than
\* the session takes a live session's identity away (client/index.ts:361-367).
THEOREM LiveSessionKept == StoredSpec => []LiveSessionKeepsIdentity
  BY StoredInvariant, PTL DEF StoredInv

\* What was removed from the storage comes back nowhere (client/index.ts:145-166).
THEOREM ClearedStaysCleared == StoredSpec => ClearedForGood
<1> DEFINE Kept == /\ local' \notin cleared
                   /\ \A t \in Tab : storedBapId'[t] \in cleared =>
                                        storedBapId'[t] = storedBapId[t]
<1>1. StoredInv /\ [StoredNext]_vars => [Kept]_vars
  <2> SUFFICES ASSUME StoredInv, StoredNext PROVE Kept
    OBVIOUS
  <2> USE StoredAssumption DEF StoredInv, StoredTypeOK, OnceInv, Identity
  <2>1. ASSUME NEW t \in Tab, LoadStored(t) PROVE Kept
    BY <2>1 DEF LoadStored
  <2>2. ASSUME NEW t \in Tab, NEW x \in Choice, SetIdentity(t, x) PROVE Kept
    BY <2>2 DEF SetIdentity, Store
  <2>3. ASSUME NEW t \in Tab, ClearStoredIdentity(t) PROVE Kept
    BY <2>3 DEF ClearStoredIdentity
  <2>4. ASSUME NEW t \in Tab, ToldOfNone(t) PROVE Kept
    BY <2>3, <2>4 DEF ToldOfNone
  <2>5. ASSUME NEW t \in Tab, Load(t) PROVE Kept
    BY <2>5 DEF Load
  <2>6. ASSUME NEW s \in SignIn, Returned(s) PROVE Kept
    BY <2>6 DEF Returned, Store
  <2>7. CASE UNCHANGED <<local, storedBapId>>
    BY <2>7
  <2> QED
    BY <2>1, <2>2, <2>3, <2>4, <2>5, <2>6, <2>7
       DEF StoredNext, TabStep, Callback, ClearIdentity, Ask, ToldOfSession,
           SessionStarts, ReturnedBare, EndSession
<1> QED
  BY StoredInvariant, <1>1, PTL DEF StoredSpec, ClearedForGood
=============================================================================
