--------------------------- MODULE StoredIdentity ---------------------------
(***************************************************************************)
(* The identity that sigmaClient, src/client/index.ts, signs with, in all  *)
(* tabs of a browser: localStorage and the session cookie are theirs       *)
(* together, the variable storedBapId and the session listener each        *)
(* document's own.  A stored identity is named by what stored it: a        *)
(* sign-in (handleCallback) or a call of setIdentity, each of which        *)
(* happens once.  Better Auth's session atom is external: a document asks  *)
(* for the session when it likes and is told later what was so when it     *)
(* asked, or that the fetch failed: an atom's value without data, which is *)
(* all the listener looks at.  clearIdentityOnSignOut has its default.     *)
(* What a sign-in needs before its callback is OAuthClient's, the signer   *)
(* SignerClient's.                                                         *)
(***************************************************************************)

CONSTANTS
    Tab,        \* tabs of the browser, with a document each
    SignIn,     \* sign-ins: the session each makes, the identity it stores
    Choice,     \* calls of setIdentity
    None,       \* no identity, no session
    Unasked     \* no answer on its way

ASSUME StoredAssumption ==
    /\ None \notin SignIn \cup Choice
    /\ Unasked \notin SignIn \cup {None}
    /\ SignIn \cap Choice = {}

VARIABLES
    cookie,         \* the session of the browser's cookie
    local,          \* localStorage's sigma_bap_id
    storedBapId,    \* storedBapId[t] : the variable of the document in t
    hadSession,     \* hadSession[t] : the variable of its session listener
    answer,         \* answer[t] : the session it is about to be told of
    stage,          \* stage[s] : how far handleCallback of s is
    at,             \* at[s] : the tab whose document called it
    chosen,         \* the calls of setIdentity made
    told,           \* history: the sessions the document in t was told of
    sawEnd,         \* history: those of them after which it was told of none
    ended,          \* history: those after which a document of any tab was told of none
    late,           \* history: the sign-ins that stored their identity after that
    cleared,        \* history: what was removed from localStorage
    crossed         \* history: of the session there is: an answer of none was on its way
                    \* when it began, or its stored identity was set or cleared by hand,
                    \* replaced by a sign-in, or cleared for a failed fetch

history == <<told, sawEnd, ended, late, cleared, crossed>>
vars == <<cookie, local, storedBapId, hadSession, answer, stage, at, chosen, history>>

Identity == SignIn \cup Choice

StoredTypeOK ==
    /\ cookie \in SignIn \cup {None}
    /\ local \in Identity \cup {None}
    /\ storedBapId \in [Tab -> Identity \cup {None}]
    /\ hadSession \in [Tab -> BOOLEAN]
    /\ answer \in [Tab -> SignIn \cup {None, Unasked}]
    /\ stage \in [SignIn -> {"unused", "exchanging", "answered", "stored", "bare", "gone"}]
    /\ at \in [SignIn -> Tab \cup {None}]
    /\ chosen \subseteq Choice
    /\ told \in [Tab -> SUBSET SignIn]
    /\ sawEnd \in [Tab -> SUBSET SignIn]
    /\ ended \subseteq SignIn
    /\ late \subseteq SignIn
    /\ cleared \subseteq Identity
    /\ crossed \in BOOLEAN
    /\ \A t \in Tab : hadSession[t] => told[t] # {}
    /\ \A s \in SignIn : stage[s] \in {"exchanging", "answered"} => at[s] \in Tab

StoredInit ==
    /\ cookie = None
    /\ local = None
    /\ storedBapId = [t \in Tab |-> None]
    /\ hadSession = [t \in Tab |-> FALSE]
    /\ answer = [t \in Tab |-> Unasked]
    /\ stage = [s \in SignIn |-> "unused"]
    /\ at = [s \in SignIn |-> None]
    /\ chosen = {}
    /\ told = [t \in Tab |-> {}]
    /\ sawEnd = [t \in Tab |-> {}]
    /\ ended = {}
    /\ late = {}
    /\ cleared = {}
    /\ crossed = FALSE

\* The session there is, if its sign-in has stored its identity.
Live == {s \in SignIn : cookie = s /\ stage[s] = "stored"}

----------------------------------------------------------------------------
(* handleCallback, its last part                                           *)

\* The callback page of s is loaded in t, and sends the code.
Callback(s, t) ==
    /\ stage[s] = "unused"
    /\ stage' = [stage EXCEPT ![s] = "exchanging"]
    /\ at' = [at EXCEPT ![s] = t]
    /\ UNCHANGED <<cookie, local, storedBapId, hadSession, answer, chosen, history>>

\* The endpoint's response sets the cookie (external); its body is still on its way.
SessionStarts(s) ==
    /\ stage[s] = "exchanging"
    /\ cookie' = s
    /\ stage' = [stage EXCEPT ![s] = "answered"]
    /\ crossed' = \E t \in Tab : hadSession[t] /\ answer[t] = None
    /\ UNCHANGED <<local, storedBapId, hadSession, answer, at, chosen, told, sawEnd, ended,
                   late, cleared>>

\* The identity x becomes that of the document in t and of the storage.
Store(t, x) ==
    /\ local' = x
    /\ storedBapId' = [storedBapId EXCEPT ![t] = x]

\* The claim bap_id of the answer is stored.
Returned(s) ==
    /\ stage[s] = "answered"
    /\ Store(at[s], s)
    /\ stage' = [stage EXCEPT ![s] = "stored"]
    /\ late' = IF s \in ended THEN late \cup {s} ELSE late
    /\ crossed' = (crossed \/ Live # {})
    /\ UNCHANGED <<cookie, hadSession, answer, at, chosen, told, sawEnd, ended, cleared>>

\* There is no such claim, or the body is lost: the identity stays as it is.
ReturnedBare(s) ==
    /\ stage[s] = "answered"
    /\ stage' = [stage EXCEPT ![s] = "bare"]
    /\ UNCHANGED <<cookie, local, storedBapId, hadSession, answer, at, chosen, history>>

----------------------------------------------------------------------------
(* The stored identity                                                     *)

\* Mutant of LoadStored: what the document has is put back into the storage.
LoadStoredSyncs(t) ==
    /\ IF storedBapId[t] # None THEN local' = storedBapId[t] /\ UNCHANGED storedBapId
       ELSE storedBapId' = [storedBapId EXCEPT ![t] = local] /\ UNCHANGED local
    /\ UNCHANGED <<cookie, hadSession, answer, stage, at, chosen, history>>

\* `storedBapId || loadStoredBapId()`, by a signing method or getIdentity(): from the
\* storage once, then from the variable.
LoadStored(t) ==
    /\ storedBapId[t] = None
    /\ storedBapId' = [storedBapId EXCEPT ![t] = local]
    /\ UNCHANGED <<cookie, local, hadSession, answer, stage, at, chosen, history>>

\* Mutant of ClearStoredIdentity: the storage keeps it.
ClearVariable(t) ==
    /\ storedBapId' = [storedBapId EXCEPT ![t] = None]
    /\ UNCHANGED <<local, cleared>>

ClearStoredIdentity(t) ==
    /\ storedBapId' = [storedBapId EXCEPT ![t] = None]
    /\ local' = None
    /\ cleared' = cleared \cup ({local} \ {None})

SetIdentity(t, x) ==
    /\ x \notin chosen
    /\ Store(t, x)
    /\ chosen' = chosen \cup {x}
    /\ crossed' = (crossed \/ Live # {})
    /\ UNCHANGED <<cookie, hadSession, answer, stage, at, told, sawEnd, ended, late,
                   cleared>>

ClearIdentity(t) ==
    /\ ClearStoredIdentity(t)
    /\ crossed' = (crossed \/ Live # {})
    /\ UNCHANGED <<cookie, hadSession, answer, stage, at, chosen, told, sawEnd, ended,
                   late>>

----------------------------------------------------------------------------
(* The session                                                             *)

\* Somebody signs out, or the session expires.
EndSession ==
    /\ cookie' = None
    /\ crossed' = FALSE
    /\ UNCHANGED <<local, storedBapId, hadSession, answer, stage, at, chosen, told, sawEnd,
                   ended, late, cleared>>

\* A document's session atom asks the server.
Ask(t) ==
    /\ answer[t] = Unasked
    /\ answer' = [answer EXCEPT ![t] = cookie]
    /\ UNCHANGED <<cookie, local, storedBapId, hadSession, stage, at, chosen, history>>

\* There is a session: the listener takes note.
ToldOfSession(t) ==
    /\ answer[t] \in SignIn
    /\ hadSession' = [hadSession EXCEPT ![t] = TRUE]
    /\ answer' = [answer EXCEPT ![t] = Unasked]
    /\ told' = [told EXCEPT ![t] = @ \cup {answer[t]}]
    /\ UNCHANGED <<cookie, local, storedBapId, stage, at, chosen, sawEnd, ended, late,
                   cleared, crossed>>

\* The fetch of a question fails, of which nothing is on its way and nothing remembered.
FetchFails(t) == answer[t] = Unasked

\* What the listener's clearing, and not clearing, leave in the histories; an answer of
\* none has crossed the session, if at all, when that began.
NotedEnd(t) ==
    /\ sawEnd' = [sawEnd EXCEPT ![t] = @ \cup told[t]]
    /\ ended' = ended \cup told[t]
    /\ crossed' = (crossed \/ (hadSession[t] /\ FetchFails(t) /\ Live # {}))

\* Mutant of ToldOfNone: the identity is cleared whatever was before.
ToldOfNoneClears(t) ==
    /\ answer[t] = None \/ FetchFails(t)
    /\ ClearStoredIdentity(t)
    /\ hadSession' = [hadSession EXCEPT ![t] = FALSE]
    /\ answer' = [answer EXCEPT ![t] = Unasked]
    /\ NotedEnd(t)
    /\ UNCHANGED <<cookie, stage, at, chosen, told, late>>

\* The value has no data, for there is no session or the fetch failed: if there was one,
\* the identity is cleared.
ToldOfNone(t) ==
    /\ answer[t] = None \/ FetchFails(t)
    /\ IF hadSession[t] THEN ClearStoredIdentity(t)
       ELSE UNCHANGED <<local, storedBapId, cleared>>
    /\ hadSession' = [hadSession EXCEPT ![t] = FALSE]
    /\ answer' = [answer EXCEPT ![t] = Unasked]
    /\ NotedEnd(t)
    /\ UNCHANGED <<cookie, stage, at, chosen, told, late>>

Abandon(t) ==
    stage' = [s \in SignIn |->
                IF at[s] = t /\ stage[s] \in {"exchanging", "answered"} THEN "gone"
                ELSE stage[s]]

\* Mutant of Load: the listener's variable outlives the document.
LoadKeepsListener(t) ==
    /\ storedBapId' = [storedBapId EXCEPT ![t] = None]
    /\ answer' = [answer EXCEPT ![t] = Unasked]
    /\ told' = [told EXCEPT ![t] = {}]
    /\ sawEnd' = [sawEnd EXCEPT ![t] = {}]
    /\ Abandon(t)
    /\ UNCHANGED <<cookie, local, hadSession, at, chosen, ended, late, cleared, crossed>>

\* Another document replaces the one in t, with what it was waiting for.
Load(t) ==
    /\ storedBapId' = [storedBapId EXCEPT ![t] = None]
    /\ hadSession' = [hadSession EXCEPT ![t] = FALSE]
    /\ answer' = [answer EXCEPT ![t] = Unasked]
    /\ told' = [told EXCEPT ![t] = {}]
    /\ sawEnd' = [sawEnd EXCEPT ![t] = {}]
    /\ Abandon(t)
    /\ UNCHANGED <<cookie, local, at, chosen, ended, late, cleared, crossed>>

----------------------------------------------------------------------------

TabStep(t) ==
    \/ \E s \in SignIn : Callback(s, t)
    \/ LoadStored(t)
    \/ \E x \in Choice : SetIdentity(t, x)
    \/ ClearIdentity(t)
    \/ Ask(t) \/ ToldOfSession(t) \/ ToldOfNone(t)
    \/ Load(t)

StoredNext ==
    \/ \E t \in Tab : TabStep(t)
    \/ \E s \in SignIn : SessionStarts(s) \/ Returned(s) \/ ReturnedBare(s)
    \/ EndSession

StoredSpec == StoredInit /\ [][StoredNext]_vars

----------------------------------------------------------------------------
(* Properties                                                              *)

\* CHANGELOG.md:299, "clears persisted Sigma identity when Better Auth session
\* transitions from signed-in to signed-out": the identity of a session that a document
\* was told of, and after it of none, is neither in the storage nor with that document
\* again, unless its own callback returns later.
SeenToEndIsGone ==
    \A s \in SignIn \ late :
        /\ s \in ended => local # s
        /\ \A t \in Tab : s \in sawEnd[t] => storedBapId[t] # s

\* An identity that one tab has removed from the storage (client/index.ts:156-160) comes
\* back nowhere: not to the storage, nor to a document that did not have it already.
ClearedForGood ==
    [][/\ local' \notin cleared
       /\ \A t \in Tab : storedBapId'[t] \in cleared => storedBapId'[t] = storedBapId[t]]_vars

\* When a live session loses its identity: by hand; to another sign-in that returns after
\* it; to a session fetch that failed, which the listener (client/index.ts:361-367) takes
\* for a sign-out because it looks at the data alone; or to an answer of none that was
\* asked for before the session began.  No other answer takes it away.
LiveSessionKeepsIdentity ==
    \A s \in Live : local = s \/ crossed
=============================================================================
