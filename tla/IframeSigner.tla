---------------------------- MODULE IframeSigner ----------------------------
(***************************************************************************)
(* SigmaIframeSigner, src/client/signer.ts, the signer that the package    *)
(* still exports and whose place in the client CWISigner has taken.  There *)
(* is no handshake: a call waits for the iframe's load event, then tells   *)
(* the page the identity and posts its request in one turn.  Each kind of  *)
(* request has a map of its own.  The page is external: it hears messages  *)
(* in order once it has loaded, and answers in any order, late, or never.  *)
(***************************************************************************)
EXTENDS Naturals, Sequences

CONSTANTS
    Call,       \* calls of sign, signAIP, encrypt, decrypt, ...
    Kind,       \* these methods, each with its own map of pending requests
    Bap,        \* BAP ids
    NoBap,      \* no identity set (null)
    MaxInbox    \* bound: setIdentity is not called with more messages unread

ASSUME IframeAssumption ==
    /\ NoBap \notin Bap
    /\ "error" \notin Bap
    /\ Kind # {}
    /\ MaxInbox \in Nat

VARIABLES
    iframe,         \* the latest iframe, 0 is null
    initialized,
    currentBapId,
    pending,        \* pending[k] : the requests of the map of kind k
    appended,       \* iframes init() has added to the document
    loading,        \* those still in it that have not loaded
    loaded,         \* those still in it whose page is there
    inbox,          \* posted to the latest one, not yet read
    told,           \* the identity the latest one was told
    replies,        \* posted by the page, not yet delivered
    pc,             \* pc[c] : the await the call c is at
    kind,           \* kind[c] : its method
    load,           \* load[c] : the load promise its init() awaits
    answer,         \* answer[c] : the identity that signed, or "error"
    asked           \* history: the identity when the request of c was posted

fieldVars == <<iframe, initialized, currentBapId, pending>>
pageVars == <<appended, loading, loaded, inbox, told, replies>>
callVars == <<pc, kind, load, answer, asked>>
vars == <<fieldVars, pageVars, callVars>>

Message == [type : {"SET_IDENTITY"}, bapId : Bap] \cup [type : {"REQUEST"}, id : Call]
Reply == [id : Call, by : Bap \cup {"error"}]
Load == [iframe : Nat, state : {"open", "resolved", "rejected"}]

\* Types, and the bookkeeping of promises: the maps hold the calls that await an answer,
\* each in the map of its kind.
IframeTypeOK ==
    /\ iframe \in 0 .. appended
    /\ initialized \in BOOLEAN
    /\ currentBapId \in Bap \cup {NoBap}
    /\ pending \in [Kind -> SUBSET Call]
    /\ appended \in Nat
    /\ loading \subseteq 1 .. appended
    /\ loaded \subseteq 1 .. appended
    /\ inbox \in Seq(Message)
    /\ told \in Bap \cup {NoBap}
    /\ replies \subseteq Reply
    /\ pc \in [Call -> {"idle", "load", "answer", "settled"}]
    /\ kind \in [Call -> Kind]
    /\ load \in [Call -> Load]
    /\ answer \in [Call -> Bap \cup {NoBap, "error"}]
    /\ asked \in [Call -> Bap \cup {NoBap}]
    /\ \A k \in Kind : pending[k] = {c \in Call : pc[c] = "answer" /\ kind[c] = k}

IframeInit ==
    /\ iframe = 0 /\ initialized = FALSE /\ currentBapId = NoBap
    /\ pending = [k \in Kind |-> {}]
    /\ appended = 0 /\ loading = {} /\ loaded = {}
    /\ inbox = <<>> /\ told = NoBap /\ replies = {}
    /\ pc = [c \in Call |-> "idle"]
    /\ kind \in [Call -> Kind]
    /\ load = [c \in Call |-> [iframe |-> 0, state |-> "open"]]
    /\ answer = [c \in Call |-> NoBap]
    /\ asked = [c \in Call |-> NoBap]

----------------------------------------------------------------------------
(* Settling and posting                                                    *)

Settled(C, result) ==
    /\ pc' = [c \in Call |-> IF c \in C THEN "settled" ELSE pc[c]]
    /\ answer' = [c \in Call |-> IF c \in C THEN result ELSE answer[c]]

\* A message to an iframe that has not loaded its page is lost.
Posted(messages) == IF iframe \in loaded THEN inbox \o messages ELSE inbox

----------------------------------------------------------------------------
(* setIdentity                                                             *)

SetIdentity(b) ==
    /\ Len(inbox) < MaxInbox
    /\ currentBapId' = b
    /\ inbox' = IF initialized /\ iframe # 0
                THEN Posted(<<[type |-> "SET_IDENTITY", bapId |-> b]>>)
                ELSE inbox
    /\ UNCHANGED <<iframe, initialized, pending, appended, loading, loaded, told, replies,
                   callVars>>

----------------------------------------------------------------------------
(* init                                                                    *)

\* A new iframe, listener and timer, for every call that finds none initialized.
Open(c) ==
    /\ pc[c] = "idle"
    /\ ~initialized
    /\ appended' = appended + 1
    /\ iframe' = appended + 1
    /\ loading' = loading \cup {appended + 1}
    /\ inbox' = <<>>
    /\ told' = NoBap
    /\ load' = [load EXCEPT ![c] = [iframe |-> appended + 1, state |-> "open"]]
    /\ pc' = [pc EXCEPT ![c] = "load"]
    /\ UNCHANGED <<initialized, currentBapId, pending, loaded, replies, kind, answer,
                   asked>>

\* The load event of the iframe n, still in the document: it initializes the signer,
\* whichever iframe is the latest, and resolves the promise if that is open.
Loaded(n) ==
    /\ loading' = loading \ {n}
    /\ loaded' = loaded \cup {n}
    /\ initialized' = TRUE
    /\ load' = [c \in Call |-> IF load[c] = [iframe |-> n, state |-> "open"]
                              THEN [load[c] EXCEPT !.state = "resolved"] ELSE load[c]]
    /\ UNCHANGED <<iframe, currentBapId, pending, appended, inbox, told, replies, pc, kind,
                   answer, asked>>

\* Mutant of LoadFails: only the latest iframe has a timer.
LoadFailsLatest(c) ==
    /\ pc[c] = "load" /\ load[c].state = "open"
    /\ load[c].iframe = iframe
    /\ load' = [load EXCEPT ![c].state = "rejected"]
    /\ Settled({c}, "error")
    /\ UNCHANGED <<fieldVars, pageVars, kind, asked>>

\* The timer of c's init(), 10 s later, or the error event: the call throws; iframe and
\* listener stay.
LoadFails(c) ==
    /\ pc[c] = "load" /\ load[c].state = "open"
    /\ load' = [load EXCEPT ![c].state = "rejected"]
    /\ Settled({c}, "error")
    /\ UNCHANGED <<fieldVars, pageVars, kind, asked>>

----------------------------------------------------------------------------
(* A call                                                                  *)

\* Mutant of Request: the identity is not sent again with the request.
RequestOnly(c) ==
    \/ /\ currentBapId = NoBap \/ iframe = 0
       /\ Settled({c}, "error")
       /\ UNCHANGED <<pending, inbox, asked>>
    \/ /\ currentBapId # NoBap /\ iframe # 0
       /\ inbox' = Posted(<<[type |-> "REQUEST", id |-> c]>>)
       /\ pending' = [pending EXCEPT ![kind[c]] = @ \cup {c}]
       /\ pc' = [pc EXCEPT ![c] = "answer"]
       /\ asked' = [asked EXCEPT ![c] = currentBapId]
       /\ UNCHANGED answer

\* The rest of the method: an identity and an iframe, or it throws; then the identity
\* and the request, one after the other.
Request(c) ==
    \/ /\ currentBapId = NoBap \/ iframe = 0
       /\ Settled({c}, "error")
       /\ UNCHANGED <<pending, inbox, asked>>
    \/ /\ currentBapId # NoBap /\ iframe # 0
       /\ inbox' = Posted(<<[type |-> "SET_IDENTITY", bapId |-> currentBapId],
                            [type |-> "REQUEST", id |-> c]>>)
       /\ pending' = [pending EXCEPT ![kind[c]] = @ \cup {c}]
       /\ pc' = [pc EXCEPT ![c] = "answer"]
       /\ asked' = [asked EXCEPT ![c] = currentBapId]
       /\ UNCHANGED answer

\* A call of any of the six methods on an initialized signer, or whose init() has
\* returned.
Ask(c) ==
    /\ \/ pc[c] = "idle" /\ initialized
       \/ pc[c] = "load" /\ load[c].state = "resolved"
    /\ Request(c)
    /\ UNCHANGED <<iframe, initialized, currentBapId, appended, loading, loaded, told,
                   replies, kind, load>>

\* The timer of a request, 30 s later.
RequestTimeout(c) ==
    /\ pc[c] = "answer"
    /\ pending' = [pending EXCEPT ![kind[c]] = @ \ {c}]
    /\ Settled({c}, "error")
    /\ UNCHANGED <<iframe, initialized, currentBapId, pageVars, kind, load, asked>>

----------------------------------------------------------------------------
(* The page, and handleMessage                                             *)

\* The page reads its next message; it signs with the identity it was last told, or
\* refuses (external).
ReadMessage ==
    /\ inbox # <<>>
    /\ inbox' = Tail(inbox)
    /\ LET m == Head(inbox)
       IN  \/ /\ m.type = "SET_IDENTITY"
              /\ told' = m.bapId
              /\ UNCHANGED replies
           \/ /\ m.type = "REQUEST"
              /\ \E by \in ({told} \ {NoBap}) \cup {"error"} :
                    replies' = replies \cup {[id |-> m.id, by |-> by]}
              /\ UNCHANGED told
    /\ UNCHANGED <<fieldVars, appended, loading, loaded, callVars>>

\* Mutant of Answer: a response settles the promise and leaves the map alone.
AnswerKeeps(r) ==
    /\ r \in replies
    /\ replies' = replies \ {r}
    /\ \/ r.id \in pending[kind[r.id]] /\ Settled({r.id}, r.by)
       \/ r.id \notin pending[kind[r.id]] /\ UNCHANGED <<pc, answer>>
    /\ UNCHANGED <<fieldVars, appended, loading, loaded, inbox, told, kind, load, asked>>

\* A response: settled if it is pending in the map of its kind.
Answer(r) ==
    /\ r \in replies
    /\ replies' = replies \ {r}
    /\ pending' = [pending EXCEPT ![kind[r.id]] = @ \ {r.id}]
    /\ \/ r.id \in pending[kind[r.id]] /\ Settled({r.id}, r.by)
       \/ r.id \notin pending[kind[r.id]] /\ UNCHANGED <<pc, answer>>
    /\ UNCHANGED <<iframe, initialized, currentBapId, appended, loading, loaded, inbox,
                   told, kind, load, asked>>

\* Mutant of RejectAllPending: one map has been forgotten.
RejectAllButOne ==
    LET k == CHOOSE k \in Kind : TRUE
    IN  /\ pending' = [j \in Kind |-> IF j = k THEN pending[j] ELSE {}]
        /\ Settled(UNION {pending[j] : j \in Kind \ {k}}, "error")

RejectAllPending ==
    /\ pending' = [k \in Kind |-> {}]
    /\ Settled(UNION {pending[k] : k \in Kind}, "error")

\* SIGNER_ERROR, from any page that is there.
SignerError ==
    /\ loaded # {}
    /\ RejectAllPending
    /\ UNCHANGED <<iframe, initialized, currentBapId, pageVars, kind, load, asked>>

\* destroy(): the latest iframe goes, older ones stay; the signer can be used again.
Destroy ==
    /\ iframe' = 0
    /\ initialized' = FALSE
    /\ loading' = loading \ {iframe}
    /\ loaded' = loaded \ {iframe}
    /\ inbox' = <<>>
    /\ RejectAllPending
    /\ UNCHANGED <<currentBapId, appended, told, replies, kind, load, asked>>

----------------------------------------------------------------------------

\* A continuation that can run, or a timer that is due.
Continue(c) == (pc[c] # "idle" /\ Ask(c)) \/ LoadFails(c) \/ RequestTimeout(c)

IframeNext ==
    \/ \E c \in Call : Open(c) \/ Ask(c) \/ LoadFails(c) \/ RequestTimeout(c)
    \/ \E id \in Bap : SetIdentity(id)
    \/ \E n \in loading : Loaded(n)
    \/ ReadMessage
    \/ \E r \in replies : Answer(r)
    \/ SignerError
    \/ Destroy

\* The event loop runs every continuation and every timer; the page owes nothing.
IframeSpec == IframeInit /\ [][IframeNext]_vars /\ \A c \in Call : WF_vars(Continue(c))

----------------------------------------------------------------------------
(* Properties                                                              *)

\* Whoever has an answer has it of the identity its request was posted with.
AnsweredAsPosted == \A c \in Call : answer[c] \in Bap => answer[c] = asked[c]

\* A request finds the page told the identity that was set when it was posted, and its
\* answer is of that identity, whatever other calls and setIdentity do meanwhile: the
\* two messages leave in one turn, to the same iframe (signer.ts:191-226).
SignedAsPosted ==
    /\ AnsweredAsPosted
    /\ inbox # <<>> /\ Head(inbox).type = "REQUEST" => told = asked[Head(inbox).id]

\* Nobody waits for an answer without an iframe to give it: destroy() rejects the
\* requests of every kind (signer.ts:680-692), and a call whose iframe was removed
\* between the load event and its continuation throws.
NoneWaitsWithoutIframe == \A c \in Call : pc[c] = "answer" => iframe # 0

\* Every call ends, also if calls overlap during the load, if the signer is destroyed
\* under it, or if it posts to an iframe that is not there yet.
EveryRequestSettles == \A c \in Call : pc[c] \in {"load", "answer"} ~> pc[c] = "settled"
=============================================================================
