----------------------------- MODULE CWISigner -----------------------------
(***************************************************************************)
(* SigmaCWISigner, src/client/sigma-cwi.ts: signing through a page of the  *)
(* Sigma server in a hidden iframe.  A call of sign, signAIP, encrypt,     *)
(* decrypt or getFriendPublicKey makes the signer ready (iframe and        *)
(* handshake, once), tells the page the identity, posts its request and    *)
(* waits for the answer.  Everything runs on one event loop: an action is  *)
(* what one task or one continuation after an `await` does.  The page is   *)
(* external: it hears messages in order once it has loaded, and answers    *)
(* requests in any order, late, or never.                                  *)
(***************************************************************************)
EXTENDS Naturals, Sequences

CONSTANTS
    Call,       \* calls of the signing methods
    Signer,     \* SigmaCWISigner instances
    Bap,        \* BAP ids
    NoBap,      \* no identity set (null)
    NoCall,     \* no handshake promise is registered (null)
    MaxInbox    \* bound: setIdentity is not called with more messages unread

ASSUME SignerAssumption ==
    /\ Signer # {}
    /\ NoBap \notin Bap
    /\ NoCall \notin Call
    /\ "error" \notin Bap
    /\ MaxInbox \in Nat

VARIABLES
    cwi,        \* cwi[w] : the fields of the instance w
    page,       \* page[w] : the iframes of w and the page in its latest one
    pc,         \* pc[c] : the await the call c is at
    via,        \* via[c] : the instance it is made on
    handshake,  \* handshake[c] : the promise its init() awaits
    answer,     \* answer[c] : the identity that signed, or "error"
    latest,     \* history: the last identity setIdentity was given on w
    since       \* history: the identities set on via[c] since c was made ready

signerVars == <<cwi, page, pc, via, handshake, answer, latest, since>>
callVars == <<pc, via, handshake, answer>>

Message == [type : {"SET_IDENTITY"}, bapId : Bap] \cup [type : {"CWI"}, id : Call]
Reply == [id : Call, by : Bap \cup {"error"}]

Fields == [
    iframe : Nat,                       \* 0 is null
    initialized : BOOLEAN,
    destroyed : BOOLEAN,
    currentBapId : Bap \cup {NoBap},
    handshakeComplete : BOOLEAN,
    waiter : Call \cup {NoCall},        \* whose handshakeResolve and -Reject are set
    timers : SUBSET Call,               \* running handshake timers, by their init()
    pending : SUBSET Call ]             \* the request ids are the calls

Page == [
    appended : Nat,                     \* iframes w has added to the document
    loaded : SUBSET Nat,                \* those whose page is there and listens
    inbox : Seq(Message),               \* posted to the latest one, not yet read
    bapId : Bap \cup {NoBap},           \* the identity the latest one was told
    replies : SUBSET Reply ]            \* posted by the page, not yet delivered

Waiting == {"handshake", "prepare", "send", "answer"}

\* Types, and the bookkeeping of promises: a registered handshake promise is one a
\* call awaits, and the pending requests are the calls that await an answer.
SignerTypeOK ==
    /\ cwi \in [Signer -> Fields]
    /\ page \in [Signer -> Page]
    /\ pc \in [Call -> Waiting \cup {"idle", "settled"}]
    /\ via \in [Call -> Signer]
    /\ handshake \in [Call -> {"open", "resolved", "rejected"}]
    /\ answer \in [Call -> Bap \cup {NoBap, "error"}]
    /\ latest \in [Signer -> Bap \cup {NoBap}]
    /\ since \in [Call -> SUBSET Bap]
    /\ \A w \in Signer :
          /\ cwi[w].pending = {c \in Call : pc[c] = "answer" /\ via[c] = w}
          /\ \A c \in Call : cwi[w].waiter = c =>
                pc[c] = "handshake" /\ via[c] = w /\ handshake[c] = "open"

SignerInit ==
    /\ cwi = [w \in Signer |->
          [iframe |-> 0, initialized |-> FALSE, destroyed |-> FALSE,
           currentBapId |-> NoBap, handshakeComplete |-> FALSE,
           waiter |-> NoCall, timers |-> {}, pending |-> {}]]
    /\ page = [w \in Signer |->
          [appended |-> 0, loaded |-> {}, inbox |-> <<>>, bapId |-> NoBap,
           replies |-> {}]]
    /\ pc = [c \in Call |-> "idle"]
    /\ via = [c \in Call |-> CHOOSE w \in Signer : TRUE]
    /\ handshake = [c \in Call |-> "open"]
    /\ answer = [c \in Call |-> NoBap]
    /\ latest = [w \in Signer |-> NoBap]
    /\ since = [c \in Call |-> {}]

----------------------------------------------------------------------------
(* Steps of the page (external)                                            *)

\* The page p of the signer s after contentWindow.postMessage(m): a message to an
\* iframe that has not loaded the page yet is lost.
Posted(p, s, m) ==
    IF s.iframe \in p.loaded THEN [p EXCEPT !.inbox = Append(@, m)] ELSE p

LoadPage(w) ==
    /\ \E n \in 1 .. page[w].appended :
          /\ n \notin page[w].loaded
          /\ n = cwi[w].iframe \/ ~cwi[w].destroyed
          /\ page' = [page EXCEPT ![w].loaded = @ \cup {n}]
    /\ UNCHANGED <<cwi, pc, via, handshake, answer, latest, since>>

\* The page reads its next message; it signs with the identity it was last told, or
\* refuses.
ReadMessage(w) ==
    /\ page[w].inbox # <<>>
    /\ LET m == Head(page[w].inbox)
           rest == [page[w] EXCEPT !.inbox = Tail(@)]
       IN  \/ /\ m.type = "SET_IDENTITY"
              /\ page' = [page EXCEPT ![w] = [rest EXCEPT !.bapId = m.bapId]]
           \/ /\ m.type = "CWI"
              /\ \E by \in ({page[w].bapId} \ {NoBap}) \cup {"error"} :
                    page' = [page EXCEPT ![w] =
                        [rest EXCEPT !.replies = @ \cup {[id |-> m.id, by |-> by]}]]
    /\ UNCHANGED <<cwi, pc, via, handshake, answer, latest, since>>

----------------------------------------------------------------------------
(* Settling calls                                                          *)

Settled(C, result) ==
    /\ pc' = [c \in Call |-> IF c \in C THEN "settled" ELSE pc[c]]
    /\ answer' = [c \in Call |-> IF c \in C THEN result ELSE answer[c]]

Fail(c) == Settled({c}, "error") /\ UNCHANGED <<via, handshake>>

----------------------------------------------------------------------------
(* setIdentity                                                             *)

\* Mutant of WithIdentity: a ready signer posts the identity but does not keep it.
WithIdentityPosted(s, b) == IF s.initialized THEN s ELSE [s EXCEPT !.currentBapId = b]

WithIdentity(s, b) == [s EXCEPT !.currentBapId = b]

\* A ready signer also tells the page.
TellIdentity(p, s, b) ==
    IF s.initialized
    THEN Posted(p, s, [type |-> "SET_IDENTITY", bapId |-> b])
    ELSE p

NoteIdentity(w, b) ==
    /\ latest' = [latest EXCEPT ![w] = b]
    /\ since' = [c \in Call |->
          IF via[c] = w /\ pc[c] \in {"send", "answer"} THEN since[c] \cup {b}
          ELSE since[c]]

SetIdentity(w, b) ==
    /\ Len(page[w].inbox) < MaxInbox
    /\ cwi' = [cwi EXCEPT ![w] = WithIdentity(cwi[w], b)]
    /\ page' = [page EXCEPT ![w] = TellIdentity(page[w], cwi[w], b)]
    /\ NoteIdentity(w, b)
    /\ UNCHANGED callVars

----------------------------------------------------------------------------
(* init and the handshake                                                  *)

\* init() of the call c on the signer s with page p: nothing if the signer is
\* initialized; otherwise a new iframe, and the await of waitForHandshake(), which
\* registers this promise in place of any other and starts a timer.
StartInit(c, w, s, p) ==
    LET opened == [s EXCEPT !.iframe = p.appended + 1]
    IN  /\ page' = [page EXCEPT ![w] =
              [p EXCEPT !.appended = @ + 1, !.inbox = <<>>, !.bapId = NoBap]]
        /\ \/ /\ s.handshakeComplete
              /\ cwi' = [cwi EXCEPT ![w] = opened]
              /\ handshake' = [handshake EXCEPT ![c] = "resolved"]
           \/ /\ ~s.handshakeComplete
              /\ cwi' = [cwi EXCEPT ![w] =
                    [opened EXCEPT !.waiter = c, !.timers = @ \cup {c}]]
              /\ handshake' = [handshake EXCEPT ![c] = "open"]

\* Mutant of HandshakeTimeout: the timer gives up silently on a destroyed signer.
HandshakeTimeoutAlive(w, c) ==
    /\ c \in cwi[w].timers
    /\ ~cwi[w].destroyed
    /\ cwi' = [cwi EXCEPT ![w].timers = @ \ {c}, ![w].waiter = NoCall]
    /\ handshake' = [d \in Call |->
          IF d = cwi[w].waiter THEN "rejected" ELSE handshake[d]]
    /\ UNCHANGED <<page, pc, via, answer, latest, since>>

\* The timer of c's init(), 10 s later and with no handshake so far: whichever
\* promise is registered by now is rejected.
HandshakeTimeout(w, c) ==
    /\ c \in cwi[w].timers
    /\ cwi' = [cwi EXCEPT ![w].timers = @ \ {c}, ![w].waiter = NoCall]
    /\ handshake' = [d \in Call |->
          IF d = cwi[w].waiter THEN "rejected" ELSE handshake[d]]
    /\ UNCHANGED <<page, pc, via, answer, latest, since>>

\* Mutant of StateMessage: an error state drops the requests without rejecting them.
StateMessageDrops(w, status) ==
    /\ page[w].loaded # {}
    /\ ~cwi[w].destroyed
    /\ cwi' = [cwi EXCEPT
          ![w].handshakeComplete = TRUE, ![w].waiter = NoCall, ![w].timers = {},
          ![w].pending = IF status = "error" THEN {} ELSE @]
    /\ handshake' = [d \in Call |->
          IF d = cwi[w].waiter THEN "resolved" ELSE handshake[d]]
    /\ UNCHANGED <<page, pc, via, answer, latest, since>>

\* handleMessage, a state message of the page: the first one completes the
\* handshake (its timers will do nothing), an error state rejects every request.
StateMessage(w, status) ==
    /\ page[w].loaded # {}
    /\ ~cwi[w].destroyed
    /\ LET rejected == IF status = "error" THEN cwi[w].pending ELSE {}
       IN  /\ cwi' = [cwi EXCEPT
                 ![w].handshakeComplete = TRUE, ![w].waiter = NoCall,
                 ![w].timers = {}, ![w].pending = @ \ rejected]
           /\ Settled(rejected, "error")
    /\ handshake' = [d \in Call |->
          IF d = cwi[w].waiter THEN "resolved" ELSE handshake[d]]
    /\ UNCHANGED <<page, via, latest, since>>

----------------------------------------------------------------------------
(* A call                                                                  *)

\* ensureReady() once the signer is initialized: an identity must be set, and the
\* page is told it.
TellPage(c, w, s, p) ==
    /\ cwi' = [cwi EXCEPT ![w] = s]
    /\ UNCHANGED handshake
    /\ \/ /\ s.currentBapId = NoBap
          /\ Settled({c}, "error")
          /\ page' = [page EXCEPT ![w] = p]
       \/ /\ s.currentBapId # NoBap
          /\ pc' = [pc EXCEPT ![c] = "send"]
          /\ page' = [page EXCEPT ![w] =
                Posted(p, s, [type |-> "SET_IDENTITY", bapId |-> s.currentBapId])]
          /\ UNCHANGED answer

\* The call is made on w, whose fields and page are s and p: `await ensureReady()`.
EnsureReady(c, w, s, p) ==
    \/ s.initialized /\ TellPage(c, w, s, p)
    \/ /\ ~s.initialized
       /\ StartInit(c, w, s, p)
       /\ pc' = [pc EXCEPT ![c] = "handshake"]
       /\ UNCHANGED answer

Sign(c, w) ==
    /\ pc[c] = "idle"
    /\ via' = [via EXCEPT ![c] = w]
    /\ EnsureReady(c, w, cwi[w], page[w])
    /\ since' = [since EXCEPT ![c] = {latest[w]} \ {NoBap}]
    /\ UNCHANGED latest

\* `await this.waitForHandshake()` returns or throws.
InitDone(c) ==
    /\ pc[c] = "handshake"
    /\ handshake[c] = "resolved"
    /\ cwi' = [cwi EXCEPT ![via[c]].initialized = TRUE]
    /\ pc' = [pc EXCEPT ![c] = "prepare"]
    /\ UNCHANGED <<page, via, handshake, answer, latest, since>>

InitFailed(c) ==
    /\ pc[c] = "handshake"
    /\ handshake[c] = "rejected"
    /\ Fail(c)
    /\ UNCHANGED <<cwi, page, latest, since>>

\* `await this.init()` returns.
Prepare(c) ==
    /\ pc[c] = "prepare"
    /\ TellPage(c, via[c], cwi[via[c]], page[via[c]])
    /\ since' = [since EXCEPT ![c] = {latest[via[c]]} \ {NoBap}]
    /\ UNCHANGED <<via, latest>>

\* `await this.ensureReady()` returns: sendCWI.
Send(c) ==
    LET w == via[c]
    IN  /\ pc[c] = "send"
        /\ \/ /\ cwi[w].destroyed \/ cwi[w].iframe = 0
              /\ Fail(c)
              /\ UNCHANGED <<cwi, page>>
           \/ /\ ~cwi[w].destroyed /\ cwi[w].iframe # 0
              /\ cwi' = [cwi EXCEPT ![w].pending = @ \cup {c}]
              /\ page' = [page EXCEPT ![w] =
                    Posted(@, cwi[w], [type |-> "CWI", id |-> c])]
              /\ pc' = [pc EXCEPT ![c] = "answer"]
              /\ UNCHANGED <<via, handshake, answer>>
        /\ UNCHANGED <<latest, since>>

\* handleMessage, a response: a request that is still pending is settled.
Answer(w, r) ==
    /\ r \in page[w].replies
    /\ page' = [page EXCEPT ![w].replies = @ \ {r}]
    /\ \/ /\ ~cwi[w].destroyed /\ r.id \in cwi[w].pending
          /\ cwi' = [cwi EXCEPT ![w].pending = @ \ {r.id}]
          /\ Settled({r.id}, r.by)
       \/ /\ cwi[w].destroyed \/ r.id \notin cwi[w].pending
          /\ UNCHANGED <<cwi, pc, answer>>
    /\ UNCHANGED <<via, handshake, latest, since>>

\* Mutant of RequestTimeout: the promise is rejected, its entry left behind.
RequestTimeoutKeeps(c) ==
    /\ c \in cwi[via[c]].pending
    /\ Fail(c)
    /\ UNCHANGED <<cwi, page, latest, since>>

\* The timer of a request, 30 s later.
RequestTimeout(c) ==
    /\ c \in cwi[via[c]].pending
    /\ cwi' = [cwi EXCEPT ![via[c]].pending = @ \ {c}]
    /\ Fail(c)
    /\ UNCHANGED <<page, latest, since>>

----------------------------------------------------------------------------
(* destroy                                                                 *)

\* Mutant of Destroy: the requests are forgotten, not rejected.
DestroyForgets(w) ==
    /\ ~cwi[w].destroyed
    /\ cwi' = [cwi EXCEPT ![w].destroyed = TRUE, ![w].iframe = 0,
                          ![w].initialized = FALSE]
    /\ page' = [page EXCEPT ![w].loaded = @ \ {cwi[w].iframe}, ![w].inbox = <<>>]
    /\ UNCHANGED <<pc, via, handshake, answer, latest, since>>

\* Pending requests are rejected and the latest iframe removed; a handshake in
\* progress is left to its timer.
Destroy(w) ==
    /\ ~cwi[w].destroyed
    /\ cwi' = [cwi EXCEPT ![w].destroyed = TRUE, ![w].iframe = 0,
                          ![w].initialized = FALSE, ![w].pending = {}]
    /\ page' = [page EXCEPT ![w].loaded = @ \ {cwi[w].iframe}, ![w].inbox = <<>>]
    /\ Settled(cwi[w].pending, "error")
    /\ UNCHANGED <<via, handshake, latest, since>>

----------------------------------------------------------------------------

Status == {"ready", "error"}

\* A continuation that can run, or a timer that is due.
Continue(c) ==
    \/ InitDone(c) \/ InitFailed(c) \/ Prepare(c) \/ Send(c) \/ RequestTimeout(c)
    \/ \E w \in Signer : HandshakeTimeout(w, c)

SignerStep(w) ==
    \/ LoadPage(w) \/ ReadMessage(w)
    \/ \E r \in page[w].replies : Answer(w, r)
    \/ \E status \in Status : StateMessage(w, status)

SignerNext ==
    \/ \E c \in Call, w \in Signer : Sign(c, w)
    \/ \E c \in Call : Continue(c)
    \/ \E w \in Signer : SignerStep(w) \/ Destroy(w)
    \/ \E w \in Signer, b \in Bap : SetIdentity(w, b)

\* The event loop runs every continuation and every timer; the page owes nothing.
EventLoop == \A c \in Call : WF_signerVars(Continue(c))

SignerSpec == SignerInit /\ [][SignerNext]_signerVars /\ EventLoop

----------------------------------------------------------------------------
(* Properties                                                              *)

\* A signature is made with the identity that was set when its call was made ready,
\* or with one set later: setIdentity before, during or after the handshake is
\* never undone by the SET_IDENTITY a call re-sends (sigma-cwi.ts:245, 248-254).
NoStaleIdentity == \A c \in Call : answer[c] \in Bap => answer[c] \in since[c]

\* destroy() leaves no caller waiting for an answer it has stopped listening for
\* (sigma-cwi.ts:337-353), and a call that was between two awaits when the signer
\* was destroyed does not start to wait.
NoneWaitsOnDestroyed ==
    \A c \in Call : pc[c] = "answer" => ~cwi[via[c]].destroyed

\* A request that was posted is settled, whether the page answers, answers late,
\* reports an error or falls silent.
RequestSettles == \A c \in Call : pc[c] = "answer" ~> pc[c] = "settled"

\* The init() whose promise is registered is settled even if the signer is destroyed
\* during the handshake.
LastInitSettles ==
    \A w \in Signer, c \in Call :
        (cwi[w].waiter = c) ~> (handshake[c] # "open" \/ cwi[w].waiter # c)

\* client/index.ts:911-912 of sign(): "@returns Promise resolving to auth token
\* string", "@throws Error if no identity set or signing fails": every call settles.
EverySignSettles == \A c \in Call : pc[c] = "handshake" ~> pc[c] = "settled"
=============================================================================
