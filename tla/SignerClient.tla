---------------------------- MODULE SignerClient ----------------------------
(***************************************************************************)
(* The signing half of sigmaClient, src/client/index.ts: the module-level  *)
(* signer (one per page), getOrCreateSigner with its probe for a local     *)
(* TokenPass server (LocalServerSigner, client/local-signer.ts), the       *)
(* stored identity, and the wrappers sign, signAIP, encrypt, decrypt and   *)
(* getFriendPublicKey, which differ in the message they send only.  Their  *)
(* cloud signer is CWISigner.  The local server is external: it answers or *)
(* not, and signs with whatever identity it holds.                         *)
(***************************************************************************)
EXTENDS CWISigner

CONSTANT NoSigner       \* signer === null

ASSUME NoSignerAssumption ==
    NoSigner \notin [kind : {"local"}, id : Call] \cup [kind : {"iframe"}, id : Signer]

VARIABLES
    preferLocalServer,  \* the option preferLocal
    signer,             \* the module-level signer; signerType is its kind
    storedBapId,        \* the stored identity (localStorage holds the same)
    tokens,             \* the local signers, by the call that made them, with a token
    created,            \* the CWI instances constructed so far
    asked,              \* asked[c] : the identity the call c read at its start
    got,                \* got[c] : the signer getOrCreateSigner() returned to it
    installer,          \* history: the call that set the present signer, and its pc then
    loggedOut,          \* history: the calls that were under way at a logout
    leftBehind          \* history: the CWI instances a local signer took the place of

clientVars ==
    <<preferLocalServer, signer, storedBapId, tokens, created, asked, got,
      installer, loggedOut, leftBehind>>
vars == <<signerVars, clientVars>>

LocalSigner == [kind : {"local"}, id : Call]
CloudSigner == [kind : {"iframe"}, id : Signer]
Nobody == [by |-> NoCall, at |-> "idle"]
Local(c) == [kind |-> "local", id |-> c]
Cloud(w) == [kind |-> "iframe", id |-> w]

IsKind(kind) == signer # NoSigner /\ signer.kind = kind

\* isReady() of the module-level signer.
IsReady ==
    \/ IsKind("local") /\ signer.id \in tokens
    \/ IsKind("iframe") /\ cwi[signer.id].initialized

Locating == {"probe", "authenticate", "tokenBody", "locate", "located", "got"}
Underway == Locating \cup Waiting \cup {"localAnswer", "localBody"}

\* Types, and what the module-level variables say of the instances: the signer is
\* one that was constructed and is not destroyed, a handshake that is registered is
\* awaited by a call.
ClientTypeOK ==
    /\ cwi \in [Signer -> Fields]
    /\ page \in [Signer -> Page]
    /\ pc \in [Call -> Underway \cup {"idle", "settled"}]
    /\ via \in [Call -> Signer]
    /\ preferLocalServer \in BOOLEAN
    /\ signer \in LocalSigner \cup CloudSigner \cup {NoSigner}
    /\ storedBapId \in Bap \cup {NoBap}
    /\ tokens \subseteq Call
    /\ created \subseteq Signer
    /\ asked \in [Call -> Bap \cup {NoBap}]
    /\ got \in [Call -> LocalSigner \cup CloudSigner \cup {NoSigner}]
    /\ installer \in [by : Call \cup {NoCall}, at : Underway \cup {"idle"}]
    /\ loggedOut \subseteq Call
    /\ leftBehind \subseteq created
    /\ IsKind("iframe") => signer.id \in created /\ ~cwi[signer.id].destroyed
    /\ \A w \in Signer, c \in Call : cwi[w].waiter = c =>
          pc[c] \in {"locate", "handshake"} /\ via[c] = w /\ handshake[c] = "open"

ClientInit ==
    /\ SignerInit
    /\ preferLocalServer \in BOOLEAN
    /\ signer = NoSigner
    /\ storedBapId \in Bap \cup {NoBap}
    /\ tokens = {}
    /\ created = {}
    /\ asked = [c \in Call |-> NoBap]
    /\ got = [c \in Call |-> NoSigner]
    /\ installer = Nobody
    /\ loggedOut = {}
    /\ leftBehind = {}

Goto(c, next) == pc' = [pc EXCEPT ![c] = next]

\* What getOrCreateSigner() can change besides `got` and `pc`, and what it cannot.
locateVars == <<cwi, page, via, handshake, signer, created, installer, leftBehind>>
otherVars ==
    <<preferLocalServer, storedBapId, loggedOut, answer, latest, since>>

----------------------------------------------------------------------------
(* getOrCreateSigner                                                       *)

\* `return signer`: the module variable as it is now.
ReturnSigner(c) ==
    /\ got' = [got EXCEPT ![c] = signer]
    /\ Goto(c, "got")
    /\ UNCHANGED locateVars

\* `await signer.init()` of the CWI instance w.
AwaitInit(c, w) ==
    /\ via' = [via EXCEPT ![c] = w]
    /\ StartInit(c, w, cwi[w], page[w])
    /\ Goto(c, "locate")
    /\ UNCHANGED <<got, leftBehind>>

\* new SigmaCWISigner(...) becomes the signer.
InstallCloud(c) ==
    \E w \in Signer \ created :
        /\ created' = created \cup {w}
        /\ signer' = Cloud(w)
        /\ installer' = [by |-> c, at |-> pc[c]]
        /\ AwaitInit(c, w)

\* Mutant of FallBack: a new instance whenever the present one is not ready.
FallBackFresh(c) ==
    \/ IsKind("iframe") /\ IsReady /\ ReturnSigner(c)
    \/ ~(IsKind("iframe") /\ IsReady) /\ InstallCloud(c)

\* Fall back to the CWI signer: a new instance unless there is one, which is
\* initialized unless it is ready.
FallBack(c) ==
    \/ IsKind("iframe") /\ IsReady /\ ReturnSigner(c)
    \/ /\ IsKind("iframe") /\ ~IsReady
       /\ AwaitInit(c, signer.id)
       /\ UNCHANGED <<signer, created, installer>>
    \/ ~IsKind("iframe") /\ InstallCloud(c)

MayProbe == preferLocalServer /\ ~IsKind("iframe")

\* The wrapper reads the stored identity, and getOrCreateSigner() runs up to its
\* first await.
Begin(c) ==
    /\ pc[c] = "idle"
    /\ storedBapId # NoBap
    /\ asked' = [asked EXCEPT ![c] = storedBapId]
    /\ \/ IsReady /\ ReturnSigner(c)
       \/ ~IsReady /\ MayProbe /\ Goto(c, "probe") /\ UNCHANGED <<locateVars, got>>
       \/ ~IsReady /\ ~MayProbe /\ FallBack(c)
    /\ UNCHANGED <<otherVars, tokens>>

\* The wrapper throws: no identity.
BeginRefused(c) ==
    /\ pc[c] = "idle"
    /\ storedBapId = NoBap
    /\ Fail(c)
    /\ UNCHANGED <<cwi, page, latest, since, clientVars>>

\* `await localSigner.probe()`: the server is there and its signer installed, to be
\* authenticated; or it is not (or not within 500 ms).
ProbeAnswered(c) ==
    /\ pc[c] = "probe"
    /\ \/ /\ signer' = Local(c)
          /\ installer' = [by |-> c, at |-> pc[c]]
          /\ leftBehind' = IF IsKind("iframe") THEN leftBehind \cup {signer.id} ELSE leftBehind
          /\ Goto(c, "authenticate")
          /\ UNCHANGED <<cwi, page, via, handshake, created, got>>
       \/ FallBack(c)
    /\ UNCHANGED <<otherVars, tokens, asked>>

\* The answer of `localSigner.authenticate(host)`: a refusal, or none within the timeout,
\* returns the module variable; an acceptance has a body, which is awaited with the
\* abort timer already cleared.
Authenticated(c) ==
    /\ pc[c] = "authenticate"
    /\ \/ ReturnSigner(c)
       \/ Goto(c, "tokenBody") /\ UNCHANGED <<locateVars, got>>
    /\ UNCHANGED <<otherVars, tokens, asked>>

\* The body ends, with the token or broken: the module variable is returned.
TokenBody(c) ==
    /\ pc[c] = "tokenBody"
    /\ tokens' \in {tokens, tokens \cup {c}}
    /\ ReturnSigner(c)
    /\ UNCHANGED <<otherVars, asked>>

\* The await in init() returns or throws.
Initialized(c) ==
    /\ pc[c] = "locate"
    /\ handshake[c] = "resolved"
    /\ cwi' = [cwi EXCEPT ![via[c]].initialized = TRUE]
    /\ Goto(c, "located")
    /\ UNCHANGED <<page, via, handshake, answer, latest, since, clientVars>>

\* Mutant of NotInitialized: a failed init() also lets go of the module's signer.
NotInitializedDrops(c) ==
    /\ pc[c] = "locate"
    /\ handshake[c] = "rejected"
    /\ Fail(c)
    /\ signer' = NoSigner
    /\ UNCHANGED <<cwi, page, latest, since, preferLocalServer, storedBapId, tokens,
                   created, asked, got, installer, loggedOut, leftBehind>>

NotInitialized(c) ==
    /\ pc[c] = "locate"
    /\ handshake[c] = "rejected"
    /\ Fail(c)
    /\ UNCHANGED <<cwi, page, latest, since, clientVars>>

\* Mutant of Located: the signer that init() was awaited on is made the module's.
LocatedInstalls(c) ==
    /\ pc[c] = "located"
    /\ signer' = Cloud(via[c])
    /\ installer' = [by |-> c, at |-> pc[c]]
    /\ got' = [got EXCEPT ![c] = Cloud(via[c])]
    /\ Goto(c, "got")
    /\ UNCHANGED <<cwi, page, via, handshake, created, leftBehind>>
    /\ UNCHANGED <<otherVars, tokens, asked>>

Located(c) ==
    /\ pc[c] = "located"
    /\ ReturnSigner(c)
    /\ UNCHANGED <<otherVars, tokens, asked>>

----------------------------------------------------------------------------
(* The wrapper, with its signer                                            *)

\* Mutant of UseNull: the wrapper waits until there is a signer.
UseNullWaits(c) ==
    /\ pc[c] = "got"
    /\ got[c] = NoSigner
    /\ got' = [got EXCEPT ![c] = signer]
    /\ UNCHANGED <<signerVars, preferLocalServer, signer, storedBapId, tokens, created,
                   asked, installer, loggedOut, leftBehind>>

\* `signerInstance.setIdentity(bapId)` on null is a TypeError.
UseNull(c) ==
    /\ pc[c] = "got"
    /\ got[c] = NoSigner
    /\ Fail(c)
    /\ UNCHANGED <<cwi, page, latest, since, clientVars>>

\* A local signer signs by HTTP, if it has a token.
UseLocal(c) ==
    /\ pc[c] = "got"
    /\ got[c] \in LocalSigner
    /\ \/ /\ got[c].id \in tokens
          /\ Goto(c, "localAnswer")
          /\ UNCHANGED <<via, handshake, answer>>
       \/ got[c].id \notin tokens /\ Fail(c)
    /\ UNCHANGED <<cwi, page, latest, since, clientVars>>

\* The local server answers, or not within the timeout; the body of its answer, signed
\* or refused, is awaited with the abort timer already cleared.
LocalAnswer(c) ==
    /\ pc[c] = "localAnswer"
    /\ \/ Fail(c)
       \/ Goto(c, "localBody") /\ UNCHANGED <<via, handshake, answer>>
    /\ UNCHANGED <<cwi, page, latest, since, clientVars>>

\* The body ends: the call returns what it holds, or throws.
LocalBody(c) ==
    /\ pc[c] = "localBody"
    /\ \E result \in {NoBap, "error"} : Settled({c}, result)
    /\ UNCHANGED <<cwi, page, via, handshake, latest, since, clientVars>>

\* A CWI signer is given the identity the call read at its start, then asked.
UseCloud(c) ==
    /\ pc[c] = "got"
    /\ got[c] \in CloudSigner
    /\ LET w == got[c].id
           mine == asked[c]
       IN  /\ via' = [via EXCEPT ![c] = w]
           /\ EnsureReady(c, w, WithIdentity(cwi[w], mine),
                          TellIdentity(page[w], cwi[w], mine))
           /\ latest' = [latest EXCEPT ![w] = mine]
           /\ since' = [d \in Call |->
                 IF d = c THEN {mine}
                 ELSE IF via[d] = w /\ pc[d] \in {"send", "answer"} THEN since[d] \cup {mine}
                 ELSE since[d]]
    /\ UNCHANGED clientVars

----------------------------------------------------------------------------
(* The stored identity                                                     *)

\* setIdentity(b): a present signer is told.
ChooseIdentity(b) ==
    /\ storedBapId' = b
    /\ \/ IsKind("iframe") /\ SetIdentity(signer.id, b)
       \/ ~IsKind("iframe") /\ UNCHANGED signerVars
    /\ UNCHANGED <<preferLocalServer, signer, tokens, created, asked, got, installer,
                   loggedOut, leftBehind>>

\* The end of an OAuth callback stores the user's identity and tells no signer.
CallbackIdentity(b) ==
    /\ storedBapId' = b
    /\ UNCHANGED <<signerVars, preferLocalServer, signer, tokens, created, asked, got,
                   installer, loggedOut, leftBehind>>

\* Mutant of Logout: the signer is destroyed and stays the module's.
LogoutStays ==
    /\ storedBapId' = NoBap
    /\ \/ IsKind("iframe") /\ Destroy(signer.id) /\ UNCHANGED tokens
       \/ IsKind("local") /\ tokens' = tokens \ {signer.id} /\ UNCHANGED signerVars
       \/ signer = NoSigner /\ UNCHANGED <<signerVars, tokens>>
    /\ loggedOut' = loggedOut \cup {c \in Call : pc[c] \in Underway}
    /\ UNCHANGED <<preferLocalServer, signer, created, asked, got, installer, leftBehind>>

\* clearStoredIdentity(): by clearIdentity(), or by the session listener when the
\* session goes away.
Logout ==
    /\ storedBapId' = NoBap
    /\ signer' = NoSigner
    /\ \/ IsKind("iframe") /\ Destroy(signer.id) /\ UNCHANGED tokens
       \/ IsKind("local") /\ tokens' = tokens \ {signer.id} /\ UNCHANGED signerVars
       \/ signer = NoSigner /\ UNCHANGED <<signerVars, tokens>>
    /\ loggedOut' = loggedOut \cup {c \in Call : pc[c] \in Underway}
    /\ installer' = Nobody
    /\ UNCHANGED <<preferLocalServer, created, asked, got, leftBehind>>

----------------------------------------------------------------------------

ClientStep(c) ==
    \/ ProbeAnswered(c) \/ Authenticated(c)
    \/ Initialized(c) \/ NotInitialized(c) \/ Located(c)
    \/ UseNull(c) \/ UseLocal(c) \/ UseCloud(c) \/ LocalAnswer(c)
    \/ Continue(c) /\ UNCHANGED clientVars

\* No timer of the client ends these.
BodyEnds(c) == TokenBody(c) \/ LocalBody(c)

ClientNext ==
    \/ \E c \in Call : Begin(c) \/ BeginRefused(c) \/ ClientStep(c) \/ BodyEnds(c)
    \/ \E w \in Signer : SignerStep(w) /\ UNCHANGED clientVars
    \/ \E b \in Bap : ChooseIdentity(b) \/ CallbackIdentity(b)
    \/ Logout

ClientSpec ==
    ClientInit /\ [][ClientNext]_vars /\ \A c \in Call : WF_vars(ClientStep(c))

----------------------------------------------------------------------------
(* Properties                                                              *)

\* "singleton per page" (client/index.ts:58): however calls and logouts interleave, a
\* CWI instance that is not destroyed is the module's signer, or a local signer took its
\* place; that assignment (client/index.ts:115) is the only one that leaves one behind.
OneLiveSigner ==
    \A w \in created : ~cwi[w].destroyed => signer = Cloud(w) \/ w \in leftBehind

\* A call that was under way at a logout brings no signer back (clearIdentity(),
\* client/index.ts:1105-1106: "Clear the stored identity and destroy the signer"), with
\* one exception: a call that awaited the local server's probe at the logout goes on to
\* assign a signer (client/index.ts:113-133).
LogoutIsFinal ==
    signer # NoSigner /\ installer.by \in loggedOut => installer.at = "probe"

\* getOrCreateSigner() is declared to return a SigmaSigner (client/index.ts:101); it
\* returns null only to a call during which the user logged out.
NullOnlyAfterLogout ==
    \A c \in Call : pc[c] = "got" /\ got[c] = NoSigner => c \in loggedOut

\* A call can hang in two ways only: its handshake promise was lost to another init(), or
\* the local server, whose headers have arrived, does not finish its body.  Every other
\* call settles, through probes, fallbacks, logouts and timeouts.
Displaced(c) ==
    /\ pc[c] \in {"locate", "handshake"}
    /\ handshake[c] = "open"
    /\ cwi[via[c]].waiter # c

AwaitsBody(c) == pc[c] \in {"tokenBody", "localBody"}

HangsOnlyAbandoned ==
    \A c \in Call : pc[c] \in Underway ~> (pc[c] = "settled" \/ Displaced(c) \/ AwaitsBody(c))

\* client/index.ts:1087-1089 of setIdentity(): "Set the identity (BAP ID) to use for
\* signing", "can be set manually for multi-identity scenarios": a call is signed with
\* the identity that was set when it was made.
SignedAsAsked == \A c \in Call : answer[c] \in Bap => answer[c] = asked[c]
=============================================================================
