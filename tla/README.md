# Verification of @sigma-auth/better-auth-plugin

TLA+ models of the plugin's stateful parts, TLC runs over small instances of
them, and TLAPS proofs of the invariants that matter most. Paths below are those
of the repository (`src/server/account-record.ts` and so on).

    tlc -workers 2 -config SigmaAccount.cfg MCSigmaAccount.tla     # one run
    tlapm SigmaAccountProofs.tla                                   # one proof module

## 1. The system

The plugin signs users in with a Sigma identity (a BAP id, backed by a Bitcoin
key). It has four sides that meet over HTTP, a database and `postMessage`:

    browser                                 consumer's server            Sigma server
    client/index.ts  --redirect------------------------------------>  provider/index.ts
      signIn.sigma                                                      /sign-in/sigma
      handleCallback --POST /sigma/callback-->  callback-plugin.ts         |
                                                next/index.ts  --code-->   tokens, userinfo
      sign, encrypt..                           account-record.ts          |
        sigma-cwi.ts --postMessage-----------------------------------> /signer page
        local-signer.ts --fetch--> a TokenPass server on the machine

### Inventory

| component | source | state | operations | what makes it correct |
|---|---|---|---|---|
| Account record | `server/account-record.ts` | the `account` table; a call's read row and attempt counter | `upsertSigmaAccount`: find, update, recheck, create, retry | one row per identity; success means the link was made; foreign providers untouched; bounded retries |
| Sign-in callback | `server/callback-plugin.ts`, `server/index.ts`, `next/index.ts` | user, account and session tables; the looked-up user | redeem code, find/update/create user, link, create session, sign its cookie | one user per email; a session only for the user linked; every request ends |
| Provider sign-in | `provider/index.ts` | user, profile, organization and member tables | find or create by key, resolve a BAP id, ensure the organization, create session | one key signs in one user; one owner per organization; a lost race fails nobody |
| Provider hooks | `provider/index.ts` | the name and image of the user row, beside the sign-in that also writes them | token before/after hook, consent store | a row shows its own user's profile; a redeemed code is answered with its tokens |
| OAuth client | `client/index.ts` | `sessionStorage`, `localStorage`, variables of the document | `signIn.sigma`, `handleCallback`, `redirectToError` | a code is exchanged once, with its own verifier |
| Signing client | `client/index.ts` | the module-level `signer`, `signerType` | `getOrCreateSigner`, the signing wrappers, logout | one live signer; nothing of a user survives his logout; calls end |
| Stored identity | `client/index.ts` | `localStorage`'s identity, shared by all tabs; `storedBapId` and the session listener of each document | end of `handleCallback`, `loadStoredBapId`, `setIdentity`, `clearIdentity`, session listener | a signed-out identity stays away; a live one stays, but for named cases; tabs do not undo each other |
| CWI signer | `client/sigma-cwi.ts` | iframe, handshake promise, identity, pending requests, timers | `init`, handshake, `setIdentity`, `sendCWI`, `handleMessage`, `destroy` | every request settles once; the identity is never an old one |
| Local signer | `client/local-signer.ts` | a token and the ready flag | `probe`, `authenticate`, `sign`, `destroy` | used only while it is ready |
| Legacy iframe signer | `client/signer.ts` | iframe, identity, six maps of pending requests, timers | `init`, `setIdentity`, six request methods, `handleMessage`, `destroy` | an answer is of the identity asked; every call ends; `destroy` leaves nobody waiting |
| Payload callback | `payload/index.ts` | Payload's user collection, sessions | as the Next.js callback, without account link | one user per email; a session only for the user resolved |
| Session cookie | `server/session-cookie.ts` | none | sign and format one cookie | byte equality with Better Auth |
| Local server helpers | `server/local.ts` | none | token lookup, expiry, scopes | expiry and scope boundaries |
| Admin roles | `server/admin.ts` | none | roles from balances, NFTs, BAP ids | fallback on error |
| Backup sync | `client/sync.ts` | none | push, pull, status | 404 told apart from errors |
| Utilities, types | `utils/`, `types/` | none | environment, base64url, SHA-256 | test vectors |

### What is hard here

Nothing in the code takes a lock. On the servers every `await` of a database
operation lets another request in; in the browser every `await` lets another
call, a message of an iframe, a timer, a logout or a navigation in. So the
hazards (`hazards` in `PROJECT.json`, each at its line) are mostly of these kinds:

- find-then-write across awaits, where a unique index decides who wins and the
  code has to recover (or does not): account, user, organization;
- a value read before an await and used after it: the row of the upsert, the
  module-level `signer`, the identity;
- a sequence of writes of which only some happen: code redeemed, user, account,
  session; organization, member;
- promises that nobody settles: overwritten handshake, destroyed signer;
- answers that arrive late, twice or never, and retries with a budget;
- a document that goes away with all its continuations while the storage stays,
  and documents of other tabs that keep a copy of what the storage held.

## 2. Modules

| module | models | extends / composes |
|---|---|---|
| `AccountLink` | abstract promise of the account record | |
| `SigmaAccount` | `upsertSigmaAccount`, every await | refines `AccountLink` (`ImplementsLink`) |
| `IdentitySignIn` | abstract promise of both sign-ins | |
| `SigmaSignIn` | the callbacks around it (plugin, Next.js, Payload) | extends `SigmaAccount`, runs its steps; refines `IdentitySignIn` |
| `ProviderSignIn` | `/sign-in/sigma`, `ensureBapOrganization` | refines `IdentitySignIn` |
| `ProviderTokens` | the hooks of `/oauth2/token` beside it | extends `ProviderSignIn`, runs its steps |
| `OAuthClient` | the redirect flow in a tab | |
| `StoredIdentity` | the identity and the session in all tabs of a browser | |
| `CWISigner` | `SigmaCWISigner` and the page it talks to | |
| `SignerClient` | `getOrCreateSigner`, local signer, logout | extends `CWISigner`, runs its steps |
| `IframeSigner` | `SigmaIframeSigner` and the page it talks to | |
| `SigmaAccountProofs`, `SigmaSignInProofs`, `ProviderSignInProofs`, `ProviderTokensProofs`, `OAuthClientProofs`, `StoredIdentityProofs`, `IframeSignerProofs`, `SignerClientProofs` | proofs | each extends the module it is named after; `SigmaSignInProofs` and `ProviderTokensProofs` rest on the proofs of the inner module; `SignerClientProofs` is about `CWISigner` too |
| `MC*` | the instances TLC checks | |

In every module an action is what one task does from one `await` to the next:
its guard is the await it is at and the code's conditions, its primed variables
are all that runs before the next `await`. Definitions called "Mutant of ..."
are plausible bugs of the definition below them, used to see that a property can
fail; nothing of the specification refers to them.

### AccountLink, SigmaAccount

`AccountLink` knows an owner per identity and the status of each call: a call
that answers "ok" has itself, at one moment between its invocation and its
return, made the identity belong to the user it was given; a call that fails may
or may not have. Owners also go away by unlinking.

`SigmaAccount` is the code: `account` is the table, `issued` its key sequence,
`pc` the await of a call, `attempt` the loop counter, `existing` the snapshot it
has read. `FindExisting` is `findOne` (201-215), `UpdateRow` the update of line
217, `Recheck` the second look at a row whose update answered null (an adapter
need not echo the row), `CreateRow` the create with its unique violation,
`LoseAttempt` the `continue` or the conflict error at the end of the budget,
`DriverError` every other rejection, whose write may have happened. `Unlink` is
Better Auth's own deletion. `UserIndex` says whether the consumer also has a
unique index on (providerId, userId): the code documents only the one on
(providerId, accountId).

### IdentitySignIn

What the two sign-ins have in common, and neither does in one step: a request
proves a credential (`Prove`), the credential gets a user if it has none
(`Register`), and the request gets a session of that user (`SignIn`). At the consumer
the credential is the email a code resolved to, and its user the row with that
email; at the provider it is the key, and its user the one that holds it or, where
nobody does, one that its profiles name. `owners` is a set, because profiles of
several users may name one key when the provider starts. `Register` takes a new user
only, for a credential that has none, and nothing else changes whom a credential
belongs to: a credential of one user stays one of that user.

### SigmaSignIn

Two tables more and a stage per callback: `RedeemCode`, `FetchUserInfo`,
`FindUser`, `UpdateUser` or `CreateUser`, the steps of `SigmaAccount` as
`UpsertStep`, `CreateSession`, `SetCookie`, and `CallbackError` for an operation
that fails at any of them. `handler` says which callback is deployed: the plugin
and the Next.js handler create missing users (`"signUp"`), the latter not when
given `disableImplicitSignUp` (`"noSignUp"`); the Payload handler (`"payload"`)
does not refresh an existing user and keeps no account row. `Resolve(c, u)` is
where they part: it starts the upsert for the user u, or goes on to the session.
The token endpoint and the adapter are external. Emails are unique (Better Auth's
index). The cookie is signed after the session row is written: when that fails,
the row stays and nobody holds its token.

### ProviderSignIn

A request carries a verified key and maybe a BAP id. Stages are the awaits of
`signInSigma` (926-1148) and of `ensureBapOrganization` inside it: `FindUser`,
`FindProfile`, `CreateUser`, `FindUserAgain`, `ResolveBapId`,
`FindOrganization`, `CreateOrganization`, `CreateMember`, `RefreshUser`,
`CreateSession`, and `CallError`, at any of them, with the write applied or not.
`config` is any combination of the options `getPool`, `resolveBAPId`,
`ensureOnEnrollment` and `disableImplicitSignUp`. `resolveBAPId` is the
application's: it may know a BAP id, register one, or answer null.

The profile table is the application's too, and the requests start with any rows in
it: a row's user is in the user table, a BAP id has one row, and that is all.
`account_pubkey` is not unique and the query of line 940 is `LIMIT 1` without an order,
so `FindProfile` takes any row of the key. A key that nobody holds and that rows of two
users name is `Ambiguous`: it signs in either, and `SameKeySameUser` excludes it.
Sign-in itself never makes a key ambiguous (`ImplementsSignIn`). Without `getPool`
the table is empty, since nothing reads it. The fall-through of 949-956, a row whose
user is missing, is left out: users are not deleted here.

A lost create is answered with a duplicate key, of which the code recognises one
shape, `code === "23505"` on the error itself (232-237, 982-987). Others exist
(`account-record.ts:95-97`: adapters "routinely rethrow the driver error nested inside
their own"), so `CreateUser` and `CreateOrganization` either recover or throw the error
on (`Rethrown`), which ends the request; `rethrown` remembers whose it was.

### ProviderTokens

`ProviderSignIn` with token exchanges beside it, interleaving at every await.
`shown[u]` is whose name and image the user row u carries; a sign-in writes it
(`RefreshShown`) and so does the after hook of `/oauth2/token`. An exchange goes
through `Authorize` (a signed-in user selects one of its organizations, external),
`BeforeHook` (the client and its signature: some fifteen checks of one request, of
which only the verdict matters here), `TokenEndpoint` (Better Auth redeems
the code, external), `FindTokenRow`, `ReadProfile`, `UpdateShown`, and
`HookError`, which the hook swallows. Two simplifications: the selects, update and
refetch of a sign-in's refresh are one step, as in `ProviderSignIn`, for nothing
but `shown` depends on their order; the once-per-process schema assertion is part
of the step that first queries, where it can only throw.

### OAuthClient

One tab. `session` is `sessionStorage`, with each value named by the attempt that
wrote it; `local` is the identity in `localStorage`; `storedBapId`, the pending
attempts and the pending calls belong to the document and die with it (`Load`).
`SignIn` is the part up to the await of the challenge, `Redirect` the rest.
`CallbackError`, `CallbackMismatch` and `CallbackExchange` are the synchronous
part of `handleCallback`, `Exchanged` and `ExchangeFails` its answer, `Redeem`
the endpoint's acceptance (external). The user may load any page he has been to,
at any time (`Browse`), and the page may call `handleCallback` more than once. A
callback page carries an attempt's state or none, and a code or none (an OAuth error,
or nothing). Without a state, and with none saved, the comparison of line 733 passes
(`null === null`) and the exchange goes out with whatever verifier is stored; the code,
if the page has one, is of no attempt, and the endpoint refuses it.

### StoredIdentity

All tabs of one browser. `cookie` is the session and `local` the identity in
`localStorage`; `storedBapId[t]` and `hadSession[t]` are the variables of the
document in tab t, and die with it (`Load`). An identity is named by the sign-in
or the `setIdentity` that stored it, so that two writes of one BAP id are told
apart. Better Auth's session atom is external: a document asks when it likes
(`Ask`), one question at a time, and the listener is later told what was so when
it asked (`ToldOfSession`, `ToldOfNone`), by which time another tab may have
signed in or out. A fetch may also fail (`FetchFails`): the atom then has no data, and
the listener, which looks at the data alone (362), is told of none. A callback is `SessionStarts` (the response sets the cookie) and
then `Returned` or `ReturnedBare` (its body is read, with or without a BAP id).
`LoadStored` is the lazy read of the storage. `history` are variables that only
the properties read: which sessions each document was told of (`told`), and then of
none (`sawEnd`; `ended` for all documents), which sign-ins returned after that
(`late`), which identities were removed (`cleared`), and whether one of the four things
has happened to the present session that may cost it its identity (`crossed`).

### CWISigner, SignerClient

`cwi[w]` is the record of an instance's fields, `page[w]` the iframes it has
added and the page in the latest (external: it reads messages in order once
loaded, answers requests in any order, late or never). A call goes through
`handshake`, `prepare`, `send`, `answer`; `Continue(c)` is what the event loop
owes it: the continuation of a settled promise, or a timer. `SignerClient` puts
the module-level variables, the local server and logouts around it. An answer of the
local server is two awaits, as in the code: its headers, within a timeout
(`Authenticated`, `LocalAnswer`), and its body, for which there is none (`TokenBody`,
`LocalBody`). The stored identity changes by `ChooseIdentity` (`setIdentity`, which
tells the signer), `CallbackIdentity` (the end of an OAuth callback, which does not)
and `Logout`. `installer` is who assigned the signer there is, and at which await;
`leftBehind` the iframe signers that a local one has taken the place of.

### IframeSigner

The older signer, still exported. It has no handshake: `init` waits for the load
event of its own iframe (`Open`, `Loaded`, `LoadFails`), and a method then posts
SET_IDENTITY and its request without an await in between (`Ask`), so that the
confusion of identities `signer_identity` finds in its successor cannot happen
(`SignedAsPosted`). The six methods have one shape and differ in the map they
use: `kind[c]` names it, `pending[k]` is the map. Overlapping calls each add an
iframe; the requests go to the latest, `initialized` is set by whichever loads
first, and a message to an iframe whose page is not there is lost (`Posted`).
`destroy` removes the latest iframe only, and the signer can be used again.

## 3. Runs

All runs take two concurrent actors (three attempts in `oauth`, two sign-ins and
an exchange in `provider`): every hazard listed is between two, and a third actor
that repeats one of them adds no new kind of step. The proofs of section 4 lift the
safety properties of every module to any number.

| run | expected | what it shows |
|---|---|---|
| `upsert` | pass | two upserts of one subject, two attempts each, a foreign row with the same subject, unlinking, silent adapters, half-applied writes: `UpsertInv` (with `TypeOK`), `ConflictIsEarned`, `ForeignRowsKept`, `WrongReportIsOvertaken`, `ImplementsLink`, `EveryCallSettles` |
| `sign_in` | pass | two callbacks of the same or different subjects and emails, in every flavour of the handler: `SameEmailSameUser`, `SessionIsLinked`, `NewUserOnce`, `ImplementsSignIn`, `EverySignInEnds` |
| `sign_in_race` | violation | `RaceFailsNoSignIn`: the loser of the race for a new user fails after its code is spent |
| `provider` | pass | two sign-ins and a token exchange, all options, failures everywhere (`MCProviderTokens`): `SameKeySameUser`, `SoleOwner`, `RaceFailsNobody`, `ShowsOwnIdentity`, `IssuedIsAnswered` |
| `provider_owner` | violation | (`MCProviderSignIn`) `EnsuredIsOwned`: an organization whose member row failed never gets an owner |
| `oauth` | pass | overlapping attempts, double calls, reloads, pages without a state or a code: `OneExchangePerAttempt`, `OwnVerifier`, `ReturnLeavesNothing` |
| `identity` | pass | two tabs, two sign-ins, one choice by hand: `SeenToEndIsGone`, `ClearedForGood`, `LiveSessionKeepsIdentity` |
| `cwi` | pass | two overlapping calls, identity changes, destroy, timeouts, late answers: `NoStaleIdentity`, `NoneWaitsOnDestroyed`, `RequestSettles`, `LastInitSettles` |
| `cwi_hang` | violation | `EverySignSettles`: a second `init` during the handshake orphans the first one's promise |
| `signer_client` | pass | local and cloud signer, logouts: `OneLiveSigner`, `LogoutIsFinal`, `NullOnlyAfterLogout`, `HangsOnlyAbandoned` |
| `signer_identity` | violation | `SignedAsAsked`: another identity slips in between SET_IDENTITY and the request |
| `iframe_signer` | pass | two overlapping calls of any kind, late loads, identity changes, destroy, signer errors: `SignedAsPosted`, `NoneWaitsWithoutIframe`, `EveryRequestSettles` |

The violations are disagreements between code and its own comments; each is a
finding in `PROJECT.json` with the quoted line. Some properties that pass name, for
the same reason, the cases in which the code does not keep what one would expect:

- `LogoutIsFinal`: a call that is probing for the local server at a logout assigns a
  signer afterwards (`client/index.ts:113-133`); no other call brings one back.
- `OneLiveSigner`: a local signer that takes the place of an iframe signer does not
  destroy it (`client/index.ts:115`, `leftBehind`); nothing else leaves one behind.
- `HangsOnlyAbandoned`: a call hangs if another `init` has overwritten its handshake
  promise (`cwi_hang`), or if the local server sends headers and then stalls, for the
  abort timer is cleared before the body is read (`local-signer.ts:134, 198`); every
  other call ends.
- `SameKeySameUser`: a key that nobody holds and profiles of two users name signs in
  either (`provider/index.ts:940`).
- `RaceFailsNobody`: a lost race fails a request if the duplicate key does not carry
  the code `23505` itself (`provider/index.ts:232-237, 982-987`), and only then.
- `LiveSessionKeepsIdentity` and `SeenToEndIsGone`, see below.

`reparented`, which an upsert
computes from a row read before its update, may be wrong too; the code promises
nothing else, so `WrongReportIsOvertaken` says when: only if another call on the
subject has written in between, and then in the way that explains the error.

`crossed` in `LiveSessionKeepsIdentity` collects the cases in which a live session
does lose its identity: while it lives somebody chooses another by hand or clears it,
another sign-in returns and stores its own, or a document's session fetch fails and its
listener takes that for a sign-out (`client/index.ts:362`); or, when it began, an
answer of no session was already on its way to a document that had known one.
`SeenToEndIsGone` excludes the callback that returns after a document was told of its
session and then of none, and stores its identity then.

Bounds. `MaxAttempts` is 2 in the account runs, so that an attempt is lost, one
is retried and the budget is reached. Row keys: one per call besides the initial
ones, for a call creates at most one row; the initial table holds any rows on the
initial keys. Users: one per request that may create one, beside a registered
one. Subjects, emails, keys, BAP ids: two, to be the same or different (one
subject in `upsert`, where calls of different subjects do not meet). `MaxInbox`
bounds how far `setIdentity` runs ahead of a page that does not read. `oauth` has
three attempts and three calls of `handleCallback`, each on any page: two may be of
one attempt while the third is of another, and an attempt may start after both.
`provider`: two users, keys and BAP ids, so that a user may own the organization of
another's BAP id; two sign-ins, for an exchange can start after one and overlap the
other; the profile table starts with any rows for the two BAP ids, ambiguous keys
included; `provider_owner` has a third user. `identity`: a second tab is what a stale
copy needs, and a second sign-in what may follow, overlap or displace the first.
Symmetry is used in `provider`, `oauth` and `identity` only, whose properties are
invariants and, in `identity`, one property of steps.
Deadlock is not checked: requests end, and then the system is at rest.

Fairness. Weak fairness on the steps of a call that its own runtime owes it: an
awaited database operation resolves or rejects (`Fairness`, `SignInSpec`), the
event loop runs the continuation of a settled promise and fires a timer that has
run out (`EventLoop`, `ClientSpec`, `IframeSpec`). The code sets those timers itself, and
drivers end their operations. Two kinds of await have no timer in the code. The bodies
of the local server's answers get no fairness (`BodyEnds`): a call may wait for one for
ever, and `HangsOnlyAbandoned` says so. The fetches of a callback to the token and
userinfo endpoints (`server/index.ts:117, 172`) are steps of `CallbackStep`, so
`EverySignInEnds` holds on the assumption that the runtime ends a fetch, as Node's
default header and body timeouts do; the code itself sets no limit. The page in the iframe, the user, unlinking and
failures owe nothing. `provider`, `oauth` and `identity` have no liveness
property and no fairness.

## 4. Proofs

For every value of the constants, under the named assumptions of the modules
(`ConstantsAssumption`, `SignInAssumption`, `ProviderAssumption`, `TokensAssumption`,
`OAuthAssumption`, `StoredAssumption`, `IframeAssumption`, `SignerAssumption`,
`NoSignerAssumption`: the "no value"
constants are outside the sets they extend, sets that must not be empty are not,
`MaxAttempts` is positive).

**SigmaAccountProofs.** `UpsertInv` is inductive: the unique index holds and keys
are issued once (`TableInv`); a row a call has read still carries its identity,
if it is still there (`ReadInv`: rows are updated in place or removed, never
renamed, and keys are not reused); the attempts a call has lost were disturbed by
somebody else (`LostInv`). The last is what `ConflictIsEarned` needs and does not
say itself: why the *current* attempt may be lost. `OtherProvidersUntouched`
follows from `ReadInv`, because a row is only written through the snapshot.
`ReportInv` says the same of a wrong report before it is made: the row about to be
updated has another owner than the one read only if another call gave it that
owner.

`UpsertImplementsLink`: initial states map to initial states, and each step of the
code to a step of `AccountLink` or a stutter (`LinkStep`), using `UpsertInv` before
and after it: that two rows never carry one identity is what makes the owner of the
abstract link a function of the table. The linearization point is the write, not the
answer, so that a lost answer is a failed call whose link was made.

**SigmaSignInProofs.** First `AccountStep`: a step of the callbacks is a step of
`SigmaAccount` or leaves its variables alone, so `UpsertInv` and all that follows
from it is inherited (`SignInRunsUpserts`), the refinement included
(`SignInImplementsLink`, from `LinkStep`). `CallbackInv(c)` says what a callback
has done before the stage it is at: past "upsert" its call is done, and its request
is the subject of the code with the user of the email. With the uniqueness of
emails (`EmailInv`), which a create preserves because the index rejects it
otherwise, it gives the three properties of `sign_in`. `Waits` and `WaitingInv` are
the frame: what the others do leaves a callback's part alone, for users are added
and never renamed. `SignInImplementsIdentity`: the create is the registration, also
when its answer is lost, the session row the sign-in; all else is a stutter. It
needs that a callback's email is set once and that the user it carries since the
lookup is still one of that email; that it is the only one is `EmailSignsInOneUser`.

**OAuthClientProofs.** `OAuthInv` adds to the three properties that the storage
describes one unexchanged attempt (`StorageInv`: the attempt whose state is
saved has sent nothing, and the verifier and redirect_uri beside it are its own
or gone) and that calls only know attempts that were redirected (`CallInv`).

**ProviderSignInProofs.** `ProviderInv`. `SameKeySameUser` is not inductive: a
user may be found by key or by profile, before or after somebody else creates
one. `ProfileInv` says what a request that has found nobody may still meet: at
the profile lookup, only rows of the holder of the key; at the create, no row
unless somebody holds the key by now. `OwnerInv`: who is between the two writes
of an organization is alone there and it has no member yet.
`ProviderImplementsIdentity`: the users of a key are read off two tables that change
independently. The cases are those of `ProfileInv`: an insert never gives a user to a
key that a readable profile names, and a new profile names a user its key has already
(`OwnersStayPut`), so whom a key belongs to changes once, from nobody to one new user.
Nothing is assumed of the rows of one key at the start.
`RacesAreHandled` rests on one fact, in `ResolvedInv`: who looks a second time finds
the holder.

**ProviderTokensProofs.** `TokensImplementSignIn`: with the exchanges beside it a
sign-in is still a behaviour of `ProviderSignIn`, hence `SameKeySameUser` and
`ImplementsSignIn` there too. `ShowsOwnIdentity` needs that profiles are never removed and that what the after
hook has read, `found`, is a profile of the owner of the token.

**StoredIdentityProofs.** `OnceInv`: each sign-in and choice stores once, so what
was removed is not stored again, which is why a removed identity cannot come back
except in a document that still has it. `EndInv`: a document that was told of a
session and does not take note of one now has been told of none since, which is why
the one that is told of none has cleared every identity it was told of. `AnswerInv`: while
a session lives that nothing has crossed, no answer of none is on its way to a
document that has known one, for there is none when the session begins and no question
is answered with none while it lasts.

**IframeSignerProofs.** `IframeInv`. `SignedAsPosted` speaks of the head of the
inbox and of answers, and depends on all that is on its way: `InboxInv` says
that the message in front of a request is the identity
of its call (or the page has been told it already), `ReplyInv` the same of a
reply, `AnswerInv` that an unsettled call has no answer that could be wrong.
`FailStep` and `RejectAll` are the common part of the ways to fail. That the six
maps are exactly the waiting calls is in `IframeTypeOK`, and makes
`NoneWaitsWithoutIframe` follow for `destroy`.

**SignerClientProofs.** `CWISigner` runs alone and under the client, by the same
steps. So the invariant is in two parts. `SignerInv` is about instances, pages and
calls, and each lemma of the first half says that one such step keeps it, from
what the step does and not from which module takes it. `NoStaleIdentity` speaks of
answers; what makes it hold is on its way long before: a request that a page
will read is preceded by an identity of its call. `ToldOf(S, p, n)` says that of
message n: before the page p reads it, the last identity p has been told is one of S,
be it by a message before it in the inbox or by one already read. `CallInv` needs
it of a call that is about to post (`"send"`), for the end of the inbox, `PageInv`
of every request in it and of every reply. Identities set in between are appended
to the inbox and to `since` in one step, so a later one never spoils an earlier
request. `FieldsInv` is the bookkeeping: `pending` is exactly the calls awaiting an
answer, so `destroy`, which rejects these, leaves nobody waiting.
`ModuleInv` is about the module-level variables: an instance not constructed yet is
alive, only the option `preferLocalServer` brings a local signer, and a call that
has found a signer returns one unless a logout overtook it, which is what the three
properties of `signer_client` need and do not say themselves. `ClientInv` is the
conjunction; it gives `NoStaleIdentity` and `NoneWaitsOnDestroyed` under the client
too (`ClientIdentityNeverStale`).

Only model-checked: liveness (`EveryCallSettles`, `EverySignInEnds`,
`RequestSettles`, `LastInitSettles`, `HangsOnlyAbandoned`, `EveryRequestSettles`),
for the proof system has no rules for fairness and ENABLED; the expected
violations, which are counterexamples. Also out of its reach, and not used here:
recursive operators and induction over data.

## 5. Not modelled

- Admin roles (`server/admin.ts`): roles are resolved from the application's
  callbacks within one request, which writes nothing and shares nothing; a test
  with a rejecting callback reaches its only hazard.
- Local server helpers (`server/local.ts`), backup sync (`client/sync.ts`),
  utilities and types: pure functions or single fetches without state.
- The plain `createCallbackHandler` of `next/index.ts`, and the consent store of
  the provider: one request without shared rows, one row by its key.
- The application's own `findUser` and `createUser`, of the Next.js and Payload
  handlers: what they do is not in this repository.
- Several session fetches of one document in flight at once: how Better Auth orders
  their answers is not in this repository; `StoredIdentity` takes one at a time.
- Inside modelled components: cookie and redirect layout, HTTP formats, signatures
  and their verification (a request is a verified one), the iframe's size, encodings.

Setup scripts and skills are not part of the plugin.

## 6. Plan

Done: the account record with its abstract promise and refinement; the callbacks of
the plugin, Next.js and Payload; the provider's sign-in and token hooks; the promise
both sign-ins implement; the OAuth client; the stored identity across tabs; the three
signer modules. Proofs of the safety properties of all of them.

Next, in this order:

1. An abstract signer (a request is answered once, by an identity set since it was
   made, or fails) that `CWISigner` and `IframeSigner` are shown to implement, each
   with its own moment from which identities count.
2. `OAuthClient` and `StoredIdentity` as one browser, in place of the two halves of
   `handleCallback` they model now.

A run answers one question, and runs of one module are merged where a larger
instance answers both.
