# A verification project for ice-ambassador-backend

TLA+ models of the parts of the backend that keep state and share it between
requests, TLC runs that check them on small instances, and TLAPS proofs of what
matters most for every instance. Paths are relative to `src/` of the repository
(`auth.service.ts` is `src/src/auth/auth.service.ts`, and so on).

1. [The system](#1-the-system)
2. [The plan](#2-the-plan)
3. [The modules](#3-the-modules)
4. [The runs](#4-the-runs)
5. [The disagreements found](#5-the-disagreements-found)
6. [What is proved](#6-what-is-proved)
7. [What is not modelled](#7-what-is-not-modelled)

## 1. The system

A NestJS backend: one Node.js process, or several behind a balancer, with
MongoDB (through Mongoose), Redis (through ioredis), a mail server, S3 and FCM.
Node runs one step at a time, from one `await` to the next; between two steps of
a request any step of any other request can come. That is the interleaving
that all models share, and with several processes it is no different: what the
requests share is in MongoDB and Redis.

| component | state it keeps | operations | what is hard |
|---|---|---|---|
| Account recovery and login (`auth.service.ts`) | the user document: password, status, `emailVerifiedAt`, two arrays of tokens, `__v` | `forgotPassword`, `resetPassword`, `verifyEmail`, `resendVerification`, `login` | load, change in memory, save: stale saves, version conflicts, lost mails, two requests with one token, short codes |
| Registration (`auth.service.ts`) | the collection of users and its unique indexes | `register` | look up, then insert; bounded retries; the referral graph |
| API keys (`api-keys.service.ts`) | the key document: prefix, hash, `isActive`, counters | `createKey`, `revokeKey`, `rotateKey`, `validate` | a use that overlaps a revocation or a rotation; two rate limits; the format of the raw key |
| Redis counters (`redis.service.ts`) | counters with a life | `incrementWithWindow`, `checkRateLimit` | expiry between two commands |
| Rate limiter (`redis-rate-limit.middleware.ts`) | none of its own | `use` | requests between increment and decision, re-sent commands, Redis out of reach |
| Socket gateway (`socket.gateway.ts`) | two maps between users and sockets, pending handlers | `handleConnection`, `handleDisconnect`, `emitToUser`, `registerEventHandler`, `afterInit` | reconnections that overtake the old socket's close; handlers registered early or late |
| Request authentication (`jwt.middleware.ts`, `api-keys.controller.ts`, `api-key.guard.ts`, `roles.guard.ts`) | none; the tokens and the status of the account carry it | bearer, refresh, API key; `create` | expiry and renewal against a changed account; what a key or a PENDING account can still obtain |
| Request pipeline (`app.module.ts`, validation, controllers) | what earlier steps left in the request | route, limit, authenticate, validate, handle | order and exclusions |
| User profiles, job queue, mail, files, push, bootstrap | see section 7 | | |

How they interact: a request passes the rate limiter (which counts in Redis),
then authentication (which validates an API key, and so counts in Redis again,
or reads a user), then its handler, which works on user or key documents.
`register` makes the user documents that the recovery operations work on. The
socket gateway is called by event handlers and is not imported by
`app.module.ts` at present (line 31).

What makes each component correct:

- *Recovery*: a token is worth something once and for a time; a password change
  makes every outstanding reset token worthless; a new verification code
  replaces the old one; nobody gets tokens without a verified address; no save
  undoes another request's.
- *Registration*: accounts are unique in email, phone and referral code; the
  referral graph has no circle; a refusal is true; every request ends.
- *API keys*: revocation is final, a replaced raw key is dead, the limit holds,
  a key that was issued is accepted.
- *Counters and limiter*: every counter expires; no window lets more than the
  limit pass; no request is refused while there is room; every request is
  answered.
- *Sessions*: an account that is suspended, or was never verified, gets no new
  tokens but from requests under way, cannot renew its way on, and cannot turn a
  key into a session or into another key; one that was verified leaves a
  suspension by a code only through a `verifyEmail` that had passed its checks
  before. (One that was never verified leaves it by its first code.)
- *Socket gateway*: messages reach the user they are for and nobody else, the
  maps do not grow, every handler is attached.

`PROJECT.json` lists the components with their sources, and under `hazards`
everything in this code that is hard to test, each at its line, with the
properties that watch it.

## 2. The plan

Done, in this order: `AuthService`, `AuthServiceProofs`, `RedisService`,
`RateLimiter`, `ApiKeys`, `SocketGateway`, `SocketGatewayProofs`,
`Registration`, `Sessions`, `Recovery` with the refinement mapping in
`AuthService`, `RecoveryProofs`, `RateLimiterProofs`, `RegistrationProofs`,
`ApiKeysProofs`, `SessionsProofs`.

What the code keeps state for is modelled, and every invariant and action
property that a passing run checks is a theorem. What is left:

1. An abstract specification of a key (issued, replaced, revoked, used), which
   `ApiKeys` implements: `ApiKeysProofs` has the facts about saves that the step
   for step proof needs.
2. One of a registration as a single insert, for `Registration`.
3. The same of the limiter, whose decisions depend on commands that are sent
   twice, and so need a specification that is looser than "at most the limit".

The modules are written for proof as well as for TLC: parameters are CONSTANTS
with named assumptions, every operation is an action, no operator is RECURSIVE.

## 3. The modules

### AuthService

`users[u]` is the stored document, `users[u].v` its `__v`. A request `r` is
served once; a client that tries again is another request. `pc[r]` is the await
that `r` stands at, `snap[r]` the document as its `findOne` returned it,
`made[r]` the token it generated, `arg[r]` the token it was given.

Each operation is cut at its awaits, where it can be overtaken: `...Load` is
the `findOne` with the synchronous work after it, `...Save` what the database
does when the save arrives, `...Mail` the mail, which may be lost without
anybody being told. `...Refused`, `...Unknown`, `...Again` are the early returns. The
bcrypt hash of `resetPassword` and the comparison of `login` are awaits too,
but nothing is read or written there, so they are one with the await of the
save. `Abort` is a database error or the end of the process at any await.

What a save does is Mongoose's, not the code's, and decides everything here. A
save sends only the paths that were modified, and its shape decides about the
version key:

| modification | update | filtered by `__v` | increments `__v` | where |
|---|---|---|---|---|
| an element pushed | `$push` | no | yes | `forgotPassword`; `resendVerification` if no code was live |
| a field of elements set | `$set` of `array.i.used` | yes | no | `resetPassword`, `verifyEmail` |
| both | `$set` of the whole array | yes | yes | `resendVerification` otherwise |
| plain fields | `$set` | no | no | `login` |

An assignment of a value that is already there modifies nothing (`Dirty`). A
filtered update that matches nothing is a `VersionError`, answered with 500
(`ResetConflict`, `VerifyConflict`, `ResendConflict`).

Data: a password stands for the request that set it; a reset token is 32 random
bytes and stands for the request that made it; verification codes are short and
come from the set `Codes`, so they repeat. A client can present the reset
tokens that were mailed, one that no document holds, and every code. Accounts
start as `register` leaves them, or as an import does: ACTIVE, without a
password, which `login` sends through `forgotPassword`. The recovery operations
read the status only in `login`; suspensions are in `Sessions`.

### Recovery

What the operations promise when one forgets documents, arrays and versions:
`accounts[u]` has the password, whether the address is verified, the live links
and the live codes, and three sets of requests that have acquired the right to
finish: to set the password (`mayReset`), to verify (`mayVerify`), to replace
the codes (`mayRenew`). A request acquires it while a link or a code is live
(`MayReset`, `MayVerify`, `MayRenew`); whenever a link or a code is issued all
rights that are out are revoked. So whoever finishes knows every link or code there is:
`ResetPassword` sets the password and kills all links, `Verify` kills all codes,
`RenewCode` leaves one. Every operation is one step on one account.

The mapping is at the end of `AuthService`: links and codes are the hashes of
the entries that are not used (`LiveHashes`), and a right is held by the requests
that await their save with the version they loaded still stored (`Entitled`): the
version filter is how the code revokes. `RecoveryImplemented` says that
`AuthService` does nothing else. Two requests may both hold the right to reset,
and both use it, because that is what the code does (section 5); the abstract
specification makes plain that it takes an issue of a link, not a reset, to
revoke the right. An imported account has no code to begin with, and two resends that
both find none push one each (`AddCode`).

### RedisService, RateLimiter

`RedisService` has the counters (`count`, `ttl`), the Lua script as one step and
the passing of time; `window` is a history that numbers the lives of a counter. `RateLimiter` puts the middleware over it: `Check` sends
the increment, `Incremented` is its answer, `Decided` the answer of `TTL` and
the decision, `FailOpen` an error of Redis. `redis.module.ts` sets
`maxRetriesPerRequest: null`, so a command waits for a connection without end,
and a connection that breaks is no error: the client sends every command that
has no answer again. `Break` is that, for all requests at once. Some results
were on their way and are lost (any set of the requests that had just been
counted), some increments Redis has not run: all of them are in `again` from
then on, as `<<request, break>>`. Of the latter sort Redis may have received the
first sending all the same; these are in `strays`, and `RunStray` runs one at
any later time, or never. So a request can be counted once, twice, or once more
for every break. `countedIn` is history: it says which window a request was
counted in, as its answer has it. A limit of 0 switches the limiter
off, as does a window of 0, which is the same step.

### ApiKeys

The key document, requests that load and save it, and a counter of
`RedisService` for every raw key. Random prefix and secret are new each time, so
a raw key, its prefix and its hash are the request that generated them. `mem[r]`
is the document as changed in memory; a save is a `$set` of the fields that
differ from the loaded ones and is not filtered, since the operations modify no
array. `underscored` is the set of raw keys whose secret has an underscore,
chosen at the start because the bytes are random. `validate` is cut at the
lookup (`ValidateLoad`), the comparison (`ValidateCompare`, where the time is
noted), the increment, the TTL and the save; an error of Redis at either command
leads to the fallback in the document (`FallbackAllows`, `FallbackLimits`).
A caller that does not own the key is refused and writes nothing (`NotOwned`).
`countedIn` is history, as in `RateLimiter`: `RedisHoldsLimit` is about the uses
that one window of a raw key's counter let pass.

### SocketGateway

All handlers of the gateway run without awaiting, so each is a step. Socket.io
takes a socket out of its list before `handleDisconnect` is called, and calls
all listeners of a connection in one go; both are in the actions. `seen` and
`registered` are history. `inbox[s]` is for whom the messages sent to `s` were
meant. `OnDelivery` stands for the listeners of `socket.module.ts`, each of which
is one `emitToUser`. The gateway lets handlers be registered before `afterInit` and after it,
and the model lets sockets connect at any time from `afterInit` on.

### Registration

An account is named by the request that makes it. Every look-up is a step that
reads the collection as it is then (`EmailFree`, `PhoneFree`, `CodeFree`,
`FindReferrer`), and the insert a later one, which the unique indexes of
`user.schema.ts` refuse if by then somebody has the email, the phone or the code
(`SaveConflict`, answered with 409). The indexes are taken to exist. `Forms` is
what requests ask for; addresses and numbers are what lower-casing and stripping
leave of them. `CodeTaken` and `CodesExhausted` are the draws of a code that is
taken, of which there are at most `MaxAttempts`.

### Sessions

A token is an account and an expiry: access and refresh tokens are signed with
one key over one payload, and `JwtMiddleware` takes each where it expects the
other, so a request presents any token that was issued. Tokens are issued by
`register`, to the PENDING account it saved, after its mail (`Register`,
`RegisterIssue`), and by `login` (`LoginLoad`, `LoginIssue`). `RenewAsk`,
`RenewFound` and `Renew` are the renewal: the refresh token is verified, the
account looked up, the new token signed. A valid access token is served without
any look-up (`Access`), and a key whatever the status of its account
(`KeyAccepted`); `Bypass` is the branch for the marked header. `Unauthorized`
stands for all refusals that look up no account; the tokens that were issued
decide the rest. Behind the middleware, `CreateKey` is the handler that gives an
account a key and wants `authType` to be `jwt`; `KeyPathRefused` is the one of
`revoke` and `rotate`, whose paths the middleware is excluded from.

The status changes by `VerifySave`, which sets ACTIVE whatever it replaces, and
by `Suspend` and `Reinstate`, which no code of the repository does: the schema
has the status, `login` and the renewal test it, so an administrator sets it in
the database. `inactiveSince`, `underWay` and `endedAt` are history: since when
an account is not ACTIVE, which requests were under way at that moment, and when
a request ended.

### MC modules

`MCAuthService`, `MCRateLimiter`, `MCApiKeys`, `MCSocketGateway`,
`MCRegistration` and `MCSessions` name the small sets of their component and, where sound, the
permutations that leave it alone. Runs that check liveness use none. The
operators marked *Mutant* in the components are the plausible bugs that
`PROJECT.json` pairs with the properties: with one in place of the definition
it follows, the property is violated.

## 4. The runs

| run | checks | instance |
|---|---|---|
| `auth` | that the types are kept (`TypeOK`), that a loaded document is never ahead of the stored one and an equal version means no token was added (`SnapshotBehind`), that mailed tokens are stored (`MailedTokensStored`), at most one live code (`AtMostOneLiveCode`), verified login (`LoginNeedsVerifiedEmail`), the cause of conflicts (`ConflictNeedsPush`), that tokens are only added and spent (`TokensOnlySpent`), that a password change spends all reset tokens and nothing else spends one (`ResetSpendsEveryToken`), and that all of it implements `Recovery` (`RecoveryImplemented`) | 2 users, one imported; 3 requests, 2 codes, 1 tick |
| `auth_single_use` | violated: `SingleUse` | the same |
| `auth_code_collision` | violated: `ValidCodeIsAccepted` | the same |
| `ratelimit` | types, counters that expire (`CountersExpire`), the limit per window (`WithinLimit`), that nobody is refused unless the requests that his window counted and the increments sent again for his counter are together more than the limit (`RefusedOnlyWhenFull`), and under fairness `AnsweredOnceUp` | 3 requests, 1 key, limits 0 to 2, 2 windows of 2 ticks, 1 break |
| `ratelimit_outage` | violated: `FailsOpen`, under fairness | 2 requests, 1 key |
| `apikeys` | types, `UsageIsReal`, `RedisHoldsLimit`, `RevokedIsFinal`, `ReplacedNeverReturns`, `LateRequestsRefused` | 1 key, 4 requests, limit off or 1, never or soon expiring, windows of 1 tick, 1 tick |
| `apikeys_fallback` | violated: `FallbackHoldsLimit` | the same |
| `apikeys_underscore` | violated: `IssuedKeyIsAccepted` | the same |
| `socket` | types, `KnowsTheOpenSockets`, `MapsAgree`, `HandlersAttach` | 2 users, 3 sockets, 2 events |
| `socket_reconnect` | violated: `ConnectedUserIsReached` | the same |
| `registration` | types, `UniqueAccounts`, `ReferralsAreTrees`, `RefusalsAreTrue`, and under fairness `RegistrationEnds` | 3 requests, 3 forms, 2 codes, 2 attempts |
| `sessions` | types, who may get tokens while an account is not ACTIVE (`LateRequestsGetNoToken`), that renewals and keys cannot outlive it (`SessionsRunOut`), and that an account that was verified leaves a suspension by a code only through a request that had passed its checks before (`VerifiedStaySuspended`) | 1 account, 3 requests, lives of 2 and 3 ticks, 5 ticks |

**Bounds.** `MaxTime` bounds the clock of `AuthService`, `ApiKeys` and `Sessions`,
`MaxWindows` and `MaxBreaks` the windows and breaks of `RateLimiter`; all other
counters are bounded because requests are. Three requests of `AuthService` allow
a token to be issued, to be in one request's hands and to be met by a second
one's save; two codes make digits repeat; with lives of
0 ticks a token of either kind that is issued before the tick is expired after
it, and one that is issued after it is live. In
`ApiKeys`, four requests are a creation, a rotation or revocation, and two uses
that overlap it; a window as short as the clock's one tick lets a use be counted
in one window and decided in the next. `RateLimiter` has one request more than the highest limit, and
the break may lose the results of several and so send several again. It has one
counter: two share no more than the clock and the connection, and the theorems
are about any number. In `Registration` two accounts take all codes and
a third request finds none. One socket that lingers, one that replaces it and
one of another user is all that the gateway's maps can tell apart. In `Sessions`
a login, a renewal and a request with the renewed token make the longest chain
that matters, the lives let a renewed token outlive the refresh token it came
from, five ticks are long enough for a renewal and a life of a refresh token
after a suspension, and accounts do not influence each other.

**Fairness.** `FairSpec` of `RateLimiter` says that while the connection is up
Redis answers (weak fairness of `Answered`); nothing makes the connection come
back, since nothing in the code does. `Spec` of `Registration` says that the
database and the mail server answer a request (weak fairness of `Serve`), if
only with an error. The others state no fairness.

**Deadlock** is not checked in the runs whose requests are served once
(`auth*`, `ratelimit*`, `apikeys*`, `registration`, `sessions`): when all are done, and the
clock has reached its bound, the system is at rest. It is checked in `socket`.

## 5. The disagreements found

Each is a run that violates one property which a comment, a test or the README
of the repository states.

- *A reset token is not single use* (`auth_single_use`; `auth.service.ts:223`).
  Two `resetPassword` requests that load the document before either saves both
  succeed: marking elements sends an update that is filtered by `__v` but does
  not change it. The lemma `MarkingSpendsAll` and `ResetSpendsEveryToken` say
  what does hold.
- *A live verification code can be refused* (`auth_code_collision`;
  `auth.service.ts:295`, `:309`). Used codes stay in the array and the first
  entry with the digits counts; and codes are looked up across accounts.
- *The limiter does not fail open in an outage* (`ratelimit_outage`;
  `redis-rate-limit.middleware.ts:55`). Commands wait without end.
- *The fallback limit loses updates* (`apikeys_fallback`; `README.md:41`).
- *Keys with an underscore in the secret never work* (`apikeys_underscore`;
  `api-keys.service.ts:97`).
- *A user who reconnected may not be reached* (`socket_reconnect`;
  `socket.gateway.ts:90`).

## 6. What is proved

`AuthServiceProofs`, `RecoveryProofs`, `RateLimiterProofs`, `ApiKeysProofs`,
`SocketGatewayProofs`, `RegistrationProofs` and `SessionsProofs` prove, for every
value of the constants that satisfies the assumptions named in the modules:

| theorem | says |
|---|---|
| `AuthServiceProofs!TypeCorrect` | `Spec => []TypeOK` |
| `SnapshotsBehind` | `Spec => []SnapshotBehind` |
| `TokensKept` | `Spec => TokensOnlySpent` |
| `ResetSpends` | `Spec => ResetSpendsEveryToken` |
| `OneLiveCode` | `Spec => []AtMostOneLiveCode` |
| `MailsKept` | `Spec => []MailedTokensStored` |
| `LoginVerified` | `Spec => []LoginNeedsVerifiedEmail` |
| `ConflictsCaused` | `Spec => []ConflictNeedsPush` |
| `RecoveryProofs!RecoveryRefined` | `Spec => RecoveryImplemented` |
| `RateLimiterProofs!TypeCorrect` | `Spec => []TypeOK` |
| `Expiry` | `Spec => []CountersExpire` |
| `LimitHeld` | `Spec => []WithinLimit` |
| `RefusalsJust` | `Spec => []RefusedOnlyWhenFull` |
| `ApiKeysProofs!TypeCorrect` | `Spec => []TypeOK` |
| `RevokedFinal` | `Spec => RevokedIsFinal` |
| `ReplacedGone` | `Spec => ReplacedNeverReturns` |
| `LateRefused` | `Spec => LateRequestsRefused` |
| `UsageReal` | `Spec => []UsageIsReal` |
| `RedisLimit` | `Spec => []RedisHoldsLimit` |
| `SocketGatewayProofs!TypeCorrect` | `Spec => []TypeOK` |
| `NoLeak` | `Spec => []KnowsTheOpenSockets` |
| `Delivered` | `Spec => []MapsAgree` |
| `HandlersReachSockets` | `Spec => HandlersAttach` |
| `RegistrationProofs!TypeCorrect` | `Spec => []TypeOK` |
| `Uniqueness` | `Spec => []UniqueAccounts` |
| `Trees` | `Spec => []ReferralsAreTrees` |
| `Refusals` | `Spec => []RefusalsAreTrue` |
| `SessionsProofs!TypeCorrect` | `Spec => []TypeOK` |
| `LateGetNoToken` | `Spec => LateRequestsGetNoToken` |
| `VerifiedStay` | `Spec => VerifiedStaySuspended` |
| `RunOut` | `Spec => []SessionsRunOut` |

The assumptions are that limits, lives and windows are numbers, that the sets of
requests are finite where they are counted (`RateLimiter`, `ApiKeys`), and that
`None`, which stands for `null` and for what is not there yet, is none of the
values it stands in for (`NoneAssumption`). `SessionsProofs` also needs that an
access token does not live longer than a refresh token (`AccessLife <=
RefreshLife` in `LivesAssumption`): the defaults are 15 minutes and 7 days, and
the code calls them short-lived and long-lived (`auth.service.ts:199`, `:202`),
but a configuration may say otherwise, and `SessionsRunOut` would then have to
be stated for the longer of the two.

*AuthService.* The inductive invariant is `TypeOK /\ SnapshotBehind`. `Behind`
is a preorder on documents. A step that writes moves one document forward in it
(`SaveBehind`): a push appends and raises the version; marking marks; a `$set`
of the whole array passes its filter only if the version is the loaded one, and
then, by `SnapshotBehind`, the stored array is as long as the loaded one and no
token is dropped. That is why the version clause belongs to the invariant: with
`OnlySpent` alone the last case does not go through. `TokensOnlySpent` follows
from the step lemma. For `ResetSpendsEveryToken` the save of `resetPassword`
marks what was live when loaded, and an equal version says nothing was added
since (`MarkingSpendsAll`); passwords in memory differ from the stored one by
`PasswordsSet`. `AtMostOneLiveCode` needs in addition that the codes of an
account that was registered stay live or are replaced until it is verified
(`LiveUntilVerified`), so that its resends always take the filtered form.
The other three follow from what one step does to one request and its document
(`NextMoves`). `MailedTokensStored` needs that a token is stored already while its
request waits for the mail (`MailsStored`), and that no save drops an entry.
`LoginNeedsVerifiedEmail` needs that an account is ACTIVE only if it was verified
or imported, also for the request whose login has passed its checks
(`ActiveVerified`). `ConflictNeedsPush` needs the cause before the effect: as soon
as the version a request loaded is not the stored one, another request has pushed
(`Causes`).

*Recovery.* The refinement is proved step by step from an inductive invariant,
`RecoveryInv`: the one of `AuthService` with `LiveUntilVerified`, that what a
request generated is named after it (`MadeNames`), and that a stored link is of a
request that has saved it (`LinksSaved`), so that a new link is one nobody was
issued. A step of `AuthService` changes the account of one user at most. A load
grants a right: the version loaded is the one stored. A push raises the version,
which empties `Entitled`: that is `Revoked`. A save that passes the filter is a
finishing step, and `SnapshotBehind` tells that the entries it marks are all that
are live. A conflict, a refusal, a crash is `GiveUp` or a stutter, and mails,
logins and ticks are stutters.

*RateLimiter.* The invariant (`Inv`) is about what re-sent commands leave behind. The
counts that were answered in one life of a counter are distinct (`Distinct`) and
not beyond the counter while that life lasts (`NotAhead`); with the decisions
being what the count says (`Decisions`), the requests that pass in one window map
one to one into 1..`maxRequests`, which is `WithinLimit`. Conversely no count
is beyond the number of requests that hold one of the same window, and the
increments sent again that Redis may have run before (`AllCounted`, `Runs`), which
gives `RefusedOnlyWhenFull`. A stray is not among these until it is run, so
running it adds one to both sides (`RunStrayKeeps`); a break takes the lost
results from the requests that hold a count and adds as many increments sent
again (`LostAreAgain`). For that the breaks are numbered: an increment lost for
the second time is a new member of `again` (`SentBefore`). The sets that are
counted are finite because the requests are.

*ApiKeys.* No save is filtered, so what keeps the documents right is which fields
each operation changes. The invariant `DocInv` says it of every request at every
await: `mem` differs from the loaded document by what the operation does
(`Changed`), and the stored document is one that may follow the loaded one
(`Follows`: the same limit, and revoked if that was). A `$set` of the changed
fields then cannot undo a revocation (`RevokedFinal`), and prefix and hash, which
only a rotation changes and changes together, stay one key's (`Twins`). For
`UsageIsReal` a loaded count too must claim no more than the uses that were
accepted (`Claims`): a save writes the loaded count plus one and is itself a use
more. `RedisHoldsLimit` is proved as `WithinLimit` is: the uses one window counted
have distinct counts (`Distinct`) that do not pass the counter (`NotAhead`), and
those that were accepted are within the limit (`Decided`), which nobody changes.

*SocketGateway.* The inductive invariant `Inv` joins the types, that open
sockets have a user, `KnowsTheOpenSockets` and `MapsAgree`; the last needs the
others because a connecting socket must be new to both maps and a message must
go to a socket whose user the first map knows. `NoneLost` carries
`HandlersAttach`.

*Registration.* `Stages` is what a request has by the time it comes to an await:
no account before its insert, a code before it looks for a referrer, a referrer
that exists. From it, `OnlyInserts`: the collection changes only by an account
that was not there, that no index keeps out, and that nobody refers to yet. Thus
`UniqueAccounts`; and a set of accounts with the new one in it either is that one
alone, or has, without it, one whose referrer is not in the set and is not the
new one (`ReferralsAreTrees`). Refusals stay true as accounts are never removed
(`FoundStays`).

*Sessions.* The invariant `Inv` follows the requests that can still do something
for an account: one that is past its look-up of an account that is not ACTIVE was
under way when the account began not to be (`Asks`). That is
`LateRequestsGetNoToken`, and for a `verify` of a verified account
`VerifiedStaySuspended`. For `SessionsRunOut`,
each token of such an account was issued before that or by such a request when it
ended, and its expiry is bounded accordingly (`Lives`); a request served by a
token had one that was valid when it was served (`ByToken`). The bound is on
requests by token, on renewals and on new keys. Requests by a key are in no bound:
a key is served whatever the status of its account, and one that was made with
the token of a PENDING account goes on.

*Only model-checked:* what is about liveness (`AnsweredOnceUp`,
`RegistrationEnds`), which is out of the prover's reach, like ENABLED. The
properties of the runs that end in a violation are false.

## 7. What is not modelled

- *Request pipeline*: the order of the middleware (limiter, then
  `JwtMiddleware`), the routes excluded from it (`app.module.ts:103-113`) and
  validation are fixed tables and checks of one request. One consequence is a
  step of `Sessions` (`KeyPathRefused`) and a hazard: `api-keys/(.*)` is
  excluded, so `revoke` and `rotate` never see the `userId` they ask for.
- *`ApiKeyOrJwtGuard` and `RequireRole`*: no controller uses them.
- *User profiles* (`user.service.ts`): reads, and one atomic update of names.
- *Job queue* (`bullmq.service.ts`): one queue whose worker echoes its job; what
  can go wrong is the library's.
- *Mail templates, S3, FCM*: I/O; whether a mail arrives is in the models.
- *Bootstrap, logging, response envelope, static files, validation messages*:
  no state, or layout.
- *Local time* of token lives, *malformed configuration*, *collisions of 32
  random bits* in a key's prefix: listed as hazards, with the reason why no
  property covers them.
- *A write that lands while its acknowledgement is lost*: in all modules a save
  and its answer from MongoDB are one step, and an error of a save means that
  nothing was written. In `ApiKeys`, "accepted" therefore means that the checks
  were passed and the use was saved.
- In `SocketGateway`, `broadcastFromClient` and `emitToRoom`, which nothing
  calls and which keep no state, and the chat handlers, which only log; in
  `ApiKeys`, scopes and names, which its operations do not read.
