# Models and proofs of the API's core protocols

This directory holds TLA+ models of the NestJS API in `src/`, the TLC
configurations that check them, and TLAPS proofs of the results that matter
most. It is kept beside the code: when a use case, a repository or a guard that
a definition stands for changes (`PROJECT.json`, "map"), the definition has to
change with it.

The API is a set of stateless Node processes in front of PostgreSQL (Prisma) and
Redis. Nothing locks anything in the process. A request is a chain of `await`s,
and between any two of them every other request, of this process or of another,
may run, and this process may stop. Most use cases read, judge and write in
separate statements; few of them use a transaction. The models therefore all
have one shape: shared tables, a record of local state per request with a `pc`
that stands between two awaits, and one action per statement. Every failing
check, rejected call or crash is an explicit action too.

## Inventory

| component | state | operations | what is hard |
| --- | --- | --- | --- |
| Versioned cache (`shared/cache`) | Redis entries under `ns:v<version>:key`, one version counter per namespace | `@Cacheable` reads, `@InvalidateCache` writes, TTLs | a read that missed fills after a write has bumped; a bump that is lost; creates and deletes that do not bump |
| Sessions and tokens (`modules/sessions`, `modules/auth`, JWT strategy) | `Session` rows, tokens of clients | login, refresh with rotation and reuse alarm, access check through the cache, revoke one, revoke the others, forced logout, clean-up | rotation is read, revoke, create; the check may see a cached row; two refreshes race |
| Audit log (`modules/audit`, audit interceptor) | `audit_logs`, an advisory lock | append under the lock, retention clean-up, paged verification | order is read back from timestamps; metadata goes through JSONB; rows vanish between two pages |
| Idempotency keys (`shared/idempotency`) | one Redis entry per key | lock, look up, run the handler, store, release | a handler that outlasts its lock; store or release that fails; a crash while locked |
| Workspaces and members (`modules/workspaces`, workspace and permissions guards) | `Workspace.ownerId`, `deletedAt`, `WorkspaceMember` rows | transfer, remove, change role, delete | ownership is judged before the write it allows; the guard reads through the cache |
| Invitations (`modules/invitations`) | `Invitation` rows | send, accept, revoke, expiry | accept writes two tables one after the other; an acceptance is not guarded |
| Password login and lockout | `failedLoginAttempts`, `lockedUntil` of a user | login, admin unlock | counter and lock are separate statements; concurrent guesses |
| Token cut-off | `tokensInvalidatedAt`, the `iat` of a token | invalidate, access check | seconds against milliseconds, a cached date |
| Account tokens | reset and verification tokens, password history | forgot, reset, request, verify, clean-up | one-shot tokens used twice; a reset that fails half-way |
| Two-factor | secret, `twoFactorEnabled`, recovery codes | setup, enable, verify, disable | lists read through a cache and written back whole |
| Account lifecycle | `deletedAt`, `anonymizedAt` | register, create, delete, restore, anonymise | a restore between selection and anonymisation; a registration that stops half-way |
| Roles and permissions (`modules/rbac`) | roles, permissions, their pairs | create, assign, update, delete | read-extend-write of a list; deletions that bump the wrong namespace |
| OAuth accounts | accounts per provider | sign in, sign up, link, unlink | count-then-delete; user and account in two statements |
| Feature flags (`modules/feature-flags`) | one override per workspace and feature | set, clear, the guard | the guard reads a cached copy |
| Signing keys, signed tokens, OAuth state | the environment, each process's settings, tokens and cookies of clients | key rotation, sign, verify, start and callback of an OAuth flow | processes with different settings at once; one cookie for all tabs |
| Maintenance jobs | none of their own | clean-ups of the other components | run twice, half, or late |
| Mail, metrics, health, throttling, the rest of the configuration | small or none | reads, deliveries | no protocol of their own |

How they meet: every repository of the upper half of the table reads and writes
through the versioned cache. `JwtStrategy.validate` (sessions, token cut-off)
runs before `WorkspaceGuard` (members, roles), which runs before the idempotency
and the audit interceptors, which wrap the handler. The maintenance queue calls
the clean-ups. No component calls back into another; they share rows and cache
namespaces. Hence the composition: the cache is a module of its own, its callers
either extend it (`AuthSessions`) or use what it was shown to promise, by way of
`FreshStore` (`Membership`, `SignIn`, `Rbac`). Sign-in and account life write one
`User` row and share its cache entry, so `Account` extends `SignIn` and runs both
together.

What makes each of them correct:

- cache: no read answers with less than was published before it began, and a
  lost invalidation heals by itself;
- sessions: nothing works with a credential after its revocation was answered,
  a rotation never leaves two generations usable, and only a session's own user
  or its expiry ends it;
- audit: one chain in the order of time, breaks reported where and only where a
  hand was, and no request that waits for ever;
- idempotency: at most one good effect and one answer per key, never another
  body's answer;
- members: the owner is a member and Owner, a removed member is out, a spent
  invitation is worthless;
- sign-in: guesses are bounded however they interleave, a second factor that is
  on was confirmed, a recovery code works once;
- account: a reset shuts out whoever had the old password, an e-mailed token
  works once, a sign-up is whole or known to have failed, nobody alive is
  anonymized, no token outlives the cut-off;
- rights: what was withdrawn stays withdrawn, a role has the list it was given;
- keys: a rotation refuses no valid token, and a token is only what it was
  signed for.

The hazards behind these, each at its line, with the properties that watch it,
are the "hazards" of `PROJECT.json`.

## Modules

| module | extends | models |
| --- | --- | --- |
| `FreshStore` | | abstract: a cacheless store that publishes writes |
| `VersionedCache` | | `CacheService`, `@Cacheable`, `@InvalidateCache`; refines `FreshStore` |
| `AuthSessions` | `VersionedCache` | sessions, refresh, access check, over that cache |
| `AuditChain` | | append, clean-up and verification of the audit chain |
| `Idempotency` | | the interceptor and service behind `Idempotency-Key` |
| `Membership` | | one workspace: owner, members, roles, invitations |
| `SignIn` | | login and lockout, the second factor and its recovery codes |
| `Account` | `SignIn` | sign-up, e-mailed tokens, passwords, linked identities, cut-off, deletion, anonymization |
| `Rbac` | | custom roles and permissions, a member, a feature, the seeded super admin |
| `SigningKeys` | | the rotation of the signing keys, the three kinds of token, the OAuth state |
| `X_proofs` | `X`, `TLAPS` | theorems about `X`; `Account_proofs` also holds those about `SignIn` |
| `MCX`, `*.cfg` | `X`, `TLC` | instances for TLC |

Definitions called "faulty variant" in a comment are plausible bugs of the code
they stand next to. No specification uses them: each property is shown to reject
the specification with one of them put in.

### VersionedCache and FreshStore

One namespace. `db` is the table, reduced per key to how often it was written
and whether the row is there; `nsver` the counter in Redis; `store` the entries;
`rd` and `wr` the calls in progress. A read is `BuildKey` (the version is read
once, before anything else), then `CacheHit`, or `CacheMiss`, `LoadRow` and
`FillCache` under the version it began with. A write is `Write` (the original
method) and `Bump`, or `LoseBump` where Redis refuses it or the process stops
in between. `CreateRow` and `PurgeRow` are `sessions.create` and
`deleteExpired`, which do not invalidate; `Expire` is the TTL. A stored null
counts as a miss, as in `wrap`.

`floor` is a history variable: the newest write a read that starts now must
reflect. `FreshStore` says what callers are promised, without a cache: a call
answers with a write that was visible (published or newer, and committed) at some
moment between its start and its answer. `KeepsPromise` is the refinement: under
the mapping in `VersionedCache` the abstract store publishes when a bump, or a
create, completes. It is what lets `Membership`, `SignIn` and `Rbac` make a cached
read one step.

### AuthSessions

Each request carries a password, an access or a refresh token and goes through
the awaits of its endpoint. Sessions are the keys of the cache, so a row written
once is live and a row written again is revoked (nothing clears `revokedAt`).
`Refresh` is `RefreshTokenUseCase` up to its first write: it looks the row up by
hash, past the cache, and decides between rotation and the reuse alarm. `Revoke`,
`RevokeAll` and `BumpSessions` are the repository's writes; `IssueSession` is
`CreateSessionUseCase`; `Authenticate`, `ReadThroughCache` and `Admit` are the
session half of `JwtStrategy.validate`; `FindTarget` and `JudgeTarget` are
`RevokeSessionUseCase`, with its three early answers: 404, 403, and 204 for a
session that is revoked already. `Fail` stops a request anywhere. `issued`
remembers what the clients were given, `ended` what they were told of a session:
"revoked" when the request that revoked it was answered, "told" when one that
found it revoked was. `Spent` is what an arriving request has to reckon with: the
second answer counts as the first once the row is published.

### AuditChain

A row's digest is named by the row's id (the id goes into the digest, collisions
are left out), `prev` is the row whose digest it carries, `hashed` the metadata
the digest was computed from and `meta` what the table holds: writing goes
through `Jsonb`, which reorders keys. `AcquireLock`, `ReadLast`, `Stamp` and
`Commit` are the transaction of `create`; `Abort` is its time-out with the error
swallowed by `AuditService`; after `Crash` PostgreSQL notices with
`DropConnection`. `CleanUp` takes no lock, in the model as in the code.
`VerifyPage` is one turn of the verification's loop. `AlterRow` and `RemoveRow`
are changes to the table by other means than this program, which the chain
exists to reveal.

`Offsets` says how far the processes' clocks run ahead and `MinGap` how many
milliseconds lie between two stamps at least; both stamps of one millisecond and
clocks that disagree are in `audit_chain`. `skewed` records the rows whose stamp
is out of order, or that share one: what goes wrong there is told apart from what
a hand did, and nothing else is excused.

### Idempotency

One key: its entry, and the requests that carry it with one or another body.
`TryAcquire`, `Fetch`, `HandlerReturns`/`HandlerThrows`, `Store`/`StoreFails`,
`Release`/`ReleaseFails` are the interceptor's calls in their order;
`ExpireLock` and `ExpireAnswer` the two TTLs. `ReplyLost` is a command that Redis
has carried out and whose reply is lost: the client repeats it, or reports it as
failed. Neither `Store` nor `Release` looks at who owns the entry, because the
code does not. `ousted` records that a request lost its entry: to a TTL while it
was at work, or to the release of another. `effects` are the requests whose
handler succeeded, `answered` those whose answer was given.

### Membership

One workspace. A request is admitted by `Admit` (the two guards, on a row the
cache may return) or `Accept` (no guard) and then takes the statements of its
use case. `visible` is the set of rows a cached read may return: it grows with
every write and shrinks to the table at `BumpMembers`. That is what `FreshStore`
promises and what `VersionedCache` was proved to keep, so the cache's mechanism is
not repeated here. `overtaken` records that a transfer made somebody the owner
whom a removal or a role change had already checked not to be.

Left out: renaming, the super-admin's membership as a substitute in the guard,
the token invalidation that follows a transfer or a role change, roles and
permissions other than the default ones.

### SignIn

One account with a password. `rq[r]` is one request: a login (`FindByEmail`,
`WrongPassword` or `RightPassword`, then `CountFailure` and `LockAccount`, or
`Restore`, `ResetFailures` and `Issue`) or a 2FA request (`Check` reads the row
through the cache and judges it; `SetSecret`, `TurnOn`, `TurnOff`, `ConsumeCode`
write; `BumpUsers`; `Reply`). A login reads the table itself; a 2FA request gets
any row of `visible`, as in `Membership`. `CountFailure` is the atomic increment
of `incrementFailedLoginAttempts`, and the lock is a statement after it.
`guesses` counts wrong passwords that were compared since the counter was last
reset or a lock ended, `crashes` those whose request died before it had counted
or locked. `stale` records that a 2FA write went over a row its request had not
read: two codes used at once, a setup between the check of a code and its
update. The code has these races, and the properties say what holds without
them.

A TOTP code is the secret it is made from; a batch of recovery codes has two.

### Account

`call[r]` is a second request per `r`, of the endpoints that are not sign-in.
Each use case is its chain of statements: the three sign-ups (`FindFree`,
`CreateUser`, `CreateWorkspace`, then a verification e-mail or an OAuth account),
a new token (`DeletePending`, `CreateToken`), a used one (`FindToken` ...
`MarkUsed`), the reset (`ReadUser`, `ChoosePassword`, `SetPassword`, `Bump`,
`RecordPassword`, `InvalidateTokens`, `Bump`, `MarkUsed`, `RevokeAllForUser`),
link and unlink, the anonymization job in three steps. `Lose` stops any of them
anywhere. The repository's `record`, an insertion and a trim in one call, is one
step.

`past` lists the passwords the account had; a row says which one it holds by its
place, so that a session knows which password it was opened with. A login keeps
the place it read at its look-up, and a challenge token keeps it for five
minutes; that is where `late` sessions come from. The clock counts half seconds,
so that a token's `iat`, in whole seconds, can differ from the cut-off.

The initial account is one from an earlier registration, or none yet.

### Rbac

One workspace, the roles it defines, one member. `Replace` and `Commit` are the
transaction of `roles.update` under PostgreSQL's read committed: the delete takes
the rows it sees, and the insertion that follows meets rows committed in between.
Permissions are rows, named by the list that inserted them (`by`), since a delete
takes rows and not values. `Guard` admits by any of `visible` and `lights`, what
the caches of memberships and of features may return. The second half is the seed
(`SeedPermissions`, `EmptyAdminRole`, `FillAdminRole`, `SeedDies`) and the two
nested cache entries through which the super admin is read, with their ages: the
outer entry is filled from the inner one, so a stale value lives up to two TTLs.

### SigningKeys

`env` is the environment as the operator edits it (`AddPublic`, `SwapKid`,
`SwapKey`, `ChangedOver`, `DropOld`: the rotation `.env.example` describes), `conf`
the settings each process has started with. `Boot` applies the schema's checks:
half an edit does not start. `tokens` are all tokens ever signed, with what their
claims allow (`issuer`, `session`, `type`) and, as history, what they were signed
for; `Present` offers any of them to the two verifiers. `Begin` signs the state of
an OAuth flow, `Receive` is its answer reaching the browser: several tabs share
one cookie, and their answers arrive in any order or never. `Callback` reads the
cookie of its request, `Answer` clears whatever the browser holds by then, and
`LoseAnswer` leaves it.

## What the runs show

Passing runs explore all reachable states of their instance.

| run | instance | distinct states | what holds |
| --- | --- | --- | --- |
| `cache` | 1 key, 2 readers, 2 writers, 2 writes of the key, 3 versions | 467,520 | `Fresh`, the refinement `KeepsPromise`, `TtlHeals` |
| `auth_all` | 1 user, 2 sessions, one of which expires; 3 requests: any endpoint that writes; read, refresh or forced logout; read | 1,303,712 | `RevocationHolds`, `RotationOrder`, `LogoutCoversAll` |
| `audit_chain` | 3 audited requests, clocks apart or not, stamps alike or not, metadata in order or not, pages of 1, clean-up, hand edits | 1,883,342 | `ChainFollowsTime`, `NoFalseAlarm`, `TamperEvident` |
| `audit_settles` | 2 requests, pages of 2, fairness | 2,196 | `AuditSettles` |
| `idempotency` | 3 requests, 2 bodies | 36,829 | `Exclusive`, `AnswerKept`, `EffectOnce`, `ReplayFaithful` |
| `membership` | 3 users, 3 requests of seven kinds, roles asked for: Admin | 1,885,193 | `OwnerHolds`, `RemovedStaysOut`, `SpentInvitation` |
| `account` | 3 requests that guess, 2 of every other mix below, 2 secrets, 2 batches, 2 identities | 575,526 | `GuessesBounded`, `SecretConfirmed`, `SpentCode`, `ResetEndsSessions`, `SpentToken`, `NoReuse`, `SignUpWhole`, `LiveIsKept`, `CutoffHolds` |
| `rbac` | 2 requests, 2 custom roles, 1 seeded and 1 own permission, 1 feature, TTL 2 | 931,574 | `WithdrawnStays`, `RoleIsItsList`, `AssignKeeps`, `AdminRecovers` |
| `signing_keys` | 2 processes, 2 browsers, 2 providers, 2 keys, 2 callbacks | 350,464 | `TokensHonoured`, `CallbackIsOwn` |

Each also checks its module's type invariant (`audit_settles` leaves it to the
larger run of the same module; `AccountTypeOK` contains `SignIn`'s).

Runs that end in a counterexample, because the code and what it says of itself
disagree:

| run | what happens |
| --- | --- |
| `audit_intact` | metadata read back from JSONB has its keys in another order: the recomputed hash differs on a log nobody touched |
| `membership_owner` | a transfer commits between the look at the owner and the delete: the workspace's owner is not a member |
| `token_cutoff` | an administrator invalidates a user's tokens and the user signs in anew: his first call fills the cache with the cut-off, the second reads it back as a string, on which `getTime` fails, and is refused |

The quotations and lines are under "findings" in `PROJECT.json`.

### What the properties say

- `Fresh`, `KeepsPromise`: the version in the key is what makes an invalidation
  that races a fill safe. A key without it, or a fill under the version of the
  moment instead of the version the read began with, is refuted.
- `TtlHeals`: a key that is no longer written ends up with no outdated entry
  even when its bump was lost.
- `RevocationHolds`: "answered" is the point from which a revocation counts. A
  request already under way may still be admitted, and is in the code. The run
  has the reader that loads the live row, the revocation between its write and
  its bump, the fill in between and the request that comes after: a fill under the
  version of the moment is refuted by it. The answer that
  a session was revoked already (204) promises less: its refresh token is refused
  at once, its access token from the other request's bump on.
- `RotationOrder`: the code revokes before it creates. A crash between the two
  logs the client out; the other order would leave two live generations.
- `LogoutCoversAll`: nothing an answered logout covered becomes live again. It
  speaks of the rows the `updateMany` saw. A refresh that passed its check
  before a forced logout still creates its successor afterwards; the model
  contains this and no property claims otherwise.
- `ChainFollowsTime`, `NoFalseAlarm`, `TamperEvident`: what the verification may
  conclude while appends and the clean-up go on. `TamperEvident` holds whatever
  the clocks and the metadata. A bad hash is reported of a row altered by hand or
  of one that JSONB gave back in another order, and `audit_intact` shows that the
  second happens on a log nobody touched. A broken chain is reported where a row
  was removed or a stamp is out of order: with clocks that differ by more than an
  append takes, or two appends in one millisecond, a later row is stamped no
  later, the next one takes the same predecessor, and the chain forks. Of the row
  it anchors on, the verification cannot know what came before it.
- `AuditSettles`: neither a time-out nor a crash of the lock's holder keeps the
  next request from being answered.
- `Exclusive`, `AnswerKept`, `EffectOnce`: hold until a request loses its entry
  to a TTL or to another's release (`ousted`): a handler outlasts the 60 s lock,
  or a release is repeated after its reply was lost and meets the next request's
  lock. A store that failed for the interceptor but not for Redis is taken back
  by the release that follows, so an answer may have been replayed to one client
  before the first client's request fails; and a failed store leaves an effect
  that the retry repeats. `EffectOnce` says that this is all: of two effects at
  most one is of a request that did not fail. `ReplayFaithful` holds throughout.
- `OwnerHolds`: exactly one kind of race takes the owner's membership or role: a
  transfer overtaking a removal or role change that has passed its check.
  Transfers that overtake each other, or whose target or caller is removed
  meanwhile, leave the rows consistent, because the transaction fails.
- `RemovedStaysOut`: a membership row whose removal was answered lets nobody in
  any more, whatever the guard's cache holds.
- `SpentInvitation`: an invitation answered as accepted or revoked is refused,
  even when its user was removed since.
- `GuessesBounded`: the lock does not stop logins that had passed the look at
  `lockedUntil`, so the bound is `MAX_FAILED_LOGIN_ATTEMPTS` plus the other
  requests in flight plus those that died uncounted. After a lock that ends
  without a success the counter still stands, and one more guess locks again. A
  read-increment-write counter breaks it.
- `SecretConfirmed`, `SpentCode`: hold until a request writes over a row it had
  not read (`stale`). With such a write 2FA can end up on with a secret nobody
  confirmed, or with none, and a spent code can come back. Without one, a code
  stays spent although the row is read through a cache: this rests on the bump
  before the answer.
- `ResetEndsSessions`: the order of the reset's five writes ends every session of
  an older password, except those a sign-in issues afterwards with the password
  it had read before (`late`): a login in flight, or a challenge within its five
  minutes.
- `SpentToken`: "answered" is the point from which a token counts as used or
  replaced. Two resets with one token at once both succeed in the code.
- `NoReuse`: the history is trimmed to what the check reads. It fails only where
  resets overlap, one dies before it has recorded the old password, or one
  overtakes the anonymization.
- `SignUpWhole`: what a sign-up that was not cut short leaves behind. Cut short,
  the address stays taken: the next sign-up is refused. An unlink keeps one way
  to sign in, unless a second one overlaps it.
- `LiveIsKept`: a login that restores the account between the job's selection and
  its update loses to the job; nothing else can.
- `CutoffHolds`: rounding `iat` down errs on the side of refusal. A token signed
  after the cut-off within the same second is refused, in the model as in the
  code.
- `WithdrawnStays`: of every change whose request was answered. The deletion of a
  permission is excepted, since it bumps no namespace.
- `RoleIsItsList`: two overlapping replacements of one role's list can leave the
  union of both, or fail on the primary key; the property is about all others,
  and needs the delete and the insertion to commit together.
- `AssignKeeps`: an assignment extends the list it read before it writes. It may
  undo a later replacement, but takes away nothing that stood from its arrival
  to its write.
- `AdminRecovers`: the seed empties and fills the super admin's role past the
  cache; what was cached in between, one entry filled from another, is gone after
  two TTLs. An entry renewed by use would not be.
- `TokensHonoured`: whichever step the rotation is at, every running process
  verifies every unexpired token. It needs the check at start: a process between
  the two lines of an edit would sign with a key nobody publishes.
- `CallbackIsOwn`: no token passes as another kind, no callback in another
  browser or for another provider, and the flow whose cookie arrived last is not
  refused, unless the answer to an earlier callback clears the cookie. Two tabs
  disturb each other: the cookie holds one nonce, and of two starts it is that
  of the answer that arrived last, not of the later start.

### Bounds, and why they are enough

Every bound is a constant and named as one: `MaxRow`, `MaxNsver`, `MaxClock`
stop counters; `Offered`, `Expiring`, `Granted`, `Metadata`, `Offsets` choose
what a run's clients do. Counters only stop new writes; calls in progress always
finish. One key suffices for the cache because keys meet only in the counter,
which `Write` of a set of keys covers in the sessions; two readers and two
writers are needed so that a fill and a bump can race a third call. Two sessions
give every rotation a predecessor and a successor. Three requests are what
`RevocationHolds` needs: one that loads the old row, one that revokes, and one
that comes after the answer; in the worst case the first and the last of them only
read. One of the three may call any endpoint that writes, and refreshes or forced
logouts run against it. What follows a 204 for a session revoked already (revoke,
be told, then use either credential) takes more requests that act, and is shown by
the theorem, which has any number of them. Three rows make a chain with
an interior; pages of one row put a page boundary everywhere. Three requests for
one idempotency key are the owner of the lock, the one who takes over, and the
one who asks. Three members are the owner, the target and a bystander.

`Offers` (`Account`, `Rbac`) is a set of scenarios, one of which each behaviour
draws: who may ask for what. All requests of a scenario still interleave in every
way; what is left out is a race of, say, an unlink with a password guess, which
write no common state. Every scenario pairs the operations that do: guesses with
guesses (three at once, as the bound counts those in flight), 2FA writes with
each other, a reset with a login, a new token and another reset, the sign-ups,
link with unlink, deletion with its job and the sign-ins that restore, the
cut-off with the clock. The theorems need no such choice: they hold for every
`Offers`.

`MaxFailed = 3` and `HistorySize = 2` (5 and by default 5 in the code; a history of
0 switches the check off and is left out) let the counter pass its
maximum and the history be trimmed. `FailedBound` ends locks only while the
counter is small, `CrashBound` counts guesses that die, `VisibleBound` bumps that
are lost, `PasswordBound`, `TokenBound`, `ClockBound` and `WriteBound` stop their
counters. Codes come in batches of two: one to spend and one to stay. `Ttl = 2`
in `Rbac` is long enough for an entry to be filled from one about to end, and
`ClockBound = 6` for two lives after a seed. In `SigningKeys` an access token
lives two ticks and a challenge or state one (15 and 5 minutes in the defaults);
its assumption `ShortLife <= AccessLife` is needed, because the rotation waits
for access tokens only.

Symmetry is used only in runs without liveness, on sets whose members no
definition tells apart.

Deadlock is checked for `cache`, `account`, `rbac` and `signing_keys`, which never
have to stop. The other systems serve a fixed number of requests, and stop when
all are served.

### Fairness

- `FairCacheSpec`: a read once started is carried on by the event loop, and
  Redis drops entries whose TTL ran out. Writers and bumps get no fairness: a
  process may stop for good after its write.
- `AuditChain!FairSpec`: a request of a live process takes its next step,
  PostgreSQL notices a dead connection (TCP keep-alive), time goes on. Aborts,
  crashes, clean-ups and hand edits are not assumed to happen. A crash disables
  the steps of its request, so fairness does not revive it.

## What is proved

The theorems hold for every value of the constants within the modules' named
assumptions, so for any number of keys, users, sessions, requests or bodies and
for any bound. Liveness is left to TLC.

| module | theorem | from |
| --- | --- | --- |
| `VersionedCache_proofs` | `TypeCorrect`, `Freshness`, `Refinement` | `BoundsAssumption` |
| `AuthSessions_proofs` | `AuthTypeCorrect`, `SessionsUseCache`, `RevocationIsFinal`, `RotationIsOrdered`, `LogoutIsComplete` | `RequestsAssumption`, `NamesAssumption`, the cache's theorems |
| `AuditChain_proofs` | `AuditTypeCorrect`, `ChainNeverForks`, `ChainIsInOrder`, `VerifyAccusesNobody`, `VerifyMissesNothing` | `ChainAssumption` |
| | `ClocksKeepOrder` | and `ClocksAgree` |
| `Idempotency_proofs` | `IdempotencyTypeCorrect`, `OneAtATime`, `OneAnswer`, `EffectHappensOnce`, `ReplaysMatch` | `RequestsAssumption` |
| `Membership_proofs` | `MembershipTypeCorrect`, `OwnerIsSafe`, `RemovalIsFinal`, `InvitationsAreSpent` | `MembershipAssumption` |
| `Account_proofs` | `AccountTypeCorrect`, `GuessesAreBounded`, `SecretsAreConfirmed`, `CodesAreSpentOnce`, `ResetsEndSessions`, `TokensAreSpentOnce`, `RecentIsRefused`, `SignUpsAreWhole`, `LiveAccountsAreKept`, `CutoffIsKept` | `SignInAssumption`, `AccountAssumption` |
| `Rbac_proofs` | `RbacTypeCorrect`, `WithdrawalIsFinal`, `ListsAreWhole`, `AssignmentsKeep`, `SuperAdminRecovers` | `RbacAssumption` |
| `SigningKeys_proofs` | `KeysTypeCorrect`, `RotationStrandsNobody`, `FlowsKeepApart` | `KeysAssumption` |

**Cache.** `Fresh` is about answers that were given; what makes it true is what
the entries and the unfinished fills of one namespace version know of each
other. `EpochInv` says it: whatever is stored, or will be, under a version is at
least as new as anything a read of that version must see. It is kept by a bump
because the new version has no entries and no fills yet (`RowsInv`: versions in
use are at most the counter). `Refinement` maps each step to a step of
`FreshStore` or to a stutter from the same invariant. The writes a call may answer
with are, under the mapping, those from its `floor` to the present; that each of
them was visible at a moment of the call is `VisibleGrows`: a step writes a key at
most once and publishes nothing newer, so no number is skipped.

**Sessions.** `SessionsUseCache`: each step is one cache step or none, so the
cache's invariant is available. `RequestInv` says what a request in progress
knows. The core: after a revocation was answered, `floor` of its session is at
least 2 (`HistoryInv`), so a check that begins later reads a row of at least
that age by `AnswerInv` of the cache, and `LiveRow` refuses it. A request that was
told that a session is revoked has read a row of version 2, hence the table has
one, which is all a refresh looks at; once it is published, the same argument as
above covers the access token. A row version never falls (`CacheGrows`), which gives the rotation order and the logouts.

**Audit.** `ChainInv` has five parts: types, only the lock's holder is inside the
transaction (`LockInv`), rows are told apart by id, and by stamp unless they are
marked (`StampInv`), links go back in time and do not fork, and nothing stamped in
order lies between a row and what it refers to (`LinkInv` with `PrevInv`), and what
the holder read is still the end of the chain when it commits (`EndInv`). The
clean-up, which takes no lock, is why `EndInv` allows the log to be empty: it
takes a prefix or everything. Nothing is assumed of the clocks: `skewed` marks the
rows whose stamp is out of order, and each theorem says what holds beside them.
`ClocksKeepOrder` adds when there are none: if the clocks of the processes differ
by less than an append takes (`ClocksAgree`), `skewed` stays empty, and with it
the exceptions of `ChainNeverForks`, `ChainIsInOrder` and `VerifyAccusesNobody`.

The verification walks this chain in pages while it grows at one end and is cut
at the other. `WalkInv` adds what hand edits have left (`HistoryInv`: a row whose
predecessor was removed refers to a row that is gone, an untouched row holds what
JSONB made of the metadata its digest was computed from) and where the walk stands
(`VerifyInv`: between pages the expected digest is that of the cursor's row, and
nothing seen so far was tampered with before the walk began). The work is in
`PageTurn`: a page has no holes (`PageHasNoHoles`), so comparing each row with the
one before it in the page is comparing it with its neighbour in the log
(`ExpectedIsAdjacent`), where `ChainFollowsTime` applies. A bad row has a cause
(`BadHasCause`), a good one follows the row it refers to and is unaltered
(`GoodIsUntouched`). Finite sets of rows have a first and a last one
(`RowsHaveFirst`, `RowsHaveLast`, from the library's `FiniteSetTheorems`).

**Idempotency.** `LockInv`: until a request loses its entry, whoever works owns
it, by its lock or by an answer Redis has already; hence one at a time. `EffectInv`:
of the requests whose handler succeeded, only the entry's owner has not failed;
hence one answer and one good effect. `HashInv`: an entry keeps the hash of the
body its answer was computed for, lost entries included.

**Members.** `MembershipInv` strengthens `OwnerHolds` with what each request
knows about its target (`TargetInv`), that an un-overtaken removal's target is
not the owner (`OtherInv`), the path of a removed row out of table and cache
(`RemovedInv`, `GoneInv`), the path of an invitation to being spent (`SpentInv`,
`LateInv`), and that nobody refers to a row before it exists (`KnownInv`).

**Sign-in and account.** `AccountInv` is one invariant for both modules, since a
reset and a login disturb each other's rows. Its parts:

- `GuessInv` counts requests by where they stand. A guess has been counted, or is
  waiting to be, or died (`a` of the crashes); a counter at its maximum has
  locked, or somebody is about to, or died (`b`, with `a + b` the crashes); once
  the lock is set, only those already past the look at it still guess.
- `FactorInv`: every row a cached read may return was made from secrets and codes
  that exist and, unless a stale write happened, holds no spent code; a code
  leaves first the table and then the cache on its way to being spent
  (`CodeInv`).
- `CallInv`: per call, where it can stand (`Place`) and what it then knows: that
  the tokens it replaces are gone (`MailCall`), that at its answer no session is
  older than its password (`VersionCall`), which row it read (`PastCall`), that a
  sign-up leaves what it made (`WholeCall`).
- `NobodyYet`: before the account exists nothing of it does, which is what makes
  `CreateUser` harmless to everything else.
- `HistoryInv`: the history holds the passwords before the newest, in order, and
  lacks exactly one while a reset is between its update and its record; at most
  one reset is there, undisturbed, and no other is about to write a recent one.

**Rights.** A withdrawn right is in no row of `visible` or `lights` (`SeenInv`),
because what a request took left first the table and, by its bump, the caches
before the answer (`TookInv`). A role's rows belong to its newest list
(`ReplaceInv`), which needs rows and not values: a replacement deletes the rows
it saw. `AdminInv` follows the ages: whatever is cached and not whole was read
before the seed was done, or copied from such an entry before that one ended.

**Keys.** `EnvInv` says which edits of a rotation are under way, `PairInv` that
running processes sign with a pair the others publish, `KeptInv` that the key of
every unexpired token is still published, which the waiting time before `DropOld`
gives by `SinceInv`: tokens of the old key were signed before all had changed
over. `ShapeInv` is about claims. `FlowInv`: the
calm flow of a browser is the one its cookie holds and no callback of that browser
is still to answer, which is what an answer in another order, or a lost one, must
not break.

Only model-checked: `TtlHeals` and `AuditSettles`, which are liveness under
fairness. Every other property of the passing runs is a theorem.

## Known behaviours that are no property

The models contain these, and the properties are worded around them. They are
what the code does today.

- Two refreshes with one token that overlap are both given a session, and the
  reuse alarm stays silent.
- Who asks to revoke a session that another request has revoked but not yet
  bumped is answered 204, while its access token is still admitted from the cache
  (up to 15 seconds, if that bump is lost).
- A release of an idempotency key that is repeated, or comes late, deletes the
  lock or the answer of another request.
- The clean-up of the audit log may delete the row a verification has paged to:
  it then ends early, with nothing reported.
- A login restores a deleted account before the second factor or the verified
  address is asked for. The password asked for by the 2FA endpoints does not
  count towards the lock.
- An OAuth sign-in of a deleted user opens a session and does not restore him.
- Who has not verified his address cannot log in, and asking for another
  verification e-mail needs a session: whose first e-mail is lost is stuck, and
  users an administrator creates are sent none.
- `markUsed` fails when a new reset token was asked for meanwhile: the password
  is changed and the sessions are not revoked.
- A reset that was under way when the account is anonymized sets a password on
  the anonymized row.
- Deleting a role leaves a pending invitation that names it; accepting it fails.

## Not modelled, and why

- Redis losing its data: the version counter would restart and old entries
  become current again; nothing in the code would notice, so there is no
  property to state. The in-process fallbacks used when no Redis is configured.
- The other cached reads of users by workspace (`findByIdInWorkspace`), which
  membership changes do not bump: their entries last their 15 minutes.
- The body of handlers, mail, organizations, validation, formatting, metrics,
  probes, rate limits: no state a property is about.
- Cryptography: a hash names its preimage; a token is the row it belongs to, or
  the key that signed it; the arithmetic of TOTP.
- Schedules and back-off of the job queue: jobs may run at any time.
- Renaming (users, roles, workspaces), logging, and reads that change nothing.
- The super admin's membership as a substitute in `WorkspaceGuard`, and the token
  invalidation that follows a transfer or a change of a member's role.

## Plan

What would add most next:

1. The composition of `Account` with `AuthSessions`: rotation of the sessions a
   reset revokes, and the cut-off inside the access check. Both modules know
   sessions, at different detail; a refinement mapping from rows to `Account`'s
   `sessions` would tie them together.
2. Liveness of the account: a user who is locked out and knows his password gets
   in once the lock ends, under fairness of requests.
3. The transfer's token invalidation in `Membership`.
