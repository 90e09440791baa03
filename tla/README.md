# Larbe Mott: a TLA+ model of the server

Larbe Mott is the server of a Chechen-language reading and learning platform: a
NestJS application in TypeScript over PostgreSQL (through Prisma) and Redis. Paths
below are those of the repository's checkout under `src/` (so `src/src/auth/...` is
the file `src/auth/...` of the repository).

This directory holds TLA+ modules for the parts of that server whose correctness
depends on the order in which things happen, TLC configurations that check them on
small instances, and proofs, checked by TLAPS, of the safety properties for every
value of the constants.

Contents: [the system](#1-the-system), [modules](#2-modules-and-the-code),
[runs](#3-runs), [bounds](#4-bounds), [fairness](#5-fairness),
[proofs](#6-proofs), [findings](#7-findings), [not modelled](#8-not-modelled),
[plan](#9-plan), [how to run](#10-how-to-run).

## 1. The system

One Node.js process serves HTTP (and a WebSocket for notifications). Handlers are
`async` functions: the code between two `await`s is atomic, and everything else -
other handlers, timers, background loops - may run at an `await`. Most state is in
PostgreSQL, where a single statement, or a `$transaction`, is atomic; handlers
almost always read in one statement and write in another. Redis holds the refresh
locks, access-token blacklists, counters, caches and the tracking event queue. Some
work is detached (`void this._drain()`), some is on cron. The process may die at any
`await`; Docker restarts it (`restart: unless-stopped`).

The database runs at its default isolation, READ COMMITTED, so two transactions that
read the same row before either writes it both go through.

### Components

| Component | State it keeps | Operations | What makes it hard | What makes it correct |
|---|---|---|---|---|
| **Refresh-token lock** `auth/refresh-token-lock.service.ts` | one Redis key a user, with TTL; an acquire loop and a timer per call | `withLock`, `acquireLockWithWait`, `releaseLock` | the timer races the loop and does not cancel it; the TTL may run out under `fn`; Redis may fail or not answer; the process may die holding the key | at most one section under a live lease; only the owner's key is deleted; every call gets to run `fn`; the key comes free |
| **Refresh tokens and sessions** `auth/auth.service.ts`, `user/user.service.ts` | `User.hashedRefreshToken` (one for all devices), `User.status`, `UserSession` rows | register, login, restore, refresh, logout, revoke session(s), change or reset password, change e-mail, delete, block | handlers of one user interleave; the lock is best-effort; login does not take it | a revoked session gets no tokens; a rotation never undoes a revocation; a refresh token is good for one exchange, and after a detected reuse for none |
| **Tokenization queue** `admin/tokenization/tokenization-queue.service.ts` | `TokenizationJob` rows; `runningCount` in memory; detached `_drain` and `_runJob` loops | `enqueue`, `cancel`, boot recovery | everything is read, awaited and then written by id; loops die with the process | no PENDING job without somebody to take it; no RUNNING job without a run; the counter is exact; every job settles |
| **Text processing versions** `markup-engine/tokenizer/tokenizer.processor.ts`, `admin/tokenization`, `admin/text` | `TextProcessingVersion` rows with number, status and `isCurrent`; `Text.processingStatus`; tokens | `processText`, cancel, reset, restore, delete | several entry points start `processText` for one text, not all through the queue, and nothing keeps two runs apart; versions are deleted under a run | at most one current version, a completed one; a readable text stays readable; nothing stays RUNNING with nobody at work |
| Access tokens and caches `auth/strategies`, `user`, `notification/jwt-ws.helper.ts` | blacklist timestamps in Redis, 60 s profile cache | issue, validate, blacklist, invalidate | clocks of different resolution; a cache filled after its invalidation | no access after revocation beyond the documented window |
| One-time credentials `auth/auth.service.ts`, clean-up tasks | reset and e-mail-change tokens, OAuth accounts, failure counter | request, confirm, link, unlink, purge | checked before a transaction that does not re-check | a link works once; a user keeps a way in; a restored account survives the purge |
| **Subscriptions and billing** `subscription`, `admin/billing`, `admin/users` | subscriptions, payments, coupons, redemptions, events | subscribe, cancel, trial, redeem, admin grant, refund | everything is checked before the transaction that acts on it; what keeps it right is a conditional update, a unique key or a row lock | the coupon's counter exact and within its limit; a redemption spent once; REFUNDED only when refunded |
| **Learning deck** `deck/deck.service.ts` | cards in NEW, OLD, RETIRED, NUMBERED and REPEAT decks, rotation date | add, rate, repeat, return, rebalance, daily decks | a rebalance is a dozen statements, each on counts and cards read before, and no transaction | a card in REPEAT knows its way back; deck sizes within the limit once all is done |
| Word and text progress `progress`, `phrasebook` | SM-2 state, click counters, reading position | click, review, set status | read, await Redis, write the whole state | no review lost; intervals and statuses consistent |
| Moderation `text-submissions`, `suggestions` | submissions and suggestions with status | create, submit, review, approve | two reviewers read PENDING | one decision; approval publishes once |
| **Visitor tracking** `tracking` | Redis list of events, `TrackingEvent` rows, daily statistics | track, flush, aggregate | popped before stored; replies lost with the connection; three statements to aggregate a day, next to the worker | a push stored at most once, the fate of an event final; statistics of rows there are, and in the end of all of them |
| AI translation cache, dictionary export | cache rows and votes; export runs | translate, vote, approve, export | external calls between reads and writes | votes respect a decision; an entry is exported once |
| Personal dictionary and words | entries, folders | CRUD with plan limits | count before insert | limits |
| Texts, annotations, dictionary administration | texts, annotations, lemmas, phrases | editorial CRUD | little: one transaction a request | referential |
| Markup engine, transliteration | none | normalise, transliterate, analyse | pure string processing | algorithmic |
| User texts | private texts and tokens | generate, upload, tokenize | as text processing, one owner | as above |
| Notifications, announcements, mail | notifications, sockets | publish, read | delivery | at most once a user |
| Feedback, settings, feature flags, legal | rows and short caches | CRUD | cache staleness | - |
| Analytics, statistics, dashboards | none of their own | read-only queries | - | - |
| Infrastructure | connections, configuration | boot, shutdown | - | - |

### How they interact

- A login or refresh (*sessions*) writes the user row, the session rows and, for
  refresh, takes the *lock*. Password change and reset, e-mail change, logout, deletion
  and the administrator's "log out everywhere" (*credentials*, *administration*) take the same
  lock to clear the hash, then blacklist access tokens (*access tokens*).
- An administrator's tokenization request calls `enqueue`; the *queue* calls `processText`
  (*versions*), which reports back by returning or throwing. Creating, saving or importing a
  text, processing it by hand and approving a submission call `processText` directly and
  forget it (`void ... .catch(() => undefined)`).
- Deleting a text cascades to its jobs and versions.
- Ratings in the *deck* and reviews in *progress* are separate stores for the same words.
- The *tracking* worker inserts the rows that the aggregator counts, at the same time; the
  aggregator has a timer of its own and an administrator's endpoint.
- An administrator redeems, cancels and refunds (*administration*) on the same rows as the
  users' own calls (*billing*), with other checks.
- *Subscriptions* decide the limits that the dictionary, AI translation and user texts
  compare their counts with.

The full list of hazards, each at its line, with the properties that cover it or the
reason none does yet, is in `PROJECT.json`.

## 2. Modules and the code

```
  ExclusiveLease            what a lock promises
     ^          ^
     | refines  | INSTANCE (uses the promise)
  RefreshLock   AuthSessions  <--- AuthReuse (one more history variable)
     ^             ^    ^
  RefreshLockProofs|    MCAuthSessions (TLC constants)
             AuthSessionsProofs

  TokenizationQueue <--- MCTokenizationQueue (TLC constants)
     ^
  TokenizationQueueProofs

  VersionRegister           what text processing promises to readers of isCurrent
     ^
     | refines
  TextVersions <--- MCTextVersions (TLC constants)
     ^
  TextVersionsProofs

  Collection                what decks       Voucher            what a coupon
     ^                      promise             ^               promises
     | refines                                  | refines
  Deck <--- MCDeck                           Billing <--- MCBilling
     ^                                          ^
  DeckProofs                                 BillingProofs

  EventLog                  what tracking promises of an event
     ^
     | refines
  Tracking <--- TrackingStats <--- MCTracking
                     ^
               TrackingProofs
```

### ExclusiveLease

The abstract specification: a set `inside` with at most one caller, who may enter an
empty set (`Enter`) or leave (`Leave`: by itself, or because its lease is over). It is all
that `AuthSessions` needs to know of the lock.

### RefreshLock

| TLA+ | code |
|---|---|
| `lock` | the Redis key `auth:refresh-lock:<user>`; a caller stands for its random `lockValue` |
| `pc[c]` | `withLock` of call `c`: racing, holding, running unlocked, releasing |
| `loop[c]` | `acquireLockWithWait` of the same call, a separate activity: a `SET` sent, granted, refused or failed but not yet read, asleep, over |
| `lapsed` | history: calls whose key expired under them |
| `SetNX`, `SetError`, `ReplyOK` | the effect of the `SET` in Redis, its failure (with or without effect) and the arrival of its answer are different steps |
| `SetResent` | the connection broke after the `SET` had its effect, and ioredis sends it again: the call's own value then refuses it |
| `TimerFires` | the `maxWaitMs` promise wins the race; the loop goes on |
| `FnEnds`, `ReleaseEnds` | the end of `fn`; that of the release: `Release`, the compare-and-delete script, or `ReleaseError`, its swallowed failure |
| `Expire`, `Crash` | the TTL; the death of the process |

Splitting each `SET` in two is what makes the abandoned loop visible: the timer may fire
while the key is already set and the answer is on its way.

### AuthSessions

One user. `hash` is the user row's single refresh-token hash, as the index of the token
in `minted`; `sess` the session rows; `delivered` the tokens that reached a client, any
of which may be presented at any later time; `req` what each handler is doing, with a
program counter whose steps are the awaited database calls.

- `Login`, `Restore`, `Reactivate`, `RecordSession`, `InstallHash`, `Reply`: register, login
  and restore, which do not take the lock.
- `Refresh`, `ReadUser`, `CheckSession`, `StoreHash`: `getNewTokens` and
  `rotateRefreshToken`; `ClearReplayed`, `PurgeSessions`: its reuse branch.
- `Clearing`, `ClearHash`, `TidySessions`: logout, deletion, and `"revoke"` for the four
  handlers that clear the hash and revoke every session in one transaction.
- `EnterLocked`, `EnterUnlocked`, `Lapse`, `LeaveLock`: `withLock`, through
  `ExclusiveLease`: who enters and leaves is decided by its actions, and that they are what
  the service does is shown of `RefreshLock`. The lock is best-effort, so a section may run
  without it.
- `RevokeSession`, `RevokeOthers`, `SetStatus`: handlers of one statement.
- `Fail`, `Crash`: a rejected call, which unwinds through `finally`; the death of the process.

The history variables `exposed`, `unlocked` and `leased` separate what the code promises
when the lock works from what holds always. `spent` is the set of replaced tokens and is
given up (emptied) the first time a section runs without a lease, which keeps the state
space small: nothing is claimed of it from then on. So is `voided`, the tokens there were when
reuse was detected (`Void`), but for one that a login is about to install.

A signed token has only its issue time in seconds to distinguish it from another of the
same session, so `Issue` may sign a new token or give the latest one again.

### TokenizationQueue

| TLA+ | code |
|---|---|
| `jobs`, `texts` | `TokenizationJob` and `Text` rows; `"GONE"` for a row removed with its text |
| `count` | `runningCount` |
| `drain[d]` | one call of `_drain`: looking for a job, about to claim it, renumbering |
| `runs` | the calls of `_runJob` under way |
| `client[c]` | a call of `enqueue` or `cancel` between its awaits |
| `EnqueueCheck`, `EnqueueCreate`, `EnqueueDrain` | the read of the open jobs, `createMany`, `void this._drain()` |
| `CancelRead`, `CancelWrite` | the read of the latest open job, the update by id |
| `Look`, `Claim`, `StartRun` | the loop of `_drain` |
| `EndJob`, `Finally` | `_runJob`: the final status, then the counter and a new drain |
| `Boot`, `Die` | `onModuleInit`; what is lost with the process |

`_drain` and `_runJob` are started with `void` and nothing handles `unhandledRejection`,
so an update that rejects inside them (the row is gone) ends the process: `Claim` and
`EndJob` include that death. The abstractions: `queuePosition` is left out (any PENDING job
may be picked, so every order of positions is covered), and `processText` is one step with
two outcomes.

### TextVersions

What that step is, for one text: `processText` with everything that interferes with it.

| TLA+ | code |
|---|---|
| `text` | `Text.processingStatus`, `"DELETED"` once the row is gone |
| `versions` | `TextProcessingVersion` rows in the order of creation: number, `isCurrent`, status; `"GONE"` for a deleted row |
| `run[r]` | a call of `processText`: where it is, its version number and row (`versionId`), whether the queue awaits it |
| `admin[a]` | a call of `resetTokens`, `cancel` or `restoreVersion` between its statements |
| `orphans` | history: what a death, a failed handler or a lost reply leaves RUNNING with nobody to write it |
| `Begin`, `Empty`, `TakeNumber`, `CreateVersion` | status RUNNING (outside the `try`), no pages, the read of the latest version, the insert that `@@unique([textId, version])` may reject |
| `Switch`, `Complete` | the transaction that moves `isCurrent`, and the text's status in a statement of its own |
| `Fail`, `MarkVersion`, `Report`, `HandlerFails` | any rejection inside the `try`; the error handler's two updates, either of which may reject too |
| `BeginLost`, `CreateLost`, `CompleteLost`, `MarkLost` | a write takes effect but its reply is lost, and the call rejects: in particular the error handler does not know a version whose insert committed |
| `Settle` | the queue writes the job's final status (a job is RUNNING for `cancel` until then) |
| `ResetVersions`, `ResetText` | the two statements of `resetTokens` (and of `bulkReset`, for each of its texts) |
| `CancelRead`, `CancelText` | `cancel` of a RUNNING job, which marks the text and stops nothing |
| `RestoreRead`, `RestoreWrite`, `DeleteText`, `AdminFails`, `Crash` | restore, deletion (a transaction each), a rejected call, the death of the process |

Tokenization, normalization and analysis fill rows that belong to the run's own version:
they are the state `"working"`, left by `Switch` or `Fail`. `Start` stands for each of the entry
points. The transaction of `Switch` is one step although it has two statements under READ
COMMITTED: the first, `updateMany` over all versions of the text that are not this one, locks their
rows, so of two that overlap one waits for the other, or both for each other; PostgreSQL then rolls
one back, which is `Fail`.

A run's `number` is dropped when its version exists or its attempt to create one failed:
the code uses `nextVersion` (72-82) for that insert alone.

`VersionRegister` is the promise to those who read the version marked `isCurrent`: a version is
`"absent"`, `"working"`, then `"complete"` or `"failed"`; the current one is complete, exchanged in
one step by the completion of another or by a restore; only a deletion of all of them takes it
away. A version that failed after the switch, and that is still current or that an administrator is
about to restore, counts as complete: its processing was.

Readers in this sense are `getPage` (`text.service.ts:457-460`), the progress services and the
administration. The other public endpoints - the list (241-265), continue reading (380-395), a text
(671-687), bookmarks (837-856) and related texts (925-933) - take the version with the highest
number, whatever its status, and are promised nothing: see section 7.

### Deck

The cards of one user, statement by statement.

| TLA+ | code |
|---|---|
| `card[w]` | the `UserDeckCard` of word `w`: its deck (with the number of a numbered one), and the deck it left for REPEAT; `Out` without a row |
| `limit` | `UserDeckState.deckMaxSize`, with `DefaultLimit` until it is set |
| `req[r]` | a call between its awaits, with what it has read |
| `bound`, `grown` | history: the largest limit so far; decks that no rebalance has counted since a card came back or a rebalance failed |
| `AddRead`, `Create` | `addWord`, whose insert `@@unique([userId, lemmaId])` may reject |
| `ReadLimit`, `Count`, `PickOldest`, `Move` | `rebalance`: for NEW, OLD and RETIRED in turn the count, the selection of the oldest, the `updateMany` by id |
| `PickOldest` and `ReadShelves`, `Archive` | for RETIRED the two selects of `Promise.all`, in either order, and the plan over the numbered decks once both are answered; one `updateMany` a deck |
| `RepeatRead`, `Repeat`, `ReturnRead`, `Return` | `addToRepeat` and `returnFromRepeat` |
| `Remove`, `SetLimit`, `Fail` | `removeWord` (or the deletion of the lemma), `updateSettings`, a rejected statement or a death |

`movedAt` only decides which cards are the oldest; `Selections` lets it be any. A card that is
removed between the two selects of RETIRED still takes its place in the plan (`gone`).

`Collection` is the promise: a word gets a card when it is added, keeps it until it is removed,
one word at a time. Moves by `updateMany` over ids selected earlier create nothing and find no
removed card, which is why they refine it.

### Billing

One coupon and whatever it touches.

| TLA+ | code |
|---|---|
| `coupon`, `redemption[u]` | the `Coupon` row; the `CouponRedemption` of user `u`: none, without a `paymentId` ("pending"), with one ("used") |
| `live[u]`, `payment[s]` | the ACTIVE subscriptions of `u`, numbered by `startDate` (more than one is possible); the payment of subscription `s` |
| `req[r]` | a call between its checks and its transaction, or inside that of `subscribeToPlan` |
| `peak`, `granted`, `discounts`, `split` | history: the largest limit, the administrators' redemptions, the discounts each user got, the users whose overlapping subscribe calls replace different subscriptions |
| `RedeemRead`, `Redeem` | `redeemCoupon`: checks; then the conditional increment and the insert that rolls it back if it is rejected |
| `Grant` | `AdminBillingService.redeemCoupon`, `AdminUsersService.applyCoupon`: an unconditional increment |
| `SubscribeRead`, `Begin`, `Commit` | `subscribeToPlan`: the current subscription; the update that locks it, and the search for a redemption to spend; the payment and the commit |
| `RefundRead`, `Refund` | `refundPayment`: the amount is added, the status is decided before |
| `UpdateCoupon`, `DeleteRead`, `Delete`, `Cancel`, `Fail` | the other handlers of the coupon; both cancellations; a rejected statement or a death, which rolls back |

The transaction of `subscribeToPlan` first updates the subscription it replaces; a second
transaction that replaces the same one waits there (`Locked`), and so does not look for a
redemption before the first has spent it. That lock, which nothing in the code names, is all
that keeps a coupon from paying twice, and is missing when the user had no subscription.

`Voucher` is the promise of a coupon to each user outside `split`: redeemed while the coupon
exists, spent once, never unspent, with the discount at that moment or never; deletion of the
coupon ends it for all. To a user in `split` nothing is promised (`"void"`).

### EventLog, Tracking and TrackingStats

`EventLog` is the promise: an event is `"new"`, then `"pending"`, then `"stored"` or
`"lost"` for good (`Safe`), and not `"pending"` for ever (`Settles`).

| TLA+ | code |
|---|---|
| `track[e]`, `sends[e]` | the call of `track` for event `e` (`"adrift"`: its server died with the pipeline on the wire), and how often Redis has executed its `lpush` |
| `trims` | the `ltrim`s whose `lpush` has been executed, and they not yet, or never if the pipeline broke off |
| `queue` | the Redis list; an entry is an event and the execution that pushed it |
| `worker[s]` | `TrackingQueueWorker` of server `s`: the `flushing` flag, what `flushOnce` awaits, the batch it holds |
| `stored[c]` | how many `TrackingEvent` rows entry `c` has become |
| `Push`, `PushUnanswered`, `Trim` | the `lpush` of the pipeline with its reply; a reply that is lost with the connection, after which ioredis sends the pipeline again; the `ltrim`, at any later moment, for the pipeline is no transaction |
| `Drain`, `DrainUnanswered`, `DrainFails` | RPOP with a count; one whose reply (and batch) is lost, and which is sent again; the failure of RPOP and of the fallback |
| `Insert` | `createMany`, with effect or without: an error does not tell which, and the batch is given up |
| `Interval`, `Crash`, `Restart`, `Drop`, `Track` | the timer; the process and its container; `track` |
| `clock`, `running[s]`, `agg[c]`, `stats` | how old the day is; the aggregator's flag; the calls of `aggregateDay`; the `TrackingDailyStats` row |
| `Count`, `Delete`, `Group`, `Upsert`, `End` | the statements of `aggregateDay`, and the `finally` of `aggregateRecent` |

`TrackingStats` extends `Tracking` with the aggregation of one day: the timer's call, guarded by
`running`, and the administrator's, which is not. Of the row's columns two are kept, since
they come from different queries: `totalEvents` and the sum of `topEventTypes`.

## 3. Runs

| Run | Shows |
|---|---|
| `refresh_lock` | three calls under every interleaving of answers, timers, expiry, failures and crashes: `Ownership` (the inductive invariant), `MutualExclusion` and `OnlyOwnerReleases`; the service refines `ExclusiveLease` (`LeaseSpec`); under fairness every call runs `fn` to its end, and ends if Redis answers its release (`EveryCallEnds`), and the key never stays with a caller (`KeyComesFree`) |
| `phantom_lock` | finding: the key can be set for a call that has reported failure |
| `auth_sessions` | two handlers, two devices, three tokens: `Sections` (the inductive invariant), `SingleUse`, `RevokedSessionStaysOut`, and `NoUnrevocation` of every step; no token of the time before a detected reuse is exchanged again (`ReuseShutsOut`); what a locked rotation overwrites is the token it was given or that of a login (`RotationExchanges`) |
| `false_reuse` | finding: two refreshes with the same current token end in the reuse branch, with the lock working |
| `replay_means_rotated` | finding: a token that was never rotated is taken for a replayed one after a login elsewhere |
| `queue_safety` | two texts, three jobs, a crash: `QueueState` (the counter is exact), `NoStrandedJob` (no lost wake-up), `RunningIsWorked`, and by how much `MAX_CONCURRENCY` may be exceeded (`RunsBounded`) |
| `queue_liveness` | `EveryJobSettles`: with two clients, cancels, deletions, a crash and a restart, every job reaches a final status and keeps one |
| `queue_duplicate` | finding: two open jobs for one text |
| `text_versions` | two runs, an administrator, three versions, one fault: `VersionState` (the inductive invariant), `OneCurrent`, `RunningIsReal` (what is RUNNING is going to be written by a run or by a reset) and `StaysReadable` of every step; `TextVersions` refines `VersionRegister` (`CurrentIsCompleted`) |
| `deck` | two calls over three words, the limit going from 2 to 1: `CardState`, `SettledWithinLimit` (overlapping rebalances end within the limit); `Deck` refines `Collection` (`KeepsCards`) |
| `billing` | two calls at a time, two users, a coupon whose limit changes: `CountIsExact`, `WithinLimit`, `OneDiscount`, `RefundedInFull`; `Billing` refines `Voucher` (`CouponIsVoucher`) |
| `tracking` | two events, a fault and overlapping aggregations: `RowPerPush`, `StatsAreOfRows`; `Tracking` refines `EventLog` (`DecidedOnce`, `EventsSettle`); while the day is among the last three, its row comes to agree with its events (`StatsCatchUp`) |

Each property of a passing run is also checked against a deliberately wrong version of one
operation, defined in the same module just before the right one (for instance
`ReleaseAny`, `ClearUnlocked`, `FinallyNoDrain`): TLC must find the property violated.

Deadlock is not checked where the system may stop: callers that have all finished, an
idle queue that has used up its bound of jobs and crashes, a deleted coupon, a past day.

## 4. Bounds

- `RefreshLock`: a caller makes one call. Three callers are enough for the
  longest chain that matters: one whose lease expired, one who took the key after it,
  and one still polling.
- `AuthSessions`: two handlers at a time (each may be any operation, and a new one
  starts when one ends, so sequences are unbounded), two devices, `MaxTokens = 3`: a login on
  each device and a rotation, or a login and two rotations. The interesting orders - reuse
  after a rotation, revocation between read and store, login during a rotation - need two
  handlers and two or three tokens. Symmetry over requests and over sessions: properties do
  not name individual ones.
- `TokenizationQueue`: `Drains` bounds the loops alive at once, `MaxJobs` the rows ever
  created, `MaxCrashes` the deaths from outside (those caused by a rejection are not
  bounded). With two drains, `MaxConcurrency = 2` and three jobs both the
  limit and its overrun happen, up to the three runs that `RunsBounded` allows (the number of drains
  alive at once is the model's constant: the code sets no limit to it). The liveness run takes `MaxConcurrency = 1`, where
  a lost wake-up would show first, and two clients, and no symmetry.
- `TextVersions`: two runs at a time (a run ends and starts again, so their number is not
  bounded), three versions ever created - enough for a completed one, one restored and one
  at work, or for a number given anew after a reset - one administrator's call at a time and one
  fault (a death, a lost reply, or a rejected call where nothing handles it; rejections inside the
  `try` are not bounded). Deletion and the two runs interleave with the administrator's call.

- `Deck`: three words and limits of 2 and 1, so that NEW overflows into OLD, RETIRED and a
  numbered deck within one history; two calls at a time, without bound on their number.
- `Billing`: two calls at a time; two users make the limit of 1 a contested one, and one of
  them subscribes (`Subscribers`), up to three times (`MaxSubscriptions`): a subscription to
  replace and two calls that replace it. Only the last one's payment is refunded
  (`Refundable`). The discount covers the price, so a payment of nothing occurs too.
- `TrackingStats`: two events, a list and batches of one entry, one server and one fault.
  A second push trims the list, a flush goes round, a resent pipeline pushes an event twice. Two
  calls of `aggregateDay` (the timer's and an administrator's) overlap. With two faults
  the same properties hold (half a million states, three minutes); two servers or three events
  make it too long to run, and there the proofs speak for the safety properties.

The proofs below do not depend on these bounds.

## 5. Fairness

- `RefreshLock!Fairness`: the `maxWaitMs` timer and the key's TTL are clocks, so
  they run out; `fn`, whose awaits are not the lock's, returns. Nothing is assumed of Redis or of
  the acquire loop: that a call runs `fn` to its end holds even if Redis never answers, which is
  what the timer is for. The release (`releaseLock`, awaited in the `finally`, and without a
  command timeout) has no such timer: a call that got the lock from a Redis that then hangs
  waits for ever. So `EveryCallEnds` says that a call ends only under `WF` of `ReleaseEnds`,
  Redis's answer or ioredis's giving up.
- `TokenizationQueue!Fairness`: a call of `enqueue` or `cancel` goes on after its await (per
  client); some drain in its loop, and some run, goes on (not each: the database may
  answer in any order); the container is restarted. `processText` is taken to return. Nothing
  makes clients call, texts vanish or the server die.
- `Tracking!Fairness`: a call of `track` ends (Redis answers, or ioredis gives up and the
  event is dropped), and a server goes on: its timer fires, an awaited command or insert
  ends, its container is restarted (`restart: unless-stopped`). `AggFairness` adds the hourly
  timer and the end of each query. Events need not arrive, administrators need not ask, the
  clock need not move; faults are finitely many, so that a flush in the end succeeds.
- `AuthSessions`, `TextVersions`, `Deck` and `Billing` state safety only and assume no fairness.

## 6. Proofs

`RefreshLockProofs`, `AuthSessionsProofs`, `TokenizationQueueProofs`, `TextVersionsProofs`,
`DeckProofs`, `BillingProofs` and `TrackingProofs` prove, for every value of the constants that satisfies the `ASSUME`s of the modules:

| Theorem | Property |
|---|---|
| `OwnershipInvariant`, `Exclusion`, `OwnerReleases` | `Ownership`, `MutualExclusion`, `OnlyOwnerReleases` |
| `ImplementsLease` | `RefreshLock` implements `ExclusiveLease` (`LeaseSpec`) |
| `SectionsInvariant`, `TokensAreSingleUse`, `RevokedStaysOut`, `RevocationsStand` | `Sections`, `SingleUse`, `RevokedSessionStaysOut`, `NoUnrevocation` |
| `ReuseIsContained`, `RotationsExchange` | `ReuseShutsOut`, `RotationExchanges` |
| `QueueInvariant`, `NoJobStranded`, `RunningJobsWorked`, `ConcurrencyBounded` | `QueueState`, `NoStrandedJob`, `RunningIsWorked`, `RunsBounded` |
| `VersionInvariant`, `OneCurrentVersion`, `RunningHasRun`, `TextsStayReadable` | `VersionState`, `OneCurrent`, `RunningIsReal`, `StaysReadable` |
| `ImplementsRegister` | `TextVersions` implements `VersionRegister` (`CurrentIsCompleted`) |
| `CardsAreKept`, `DecksSettle` | `CardState`, `SettledWithinLimit` |
| `ImplementsCollection` | `Deck` implements `Collection` (`KeepsCards`) |
| `CountsAreExact`, `LimitIsKept`, `DiscountOnce`, `RefundsAreFull` | `CountIsExact`, `WithinLimit`, `OneDiscount`, `RefundedInFull` |
| `ImplementsVoucher` | `Billing` implements `Voucher` (`CouponIsVoucher`) |
| `PushesBecomeOneRow`, `FatesAreFinal` | `RowPerPush`; `Tracking` implements `EventLog!Safe` (`DecidedOnce`) |
| `PushesBecomeOneRowAlongside`, `FatesAreFinalAlongside` | the same two of `AggSpec`, the specification with the aggregation, which the run checks |
| `StatsNeverExceed` | `StatsAreOfRows` |

The assumptions are the named ones only: `Free` is not a caller; `MaxTokens`, `MaxJobs`,
`MaxCrashes`, `MaxVersions` and `MaxFaults` are naturals, `MaxConcurrency` a positive one; a
list is a sequence of texts; words, users, events and drains (the `_drain` loops alive at once)
are finite sets; the limits of a deck and the sizes of queue and batch are positive, amounts and limits of
a coupon naturals; no server is called `"new"`, `"adrift"` or `"done"`. The sets of callers, requests,
sessions, clients, texts, runs, servers and administrators are arbitrary, even infinite.

**The lock.** Mutual exclusion is not inductive by itself: that two sections under a live
lease are one needs the fact that such a section owns the key (`HolderOwnsKey`), which in turn
has to hold from the moment Redis executed the `SET`, before its answer is read
(`GrantIsOwned`), and needs that the loop of a call that holds the lock cannot set the key
again (`LoopOverOnceHeld`). Their conjunction with the type invariant is `Ownership`. Every
step then maps to a step of `ExclusiveLease` or to a stutter: reading the answer `OK` enters,
release, expiry or death leave.

**The sessions.** `Sections` adds to the types: the discipline of the lease
(`LeaseDiscipline`), that no clearing under the lock lies beneath a locked rotation
that has read the hash (`NoRevocationUnderneath`; this is what makes `NoUnrevocation` hold,
since the rotation's store would otherwise be the violating step), that referenced tokens exist
(`TokensExist`), that rotation stays in its session and a login's new token is known to
nobody before it is installed (`Custody`), and that a replaced token has a successor which
neither the hash nor a rotation goes back behind (`Succession`). `SingleUse` needs the
last two together: a login that reinstalled a replaced token would break it.
`ExclusiveLease` enters only through `Enter` and `Leave`; that `RefreshLock` implements it is
what entitles the module to use it. `ReuseShutsOut` needs to know where a token of before the detection may have
survived it (`Outlawed`): neither in the user row nor in the hands of a locked rotation or a login about to
store it. The token a login has signed and not yet installed survives, and `Void` leaves it out; no
other one of its session was there before, by `Custody`, so a session is outlawed up to a point.
That the sessions are purged too adds nothing to it: a handler that dies between its two writes has
cleared the hash, which is what shuts the tokens out. `RotationExchanges` is about two states of one
request, the read of the hash and its overwriting, so its invariant (`Exchange`) is about all that
happens in between: under a lease, what a rotation verified is still in the user row, or else the
first token of a session is, because only `InstallHash` gets by the lock and `Custody` says
that what it installs is the only token of its session so far.

**The queue.** `QueueState` says that the counter is the cardinality of the set of runs,
which needs that no drain starts a job it is still running (`StartedOnce`), which needs that
claimed jobs are never PENDING again (`Claimed`), and that a dead server has no loops
(`DownIsIdle`). `NoStrandedJob` is inductive relative to it: a drain goes off only when it
saw no PENDING job or when the counter says there are runs, and a run that ends
starts a drain, the counter being exact, or leaves other runs behind. `RunsBounded` is not
inductive: a drain that has passed the test of the limit is a run to come. `Bounded` counts
both: runs and drains in their loops together stay below the limit plus the number of drains,
as a drain starts only while the counter is below the limit, and the one whose run reaches
it ends.

**The versions.** `OneCurrent` also says that the current version has been completed, which
restores could break; so `VersionState` adds that what is about to be restored is not
RUNNING (`RestoresCompleted`), that only its own run ends a version (`OwnVersion`, which
needs that runs share none), and that live numbers are distinct. `RunningIsReal` is
inductive next to it: a run whose version is gone no longer counts as going to write the text,
because its error handler throws at the missing row; the reset that deleted the row does, until
it has written IDLE. The refinement of `VersionRegister` maps each row to a stage; a step that moves
several at once (a switch takes `isCurrent` from one row and gives it to another) is shown row
by row (`RowGoesOn`). It needs that a version about to be restored is not RUNNING, and that a
version that failed after the switch cannot become current again once a switch took its place,
except by a restore that had read it before.

**The decks.** `SettledWithinLimit` says nothing while an addition is under way, so the
invariant says what such an addition owes (`Claimed`): every deck that is too large has a
request that is going to count it, or that has already read enough of it to leave no more than
the limit. Two additions that pick the same cards move them once, and the claim of the
second on the cards that are left is what has to survive it. For `Collection` the
invariant `Held` says that what a request is about to move has a card: a removal takes the
word out of every selection, since `updateMany` finds no such row, and `Move` and `Archive` therefore
bring no word back.

**Billing.** `CountIsExact` is inductive with the types. `WithinLimit` needs that what was read
as the limit is no more than the largest one (`LimitsRead`). `OneDiscount` needs that a
redemption that can still be found has bought nothing, and that two transactions of a user
outside `split` are not both past the lock (`Spent`). `RefundedInFull` needs that a refund
takes, with what others have added since, at least what remained when it read the payment
(`Refunds`), and that a new payment has its number to itself (`Numbered`).
The refinement of `Voucher` needs one invariant more (`Backed`): a transaction past the lock that found a
redemption, of a user outside `split`, still has it unspent, unless the coupon is gone (and then
no coupon has redemptions); a discount is given at the step that spends it.

**Tracking.** `RowPerPush` rests on each entry being in one place: in the list once, in the
batch of one server, or stored (`Unique`), and on an entry never being pushed twice, the number of
executions (`SendsOK`) being part of it; the list's length on each `lpush` having a `trims` of its own. The refinement maps an event that has rows to
`"stored"`, and otherwise one that `track`, the list or a batch still has to `"pending"`;
that a step never makes a decided event pending needs `Unique` again. `StatsAreOfRows` is inductive
with what each call has counted so far (`Counted`), for rows are only added. `AggSpec` takes steps of
`Tracking` or leaves its variables alone, but for a failed query, which uses up a fault; so what is proved of
`Spec` carries over to `AggSpec` by one more lemma each (`AggInvNext`, `FatesStay`).

Between the modules: `RefreshLock` implements `ExclusiveLease`, and `AuthSessions` is built on it.
Every safety property of a passing run, and every refinement without liveness, is proved.

Only model-checked: the liveness properties `EveryCallEnds`, `KeyComesFree`,
`EveryJobSettles`, `EventsSettle` and `StatsCatchUp` (fairness and ENABLED are beyond the prover), and the four violated claims.

## 7. Findings

Four places where a comment in the code promises more than the code does; each is a run
whose property TLC finds violated.

1. `phantom_lock` - `refresh-token-lock.service.ts:24-28, 61-67`: the overall budget is said to
   avoid a lock held in Redis for a call that reported failure. `Promise.race` does not cancel
   the loop, so the key may be set after (or while) the timer wins; the user's other requests
   then wait until the TTL. The comment at 61-67 also wants no `SET` of a call to be refused by
   its own key; one that ioredis sends again after a lost reply is (`SetResent`).
2. `false_reuse` - `auth.service.ts:365-371`: the lock is said to let near-simultaneous refresh
   calls wait "instead of triggering a false reuse-detected". The one that waited still
   carries the replaced token, and lands in the reuse branch: the user is logged out
   everywhere.
3. `replay_means_rotated` - `auth.service.ts:409-411`: a mismatching token is said to have been
   rotated before. With one hash for all devices, a login on one makes the current token of
   every other look replayed.
4. `queue_duplicate` - `tokenization-queue.service.ts:48`: no duplicate PENDING or RUNNING jobs,
   says the comment. The check and the insert are separated by awaits and no unique constraint
   backs them.

More behaviours the models have, without a run of their own:

- concurrent drains test the limit before their awaits and count after them, so
  `MAX_CONCURRENCY` may be exceeded for a while, by fewer runs than there are drains (`RunsBounded`);
- of two runs of one text the slower wins: an older version may become current over a newer
  one that was completed before it;
- `cancel` of a RUNNING job leaves the run alone, which then makes its version current and
  writes COMPLETED over IDLE;
- after a death, texts and versions stay RUNNING: `onModuleInit` looks after jobs only;
- if the text's update after the switch fails, the error handler marks ERROR the version that is
  already current, and `getPage` keeps serving it;
- `docs/04-texts.md:736` says that tokens and word count come from the latest version in all public
  endpoints; `getPage` (`text.service.ts:457-460`) takes the tokens of the current one, which after a restore, or while
  the latest is at work or failed, is another. The endpoints that do take the latest do so whatever its
  status, so that a text under reprocessing shows the progress and word count of a version that is not finished;
- an insert of a version that commits with its reply lost leaves it RUNNING for ever: the error
  handler does not know its id (`orphans`);
- *lock*: Redis that hangs between grant and release holds the request for ever: `releaseLock` is
  awaited without a time-out (section 5);
- `docs/04-texts.md:684` says that an exception at any point puts the text in ERROR; if the
  version was reset under the run, the error handler itself throws and the text stays as the
  reset left it;
- *deck*: two additions overfill a numbered deck: one counts the numbered decks, another archives into the
  first that has room, and the first one, by its older counts, archives into the same;
  `docs/09-other-modules.md:245` calls `deckMaxSize` the largest size of every deck;
- *deck*: `returnFromRepeat` puts a card back whatever the size of that deck by now, and only the
  next addition rebalances it; a rebalance acts on cards selected before, so one that was sent to
  REPEAT or to a numbered deck meanwhile is pulled out again;
- *billing*: an administrator's redemption (`admin-billing.service.ts:1621`,
  `admin-users.service.ts:886`) increments without a condition, so two of them, or one beside a
  user's, pass `maxRedemptions`; `deleteCoupon` refuses a redeemed coupon, but one
  redeemed between its check and its delete goes, with the redemption;
- *billing*: two subscribe calls of a user without a subscription leave two live ones and both
  get the discount, one redemption being linked to the later payment;
- *billing*: `docs/08-subscription.md:355` says that `paymentId` is set only when a discount was
  applied; `subscribeToPlan` (265-270) sets it whenever a redemption was found, applicable to
  the plan or not, and the coupon is spent;
- *billing*: overlapping refunds of one payment can add up to more than it, and its status stay
  SUCCEEDED although all of it was refunded;
- *tracking*: a batch whose insert failed is dropped, one whose RPOP lost its reply too, and a
  pipeline that is resent stores an event twice; `onModuleDestroy` of the worker, meant to flush at
  shutdown, is never called, since `main.ts` does not enable shutdown hooks, and would return at
  once during a flush;
- *tracking*: `totalEvents` may be smaller than the sum of the breakdown next to it, and an older
  result may overwrite a newer one; both are corrected by the hourly runs of the next days only.

## 8. Not modelled

- **In the modelled components.** Passwords and the login failure counter, access tokens and
  their blacklist, OAuth linking, the session list's device data (`AuthSessions`); queue
  positions, events and the status fields of the `Text` row, which `TextVersions` has
  (`TokenizationQueue`); progress percentages, logs, the token and vocabulary rows of a version,
  and the editing handlers of `admin-text.service.ts` (`TextVersions`); `movedAt` and `rateCard`, the
  review log, the daily rotation of the numbered decks (`Deck`); trials, whose check precedes the
  transaction that starts one, so that two requests start two although
  `docs/08-subscription.md:223` says one, the subscriptions an administrator creates or extends,
  end dates, events and the plan catalogue (`Billing`); visitor and session identifiers, the
  realtime set, the reports (`Tracking`); time as a quantity
  (timers and TTLs may fire at any moment,
  which covers every relation between them).
- **More than one server process.** The compose file runs one; the queue's counter would be
  one per process and `onModuleInit` would fail the other's running jobs. The lock is in Redis
  and is modelled without that restriction, as are deck, billing and tracking.
- **The queue and the versions in one model.** They are separate modules: the queue takes
  `processText` as a step with two outcomes, the versions take the queue as one of their callers.
  Callers that bypass the queue (`admin-text.service.ts:622, 743, 820, 1248`,
  `text-submissions.service.ts:529`) create no job and are runs of `TextVersions` only.
- **The remaining components** of section 1. Those with control of their own are in section 9.
  Pure string processing, read-only analytics, plain CRUD, mail and wiring have none worth a model
  checker and are left out for good; PostgreSQL, Redis and the JWT library are taken as
  atomic operations where they are used.

## 9. Plan

In order of importance; each module gets a type invariant in its inductive invariant, the
properties named, a run, and proofs of its safety properties.

1. `Moderation` - submissions and suggestions under two reviewers (`text-submissions.service.ts:426`,
   `suggestions.service.ts:355`): a published text belongs to an approved submission, an applied
   value to an approved suggestion, as far as the checks outside their transactions allow.
2. `Credentials` - one-time tokens, login with an old password, unlinking, purge against
   restore - and `AccessTokens` - blacklist and profile cache, with a clock of two resolutions.
3. Trials and administered subscriptions in `Billing`; the rotation of numbered decks in `Deck`.
4. `Learning` - SM-2 as recursive functions against a reference over bounded inputs, reviews and
   clicks in parallel.
5. The translation cache's votes and the export run.

## 10. How to run

In this directory, with the TLA+ community modules on TLC's path:

    tlc -workers 2 -config RefreshLock.cfg RefreshLock.tla
    tlc -workers 2 -config AuthSessions.cfg MCAuthSessions.tla
    tlc -workers 2 -config TokenizationQueue.cfg MCTokenizationQueue.tla
    tlc -workers 2 -config TextVersions.cfg MCTextVersions.tla
    tlc -workers 2 -config Deck.cfg MCDeck.tla
    tlc -workers 2 -config Billing.cfg MCBilling.tla
    tlc -workers 2 -config Tracking.cfg MCTracking.tla
    tlapm RefreshLockProofs.tla

and so on for each run of `PROJECT.json` and each `*Proofs.tla`. `queue_safety`,
`text_versions`, `auth_sessions`, `billing` and `deck` take one to three minutes each, the others
seconds; the proofs up to two minutes each.
