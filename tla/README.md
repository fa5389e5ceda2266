# A TLA+ model of new-api's billing, task, channel and account core

new-api is a gateway in front of AI providers. A client sends a request with an
API token; the gateway reserves an estimated price on that token and on the
user's wallet or subscription, picks an upstream channel, retries on failure,
and settles the real price or refunds. Long jobs (video, music) become rows
that background pollers drive to an end. Several nodes share one SQL database
and, optionally, one Redis.

This directory models the parts of that system where money or access depends on
the order of steps taken by several actors. TLC checks the models on small
instances; TLAPS proves every invariant and action property of the passing runs for
all instances.

Paths below are relative to `src/`.

## Inventory

| Component | State | Operations | What is hard | Module |
|---|---|---|---|---|
| Billing session (`service/billing_session.go`, `service/funding_source.go`) | per request: reserved, settled, refunded amounts; shared: wallet, token, subscription, refund records | pre-consume, reserve more, settle, refund | statements of several requests interleave; every statement can fail half-way; the refund runs after the answer was sent | `BillingSession` |
| Relay loop (`controller/relay.go`) | attempt counter, last error, channel slot | attempts, interception, settlement, deferred refund | settled attempts that are turned into errors and retried; slots on every way out | parts of `BillingSession`, `TaskBilling`, `RelaySlots` |
| Wallet copy, batch updater, codes and orders (`model/quota_reserve.go`, `model/user_cache.go`, `model/utils.go`, `model/redemption.go`, `model/topup.go`) | row, Redis copy, buffered changes, voucher status | reserve, debit, credit, redeem, complete, flush, fill, expire | three places hold parts of one balance; fills and fallbacks race changes; a voucher is presented twice | `QuotaCache` |
| Subscriptions (`model/subscription.go`) | rows with status and end, user group, orders | pay, purchase, bind, invalidate, delete, expire | a grant races the expiry of another; locks are taken in different orders | `Subscriptions` |
| Subscription quota (`model/subscription.go`, `service/subscription_reset_task.go`) | used amount, last and next reset | pre-consume, settle, refund, reset by request, pass and administrator | clocks read before locks; refunds after a reset | `SubscriptionQuota`, records in `BillingSession` |
| Asynchronous tasks (`service/task_polling.go`, `service/task_billing.go`, `model/task.go`, `relay/relay_task.go`) | task row with status, quota, failure count | insert, poll, sweep, bulk fail, settle, refund, real-time fetch | every actor works on a copy of the row; passes overlap; crashes | `TaskBilling` |
| System task runner (`model/system_task.go`, `service/system_task.go`) | task rows, one lease lock per type | schedule, claim, heartbeat, finish, expire | clock readings grow old between statements; dead nodes | `SystemTask` |
| Named leases (`model/named_lease.go`, `service/named_lease.go`, `controller/channel_queue_warmer.go`) | lease row, breaker of the warmer | acquire, take over, renew, release | late renewals; holders that never release; an open breaker | `NamedLease` |
| Channel concurrency (`common/channel-concurrency.go`, `service/channel_concurrency.go`) | counters per scope | resolve, acquire, release | the scope changes between taking and returning | `RelaySlots` |
| Channel status (`model/channel.go`, `model/channel_cache.go`, `service/channel_mutation.go`, `controller/channel-test.go`) | row with status and keys that are off, abilities, copies in memory | failure, health test, administrator, tag operation, refresh | nodes write whole key lists; copies are replaced after the commit; refreshes install what they read earlier | `ChannelStatus` |
| Login sessions (`model/user_session.go`, `service/auth_session.go`) | session row, Redis snapshot | create, cached read, refresh, revoke, advance | cache fills that race revocations; Redis errors; secrets presented twice | `UserSession`, `SessionLifecycle` |
| User authentication version (`model/user_auth_cache.go`, `model/user_cache.go`) | version, hash, fence, floor | fill, bump, publish | fills that read before a restrictive change; rolled-back transactions leave fences | `UserAuthCache` |
| Cached user group (`model/user_cache.go`) | group in row and hash | change and refresh, fill | no version orders the writes | `UserGroupCache` |
| Login verification (`service/login_verification.go`, `model/twofa.go`, `model/auth_flow.go`) | challenges, failure count, lock, backup codes | open, submit, count, spend, complete | concurrent submissions of the same code or challenge | `LoginVerification` |

How they interact: the relay loop owns a billing session, which calls the wallet,
token and subscription statements, and takes a slot of the channel for each
attempt; its failures turn keys and channels off. A task submission is a relay
request whose session is settled right after the row is inserted; from then on the
pollers, which run as a system task under its lease, move the quota. Subscriptions
change the user's group and refresh its cached copy. Every dashboard request is
validated against the session snapshot and the user's version in Redis.

`PROJECT.json` lists the remaining components with the reason each is left out:
protocol adaptors, price expressions, channel choice, rate limits, the user
interface and others.

## Modules

### BillingSession

All requests belong to one user and one token, so they compete for `wallet`,
`token` and `subUsed`. `session[r]` is the `BillingSession` object of request
`r` with its control point; `net[r]` is history: what the request has taken from
each ledger so far. There is one action per call into package `model`, because
other requests move between two calls. `NewBillingSession`, `TryWallet`,
`TrySubscription` and `GoFallback` follow the four billing preferences;
`PreConsumeToken`, `PreConsumeWallet`, `PreConsumeSubscription` and
`RollbackToken` are `preConsume`; `Reserve` to `RollbackReserve` are `Reserve`;
`Settle` to `SettleToken` are `Settle`; `Finish` and `AttemptsFailed` are the end
of an attempt in the relay loop; `Refund` decides and `RefundWallet` to
`RefundToken` are the goroutine it starts. `Faults` names the statements that may
return an error. A failing statement has no effect, with two exceptions the code
has: the clamp after a wallet debit (`"clamp"`), and a committed subscription
refund whose answer is lost (`"subRefundAck"`).

Prices, balances and estimates are small naturals. The session mutex protects
one request's own object and is not modelled. The batch updater is off.

### SystemTask

One task type: rows `tasks`, the lock row `lock`, each runner's pass (`pass`),
each row's handler (`job`) and heartbeat (`beat`). Every database statement is a
step. A function reads the clock first, so what it compares with is old when
its statement runs; `age` counts those ticks and `MaxStall` bounds them. The
lock keeps the ticks left until `locked_until`. A pass is
expire – schedule – claim, as in `StartSystemTaskRunner`. A crashed runner does
not come back: a restarted node has a new runner id. Handlers are reduced to
their outcome.

### TaskBilling

One task row, the request that submits it, polling passes (`Pollers`), which may
overlap once a pass outlives its lease, and real-time fetches (`Fetchers`). Each
actor holds a copy of the row and writes the whole copy back when the row still
has the status it read (`UpdateWithStatus`); the bulk update compares nothing.
`Sweep`, `PollFails`, `PollGone`, `PollNoChannel`, `PollRunning` and
`PollFinished` are the ways a pass treats a task, `Bill`, `BillToken` and
`BillQuota` the statements of a settlement or refund, and `FetchLoad` and
`FetchAnswer` those of a fetch. `charge` is what the task costs the user on the
funding source, the token and the usage statistics. A fault may leave any statement
undone; `"clamp"` is the debit that is made and then reported as failed
(`model/user.go:1487`), after which the pass goes no further.

### UserSession and SessionLifecycle

One session: its row, its Redis hash and any number of calls, one step per
statement or Redis command. Each call takes its cache deadline before it reads
the row, as the code does. `Fill` is the active branch of `writeUserSessionCache`,
`GetDeny`, `Fence` and `Bury` its deny branch. `RevokeOne` and `RevokeLocked`
differ in the version their tombstone carries, as in the code. Refresh secrets
are numbered along the chain that `deriveNextRefreshSecret` produces. Time is in
ticks; `since` counts those since the row was last revoked or advanced, and
`trouble` records what befell a revocation before its tombstone was written.
`SessionLifecycle` is the abstract specification of the row: a secret is
exchanged for its successor, versions advance, a revoked session stays revoked.

### NamedLease

One lease row and the calls that compete for it, of one of three kinds: with a
heartbeat that cancels the work (`WithNamedLease`), without one
(`withChannelCustomBalanceLease`), and never released (`warmOneChannel`, whose
breaker is `breaker`). `Acquire`, `Insert` and `Takeover` are the statements of an
acquisition, `BeatRead` and `BeatWrite` those of a renewal, `Return`, `WarmEnd` and
`Release` the ways out. A clock reading is as old as the call has been delayed.
`TimelyAssumption` says that half the TTL and two delays fit into the lease; the
code chooses its intervals so.

### RelaySlots

The counters of one process. `ResolveChannelConcurrency` gives the scope and the limit
of an attempt from the channel object in hand: `FromContext` for a first attempt,
`Loaded` for a retry. `TakeSlot`, `ReturnSlot` and `ExitSlot` are the loop's acquisition,
its release before the next attempt and its deferred release; settings change in
between.

### UserAuthCache and UserGroupCache

`UserAuthCache` has the version row and the three Redis keys of a user. A bump is
`BumpRead`, `BumpFence`, `BumpUpdate`, `BumpCommit` (or `Rollback`) and the two
publications; a read is `ReadHash`, `CheckFloor`, `ReadRow`, `RowFloor`, `FillHash`.
Without row locks (SQLite) only the condition of the update keeps two bumps apart.
`FenceAssumption` says that a fence outlives every hash and call that was there
before it. `UserGroupCache` is the group field, which changes at the same version:
`GroupRead`, `GroupWrite`, `GroupVerify` and `GroupLast` are the rounds of
`RefreshUserGroupCache`, `FillRead` and `FillWrite` a fill.

### LoginVerification

`OpenFlow` is the accepted password, `SubmitCode` to `SpendCode` the check of a code,
`CountRead` and `CountWrite` the compare-and-swap of the failure count, `ResetCount`
what a right code records, `CompleteLogin` the transaction that consumes the challenge
and creates the session. `DisableFactor` removes the second factor meanwhile. No session
ends, so the active ones are also those issued lately, and `SessionLimit` stands for the
smaller of the two limits.

### QuotaCache

`dbQuota` is `users.quota`, `copy` the quota in the Redis hash, `store` and `flushing` the batch
updater's. A call goes through `ReserveCopy`, `Hydrate`, `ReserveRow`, `Persist` and
`Compensate`, or `Credit`/`Debit` with `ApplyDelta`; a voucher through `OpenVoucher`
and `CommitVoucher`. History variables keep what callers were told (`owed`), what was
lost, and whether the copy was right when it was filled (`copy.exact`).

### Subscriptions and SubscriptionQuota

`Subscriptions` is one user's rows and group. The row locks a transaction holds
follow from its control point (`HoldsOrder`, `HoldsUser`, `HoldsSub`), as `lockForUpdate` takes
them; writes become visible with the commit; `Rollback` also stands for the victim of a
deadlock, which the lock orders of withdrawal (row, then user) and of a limited
purchase (user, then rows) make possible. `SubscriptionQuota` is the amount used by running
subscriptions: one transaction per step, with the clock reading taken by the step
before it (`PreConsumeStart`, `ResetStart`, `AdminResetStart`). The period is
`quota_reset_custom_seconds`; calendar periods differ only in where the next boundary
lies. `overtaken`, `taken`, `late` and `resets` are history.

### ChannelStatus

One channel with several keys, its abilities and each node's memory. `LockStatus`,
`SaveStatus` and `CacheStatus` are `UpdateChannelStatus` inside the polling lock, the first two
inside the row lock; `KeyUpdate` is `handlerMultiKeyUpdate`. `TestStart` and `TestEnd` are a
health test, which goes by the status it has read; `SetStatus` is the administrators'
transaction, `TagRead`, `TagStatus` and `TagAbilities` the statements that disable a tag after it;
`SyncRead`/`SyncInstall` and `RefreshChannel`/`InstallChannel` are `InitChannelCache`.

### MCShared and MCAccounts

The mechanisms of each of these two modules share no variable in the code either, so
one run moves one of them at a time, chosen in the initial state, and the state
space is their sum.

## Runs

Bounds are in the `.cfg` files. All runs set `CHECK_DEADLOCK FALSE`: requests end,
tasks reach their bound, sessions may simply not be used again.

| Run | Checks | Bounds and why they are enough |
|---|---|---|
| `billing_faults` | `ReservationReconciled`, `SettledExactly`, `RefundReturnsAllPreConsumed`, `NeverOverRefunded`, `RejectedPaysNothing`, `RefundCompletes` | two requests (text, image or playground) that compete for wallet, token and subscription, prices 0 and 2 around balances of 3, so that a reservation is raised at most once (`billing_image_refund` is about two raises), trust threshold 2, wallet cap 4, a top-up of 2, every storage error but a failed clamp |
| `billing_image_refund` | `RefundReturnsAllPreConsumed`, violated | one image request on the wallet, no errors |
| `systask_live` | `AbandonedRunFails`, `PendingIsClaimed`, `SerialExecution` | two runners, two rows, lease and delay of one tick, crashes |
| `systask_faults` | `NoOrphanedRun`, `TerminalIsFinal`, `ExecutedOnce` | the same with a row from before `active_key`, nodes that do not renew in time and every statement failing; no clock passes inside a function (with `MaxStall = 1` the three hold too, in 4.8 million states, too many for a run kept in the suite) |
| `task_faults` | `NeverOverRefunded`, `OutcomeIsFinal` | two overlapping passes, all three billing kinds, every fault, unreadable channels among them |
| `task_live` | `EveryTaskEnds`, `FailureIsRefunded`, `ChargeMatchesRow` | passes that do not overlap, no faults |
| `task_realtime` | `NeverOverRefunded`, violated | one pass and a user who fetches twice, no faults |
| `session_overtaken` | `CannotReactivate`, violated | three calls at a time, no faults |
| `shared_guards` | `Exclusive`, `LeaseWorkGoesOn` (lease); `SlotsAccounted` (slots); `VersionFenced`, `UserDenialEnds` (version); `NoKeyLost`, `CopiesInOrder`, `MemoryCatchesUp` (channel) | two nodes under each kind of lease, TTL 3, one fault; two requests, two channels, three settings, a change and a retry; a reader and two bumps without row locks, one fault; two nodes of which one caches, two keys, two calls at a time, three status changes |
| `slots_configured` | `ConfiguredLimitHolds`, violated | two requests, a channel with a limit of one, settings that do not change |
| `accounts` | `LedgersAgree` (task); `GrantedAsSold`, `RaisedGroupKept` (subscriptions); `PeriodBounded`, `OneResetPerPeriod` (their quota); `StaleIsBounded`, `RevokedIsDenied`, `RowIsSession` (session); `GroupRepaired` (group); `UsedOnce`, `LockComesInTime` (second factor); `Conserved`, `CopyExact`, `NoOverdraft`, `PaidOnce` (wallet) | a pass and a user who fetches twice, unreadable channels; two calls, two plans of which one is limited, an order, two subscriptions; two running subscriptions with different ends, two requests, two boundaries, one reset by an administrator; two session calls, TTL 2, one version change, two refreshes, Redis errors and crashes; two refreshes and a fill; two submissions at a time, four in all, limit 2; two calls at a time, three in all, a code and an order, with and without batches, one error or crash |
| `subs_renewed` | `GroupReverts`, violated | a plan without a downgrade group, one call at a time |

Symmetry is used only where no liveness property is checked: between runners,
pollers, session calls and subscription calls, which no definition tells apart.
In most models two actors are what every comparison in the code is about (one that
read, one that wrote in between); the third call of `session_overtaken` is needed for
its order.

### What the violated properties show

* `billing_image_refund`: `WalletFunding.PreConsume` overwrites `consumed`, and an
  image request that raises its reservation calls it twice, so a refund returns
  only the last raise (`service/funding_source.go:53`).
* `task_realtime`: a real-time fetch that reads a failed row before
  `RefundTaskQuota` clears its quota writes status and quota back; the next
  failure refunds the task again (`relay/relay_task.go:586`).
* `session_overtaken`: `RevokeUserSession` writes its tombstone with the version it
  read before the fence. If the version advances and a second revocation fences
  in between, the tombstone is refused; when that fence expires, a fill that read
  the row before the revocation stores an active snapshot
  (`model/user_session.go:598`). `StaleIsBounded` still limits it to one TTL.
* `slots_configured`: a first attempt works with a channel object put together from
  the request's context, which has no limits, so it is counted under the global
  default if there is one and not at all otherwise (`controller/relay.go:452`).
* `subs_renewed`: a subscription bought while the user is already in its group
  remembers no previous group. When it ends last, expiry looks at it alone and
  leaves the user in the raised group (`model/subscription.go:1216`).

### Limits of the passing properties

Some properties hold only under a constant's value. Each of the following makes
the property fail, and is listed as a hazard:

* `NeverOverRefunded` (billing) with `"clamp"` in `Faults`: the debit is applied but
  not recorded (`service/funding_source.go:68`).
* `AbandonedRunFails` and `NoOrphanedRun` with `MaxStall` greater than `TTL`: a claim
  delayed past its own lease makes a row running whose lock has been deleted
  (`model/system_task.go:306`).
* `SerialExecution` with `Timely = FALSE` or `MaxStall` greater than `TTL`: a node that
  does not renew in time goes on working for a while beside its successor. Even a
  timely handler's row may be failed under it, by an expirer that read the lock of an
  earlier claimer which crashed (`MarkSystemTaskLeaseExpired` compares the status only,
  `model/system_task.go:427`); it takes three nodes and showed in the attempt to prove
  that a handler's row is running. What is proved is that the lock stays the handler's,
  so that no other begins before it ends.
* `FailureIsRefunded` with `"channel"` in `Faults`: the bulk update fails rows without
  a refund, and without comparing their status, which is why `OutcomeIsFinal` names
  it as the one exception (`service/task_polling.go:454`).
* `EveryTaskEnds` with `"progress"` in `Faults`: an unfinished answer at 100 % takes
  the row out of both queries (`model/task.go:368`).
* `EveryTaskEnds` with two pollers: an upstream that alternates between two
  unfinished states can make the sweep's conditional update lose every time.
  Non-overlapping passes are what `SerialExecution` of the runner provides.
* `FailureIsRefunded` with `"crash"`: nothing takes up a refund again.

Others exclude, by a history variable, behaviours in which the code does not keep
them:

* `RaisedGroupKept` for a subscription granted between the check of an expiry pass,
  which takes no lock on the user, and its commit (`overtaken`,
  `model/subscription.go:1183`): the pass then takes the group of the new subscription
  away, and without the exception the run `accounts` finds it. The property asks for
  the group of the running subscription or of a later one, ended or not. Silver runs,
  gold was bought after it and has ended: the code leaves the user in gold's group
  until silver ends (`model/subscription.go:459`, "keep the current group"), although
  the texts of both web interfaces say that the group reverts when the plan expires
  (`web/classic/src/i18n/locales/en.json:971`); what they promise when all have ended is
  the violated run `subs_renewed`.
* `OneResetPerPeriod` after an administrator's advancing reset that comes with an old
  clock reading, or so near the end that both times are cleared and later
  counted from the start again (`setBack`, `model/subscription.go:1026`).
* `PeriodBounded` allows for what requests of an earlier period return in this one
  (`late`, `model/subscription.go:1537`).
* `RevokedIsDenied` when the tombstone of a revocation was refused because the version
  had advanced (`model/user_session.go:598`), which the violated run `session_overtaken`
  shows.
* `CopiesInOrder` while a refresh that read earlier is under way; `MemoryCatchesUp` says
  that this ends.
* `CopyExact` and `NoOverdraft` when a fill read the row before a change or ignored
  buffered changes, and when a Redis error sends a reservation to the row while a
  copy exists (`model/user_auth_cache.go:87`, `model/quota_reserve.go:186`). `Conserved`
  excludes no behaviour but accounts for three losses in `lost`: what a crash and a
  failed flush lose, and a debit that was made although the caller was told that it
  failed, because `decreaseUserQuota` returns the error of the clamp that follows its
  update (`model/user.go:1487`).
* `GroupRepaired` is about what refreshes write; a fill that read an old group may
  write it later, and it stays until the hash expires.
* `Exclusive` and `VersionFenced` rest on `TimelyAssumption` and `FenceAssumption`,
  `LockComesInTime` on `TriesAssumption` (a count is retried as often as the lock needs).

The models also show three things no property is stated about: a tag that is
disabled statement by statement can leave an enabled channel without abilities when
another change comes in between (`model/channel.go:942`); a late failure turns a
manually disabled channel into an automatically disabled one, which a health test
may enable again (`service/channel.go:37`); and disabling the tag of a channel whose
keys are all off reports an error once the first transaction has set the status
(`model/channel.go:937`).

## Fairness

* `BillingSession`: weak fairness of each step of a refund goroutine, which Go
  schedules once started. Requests themselves may hang on their upstream.
* `SystemTask`: time passes; a runner's ticker keeps starting passes, each of which
  goes on, and expiry, though throttled, is due again and again (strong fairness,
  since other branches of the pass may be taken in between); a handler that has
  come to its end writes its result. No handler need ever finish, and a live node
  need not heartbeat.
* `TaskBilling`: the request and a pass that has begun go on; the scheduler starts
  passes again and again, each of which sweeps first. Nothing makes upstream
  finish: the sweep has to end the task.
* `NamedLease`: time passes (strongly fair, since a late statement holds it up now and
  then); workers begin again, as tickers do, and their calls go on; work ends once it is
  cancelled.
* `UserAuthCache`: time passes, readers and transactions that have begun go on.
* `ChannelStatus`: calls that have begun go on, and `SyncChannelCache` runs on every caching
  node for ever. Nothing makes anyone change a status.
* The other modules: none; only safety is stated.

## Proofs

Every theorem holds for all values of the constants that satisfy the `ASSUME` of
its module and the condition named here. TLC evaluates each `ASSUME` in a run. Two runs
go beyond a theorem's condition: `billing_faults` has image requests (raised once), and
`systask_faults` a row from before `active_key`.

* `BillingSessionProofs`, when `"clamp"` is not a fault: `TypeCorrect`,
  `NoOverRefund`, `Reconciled`, `RejectionIsFree`. The properties relate
  `preConsumed` to `net` only at rest; `IInv` says for each control point and refund
  stage how far the statements have got (`StageInv`), what is held on each ledger
  (`HoldInv`), and that whatever a pending refund will return is covered
  (`CoverInv`). Each request's part mentions only its own session and history, so
  an action of one request leaves the others' parts alone; that is the frame lemma
  every action lemma uses. With finitely many requests, `SettlementExact`,
  `RefundExact` and `RefundComplete` turn the bounds into equations (`Exact`). They need a fact about all
  requests together, `Summed`: the subscription's use is the sum of what they hold, so
  a negative delta never meets the floor at zero. `RefundExact` is about all
  requests and excepts the wallet of image requests alone, whose refund
  `billing_image_refund` shows to be incomplete; `RefundComplete` is the property itself
  where there are none.
* `SystemTaskProofs`, when `MaxStall <= TTL` and no legacy rows exist (`Punctual`):
  `TypeCorrect`, `RunsAreFound`. `NoOrphanedRun` is not inductive
  because of nodes half-way through a claim or an expiry: `ClaimInv` says that a
  claimer which has the lock holds a lease that ends no earlier than the claim
  must, `ExpireInv` that a lock about to be deleted is not a running row's, and
  `KeyInv` that the unique index leaves one active row. With no condition at all:
  `OutcomeFinal` and `RunsOnce`, from the few ways in which a step changes one row and
  its handler (`RowStep`). With timely renewals as well: `RunsAlone`, where `Held` says
  that the lock of a handler at work is its own and how much of the lease is left for a
  heartbeat that has read its clock.
* `TaskBillingProofs`: `TypeCorrect`; without fetches `RefundedOnce` and
  `OutcomeFinal`. `Solvent` says that at most one pass is the winner
  of a terminal status, that its copy carries the quota that was really charged,
  and that the charge covers that quota and the surplus the request still has to
  return, in whichever order they come. `ChargeIsRecorded`, without fetches and
  without the faults that stop a settlement between funding and row, the failed clamp
  among them (`KeepsCharge`):
  `Matched` makes of that cover an equation. `LedgersTogether`, with fetches, any finite
  number of passes and without the faults that lose one ledger's write
  (`KeepsLedgers`): `Balanced` says that token and statistics lag behind the funding by the
  sum of what settlements under way have still to write.
* `UserSessionProofs`: `TypeCorrect`, `StaleBounded`, `Refinement`, `RevokedStaysDenied`.
  `StaleIsBounded` says nothing of fills still under way; `Aged` bounds every active
  snapshot, cached or in a call's hands: one the row has left behind has no more time
  than is missing to a TTL since the row changed. `Refinement` shows that each write of
  the row is a step of `SessionLifecycle`. `Denied` is the argument why a revoked session
  is not let in: while a revocation is under way its fence stands as long as it does
  (`Fenced`), and once it is over the tombstone stands as long as any fill may still
  write (`Buried`).
* `ChannelStatusProofs`: `KeysKept` and `CopiesOrdered`, for any nodes, keys and calls.
  `NoKeyLost` is not inductive, because a save writes a whole row that was put together
  earlier: `KeyInv` adds that between `LockStatus` and `SaveStatus` a call holds the row
  it would put together now, and that no other call is there. `CopiesInOrder` is not,
  because a call or a refresh may hold an older row: `OrderInv` says that while the last
  write is the node's own, every refresh of the node under way has read it (`Current`),
  and that the polling lock lets one call of a node come between its save and its copy.
* `SharedProofs`. `LeaseExclusive` (under `TimelyAssumption`): the holder at work has time
  left on its row, counted from its last renewal or from the beginning of its bounded
  work (`InTime`). `AuthFenced` (under `FenceAssumption`): whatever an old reader may still
  fill in or be given is barred by a fence that outlives it or by the floor (`Barred`,
  `KeysOK`). `SlotsStayAccounted`: the holders of a counter can be ranked from one to its
  value, each admitted under a limit its rank does not exceed (`Ranked`), which is what a
  release in the middle preserves.
* `AccountsProofs`, one section per module.
  * `QuotaCache`: `LedgerConserved`, `CopyStaysExact`, `NothingOverdrawn`, `VoucherPaidOnce`.
    Copy and ledger differ by what the calls under way have still to do: `ExactSum` says
    it is the sum of their `Dues`, `Covered` that what they may still claim is there. A
    step is shown once to have an `Effect` on ledger, copy and the call's own share.
  * `UserGroupCache`: `GroupStaysRepaired`. A stale group in the hash has a refresh that
    will write again (`StaleIsRepaired`).
  * `LoginVerification`: `LoginUsedOnce`; `LockStaysInTime` (under `TriesAssumption`):
    every wrong code is counted, still to be counted by a submission under way, or
    among the failed counts (`Compared`, `ToCount`), and a submission loses a comparison only
    to one that has counted.
  * `SubscriptionQuota`: `PeriodStaysBounded`, `BoundaryResetsOnce`. The next boundary is the
    start plus a whole period for each reset counted (`SubOK`).
  * `Subscriptions`: `GrantsMatchSales`, `GroupStaysRaised`. A transaction relies until its
    commit on what it read (`TxOK`), an expiry pass but for the grants that overtake it; the locks that follow from the control points
    keep two such transactions `Apart`.
* `Sums` is what these proofs know of sums over a finite set. A sum is given by a list of
  the set and its partial sums (`IsSum`), so that changing one term needs no induction
  (`Moved`); `FoldIsSum` shows that it is what `MapThenSumSet`, by which the models count,
  computes. The library's induction theorems take an operator, which the provers cannot
  instantiate; `SubsetInduction` states induction over the subsets of a finite set with a
  set in its place, and follows from a least counterexample.

Only model-checked: the liveness properties (`RefundCompletes`,
`AbandonedRunFails`, `PendingIsClaimed`, `EveryTaskEnds`, `FailureIsRefunded`,
`LeaseWorkGoesOn`, `UserDenialEnds`, `MemoryCatchesUp`), since the prover has no rules for
fairness. The properties of the violated runs are false, and the theorems next to
them say under which condition they hold, where there is one.

## Plan

Done: the modules above, in the order of their sections, and the theorems above. Every
invariant and every action property of the passing runs is stated by a theorem.

Next: weaker conditions where a theorem excludes more than its counterexample (rows
from before `active_key` in `RunsAreFound`, fetches in `RefundedOnce`); step properties towards the liveness ones, such as
that an expired lease is never extended.

## Not modelled

* Redis evicting a key before its time, clocks that differ between nodes, a
  database commit whose acknowledgement is lost (except the subscription refund),
  integer overflow of quotas (amounts are bounded far below the word size by
  `MaxWalletQuota`).
* Of channels: the choice by weight, priority and affinity (a sequential
  computation whose result is an input of the models), the polling choice of keys,
  which without a memory cache saves the key list it was loaded with
  (`model/channel.go:280`), and the management of keys, which saves a copy read without
  a lock (`controller/channel.go:1995`); editing and price guards.
* Of subscriptions: calendar periods, unlimited amounts, the plan cache.
* Of the balances: the token's copy, which works as the wallet's does, usage
  statistics, orders for invitation codes and the payment providers' protocols.
* Of sign-in: passkeys, OAuth and proofs for other operations; the expiry and clean-up of
  sessions.
* Protocol adaptors, plugins, price expressions, rate limits and the user interfaces
  are most of the repository by size: they translate data or draw it, and have no
  state that several actors write. They are listed as `not_modelled` in
  `PROJECT.json`.
