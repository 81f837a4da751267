# TLA+ models of the AI-Profit-OS money backend

AI-Profit-OS lets users deposit USDT or KRW, lock principal in trades that an
execution engine settles or stops, hold mining positions, earn mission and
referral rewards, and withdraw. Everything that moves money is in the NestJS
service `src/services/api-nest`, over Postgres, and every movement is a journal
of one double-entry ledger. These modules model that core: the ledger itself,
the two ways money comes in, the trades and mining positions that lock and pay
it, the promotion pool that rewards come from, and the withdrawals by which it
leaves.

No process of the backend is alone: several requests of one user, several
administrators, the chain watcher, the sweeper and retries after errors run
interleaved, each as a sequence of SQL statements, most of them with no
transaction around the sequence. A crash may fall between any two. That is what
the models are about: each call in flight is a process, each statement that
other calls can see is a step.

Paths below are relative to `src/services/api-nest/src/` unless they start
with `src/`.

## 1. Inventory

| Component | State | Operations | Talks to | Hard part |
|---|---|---|---|---|
| Ledger posting (`ledger/ledger.posting.service.ts`) | `ledger_accounts.balance_usdt`, `ledger_journals` (unique `idempotency_key`), `ledger_entries` | `postJournal` | every money component calls it | lookup, row locks in account order, balance test, unique index, COMMIT; retries |
| Outbox (`ledger/ledger.outbox.service.ts`) | `ledger_outbox_events.published_at` | `drain`, after each new journal | event bus | at-least-once, crash between emit and mark, no timer |
| USDT deposits (`wallet/usdt-deposit.service.ts`, `wallet/chain-watcher.stages.ts`) | `usdt_deposit_events`: status, confirmations, journal link | `observe`, `applyReorg` | ledger | reports out of order, reorgs, crash between credit and link |
| Chain sweeper (`wallet/chain-sweeper.phase0.service.ts`) | the same rows, `deposit_config` | `tick` | executor (on-chain transfer) | overlapping ticks, transfer before mark, stale guard |
| Chain watcher (`wallet/chain-watcher.phase0.service.ts`) | cursor and fingerprint in memory | `tick` | USDT deposits | cursor moved before its rows are handled |
| KRW deposits (`wallet/krw-deposit.service.ts`) | `krw_deposit_requests`: status, payable amount, journal link | create, list, approve, reject, expire | ledger, FX snapshots | approve against reject and expiry; amounts unique among active requests |
| Participation (`opportunities/participate.service.ts`) | `participate_requests`, `trade_executions`, bonus and daily counters | `participate` | ledger, membership | lock posted before the transaction; caps checked once |
| Trade execution (`trades/trades.execution.service.ts`, `src/services/engine-rust/settlement_rule.cjs`) | `trade_executions`: status, rematch count, settled profit | `executeTick` | ledger, rules, circuit, risk | two ticks that decide differently; retry at another payout |
| Missions (`missions/mission.accrual.service.ts`) | `mission_accruals` | accrual, release | ledger (promotion pool) | `posting` left by a crash; pool tested before the post |
| Referral (`referral/referral.{ladder,pool,clawback}.service.ts`) | `referral_edges`, `referral_payout_queue` | qualify, enqueue, FIFO drain, admin release, top-up, clawback | ledger (promotion pool) | `SKIP LOCKED` outside a transaction; drain against clawback |
| Mining (`mining/mining.service.ts`, `mining/mining-operation-coordinator.service.ts`) | `mine_positions`, `mine_position_events`, `mine_settlements` | start, increase, decrease, end, daily settlement, admin retry | ledger, connection pool, advisory lock | three-step starts; a post inside a transaction needs a second connection |
| Withdrawals (`wallet/withdraw-*.ts`, `risk/risk.service.ts`) | intents, PINs, recovery codes, step-up challenges, reviews, audits | verify, set PIN, reset PIN, create, decide | KYC, risk, audit | token consumed before the insert; cap read before it is used |
| Reconciliation, circuit, kill switch (`ledger/ledger.recon.service.ts`, `risk/`, `kill-switch/`) | circuit state, flags | reconcile, open, close | ledger, all guards | non-atomic reads that look like drift |
| Disputes, profit merge (`wallet/deposit-dispute.service.ts`, `wallet/profit-merge.service.ts`) | dispute rows | credit, reject; merge | ledger | the shape of KRW deposits |
| Event bus (`events/in-process.bus.ts`) | listeners | `emit` | fan-out, missions, level, caches | async listeners are not awaited |
| Pricing, policy, auth, compliance, CMS, inbox, AI and market services, workers | catalogs, sessions, content | — | read by the above | environment of the models |

What makes each correct:

- *Ledger*: no user bucket below zero, balances equal the sum of entries, one
  journal per key for ever, a truthful answer to every call, no deadlock, and
  every journal announced as long as nothing fails and the backlog fits one drain.
- *USDT deposits and sweeper*: nothing is called credited or swept without a
  journal and enough confirmations, a posted credit reaches its row, a credited
  row is not taken back, nothing is moved on chain before its credit.
- *KRW deposits*: no two active requests share a payable amount, the first
  decision stands, an approval is backed by a journal, and an answer proves what
  a caller may conclude from it (less than its word says, see section 6).
- *Trades*: rows never say more than the books, outcomes stand, locked capital
  belongs to a trade or to a call about to open one, posts are ones the ledger
  accepts, a paid trade reaches an outcome.
- *Promotion pool*: nothing is called released without a journal, nothing is
  reversed that was not paid, payouts go first in first out, overlapping payers
  overdraw the pool by a bounded amount, and work half done has a call at it.
- *Mining*: the periods of a position tile its life, an unpaid settlement is
  never passed, the locked bucket is accounted for by the principal and the
  journals whose row is missing, every call ends.
- *Withdrawals*: one proof authorises one thing, a decision someone was told of
  stands, its key has an audit event, and in the hours the cap counts at all it is
  exceeded only by calls that were past its check at once.

The hazards are listed one by one, at their lines, in `PROJECT.json`.

## 2. Modules

| Module | Models |
|---|---|
| `JournalPayload` | what a post asks for, when it is well formed, what it does to a balance |
| `LedgerAtomic` | what the ledger promises: one atomic post per key, delivery before publication |
| `Ledger` | `postJournal` and `drain` statement by statement; implements `LedgerAtomic` |
| `UsdtDeposit` | `observe`, reorgs and sweeper ticks over the deposit rows |
| `KrwDeposit` | create, list, approve, reject and expiry over the request rows |
| `Trade` | `participate` and `executeTick`; its posts refine `LedgerAtomic` |
| `PromoPool` | mission accruals, the referral ladder, its payout queue and clawbacks, over one pool |
| `Mining` | positions, changes and settlements under the advisory lock, over a pool of connections |
| `Withdraw` | step-up challenges, PIN and recovery codes, intents, the daily cap, reviews |
| `SumLemmas` | nothing: lemmas on sums over finite sets, which four of the proofs use |
| `MC` and the name of a module | its instance for TLC |
| the name of a module and `_proofs` | theorems about it |

`JournalPayload` is extended by `LedgerAtomic` and `Ledger`. `Ledger` instantiates
`LedgerAtomic` with the identity on the tables it shares. `Trade` instantiates
`LedgerAtomic` with a *book* computed from its state: the journals of each
trade's lock, unlock and settlement, and the four balances they add up to. The
deposit modules use a post as one step, which the refinement of the ledger
justifies: their keys are their own, their lines credit, so a post can neither
conflict (except by the rate, which `KrwDeposit` models) nor be refused.
`PromoPool` and `Mining` take a post as one step likewise; there a post may also
be refused (`PostFails`, `Unreversed`, `Fails`). `Withdraw` has none: the code
does not post a withdrawal yet.

### Ledger

A caller is one `postJournal` in flight. `pc` follows the code: `lookup`
(line 70; `AnswerFromExisting`, `Reject`, `StartLocking`), `lock`
(`LockNext`, one account at a time in ascending order, reading the balance
under the lock), `commit` (the balance test of line 103 or `Insufficient`;
`InsertJournal` or, when the index has the key, `InsertDuplicate`, which leads
to `readback`; then `Commit`), `select` and `drain` (`DrainSelect`, `Emit`,
`MarkPublished`, `MarkFailed`). `claim` is the entry an open transaction has in
the unique index: a second INSERT of that key waits for it, as Postgres does.
`Fault` is a lost connection or a crash: the transaction is rolled back, or,
after COMMIT, the call just dies. A payload is a type and one signed line per
account; currencies, memos and metadata are left out. `legacy` journals, stored
before fingerprints, match any payload.

### UsdtDeposit

`observe` is `Find` (line 98), `Upsert`, and then what the stage decides:
`MarkUiConfirmed`, `PostCredit` followed by `LinkCredit`, or `VoidReorg`. The
stage is decided from the row the upsert returned, not from the row as it is
when the next statement runs; that gap is the model's subject. A tick of the
sweeper is `ReadConfig`, `GuardBlocks` or `SelectBatch`, and per row `Execute`
and `MarkSwept`, or `ExecuteFails`; `EndTick` ends it. The administrator toggles
the pause (`SetPaused`), the treasury's TRX moves (`SetTrxLow`), the grace
period ends (`GraceElapses`).

### KrwDeposit

Every handler begins with `expireStale` (`Begin`). Creating inserts a row with a
payable amount no active request has (`InsertRequest`) or gives up
(`InsertNothing`). Approving reads the row, posts, and updates the row under a
status guard (`ReadForApproval`, `MarkExpired`, `PostCredit`, `Approve`);
rejecting reads and updates (`ReadForRejection`, `Reject`). `CaptureRate` is a
new FX snapshot: a retried approval computes another amount and meets a
fingerprint conflict. The `found` of a call is history: the status of its row
when the call began, by which `AnswersAreTrue` tells a decision that came before
an answer's call from one that came during it.

### Trade

`participate` is its checks (`Admit`, or `Refuse` for any of its refusals), the
lock post (`PostLock`) and the transaction (`OpenTrade`). `executeTick` reads
row, clock and rules in `Evaluate`; then `PostSettlement` and `Succeed`, or
`Requeue`, or `PostUnlock` and `Stop`. What the rules read besides (price,
policy, circuit, risk) is the environment: any verdict `evaluateExecution` can
give for the trade's age and rematch count may come. `Verdicts` keeps one code
for each way on, since codes that lead to the same statements differ only in a
label. The user's locked bucket starts with `Pledged`, capital of mining
positions, because the bucket is shared and the ledger tests only its sum.

### PromoPool

A reward is a mission accrual or a payout, a pair of a referral edge and a
level. `tryRelease` is `ReadAccrual`, then `Halted`, `SkipBlocked` or
`CheckPool`, `MarkPosting`, `PostAccrual`, `Release`; a post that throws is
`PostFails`, which puts the row back. The ladder is `QualifyingDeposit` or
`MatchSuccess`, `Climb` (the level is recorded on the edge), `Enqueue` and, if
the pool is short, `Park`. A drain is `Select` and, per row in the order of
`enqueued_at`, `Funds`, `PostPayout`, `Stamp`, `Promote`; `TopUp`,
`ReleaseDueHolds` and `AdminRelease` (`Waive`, `Reopen`) lead to one. A clawback
is `Clawback`, `Lookup`, `Reverse` or `Unreversed`, `Strike`, `CloseEdge`.
Guards and writes are the code's: an UPDATE by id writes whatever the row has
become, one with a status in its WHERE tests it in the same step.

### Mining

`Free` counts the connections of the pool: a call holds one from `Begin`, waits
on it for the advisory lock (`Lock`), and needs another for each statement
(`At`); inside an inner transaction it holds two, and a post needs a third. A
connection that does not come free in five seconds is an error, `Fails`, which
goes where the code's handler goes: a settlement is marked FAILED
(`MarkFailed`), the daily job continues with its next position, any other call
ends and its open transaction is rolled back. A start is `InsertPosition`,
`LockFunds`, `Activate`. Settling is `ReadLatest`, possibly `Check` after an
unfinished period was processed, `OpenPeriod`, `Attempt`, `Calculate`, `Credit`,
`Stamp`. A change settles first, then is `OpenChange` (row lock, lookup of the
request, tests), `PostChange`, `DrainChange`, `ApplyChange`: after the COMMIT of a
new journal its publication selects on a connection taken from the pool anew, and
when that one does not come the inner transaction is rolled back and the journal
stands. Time is counted in ticks and a
window's profit is nothing or something; the row lock of `OpenChange` needs no
state, since the advisory lock already excludes the other writers.

### Withdraw

A challenge is created, verified and spent. `verifyChallenge` is
`ReadChallenge`, then by method `ProvePin` or `UseCode`, then `Verify`; the token
it issues is what `Spend` consumes with a guarded UPDATE, on the way to `SetPin`
or `Insert`. A withdrawal is `CheckCap`, `Lookup`, `Spend`, `Insert`. A review is
`ReadIntent`, `WriteAudit` (which says "applied" before it is, and inserts nothing
under a key that has an event) and the guarded `Decide`; two reviews may come with
one key. `together` is history: the most calls that were at once past the cap and
had not inserted. An administrator's reset is `FindAudit`, `DeletePin`, `MarkPin`,
`InsertAudit`. `UtcDate` and `SeoulDate` give the date of each tick in the two
time zones the cap compares.

## 3. Runs

| Run | Instance | Shows |
|---|---|---|
| `ledger` | 3 callers, 2 keys, 4 payloads (deposit, lock, unbalanced, practice), 4 accounts, 3 posts, 1 fault, symmetry of callers | `TypeOK`, `BucketsNeverNegative`, `BalancesMatchJournals`, `TrialBalance`, `AnswersMatchJournals`, `OutboxFollowsJournals`, `JournalsAreFinal`, `ImplementsLedgerAtomic`; deadlock is checked |
| `ledger_live` | 3 callers, 3 keys and a legacy one, 2 payloads, 3 posts, drains of 2 rows, no fault, callers and keys taken in turn | `EveryCallAnswers`, `CommittedIsPublished` |
| `ledger_replay` | 2 callers, no fault | **violation** of `ReplayIsNotInsufficient` |
| `usdt_deposit` | 1 deposit, 2 observers, 2 sweepers, 3 observations, 2 ticks, 1 admin change, 1 fault | `TypeOK`, `CreditedRowsAreBacked`, `SweptOnlyWhenCredited`, `CreditReachesRow`, `CreditedGoesOnlyToSwept`, `DeepReportIsCredited` |
| `usdt_sweep_twice` | 1 observer, 1 sweeper, no fault | **violation** of `SweptAtMostOnce` |
| `krw_deposit` | 2 requests with overlapping amounts, 2 rates, 2 callers, 5 calls, 1 fault | `TypeOK`, `AnswersAreTrue`, `ApprovedIsCredited`, `DecisionIsFinal` |
| `krw_reject_race` | 1 request, 2 callers, 3 calls, no fault | **violation** of `RejectedIsUncredited` |
| `trade` | 2 trades of capital 1 and 2 from a principal of 2, 1 pledged, cap 1, bonus 1, payouts 1 and 2, 2 callers, 4 calls, 1 fault | `TypeOK`, `RowsFollowJournals`, `LockReachesTrade`, `OutcomesAreFinal`, `SettlementReachesRow`, `PostsThroughLedger` |
| `trade_stop_race` | 1 trade, 2 callers, 3 calls, no fault | **violation** of `StoppedIsNotCredited` |
| `promo_pool` | 2 accruals (one with a hold) and an edge with both payouts, amounts 2, 2, 2 and 1, a pool of 2, 2 callers, 5 calls, 1 fault, symmetry of callers | `TypeOK`, `RowsFollowJournals`, `PoolOverdraftBounded`, `DrainIsFifo`, `HalfDoneHasItsCall` |
| `mining` | 1 position of 1, changes by 2 up to 3, 1 key, a pool of 3 connections, 2 callers, 4 calls, times 0 to 2 with midnights at 0 and 1, 1 fault | `TypeOK`, `PeriodsTile`, `PaidBeforeGoingOn`, `LockedAddsUp`, `CallsEnd` |
| `withdraw` | 2 challenges, 1 recovery code, 2 keys, withdrawals of principal 0, 1 and 2 against a cap of 1, 2 idempotency keys of administrators, 2 callers, 5 calls, times 0 and 1 across a change of date, symmetry of challenges, keys, administrators' keys and callers | `TypeOK`, `AuthorisedOnce`, `DecisionsStand`, `CapBounded` |

Bounds. `MaxCalls`, `MaxObserves`, `MaxTicks`, `MaxAdmin` and `MaxFaults` bound
a behaviour, not the code; each guard that uses one names it. Three posts are
enough for a post, a concurrent duplicate and a third party that moves the
balance between them; three observations for a report, a reorg and a report
again; two ticks for an overlap; five KRW calls for two creations and three
decisions; four trade calls for a participation and two or three ticks that
race, or two participations and a tick each. One fault suffices for each
property that speaks of faults, because it stops at the first. Account 1 is the
user's principal and opens at 1, so that the second of two locks overdraws.
Five promotion calls let two rewards be created and then released, drained and
clawed back against each other with a pool that pays for one of them; four
mining calls let a start be followed by a change, a settlement and a retry, two
at a time, over two periods. One call at
work and one that waits for the lock already take the pool of three to its
limit: with them the post inside a transaction finds no connection. A third
caller would only add that no statement finds one, which `Fails` covers. Five
withdrawal calls let two challenges be verified and two tokens be spent against
each other or the retry of one, or an intent be reviewed twice. `MaxPrincipal`,
`MaxTime` and `MaxCalls` are named where they are used.
`UiConf` 1 and `LedgerConf` 2 stand for 1 and 19: the code only compares.
`MaxRematch` 1 is the most the code's count reaches (line 408 of
`trades/trades.execution.service.ts` adds one only on leaving `running`).
Runs other than `ledger` and those without bounds on calls end when the bound is
reached, hence `CHECK_DEADLOCK FALSE`; in `ledger` the end is the action `Done`,
and any other stop is an error. Symmetry (of callers; in `withdraw` also of challenges,
keys and administrators' keys) is used only where no liveness is checked.
`ledger_live` checks liveness, and instead of symmetry has the action constraint
`InTurn`: the n-th call is the n-th caller's and takes one of the first n keys,
the last also the legacy one, the first is a deposit and the others are locks.
Callers and keys do not differ, so the first two only fix their names; the last
is a bound, chosen so that the locks wait for a row and overdraw or not. A drain
takes two rows there: three committed posts can have more than that waiting,
which is where drains leave rows behind, and two cannot.

Fairness. `WF` of the steps of a call that has started: Node runs a started
handler on, and Postgres grants a lock that is free. No call is assumed to
start, to be retried or to be polled, and no fault to stay away: liveness
properties say "or a fault happened" where the code needs a retry to recover.
`CommittedIsPublished` is checked without faults because after one, nothing in
the code drains the outbox until some later post. It has the premise that no more
rows ever wait than one drain takes: beyond that the drains of concurrent posts
may select the same oldest rows and end, and nothing takes the others. In `Mining` the fairness is of
a call's `Step`, which includes `Fails`: a statement is served, or its timeout
passes. `CallsEnd` rests on that timeout, as the mutant `FailsServed` shows: if a
call waited for a connection as long as it takes, two calls could stand still
for ever. `PromoPool` and `Withdraw` state no fairness: what is not finished
there waits for a call that nobody in the repository is bound to make.

## 4. What the violations show

- `ledger_replay`: a retry whose lookup precedes its first attempt's COMMIT is
  told INSUFFICIENT_BALANCE for a post that succeeded.
- `usdt_sweep_twice`: a deep report of a *swept* deposit makes it
  `ledger_credited` again, and the sweeper transfers it again.
- `krw_reject_race`: a rejection between an approval's post and its UPDATE
  leaves a rejected request credited, and the approval answers "approved".
- `trade_stop_race`: of two ticks one unlocks and stops, the other settles; the
  trade is `safe_stop`, its profit is paid and its capital returned twice, the
  second time out of capital locked for other positions.

Each is quoted against the document it contradicts in `PROJECT.json`.

## 5. Theorems

All are proved by TLAPS for every value of the constants, from the named
assumptions of each module. Every proof has the same plan: `IInv` is a
conjunction of named parts; one lemma shows `Init => IInv`; one lemma per action
(or, in `Ledger_proofs`, per conjunct) shows that a step keeps it; `Invariance`
combines them; the properties follow.

- `SumLemmas` — what `SumFunctionOnSet(f, S)` of the community modules is for
  a finite `S`. Its definition is a `CHOOSE` over recursive functions, and
  tlapm cannot instantiate an induction principle; the proofs take a smallest
  counterexample instead, which exists because strict inclusion is well founded
  on the subsets of a finite set. From that: the recursion has a solution and
  only one (`SumExists`, `SumUnique`), any element can be peeled off
  (`SumPeel`, `SumAdd`), the sum is an integer, additive and monotone, and a
  change at one element changes it by the difference (`SumUpdate`). By the same
  argument finitely many naturals have a least and a greatest (`Extremes`).
- `Ledger_proofs` — `TypeCorrect`, `NoOverdraft`, `HonestAnswers`,
  `OutboxClauses`, `BooksMatch`, `TrialBalances`, `FinalJournals`, `Refinement`,
  `NoDeadlock`. `BucketsNeverNegative` is not
  inductive: what makes the test of line 103 still true at COMMIT is that a
  balance a call has read does not change while it holds the row's lock
  (`LockedIsFresh`), that a key it holds open in the index is still fresh
  (`CommitIsReady`), and that only well-formed payloads get so far
  (`LockingIsWellformed`). The refinement maps `Commit` to `LedgerAtomic!Post`,
  `Emit` to `Deliver`, `MarkPublished` to `Publish` and all else to a stutter;
  it needs `DrainHandlesOutbox` for the guards of the last two.
  `BooksMatch` and `TrialBalances` are about sums: a COMMIT adds one journal
  under a fresh key to a finite set (`FinitelyPosted`), so every balance moves
  by that journal's line, and the total over the accounts by the sum of its
  lines, which `assertBalanced` made zero.
  `NoDeadlock` is `SomeCallGoesOn`: while calls are in flight, one has the row,
  the key or the journal its next statement needs. Its strengthening
  `WaitsAreOrdered` says that a call holds rows before all it still wants
  (`LocksAscend`, the work of `ORDER BY id ASC`) and that a key is held open by
  a call about to commit (`ClaimsCommit`); then the call that holds the last of
  the awaited rows awaits none. It is the safety half of `EveryCallAnswers`; on
  the instance of `ledger`, TLC's deadlock check covers it.
- `UsdtDeposit_proofs` — `TypeCorrect`, `CreditBacked`, `NoEarlySweep`,
  `CreditLinked`, `CreditFinal`. The strengthening says what a call at `post` or
  `link` was told (`CreditsAreDeep`), that it posted before it links
  (`LinksFollowPosts`), and that a batch holds booked rows only
  (`BatchesAreCredited`).
- `KrwDeposit_proofs` — `TypeCorrect`, `DistinctPayables` (no two active
  requests share a payable amount; proved, and no longer checked by a run),
  `TrueAnswers`, `CreditedApprovals`, `FinalDecisions`. The strengthening is
  `ApprovalFollowsPost`, that a call stands only at statements of its kind and its
  row exists there (`CallsInOrder`), and that a row which a call found decided has
  that status still and is not about to be credited by it (`FoundStands`); the rest
  is that no step undoes a decision or a credit.
- `Trade_proofs` — `TypeCorrect`, `BookedRows`, `LocksReachTrades`,
  `FinalOutcomes`, `Posts`, `BucketsNonNegative`. The strengthening is
  `CallsAreBooked`: a call that stands before its row update has its journal in
  the books, and books only grow. `Posts` is the refinement of `LedgerAtomic`:
  each of the three posts adds one entry to the book and one term to the sums
  that are the user's buckets (`LockEntry` and its like, `TotalAdd`,
  `ProfitAdd`), hence is `Ledger!Post` (`LineIsPost`); every other step leaves
  book and balances alone. With it goes `BucketsHold`, that principal, locked
  and profit are never negative, because each post looks at the one it takes
  from.
- `PromoPool_proofs` — `TypeCorrect`, `PaidBeforeReleased`, `OverdraftBounded`,
  `DrainsInOrder`, `HalfDoneIsFinished`. `CallsKnow` says what a call has posted
  and selected by the step at which it stands; `LevelsAreBacked` and
  `PostingHasItsCall` that half-done work has its call. `FundsReserved` is the
  argument for the overdraft: of the calls that have tested the pool and not
  posted yet, one, the last to test, still leaves room for all but the others,
  so that each of them takes the pool down by at most `MaxAmount`. It is a
  statement about cardinalities and holds for any number of calls.
- `Mining_proofs` — `TypeCorrect`, `PeriodsTiled`, `PaidBeforeNext`,
  `LockedIsAccountedFor`. Everything rests on `Exclusive`: past the advisory
  lock there is one call, so what it read stays true until it writes
  (`CallsKnow`, from `PeriodKnown` and `RequestKnown`). `RowsSound` relates
  status, accruals and payment of a settlement, `CallsFit` a call's kind and the
  step it is at. `BooksKept` is `LockedAddsUp` and that its sum is finite: a
  step posts under a key without a journal, which adds a term to the sum, or
  writes the row of one that has it, which moves the term into the principal.
- `Withdraw_proofs` — `TypeCorrect`, `OneProofOneUse`, `ToldDecisionsStand`,
  `DailyCap`. The
  strengthening is `TokensHeldOnce`, that no two calls stand between the guarded
  UPDATE that spends a token and the write it authorises with the same token,
  and `CallsKnow`, that a call standing there has a spent token, one at `verify`
  its recovery code, and one at `decide` a key with an audit event (`Logged`).
  `DailyCap` has an
  invariant of its own, `CapIInv`: of the calls that have passed the check and
  not inserted yet, one, the last to pass, fits together with what the cap
  counts for today and leaves a cap for each of the others that `together` counts
  (`Fits`); `together` only grows (`TogetherGrows`). A day that has passed
  gains nothing any more, since Seoul's date only grows.

The assumptions are what the code and its database give: tables have finitely
many rows (`Account`, `Trade`), the accounts of each kind are distinct, opening
balances of user buckets are not negative, a trade's capital and a settlement's
payout are positive, dates do not go back. TLC evaluates each on its instance.

Only model-checked: the liveness properties (`EveryCallAnswers`,
`CommittedIsPublished`, `DeepReportIsCredited`, `SettlementReachesRow`,
`CallsEnd`), which TLAPS cannot prove, and the four violations. Every invariant
and every action property of the passing runs, and both refinements, are
theorems. tlapm's Zenon backend was seen to accept false goals of the
form `X \subseteq A \cap B`; no proof here has a step of that form.

## 6. Abstractions

- A USDT amount is a small integer; numeric(36,18) arithmetic, formatting and
  rounding are left out. Nothing modelled divides or rounds.
- Postgres is READ COMMITTED (`db/postgres.ts` issues a plain BEGIN): each
  statement sees the committed state, an UPDATE with a WHERE is one step, a
  unique index makes the second writer wait and then fail.
- The connection pool (max 3) is a counter in `Mining`, where a call holds up to
  three connections; in the other modules, where a call holds one at a time,
  waiting for a connection is not a step, and a timeout is a fault or `Fails`.
- Listeners of the event bus are not modelled; delivery ends at `emit`.
- One user's trades are modelled. Users share no bucket; the opportunity pool
  they share may go below zero in the code as in the model.
- Deletion of rows, manual SQL and migrations are outside the models.

- `PromoPool`: rewards carry money and are enabled; coupons and other rewards
  are left out. `FOR UPDATE SKIP LOCKED` in a statement of its own selects all
  eligible rows here: a row that another statement happens to lock would be
  skipped, and found by the next drain. The lookup and INSERT of `enqueue`, with
  the reading of the pool, are one step. `releaseDue`, `releaseDueHolds` and the
  wash rule have no caller in the repository; the first two are modelled as the
  cron job their comments speak of, at no particular time.
- `Mining`: whether balances, limits, the mine's status, the kill switch or the
  rates let a call go on is the environment (`Fails`), which may refuse at any
  statement. A window's profit is nothing or something. Losing the connection
  that holds the advisory lock is not modelled. The order in which Postgres
  grants the lock is arbitrary.
- `Withdraw`: one user, restricted (the cap applies to no other); whether a proof
  is right, a challenge or token is fresh, the PIN is locked by wrong attempts,
  KYC, balance, minimum holding and fee let a call go on is the environment
  (`Fails`). An administrator's idempotency key is a member of `Request`, which any
  reviews may share; that other kinds of administrative actions log under the
  same unique index is left out, and would only drop more events. Reading
  again after a lost unique key or UPDATE is part of the step, since the row is
  final by then in what the answer depends on.

What the models show of the code besides the properties, and the properties
therefore do not exclude:

- `PromoPool`: a clawback that cancels a row which a drain has selected does not
  stop it: the row is paid and released. The other way round, a row released
  meanwhile is overwritten with `clawed_back` without a reversal. An accrual of a
  user found blocked is overwritten with `skipped`, released or not. Two
  clawbacks under different keys reverse twice. A crash at `posting` strands the
  accrual, one between edge and queue loses the payout. The pool may go negative.
- `Ledger`: when more than 20 rows of the outbox wait, the drains of concurrent
  posts may all take the same 20 and leave the others to a later post, without
  any fault. A call may answer an error for a post that stands.
- `KrwDeposit`: an approval answers "approved" although a rejection or an expiry
  won the row while it was under way, and 409 for a request it has credited when
  the rate has moved.
- `Mining`: when a change's journal is committed and its publication then finds no
  connection, since a call queued for the advisory lock took the one that COMMIT
  released, the call fails and the journal stands without its row until the same
  key retries; no fault is needed. A lost commit or a crash does the same. A
  request under another key posts again, so that two decreases may unlock what
  one takes off the principal. The first replay of `end` settles the sliver up to the
  end; the next opens a period with no segments, which fails for ever. A
  settlement without profit that failed after its accruals were written stays
  FAILED and blocks every change of its position.
- `Withdraw`: a token or a recovery code is burnt by a failure after the UPDATE
  that uses it. Two requests of one key and one token may answer one of them
  with STEP_UP_TOKEN_REPLAYED. The cap is tested before the idempotency lookup,
  so that a replay may be refused. An audit may say "applied" for a decision that
  lost, and a decision under a key used before has no event of its own: the event
  is the earlier request's. Two resets of a PIN may overlap, and a retried one wipe a
  PIN set meanwhile. A withdrawal made between 00:00 and 09:00 in Seoul counts on no day, so
  what is withdrawn in those hours has no bound.

## 7. Not modelled

- Reconciliation, the money circuit and the kill switch: the modules above take
  "refused" as one of a call's outcomes, so what they decide is covered; whether
  they decide rightly (reads by separate statements that look like drift) is not.
- Admin corrections and deposit disputes: the post-then-update pattern of
  `KrwDeposit`, without a second one worth a module of its own yet.
- The watcher's cursor, listeners of the event bus and the mission evaluator:
  they produce the calls that are modelled, in any order and number.
- Mining rates, referral binding, WebAuthn keys, the counter of wrong PINs.
- Catalogs, pricing, execution policy, membership, auth, CMS, inbox, the Rust
  engine, AI and market services, workers, tooling and generated evidence hold
  no money state; what the modelled code reads of them is its environment. They
  are most of the repository's lines.

## 8. Plan

Done, in the order of importance: the ledger and its abstract specification,
USDT deposits with the sweeper, KRW deposits, trades over the ledger, the
promotion pool, mining over its connection pool, withdrawals, and the proofs of
each.

What is left, each with its MC module, run and, where named, theorems:

1. `Reconciliation`: statement-level reads against concurrent posts, the circuit
   they open, and an abstract circuit that refuses new trades.
2. Disputes and the two-journal admin correction, with a lemma on
   post-then-update that `KrwDeposit` would share.
3. Mining rates becoming due, and the calculation of a settlement as a function
   of them. The run of `Mining` has one position: with two, on one plot or on
   two, the safety properties hold as well (390 and 850 thousand states), but
   checking `CallsEnd` takes minutes; a run of its own would keep them.
4. The ledger of `PromoPool` and `Mining` mapped to `LedgerAtomic`, as `Trade`'s is.
