# CryptoTressure in TLA+

CryptoTressure (Bluemines) is a NestJS service over PostgreSQL: users deposit
money through a payment gateway, rent "machines" that pay a daily reward,
refer each other for commissions and levels, and withdraw. This directory
holds TLA+ models of that service, TLC configurations that check them on
small instances, and proofs that TLAPS checks for all instances.

The code has one automated test, the framework's "Hello World" (`test/`), so
what it should do is taken from its guards, error messages, comments and
notifications.

What makes it hard is the same everywhere: a handler awaits the database many
times, and between two awaits any other handler, cron job or timer runs.
Checks are usually made on rows read *before* the transaction that acts on
them (PostgreSQL's default READ COMMITTED; no explicit locks, no version
columns, no conditional updates); wallet columns are written by increments,
which are safe, and everything else by assignments, which are not.

## Inventory

| Component | State | Operations | Interacts with | Hard behaviours | What makes it correct | Status |
|---|---|---|---|---|---|---|
| Wallets (`schema.prisma`) | `balance`, `reserved` per user | increments | every component | overlapping writers | every cent has a cause | `Wallets` |
| Withdrawals (`withdraw/`) | `Withdraw` rows | `request`, `approve`, `reject`, hourly auto-flag job | wallet | two operators, job against operator, rollback | funds conserved, settled once, never overdrawn, `reserved` explained, every request answered | `Withdrawals` |
| Deposits (`deposit/`) | `Deposit`, `Transaction`, `Bonus`, `Commission` rows, `User.firstDepositBonus` | `initDeposit`, `handleIPN`, `adminDepositService` | wallet, referrer's wallet, levels | repeated and overlapping webhook calls, failures half-way | credited once, one first bonus, one commission, all rewards given | `Deposits` |
| Levels (`level/`) | `User.level` | `evaluateUserLevel`; CRUD of the `Level` table | deposits, referrals, purchase points | read, then write; two writers of one column | scan grants the highest level; level earned and granted | `LevelRules`, in `Deposits` and `Accounts`, without the CRUD |
| Machines (`product/buyProduct`) | `UserProduct`, `Sale` rows | purchase | wallets, trial fund, points, level | reads before the transaction | never overdrawn, every cent explained, level follows points | `Machines` |
| Trial funds (`trial-fund.service.ts`) | `TrialFund`, an in-process timer | `scheduleRecovery`, `recover` | machines, rewards, wallet | timer lost at restart, overlap with the expiry job | machines refunded once, `usedAmount` explained | `Machines` |
| Expiry job (`jobs/`) | – | `handleExpiredMachines` | as above | overlapping runs (debug trigger), batch per user | as above; every expired machine ended | `Machines` |
| Daily rewards (`jobs/`, `reward/`) | `Reward`, `Bonus` rows | `handleDailyRewards`, `distributeTeamBonus`, `userReward` | wallets of a user and three referrers | aborted in the middle of the list, repeated runs | reward, row and team bonus together | `Machines`; `userReward` in `Books` |
| Accounts (`auth/`, `user/`) | `Verification`, `User`, `Referral`, `PasswordReset` | `sendEmail`, `signup`, `requestPasswordReset`, `resetPassword`, `updateUser`, suspension | referrals, levels, the connection pool | codes checked before they are used, evaluations on other connections of an open transaction, time limit | referrals never form a cycle, ids and codes are never given twice, a used code is dead, levels are earned, every request is answered | `Accounts`, without suspension |
| Referrals (`referral/`, `level/`, `bonus/`) | `Referral` | trees, team counts, summaries | signup | three ways to count a team | they agree | `Referrals` |
| Catalogue (`product/` admin) | `Product` rows, image files | create, update, delete | purchases | check, then write; file removed before the row is written | checks fail in races only; a product on sale has its picture | `Catalogue` |
| Wallet and dashboard views (`wallet/`, `dashboard/`) | – | sums for display; monthly series | all money rows | counted twice, or by different conditions | reports of one figure agree and explain the wallets | `Books`, without the series |
| Lists | – | pages | all rows | rows come, move and go between two pages; two lists have no order | nothing skipped that stayed | `Listings` |
| Notifications, agreements, Easypaisa client, infrastructure | – | best-effort messages, text CRUD, framework wiring | – | – | – | not modelled |

`PROJECT.json` lists the components with their source files, the hazards line
by line, and which property covers which hazard.

## Modules

| Module | Models | Role |
|---|---|---|
| `Wallets` | the `Wallet` row, `increment`/`decrement`, rounding to cents | used by all |
| `WithdrawalContract` | what withdrawals promise: a claim is opened on available money and settled once | abstract specification |
| `Withdrawals` | `withdraw.service.ts`, `withdraw.job.ts` | detailed specification, implements the contract |
| `MCWithdrawals`, `wd_*.cfg` | instances | TLC |
| `Withdrawals_proofs` | theorems | TLAPS |
| `LevelRules` | the level matrix and its scan | operators |
| `LevelRules_proofs` | the scan is total and monotone | TLAPS |
| `Deposits` | `deposit.service.ts` with `evaluateUserLevel` | detailed specification |
| `MCDeposits`, `dep_*.cfg` | instances | TLC |
| `Deposits_proofs` | theorems | TLAPS |
| `Machines` | `product.service.ts` (`buyProduct`), `trial-fund.service.ts`, `jobs.service.ts`, `points.ts` | detailed specification |
| `MCMachines`, `mach_*.cfg` | instances | TLC |
| `Machines_proofs` | theorems | TLAPS |
| `Referrals` | the questions asked of the `Referral` table | operators |
| `Accounts` | `auth.service.ts`, with the evaluations, points and address changes that write to a user's row | detailed specification |
| `MCAccounts`, `accounts.cfg`, `accounts_live.cfg` | instances | TLC |
| `Accounts_proofs` | theorems | TLAPS |
| `Catalogue` | the administrator's side of `product.service.ts`, against purchases | detailed specification |
| `MCCatalogue`, `catalogue.cfg` | instance | TLC |
| `Catalogue_proofs` | theorems | TLAPS |
| `Sums_proofs` | the laws of `SumFunctionOnSet`, in which all accounts are stated | TLAPS |
| `Books` | the sums of `wallet.service.ts`, `dashboard.service.ts`, `referral.service.ts`, and the operations that fill the tables | operators |
| `Listings` | eleven paginated lists | operators |
| `Rules` | three questions about `LevelRules`, `Books` and `Listings`, each with a sample that grows | specification |
| `MCRules`, `rules.cfg` | an instance | TLC |
| `Rules_proofs` | theorems | TLAPS |

Some operators are followed or preceded by a variant that nothing uses
(`AnyRow` beside `Pending`, `KnownId` beside `Known`). These are the
mistakes the properties are meant to catch: `PROJECT.json` lists, for every
property of every passing run, the operator that is exchanged for its variant
and the run in which TLC must then find the property violated.

### How a handler becomes actions

Every handler is cut where the outcome can depend on what others do between
two awaits. A read whose result is used later is an action that keeps what it
read (`RequestRead`, `EvalReadUser`). A transaction is one action if its
statements do not depend on rows it reads (`RequestCommit`); where it reads
under a lock it has taken, the lock is modelled and the transaction is two
actions (`IpnCredit` takes the wallet row and reads `firstDepositBonus`,
`IpnCommit` makes everything visible). Statements outside a transaction are
actions of their own (`IpnCommission`, `IpnPayReferrer`, `IpnReferralBonus`).
A failing statement rolls back the transaction it is in and ends the handler,
what was committed before stays (`Rollback`, `IpnFailure`, `IpnUnfit`); a
stopping server ends all handlers at once (`Crash`).

### Withdrawals

| Variable | Code |
|---|---|
| `wallet`, `row` | tables `Wallet`, `Withdraw` |
| `aged` | rows whose `createdAt` is 36 hours back |
| `call[p]` | a handler in flight, with the `dto` or the `wd` it has read |
| `job` | the rows `WithdrawAutoFlagJob.handle` has found and not yet updated |
| `payouts`, `returns`, `disbursed` | history: how often a row was paid and returned, what left the wallet |
| `raced`, `rushed` | history: rows that two handlers, or one and the job, held at once; users two of whose requests were in flight at once |

| Action | Code (`withdraw.service.ts`, `withdraw.job.ts`) |
|---|---|
| `RequestRead`, `RequestCommit` | `request` up to its balance check; its transaction |
| `ApproveRead`, `ApproveCommit` | `approve` up to its checks; its transaction |
| `RejectRead`, `RejectCommit` | `reject`, likewise |
| `FlagRead`, `FlagCommit` | the job's `findMany`; its `updateMany` |
| `Age`, `Rollback`, `Crash` | time, a failed transaction, a stopped server |

History variables are read by properties only. `Overlap` says how the service
is used. With `TRUE` nothing keeps handlers apart, as in the code. What the code
then does not prevent is said by the histories: a withdrawal is settled twice
only if it is in `raced`, a balance goes below zero only for a user in `rushed`,
and both are properties of all behaviours. With `FALSE` at most one handler is
at work for a user, and the service implements `WithdrawalContract`: the sum of
a claim is amount plus fee, what is available is `balance`, a claim is returned
by `reject`, paid by `approve` and frozen by the job.

### Deposits

| Variable | Code |
|---|---|
| `wallet`, `deposit` | tables `Wallet`, `Deposit` (without the `BONUS` rows) |
| `user` | `User.firstDepositBonus`, `User.level` |
| `entries[d]` | how many `Transaction`, `BONUS` deposit, `Commission` and `REFERRAL` bonus rows were written for `d` |
| `gateway[d]` | the outcomes that have been announced for `d`: the webhook's signature is not checked (`deposit.service.ts:105-106`), so they may contradict each other |
| `ipn[h]` | a webhook call in flight: where it is and what it has read (`saw`: `firstDepositBonus`, `seen`: the level, `target`: the level it should be) |
| `twice`, `disturbed` | history: deposits two calls were in flight for at once; users two of whose calls were in flight at once, or one of whose calls failed after it had credited a deposit |

| Action | Code (`deposit.service.ts`, `level.service.ts`) |
|---|---|
| `InitDeposit`, `AdminDeposit` | `initDeposit`, `adminDepositService` |
| `IpnRead` … `IpnReferralBonus` | `handleIPN`, in order |
| `EvalReadUser`, `EvalReadSum`, `EvalWrite` | `evaluateUserLevel` |
| `GatewayDecides`, `LockEnds` | the gateway, the passing of `DEPOSIT_LOCK_DAYS` |
| `IpnFailure`, `IpnUnfit`, `Crash` | a failing statement, `Transaction.amount` being an `Int`, a stopped server |

Calls overlap and fail in every way, also two for one deposit; a property that
needs more says so by the histories, of the deposit or of the user concerned.
Deposits that are still locked count for the level, as in the code, against its
comment (`dep_bug_locked_level`). The referral a deposit's user came by and the
size of teams do not change here (`Referrer`, `TeamOf`); they change at signup.

### Machines

| Variable | Code |
|---|---|
| `wallet`, `user`, `trial`, `machine` | tables `Wallet`, `User` (`points`, `level`), `TrialFund`, `UserProduct` |
| `reward[u][p][r]` | table `Reward`, whose key is user, product and date; the date is the time at which the run `r` started |
| `timer` | trial funds whose recovery is scheduled in this process |
| `past` | what has expired: users, for their trial, and machines, for their rental |
| `buy`, `recovery`, `expiry`, `run` | handlers and jobs in flight with what they have read |
| `clashed`, `rushed`, `met` | history: machines that two recoveries or refunds held at once; users who had two purchases in flight at once; users with any two of purchase, recovery and refund at work at once |

| Action | Code |
|---|---|
| `BuyRead`, `BuySplit`, `BuyCommit` | `buyProduct` up to the wallet; trial fund and checks; transaction with `awardPoints` |
| `RecoverRead`, `RecoverFind`, `RecoverCommit` | the timer and `recover`'s check; its transaction up to `findMany`; the rest |
| `ExpiryStart`, `ExpiryFind`, `ExpiryCommit` | `handleExpiredMachines`: `groupBy`; `findMany` of a user; the rest of that transaction |
| `RewardStart`, `RewardPay`, `RewardClash` | `handleDailyRewards`: `findMany`; a transaction with `distributeTeamBonus`; its insert failing |
| `TrialEnds`, `RentalEnds`, `BuyFails` … `Crash` | the clock; rollbacks; a stopped server, which loses the timers |

A machine that the trial fund paid alone has the fund's `expiresAt`, so it has
expired when its user's trial is in `past`. A job compares with the time it
started at, which is the value `past` had then (`now`). With
`Overlap = TRUE` purchases, recoveries and refunds of one user overlap, as in
the code; `FALSE` keeps them apart, for the liveness run, which would be too
large otherwise. The daily rewards always overlap with everything; one run of
them is at work at a time, although the debug trigger could start a second
(`RewardStart`). Referrals, products and prices do not change here;
they do in `Accounts` and `Catalogue`. `evaluateUserLevel` does not run here:
it may lower a level that points gave (see `Accounts`).

### Accounts

| Variable | Code |
|---|---|
| `members`, `email`, `referrer`, `level`, `points`, `lastId` | table `User` with `Referral`: the committed rows; the sequence of ids |
| `verification`, `reset` | tables `Verification`, `PasswordReset`, by address and user |
| `drawn`, `spent` | codes drawn so far; history: codes that have set a password |
| `req[h]` | a request in flight: what it has read and was sent, and whether it holds an open transaction |
| `climb[h]` | the evaluation it is in: whose level, how far up, what was read |

| Action | Code |
|---|---|
| `SendEmailRead`, `SendEmailWrite` | `sendEmail`: the check of the address; the upsert |
| `SignupRead`, `SignupBegin`, `SignupCreate`, `SignupCommit` | `signup`: the checks; `$transaction` taking a connection; the insert of the user up to the referral; the rest |
| `EvalRead`, `EvalCount`, `EvalWrite` | `evaluateUserLevel`, for up to three users above, on other connections |
| `RequestReset`, `ResetRead`, `ResetCommit` | `requestPasswordReset`; `resetPassword` up to its transaction; its transaction |
| `ChangeEmail`, `Purchase` | `updateUser`; `awardPoints` at the end of a purchase |
| `TimesOut`, `Fails`, `VerificationExpires`, `ResetExpires` | Prisma's limit of five seconds; a failing query or a stopped server; the clock |

A transaction's rows are invisible to others until `SignupCommit` (`Drafts`),
but its unique address makes others wait (`Locked`); ids that are rolled back
are not given again. A signup looks its referrer up in the transaction that has
just inserted its own row (`auth.service.ts:129`); the code of that row is drawn
from the clock at that moment (line 101), and that a client has sent it
beforehand is assumed not to happen: without this, `AccountsInv` fails. What modelling showed, without a run of its own: an
evaluation also lowers levels, so a default user (level 1) goes to level 0
with the first person referred, and is congratulated on it; a new member is
counted only by the next evaluation, as the one that signup starts cannot see
it; `updateUser` keeps `emailVerified` for an address nobody verified; a
`sendEmail` that overlaps a signup leaves a verification row that nobody
deletes. Referral codes are the last nine digits of a clock: two signups in one
millisecond end in a unique-key error, which is `Fails`.

### Catalogue

| Variable | Code |
|---|---|
| `product`, `sold` | table `Product`; products some `UserProduct` row refers to |
| `uploads`, `files` | image files stored so far, and those still there |
| `req[h]` | a request in flight, with the product and the image it has read |
| `spoilt`, `raced`, `clashed` | history: files removed by a request that failed; products bought and deleted at once; titles that were set unchecked or by two at once |

| Action | Code |
|---|---|
| `CreateRead`, `CreateCommit` | `createProduct`: the check of the title; the insert |
| `UpdateRead`, `Unlink`, `UpdateWrite` | `updateProduct`: the read; the removal of the old file; the write |
| `DeleteRead`, `Unlink`, `DeleteWrite` | `deleteProduct`, likewise |
| `BuyRead`, `BuyCommit` | `buyProduct`: the check that the product is not deleted; the machine |
| `Fails` | a failing query or a stopped server |

A refused creation leaves its uploaded file behind; no property speaks of it.

### Reports and lists

`Books` keeps the money tables as one record; `Deposit`, `DailyReward`,
`Request`, `Reject`, `AutoFlag`, `BuyProduct`, `Recover`, `HandleExpired` and so
on map the tables before a call to the tables after it. `GetUserWallet`,
`GetAdminWalletSummary` and the dashboards are sums over them. What a user's
wallet holds, balance and reserved, is then the sum of the deposits,
commissions and rewards that the reports show, the team bonuses, what the user
sold, and the trial fund's part of all machines (reserved with their price and
never released), less what was approved. `teamEarnings` is always 0: it sums
commissions of depth 2 and 3 and only depth 1 is ever paid; team bonuses are in
no report but those of `bonus/`. `Listings` has one operator per list; a list is
a sequence of rows in the order of the query, and a page is the set of those
rows, among the places the condition finds, whose rank is between `skip` and
`skip + take`. `viewAllProducts` and `getReferralListingByAdmin` ask for no
order: their rows lie as the database finds them, and a row that is inserted or
updated may come to lie anywhere (`AddRow`, `UpdateRow`).
`getTeamBonusSummary` and `getTeamBonusLogs` ask for `req.user.sub`, which the
token's user does not have (`jwt.strategy.ts` returns the row, with `id`), so
Prisma drops the condition and they answer for the whole platform; both are
modelled as what they do.

## Runs

| Run | Instance | Shows |
|---|---|---|
| `wd_overlap` | 1 user, 2 withdrawals, 2 handlers, overlap, fair | type, `FundsConserved`, `TotalTellsPayment`, `SettledOnce`, `BalanceNeverNegative`, `EveryRequestIsAnswered` |
| `wd_serial` | 2 users, 3 withdrawals, 2 handlers, no overlap within a user | `ReservedIsExplained`, `ImplementsContract` |
| `dep_races` | 2 users (one referred by the other), 2 deposits, 2 calls, contradictory outcomes, failures | type, `FirstBonusOnce`, `BalanceIsTraceable`, `LevelIsEarned`, `CreditedOnce`, `CommissionOnce`, `RewardsComplete`, `LevelIsGranted` |
| `dep_live` | 1 user, 2 deposits, one amount with cents, 2 calls, failures that end, fair | `PaidIsCredited` |
| `mach_overlap` | 1 user, 2 machines, 2 products, 2 purchases and 2 job runs in flight, overlap, failures | type, `BalanceIsExplained`, `ReservedIsExplained`, `TrialUsageIsExplained`, `TrialMoneyReturned`, `NeverOverdrawn`, `LevelFollowsPoints` |
| `mach_serial` | 2 users (one referred by the other, who was referred by the seller), 2 machines, 2 products, no overlap within a user, failures, fair | `BalanceIsExplained` with the referrers' shares, `ExpiredIsRefunded` |
| `rules` | deposits and teams on and below each threshold; up to four operations on three users' money and machines; up to 4 rows in pages of 1 or 2 | `ScanGrantsTheHighest`, `EarningsAddUp`, `PagesMissNothing` |
| `accounts` | 2 founders, 2 ids to give, 4 addresses, 2 codes, 2 requests, 2 connections, failures and time limits | `AccountsInv`, `LevelIsEarned`, `TeamsAgree`, `CodeDiesWithUse` |
| `accounts_live` | the same without the founders' own requests, fair | `RequestIsAnswered` |
| `catalogue` | 2 products, 2 titles, 3 files, 2 requests, failures | `CatalogueInv`, `PictureOutlivesRaces` |

Two runs TLC must find violated, disagreements of the code with what it says of
itself (`PROJECT.json`, "findings"). `wd_bug_fee_locked`: "a fee was applied",
but `approve` leaves that fee in `reserved` for ever, with no overlap at all.
`dep_bug_locked_level`: the comment at `level.service.ts:104` excludes
"still-locked funds", but the filter at line 110 is commented out, and a deposit
gives its user a level while it is locked.

Others were met on the way and have no run of their own.

- Where two meet: "Withdraw not pending" is checked before the transaction, and
  reject and approve of one withdrawal both go through (`raced`); two requests, or
  two purchases, compare with the same balance before either takes its part
  (`rushed`); the recovery of a trial and the nightly job, or two runs of it,
  refund the same machine twice (`clashed`); the older of two evaluations may be
  written last, and two first deposits leave the referrer without a commission
  (`disturbed`). The properties except exactly these cases.
- `getUserWallet` "returns { available,reserved,total }" (`wallet.service.ts:14`),
  but `total` adds commissions and rewards to a balance that contains them (line
  66): `TotalIsAvailableAndReserved` in `Rules`, which no run checks, fails after
  one commission or reward. The reports also add up rewards that were REVERSED or
  FAILED: "related earnings have been cleared" (the notification of
  `handleExpiredMachines`) marks rows and leaves the money in the wallet.
- The dashboard's months end with the midnight their last day begins with
  (`dashboard.service.ts:108`): what is earned on that day is in no month.
- A machine bought after the trial expired, while the fund was still ACTIVE (the
  timer lost, or not yet run), is paid with trial money that the recovery does
  not take back: it looks for machines acquired before `expiresAt`. Only the job
  returns it.
- A purchase reserves the whole price and both refunds release what the wallet
  paid: the trial fund's part stays in `reserved` for ever.
- A webhook call of a failed payment that was read while the deposit was PENDING
  marks it FAILED whatever it has become (`deposit.service.ts:234-239`).
- A user starts at level 1 and a first deposit below 100 is announced as
  `LEVEL_UP` when it writes level 0. `handleDailyRewards` skips machines of a
  deleted product, which `Catalogue` shows somebody may own.

### Bounds

Money is in cents. Withdrawal amounts are 50.00, the least allowed, and 50.17,
whose fee is rounded. Deposits are 60.00 (below level 1 alone, above it in
pairs), 500.00 (level 2 at once) and 60.50 (does not fit `Transaction.amount`).
Two handlers are enough for every race between two of them; a third would only
repeat one of the two, as no handler looks at how many others there are. Two
withdrawals let a user have one open and one settled, three let one user have
both while another requests. Two deposits are a first and a second one, or two
that each take the other for the first. Two machines and two products
(150.00 and 300.00 against a trial fund of 200.00) give machines paid by the
trial fund, by the wallet and by both, two machines of one product, and a
level reached by the first purchase that the second needs; two purchases and two
runs of the job in flight (`mach_overlap`) meet each other, the recovery and the
rewards; one reward run is enough for rewards before and after a machine has
ended. Every run explores all
reachable states, no depth is cut. `accounts` gives ids and codes to two
signups, one of which may name the other's new user as referrer, and two
connections, so that two signups hold them all; founder 1 alone buys, forgets
passwords and changes address. The founders' teams lack one member on each of
three depths for the next level. `catalogue` has a file for each product and
one to replace it with. `rules` takes four operations, enough for
a deposit with its bonus and commission, a purchase it pays for, a withdrawal,
and the end of the machine or of the withdrawal; a reader stops behind the last
page, and gaps are counted up to `MaxRows`. Symmetry is used for row ids and handlers,
in runs without liveness only. `CHECK_DEADLOCK FALSE` stands in the deposit,
machine, account, catalogue and `rules` configurations because all rows may be
settled and all handlers idle: the finite sets of row ids, and the bounds of
`rules`, end the behaviour, not the system. `Room` keeps purchases from
starting that would find no row id left.

### Fairness

`wd_overlap`: time passes (`Age`); cron starts the job every hour (weak fairness
of `FlagRead`); a job that is cut short by a crash is not cut short for ever
(strong fairness of `FlagCommit`). Operators are not assumed to act.
`dep_live`: the gateway repeats an unanswered call (strong fairness of
`IpnRead`, which is disabled while other calls are at work); a handler goes on
unless it fails; PostgreSQL grants a row lock in turn (strong fairness of
`IpnCredit`); failures stop at some time, without which nothing could be
promised.
`mach_serial`: purchases and recoveries end; cron starts the job again and again
and it goes on (weak fairness), to each user in its turn as soon as no other
handler is at work for that user (strong fairness of `ExpiryFind`); failures
stop at some time. Timers are not assumed to survive.
`accounts_live`: a request that needs a connection gets one if one stays free,
and goes on (weak fairness of `ConnectionFree /\ Asks`); a transaction goes on
with its inserts and its commit; Prisma's time limit strikes what is left open
(weak fairness of `TimesOut`). Nothing is assumed of failures. Two signups
that each hold a connection and wait for another are freed by the limit only.

## Proofs

Every invariant and action property that a passing run checks is also a theorem,
for every value of the constants that satisfies the named assumptions
(`WithdrawalsAssumption`, `DepositsAssumption`, `MachinesAssumption`,
`AccountsAssumption`, `CatalogueAssumption`, `RulesAssumption`). These say what
kind of thing a constant is: sets of rows and handlers are finite, amounts and
prices are natural numbers of cents, nobody is the null of a table. Only
`Refinement` and `ReservedIsAccountedFor` have a hypothesis of their own,
`~Overlap`; all other theorems hold whatever overlaps and fails, and what the
code does not protect is excepted by a history variable in the property itself:
two steps that were under way together and met, not a mode of use. The
inductive invariants below were checked by TLC on the runs' instances before
they were proved.

- `Withdrawals_proofs`: type correctness; `FundsConserved`, which is inductive
  together with the type invariant because each transaction moves what it
  takes (`MoveSum`); `TotalTellsPayment`, which needs that the amount a handler
  read is the row's (`AmountReadIsRows`) and that an absent row was never paid.
  `SettledOnce` and `BalanceNeverNegative` are not inductive: a state in which a
  handler holds a stale row satisfies them and the next step breaks them.
  `OnePerRow` adds that a row no two have held is held while it is PENDING, by
  one handler or by the job, and has no payment yet; `OneRequestPerUser` that the
  money the only request of a user has seen is still there, as everything else
  that races for the wallet only adds to it (`TotalsAreGross`: reject returns
  what request took). Handlers that end leave fewer (`FewerHandlers`), and two
  that meet are recorded (`MeetingIsRecorded`). Without overlap, `SerialInv` says
  that what a handler has read is still so when it writes: `ReservedIsExplained`
  is then inductive, as a transaction changes one row's share of the sum by what
  it moves (`OneRowHolds`), and `Refinement` maps each transaction to one step of
  `WithdrawalContract` and all else to stuttering.
- `LevelRules_proofs`: some row of the matrix is always met, so the scan is
  total and its result is a level; and more deposits or a larger team never
  lower it (`LevelMonotone`).
- `Sums_proofs`: `SumFunctionOnSet` is defined by recursion on a set, and the
  library's induction over finite sets takes an operator, which the provers
  cannot instantiate. The laws are proved without it: among the subsets for
  which a law failed there would be a smallest one (`MinimalSubset`, from the
  well-foundedness of strict subsets), and taking one element from it gives a
  contradiction. So the recursion has a solution (`SumsExist`), any two agree
  (`SumsAgree`), and a sum may be split, changed at one place, or counted by
  fibres (`SumSplit`, `SumChange`, `SumOfFibres`, `SumOfParts`).
- `Deposits_proofs`: type correctness; `FirstBonusOnce`, through
  `LockHolderKnows`: at most one handler holds a user's wallet row, its copy of
  `firstDepositBonus` is the flag, and no bonus was given while the flag is
  unset; `CreditedOnce`, through `CheckHolds`: what the only handler of a deposit
  found PENDING is PENDING until it settles it, whichever outcomes are announced.
  `BalanceIsTraceable` bounds a balance from two sides and is not inductive, as
  paying a commission must keep it below what the rows say. `Traced` adds what
  handlers have written down and not yet paid, or paid and not yet entered
  (`InFlight`). `LevelIsEarned` is stated over what was credited, because a
  contradictory call may turn a SUCCESS deposit into a FAILED one and the sum a
  level is computed from may shrink; what was credited only grows
  (`EarnedGrows`), so a level about to be written stays earned
  (`TargetIsEarned`). `CommissionOnce` follows from `ClaimsAreSingle`: whoever is
  about to write a commission row has seen no other SUCCESS deposit, its own is
  one, and so no later handler passes the same check, unless a deposit of the
  user was in two calls at once. For `RewardsComplete` and `LevelIsGranted` the
  invariant `ServedInv` says of each user not `disturbed` that the only handler
  at work is on its way to do what is missing, or nothing is; `FlagMeansBonus`
  says that the flag and the bonus come together, for every user.
- `Machines_proofs`: type correctness, which needs that the trial fund never
  pays more of a machine than its price (`SplitFits`), that a row's two payments
  are its price (`RowsAddUp`), and that jobs hold machines that exist
  (`FoundExist`); and `LevelFollowsPoints`, for which a purchase's award is the
  one new machine's share of a sum. The accounts rest on `BooksInv`, which holds
  whatever overlaps. Its part on money that is refunded is `HeldInv`: what
  recoveries and jobs hold is ACTIVE still, unless it clashed (`FoundStand`); no
  machine is held twice, unless it clashed (`HeldOnce`); and of the machines the
  wallet paid, a job ends none that it has not found (`NothingMissed`), although
  it marks whatever is expired when it commits. So each refund gives back what
  the machines it ends had cost (`RecoveryPays`, `RefundPays`), and
  `BalanceIsExplained` and `ReservedIsExplained` are kept for users without a
  clashed machine. The trial fund's usage needs more: for users of whom no two of
  purchase, recovery and refund met, handlers are apart (`Apart`), what is held
  is exactly what there is to end (`FoundIsFresh`), and a purchase still gets
  from the fund what it has read (`FundHolds`); `TrialUsageIsExplained` alone is
  not inductive, as the job's subtraction stays above zero only because the
  usage is explained. For `NeverOverdrawn`, a purchase that is the user's only
  one finds at least the balance it read (`BuyCovered`): refunds and rewards
  only add to it. The daily rewards overlap with all of it: each pays one row of
  the reward table and at most three shares of it to referrers, and a sum over
  users, products and runs changes at one place.
- `Accounts_proofs`: `AccountsInv` is inductive. `ReferrerCameFirst` alone is
  not: the referrer of a row not yet committed has to be a member with a
  smaller id, the rows not committed have ids nobody else has, and ids are
  enough for all who are going to insert (`IdsInOrder`, over the cardinality of
  `Inserting`). `SpentIsUsed` needs that a code belongs to one user, also while
  a request that has checked it is under way (`CodesInOrder`); `CodeDiesWithUse`
  follows, as only `ResetRead` begins a reset and it looks at the flag.
  `TeamsAgree` holds of any table whose referrers are members: the recursion
  by which the tree is built has a solution, made up to its depth of ten, and
  any solution begins with the three levels of the team (`TreeLevels`); the
  summary counts the same members by the member they are below (`SumOfFibres`).
  `LevelIsEarned` follows from `LevelInv`: every level stored, and every level
  an evaluation is going to write, is at most what the user's team deserves
  now, since members stay (`MembersStay`), teams only grow (`TeamGrows`) and
  more never lowers the level (`LevelMonotone`).
- `Catalogue_proofs`: `CatalogueInv` is inductive: what a request has checked
  is still so, or the request was overtaken by one that was under way with it.
  `PictureOutlivesRaces` follows from `PictureInv`: a file belongs to one row or
  to one upload under way, and a request removes no file but one its own
  product had.
- `Rules_proofs`: the invariant has one part for each question.
  `ScanGrantsTheHighest` compares the first row that is met with the set of
  levels that are (`GrantedRows`). For `EarningsAddUp` it is `Balanced`: a
  user's balance and reserved together are what came to that user less what
  was approved, which each operation keeps (`DepositKeepsBalance`,
  `RejectKeepsBalance`, `BuyKeepsBalance`, `RefundKeepsBalance` and their like);
  that the reports agree holds of any tables (`ReportsOfTables`), by adding up
  one sum in two ways (`SumOfParts`). For `PagesMissNothing` it is `ReadingInv`:
  no more rows of those there from the start stand at a place that was read
  without having been shown (`Passed`) than have left the list or moved to its
  back. Adding a row anywhere keeps the order of the others and so no rank
  drops (`RankGrows`); a row that leaves or moves back lets one row slip
  (`RankDrops`, `OneSlips`), and only one row had the rank behind the last page
  read (`RankIsInjective`); a page that ends the list leaves no place unread
  (`AnswerIs`, for each of the eleven lists).

The proofs made some things plain that an instance does not show. The
administrator who is paid for the machines may have referred users, and then
gets shares of their rewards like anybody else; the level table may hold a row
for 0 points, and `awardPoints` returns early for a purchase worth none, so `LevelFollowsPoints` is
stated for users with points.

Only model-checked: the liveness properties (`EveryRequestIsAnswered`,
`RequestIsAnswered`, `PaidIsCredited`, `ExpiredIsRefunded`), since fairness and
ENABLED are beyond the prover.

## Plan

TLC's runs are kept to a dozen: a new question takes the place of the weakest
one. In the order of what matters most and is not yet there:

1. `Machines`, deeper: a second reward run on one day, which the comment at
   `jobs.service.ts:511` excludes and a second trigger starts, also beside a run
   that is under way; who is paid by a run that is cut short.
2. The level of a user in `Machines` with `evaluateUserLevel` running: `Accounts`
   has the two writers of the column, `LevelFollowsPoints` holds only without
   the second.
3. An abstract contract for deposits (paid, credited, granted) that `Deposits`
   implements when calls of a user do not overlap, as `WithdrawalContract` is
   for withdrawals; and an abstract ledger for `Machines`.
4. The `Level` table's CRUD, `suspendUser`.

Theorems worth proving next: the contracts of 3 as refinements, once stated;
`ReservedIsExplained` of `Withdrawals` with overlap, for users none of whose rows
was held twice, as `Machines` has it; `EveryRequestIsAnswered` and its like
without fairness, as what each step brings nearer.


## Not modelled

- Notifications: best effort, nothing reads them back. Agreements: the CRUD of a
  text. Mail, image resizing, guards, filters, the database client: framework
  wiring and pure input and output.
- The payment client: its only call is commented out. `user-product.job.ts` is
  dead, its module is imported nowhere; so is `UserService.userReward`, whose
  route calls `RewardService`.
- `changePassword` writes one column nobody else writes. `suspendUser` sets a
  status that lists show and nothing else reads: `JwtStrategy.validate` ignores
  it, so a suspended user's requests go on as before.
- The CRUD of the `Level` table, which is a constant of `Accounts` and `Machines`;
  queries of a single row or of the five latest.
- Withdrawals, deposits, machines and accounts over one database at once: their
  product is beyond TLC, and what they share is the wallet, written by increments
  that commute.
- Decimal columns are exact integers of cents; amounts with more than two
  decimals, which the validation allows for deposits, are not considered.
